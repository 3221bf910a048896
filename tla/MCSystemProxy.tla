---------------------------- MODULE MCSystemProxy ----------------------------
(* SystemProxy as it is: its state is finite.                                *)
EXTENDS SystemProxy
=============================================================================
