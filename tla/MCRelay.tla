------------------------------ MODULE MCRelay ------------------------------
(* Bounded instances of Relay for TLC. *)
EXTENDS Relay
=============================================================================
