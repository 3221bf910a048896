---------------------------- MODULE MCBackground -----------------------------
(* Background with a few visits to the background.                           *)
EXTENDS Background
=============================================================================
