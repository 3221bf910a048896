----------------------------- MODULE MCSettings ------------------------------
(* Settings with one server of each kind; the public one is the OpenSSL one. *)
EXTENDS Settings
=============================================================================
