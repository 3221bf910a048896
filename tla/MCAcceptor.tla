----------------------------- MODULE MCAcceptor ------------------------------
(* Acceptor with three clients and room for two connections.                 *)
EXTENDS Acceptor
=============================================================================
