---------------------------- MODULE MCTableCipher ----------------------------
(* A bounded instance of TableCipher for TLC. *)
EXTENDS TableCipher
=============================================================================
