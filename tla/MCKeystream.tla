----------------------------- MODULE MCKeystream -----------------------------
(* Keystream with blocks of 4 bytes and chunks up to 6, so that chunks stop  *)
(* short of, at and beyond a block boundary, and span more than one.         *)
EXTENDS Keystream
=============================================================================
