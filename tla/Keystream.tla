------------------------------ MODULE Keystream ------------------------------
(***************************************************************************)
(* The stream positions of encrypt.c's salsa20 and chacha20 contexts.      *)
(* libsodium encrypts from a block number, not from a byte, so an          *)
(* encryption_ctx remembers the block (ic) and how many bytes of it are    *)
(* used up (bytes_remaining), and cipher_update runs the cipher over that  *)
(* many bytes of padding first, in a scratch buffer of fixed size that all *)
(* contexts share.                                                         *)
(*                                                                         *)
(* Two contexts at the two ends of one TCP stream are modelled: "enc",     *)
(* whose chunks are what encrypt_buf was called with, and "dec", whose     *)
(* chunks are what recv returned, cut wherever TCP cut them.  A byte of    *)
(* ciphertext is the index of the keystream byte it was combined with; it  *)
(* decrypts if "dec" combines it with the same one.                        *)
(***************************************************************************)
EXTENDS Integers, Sequences

CONSTANTS Block,     \* SODIUM_BLOCK_SIZE
          IVLen,     \* encryption_iv_len[_method]
          MaxChunk,  \* the longest buffer ever passed in: BUF_SIZE
          Scratch,   \* the size of sodium_buf
          MaxBytes   \* bound on the plaintext

ASSUME KeystreamAssumption ==
  /\ Block \in Nat \ {0} /\ IVLen \in Nat \ {0} /\ MaxChunk \in Nat \ {0}
  /\ MaxBytes \in Nat
  /\ Scratch \in Nat /\ Scratch >= MaxChunk + Block

VARIABLES status,   \* ctx->status of each context: "empty" or "init"
          ic,       \* ctx->ic
          rem,      \* ctx->bytes_remaining
          wire,     \* the ciphertext sent so far, after the IV
          taken,    \* how much of it "dec" has been given
          noise,    \* how many bytes decrypted to something else
          scratch   \* how much of sodium_buf the last update used

vars == <<status, ic, rem, wire, taken, noise, scratch>>

Contexts == {"enc", "dec"}

TypeOK ==
  /\ status \in [Contexts -> {"empty", "init"}]
  /\ ic \in [Contexts -> Nat] /\ rem \in [Contexts -> Nat]
  /\ wire \in Seq(Nat) /\ taken \in 0..Len(wire)
  /\ noise \in Nat /\ scratch \in Nat

(* init_encryption.  ic and bytes_remaining are set by init_cipher; until  *)
(* then nothing reads them.                                                *)
Init ==
  /\ status = [c \in Contexts |-> "empty"]
  /\ ic = [c \in Contexts |-> 0] /\ rem = [c \in Contexts |-> 0]
  /\ wire = <<>> /\ taken = 0 /\ noise = 0 /\ scratch = 0

(* A bug: the padding moves the position the wrong way. *)
KeyIndexBehind(c, i) == ic[c] * Block - rem[c] + i - 1

(* The index of the keystream byte that the i-th byte of the next chunk is *)
(* combined with.                                                          *)
KeyIndex(c, i) == ic[c] * Block + rem[c] + i - 1

(* Two bugs: the bytes already used up do not count for the block number;  *)
(* or only whole chunks move it.                                           *)
UpdateLosesPadding(c, n) ==
  /\ scratch' = rem[c] + n
  /\ ic' = [ic EXCEPT ![c] = @ + n \div Block]
  /\ rem' = [rem EXCEPT ![c] = (@ + n) % Block]

UpdateKeepsPadding(c, n) ==
  /\ scratch' = rem[c] + n
  /\ ic' = ic
  /\ rem' = [rem EXCEPT ![c] = @ + n]

(* cipher_update of n bytes: padding and chunk go through sodium_buf.      *)
CipherUpdate(c, n) ==
  /\ scratch' = rem[c] + n
  /\ ic' = [ic EXCEPT ![c] = @ + (rem[c] + n) \div Block]
  /\ rem' = [rem EXCEPT ![c] = (@ + n) % Block]

(* encrypt_buf of n bytes; the first call also makes the IV, which goes    *)
(* out in front, and starts the context at block 0.                        *)
EncryptBuf ==
  /\ \E n \in 1..MaxChunk :
       /\ Len(wire) + n <= MaxBytes
       /\ wire' = wire \o [i \in 1..n |-> KeyIndex("enc", i)]
       /\ CipherUpdate("enc", n)
  /\ status' = [status EXCEPT !["enc"] = "init"]
  /\ UNCHANGED <<taken, noise>>

(* decrypt_buf of a chunk of r bytes off the wire.  The first one starts   *)
(* with the IV, here assumed whole: module Relay has the other case.       *)
DecryptBuf ==
  /\ status["enc"] = "init"
  /\ \E r \in 1..MaxChunk, n \in 0..MaxChunk :
       /\ IF status["dec"] = "empty" THEN r = n + IVLen ELSE r = n
       /\ taken + n <= Len(wire)
       /\ taken' = taken + n
       /\ noise' = IF \A i \in 1..n : wire[taken + i] = KeyIndex("dec", i)
                     THEN noise ELSE noise + n
       /\ CipherUpdate("dec", n)
  /\ status' = [status EXCEPT !["dec"] = "init"]
  /\ UNCHANGED wire

Next == EncryptBuf \/ DecryptBuf

Spec == Init /\ [][Next]_vars

-----------------------------------------------------------------------------
(* ic and bytes_remaining always point just past the last byte processed,  *)
(* however the stream was cut into chunks.                                 *)
Aligned ==
  /\ ic["enc"] * Block + rem["enc"] = Len(wire)
  /\ ic["dec"] * Block + rem["dec"] = taken
  /\ \A c \in Contexts : rem[c] < Block

(* No keystream byte is used for two bytes of the stream, none is skipped, *)
(* and the other end, with chunks of its own, decrypts every byte.         *)
RoundTrip ==
  /\ \A j \in 1..Len(wire) : wire[j] = j - 1
  /\ noise = 0

(* Padding and chunk together fit into sodium_buf. *)
ScratchFits == scratch <= Scratch
=============================================================================
