-------------------------------- MODULE Pipe --------------------------------
(***************************************************************************)
(* What the relay promises about ONE direction of a tunnelled connection,  *)
(* with no buffers, watchers or cipher: bytes are produced at one end and  *)
(* come out at the other in order, none lost, none twice; a direction that *)
(* ends gracefully has delivered everything; nothing comes out of a        *)
(* direction that is not open.                                             *)
(*                                                                         *)
(* Bytes are positions 0, 1, 2, ... of the producer's stream.  The first   *)
(* Start of them belong to the protocol (the SOCKS handshake going up, the *)
(* cipher's IV coming down) and are consumed by the relay itself.          *)
(***************************************************************************)
EXTENDS Naturals

CONSTANT Start

VARIABLES mode,   \* "shut", "open", "spoiled", "done" or "aborted"
          sent,   \* how many bytes the producer has sent
          got     \* the position of the next byte to come out

pipeVars == <<mode, sent, got>>

Modes == {"shut", "open", "spoiled", "done", "aborted"}

Init == mode = "shut" /\ sent = 0 /\ got = Start

Produce == /\ sent' \in Nat /\ sent' > sent
           /\ UNCHANGED <<mode, got>>

Open == /\ mode = "shut"
        /\ mode' = "open"
        /\ UNCHANGED <<sent, got>>

(* The producer's protocol prefix was not recognised: what follows is not  *)
(* a byte stream any more.  Only before the first byte has come out.       *)
Spoil == /\ mode \in {"shut", "open"}
         /\ got = Start
         /\ mode' = "spoiled"
         /\ UNCHANGED <<sent, got>>

Deliver == /\ mode = "open"
           /\ got' > got /\ got' <= sent /\ got' \in Nat
           /\ UNCHANGED <<mode, sent>>

(* Nothing is promised of what a spoiled direction brings. *)
Noise == /\ mode = "spoiled"
         /\ got' \in Nat
         /\ UNCHANGED <<mode, sent>>

Finish == /\ mode = "open"
          /\ got = sent
          /\ mode' = "done"
          /\ UNCHANGED <<sent, got>>

Abort == /\ mode \in {"shut", "open", "spoiled"}
         /\ mode' = "aborted"
         /\ UNCHANGED <<sent, got>>

Next == Produce \/ Open \/ Spoil \/ Deliver \/ Noise \/ Finish \/ Abort

Spec == Init /\ [][Next]_pipeVars
=============================================================================
