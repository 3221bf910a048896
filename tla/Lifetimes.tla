------------------------------ MODULE Lifetimes ------------------------------
(***************************************************************************)
(* What accept_cb promises of connections: the two structs of one come     *)
(* into being together, go one by one or together, and one connection      *)
(* begins or ends at a time.                                               *)
(***************************************************************************)
CONSTANT Clients
VARIABLE live

Endpoints == {"server", "remote"}

Init == live = [c \in Clients |-> {}]

Begin(c) ==
  /\ live[c] = {}
  /\ live' = [live EXCEPT ![c] = Endpoints]

End(c) ==
  \E E \in SUBSET live[c] :
    /\ E # {}
    /\ live' = [live EXCEPT ![c] = @ \ E]

Next == \E c \in Clients : Begin(c) \/ End(c)

Spec == Init /\ [][Next]_live
=============================================================================
