------------------------------- MODULE MCTabs -------------------------------
(* A bounded instance of Tabs for TLC. *)
EXTENDS Tabs

(* Bound: at most one page at a time is at another address than the one new *)
(* tabs are opened with.                                                    *)
OnePageAway == \A p, q \in {r \in DOMAIN url : url[r] # NewTabUrl} : p = q
=============================================================================
