------------------------------- MODULE Browser -------------------------------
(***************************************************************************)
(* What the iOS browser promises its user, with no tags, tab bar, page     *)
(* objects or cache of web views: a set of open pages, each at an address, *)
(* one of them on the screen; what was saved last comes back after a       *)
(* restart, with the page on the screen that was there when it was saved.  *)
(***************************************************************************)
CONSTANTS Page,       \* identities of pages
          Urls,       \* addresses
          FirstUrl,   \* opened when there is nothing to restore
          LastUrl     \* opened when the last page was closed

VARIABLES open,    \* the address of each open page
          shown,   \* the page on the screen
          disk     \* what was saved: the pages, and the set of shown ones

browserVars == <<open, shown, disk>>

Opened(p, u)  == [q \in DOMAIN open \cup {p} |-> IF q = p THEN u ELSE open[q]]
Without(p)    == [q \in DOMAIN open \ {p} |-> open[q]]
Only(p, u)    == [q \in {p} |-> u]
Nothing       == [pages |-> [q \in {} |-> FirstUrl], shown |-> {}]
Fresh         == Page \ (DOMAIN open \cup DOMAIN disk.pages)

Init == /\ \E p \in Page : open = Only(p, FirstUrl) /\ shown = p
        /\ disk = Nothing

Open == \E p \in Fresh, u \in Urls :
          /\ open' = Opened(p, u)
          /\ shown' = p
          /\ UNCHANGED disk

(* Closing the page on the screen shows another; closing one in the       *)
(* background leaves the screen alone.                                     *)
Close == \E p \in DOMAIN open :
           /\ open' = Without(p)
           /\ shown' \in DOMAIN open \ {p}
           /\ p # shown => shown' = shown
           /\ UNCHANGED disk

CloseLast == /\ DOMAIN open = {shown}
             /\ \E p \in Fresh : open' = Only(p, LastUrl) /\ shown' = p
             /\ UNCHANGED disk

Show == /\ shown' \in DOMAIN open
        /\ UNCHANGED <<open, disk>>

(* A page goes to another address; no other page does. *)
Visit == \E p \in DOMAIN open, u \in Urls :
           /\ open' = [open EXCEPT ![p] = u]
           /\ UNCHANGED <<shown, disk>>

Save == /\ disk' = [pages |-> open, shown |-> {shown}]
        /\ UNCHANGED <<open, shown>>

Restore == /\ open' = disk.pages
           /\ {shown'} = disk.shown
           /\ UNCHANGED disk

StartAnew == /\ \E p \in Page : open' = Only(p, FirstUrl) /\ shown' = p
             /\ disk' = Nothing

Next == Open \/ Close \/ CloseLast \/ Show \/ Visit \/ Save \/ Restore \/ StartAnew

Spec == Init /\ [][Next]_browserVars
=============================================================================
