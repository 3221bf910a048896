-------------------------- MODULE SystemProxyProof --------------------------
(***************************************************************************)
(* What SystemProxy promises.  The invariant says which runs of the helper *)
(* can still be due in which situation, that the mode in the menu is the   *)
(* saved one, and how the saved preference, the menu and the system are    *)
(* related while runs are due, so that a crash may come at any time; for   *)
(* the one crash that is not repaired it says what it leaves.              *)
(***************************************************************************)
EXTENDS SystemProxy, TLAPS

(* The four lists of runs that are ever due. *)
Nil    == <<>>
On     == <<"on">>
Off    == <<"off">>
Reload == <<"off", "on">>
Lists  == {Nil, On, Off, Reload}

LEMMA ListFacts ==
  /\ On # Nil /\ Off # Nil /\ Reload # Nil
  /\ On # Off /\ On # Reload /\ Off # Reload
  /\ Head(On) = "on" /\ Tail(On) = Nil
  /\ Head(Off) = "off" /\ Tail(Off) = Nil
  /\ Head(Reload) = "off" /\ Tail(Reload) = On
<1>1. On # Nil /\ Off # Nil /\ Reload # Nil
  BY DEF On, Nil, Off, Reload
<1>2. On # Off /\ On # Reload /\ Off # Reload
  <2>1. On[1] = "on" /\ Off[1] = "off" /\ Reload[1] = "off"
    BY DEF On, Off, Reload
  <2>2. Len(Off) = 1 /\ Len(Reload) = 2
    BY DEF Off, Reload
  <2>3. QED
    BY <2>1, <2>2
<1>3. Head(On) = "on" /\ Tail(On) = Nil
  BY DEF On, Nil
<1>4. Head(Off) = "off" /\ Tail(Off) = Nil
  BY DEF Off, Nil
<1>5. Head(Reload) = "off" /\ Tail(Reload) = On
  BY DEF Reload, On
<1>6. QED
  BY <1>1, <1>2, <1>3, <1>4, <1>5

(* What may be due: a run that switches off only while Shadowsocks is on,  *)
(* and at the end of the application one that leaves it off.               *)
Due ==
  /\ todo \in Lists
  /\ todo = Off \/ todo = Reload => isRunning
  /\ after = "nothing" => todo # Off
  /\ after # "nothing" => todo # Reload
  /\ after = "save" /\ todo = On => ~isRunning
  /\ after = "quit" => todo # On /\ (todo = Nil => ~isRunning)
  /\ ~Alive => todo = Nil /\ after = "nothing"

ModeSaved == runningMode \in Modes /\ runningMode = SavedMode

(* Unless "on" is about to be saved, the preference does not say "off"     *)
(* while Shadowsocks is on or about to be on again.                        *)
Wish ==
  Alive /\ (after = "save" => todo = Off) /\ (isRunning \/ todo = On \/ todo = Reload)
    => prefOn # FALSE

(* Between events, and when the only run due is the first one of           *)
(* toggleRunning.                                                          *)
Agree ==
  Alive /\ sound /\ (todo = Nil \/ (todo = On /\ after = "save")) =>
    /\ isRunning => system = runningMode
    /\ ~isRunning => (system \in Modes <=> stranded)

(* What the crash that is not repaired leaves. *)
Left == sound /\ stranded => system \in Modes

ProxyInv == Due /\ ModeSaved /\ Wish /\ Agree /\ Left /\ NothingLeftBehind

LEMMA InitProxy == ASSUME Init PROVE ProxyInv
<1> USE SystemProxyAssumption
<1>1. Due
  BY DEF Init, Due, Lists, Alive, Nil, On, Off, Reload
<1>2. ModeSaved
  BY DEF Init, ModeSaved, SavedMode, Modes
<1>3. Wish /\ Agree /\ Left /\ NothingLeftBehind
  BY DEF Init, Wish, Agree, Left, NothingLeftBehind, Alive
<1>4. QED
  BY <1>1, <1>2, <1>3 DEF ProxyInv

-----------------------------------------------------------------------------
(* One lemma per kind of step. *)

LEMMA StepLaunch == ASSUME ProxyInv, Launch PROVE ProxyInv'
<1> USE ListFacts DEF ProxyInv, Launch, Toggles, pref, past, Alive
<1>1. todo' = IF prefOn = FALSE THEN Nil ELSE On
  BY DEF Nil, On
<1>2. Due'
  BY <1>1 DEF Due, Lists
<1>3. ModeSaved'
  BY DEF ModeSaved, SavedMode
<1>4. Wish'
  BY <1>1 DEF Wish
<1>5. Agree'
  BY <1>1 DEF Agree, Left, NothingLeftBehind
<1>6. Left' /\ NothingLeftBehind'
  BY DEF Left, NothingLeftBehind
<1>7. QED
  BY <1>2, <1>3, <1>4, <1>5, <1>6

LEMMA StepToggle == ASSUME ProxyInv, ToggleSystemProxy PROVE ProxyInv'
<1> USE ListFacts DEF ProxyInv, ToggleSystemProxy, Helper, pref, Alive
<1>1. todo \in {On, Off, Reload}
  BY DEF Due, Lists, Nil
<1>2. Due'
  BY <1>1 DEF Due, Lists
<1>3. ModeSaved'
  BY DEF ModeSaved, SavedMode
<1>4. Wish'
  BY <1>1 DEF Due, Wish
<1>5. Agree'
  BY <1>1 DEF Agree, Due, ModeSaved, Modes, SavedMode
<1>6. Left' /\ NothingLeftBehind'
  BY DEF Left, NothingLeftBehind
<1>7. QED
  BY <1>2, <1>3, <1>4, <1>5, <1>6

(* What an event of the idle application leads to. *)
LEMMA StepEvent ==
  ASSUME ProxyInv, Idle, UNCHANGED <<life, isRunning, system, past, prefOn>>,
         runningMode' \in Modes, runningMode' = SavedMode',
         \/ /\ todo' = (IF isRunning THEN Reload ELSE Nil) /\ after' = "nothing"
         \/ todo' = (IF isRunning THEN Off ELSE On) /\ after' = "save"
         \/ todo' = (IF isRunning THEN Off ELSE Nil) /\ after' = "quit"
  PROVE  ProxyInv'
<1> USE ListFacts DEF ProxyInv, Idle, Alive, past
<1>0. todo = Nil /\ after = "nothing"
  BY DEF Nil
<1>1. Due'
  BY <1>0 DEF Due, Lists
<1>2. ModeSaved'
  BY DEF ModeSaved
<1>3. Wish'
  BY <1>0 DEF Wish
<1>4. Agree'
  BY <1>0 DEF Agree
<1>5. Left' /\ NothingLeftBehind'
  BY DEF Left, NothingLeftBehind
<1>6. QED
  BY <1>1, <1>2, <1>3, <1>4, <1>5

LEMMA StepEvents ==
  ASSUME ProxyInv,
         \/ ToggleRunning \/ OnPACChange \/ WillTerminate
         \/ \E mode \in Modes : Enable(mode)
  PROVE  ProxyInv'
<1> USE DEF ProxyInv, ModeSaved, SavedMode, Toggles, pref, Nil, On, Off, Reload
<1>1. CASE ToggleRunning
  BY <1>1, StepEvent DEF ToggleRunning
<1>2. CASE OnPACChange
  BY <1>2, StepEvent DEF OnPACChange, ReloadSystemProxy
<1>3. CASE WillTerminate
  BY <1>3, StepEvent DEF WillTerminate
<1>4. ASSUME NEW mode \in Modes, Enable(mode) PROVE ProxyInv'
  <2>1. runningMode' = SavedMode'
    BY <1>4, SystemProxyAssumption DEF Enable
  <2>2. QED
    BY <1>4, <2>1, StepEvent DEF Enable, ReloadSystemProxy
<1>5. QED
  BY <1>1, <1>2, <1>3, <1>4

LEMMA StepEnd == ASSUME ProxyInv, SaveRunning \/ Exit PROVE ProxyInv'
<1> USE ListFacts DEF ProxyInv, Alive, past
<1>1. CASE SaveRunning
  <2> USE <1>1 DEF SaveRunning
  <2>1. Due'
    BY DEF Due, Nil
  <2>2. ModeSaved'
    BY DEF ModeSaved, SavedMode
  <2>3. Wish'
    BY DEF Wish, Nil
  <2>4. Agree' /\ Left' /\ NothingLeftBehind'
    BY DEF Agree, Left, NothingLeftBehind, Nil
  <2>5. QED
    BY <2>1, <2>2, <2>3, <2>4
<1>2. CASE Exit
  <2> USE <1>2 DEF Exit, pref
  <2>1. Due'
    BY DEF Due, Nil
  <2>2. ModeSaved'
    BY DEF ModeSaved, SavedMode
  <2>3. Wish' /\ Agree'
    BY DEF Wish, Agree
  <2>4. Left' /\ NothingLeftBehind'
    BY DEF Due, Agree, Left, NothingLeftBehind, Nil
  <2>5. QED
    BY <2>1, <2>2, <2>3, <2>4
<1>3. QED
  BY <1>1, <1>2

LEMMA StepKilled == ASSUME ProxyInv, Killed PROVE ProxyInv'
<1> USE ListFacts DEF ProxyInv, Killed, Toggles, pref, Alive
<1>1. todo' = Nil
  BY DEF Nil
<1>2. Due'
  BY <1>1 DEF Due, Lists
<1>3. ModeSaved'
  BY DEF ModeSaved, SavedMode
<1>4. Wish' /\ Agree'
  BY DEF Wish, Agree
<1>5. OnUnsaved /\ sound => system \in Modes
  BY DEF OnUnsaved, Agree, ModeSaved, Nil
<1>6. Left'
  BY <1>5 DEF Left
<1>7. NothingLeftBehind'
  <2> SUFFICES ASSUME sound, ~stranded, ~OnUnsaved, system \in Modes
               PROVE  prefOn # FALSE
    BY DEF NothingLeftBehind
  <2>1. CASE todo = Nil
    <3>1. isRunning /\ after # "quit"
      BY <2>1 DEF Agree, Due
    <3>2. QED
      BY <2>1, <3>1 DEF OnUnsaved, Wish, Nil
  <2>2. CASE todo = On
    <3>1. after # "save"
      BY <2>2 DEF Agree, Due
    <3>2. QED
      BY <2>2, <3>1 DEF Wish
  <2>3. CASE todo = Off \/ todo = Reload
    BY <2>3 DEF Due, Wish
  <2>4. QED
    BY <2>1, <2>2, <2>3 DEF Due, Lists
<1>8. QED
  BY <1>2, <1>3, <1>4, <1>6, <1>7

LEMMA StepOther == ASSUME ProxyInv, UserSets \/ UNCHANGED vars PROVE ProxyInv'
<1> USE DEF ProxyInv, app, pref, Alive
<1>1. /\ UNCHANGED <<life, isRunning, runningMode, todo, after, prefOn, prefMode>>
      /\ ~sound' \/ UNCHANGED <<system, sound, stranded>>
  BY DEF UserSets, vars, past
<1>2. Due'
  BY <1>1 DEF Due
<1>3. ModeSaved'
  BY <1>1 DEF ModeSaved, SavedMode
<1>4. Wish'
  BY <1>1 DEF Wish
<1>5. Agree'
  BY <1>1 DEF Agree
<1>6. Left' /\ NothingLeftBehind'
  <2>1. CASE ~sound'
    BY <2>1 DEF Left, NothingLeftBehind
  <2>2. CASE UNCHANGED <<system, sound, stranded>>
    BY <1>1, <2>2 DEF Left, NothingLeftBehind
  <2>3. QED
    BY <1>1, <2>1, <2>2
<1>7. QED
  BY <1>2, <1>3, <1>4, <1>5, <1>6

LEMMA NextProxy == ASSUME ProxyInv, [Next]_vars PROVE ProxyInv'
BY StepLaunch, StepToggle, StepEvents, StepEnd, StepKilled, StepOther DEF Next

LEMMA ProxyInvariant == Spec => []ProxyInv
BY InitProxy, NextProxy, PTL DEF Spec

-----------------------------------------------------------------------------
(* The types: the invariant knows which runs are due and the mode shown.   *)
LEMMA ListsAreSeqs == ASSUME NEW q \in Lists PROVE q \in Seq({"on", "off"})
<1>1. Nil \in Seq({"on", "off"}) /\ On \in Seq({"on", "off"})
  BY DEF Nil, On
<1>2. Off \in Seq({"on", "off"}) /\ Reload \in Seq({"on", "off"})
  BY DEF Off, Reload
<1>3. QED
  BY <1>1, <1>2 DEF Lists

LEMMA InitTypes == ASSUME Init PROVE TypeOK
<1>1. todo = Nil /\ Nil \in Lists
  BY DEF Init, Nil, Lists
<1>2. todo \in Seq({"on", "off"})
  BY <1>1, ListsAreSeqs
<1>3. QED
  BY <1>2 DEF Init, TypeOK, Modes

LEMMA NextTypes == ASSUME TypeOK, ProxyInv, ProxyInv', [Next]_vars PROVE TypeOK'
<1>1. /\ todo' \in Seq({"on", "off"}) /\ runningMode' \in Modes
      /\ SavedMode \in Modes
  <2>1. todo' \in Lists /\ runningMode' \in Modes
    BY DEF ProxyInv, Due, ModeSaved
  <2>2. SavedMode \in Modes
    BY DEF ProxyInv, ModeSaved
  <2>3. QED
    BY <2>1, <2>2, ListsAreSeqs
<1>2. CASE Launch
  BY <1>1, <1>2 DEF Launch, Toggles, TypeOK, pref, past
<1>3. CASE ToggleSystemProxy
  <2>1. isRunning' \in BOOLEAN /\ UNCHANGED <<life, after, prefOn, prefMode>>
    BY <1>3 DEF ToggleSystemProxy, pref
  <2>2. system' \in Modes \cup {"off", Own} /\ sound' \in BOOLEAN /\ stranded' \in BOOLEAN
    BY <1>1, <1>3 DEF ToggleSystemProxy, Helper, TypeOK
  <2>3. QED
    BY <2>1, <2>2, <1>1 DEF TypeOK
<1>4. CASE \/ ToggleRunning \/ OnPACChange \/ WillTerminate \/ Exit \/ SaveRunning
           \/ Killed \/ UserSets \/ UNCHANGED vars
  BY <1>1, <1>4
     DEF ToggleRunning, OnPACChange, WillTerminate, Exit, SaveRunning, Killed,
         UserSets, ReloadSystemProxy, Toggles, TypeOK, vars, app, pref, past
<1>5. CASE \E mode \in Modes : Enable(mode)
  BY <1>1, <1>5 DEF Enable, ReloadSystemProxy, Toggles, TypeOK, past
<1>6. QED
  BY <1>2, <1>3, <1>4, <1>5 DEF Next

(* What the menu, the preferences and the system say is always one of what *)
(* they can mean, whatever crashed and whoever changed the settings.       *)
THEOREM ProxyTypes == Spec => []TypeOK
<1>1. Init => TypeOK
  BY InitTypes
<1>2. TypeOK /\ ProxyInv /\ ProxyInv' /\ [Next]_vars => TypeOK'
  BY NextTypes
<1>3. QED
  BY <1>1, <1>2, ProxyInvariant, PTL DEF Spec

(* The system does what the menu says whenever nothing is under way and    *)
(* the helper worked, after any crashes and restarts but one: that between *)
(* switching on and saving it over a NO, after which it is on and the menu *)
(* says off, exactly until the helper runs again.                          *)
THEOREM MenuAlwaysAgrees == Spec => []MenuAgrees
<1>1. ProxyInv => MenuAgrees
  BY DEF ProxyInv, Agree, MenuAgrees, Idle, Nil
<1>2. QED
  BY <1>1, ProxyInvariant, PTL

(* Quitting leaves no settings behind, and a crash only such as the next   *)
(* start takes over, if it is not the crash between switching on and       *)
(* saving it over a NO.                                                    *)
THEOREM QuitCleansUp == Spec => []NothingLeftBehind
<1>1. ProxyInv => NothingLeftBehind
  BY DEF ProxyInv
<1>2. QED
  BY <1>1, ProxyInvariant, PTL

(* The application changes the settings only if it is on before or after.  *)
THEOREM OffMeansHandsOff == Spec => HandsOff
<1>1. ProxyInv /\ [Next]_vars =>
        [system' # system /\ todo' # todo => isRunning \/ isRunning']_vars
  <2> SUFFICES ASSUME ProxyInv, Next, system' # system, todo' # todo
               PROVE  isRunning \/ isRunning'
    OBVIOUS
  <2>1. ToggleSystemProxy
    BY DEF Next, Launch, ToggleRunning, SaveRunning, Enable, OnPACChange,
           WillTerminate, Exit, Killed, UserSets, app
  <2>2. todo \in {On, Off, Reload}
    BY <2>1 DEF ToggleSystemProxy, Helper, ProxyInv, Due, Lists, Nil
  <2>3. QED
    BY <2>1, <2>2, ListFacts DEF ToggleSystemProxy, Helper, ProxyInv, Due
<1>2. QED
  BY <1>1, ProxyInvariant, PTL DEF Spec, HandsOff
=============================================================================
