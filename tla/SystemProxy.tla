----------------------------- MODULE SystemProxy -----------------------------
(***************************************************************************)
(* The Mac application and the proxy settings of the system: on and off,   *)
(* auto and global, start, quit and crash, and the helper                  *)
(* shadowsocks_sysconf, which changes the settings if it is authorised to  *)
(* and says nothing if it is not.                                          *)
(*                                                                         *)
(* A run of the helper takes long, and the main thread waits for it; the   *)
(* application may be killed before it, or after it (a helper it leaves    *)
(* behind finishes, as if it had run before).  What an event does is a     *)
(* list of runs of the helper and a preference to save after them.         *)
(*                                                                         *)
(* The helper is taken to be installed: without it launch throws, and what *)
(* follows is up to AppKit.                                                *)
(***************************************************************************)
EXTENDS Sequences

CONSTANTS Own,      \* settings the user has made without this application
          NotSaved  \* a preference that was never saved

Modes == {"auto", "global"}

ASSUME SystemProxyAssumption ==
  /\ Own \notin Modes \cup {"off"}
  /\ NotSaved \notin Modes /\ NotSaved # FALSE

VARIABLES
  life,        \* the application: "alive", "quit" or "killed"
  isRunning,   \* Shadowsocks is on
  runningMode, \* the mode the menu shows
  prefOn,      \* kShadowsocksIsRunningKey
  prefMode,    \* kShadowsocksRunningModeKey
  todo,        \* the helper's parameters, for the runs that are to come
  after,       \* what is to be done when they are over
  system,      \* the proxy settings of the system
  sound,       \* history: the last run of the helper was authorised, and
               \* nobody else changed the settings since
  stranded     \* history: after that run, which switched on, the application
               \* was killed with a preference of NO that it was about to
               \* overwrite

app  == <<isRunning, runningMode, todo, after>>
pref == <<prefOn, prefMode>>
past == <<sound, stranded>>
vars == <<life, app, pref, system, past>>

TypeOK ==
  /\ life \in {"alive", "quit", "killed"} /\ isRunning \in BOOLEAN /\ runningMode \in Modes
  /\ prefOn \in BOOLEAN \cup {NotSaved} /\ prefMode \in Modes \cup {NotSaved}
  /\ todo \in Seq({"on", "off"}) /\ after \in {"nothing", "save", "quit"}
  /\ system \in Modes \cup {"off", Own}
  /\ sound \in BOOLEAN /\ stranded \in BOOLEAN

Init ==
  /\ life = "quit" /\ isRunning = FALSE /\ runningMode = "auto"
  /\ prefOn = NotSaved /\ prefMode = NotSaved
  /\ todo = <<>> /\ after = "nothing"
  /\ system = Own /\ sound = TRUE /\ stranded = FALSE

-----------------------------------------------------------------------------
Alive == life = "alive"
Idle == Alive /\ todo = <<>> /\ after = "nothing"

(* - runningMode *)
SavedMode == IF prefMode = NotSaved THEN "auto" ELSE prefMode

Toggles(seq, then) == todo' = seq /\ after' = then

(* initializeProxy: on, unless it was switched off before. *)
Launch ==
  /\ ~Alive
  /\ life' = "alive" /\ isRunning' = FALSE /\ runningMode' = SavedMode
  /\ Toggles(IF prefOn = FALSE THEN <<>> ELSE <<"on">>, "nothing")
  /\ UNCHANGED <<pref, system, past>>

(* shadowsocks_sysconf: every service of the system gets the same          *)
(* settings, or, without authorisation, none does.                         *)
Helper(settings) ==
  \/ system' = settings /\ sound' = TRUE /\ stranded' = FALSE
  \/ sound' = FALSE /\ UNCHANGED <<system, stranded>>

(* toggleSystemProxy: isRunning first, and then the helper, with the mode  *)
(* that is saved.  The answer of the helper is only logged.                *)
ToggleSystemProxy ==
  /\ Alive /\ todo # <<>>
  /\ isRunning' = (Head(todo) = "on")
  /\ todo' = Tail(todo)
  /\ Helper(IF Head(todo) = "on" THEN SavedMode ELSE "off")
  /\ UNCHANGED <<life, runningMode, pref, after>>

(* toggleRunning: the helper, and then the preference. *)
ToggleRunning ==
  /\ Idle
  /\ Toggles(<<IF isRunning THEN "off" ELSE "on">>, "save")
  /\ UNCHANGED <<life, isRunning, runningMode, pref, system, past>>

SaveRunning ==
  /\ Alive /\ todo = <<>> /\ after = "save"
  /\ prefOn' = isRunning /\ after' = "nothing"
  /\ UNCHANGED <<life, isRunning, runningMode, todo, prefMode, system, past>>

(* reloadSystemProxy: off and on again, with the mode there is now. *)
ReloadSystemProxy ==
  Toggles(IF isRunning THEN <<"off", "on">> ELSE <<>>, "nothing")

(* A bug: the mode is not saved before the helper is run. *)
EnableUnsaved(mode) ==
  /\ Idle
  /\ runningMode' = mode
  /\ ReloadSystemProxy
  /\ UNCHANGED <<life, isRunning, pref, system, past>>

(* enableAutoProxy and enableGlobal. *)
Enable(mode) ==
  /\ Idle
  /\ runningMode' = mode /\ prefMode' = mode
  /\ ReloadSystemProxy
  /\ UNCHANGED <<life, isRunning, prefOn, system, past>>

(* A file in ~/.ShadowsocksX changed: edited, or updated from the list. *)
OnPACChange ==
  /\ Idle
  /\ ReloadSystemProxy
  /\ UNCHANGED <<life, isRunning, runningMode, pref, system, past>>

(* A bug: quitting clears the settings whoever made them. *)
TerminateAlways ==
  /\ Idle
  /\ Toggles(<<"off">>, "quit")
  /\ UNCHANGED <<life, isRunning, runningMode, pref, system, past>>

(* A bug: quitting leaves them, for the next start. *)
TerminateLater ==
  /\ Idle
  /\ Toggles(<<>>, "quit")
  /\ UNCHANGED <<life, isRunning, runningMode, pref, system, past>>

(* applicationWillTerminate: off, without saving it. *)
WillTerminate ==
  /\ Idle
  /\ Toggles(IF isRunning THEN <<"off">> ELSE <<>>, "quit")
  /\ UNCHANGED <<life, isRunning, runningMode, pref, system, past>>

Exit ==
  /\ Alive /\ todo = <<>> /\ after = "quit"
  /\ life' = "quit" /\ after' = "nothing"
  /\ UNCHANGED <<isRunning, runningMode, todo, pref, system, past>>

(* toggleRunning has switched on and not yet saved so.  The preference that *)
(* still says NO keeps the next start from looking at the settings.        *)
OnUnsaved == after = "save" /\ todo = <<>> /\ isRunning /\ prefOn = FALSE

(* The application crashes or is killed, at any time. *)
Killed ==
  /\ Alive
  /\ life' = "killed" /\ isRunning' = FALSE
  /\ Toggles(<<>>, "nothing")
  /\ stranded' = (stranded \/ OnUnsaved)
  /\ UNCHANGED <<runningMode, pref, system, sound>>

(* The user, or another program, changes the settings of the system. *)
UserSets ==
  /\ system' \in {"off", Own} \ {system}
  /\ sound' = FALSE
  /\ UNCHANGED <<life, app, pref, stranded>>

Next ==
  \/ Launch \/ ToggleSystemProxy \/ ToggleRunning \/ SaveRunning
  \/ \E mode \in Modes : Enable(mode)
  \/ OnPACChange \/ WillTerminate \/ Exit \/ Killed \/ UserSets

Spec == Init /\ [][Next]_vars

-----------------------------------------------------------------------------
(* When nothing is under way and the helper worked, the system does what   *)
(* the menu says: on in the mode that is checked, or not through this      *)
(* application.  That includes the first moment after a crash and a new    *)
(* start, whatever the application was doing when it crashed, with one     *)
(* exception: a crash after toggleRunning has switched on and before it    *)
(* has saved so over a NO leaves the system on with a menu that says off,  *)
(* until the next run of the helper and no longer.                         *)
MenuAgrees ==
  Idle /\ sound =>
    /\ isRunning => system = runningMode
    /\ ~isRunning => (system \in Modes <=> stranded)

(* Having quit, the application leaves no settings behind that point at a  *)
(* proxy which no longer answers.  Having crashed it may; then the next    *)
(* start takes them over, for it is not one that leaves them alone.  The   *)
(* exception is the same crash as above: after that one the next start     *)
(* does leave them, and so does quitting again.                            *)
NothingLeftBehind ==
  ~Alive /\ sound /\ system \in Modes =>
    stranded \/ (life = "killed" /\ prefOn # FALSE)

(* While Shadowsocks is off and stays off, the application leaves the      *)
(* user's settings alone: a new mode, a new PAC file and quitting included *)
(* ("Fix system proxy settings cleared when exiting with pac turned off",  *)
(* OSXChangeLog.md, 1.0.4).                                                *)
HandsOff ==
  [][system' # system /\ todo' # todo => isRunning \/ isRunning']_vars
=============================================================================
