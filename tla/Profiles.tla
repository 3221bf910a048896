------------------------------ MODULE Profiles ------------------------------
(***************************************************************************)
(* The servers of the Mac application: the stored configuration            *)
(* (ProfileManager), the servers menu, the preferences window, which edits *)
(* a copy, and the keys of ShadowsocksRunner that the proxy is configured  *)
(* from and that ss:// URLs write past all of them.                        *)
(*                                                                         *)
(* Everything runs on the main thread; an action is one event.  A profile  *)
(* is a record of what it says (server, port, method and password in one)  *)
(* and of its id, which the program does not have: it tells profiles with  *)
(* the same contents apart, for the properties.  Contents are told apart   *)
(* only as a profile does: the port is the integerValue of its text.  Rows *)
(* count from 1; PublicServer stands for current = -1.                     *)
(***************************************************************************)
EXTENDS Integers, Sequences, SequencesExt

CONSTANTS Says,          \* contents of a profile that the window accepts
          Blank,         \* contents with an empty field or no port number: those
                         \* of a new profile, and what an ss:// URL may say
          Ids,           \* names of profiles, for as many as there are at once
          NoConfig,      \* nothing is stored under "config" yet
          NoWindow       \* the preferences window is closed

PublicServer == 0

ASSUME ProfilesAssumption ==
  /\ {Blank, PublicServer} \cap Says = {} /\ Blank # PublicServer
  /\ Ids \cap {"old", "none", "gone"} = {}

VARIABLES
  config,    \* the stored configuration: current and profiles, or NoConfig
  runner,    \* ShadowsocksRunner's keys: public, and what they say
  menu,      \* the entries of the servers menu, and the one that is checked
  window,    \* the window's copy, its selected row and its fields, or NoWindow
  original,  \* history: the id that was current when the window opened,
             \* "none" for the public server, "gone" when it was removed
  byURL      \* history: an ss:// URL was used since the last save

vars == <<config, runner, menu, window, original, byURL>>

Profile(id, says) == [id |-> id, says |-> says]

(* What there is when the only profile was made from the runner's keys and *)
(* these are not complete.                                                 *)
HalfProfile == <<Profile("old", Blank)>>

(* The contents, or PublicServer, that a configuration makes current. *)
InUse(c) == IF c.current = PublicServer THEN PublicServer
            ELSE c.profiles[c.current].says

(* ProfileManager configuration.  Before the first save it is made from    *)
(* the runner's keys.  "old" names the profile made from them.             *)
Configuration ==
  IF config # NoConfig THEN config
  ELSE IF runner.public THEN [current |-> PublicServer, profiles |-> <<>>]
  ELSE [current |-> 1, profiles |-> <<Profile("old", runner.says)>>]

IdsOf(c) == {c.profiles[i].id : i \in DOMAIN c.profiles}
IdAt(c, i) == IF i \in DOMAIN c.profiles THEN c.profiles[i].id ELSE "none"

MenuOf(c) == [checked |-> c.current,
              entries |-> [i \in DOMAIN c.profiles |-> c.profiles[i]]]

Configurations ==
  [current : Nat, profiles : Seq([id : Ids \cup {"old"}, says : Says \cup {Blank}])]

ASSUME NoConfigAssumption == NoConfig \notin Configurations

TypeOK ==
  /\ config = NoConfig \/ config \in Configurations
  /\ runner \in [public : BOOLEAN, says : Says \cup {Blank}]
  /\ window # NoWindow =>
       window.copy \in Configurations /\ window.row \in Nat
  /\ byURL \in BOOLEAN

(* The keys may be of an older version, or of a URL opened in an earlier    *)
(* run of the application.                                                 *)
Init ==
  /\ config = NoConfig
  /\ \/ runner = [public |-> TRUE, says |-> Blank] /\ byURL = FALSE
     \/ \E s \in Says : runner = [public |-> FALSE, says |-> s] /\ byURL = FALSE
     \/ runner = [public |-> FALSE, says |-> Blank] /\ byURL = TRUE
  /\ menu = MenuOf(Configuration)
  /\ window = NoWindow /\ original = "none"

-----------------------------------------------------------------------------
(* Saving.                                                                 *)

(* The current profile is one of those there are. *)
Clamp(c) ==
  [c EXCEPT !.current =
     IF Len(c.profiles) = 0 THEN PublicServer
     ELSE IF @ > Len(c.profiles) THEN 1 ELSE @]

(* A bug: a profile is chosen and the public server stays in use. *)
ReloadKeepsPublic(c) ==
  runner' = IF c.current = PublicServer THEN [runner EXCEPT !.public = TRUE]
            ELSE [runner EXCEPT !.says = c.profiles[c.current].says]

(* reloadShadowsocksRunner.  The public server leaves the other keys as    *)
(* they are.                                                               *)
ReloadRunner(c) ==
  runner' = IF c.current = PublicServer THEN [runner EXCEPT !.public = TRUE]
            ELSE [public |-> FALSE, says |-> c.profiles[c.current].says]

(* saveConfiguration, and the menu made anew by its callers. *)
SaveConfiguration(c) ==
  /\ config' = Clamp(c)
  /\ ReloadRunner(Clamp(c))
  /\ menu' = MenuOf(Clamp(c))
  /\ byURL' = FALSE

-----------------------------------------------------------------------------
(* The menu and URLs.                                                      *)

(* chooseServer: the entry with this tag. *)
ChooseServer(tag) ==
  /\ tag = PublicServer \/ tag \in DOMAIN menu.entries
  /\ LET c == Configuration IN
       SaveConfiguration(
         IF tag <= Len(c.profiles) THEN [c EXCEPT !.current = tag] ELSE c)
  /\ UNCHANGED <<window, original>>

(* openSSURL: looks at the places of the colons and the at sign, not at    *)
(* what is between them.  The stored profiles and the menu do not hear of  *)
(* it.                                                                     *)
OpenSSURL(says) ==
  /\ runner' = [public |-> FALSE, says |-> says]
  /\ byURL' = TRUE
  /\ UNCHANGED <<config, menu, window, original>>

-----------------------------------------------------------------------------
(* The window.  NSTableView keeps one row selected while it has any: the   *)
(* table does not allow an empty selection.                                *)

IsOpen == window # NoWindow
Rows   == DOMAIN window.copy.profiles

(* loadCurrentProfile: without a row the fields keep what they show. *)
Fields(c, row, old) ==
  IF row \in DOMAIN c.profiles THEN c.profiles[row] ELSE old

Show(c, row) ==
  window' = [copy |-> c, row |-> row, fields |-> Fields(c, row, window.fields)]

(* validateCurrentProfile *)
Valid == window.fields.says # Blank

(* What saveCurrentProfile makes of the copy: the fields go to the row     *)
(* that is selected.                                                       *)
Saved ==
  IF window.row \in Rows
  THEN [window.copy EXCEPT !.profiles[window.row].says = window.fields.says]
  ELSE window.copy

(* showConfigWindow; a window that was open is closed and its edits with   *)
(* it.                                                                     *)
ShowConfigWindow ==
  /\ LET c == Configuration
         row == IF c.profiles = <<>> THEN 0 ELSE 1
     IN /\ window' = [copy |-> c, row |-> row,
                      fields |-> Fields(c, row, Profile("none", Blank))]
        /\ original' = IdAt(c, c.current)
  /\ UNCHANGED <<config, runner, menu, byURL>>

Type(says) ==
  /\ IsOpen /\ Rows # {}
  /\ window' = [window EXCEPT !.fields.says = says]
  /\ UNCHANGED <<config, runner, menu, original, byURL>>

(* Another row is clicked: tableView:shouldSelectRow: saves the fields to  *)
(* the old row or refuses, tableViewSelectionDidChange: loads the new one. *)
SelectRow(row) ==
  /\ IsOpen /\ row \in Rows \ {window.row}
  /\ Valid
  /\ Show(Saved, row)
  /\ UNCHANGED <<config, runner, menu, original, byURL>>

(* A bug: the row that is left is not checked. *)
AddUnchecked(id) ==
  /\ IsOpen /\ id \notin IdsOf(window.copy)
  /\ LET c == IF Rows = {} THEN window.copy ELSE Saved IN
       Show([c EXCEPT !.profiles = Append(@, Profile(id, Blank))],
            Len(c.profiles) + 1)
  /\ UNCHANGED <<config, runner, menu, original, byURL>>

(* add: a new profile at the end, selected. *)
Add(id) ==
  /\ IsOpen /\ id \notin IdsOf(window.copy)
  /\ Rows # {} => Valid
  /\ LET c == IF Rows = {} THEN window.copy ELSE Saved IN
       Show([c EXCEPT !.profiles = Append(@, Profile(id, Blank))],
            Len(c.profiles) + 1)
  /\ UNCHANGED <<config, runner, menu, original, byURL>>

RemoveOriginal ==
  original' = IF IdAt(window.copy, window.row) = original THEN "gone" ELSE original

(* Two bugs: the fields keep showing the removed profile; the number of    *)
(* the current one is not adjusted.                                        *)
RemoveKeepsFields ==
  /\ IsOpen /\ window.row \in Rows
  /\ LET c == [window.copy EXCEPT
                 !.profiles = RemoveAt(@, window.row),
                 !.current = IF @ > window.row THEN @ - 1 ELSE @]
     IN window' = [copy |-> c, row |-> Len(c.profiles), fields |-> window.fields]
  /\ RemoveOriginal
  /\ UNCHANGED <<config, runner, menu, byURL>>

RemoveKeepsCurrent ==
  /\ IsOpen /\ window.row \in Rows
  /\ LET c == [window.copy EXCEPT !.profiles = RemoveAt(@, window.row)]
     IN Show(c, Len(c.profiles))
  /\ RemoveOriginal
  /\ UNCHANGED <<config, runner, menu, byURL>>

(* remove: the last of the remaining rows is selected and loaded, and the  *)
(* number of the current profile follows the profile.                      *)
RemoveRow ==
  /\ IsOpen /\ window.row \in Rows
  /\ LET c == [window.copy EXCEPT
                 !.profiles = RemoveAt(@, window.row),
                 !.current = IF @ > window.row THEN @ - 1 ELSE @]
     IN Show(c, Len(c.profiles))
  /\ RemoveOriginal
  /\ UNCHANGED <<config, runner, menu, byURL>>

(* OK: the whole copy is saved. *)
OK ==
  /\ IsOpen /\ Valid
  /\ SaveConfiguration(Saved)
  /\ window' = NoWindow
  /\ UNCHANGED original

Cancel ==
  /\ IsOpen
  /\ window' = NoWindow
  /\ UNCHANGED <<config, runner, menu, original, byURL>>

Next ==
  \/ \E tag \in {PublicServer} \cup DOMAIN menu.entries : ChooseServer(tag)
  \/ \E s \in Says \cup {Blank} : OpenSSURL(s) \/ Type(s)
  \/ ShowConfigWindow
  \/ \E id \in Ids : Add(id)
  \/ RemoveRow \/ OK \/ Cancel
  \/ IsOpen /\ \E row \in Rows : SelectRow(row)

Spec == Init /\ [][Next]_vars

-----------------------------------------------------------------------------
(* The fields show the profile of the selected row, so that whatever is    *)
(* typed is saved to the profile it was typed for, after any selecting,    *)
(* adding and removing of rows.                                            *)
EditsLand ==
  IsOpen /\ Rows # {} =>
    window.row \in Rows /\ window.fields.id = IdAt(window.copy, window.row)

(* Of the stored profiles the current one exists, and all are filled in,   *)
(* whatever was left empty in the window on the way.  Only openSSURL lets  *)
(* less than that through.  Chosen in the menu, the profile that           *)
(* configuration makes of such a link is stored unchecked; but nothing can *)
(* be stored beside it until it is filled in.  So the proxy is given an    *)
(* incomplete server by a link or by that one profile, and by no other.    *)
BlankOnlyByURL ==
  /\ config # NoConfig =>
       /\ config.current \in 0..Len(config.profiles)
       /\ \A i \in DOMAIN config.profiles : config.profiles[i].says \in Says
          \/ config.profiles = HalfProfile
  /\ ~runner.public /\ runner.says \notin Says =>
       byURL \/ (config # NoConfig /\ config.profiles = HalfProfile)

(* Until it is removed itself, the profile that was current when the       *)
(* window opened stays current in it, though its number may change.        *)
CurrentFollows ==
  IsOpen /\ original # "gone" =>
    IdAt(window.copy, window.copy.current) = original

(* Once something is stored, the entries of the menu are the stored        *)
(* profiles and the stored choice is checked; and it names the server that *)
(* the proxy is configured with, until an ss:// URL is opened, of which    *)
(* only the proxy hears, and again from the next save on.                  *)
MenuHonest ==
  config # NoConfig =>
    /\ menu = MenuOf(config)
    /\ ~byURL =>
         IF InUse(config) = PublicServer THEN runner.public
         ELSE ~runner.public /\ runner.says = InUse(config)
=============================================================================
