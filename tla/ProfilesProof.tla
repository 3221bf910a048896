---------------------------- MODULE ProfilesProof ----------------------------
(***************************************************************************)
(* What Profiles promises, for any profiles.  The invariant says that only *)
(* the selected row of the window may hold a profile that is not filled    *)
(* in, that the fields belong to that row, and what the stored             *)
(* configuration and the runner's keys may be: complete, but for the one   *)
(* profile that an ss:// URL makes.                                        *)
(***************************************************************************)
EXTENDS Profiles, SequenceTheorems, TLAPS

AProfile == [id : Ids \cup {"old"}, says : Says \cup {Blank}]
Shown    == [id : Ids \cup {"old", "none"}, says : Says \cup {Blank}]
Windows  == [copy : Configurations, row : Nat, fields : Shown]

(* A configuration that is filled in, but perhaps for one row. *)
Good(c, free) ==
  /\ c \in Configurations
  /\ \A i \in DOMAIN c.profiles : i # free => c.profiles[i].says \in Says

Within(c) == c.current \in 0..Len(c.profiles)

(* What may be stored. *)
Kept(c) ==
  /\ c \in Configurations
  /\ Good(c, 0) \/ c.profiles = HalfProfile

Stored == config # NoConfig => Kept(config) /\ Within(config)

(* Where keys that are not complete come from. *)
Excused == byURL \/ (config # NoConfig /\ config.profiles = HalfProfile)

Runner ==
  /\ runner \in [public : BOOLEAN, says : Says \cup {Blank}]
  /\ ~runner.public /\ runner.says \notin Says => Excused
  /\ DOMAIN menu.entries \subseteq Nat

Fits(w) ==
  /\ w \in Windows /\ Good(w.copy, w.row)
  /\ DOMAIN w.copy.profiles # {} =>
       /\ w.row \in DOMAIN w.copy.profiles
       /\ w.fields.id = w.copy.profiles[w.row].id

Window == IsOpen => Fits(window)

Follows ==
  IsOpen /\ original # "gone" =>
    /\ Within(window.copy)
    /\ IdAt(window.copy, window.copy.current) = original

ProfilesInv == Stored /\ Runner /\ Window /\ Follows /\ MenuHonest

-----------------------------------------------------------------------------
(* The operators on configurations.                                        *)

LEMMA Parts ==
  ASSUME NEW c \in Configurations
  PROVE  /\ c.current \in Nat /\ c.profiles \in Seq(AProfile)
         /\ Len(c.profiles) \in Nat /\ DOMAIN c.profiles = 1..Len(c.profiles)
         /\ \A i \in DOMAIN c.profiles : c.profiles[i] \in AProfile
<1>1. c.current \in Nat /\ c.profiles \in Seq(AProfile)
  BY DEF Configurations, AProfile
<1>2. QED
  BY <1>1

LEMMA Half ==
  /\ HalfProfile \in Seq(AProfile) /\ Len(HalfProfile) = 1
  /\ DOMAIN HalfProfile = 1..1 /\ HalfProfile[1].says = Blank
<1> DEFINE p == Profile("old", Blank)
<1>1. p \in AProfile /\ p.says = Blank
  BY DEF Profile, AProfile
<1> HIDE DEF p
<1>2. HalfProfile = <<p>>
  BY DEF HalfProfile, p
<1>3. QED
  BY <1>1, <1>2

LEMMA Rewritten ==
  ASSUME NEW c \in Configurations, NEW ps, NEW n
  PROVE  [c EXCEPT !.profiles = ps, !.current = n]
           = [current |-> n, profiles |-> ps]
<1> DEFINE d == [c EXCEPT !.profiles = ps]
<1>1. d = [current |-> c.current, profiles |-> ps]
  BY DEF Configurations
<1>2. [c EXCEPT !.profiles = ps, !.current = n] = [d EXCEPT !.current = n]
  OBVIOUS
<1> HIDE DEF d
<1>3. [d EXCEPT !.current = n] = [current |-> n, profiles |-> ps]
  BY <1>1
<1>4. QED
  BY <1>2, <1>3

(* Writing the fields to a row changes what it says and nothing else. *)
LEMMA Write ==
  ASSUME NEW c \in Configurations, NEW r \in DOMAIN c.profiles,
         NEW x \in Says \cup {Blank},
         NEW d, d = [c EXCEPT !.profiles[r].says = x]
  PROVE  /\ d \in Configurations /\ d.current = c.current
         /\ Len(d.profiles) = Len(c.profiles)
         /\ DOMAIN d.profiles = DOMAIN c.profiles
         /\ \A i \in DOMAIN c.profiles :
              /\ d.profiles[i].id = c.profiles[i].id
              /\ d.profiles[i].says = IF i = r THEN x ELSE c.profiles[i].says
<1> DEFINE s == c.profiles
           t == [s EXCEPT ![r] = [s[r] EXCEPT !.says = x]]
<1>1. /\ s \in Seq(AProfile) /\ Len(s) \in Nat /\ DOMAIN s = 1..Len(s)
      /\ s[r] \in AProfile /\ c.current \in Nat
  BY Parts
<1>2. [s[r] EXCEPT !.says = x] \in AProfile
  BY <1>1 DEF AProfile
<1>3. t \in Seq(AProfile) /\ Len(t) = Len(s) /\ DOMAIN t = DOMAIN s
  BY <1>1, <1>2
<1>4. \A i \in DOMAIN s : t[i] = IF i = r THEN [s[r] EXCEPT !.says = x] ELSE s[i]
  BY <1>1
<1>5. d = [current |-> c.current, profiles |-> t]
  BY DEF Configurations
<1>6. d.current = c.current /\ d.profiles = t
  BY <1>5
<1>7. d \in Configurations
  BY <1>1, <1>3, <1>5 DEF Configurations, AProfile
<1>8. \A i \in DOMAIN s : /\ t[i].id = s[i].id
                          /\ t[i].says = IF i = r THEN x ELSE s[i].says
  BY <1>1, <1>4 DEF AProfile
<1>9. QED
  BY <1>3, <1>6, <1>7, <1>8

(* removeObjectAtIndex: the rows behind move up. *)
LEMMA Removal ==
  ASSUME NEW S, NEW s \in Seq(S), NEW r \in 1..Len(s)
  PROVE  /\ RemoveAt(s, r) \in Seq(S)
         /\ Len(RemoveAt(s, r)) = Len(s) - 1
         /\ \A i \in 1..(Len(s) - 1) :
              RemoveAt(s, r)[i] = IF i < r THEN s[i] ELSE s[i + 1]
<1> DEFINE a == SubSeq(s, 1, r - 1)
           b == SubSeq(s, r + 1, Len(s))
<1>1. Len(s) \in Nat /\ r \in Nat /\ r >= 1 /\ r <= Len(s)
  OBVIOUS
<1>2. a \in Seq(S) /\ Len(a) = r - 1 /\ \A i \in 1..(r - 1) : a[i] = s[i]
  BY <1>1
<1>3. b \in Seq(S) /\ Len(b) = Len(s) - r /\ \A i \in 1..(Len(s) - r) : b[i] = s[r + i]
  BY <1>1
<1>4. RemoveAt(s, r) = a \o b
  BY DEF RemoveAt
<1> HIDE DEF a, b
<1>5. a \o b \in Seq(S) /\ Len(a \o b) = Len(s) - 1
  <2>1. a \in Seq(S) /\ b \in Seq(S)
    BY <1>2, <1>3
  <2>2. a \o b \in Seq(S) /\ Len(a \o b) = Len(a) + Len(b)
    BY <2>1, ConcatProperties
  <2>3. (r - 1) + (Len(s) - r) = Len(s) - 1
    BY <1>1
  <2>4. QED
    BY <1>2, <1>3, <2>2, <2>3
<1>6. ASSUME NEW i \in 1..(Len(s) - 1)
      PROVE  (a \o b)[i] = IF i < r THEN s[i] ELSE s[i + 1]
  <2>1. CASE i < r
    BY <1>1, <1>2, <1>3, <2>1
  <2>2. CASE ~(i < r)
    <3>1. i - (r - 1) \in 1..(Len(s) - r) /\ r + (i - (r - 1)) = i + 1
      BY <1>1, <2>2
    <3>2. (a \o b)[i] = b[i - (r - 1)]
      BY <1>1, <1>2, <1>3, <2>2
    <3>3. QED
      BY <1>3, <2>2, <3>1, <3>2
  <2>3. QED
    BY <2>1, <2>2
<1>7. QED
  BY <1>4, <1>5, <1>6

(* What saveConfiguration stores is as complete as what it was given, and *)
(* current is in it.                                                       *)
LEMMA Clamped ==
  ASSUME NEW c, Kept(c)
  PROVE  Kept(Clamp(c)) /\ Within(Clamp(c))
<1>1. c \in Configurations
  BY DEF Kept
<1>2. c.current \in Nat /\ Len(c.profiles) \in Nat
  BY <1>1, Parts
<1> DEFINE n == IF Len(c.profiles) = 0 THEN PublicServer
                ELSE IF c.current > Len(c.profiles) THEN 1 ELSE c.current
<1>3. n \in 0..Len(c.profiles)
  BY <1>2 DEF PublicServer
<1>4. Clamp(c) = [current |-> n, profiles |-> c.profiles]
  BY <1>1 DEF Clamp, Configurations
<1> HIDE DEF n
<1>5. Clamp(c) \in Configurations
  BY <1>1, <1>3, <1>4 DEF Configurations
<1>6. Clamp(c).current = n /\ Clamp(c).profiles = c.profiles
  BY <1>4
<1>7. QED
  BY <1>3, <1>5, <1>6 DEF Kept, Good, Within

(* The configuration made from the runner's keys or loaded is one that may *)
(* be stored.                                                              *)
LEMMA Loaded ==
  ASSUME Stored, Runner
  PROVE  Kept(Configuration) /\ Within(Configuration)
<1>1. CASE config # NoConfig
  BY <1>1 DEF Stored, Configuration
<1>2. CASE config = NoConfig /\ runner.public
  <2> DEFINE c == [current |-> PublicServer, profiles |-> <<>>]
  <2>1. Configuration = c
    BY <1>2 DEF Configuration
  <2>2. <<>> \in Seq(AProfile) /\ Len(<<>>) = 0 /\ DOMAIN <<>> = {}
    OBVIOUS
  <2>3. c \in Configurations
    BY <2>2 DEF Configurations, AProfile, PublicServer
  <2>4. QED
    BY <2>1, <2>2, <2>3 DEF Kept, Good, Within, PublicServer
<1>3. CASE config = NoConfig /\ ~runner.public
  <2> DEFINE p == Profile("old", runner.says)
             c == [current |-> 1, profiles |-> <<p>>]
  <2>1. Configuration = c
    BY <1>3 DEF Configuration
  <2>2. /\ p \in AProfile
        /\ p.says \in Says \/ p = Profile("old", Blank)
    BY <1>3 DEF Runner, Profile, AProfile
  <2> HIDE DEF p
  <2>3. /\ <<p>> \in Seq(AProfile) /\ Len(<<p>>) = 1 /\ DOMAIN <<p>> = 1..1
        /\ <<p>>[1] = p
    BY <2>2
  <2>4. c \in Configurations
    BY <2>3 DEF Configurations, AProfile
  <2>5. Good(c, 0) \/ c.profiles = HalfProfile
    BY <2>2, <2>3, <2>4 DEF Good, HalfProfile
  <2>6. QED
    BY <2>1, <2>3, <2>4, <2>5 DEF Kept, Within
<1>4. QED
  BY <1>1, <1>2, <1>3

LEMMA InitProfiles == ASSUME Init PROVE ProfilesInv
<1>1. config = NoConfig /\ window = NoWindow /\ menu = MenuOf(Configuration)
  BY DEF Init
<1>2. runner \in [public : BOOLEAN, says : Says \cup {Blank}]
      /\ (~runner.public /\ runner.says \notin Says => byURL)
  <2>1. \/ runner = [public |-> TRUE, says |-> Blank]
        \/ \E s \in Says : runner = [public |-> FALSE, says |-> s]
        \/ runner = [public |-> FALSE, says |-> Blank] /\ byURL
    BY DEF Init
  <2>2. CASE runner = [public |-> TRUE, says |-> Blank]
    BY <2>2
  <2>3. CASE \E s \in Says : runner = [public |-> FALSE, says |-> s]
    <3>1. PICK s \in Says : runner = [public |-> FALSE, says |-> s]
      BY <2>3
    <3>2. QED
      BY <3>1
  <2>4. CASE runner = [public |-> FALSE, says |-> Blank] /\ byURL
    BY <2>4
  <2>5. QED
    BY <2>1, <2>2, <2>3, <2>4
<1>3. Stored /\ Window /\ Follows /\ MenuHonest
  BY <1>1 DEF Stored, Window, Follows, MenuHonest, IsOpen
<1>4. DOMAIN menu.entries \subseteq Nat
  <2>1. menu.entries = [i \in DOMAIN Configuration.profiles |-> Configuration.profiles[i]]
    BY <1>1 DEF MenuOf
  <2>2. Configuration.profiles = <<>>
        \/ Configuration.profiles = <<Profile("old", runner.says)>>
    BY <1>1 DEF Configuration
  <2>3. DOMAIN Configuration.profiles \subseteq Nat
    BY <2>2
  <2>4. QED
    BY <2>1, <2>3
<1>5. QED
  BY <1>2, <1>3, <1>4 DEF ProfilesInv, Runner, Excused

-----------------------------------------------------------------------------
(* Saving.                                                                 *)

LEMMA Saving ==
  ASSUME Runner, NEW c, Kept(c), SaveConfiguration(c)
  PROVE  Stored' /\ Runner' /\ MenuHonest'
<1> DEFINE d == Clamp(c)
<1>1. Kept(d) /\ Within(d)
  BY Clamped
<1>2. config' = d /\ menu' = MenuOf(d) /\ ReloadRunner(d)
  BY DEF SaveConfiguration
<1> HIDE DEF d
<1>3. Stored'
  BY <1>1, <1>2 DEF Stored
<1>4. /\ d.current \in Nat /\ Len(d.profiles) \in Nat
      /\ DOMAIN d.profiles = 1..Len(d.profiles)
  BY <1>1, Parts DEF Kept
<1>5. d.current # PublicServer =>
        /\ d.current \in DOMAIN d.profiles
        /\ d.profiles[d.current].says \in Says \cup {Blank}
        /\ d.profiles[d.current].says \notin Says => d.profiles = HalfProfile
  <2> SUFFICES ASSUME d.current # PublicServer
               PROVE  /\ d.current \in DOMAIN d.profiles
                      /\ d.profiles[d.current].says \in Says \cup {Blank}
                      /\ \/ d.profiles[d.current].says \in Says
                         \/ d.profiles = HalfProfile
    OBVIOUS
  <2>1. d.current \in DOMAIN d.profiles /\ d.current # 0
    BY <1>1, <1>4 DEF Within, PublicServer
  <2>2. d.profiles[d.current] \in AProfile
    BY <1>1, <2>1, Parts DEF Kept
  <2>3. QED
    BY <1>1, <2>1, <2>2 DEF Kept, Good, AProfile
<1>5a. config' # NoConfig
  BY <1>1, <1>2, NoConfigAssumption DEF Kept
<1>6. DOMAIN menu'.entries \subseteq Nat
  BY <1>2, <1>4 DEF MenuOf
<1>7. CASE d.current = PublicServer
  <2>1. runner' = [runner EXCEPT !.public = TRUE]
    BY <1>2, <1>7 DEF ReloadRunner
  <2>2. runner' \in [public : BOOLEAN, says : Says \cup {Blank}] /\ runner'.public
    BY <2>1 DEF Runner
  <2>3. InUse(d) = PublicServer
    BY <1>7 DEF InUse
  <2>4. QED
    BY <1>2, <1>3, <1>6, <2>2, <2>3 DEF Runner, MenuHonest
<1>8. CASE d.current # PublicServer
  <2> DEFINE x == d.profiles[d.current].says
  <2>1. /\ runner' = [public |-> FALSE, says |-> x]
        /\ x \in Says \cup {Blank}
        /\ x \notin Says => config'.profiles = HalfProfile
    BY <1>2, <1>5, <1>8 DEF ReloadRunner
  <2>2. InUse(d) = x
    BY <1>8 DEF InUse
  <2> HIDE DEF x
  <2>3. runner' \in [public : BOOLEAN, says : Says \cup {Blank}]
        /\ ~runner'.public /\ runner'.says = x
    BY <2>1
  <2>4. x # PublicServer
    BY <2>1, ProfilesAssumption
  <2>5. QED
    BY <1>2, <1>3, <1>6, <1>5a, <2>1, <2>2, <2>3, <2>4
       DEF Runner, Excused, MenuHonest
<1>9. QED
  BY <1>7, <1>8

LEMMA ChooseStep ==
  ASSUME ProfilesInv, NEW tag \in {PublicServer} \cup DOMAIN menu.entries,
         ChooseServer(tag)
  PROVE  ProfilesInv'
<1> DEFINE c == Configuration
           d == IF tag <= Len(c.profiles) THEN [c EXCEPT !.current = tag] ELSE c
<1>1. Kept(c)
  BY Loaded DEF ProfilesInv
<1>2. SaveConfiguration(d) /\ UNCHANGED <<window, original>>
  BY DEF ChooseServer
<1>3. tag \in Nat
  BY DEF ProfilesInv, Runner, PublicServer
<1> HIDE DEF c
<1>4. c \in Configurations
  BY <1>1 DEF Kept
<1>5. CASE tag <= Len(c.profiles)
  <2>1. d = [current |-> tag, profiles |-> c.profiles]
    BY <1>4, <1>5 DEF Configurations
  <2>2. d \in Configurations /\ d.profiles = c.profiles
    BY <1>3, <1>4, <2>1 DEF Configurations
  <2>3. Kept(d)
    BY <1>1, <2>2 DEF Kept, Good
  <2>4. Stored' /\ Runner' /\ MenuHonest'
    BY <1>2, <2>3, Saving DEF ProfilesInv
  <2>5. QED
    BY <1>2, <2>4 DEF ProfilesInv, Window, Follows, IsOpen
<1>6. CASE ~(tag <= Len(c.profiles))
  <2>1. Stored' /\ Runner' /\ MenuHonest'
    BY <1>1, <1>2, <1>6, Saving DEF ProfilesInv
  <2>2. QED
    BY <1>2, <2>1 DEF ProfilesInv, Window, Follows, IsOpen
<1>7. QED
  BY <1>5, <1>6

LEMMA URLStep ==
  ASSUME ProfilesInv, NEW says \in Says \cup {Blank}, OpenSSURL(says)
  PROVE  ProfilesInv'
<1>1. /\ runner' = [public |-> FALSE, says |-> says] /\ byURL'
      /\ UNCHANGED <<config, menu, window, original>>
  BY DEF OpenSSURL
<1>2. Runner'
  BY <1>1 DEF Runner, Excused, ProfilesInv
<1>3. Stored' /\ Window' /\ Follows' /\ MenuHonest'
  BY <1>1 DEF ProfilesInv, Stored, Window, Follows, IsOpen, MenuHonest
<1>4. QED
  BY <1>2, <1>3 DEF ProfilesInv

-----------------------------------------------------------------------------
(* The window.                                                             *)

(* A step of the window alone. *)
LEMMA WindowStep ==
  ASSUME ProfilesInv, UNCHANGED <<config, runner, menu, byURL>>,
         Fits(window'),
         original' # "gone" =>
           /\ Within(window'.copy)
           /\ IdAt(window'.copy, window'.copy.current) = original'
  PROVE  ProfilesInv'
<1>1. Stored' /\ Runner' /\ MenuHonest'
  BY DEF ProfilesInv, Stored, Runner, Excused, MenuHonest
<1>2. Window' /\ Follows'
  BY DEF Window, Follows
<1>3. QED
  BY <1>1, <1>2 DEF ProfilesInv

LEMMA ShowStep == ASSUME ProfilesInv, ShowConfigWindow PROVE ProfilesInv'
<1> DEFINE c   == Configuration
           row == IF c.profiles = <<>> THEN 0 ELSE 1
           fs  == Fields(c, row, Profile("none", Blank))
<1>1. Kept(c) /\ Within(c)
  BY Loaded DEF ProfilesInv
<1>2. /\ window' = [copy |-> c, row |-> row, fields |-> fs]
      /\ original' = IdAt(c, c.current)
      /\ UNCHANGED <<config, runner, menu, byURL>>
  BY DEF ShowConfigWindow
<1> HIDE DEF c
<1>3. c \in Configurations
  BY <1>1 DEF Kept
<1>4. /\ c.profiles \in Seq(AProfile) /\ Len(c.profiles) \in Nat
      /\ DOMAIN c.profiles = 1..Len(c.profiles)
      /\ \A i \in DOMAIN c.profiles : c.profiles[i] \in AProfile
  BY <1>3, Parts
<1>5. row \in Nat /\ (DOMAIN c.profiles # {} => row \in DOMAIN c.profiles)
  BY <1>4
<1>5a. c.profiles = HalfProfile => row = 1
  <2>1. Len(HalfProfile) = 1 /\ Len(<<>>) = 0
    BY Half
  <2>2. QED
    BY <2>1
<1> HIDE DEF row
<1>6. fs \in Shown /\ (row \in DOMAIN c.profiles => fs.id = c.profiles[row].id)
  BY <1>4 DEF Fields, AProfile, Shown, Profile
<1> HIDE DEF fs
<1>7. Fits(window')
  <2>1. window' \in Windows
    BY <1>2, <1>3, <1>5, <1>6 DEF Windows
  <2>2. window'.copy = c /\ window'.row = row /\ window'.fields = fs
    BY <1>2
  <2>3. Good(c, row)
    BY <1>1, <1>4, <1>5a, Half DEF Kept, Good
  <2>4. QED
    BY <1>5, <1>6, <2>1, <2>2, <2>3 DEF Fits
<1>8. window'.copy = c
  BY <1>2
<1>9. QED
  BY <1>1, <1>2, <1>7, <1>8, WindowStep

LEMMA TypeStep ==
  ASSUME ProfilesInv, NEW says \in Says \cup {Blank}, Type(says)
  PROVE  ProfilesInv'
<1>1. /\ IsOpen /\ window' = [window EXCEPT !.fields.says = says]
      /\ UNCHANGED <<config, runner, menu, original, byURL>>
  BY DEF Type
<1>2. Fits(window)
  BY <1>1 DEF ProfilesInv, Window
<1>3. window \in Windows
  BY <1>2 DEF Fits
<1> DEFINE fs == [window.fields EXCEPT !.says = says]
<1>4. window.fields \in Shown
  BY <1>3 DEF Windows
<1>5. fs \in Shown /\ fs.id = window.fields.id
  BY <1>4 DEF Shown
<1>6. window' = [copy |-> window.copy, row |-> window.row, fields |-> fs]
  BY <1>1, <1>3 DEF Windows
<1> HIDE DEF fs
<1>7. window' \in Windows /\ window'.copy = window.copy
      /\ window'.row = window.row /\ window'.fields = fs
  BY <1>3, <1>5, <1>6 DEF Windows
<1>8. Fits(window')
  BY <1>2, <1>5, <1>7 DEF Fits
<1>9. QED
  BY <1>1, <1>7, <1>8, WindowStep DEF ProfilesInv, Follows

(* The copy with the fields saved into the selected row. *)
LEMMA SavedCopy ==
  ASSUME Fits(window)
  PROVE  /\ Saved \in Configurations
         /\ Saved.current = window.copy.current
         /\ Len(Saved.profiles) = Len(window.copy.profiles)
         /\ DOMAIN Saved.profiles = DOMAIN window.copy.profiles
         /\ \A i \in DOMAIN Saved.profiles :
              Saved.profiles[i].id = window.copy.profiles[i].id
         /\ Valid \/ DOMAIN window.copy.profiles = {} => Good(Saved, 0)
<1> DEFINE c == window.copy
           r == window.row
           x == window.fields.says
<1>1. /\ c \in Configurations /\ Good(c, r)
      /\ DOMAIN c.profiles # {} => r \in DOMAIN c.profiles
      /\ x \in Says \cup {Blank}
  BY DEF Fits, Windows, Shown
<1>2. CASE r \in Rows
  <2>1. Saved = [c EXCEPT !.profiles[r].says = x] /\ r \in DOMAIN c.profiles
    BY <1>2 DEF Saved, Rows
  <2>2. Valid => x \in Says
    BY <1>1 DEF Valid
  <2> HIDE DEF c, r, x
  <2>3. /\ Saved \in Configurations /\ Saved.current = c.current
        /\ Len(Saved.profiles) = Len(c.profiles)
        /\ DOMAIN Saved.profiles = DOMAIN c.profiles
        /\ \A i \in DOMAIN c.profiles :
             /\ Saved.profiles[i].id = c.profiles[i].id
             /\ Saved.profiles[i].says = IF i = r THEN x ELSE c.profiles[i].says
    BY <1>1, <2>1, Write
  <2>4. ASSUME Valid PROVE Good(Saved, 0)
    BY <1>1, <2>2, <2>3, <2>4 DEF Good
  <2>5. DOMAIN c.profiles # {}
    BY <2>1
  <2>6. QED
    BY <2>3, <2>4, <2>5 DEF c
<1>3. CASE r \notin Rows
  <2>1. Saved = c
    BY <1>3 DEF Saved
  <2>2. DOMAIN c.profiles = {}
    BY <1>1, <1>3 DEF Rows
  <2>3. Good(c, 0)
    BY <1>1, <2>2 DEF Good
  <2>4. QED
    BY <1>1, <2>1, <2>3
<1>4. QED
  BY <1>2, <1>3

(* Another row of a configuration is shown. *)
LEMMA Showing ==
  ASSUME Fits(window), NEW c, NEW row \in Nat, Good(c, row),
         DOMAIN c.profiles # {} => row \in DOMAIN c.profiles, Show(c, row)
  PROVE  Fits(window') /\ window'.copy = c
<1> DEFINE fs == Fields(c, row, window.fields)
<1>1. window' = [copy |-> c, row |-> row, fields |-> fs]
  BY DEF Show
<1>2. c \in Configurations /\ window.fields \in Shown
  BY DEF Good, Fits, Windows
<1>3. \A i \in DOMAIN c.profiles : c.profiles[i] \in AProfile
  BY <1>2, Parts
<1>4. fs \in Shown /\ (row \in DOMAIN c.profiles => fs.id = c.profiles[row].id)
  BY <1>2, <1>3 DEF Fields, AProfile, Shown
<1> HIDE DEF fs
<1>5. window' \in Windows /\ window'.copy = c /\ window'.row = row
      /\ window'.fields = fs
  BY <1>1, <1>2, <1>4 DEF Windows
<1>6. QED
  BY <1>4, <1>5 DEF Fits

LEMMA SelectStep ==
  ASSUME ProfilesInv, IsOpen, NEW row \in Rows, SelectRow(row)
  PROVE  ProfilesInv'
<1>1. Fits(window) /\ Follows
  BY DEF ProfilesInv, Window
<1>2. /\ Valid /\ Show(Saved, row)
      /\ UNCHANGED <<config, runner, menu, original, byURL>>
  BY DEF SelectRow
<1>3. /\ Good(Saved, 0) /\ Saved.current = window.copy.current
      /\ Len(Saved.profiles) = Len(window.copy.profiles)
      /\ DOMAIN Saved.profiles = DOMAIN window.copy.profiles
      /\ \A i \in DOMAIN Saved.profiles :
           Saved.profiles[i].id = window.copy.profiles[i].id
  BY <1>1, <1>2, SavedCopy
<1>4. row \in DOMAIN Saved.profiles /\ row \in Nat
  <2>1. Saved \in Configurations
    BY <1>3 DEF Good
  <2>2. row \in DOMAIN Saved.profiles
    BY <1>3 DEF Rows
  <2>3. QED
    BY <2>1, <2>2, Parts
<1>5. Good(Saved, row)
  <2>1. Saved \in Configurations /\ \A i \in DOMAIN Saved.profiles : i # 0
    BY <1>3, Parts DEF Good
  <2>2. QED
    BY <1>3, <2>1 DEF Good
<1>6. Fits(window') /\ window'.copy = Saved
  BY <1>1, <1>2, <1>4, <1>5, Showing
<1>7. original # "gone" =>
        Within(Saved) /\ IdAt(Saved, Saved.current) = original
  BY <1>1, <1>3 DEF Follows, Within, IdAt
<1>8. QED
  BY <1>2, <1>6, <1>7, WindowStep

LEMMA AddStep ==
  ASSUME ProfilesInv, NEW id \in Ids, Add(id)
  PROVE  ProfilesInv'
<1> DEFINE b == IF Rows = {} THEN window.copy ELSE Saved
           s == b.profiles
           t == Append(s, Profile(id, Blank))
           c == [b EXCEPT !.profiles = t]
<1>1. /\ IsOpen /\ (Rows # {} => Valid) /\ Show(c, Len(s) + 1)
      /\ UNCHANGED <<config, runner, menu, original, byURL>>
  BY DEF Add
<1>2. Fits(window) /\ Follows
  BY <1>1 DEF ProfilesInv, Window
<1>3. /\ Good(b, 0) /\ b.current = window.copy.current
      /\ Len(s) = Len(window.copy.profiles)
      /\ DOMAIN s = DOMAIN window.copy.profiles
      /\ \A i \in DOMAIN s : s[i].id = window.copy.profiles[i].id
  <2>1. CASE Rows = {}
    <3>1. b = window.copy /\ DOMAIN window.copy.profiles = {}
      BY <2>1 DEF Rows
    <3>2. Good(window.copy, 0)
      BY <1>2, <3>1 DEF Fits, Good
    <3>3. QED
      BY <3>1, <3>2
  <2>2. CASE Rows # {}
    <3>1. b = Saved /\ Valid
      BY <1>1, <2>2
    <3>2. QED
      BY <1>2, <3>1, SavedCopy
  <2>3. QED
    BY <2>1, <2>2
<1> HIDE DEF b
<1>4. /\ b \in Configurations /\ b.current \in Nat /\ s \in Seq(AProfile)
      /\ Len(s) \in Nat /\ DOMAIN s = 1..Len(s)
      /\ \A i \in DOMAIN s : s[i].says \in Says
  <2>1. b \in Configurations /\ \A i \in DOMAIN s : i # 0 => s[i].says \in Says
    BY <1>3 DEF Good
  <2>2. QED
    BY <2>1, Parts
<1>5. Profile(id, Blank) \in AProfile
  BY DEF Profile, AProfile
<1>6. /\ t \in Seq(AProfile) /\ Len(t) = Len(s) + 1 /\ DOMAIN t = 1..(Len(s) + 1)
      /\ \A i \in DOMAIN s : t[i] = s[i]
  BY <1>4, <1>5
<1>7. c = [current |-> b.current, profiles |-> t]
  BY SMTT(30), <1>4 DEF Configurations
<1> HIDE DEF s, t
<1>8. c \in Configurations /\ c.current = b.current /\ c.profiles = t
  BY <1>4, <1>6, <1>7 DEF Configurations, AProfile
<1> HIDE DEF c
<1>9. Good(c, Len(s) + 1) /\ Len(s) + 1 \in DOMAIN c.profiles /\ Len(s) + 1 \in Nat
  BY <1>4, <1>6, <1>8 DEF Good
<1>10. Fits(window') /\ window'.copy = c
  BY <1>1, <1>2, <1>9, Showing
<1>11. ASSUME original # "gone"
       PROVE  Within(c) /\ IdAt(c, c.current) = original
  <2>1. b.current \in 0..Len(s) /\ IdAt(window.copy, b.current) = original
    BY <1>1, <1>2, <1>3, <1>11 DEF Follows, Within, s
  <2>2. Within(c)
    BY <1>4, <1>6, <1>8, <2>1 DEF Within
  <2>3. CASE b.current \in DOMAIN s
    <3>1. t[b.current] = s[b.current] /\ b.current \in DOMAIN t
      BY <1>4, <1>6, <2>3
    <3>2. IdAt(c, c.current) = s[b.current].id
      BY <1>8, <3>1 DEF IdAt
    <3>3. /\ b.current \in DOMAIN window.copy.profiles
          /\ s[b.current].id = window.copy.profiles[b.current].id
      BY <1>3, <2>3
    <3>4. IdAt(window.copy, b.current) = s[b.current].id
      BY <3>3 DEF IdAt
    <3>5. QED
      BY <2>1, <2>2, <3>2, <3>4
  <2>4. CASE b.current \notin DOMAIN s
    <3>1. b.current = 0
      BY <1>4, <2>1, <2>4
    <3>2. b.current \notin DOMAIN t
      BY <1>4, <1>6, <3>1
    <3>3. QED
      BY <1>3, <1>8, <2>1, <2>2, <2>4, <3>2 DEF IdAt, s
  <2>5. QED
    BY <2>2, <2>3, <2>4
<1>12. QED
  BY <1>1, <1>10, <1>11, WindowStep

LEMMA RemoveStep == ASSUME ProfilesInv, RemoveRow PROVE ProfilesInv'
<1> DEFINE b == window.copy
           r == window.row
           s == b.profiles
           t == RemoveAt(s, r)
           n == IF b.current > r THEN b.current - 1 ELSE b.current
           c == [b EXCEPT !.profiles = t, !.current = n]
<1>1. /\ IsOpen /\ r \in Rows /\ Show(c, Len(c.profiles)) /\ RemoveOriginal
      /\ UNCHANGED <<config, runner, menu, byURL>>
  BY DEF RemoveRow
<1>2. Fits(window) /\ Follows
  BY <1>1 DEF ProfilesInv, Window
<1>3. /\ b \in Configurations /\ r \in DOMAIN s
      /\ \A i \in DOMAIN s : i # r => s[i].says \in Says
  BY <1>1, <1>2 DEF Fits, Good, Rows
<1>4. IsOpen /\ original # "gone" => Within(b) /\ IdAt(b, b.current) = original
  BY <1>2 DEF Follows
<1>5. original' = IF IdAt(b, r) = original THEN "gone" ELSE original
  BY <1>1 DEF RemoveOriginal
<1> HIDE DEF b, r
<1>6. /\ b.current \in Nat /\ s \in Seq(AProfile) /\ Len(s) \in Nat
      /\ DOMAIN s = 1..Len(s)
  BY <1>3, Parts
<1>7. /\ t \in Seq(AProfile) /\ Len(t) = Len(s) - 1
      /\ \A i \in 1..(Len(s) - 1) : t[i] = IF i < r THEN s[i] ELSE s[i + 1]
  BY <1>3, <1>6, Removal
<1>8. c = [current |-> n, profiles |-> t] /\ n \in Nat
  <2>1. n \in Nat
    BY <1>3, <1>6
  <2> HIDE DEF n, t
  <2>2. c = [current |-> n, profiles |-> t]
    BY <1>3, Rewritten
  <2>3. QED
    BY <2>1, <2>2
<1> HIDE DEF s, t
<1>9. DOMAIN t = 1..Len(t) /\ Len(t) \in Nat
  BY <1>7
<1>10. c \in Configurations /\ c.current = n /\ c.profiles = t
  BY <1>7, <1>8 DEF Configurations, AProfile
<1> HIDE DEF c
<1>11. \A i \in DOMAIN t : t[i].says \in Says
  <2> SUFFICES ASSUME NEW i \in DOMAIN t PROVE t[i].says \in Says
    OBVIOUS
  <2>1. i \in Nat /\ i \in 1..(Len(s) - 1)
    BY <1>6, <1>7, <1>9
  <2>2. CASE i < r
    BY <1>3, <1>6, <1>7, <2>1, <2>2
  <2>3. CASE ~(i < r)
    <3>1. i + 1 \in DOMAIN s /\ i + 1 # r
      BY <1>3, <1>6, <2>1, <2>3
    <3>2. QED
      BY <1>3, <1>7, <2>1, <2>3, <3>1
  <2>4. QED
    BY <2>2, <2>3
<1>12. Good(c, Len(t)) /\ (DOMAIN c.profiles # {} => Len(t) \in DOMAIN c.profiles)
  BY <1>9, <1>10, <1>11 DEF Good
<1>13. Fits(window') /\ window'.copy = c
  BY <1>1, <1>2, <1>9, <1>10, <1>12, Showing
<1>14. ASSUME original' # "gone"
       PROVE  Within(c) /\ IdAt(c, c.current) = original'
  <2>1. original' = original /\ IdAt(b, r) # original
    BY <1>5, <1>14
  <2>2. b.current \in 0..Len(s) /\ IdAt(b, b.current) = original
    BY <1>1, <1>4, <1>14, <2>1 DEF Within, s
  <2>3. b.current # r /\ r \in 1..Len(s)
    BY <1>3, <1>6, <2>1, <2>2
  <2>4. CASE b.current = 0
    <3>1. n = 0 /\ n \notin DOMAIN t /\ b.current \notin DOMAIN s
      BY <1>6, <1>9, <2>3, <2>4
    <3>2. QED
      BY <1>9, <1>10, <2>1, <2>2, <3>1 DEF IdAt, Within, s
  <2>5. CASE b.current # 0
    <3>1. n \in 1..(Len(s) - 1) /\ b.current \in DOMAIN s
          /\ b.current = IF n < r THEN n ELSE n + 1
      BY <1>6, <2>2, <2>3, <2>5
    <3>2. t[n] = s[b.current]
      BY <1>7, <3>1
    <3>3. n \in DOMAIN t /\ n \in 0..Len(t)
      BY <1>6, <1>7, <1>9, <3>1
    <3>4. QED
      BY <1>10, <2>1, <2>2, <3>1, <3>2, <3>3 DEF IdAt, Within, s
  <2>6. QED
    BY <2>4, <2>5
<1>15. QED
  BY <1>1, <1>13, <1>14, WindowStep

LEMMA CloseStep == ASSUME ProfilesInv, OK \/ Cancel PROVE ProfilesInv'
<1>1. window' = NoWindow
  BY DEF OK, Cancel
<1>2. Window' /\ Follows'
  BY <1>1 DEF Window, Follows, IsOpen
<1>3. CASE OK
  <2>1. Fits(window) /\ Valid /\ SaveConfiguration(Saved)
    BY <1>3 DEF OK, ProfilesInv, Window
  <2>2. Kept(Saved)
    BY <2>1, SavedCopy DEF Kept
  <2>3. Stored' /\ Runner' /\ MenuHonest'
    BY <2>1, <2>2, Saving DEF ProfilesInv
  <2>4. QED
    BY <1>2, <2>3 DEF ProfilesInv
<1>4. CASE Cancel
  <2>1. UNCHANGED <<config, runner, menu, byURL>>
    BY <1>4 DEF Cancel
  <2>2. Stored' /\ Runner' /\ MenuHonest'
    BY <2>1 DEF ProfilesInv, Stored, Runner, Excused, MenuHonest
  <2>3. QED
    BY <1>2, <2>2 DEF ProfilesInv
<1>5. QED
  BY <1>3, <1>4

LEMMA NextProfiles == ASSUME ProfilesInv, [Next]_vars PROVE ProfilesInv'
<1>1. CASE UNCHANGED vars
  BY <1>1 DEF vars, ProfilesInv, Stored, Runner, Excused, Window, Follows, IsOpen, MenuHonest
<1>2. CASE Next
  BY <1>2, ChooseStep, URLStep, ShowStep, TypeStep, SelectStep, AddStep,
     RemoveStep, CloseStep DEF Next
<1>3. QED
  BY <1>1, <1>2

LEMMA ProfilesInvariant == Spec => []ProfilesInv
BY InitProfiles, NextProfiles, PTL DEF Spec

-----------------------------------------------------------------------------
(* The stored configuration, the runner's keys and the window's copy are   *)
(* always of their types, in particular the numbers of the current profile *)
(* and of the selected row.                                                *)
THEOREM ProfilesTypes == Spec => []TypeOK
<1>1. ProfilesInv /\ byURL \in BOOLEAN => TypeOK
  BY DEF ProfilesInv, Stored, Kept, Runner, Window, IsOpen, Fits, Windows, TypeOK
<1>2. Init => byURL \in BOOLEAN
  BY DEF Init
<1>3. byURL \in BOOLEAN /\ [Next]_vars => (byURL \in BOOLEAN)'
  BY DEF Next, vars, ChooseServer, SaveConfiguration, OpenSSURL, Type,
         ShowConfigWindow, Add, RemoveRow, OK, Cancel, SelectRow
<1>4. QED
  BY <1>1, <1>2, <1>3, ProfilesInvariant, PTL DEF Spec

(* What is typed is saved to the profile it was typed for. *)
THEOREM FieldsOfTheirRow == Spec => []EditsLand
<1>1. ProfilesInv => EditsLand
  BY DEF ProfilesInv, Window, Fits, EditsLand, Rows, IdAt
<1>2. QED
  BY <1>1, ProfilesInvariant, PTL

(* The stored profiles are complete and the current one of them exists, but *)
(* for what openSSURL lets through: a link, or the one profile made of it.  *)
THEOREM BlankOnlyFromURL == Spec => []BlankOnlyByURL
<1>1. ProfilesInv => BlankOnlyByURL
  <2> SUFFICES ASSUME ProfilesInv PROVE BlankOnlyByURL
    OBVIOUS
  <2>1. ASSUME config # NoConfig
        PROVE  /\ config.current \in 0..Len(config.profiles)
               /\ \/ \A i \in DOMAIN config.profiles : config.profiles[i].says \in Says
                  \/ config.profiles = HalfProfile
    <3>1. Kept(config) /\ Within(config)
      BY <2>1 DEF ProfilesInv, Stored
    <3>2. \A i \in DOMAIN config.profiles : i # 0
      BY <3>1, Parts DEF Kept
    <3>3. QED
      BY <3>1, <3>2 DEF Kept, Good, Within
  <2>2. ~runner.public /\ runner.says \notin Says => Excused
    BY DEF ProfilesInv, Runner
  <2>3. QED
    BY <2>1, <2>2 DEF BlankOnlyByURL, Excused
<1>2. QED
  BY <1>1, ProfilesInvariant, PTL

(* The number of the current profile follows the profile. *)
THEOREM CurrentIsFollowed == Spec => []CurrentFollows
<1>1. ProfilesInv => CurrentFollows
  BY DEF ProfilesInv, Follows, CurrentFollows
<1>2. QED
  BY <1>1, ProfilesInvariant, PTL

(* The menu tells which server the proxy is configured with. *)
THEOREM MenuIsHonest == Spec => []MenuHonest
<1>1. ProfilesInv => MenuHonest
  BY DEF ProfilesInv
<1>2. QED
  BY <1>1, ProfilesInvariant, PTL
=============================================================================
