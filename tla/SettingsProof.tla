---------------------------- MODULE SettingsProof ----------------------------
(***************************************************************************)
(* Proofs about Settings, for any servers and any number of saves: what a  *)
(* set_config that was not overlapped leaves in the globals is its own,    *)
(* and what a connection then takes from them belongs together.            *)
(***************************************************************************)
EXTENDS Settings, SequenceTheorems, TLAPS

(* What a global will be once a thread has made its assignments: what the  *)
(* last one to it says, or what it is if there is none.                    *)
WillBe(q, m, g, v) ==
  \/ m[g] = v /\ \A j \in DOMAIN q : q[j].name # g
  \/ \E i \in DOMAIN q :
       /\ q[i].name = g /\ q[i].value = v
       /\ \A j \in DOMAIN q : j > i => q[j].name # g

WillHold(q, m, a) ==
  /\ WillBe(q, m, "_server", a.IP)
  /\ WillBe(q, m, "_remote_port", a.port)
  /\ WillBe(q, m, "_method", a.method)

WillEncrypt(q, m, a) ==
  /\ WillBe(q, m, "cipher", CipherOf(a.method))
  /\ CipherOf(a.method) = "TABLE" => WillBe(q, m, "encrypt_table", a.password)
  /\ CipherOf(a.method) # "TABLE" => WillBe(q, m, "_key", <<a.password, a.method>>)
  /\ CipherOf(a.method) = "OPENSSL" => WillBe(q, m, "_cipher", a.method)

(* The globals are those of one configuration. *)
Fits(m, a) ==
  /\ m["_server"] = a.IP /\ m["_remote_port"] = a.port /\ m["_method"] = a.method
  /\ m["cipher"] = CipherOf(a.method)
  /\ CipherOf(a.method) = "TABLE" => m["encrypt_table"] = a.password
  /\ CipherOf(a.method) # "TABLE" => m["_key"] = <<a.password, a.method>>
  /\ CipherOf(a.method) = "OPENSSL" => m["_cipher"] = a.method

Sequence(q) == \E S : q \in Seq(S)
Only(q, names) == \A i \in DOMAIN q : q[i].name \in names
Proper(a) == a \notin {Nothing, Mixed}

Shape ==
  /\ todo = [t \in Threads |-> todo[t]]
  /\ stage = [t \in Threads |-> stage[t]]
  /\ args = [t \in Threads |-> args[t]]
  /\ mem = [g \in Globals |-> mem[g]]
  /\ \A t \in Threads : Sequence(todo[t]) /\ Only(todo[t], Keys \cup Globals)
  /\ \A t \in Threads : ~Busy(t) => Only(todo[t], Keys)
  /\ overlap \in BOOLEAN

Alone == (\A t \in Threads : Busy(t)) => overlap

Pending ==
  \A t \in Threads :
    ~overlap /\ Busy(t) =>
      /\ WillHold(todo[t], mem, args[t])
      /\ stage[t] = "done" => WillEncrypt(todo[t], mem, args[t])

InForce == AllQuiet /\ Proper(inForce) => Fits(mem, inForce)

GlobalsInv == Shape /\ Alone /\ Pending /\ InForce

-----------------------------------------------------------------------------
(* One assignment brings no global further from what it will be. *)
LEMMA TailOf ==
  ASSUME NEW S, NEW q \in Seq(S), q # <<>>
  PROVE  /\ Tail(q) \in Seq(S)
         /\ 1 \in DOMAIN q /\ Head(q) = q[1]
         /\ \A i \in DOMAIN Tail(q) : i \in Nat /\ i + 1 \in DOMAIN q /\ Tail(q)[i] = q[i + 1]
         /\ \A i \in DOMAIN q : i = 1 \/ (i \in Nat /\ i - 1 \in DOMAIN Tail(q)
                                          /\ Tail(q)[i - 1] = q[i])
OBVIOUS

LEMMA Assigned ==
  ASSUME NEW S, NEW q \in Seq(S), q # <<>>,
         NEW m, m = [x \in Globals |-> m[x]], Head(q).name \in Globals,
         NEW g \in Globals, NEW v, WillBe(q, m, g, v)
  PROVE  WillBe(Tail(q), [m EXCEPT ![Head(q).name] = Head(q).value], g, v)
<1> DEFINE n == [m EXCEPT ![Head(q).name] = Head(q).value]
<1>1. n[g] = IF Head(q).name = g THEN Head(q).value ELSE m[g]
  OBVIOUS
<1> HIDE DEF n
<1>2. CASE m[g] = v /\ \A j \in DOMAIN q : q[j].name # g
  BY <1>1, <1>2, TailOf DEF WillBe
<1>3. ASSUME NEW i \in DOMAIN q, q[i].name = g, q[i].value = v,
             \A j \in DOMAIN q : j > i => q[j].name # g
      PROVE  WillBe(Tail(q), n, g, v)
  <2>1. CASE i = 1
    <3>1. \A j \in DOMAIN Tail(q) : Tail(q)[j].name # g
      BY <1>3, <2>1, TailOf
    <3>2. n[g] = v
      BY <1>1, <1>3, <2>1, TailOf
    <3> QED BY <3>1, <3>2 DEF WillBe
  <2>2. CASE i # 1
    <3>1. i \in Nat /\ i - 1 \in DOMAIN Tail(q) /\ Tail(q)[i - 1] = q[i]
      BY <2>2, TailOf
    <3>2. ASSUME NEW j \in DOMAIN Tail(q), j > i - 1 PROVE Tail(q)[j].name # g
      BY <1>3, <3>1, <3>2, TailOf
    <3> QED BY <1>3, <3>1, <3>2 DEF WillBe
  <2> QED BY <2>1, <2>2
<1> QED BY <1>2, <1>3 DEF WillBe, n

(* An assignment to a key is none to a global. *)
LEMMA Skipped ==
  ASSUME NEW S, NEW q \in Seq(S), q # <<>>, NEW m, NEW g, Head(q).name # g,
         NEW v, WillBe(q, m, g, v)
  PROVE  WillBe(Tail(q), m, g, v)
<1>1. CASE m[g] = v /\ \A j \in DOMAIN q : q[j].name # g
  BY <1>1, TailOf DEF WillBe
<1>2. ASSUME NEW i \in DOMAIN q, q[i].name = g, q[i].value = v,
             \A j \in DOMAIN q : j > i => q[j].name # g
      PROVE  WillBe(Tail(q), m, g, v)
  <2>1. i \in Nat /\ i - 1 \in DOMAIN Tail(q) /\ Tail(q)[i - 1] = q[i]
    BY <1>2, TailOf
  <2>2. ASSUME NEW j \in DOMAIN Tail(q), j > i - 1 PROVE Tail(q)[j].name # g
    BY <1>2, <2>1, <2>2, TailOf
  <2> QED BY <1>2, <2>1, <2>2 DEF WillBe
<1> QED BY <1>1, <1>2 DEF WillBe

LEMMA NothingLeft ==
  ASSUME NEW m, NEW g, NEW v PROVE WillBe(<<>>, m, g, v) <=> m[g] = v
BY DEF WillBe

LEMMA Kinds ==
  ASSUME NEW x
  PROVE  /\ CipherOf(x) \in {"TABLE", "SODIUM", "OPENSSL"}
         /\ x \in TableServers => CipherOf(x) = "TABLE"
         /\ x \in SodiumServers => CipherOf(x) = "SODIUM"
         /\ x \notin TableServers \cup SodiumServers => CipherOf(x) = "OPENSSL"
BY SettingsAssumption DEF SettingsAssumption, CipherOf

(* What set_config and config_encryption are about to assign. *)
LEMMA CopyAll ==
  ASSUME NEW m, NEW a
  PROVE  /\ Sequence(CopyArgs(a)) /\ Only(CopyArgs(a), Globals)
         /\ WillHold(CopyArgs(a), m, a)
<1> DEFINE p1 == [name |-> "_server", value |-> Torn]
           p2 == [name |-> "_server", value |-> a.IP]
           p3 == [name |-> "_remote_port", value |-> Torn]
           p4 == [name |-> "_remote_port", value |-> a.port]
           p5 == [name |-> "_method", value |-> a.method]
           q  == << p1, p2, p3, p4, p5 >>
<1>1. CopyArgs(a) = q
  BY DEF CopyArgs, Put
<1>2. q \in Seq({p1, p2, p3, p4, p5})
  OBVIOUS
<1>3. DOMAIN q = 1..5 /\ q[1] = p1 /\ q[2] = p2 /\ q[3] = p3 /\ q[4] = p4 /\ q[5] = p5
  OBVIOUS
<1> HIDE DEF q
<1>4. Only(q, Globals)
  BY <1>3 DEF Only, Globals
<1>5. WillBe(q, m, "_server", a.IP)
  <2> SUFFICES \A j \in DOMAIN q : j > 2 => q[j].name # "_server"
    BY <1>3 DEF WillBe
  <2> QED BY <1>3
<1>6. WillBe(q, m, "_remote_port", a.port)
  <2> SUFFICES \A j \in DOMAIN q : j > 4 => q[j].name # "_remote_port"
    BY <1>3 DEF WillBe
  <2> QED BY <1>3
<1>7. WillBe(q, m, "_method", a.method)
  <2> SUFFICES \A j \in DOMAIN q : j > 5 => q[j].name # "_method"
    BY <1>3 DEF WillBe
  <2> QED BY <1>3
<1> QED BY <1>1, <1>2, <1>4, <1>5, <1>6, <1>7 DEF WillHold, Sequence

LEMMA ConfigTable ==
  ASSUME NEW m, NEW a, CipherOf(a.method) = "TABLE", WillHold(<<>>, m, a)
  PROVE  LET q == Config(a.password, a.method) IN
           Sequence(q) /\ Only(q, Globals) /\ WillHold(q, m, a) /\ WillEncrypt(q, m, a)
<1> DEFINE p1 == [name |-> "encrypt_table", value |-> Torn]
           p2 == [name |-> "encrypt_table", value |-> a.password]
           p3 == [name |-> "cipher", value |-> "TABLE"]
           q  == << p1, p2, p3 >>
<1>1. Config(a.password, a.method) = q
  BY DEF Config, Put
<1>2. q \in Seq({p1, p2, p3})
  OBVIOUS
<1>3. DOMAIN q = 1..3 /\ q[1] = p1 /\ q[2] = p2 /\ q[3] = p3
  OBVIOUS
<1> HIDE DEF q
<1>4. Only(q, Globals)
  BY <1>3 DEF Only, Globals
<1>5. WillHold(q, m, a)
  BY <1>3, NothingLeft DEF WillHold, WillBe
<1>6. WillBe(q, m, "encrypt_table", a.password)
  <2> SUFFICES \A j \in DOMAIN q : j > 2 => q[j].name # "encrypt_table"
    BY <1>3 DEF WillBe
  <2> QED BY <1>3
<1>7. WillBe(q, m, "cipher", "TABLE")
  <2> SUFFICES \A j \in DOMAIN q : j > 3 => q[j].name # "cipher"
    BY <1>3 DEF WillBe
  <2> QED BY <1>3
<1> QED BY <1>1, <1>2, <1>4, <1>5, <1>6, <1>7 DEF WillEncrypt, Sequence

LEMMA ConfigSodium ==
  ASSUME NEW m, NEW a, CipherOf(a.method) = "SODIUM", WillHold(<<>>, m, a)
  PROVE  LET q == Config(a.password, a.method) IN
           Sequence(q) /\ Only(q, Globals) /\ WillHold(q, m, a) /\ WillEncrypt(q, m, a)
<1> DEFINE key == <<a.password, a.method>>
           p1 == [name |-> "cipher", value |-> "SODIUM"]
           p2 == [name |-> "_key", value |-> Torn]
           p3 == [name |-> "_key", value |-> key]
           q  == << p1, p2, p3 >>
<1>1. Config(a.password, a.method) = q
  BY DEF Config, Put
<1> HIDE DEF key
<1>2. q \in Seq({p1, p2, p3})
  OBVIOUS
<1>3. DOMAIN q = 1..3 /\ q[1] = p1 /\ q[2] = p2 /\ q[3] = p3
  OBVIOUS
<1> HIDE DEF q
<1>4. Only(q, Globals)
  BY <1>3 DEF Only, Globals
<1>5. WillHold(q, m, a)
  BY <1>3, NothingLeft DEF WillHold, WillBe
<1>6. WillBe(q, m, "cipher", "SODIUM")
  <2> SUFFICES \A j \in DOMAIN q : j > 1 => q[j].name # "cipher"
    BY <1>3 DEF WillBe
  <2> QED BY <1>3
<1>7. WillBe(q, m, "_key", key)
  <2> SUFFICES \A j \in DOMAIN q : j > 3 => q[j].name # "_key"
    BY <1>3 DEF WillBe
  <2> QED BY <1>3
<1> QED BY <1>1, <1>2, <1>4, <1>5, <1>6, <1>7 DEF WillEncrypt, Sequence, key

LEMMA ConfigOpenSSL ==
  ASSUME NEW m, NEW a, CipherOf(a.method) = "OPENSSL", WillHold(<<>>, m, a)
  PROVE  LET q == Config(a.password, a.method) IN
           Sequence(q) /\ Only(q, Globals) /\ WillHold(q, m, a) /\ WillEncrypt(q, m, a)
<1> DEFINE key == <<a.password, a.method>>
           p1 == [name |-> "cipher", value |-> "OPENSSL"]
           p2 == [name |-> "_cipher", value |-> a.method]
           p3 == [name |-> "_key", value |-> Torn]
           p4 == [name |-> "_key", value |-> key]
           q  == << p1, p2, p3, p4 >>
<1>1. Config(a.password, a.method) = q
  BY DEF Config, Put
<1> HIDE DEF key
<1>2. q \in Seq({p1, p2, p3, p4})
  OBVIOUS
<1>3. DOMAIN q = 1..4 /\ q[1] = p1 /\ q[2] = p2 /\ q[3] = p3 /\ q[4] = p4
  OBVIOUS
<1> HIDE DEF q
<1>4. Only(q, Globals)
  BY <1>3 DEF Only, Globals
<1>5. WillHold(q, m, a)
  BY <1>3, NothingLeft DEF WillHold, WillBe
<1>6. WillBe(q, m, "cipher", "OPENSSL")
  <2> SUFFICES \A j \in DOMAIN q : j > 1 => q[j].name # "cipher"
    BY <1>3 DEF WillBe
  <2> QED BY <1>3
<1>7. WillBe(q, m, "_cipher", a.method)
  <2> SUFFICES \A j \in DOMAIN q : j > 2 => q[j].name # "_cipher"
    BY <1>3 DEF WillBe
  <2> QED BY <1>3
<1>8. WillBe(q, m, "_key", key)
  <2> SUFFICES \A j \in DOMAIN q : j > 4 => q[j].name # "_key"
    BY <1>3 DEF WillBe
  <2> QED BY <1>3
<1> QED BY <1>1, <1>2, <1>4, <1>5, <1>6, <1>7, <1>8 DEF WillEncrypt, Sequence, key

LEMMA ConfigAll ==
  ASSUME NEW m, NEW a, WillHold(<<>>, m, a)
  PROVE  LET q == Config(a.password, a.method) IN
           WillHold(q, m, a) /\ WillEncrypt(q, m, a)
BY Kinds, ConfigTable, ConfigSodium, ConfigOpenSSL

(* Whatever method it finds, config_encryption assigns to globals only. *)
LEMMA ConfigShape ==
  ASSUME NEW password, NEW method
  PROVE  Sequence(Config(password, method)) /\ Only(Config(password, method), Globals)
<1> DEFINE a == [IP |-> Nothing, port |-> Nothing, password |-> password, method |-> method]
           m == [g \in Globals |-> IF g = "_method" THEN method ELSE Nothing]
<1>1. WillHold(<<>>, m, a)
  BY NothingLeft DEF WillHold, Globals
<1>2. a.password = password /\ a.method = method
  OBVIOUS
<1> HIDE DEF a
<1> QED BY <1>1, <1>2, Kinds, ConfigTable, ConfigSodium, ConfigOpenSSL

LEMMA AllMade ==
  ASSUME NEW m, NEW a, WillHold(<<>>, m, a), WillEncrypt(<<>>, m, a)
  PROVE  Fits(m, a)
BY NothingLeft DEF WillHold, WillEncrypt, Fits

-----------------------------------------------------------------------------
(* The globals. *)

LEMMA InitGlobals == ASSUME Init PROVE GlobalsInv
<1>1. Sequence(<<>>) /\ \A names : Only(<<>>, names)
  <2>1. <<>> \in Seq({})
    OBVIOUS
  <2> QED BY <2>1 DEF Sequence, Only
<1>2. \A t \in Threads : todo[t] = <<>> /\ ~Busy(t)
  BY DEF Init, Busy, Threads
<1>3. Shape
  BY <1>1, <1>2 DEF Init, Shape
<1>4. Alone
  BY <1>2 DEF Alone, Threads
<1>5. Pending
  BY <1>2 DEF Pending
<1>6. InForce
  BY DEF Init, InForce, Proper
<1> QED BY <1>3, <1>4, <1>5, <1>6 DEF GlobalsInv

(* A thread that is outside set_config and stays there: the others' claims *)
(* on the globals are as they were.                                        *)
LEMMA OutsideStep ==
  ASSUME GlobalsInv, NEW t \in Threads, ~Busy(t),
         NEW q, Sequence(q), Only(q, Keys), todo' = [todo EXCEPT ![t] = q],
         NEW s, s \notin {"set", "done"}, stage' = [stage EXCEPT ![t] = s],
         args' = [x \in Threads |-> args'[x]],
         \A x \in Threads \ {t} : args'[x] = args[x],
         UNCHANGED <<mem, inForce, overlap>>
  PROVE  GlobalsInv'
<1> USE DEF GlobalsInv
<1>1. \A x \in Threads : /\ todo'[x] = IF x = t THEN q ELSE todo[x]
                         /\ stage'[x] = IF x = t THEN s ELSE stage[x]
  BY DEF Shape
<1>2. \A x \in Threads : Busy(x)' <=> Busy(x)
  BY <1>1 DEF Busy
<1>3. Shape'
  <2>1. /\ todo' = [x \in Threads |-> todo'[x]]
        /\ stage' = [x \in Threads |-> stage'[x]]
        /\ mem' = [g \in Globals |-> mem'[g]]
    BY DEF Shape
  <2>2. \A x \in Threads : /\ Sequence(todo'[x]) /\ Only(todo'[x], Keys \cup Globals)
                           /\ ~Busy(x) => Only(todo'[x], Keys)
    BY <1>1 DEF Shape, Only
  <2> QED BY <1>2, <2>1, <2>2 DEF Shape
<1>4. Alone'
  BY <1>2 DEF Alone
<1>5. Pending'
  <2> SUFFICES ASSUME NEW x \in Threads, ~overlap, Busy(x)
               PROVE  /\ WillHold(todo'[x], mem', args'[x])
                      /\ stage'[x] = "done" => WillEncrypt(todo'[x], mem', args'[x])
    BY <1>2 DEF Pending
  <2>1. x # t
    OBVIOUS
  <2>2. todo'[x] = todo[x] /\ stage'[x] = stage[x] /\ args'[x] = args[x] /\ mem' = mem
    BY <1>1, <2>1
  <2> QED BY <2>2 DEF Pending
<1>6. InForce'
  BY <1>2 DEF InForce, AllQuiet
<1> QED BY <1>3, <1>4, <1>5, <1>6

(* set_config is called. *)
LEMMA SetConfigStep ==
  ASSUME GlobalsInv, NEW t \in Threads, ~Busy(t), NEW a, SetConfig(t, a)
  PROVE  GlobalsInv'
<1> USE DEF GlobalsInv, SetConfig
<1>1. \A x \in Threads : /\ todo'[x] = IF x = t THEN CopyArgs(a) ELSE todo[x]
                         /\ stage'[x] = IF x = t THEN "set" ELSE stage[x]
                         /\ args'[x] = IF x = t THEN a ELSE args[x]
  BY DEF Shape
<1>2. Busy(t)'
  BY <1>1 DEF Busy
<1>3. \A x \in Threads \ {t} : x = Other(t) /\ (Busy(x)' <=> Busy(x))
  BY <1>1 DEF Busy, Threads, Other
<1>4. Other(t) \in Threads \ {t}
  BY DEF Threads, Other
<1>5. Shape'
  <2>1. /\ todo' = [x \in Threads |-> todo'[x]]
        /\ stage' = [x \in Threads |-> stage'[x]]
        /\ args' = [x \in Threads |-> args'[x]]
        /\ mem' = [g \in Globals |-> mem'[g]]
    BY DEF Shape
  <2>2. \A x \in Threads : /\ Sequence(todo'[x]) /\ Only(todo'[x], Keys \cup Globals)
    BY <1>1, CopyAll DEF Shape, Only
  <2>3. \A x \in Threads : ~Busy(x)' => Only(todo'[x], Keys)
    BY <1>1, <1>2, <1>3 DEF Shape
  <2>4. overlap' \in BOOLEAN
    BY DEF Busy
  <2> QED BY <2>1, <2>2, <2>3, <2>4 DEF Shape
<1>6. Alone'
  BY <1>2, <1>3, <1>4 DEF Alone
<1>7. Pending'
  <2> SUFFICES ASSUME NEW x \in Threads, ~overlap', Busy(x)'
               PROVE  /\ WillHold(todo'[x], mem', args'[x])
                      /\ stage'[x] = "done" => WillEncrypt(todo'[x], mem', args'[x])
    BY DEF Pending
  <2>1. x = t
    BY <1>3
  <2>2. todo'[x] = CopyArgs(a) /\ stage'[x] = "set" /\ args'[x] = a
    BY <1>1, <2>1
  <2> QED BY <2>2, CopyAll
<1>8. InForce'
  BY <1>2 DEF InForce, AllQuiet
<1> QED BY <1>5, <1>6, <1>7, <1>8

LEMMA ConfigEncryptionStep ==
  ASSUME GlobalsInv, NEW t \in Threads, ConfigEncryption(t)
  PROVE  GlobalsInv'
<1> USE DEF GlobalsInv, ConfigEncryption
<1> PICK method \in {args[t].method, mem["_method"]} :
           todo' = [todo EXCEPT ![t] = Config(args[t].password, method)]
  OBVIOUS
<1> DEFINE q == Config(args[t].password, method)
<1>0. Sequence(q) /\ Only(q, Globals)
  BY ConfigShape
<1>1. \A x \in Threads : /\ todo'[x] = IF x = t THEN q ELSE todo[x]
                         /\ stage'[x] = IF x = t THEN "done" ELSE stage[x]
  BY DEF Shape
<1> HIDE DEF q
<1>2. \A x \in Threads : Busy(x)' <=> Busy(x)
  BY <1>1 DEF Busy
<1>3. Shape'
  <2>1. /\ todo' = [x \in Threads |-> todo'[x]]
        /\ stage' = [x \in Threads |-> stage'[x]]
        /\ args' = [x \in Threads |-> args'[x]]
        /\ mem' = [g \in Globals |-> mem'[g]]
    BY DEF Shape
  <2>2. \A x \in Threads : /\ Sequence(todo'[x]) /\ Only(todo'[x], Keys \cup Globals)
    BY <1>0, <1>1 DEF Shape, Only
  <2>3. Busy(t)
    BY DEF Busy
  <2>4. \A x \in Threads : ~Busy(x)' => Only(todo'[x], Keys)
    BY <1>1, <1>2, <2>3 DEF Shape
  <2> QED BY <2>1, <2>2, <2>4 DEF Shape
<1>4. Alone'
  BY <1>2 DEF Alone
<1>5. Pending'
  <2> SUFFICES ASSUME NEW x \in Threads, ~overlap, Busy(x)
               PROVE  /\ WillHold(todo'[x], mem', args'[x])
                      /\ stage'[x] = "done" => WillEncrypt(todo'[x], mem', args'[x])
    BY <1>2 DEF Pending
  <2>1. WillHold(todo[x], mem, args[x])
    BY DEF Pending
  <2>2. CASE x = t
    <3>1. WillHold(<<>>, mem, args[t])
      BY <2>1, <2>2
    <3>2. method = args[t].method
      BY <3>1, NothingLeft DEF WillHold
    <3> QED BY <1>1, <2>2, <3>1, <3>2, ConfigAll DEF q
  <2>3. CASE x # t
    BY <1>1, <2>3 DEF Pending
  <2> QED BY <2>2, <2>3
<1>6. InForce'
  BY <1>2 DEF InForce, AllQuiet
<1> QED BY <1>3, <1>4, <1>5, <1>6

LEMMA ReturnsStep ==
  ASSUME GlobalsInv, NEW t \in Threads, SetConfigReturns(t)
  PROVE  GlobalsInv'
<1> USE DEF GlobalsInv, SetConfigReturns
<1>1. \A x \in Threads : /\ stage'[x] = IF x = t THEN IF t = "main" THEN "idle" ELSE "gate"
                                        ELSE stage[x]
                         /\ args'[x] = IF x = t THEN NoArgs ELSE args[x]
  BY DEF Shape
<1>2. Busy(t) /\ ~Busy(t)'
  BY <1>1 DEF Busy
<1>3. \A x \in Threads \ {t} : x = Other(t) /\ (Busy(x)' <=> Busy(x))
  BY <1>1 DEF Busy, Threads, Other
<1>4. Shape'
  <2>1. /\ todo' = [x \in Threads |-> todo'[x]]
        /\ stage' = [x \in Threads |-> stage'[x]]
        /\ args' = [x \in Threads |-> args'[x]]
        /\ mem' = [g \in Globals |-> mem'[g]]
    BY DEF Shape
  <2>2. \A x \in Threads : Sequence(todo'[x]) /\ Only(todo'[x], Keys \cup Globals)
    BY DEF Shape
  <2>3. \A x \in Threads : ~Busy(x)' => Only(todo'[x], Keys)
    BY <1>2, <1>3 DEF Shape, Only
  <2>4. overlap' \in BOOLEAN
    OBVIOUS
  <2> QED BY <2>1, <2>2, <2>3, <2>4 DEF Shape
<1>5. Alone'
  BY <1>2 DEF Alone
<1>6. Pending'
  <2> SUFFICES ASSUME NEW x \in Threads, ~overlap', Busy(x)'
               PROVE  /\ WillHold(todo'[x], mem', args'[x])
                      /\ stage'[x] = "done" => WillEncrypt(todo'[x], mem', args'[x])
    BY DEF Pending
  <2>1. x # t /\ x = Other(t) /\ Busy(x)
    BY <1>2, <1>3
  <2>2. ~overlap
    BY <2>1
  <2> QED BY <1>1, <2>1, <2>2 DEF Pending
<1>7. InForce'
  <2> SUFFICES ASSUME AllQuiet', Proper(inForce)' PROVE Fits(mem', inForce')
    BY DEF InForce
  <2>1. ~overlap /\ inForce' = args[t]
    BY DEF Proper
  <2>2. WillHold(<<>>, mem, args[t]) /\ WillEncrypt(<<>>, mem, args[t])
    BY <1>2, <2>1 DEF Pending
  <2> QED BY <2>1, <2>2, AllMade
<1> QED BY <1>4, <1>5, <1>6, <1>7

LEMMA AssignStep ==
  ASSUME GlobalsInv, NEW t \in Threads, Assign(t)
  PROVE  GlobalsInv'
<1> USE DEF GlobalsInv
<1> DEFINE q == todo[t]
           p == Head(q)
<1> PICK S : q \in Seq(S)
  BY DEF Shape, Sequence
<1>1. q # <<>> /\ todo' = [todo EXCEPT ![t] = Tail(q)] /\ UNCHANGED <<stage, args, inForce, overlap>>
  BY DEF Assign
<1>2. \A x \in Threads : todo'[x] = IF x = t THEN Tail(q) ELSE todo[x]
  BY <1>1 DEF Shape
<1>3. \A x \in Threads : Busy(x)' <=> Busy(x)
  BY <1>1 DEF Busy
<1>4. p.name \in Keys \cup Globals /\ (~Busy(t) => p.name \in Keys)
  <2>1. 1 \in DOMAIN q /\ p = q[1]
    BY <1>1, TailOf
  <2> QED BY <2>1 DEF Shape, Only
<1>5. Keys \cap Globals = {}
  BY DEF Keys, Globals
<1>6. /\ mem' = [g \in Globals |-> mem'[g]]
      /\ p.name \in Keys => mem' = mem
      /\ p.name \in Globals => mem' = [mem EXCEPT ![p.name] = p.value]
  BY <1>4, <1>5 DEF Assign, Shape
<1>7. \A g \in Globals : \A v : WillBe(q, mem, g, v) => WillBe(Tail(q), mem', g, v)
  <2> SUFFICES ASSUME NEW g \in Globals, NEW v, WillBe(q, mem, g, v)
               PROVE  WillBe(Tail(q), mem', g, v)
    OBVIOUS
  <2>1. CASE p.name \in Keys
    <3>1. p.name # g
      BY <1>5, <2>1
    <3> QED BY <1>1, <1>6, <2>1, <3>1, Skipped
  <2>2. CASE p.name \in Globals
    <3>1. mem = [x \in Globals |-> mem[x]]
      BY DEF Shape
    <3> QED BY <1>1, <1>6, <2>2, <3>1, Assigned
  <2> QED BY <1>4, <2>1, <2>2
<1>8. Shape'
  <2>1. /\ todo' = [x \in Threads |-> todo'[x]]
        /\ stage' = [x \in Threads |-> stage'[x]]
        /\ args' = [x \in Threads |-> args'[x]]
    BY <1>1 DEF Shape
  <2>2. Sequence(Tail(q))
    BY <1>1, TailOf DEF Sequence
  <2>3. \A names : Only(q, names) => Only(Tail(q), names)
    BY <1>1, TailOf DEF Only
  <2>4. \A x \in Threads : /\ Sequence(todo'[x]) /\ Only(todo'[x], Keys \cup Globals)
                           /\ ~Busy(x)' => Only(todo'[x], Keys)
    BY <1>2, <1>3, <2>2, <2>3 DEF Shape
  <2> QED BY <1>1, <1>6, <2>1, <2>4 DEF Shape
<1>9. Alone'
  BY <1>1, <1>3 DEF Alone
<1>10. Pending'
  <2> SUFFICES ASSUME NEW x \in Threads, ~overlap, Busy(x)
               PROVE  /\ WillHold(todo'[x], mem', args[x])
                      /\ stage[x] = "done" => WillEncrypt(todo'[x], mem', args[x])
    BY <1>1, <1>3 DEF Pending
  <2>1. /\ WillHold(todo[x], mem, args[x])
        /\ stage[x] = "done" => WillEncrypt(todo[x], mem, args[x])
    BY DEF Pending
  <2>2. CASE x = t
    <3>1. todo[x] = q /\ todo'[x] = Tail(q)
      BY <1>2, <2>2
    <3>2. {"_server", "_remote_port", "_method", "cipher", "encrypt_table", "_key", "_cipher"}
            \subseteq Globals
      BY DEF Globals
    <3> HIDE DEF q
    <3> QED BY <1>7, <2>1, <3>1, <3>2 DEF WillHold, WillEncrypt
  <2>3. CASE x # t
    <3>1. ~Busy(t)
      BY <2>3 DEF Alone, Threads
    <3>2. mem' = mem /\ todo'[x] = todo[x]
      BY <1>2, <1>4, <1>6, <2>3, <3>1
    <3> QED BY <2>1, <3>2
  <2> QED BY <2>2, <2>3
<1>11. InForce'
  <2> SUFFICES ASSUME AllQuiet, Proper(inForce) PROVE Fits(mem', inForce)
    BY <1>1, <1>3 DEF InForce, AllQuiet
  <2>1. mem' = mem
    BY <1>4, <1>6 DEF AllQuiet
  <2> QED BY <2>1 DEF InForce
<1> QED BY <1>8, <1>9, <1>10, <1>11

LEMMA Saves ==
  /\ \A s : Sequence(SaveServer(s)) /\ Only(SaveServer(s), Keys)
  /\ \A v : Sequence(<< Put("public", v) >>) /\ Only(<< Put("public", v) >>, Keys)
  /\ \A s : Sequence(<< Put("method", s) >>) /\ Only(<< Put("method", s) >>, Keys)
  /\ \A v : /\ Sequence(<< Put("IP", v), Put("port", v), Put("password", v) >>)
            /\ Only(<< Put("IP", v), Put("port", v), Put("password", v) >>, Keys)
  /\ \A s : LET q == SaveServer(s) \o << Put("public", "NO") >>
            IN  Sequence(q) /\ Only(q, Keys)
  /\ \A s : LET q == << Put("public", "NO") >> \o SaveServer(s)
            IN  Sequence(q) /\ Only(q, Keys)
<1>1. ASSUME NEW a, NEW b, NEW q \in Seq(a), NEW r \in Seq(b), NEW names,
             Only(q, names), Only(r, names)
      PROVE  Sequence(q \o r) /\ Only(q \o r, names)
  <2>1. q \in Seq(a \cup b) /\ r \in Seq(a \cup b)
    OBVIOUS
  <2>2. q \o r \in Seq(a \cup b)
    BY <2>1
  <2>3. \A i \in DOMAIN (q \o r) : \/ i \in DOMAIN q /\ (q \o r)[i] = q[i]
                                   \/ i - Len(q) \in DOMAIN r /\ (q \o r)[i] = r[i - Len(q)]
    BY <2>1
  <2> QED BY <1>1, <2>2, <2>3 DEF Only, Sequence
<1>2. ASSUME NEW s PROVE Sequence(SaveServer(s)) /\ Only(SaveServer(s), Keys)
  <2> DEFINE p1 == [name |-> "IP", value |-> s]
             p2 == [name |-> "port", value |-> s]
             p3 == [name |-> "password", value |-> s]
             p4 == [name |-> "method", value |-> s]
             q  == << p1, p2, p3, p4 >>
  <2>1. SaveServer(s) = q /\ q \in Seq({p1, p2, p3, p4})
    BY DEF SaveServer, Put
  <2>2. DOMAIN q = 1..4 /\ q[1] = p1 /\ q[2] = p2 /\ q[3] = p3 /\ q[4] = p4
    OBVIOUS
  <2> HIDE DEF q
  <2> QED BY SMTT(30), <2>1, <2>2 DEF Only, Sequence, Keys
<1>3. ASSUME NEW v PROVE /\ Sequence(<< Put("IP", v), Put("port", v), Put("password", v) >>)
                         /\ Only(<< Put("IP", v), Put("port", v), Put("password", v) >>, Keys)
  <2> DEFINE p1 == [name |-> "IP", value |-> v]
             p2 == [name |-> "port", value |-> v]
             p3 == [name |-> "password", value |-> v]
             q  == << p1, p2, p3 >>
  <2>1. << Put("IP", v), Put("port", v), Put("password", v) >> = q /\ q \in Seq({p1, p2, p3})
    BY DEF Put
  <2>2. DOMAIN q = 1..3 /\ q[1] = p1 /\ q[2] = p2 /\ q[3] = p3
    OBVIOUS
  <2> HIDE DEF q
  <2> QED BY SMTT(30), <2>1, <2>2 DEF Only, Sequence, Keys
<1>4. ASSUME NEW k \in Keys, NEW v
      PROVE  Sequence(<< Put(k, v) >>) /\ Only(<< Put(k, v) >>, Keys)
  <2> DEFINE q == << Put(k, v) >>
  <2>1. q \in Seq({Put(k, v)}) /\ DOMAIN q = 1..1 /\ q[1] = Put(k, v)
    OBVIOUS
  <2>2. Put(k, v).name = k
    BY DEF Put
  <2> HIDE DEF q
  <2>3. Sequence(q) /\ Only(q, Keys)
    BY <2>1, <2>2 DEF Only, Sequence
  <2> QED BY <2>3 DEF q
<1>5. "public" \in Keys /\ "method" \in Keys
  BY DEF Keys
<1> QED BY <1>1, <1>2, <1>3, <1>4, <1>5 DEF Sequence

LEMMA SaveStep ==
  ASSUME GlobalsInv, NEW q, Sequence(q), Only(q, Keys), NEW next \in {"saved", "idle"},
         Save(q, next)
  PROVE  GlobalsInv'
<1>1. "main" \in Threads /\ ~Busy("main") /\ next \notin {"set", "done"}
  BY DEF Threads, Save, Busy
<1>2. args' = args /\ args' = [x \in Threads |-> args'[x]]
  BY DEF Save, GlobalsInv, Shape
<1> QED BY <1>1, <1>2, OutsideStep DEF Save

LEMMA MainStep == ASSUME GlobalsInv, MainNext PROVE GlobalsInv'
<1>1. CASE \E s \in Servers : OpenSSURL(s)
  BY <1>1, Saves, SaveStep DEF OpenSSURL
<1>2. CASE MacNext
  BY <1>2, Saves, SaveStep DEF MacNext, ReloadPublic, ReloadProfile
<1>3. CASE IOSNext
  BY <1>3, Saves, SaveStep DEF IOSNext, ChangePublicServer, ChooseMethod, Done
<1>4. CASE MainReload
  <2>1. "main" \in Threads /\ ~Busy("main")
    BY <1>4 DEF Threads, MainReload, Busy
  <2>2. CASE NotComplete
    <3> DEFINE q == todo["main"]
    <3>1. Sequence(q) /\ Only(q, Keys) /\ todo' = [todo EXCEPT !["main"] = q]
      BY <1>4, <2>1, <2>2 DEF MainReload, GlobalsInv, Shape
    <3>2. args' = args /\ args' = [x \in Threads |-> args'[x]]
      BY <1>4, <2>2 DEF MainReload, GlobalsInv, Shape
    <3>3. /\ stage' = [stage EXCEPT !["main"] = "idle"] /\ "idle" \notin {"set", "done"}
          /\ UNCHANGED <<mem, args, inForce, overlap>>
      BY <1>4, <2>2 DEF MainReload
    <3>4. \A x \in Threads \ {"main"} : args'[x] = args[x]
      BY <3>2
    <3> HIDE DEF q
    <3> QED BY <2>1, <3>1, <3>2, <3>3, <3>4, OutsideStep
  <2>3. CASE ~NotComplete
    BY <1>4, <2>1, <2>3, SetConfigStep DEF MainReload
  <2> QED BY <2>2, <2>3
<1> QED BY <1>1, <1>2, <1>3, <1>4 DEF MainNext

LEMMA ProxyStep == ASSUME GlobalsInv, ProxyNext PROVE GlobalsInv'
<1>1. "proxy" \in Threads /\ ~Busy("proxy")
  BY DEF Threads, ProxyNext, ProxyReload, ProxyChoose, ReadArg, ReadNil, ProxySetConfig, RunProxy, Busy
<1>2. args = [x \in Threads |-> args[x]] /\ Sequence(todo["proxy"]) /\ Only(todo["proxy"], Keys)
  BY <1>1 DEF GlobalsInv, Shape
<1>3. CASE ProxyReload
  <2> DEFINE q == todo["proxy"]
             s == IF NotComplete THEN "gate" ELSE "choose"
  <2>1. todo = [x \in Threads |-> todo[x]]
    BY DEF GlobalsInv, Shape
  <2>2. todo' = [todo EXCEPT !["proxy"] = q]
    BY <1>3, <2>1 DEF ProxyReload
  <2>3. stage' = [stage EXCEPT !["proxy"] = s] /\ s \notin {"set", "done"}
    BY <1>3 DEF ProxyReload
  <2>4. Sequence(q) /\ Only(q, Keys)
    BY <1>2
  <2> HIDE DEF q, s
  <2>5. UNCHANGED <<mem, args, inForce, overlap>>
    BY <1>3 DEF ProxyReload
  <2> QED BY <1>1, <1>2, <2>2, <2>3, <2>4, <2>5, OutsideStep
<1>4. CASE ProxyChoose
  <2>1. CASE UsesPublic
    BY <1>1, <1>4, <2>1, SetConfigStep DEF ProxyChoose
  <2>2. CASE ~UsesPublic
    <3> DEFINE p1 == [name |-> "method", value |-> Nothing]
               p2 == [name |-> "IP", value |-> Nothing]
               p3 == [name |-> "port", value |-> Nothing]
               p4 == [name |-> "password", value |-> Nothing]
               r  == << p1, p2, p3, p4 >>
    <3>1. todo' = [todo EXCEPT !["proxy"] = r] /\ stage' = [stage EXCEPT !["proxy"] = "read"]
      BY <1>4, <2>2 DEF ProxyChoose, Put
    <3>2. Sequence(r) /\ Only(r, Keys)
      <4>1. r \in Seq({p1, p2, p3, p4})
        OBVIOUS
      <4>2. DOMAIN r = 1..4 /\ r[1] = p1 /\ r[2] = p2 /\ r[3] = p3 /\ r[4] = p4
        OBVIOUS
      <4> HIDE DEF r
      <4> QED BY <4>1, <4>2 DEF Only, Sequence, Keys
    <3> HIDE DEF r
    <3>3. UNCHANGED <<mem, args, inForce, overlap>>
      BY <1>4, <2>2 DEF ProxyChoose
    <3> QED BY <1>1, <1>2, <3>1, <3>2, <3>3, OutsideStep
  <2> QED BY <2>1, <2>2
<1>5. CASE ReadArg
  <2> DEFINE q == Tail(todo["proxy"])
  <2>1. todo' = [todo EXCEPT !["proxy"] = q] /\ stage["proxy"] = "read" /\ todo["proxy"] # <<>>
    BY <1>5 DEF ReadArg
  <2>2. Sequence(q) /\ Only(q, Keys)
    BY <1>2, <2>1, TailOf DEF Only, Sequence
  <2> HIDE DEF q
  <2>3. stage' = [stage EXCEPT !["proxy"] = "read"]
    BY <1>5, <2>1 DEF ReadArg, GlobalsInv, Shape
  <2>4. PICK k : args' = [args EXCEPT !["proxy"][k] = Read(k)]
    BY <1>5 DEF ReadArg
  <2>5. args' = [x \in Threads |-> args'[x]] /\ \A x \in Threads \ {"proxy"} : args'[x] = args[x]
    BY <1>2, <2>4
  <2>6. UNCHANGED <<mem, inForce, overlap>>
    BY <1>5 DEF ReadArg
  <2> QED BY <1>1, <2>1, <2>2, <2>3, <2>5, <2>6, OutsideStep
<1>6. CASE ReadNil
  <2>1. \A t \in Threads : todo'[t] = <<>> /\ ~Busy(t)'
    BY <1>6 DEF ReadNil, Busy
  <2>2. <<>> \in Seq({}) /\ DOMAIN <<>> = {}
    OBVIOUS
  <2>3. Shape'
    <3>1. /\ todo' = [t \in Threads |-> todo'[t]]
          /\ stage' = [t \in Threads |-> stage'[t]]
          /\ args' = [t \in Threads |-> args'[t]]
          /\ mem' = [g \in Globals |-> mem'[g]]
          /\ overlap' \in BOOLEAN
      BY <1>6 DEF ReadNil, GlobalsInv, Shape
    <3> QED BY <2>1, <2>2, <3>1 DEF Shape, Only, Sequence
  <2>4. Alone' /\ Pending'
    BY <1>1, <2>1 DEF Alone, Pending
  <2>5. InForce'
    BY <1>6 DEF ReadNil, InForce, Proper
  <2> QED BY <2>3, <2>4, <2>5 DEF GlobalsInv
<1>7. CASE ProxySetConfig
  BY <1>1, <1>7, SetConfigStep DEF ProxySetConfig
<1>8. CASE RunProxy
  <2> DEFINE q == todo["proxy"]
  <2>1. todo' = [todo EXCEPT !["proxy"] = q]
    BY <1>8 DEF RunProxy, GlobalsInv, Shape
  <2>2. Sequence(q) /\ Only(q, Keys)
    BY <1>2
  <2> HIDE DEF q
  <2>3. stage' = [stage EXCEPT !["proxy"] = "listening"] /\ "listening" \notin {"set", "done"}
    BY <1>8 DEF RunProxy
  <2>4. UNCHANGED <<args, mem, inForce, overlap>>
    BY <1>8 DEF RunProxy
  <2> QED BY <1>1, <1>2, <2>1, <2>2, <2>3, <2>4, OutsideStep
<1> QED BY <1>3, <1>4, <1>5, <1>6, <1>7, <1>8 DEF ProxyNext

LEMMA Untouched ==
  ASSUME GlobalsInv, UNCHANGED <<mem, todo, stage, args, inForce, overlap>>
  PROVE  GlobalsInv'
<1>1. \A t \in Threads : Busy(t)' <=> Busy(t)
  BY DEF Busy
<1>2. Shape' /\ Alone'
  BY <1>1 DEF GlobalsInv, Shape, Alone
<1>3. Pending' /\ InForce'
  BY <1>1 DEF GlobalsInv, Pending, InForce, AllQuiet
<1> QED BY <1>2, <1>3 DEF GlobalsInv

LEMMA NextGlobals == ASSUME GlobalsInv, [Next]_vars PROVE GlobalsInv'
<1>1. CASE ConnNext \/ UNCHANGED vars
  <2>1. UNCHANGED <<mem, todo, stage, args, inForce, overlap>>
    BY <1>1 DEF ConnNext, Accept, ReadServer, ReadPort, InitEncryption, FirstChunk,
                InitCipher, Chunk, CloseConn, Conn, vars
  <2> QED BY <2>1, Untouched
<1>2. ASSUME NEW t \in Threads, ThreadNext(t) PROVE GlobalsInv'
  BY <1>2, AssignStep, ConfigEncryptionStep, ReturnsStep DEF ThreadNext
<1> QED BY <1>1, <1>2, MainStep, ProxyStep DEF Next

(* After a set_config that no other one overlapped, every global is its    *)
(* own (set_config, config_encryption).                                    *)
THEOREM ConfigurationInstalled == Spec => []Installed
<1>1. Spec => []GlobalsInv
  BY InitGlobals, NextGlobals, PTL DEF Spec
<1>2. GlobalsInv => Installed
  BY DEF GlobalsInv, InForce, Installed, Fits, Proper
<1> QED BY <1>1, <1>2, PTL

-----------------------------------------------------------------------------
(* The connection. *)

ConnShape ==
  conn = [at |-> conn.at, _server |-> conn._server, _remote_port |-> conn._remote_port,
          cipher |-> conn.cipher, ivOf |-> conn.ivOf, ctx |-> conn.ctx,
          start |-> conn.start, touched |-> conn.touched, settled |-> conn.settled,
          pure |-> conn.pure]

Places == {"server", "port", "init", "open", "keying"}

(* What it has taken is of the configuration it started with, as long as   *)
(* no global was assigned; a context is right if none was when it was made.*)
Taken(c, m) ==
  /\ ~c.touched => Fits(m, c.start)
  /\ ~c.touched => /\ c._server \in {Nothing, c.start.IP}
                   /\ c._remote_port \in {Nothing, c.start.port}
                   /\ c.ivOf \in {Nothing, c.start.method}
                   /\ c.pure
  /\ c.at \in {"server", "port", "init"} => c.pure /\ ~c.settled /\ c.cipher = Nothing
                                           /\ c.ivOf = Nothing
  /\ c.at \in {"open", "keying"} /\ ~c.touched => c.cipher = CipherOf(c.start.method)
  /\ c.at = "keying" => c.pure /\ c.cipher # "TABLE"
  /\ c.at = "open" /\ c.cipher # "TABLE" /\ c.ivOf = Nothing => c.pure
  /\ c.at = "open" /\ c.cipher = "OPENSSL" /\ c.ivOf # Nothing /\ ~c.touched => c.settled
  /\ c.settled /\ c.cipher = "OPENSSL" => c.pure
  /\ c.settled /\ c.cipher = "OPENSSL" /\ c.at = "open" => c.ctx = Right(c.start)

ConnInv ==
  conn # Nothing =>
    /\ ConnShape /\ conn.at \in Places
    /\ conn.touched \in BOOLEAN /\ conn.settled \in BOOLEAN /\ conn.pure \in BOOLEAN
    /\ Proper(conn.start) => Taken(conn, mem)

(* The fields of a connection after one of its steps. *)
LEMMA FieldsOf ==
  ASSUME NEW a, NEW s, NEW r, NEW k, NEW i, NEW x, NEW b, NEW t, NEW d, NEW p, NEW c,
         c = [at |-> a, _server |-> s, _remote_port |-> r, cipher |-> k, ivOf |-> i,
              ctx |-> x, start |-> b, touched |-> t, settled |-> d, pure |-> p]
  PROVE  /\ c.at = a /\ c._server = s /\ c._remote_port = r /\ c.cipher = k
         /\ c.ivOf = i /\ c.ctx = x /\ c.start = b /\ c.touched = t /\ c.settled = d
         /\ c.pure = p
         /\ c = [at |-> c.at, _server |-> c._server, _remote_port |-> c._remote_port,
                 cipher |-> c.cipher, ivOf |-> c.ivOf, ctx |-> c.ctx, start |-> c.start,
                 touched |-> c.touched, settled |-> c.settled, pure |-> c.pure]
OBVIOUS

LEMMA AcceptStep ==
  ASSUME GlobalsInv, Accept PROVE ConnInv'
<1>1. conn' = [at |-> "server", _server |-> Nothing, _remote_port |-> Nothing,
              cipher |-> Nothing, ivOf |-> Nothing, ctx |-> Nothing,
              start |-> IF AllQuiet THEN inForce ELSE Mixed,
              touched |-> FALSE, settled |-> FALSE, pure |-> TRUE]
  BY DEF Accept
<1>2. ConnShape' /\ conn'.at = "server" /\ ~conn'.touched /\ ~conn'.settled /\ conn'.pure
      /\ conn'.touched \in BOOLEAN /\ conn'.settled \in BOOLEAN /\ conn'.pure \in BOOLEAN
  BY <1>1 DEF ConnShape
<1>3. /\ conn'._server = Nothing /\ conn'._remote_port = Nothing /\ conn'.cipher = Nothing
      /\ conn'.ivOf = Nothing /\ conn'.start = IF AllQuiet THEN inForce ELSE Mixed
  BY <1>1
<1>4. ASSUME Proper(conn'.start) PROVE Taken(conn', mem')
  <2>1. AllQuiet /\ conn'.start = inForce
    BY <1>3, <1>4 DEF Proper
  <2>2. Fits(mem', conn'.start)
    BY <1>4, <2>1 DEF GlobalsInv, InForce, Accept
  <2> QED BY <1>2, <1>3, <2>2 DEF Taken
<1> QED BY <1>2, <1>4 DEF ConnInv, Places

LEMMA ReadServerStep ==
  ASSUME ConnInv, ReadServer PROVE ConnInv'
<1>1. conn # Nothing /\ conn.at = "server" /\ mem' = mem
      /\ conn' = [conn EXCEPT !.at = "port", !._server = mem["_server"]]
  BY DEF ReadServer, Conn
<1>2. conn' = [at |-> "port", _server |-> mem["_server"], _remote_port |-> conn._remote_port,
               cipher |-> conn.cipher, ivOf |-> conn.ivOf, ctx |-> conn.ctx,
               start |-> conn.start, touched |-> conn.touched, settled |-> conn.settled,
               pure |-> conn.pure]
  BY <1>1 DEF ConnInv, ConnShape
<1>3. /\ conn'.at = "port" /\ conn'._server = mem["_server"]
      /\ conn'._remote_port = conn._remote_port /\ conn'.cipher = conn.cipher
      /\ conn'.ivOf = conn.ivOf /\ conn'.start = conn.start
      /\ conn'.touched = conn.touched /\ conn'.settled = conn.settled
      /\ conn'.pure = conn.pure /\ ConnShape'
  BY <1>2, FieldsOf DEF ConnShape
<1>4. ASSUME Proper(conn.start) PROVE Taken(conn', mem)
  BY <1>1, <1>3, <1>4 DEF ConnInv, Taken, Fits
<1> QED BY <1>1, <1>3, <1>4 DEF ConnInv, Places

LEMMA ReadPortStep ==
  ASSUME ConnInv, ReadPort PROVE ConnInv'
<1>1. conn # Nothing /\ conn.at = "port" /\ mem' = mem
      /\ conn' = [conn EXCEPT !.at = "init", !._remote_port = mem["_remote_port"]]
  BY DEF ReadPort, Conn
<1>2. conn' = [at |-> "init", _server |-> conn._server, _remote_port |-> mem["_remote_port"],
               cipher |-> conn.cipher, ivOf |-> conn.ivOf, ctx |-> conn.ctx,
               start |-> conn.start, touched |-> conn.touched, settled |-> conn.settled,
               pure |-> conn.pure]
  BY <1>1 DEF ConnInv, ConnShape
<1>3. /\ conn'.at = "init" /\ conn'._remote_port = mem["_remote_port"]
      /\ conn'._server = conn._server /\ conn'.cipher = conn.cipher
      /\ conn'.ivOf = conn.ivOf /\ conn'.start = conn.start
      /\ conn'.touched = conn.touched /\ conn'.settled = conn.settled
      /\ conn'.pure = conn.pure /\ ConnShape'
  BY <1>2, FieldsOf DEF ConnShape
<1>4. ASSUME Proper(conn.start) PROVE Taken(conn', mem)
  BY <1>1, <1>3, <1>4 DEF ConnInv, Taken, Fits
<1> QED BY <1>1, <1>3, <1>4 DEF ConnInv, Places

LEMMA InitEncryptionStep ==
  ASSUME ConnInv, InitEncryption PROVE ConnInv'
<1>1. conn # Nothing /\ conn.at = "init" /\ mem' = mem
      /\ conn' = [conn EXCEPT !.at = "open", !.cipher = mem["cipher"],
                              !._server = Nothing, !._remote_port = Nothing]
  BY DEF InitEncryption, Conn
<1>2. conn' = [at |-> "open", _server |-> Nothing, _remote_port |-> Nothing,
               cipher |-> mem["cipher"], ivOf |-> conn.ivOf, ctx |-> conn.ctx,
               start |-> conn.start, touched |-> conn.touched, settled |-> conn.settled,
               pure |-> conn.pure]
  BY <1>1 DEF ConnInv, ConnShape
<1>3. /\ conn'.at = "open" /\ conn'._remote_port = Nothing
      /\ conn'._server = Nothing /\ conn'.cipher = mem["cipher"]
      /\ conn'.ivOf = conn.ivOf /\ conn'.start = conn.start
      /\ conn'.touched = conn.touched /\ conn'.settled = conn.settled
      /\ conn'.pure = conn.pure /\ ConnShape'
  BY <1>2, FieldsOf DEF ConnShape
<1>4. ASSUME Proper(conn.start) PROVE Taken(conn', mem)
  BY <1>1, <1>3, <1>4 DEF ConnInv, Taken, Fits
<1> QED BY <1>1, <1>3, <1>4 DEF ConnInv, Places

LEMMA FirstChunkStep ==
  ASSUME ConnInv, FirstChunk PROVE ConnInv'
<1>1. conn # Nothing /\ conn.at = "open" /\ mem' = mem
      /\ conn.cipher # "TABLE" /\ conn.ivOf = Nothing
      /\ conn' = [conn EXCEPT !.at = "keying", !.ivOf = mem["_method"]]
  BY DEF FirstChunk, Conn
<1>2. conn' = [at |-> "keying", _server |-> conn._server, _remote_port |-> conn._remote_port,
               cipher |-> conn.cipher, ivOf |-> mem["_method"], ctx |-> conn.ctx,
               start |-> conn.start, touched |-> conn.touched, settled |-> conn.settled,
               pure |-> conn.pure]
  BY <1>1 DEF ConnInv, ConnShape
<1>3. /\ conn'.at = "keying" /\ conn'._remote_port = conn._remote_port
      /\ conn'._server = conn._server /\ conn'.cipher = conn.cipher
      /\ conn'.ivOf = mem["_method"] /\ conn'.start = conn.start
      /\ conn'.touched = conn.touched /\ conn'.settled = conn.settled
      /\ conn'.pure = conn.pure /\ ConnShape'
  BY <1>2, FieldsOf DEF ConnShape
<1>4. ASSUME Proper(conn.start) PROVE Taken(conn', mem)
  BY <1>1, <1>3, <1>4 DEF ConnInv, Taken, Fits
<1> QED BY <1>1, <1>3, <1>4 DEF ConnInv, Places

(* The keys of a configuration, where the globals are its own. *)
LEMMA RightKey ==
  ASSUME NEW a, Fits(mem, a) PROVE GlobalKey(CipherOf(a.method)) = Right(a)
BY Kinds DEF Fits, GlobalKey, Right

LEMMA InitCipherStep ==
  ASSUME ConnInv, InitCipher PROVE ConnInv'
<1> DEFINE x == IF conn.cipher = "OPENSSL" THEN GlobalKey("OPENSSL") ELSE conn.ctx
<1>1. conn # Nothing /\ conn.at = "keying" /\ mem' = mem
      /\ conn' = [conn EXCEPT !.at = "open", !.ctx = x, !.settled = ~conn.touched]
  BY DEF InitCipher, Conn, ConnInv, ConnShape
<1> HIDE DEF x
<1>2. conn' = [at |-> "open", _server |-> conn._server, _remote_port |-> conn._remote_port,
               cipher |-> conn.cipher, ivOf |-> conn.ivOf, ctx |-> x,
               start |-> conn.start, touched |-> conn.touched, settled |-> ~conn.touched,
               pure |-> conn.pure]
  BY <1>1 DEF ConnInv, ConnShape
<1>3. /\ conn'.at = "open" /\ conn'._remote_port = conn._remote_port
      /\ conn'._server = conn._server /\ conn'.cipher = conn.cipher
      /\ conn'.ivOf = conn.ivOf /\ conn'.start = conn.start /\ conn'.ctx = x
      /\ conn'.touched = conn.touched /\ conn'.settled = ~conn.touched
      /\ conn'.pure = conn.pure /\ ConnShape'
  BY <1>2, FieldsOf DEF ConnShape
<1>4. ASSUME Proper(conn.start) PROVE Taken(conn', mem)
  <2>1. ASSUME ~conn.touched, conn.cipher = "OPENSSL" PROVE x = Right(conn.start)
    BY <1>1, <1>4, <2>1, RightKey DEF ConnInv, Taken, x
  <2> QED BY <1>1, <1>3, <1>4, <2>1 DEF ConnInv, Taken
<1> QED BY <1>1, <1>3, <1>4 DEF ConnInv, Places

LEMMA ChunkStep ==
  ASSUME ConnInv, Chunk PROVE ConnInv'
<1> DEFINE p == /\ conn.pure /\ conn.start \notin {Nothing, Mixed}
                /\ KeyInUse = Right(conn.start)
<1>1. conn # Nothing /\ conn.at = "open" /\ mem' = mem
      /\ (conn.cipher = "TABLE" \/ conn.ivOf # Nothing)
      /\ conn' = [conn EXCEPT !.at = "open", !.pure = p]
  BY DEF Chunk, Conn, ConnInv, ConnShape
<1>0. p \in BOOLEAN
  OBVIOUS
<1> HIDE DEF p
<1>2. conn' = [at |-> "open", _server |-> conn._server, _remote_port |-> conn._remote_port,
               cipher |-> conn.cipher, ivOf |-> conn.ivOf, ctx |-> conn.ctx,
               start |-> conn.start, touched |-> conn.touched, settled |-> conn.settled,
               pure |-> p]
  BY <1>1 DEF ConnInv, ConnShape
<1>3. /\ conn'.at = "open" /\ conn'._remote_port = conn._remote_port
      /\ conn'._server = conn._server /\ conn'.cipher = conn.cipher
      /\ conn'.ivOf = conn.ivOf /\ conn'.start = conn.start /\ conn'.ctx = conn.ctx
      /\ conn'.touched = conn.touched /\ conn'.settled = conn.settled
      /\ conn'.pure = p /\ ConnShape'
  BY <1>2, FieldsOf DEF ConnShape
<1>4. ASSUME Proper(conn.start) PROVE Taken(conn', mem)
  <2>1. Taken(conn, mem)
    BY <1>1, <1>4 DEF ConnInv
  <2>2. ASSUME ~conn.touched PROVE p
    <3>1. conn.cipher = CipherOf(conn.start.method) /\ Fits(mem, conn.start) /\ conn.pure
      BY <1>1, <2>1, <2>2 DEF Taken
    <3>2. KeyInUse = Right(conn.start)
      <4>1. CASE conn.cipher = "OPENSSL"
        BY <1>1, <2>1, <2>2, <4>1 DEF Taken, KeyInUse
      <4>2. CASE conn.cipher # "OPENSSL"
        BY <3>1, <4>2, RightKey DEF KeyInUse
      <4> QED BY <4>1, <4>2
    <3> QED BY <1>4, <3>1, <3>2 DEF p, Proper
  <2>3. ASSUME conn.settled, conn.cipher = "OPENSSL" PROVE p
    BY <1>1, <1>4, <2>1, <2>3 DEF Taken, KeyInUse, p, Proper
  <2> QED BY <1>1, <1>3, <2>1, <2>2, <2>3 DEF Taken
<1> QED BY <1>0, <1>1, <1>3, <1>4 DEF ConnInv, Places

(* An assignment to a global marks the connection as touched, which ends   *)
(* all that is claimed of it but what a finished context keeps.            *)
LEMMA TouchStep ==
  ASSUME ConnInv, NEW t \in Threads, Assign(t) PROVE ConnInv'
<1>1. CASE conn' = conn /\ mem' = mem
  BY <1>1 DEF ConnInv, ConnShape
<1>2. CASE conn = Nothing /\ conn' = conn
  BY <1>2 DEF ConnInv
<1>3. CASE conn # Nothing /\ conn' = [conn EXCEPT !.touched = TRUE]
  <2>1. conn' = [at |-> conn.at, _server |-> conn._server, _remote_port |-> conn._remote_port,
                 cipher |-> conn.cipher, ivOf |-> conn.ivOf, ctx |-> conn.ctx,
                 start |-> conn.start, touched |-> TRUE, settled |-> conn.settled,
                 pure |-> conn.pure]
    BY <1>3 DEF ConnInv, ConnShape
  <2>2. /\ conn'.at = conn.at /\ conn'.cipher = conn.cipher /\ conn'.ivOf = conn.ivOf
        /\ conn'.start = conn.start /\ conn'.ctx = conn.ctx /\ conn'.touched = TRUE
        /\ conn'.settled = conn.settled /\ conn'.pure = conn.pure /\ ConnShape'
    BY <2>1, FieldsOf DEF ConnShape
  <2>3. ASSUME Proper(conn.start) PROVE Taken(conn', mem')
    BY <1>3, <2>2, <2>3 DEF ConnInv, Taken
  <2> QED BY <1>3, <2>2, <2>3 DEF ConnInv
<1>4. \/ conn' = conn /\ mem' = mem
      \/ conn = Nothing /\ conn' = conn
      \/ conn # Nothing /\ conn' = [conn EXCEPT !.touched = TRUE]
  BY DEF Assign
<1> QED BY <1>1, <1>2, <1>3, <1>4

LEMMA NextConn == ASSUME GlobalsInv, ConnInv, [Next]_vars PROVE ConnInv'
<1>1. CASE conn' = conn /\ mem' = mem
  BY <1>1 DEF ConnInv, ConnShape
<1>2. CASE UNCHANGED vars
  BY <1>1, <1>2 DEF vars
<1>3. CASE MainNext
  <2>1. conn' = conn /\ mem' = mem
    BY <1>3 DEF MainNext, OpenSSURL, MacNext, IOSNext, MainReload, ReloadPublic, ReloadProfile,
                ChangePublicServer, ChooseMethod, Done, Save, SetConfig
  <2> QED BY <1>1, <2>1
<1>4. CASE ProxyNext
  <2>1. conn' = conn /\ mem' = mem
    BY <1>4 DEF ProxyNext, ProxyReload, ProxyChoose, ReadArg, ReadNil, ProxySetConfig, RunProxy, SetConfig
  <2> QED BY <1>1, <2>1
<1>5. CASE ConnNext
  <2>1. CASE CloseConn
    BY <2>1 DEF CloseConn, Conn, ConnInv
  <2> QED BY <1>5, <2>1, AcceptStep, ReadServerStep, ReadPortStep, InitEncryptionStep,
             FirstChunkStep, InitCipherStep, ChunkStep DEF ConnNext
<1>6. ASSUME NEW t \in Threads, ThreadNext(t) PROVE ConnInv'
  <2>1. CASE Assign(t)
    BY <2>1, TouchStep
  <2>2. CASE ConfigEncryption(t) \/ SetConfigReturns(t)
    <3>1. conn' = conn /\ mem' = mem
      BY <2>2 DEF ConfigEncryption, SetConfigReturns
    <3> QED BY <1>1, <3>1
  <2> QED BY <1>6, <2>1, <2>2 DEF ThreadNext
<1> QED BY <1>2, <1>3, <1>4, <1>5, <1>6 DEF Next

LEMMA ConnInvariant == Spec => []ConnInv
<1>1. Init => ConnInv
  BY DEF Init, ConnInv
<1> QED BY <1>1, InitGlobals, NextGlobals, NextConn, PTL DEF Spec

(* A connection that no assignment has disturbed uses the name, the port,  *)
(* the method, the length of the IV and the key of one configuration       *)
(* (accept_cb, init_encryption, encrypt_buf, decrypt_buf).                 *)
THEOREM OneConfigurationUsed == Spec => []OneConfiguration
<1>1. ConnInv => OneConfiguration
  <2> SUFFICES ASSUME ConnInv, conn # Nothing, Proper(conn.start), ~conn.touched
               PROVE  /\ conn._server \in {Nothing, conn.start.IP}
                      /\ conn._remote_port \in {Nothing, conn.start.port}
                      /\ conn.cipher \in {Nothing, CipherOf(conn.start.method)}
                      /\ conn.ivOf \in {Nothing, conn.start.method}
                      /\ conn.pure
    BY DEF OneConfiguration, Proper
  <2> QED BY DEF ConnInv, Taken, Places
<1> QED BY <1>1, ConnInvariant, PTL

(* A context of OpenSSL that was made undisturbed is not reached by any    *)
(* later configuration (init_cipher, cipher_update).                       *)
THEOREM OpenSSLKeepsItsKey == Spec => []OpenSSLSurvives
<1>1. ConnInv => OpenSSLSurvives
  BY DEF ConnInv, Taken, OpenSSLSurvives, Proper
<1> QED BY <1>1, ConnInvariant, PTL

-----------------------------------------------------------------------------
(* The types, and what each key of the user defaults may hold: a server's  *)
(* setting or nothing, and under "public" YES, NO or nothing.              *)

Named == {"IP", "port", "password", "method"}
Arguments == [Named -> Servers \cup {Public, Default, Nothing}]

Allowed(k, v) ==
  IF k = "public" THEN v \in {"YES", "NO", Nothing} ELSE v \in Servers \cup {Nothing}

(* The assignments to keys that are still to be made are of allowed values. *)
WellPut(q) == \A i \in DOMAIN q : q[i].name \in Keys => Allowed(q[i].name, q[i].value)

KeepsKinds == stored = [k \in Keys |-> stored[k]] /\ \A k \in Keys : Allowed(k, stored[k])

StageOK ==
  /\ stage["main"] \in {"idle", "saved", "set", "done", "dead"}
  /\ stage["proxy"] \in {"reload", "choose", "read", "set", "done", "gate", "listening", "dead"}

KindsInv ==
  /\ platform \in {"mac", "ios"} /\ saves \in 0..MaxSaves
  /\ KeepsKinds /\ StageOK
  /\ \A t \in Threads : WellPut(todo[t])
  /\ \A t \in Threads : args[t] \in Arguments
  /\ stage["proxy"] = "read" => Only(todo["proxy"], Named)

LEMMA KindsAreTypes == ASSUME GlobalsInv, KindsInv PROVE TypeOK
<1>1. DOMAIN NoArgs = Named
  BY DEF NoArgs, Named
<1>2. DOMAIN mem = Globals
  BY DEF GlobalsInv, Shape
<1>3. \A t \in Threads : \A i \in DOMAIN todo[t] : todo[t][i].name \in Keys \cup Globals
  BY DEF GlobalsInv, Shape, Only
<1>4. stored \in [Keys -> Servers \cup {Nothing, "YES", "NO"}]
  <2>1. \A k \in Keys : stored[k] \in Servers \cup {Nothing, "YES", "NO"}
    BY DEF KindsInv, KeepsKinds, Allowed
  <2>2. QED
    BY <2>1 DEF KindsInv, KeepsKinds
<1>5. QED
  BY <1>1, <1>2, <1>3, <1>4 DEF KindsInv, StageOK, Arguments, TypeOK

(* An assignment to a global puts nothing under a key. *)
LEMMA GlobalsPut == ASSUME NEW q, Only(q, Globals) PROVE WellPut(q)
<1>1. Keys \cap Globals = {}
  BY DEF Keys, Globals
<1>2. QED
  BY <1>1 DEF Only, WellPut

LEMMA ServerPut ==
  ASSUME NEW s \in Servers \cup {Nothing}
  PROVE  WellPut(SaveServer(s))
<1> DEFINE p1 == [name |-> "IP", value |-> s]
           p2 == [name |-> "port", value |-> s]
           p3 == [name |-> "password", value |-> s]
           p4 == [name |-> "method", value |-> s]
           q  == << p1, p2, p3, p4 >>
<1>1. SaveServer(s) = q
  BY DEF SaveServer, Put
<1>2. DOMAIN q = 1..4 /\ q[1] = p1 /\ q[2] = p2 /\ q[3] = p3 /\ q[4] = p4
  OBVIOUS
<1> HIDE DEF q
<1>3. \A i \in DOMAIN q : q[i].name # "public" /\ q[i].value = s
  BY <1>2
<1>4. QED
  BY <1>1, <1>3 DEF WellPut, Allowed

LEMMA FieldsPut ==
  ASSUME NEW s \in Servers \cup {Nothing}
  PROVE  WellPut(<< Put("IP", s), Put("port", s), Put("password", s) >>)
<1> DEFINE p1 == [name |-> "IP", value |-> s]
           p2 == [name |-> "port", value |-> s]
           p3 == [name |-> "password", value |-> s]
           q  == << p1, p2, p3 >>
<1>1. << Put("IP", s), Put("port", s), Put("password", s) >> = q
  BY DEF Put
<1>2. DOMAIN q = 1..3 /\ q[1] = p1 /\ q[2] = p2 /\ q[3] = p3
  OBVIOUS
<1> HIDE DEF q
<1>3. \A i \in DOMAIN q : q[i].name # "public" /\ q[i].value = s
  BY <1>2
<1>4. QED
  BY <1>1, <1>3 DEF WellPut, Allowed

LEMMA OnePut == ASSUME NEW k, NEW v, Allowed(k, v) PROVE WellPut(<< Put(k, v) >>)
<1> DEFINE q == << Put(k, v) >>
<1>1. DOMAIN q = 1..1 /\ q[1] = Put(k, v) /\ Put(k, v).name = k /\ Put(k, v).value = v
  BY DEF Put
<1> HIDE DEF q
<1>2. WellPut(q)
  BY <1>1 DEF WellPut
<1>3. QED
  BY <1>2 DEF q

LEMMA BothPut ==
  ASSUME NEW q, NEW r, Sequence(q), Sequence(r), WellPut(q), WellPut(r)
  PROVE  WellPut(q \o r)
<1>1. PICK S : q \in Seq(S)
  BY DEF Sequence
<1>2. PICK T : r \in Seq(T)
  BY DEF Sequence
<1>3. \A i \in DOMAIN (q \o r) : \/ i \in DOMAIN q /\ (q \o r)[i] = q[i]
                                 \/ i - Len(q) \in DOMAIN r /\ (q \o r)[i] = r[i - Len(q)]
  BY <1>1, <1>2
<1>4. QED
  BY <1>3 DEF WellPut

LEMMA ReadIs ==
  ASSUME KeepsKinds, NEW k \in Named
  PROVE  Read(k) \in Servers \cup {Public, Default, Nothing}
<1>1. k \in Keys /\ k # "public"
  BY DEF Named, Keys
<1>2. stored[k] \in Servers \cup {Nothing}
  BY <1>1 DEF KeepsKinds, Allowed
<1>3. QED
  BY <1>2 DEF Read

LEMMA FixedArgs == NoArgs \in Arguments /\ PublicArgs \in Arguments
BY DEF NoArgs, PublicArgs, Arguments, Named

LEMMA InitKinds == ASSUME Init PROVE KindsInv
<1>1. KeepsKinds
  <2>1. CASE stored = [k \in Keys |-> Nothing]
    BY <2>1 DEF KeepsKinds, Allowed
  <2>2. CASE stored = [[k \in Keys |-> Nothing] EXCEPT !["public"] = "NO"]
    BY <2>2 DEF KeepsKinds, Allowed
  <2>3. ASSUME NEW s \in Servers, stored = [[k \in Keys |-> s] EXCEPT !["public"] = "NO"]
        PROVE  KeepsKinds
    BY <2>3 DEF KeepsKinds, Allowed
  <2>4. QED
    BY <2>1, <2>2, <2>3 DEF Init
<1>2. \A t \in Threads : todo[t] = <<>> /\ args[t] = NoArgs
  BY DEF Init
<1>3. stage["main"] = "idle" /\ stage["proxy"] = "reload"
  BY DEF Init, Threads
<1>4. \A t \in Threads : WellPut(todo[t])
  BY <1>2 DEF WellPut
<1>5. saves \in 0..MaxSaves /\ platform \in {"mac", "ios"}
  BY SettingsAssumption DEF Init
<1>6. QED
  BY <1>1, <1>2, <1>3, <1>4, <1>5, FixedArgs DEF KindsInv, StageOK

LEMMA TwoThreads == Threads = {"main", "proxy"} /\ "main" # "proxy"
BY DEF Threads

LEMMA SetConfigKinds ==
  ASSUME GlobalsInv, KindsInv, NEW t \in Threads, NEW a \in Arguments, SetConfig(t, a)
  PROVE  KindsInv'
<1>1. /\ \A x \in Threads : todo'[x] = IF x = t THEN CopyArgs(a) ELSE todo[x]
      /\ \A x \in Threads : stage'[x] = IF x = t THEN "set" ELSE stage[x]
      /\ \A x \in Threads : args'[x] = IF x = t THEN a ELSE args[x]
  BY DEF SetConfig, GlobalsInv, Shape
<1>2. WellPut(CopyArgs(a))
  BY CopyAll, GlobalsPut
<1>3. UNCHANGED <<platform, saves, stored>>
  BY DEF SetConfig
<1>4. KeepsKinds'
  BY <1>3 DEF KindsInv, KeepsKinds
<1>5. StageOK'
  BY <1>1, TwoThreads DEF KindsInv, StageOK
<1>6. (\A x \in Threads : WellPut(todo[x]) /\ args[x] \in Arguments)'
  BY <1>1, <1>2 DEF KindsInv
<1>7. (stage["proxy"] = "read" => Only(todo["proxy"], Named))'
  BY <1>1, TwoThreads DEF KindsInv
<1>8. QED
  BY <1>3, <1>4, <1>5, <1>6, <1>7 DEF KindsInv

LEMMA ConfigEncryptionKinds ==
  ASSUME GlobalsInv, KindsInv, NEW t \in Threads, ConfigEncryption(t)
  PROVE  KindsInv'
<1>1. PICK method : todo' = [todo EXCEPT ![t] = Config(args[t].password, method)]
  BY DEF ConfigEncryption
<1>2. stage' = [stage EXCEPT ![t] = "done"] /\ UNCHANGED <<platform, saves, stored, args>>
  BY DEF ConfigEncryption
<1>3. /\ \A x \in Threads :
           todo'[x] = IF x = t THEN Config(args[t].password, method) ELSE todo[x]
      /\ \A x \in Threads : stage'[x] = IF x = t THEN "done" ELSE stage[x]
  BY <1>1, <1>2 DEF GlobalsInv, Shape
<1>4. WellPut(Config(args[t].password, method))
  BY ConfigShape, GlobalsPut
<1>5. KeepsKinds'
  BY <1>2 DEF KindsInv, KeepsKinds
<1>6. StageOK'
  BY <1>3, TwoThreads DEF KindsInv, StageOK
<1>7. (\A x \in Threads : WellPut(todo[x]) /\ args[x] \in Arguments)'
  BY <1>2, <1>3, <1>4 DEF KindsInv
<1>8. (stage["proxy"] = "read" => Only(todo["proxy"], Named))'
  BY <1>3, TwoThreads DEF KindsInv
<1>9. QED
  BY <1>2, <1>5, <1>6, <1>7, <1>8 DEF KindsInv

LEMMA ReturnsKinds ==
  ASSUME GlobalsInv, KindsInv, NEW t \in Threads, SetConfigReturns(t)
  PROVE  KindsInv'
<1>1. /\ stage' = [stage EXCEPT ![t] = IF t = "main" THEN "idle" ELSE "gate"]
      /\ args' = [args EXCEPT ![t] = NoArgs]
      /\ UNCHANGED <<platform, saves, stored, todo>>
  BY DEF SetConfigReturns
<1>2. /\ \A x \in Threads : stage'[x] = IF x = t
                                        THEN IF t = "main" THEN "idle" ELSE "gate"
                                        ELSE stage[x]
      /\ \A x \in Threads : args'[x] = IF x = t THEN NoArgs ELSE args[x]
  BY <1>1 DEF GlobalsInv, Shape
<1>3. KeepsKinds'
  BY <1>1 DEF KindsInv, KeepsKinds
<1>4. StageOK'
  BY <1>2, TwoThreads DEF KindsInv, StageOK
<1>5. (\A x \in Threads : WellPut(todo[x]) /\ args[x] \in Arguments)'
  BY <1>1, <1>2, FixedArgs DEF KindsInv
<1>6. (stage["proxy"] = "read" => Only(todo["proxy"], Named))'
  BY <1>1, <1>2, TwoThreads DEF KindsInv
<1>7. QED
  BY <1>1, <1>3, <1>4, <1>5, <1>6 DEF KindsInv

LEMMA AssignKinds ==
  ASSUME GlobalsInv, KindsInv, NEW t \in Threads, Assign(t), stage[t] # "read"
  PROVE  KindsInv'
<1> DEFINE q == todo[t]
           p == Head(q)
<1> PICK S : q \in Seq(S)
  BY DEF GlobalsInv, Shape, Sequence
<1>1. /\ q # <<>> /\ todo' = [todo EXCEPT ![t] = Tail(q)]
      /\ UNCHANGED <<platform, saves, stage, args>>
      /\ \/ p.name \in Keys /\ stored' = [stored EXCEPT ![p.name] = p.value]
         \/ stored' = stored
  BY DEF Assign
<1>2. \A x \in Threads : todo'[x] = IF x = t THEN Tail(q) ELSE todo[x]
  BY <1>1 DEF GlobalsInv, Shape
<1>3. WellPut(Tail(q)) /\ (p.name \in Keys => Allowed(p.name, p.value))
  <2>1. WellPut(q)
    BY DEF KindsInv
  <2>2. QED
    BY <1>1, <2>1, TailOf DEF WellPut
<1>4. KeepsKinds'
  <2>1. CASE stored' = stored
    BY <2>1 DEF KindsInv, KeepsKinds
  <2>2. CASE p.name \in Keys /\ stored' = [stored EXCEPT ![p.name] = p.value]
    <3> HIDE DEF p
    <3>1. stored = [k \in Keys |-> stored[k]] /\ \A k \in Keys : Allowed(k, stored[k])
      BY DEF KindsInv, KeepsKinds
    <3>2. stored' = [k \in Keys |-> IF k = p.name THEN p.value ELSE stored[k]]
      BY <2>2, <3>1
    <3>3. \A k \in Keys : stored'[k] = IF k = p.name THEN p.value ELSE stored[k]
      BY <3>2
    <3>4. stored' = [k \in Keys |-> stored'[k]]
      BY <3>2, <3>3
    <3>5. \A k \in Keys : Allowed(k, stored'[k])
      BY <1>3, <2>2, <3>1, <3>3
    <3>6. QED
      BY <3>4, <3>5 DEF KeepsKinds, Allowed
  <2>3. QED
    BY <1>1, <2>1, <2>2
<1>5. StageOK'
  BY <1>1 DEF KindsInv, StageOK
<1>6. (\A x \in Threads : WellPut(todo[x]) /\ args[x] \in Arguments)'
  BY <1>1, <1>2, <1>3 DEF KindsInv
<1>7. (stage["proxy"] = "read" => Only(todo["proxy"], Named))'
  BY <1>1, <1>2, TwoThreads DEF KindsInv
<1>8. QED
  BY <1>1, <1>4, <1>5, <1>6, <1>7 DEF KindsInv

LEMMA SaveKinds ==
  ASSUME GlobalsInv, KindsInv, NEW q, WellPut(q), NEW next \in {"saved", "idle"},
         Save(q, next)
  PROVE  KindsInv'
<1>1. /\ todo' = [todo EXCEPT !["main"] = q] /\ stage' = [stage EXCEPT !["main"] = next]
      /\ saves < MaxSaves /\ saves' = saves + 1
      /\ UNCHANGED <<platform, stored, args>>
  BY DEF Save
<1>2. /\ \A x \in Threads : todo'[x] = IF x = "main" THEN q ELSE todo[x]
      /\ \A x \in Threads : stage'[x] = IF x = "main" THEN next ELSE stage[x]
  BY <1>1, TwoThreads DEF GlobalsInv, Shape
<1>3. KeepsKinds'
  BY <1>1 DEF KindsInv, KeepsKinds
<1>4. StageOK'
  BY <1>2, TwoThreads DEF KindsInv, StageOK
<1>5. saves' \in 0..MaxSaves
  BY <1>1, SettingsAssumption DEF KindsInv
<1>6. (\A x \in Threads : WellPut(todo[x]) /\ args[x] \in Arguments)'
  BY <1>1, <1>2 DEF KindsInv
<1>7. (stage["proxy"] = "read" => Only(todo["proxy"], Named))'
  BY <1>2, TwoThreads DEF KindsInv
<1>8. QED
  BY <1>1, <1>3, <1>4, <1>5, <1>6, <1>7 DEF KindsInv

LEMMA MainKinds == ASSUME GlobalsInv, KindsInv, MainNext PROVE KindsInv'
<1>1. ASSUME NEW s \in Servers, OpenSSURL(s) PROVE KindsInv'
  <2> DEFINE q == SaveServer(s) \o << Put("public", "NO") >>
  <2>1. Allowed("public", "NO")
    BY DEF Allowed
  <2>2. WellPut(q)
    BY <2>1, OnePut, ServerPut, Saves, BothPut
  <2>3. Save(q, "saved")
    BY <1>1 DEF OpenSSURL
  <2> HIDE DEF q
  <2>4. QED
    BY <2>2, <2>3, SaveKinds
<1>2. CASE MacNext
  <2>1. CASE ReloadPublic
    <3>1. WellPut(<< Put("public", "YES") >>)
      BY OnePut DEF Allowed
    <3>2. QED
      BY <2>1, <3>1, SaveKinds DEF ReloadPublic
  <2>2. ASSUME NEW s \in Servers, ReloadProfile(s) PROVE KindsInv'
    <3> DEFINE q == << Put("public", "NO") >> \o SaveServer(s)
    <3>1. Allowed("public", "NO")
      BY DEF Allowed
    <3>2. WellPut(q)
      BY <3>1, OnePut, ServerPut, Saves, BothPut
    <3>3. Save(q, "saved")
      BY <2>2 DEF ReloadProfile
    <3> HIDE DEF q
    <3>4. QED
      BY <3>2, <3>3, SaveKinds
  <2>3. QED
    BY <1>2, <2>1, <2>2 DEF MacNext
<1>3. CASE IOSNext
  <2>1. CASE ChangePublicServer
    <3>1. \A yes \in {"YES", "NO"} : WellPut(<< Put("public", yes) >>)
      BY OnePut DEF Allowed
    <3>2. QED
      BY <2>1, <3>1, SaveKinds DEF ChangePublicServer
  <2>2. ASSUME NEW s \in Servers, ChooseMethod(s) PROVE KindsInv'
    <3>1. WellPut(<< Put("method", s) >>)
      BY OnePut DEF Allowed
    <3>2. QED
      BY <2>2, <3>1, SaveKinds DEF ChooseMethod
  <2>3. ASSUME NEW s \in Servers, Done(s) PROVE KindsInv'
    <3>1. PICK v \in Servers \cup {Nothing} :
            Save(<< Put("IP", v), Put("port", v), Put("password", v) >>, "saved")
      BY <2>3 DEF Done
    <3>2. QED
      BY <3>1, FieldsPut, SaveKinds
  <2>4. QED
    BY <1>3, <2>1, <2>2, <2>3 DEF IOSNext
<1>4. CASE MainReload
  <2>1. CASE NotComplete
    <3>1. /\ stage' = [stage EXCEPT !["main"] = "idle"]
          /\ UNCHANGED <<platform, saves, stored, todo, args>>
      BY <1>4, <2>1 DEF MainReload
    <3>2. \A x \in Threads : stage'[x] = IF x = "main" THEN "idle" ELSE stage[x]
      BY <3>1 DEF GlobalsInv, Shape
    <3>3. KeepsKinds' /\ StageOK'
      BY <3>1, <3>2, TwoThreads DEF KindsInv, KeepsKinds, StageOK
    <3>4. (stage["proxy"] = "read" => Only(todo["proxy"], Named))'
      BY <3>1, <3>2, TwoThreads DEF KindsInv
    <3>5. QED
      BY <3>1, <3>3, <3>4 DEF KindsInv
  <2>2. CASE ~NotComplete
    <3> DEFINE a == IF UsesPublic THEN PublicArgs ELSE [k \in DOMAIN NoArgs |-> Read(k)]
    <3>1. \A k \in Named : Read(k) \in Servers \cup {Public, Default, Nothing}
      BY ReadIs DEF KindsInv
    <3>2. DOMAIN NoArgs = Named
      BY DEF NoArgs, Named
    <3>3. a \in Arguments
      BY <3>1, <3>2, FixedArgs DEF Arguments
    <3>4. SetConfig("main", a)
      BY <1>4, <2>2 DEF MainReload
    <3> HIDE DEF a
    <3>5. QED
      BY <3>3, <3>4, TwoThreads, SetConfigKinds
  <2>3. QED
    BY <2>1, <2>2
<1>5. QED
  BY <1>1, <1>2, <1>3, <1>4 DEF MainNext

LEMMA ReloadKinds == ASSUME GlobalsInv, KindsInv, ProxyReload PROVE KindsInv'
<1> DEFINE s == IF NotComplete THEN "gate" ELSE "choose"
<1>1. /\ stage' = [stage EXCEPT !["proxy"] = s] /\ s \in {"gate", "choose"}
      /\ UNCHANGED <<platform, saves, stored, todo, args>>
  BY DEF ProxyReload
<1> HIDE DEF s
<1>2. \A x \in Threads : stage'[x] = IF x = "proxy" THEN s ELSE stage[x]
  BY <1>1 DEF GlobalsInv, Shape
<1>3. KeepsKinds' /\ StageOK'
  BY <1>1, <1>2, TwoThreads DEF KindsInv, KeepsKinds, StageOK
<1>4. QED
  BY <1>1, <1>2, <1>3, TwoThreads DEF KindsInv

LEMMA ChooseKinds == ASSUME GlobalsInv, KindsInv, ProxyChoose PROVE KindsInv'
<1> DEFINE p1 == [name |-> "method", value |-> Nothing]
           p2 == [name |-> "IP", value |-> Nothing]
           p3 == [name |-> "port", value |-> Nothing]
           p4 == [name |-> "password", value |-> Nothing]
           r  == << p1, p2, p3, p4 >>
<1>1. CASE UsesPublic
  BY <1>1, FixedArgs, TwoThreads, SetConfigKinds DEF ProxyChoose
<1>2. CASE ~UsesPublic
  <2>1. /\ todo' = [todo EXCEPT !["proxy"] = r]
        /\ stage' = [stage EXCEPT !["proxy"] = "read"]
        /\ UNCHANGED <<platform, saves, stored, args>>
    BY <1>2 DEF ProxyChoose, Put
  <2>2. WellPut(r) /\ Only(r, Named)
    <3>1. DOMAIN r = 1..4 /\ r[1] = p1 /\ r[2] = p2 /\ r[3] = p3 /\ r[4] = p4
      OBVIOUS
    <3> HIDE DEF r
    <3>2. \A i \in DOMAIN r : r[i].name \in Named /\ r[i].value = Nothing
      BY <3>1 DEF Named
    <3>3. QED
      BY <3>2 DEF WellPut, Only, Allowed
  <2> HIDE DEF r
  <2>3. /\ \A x \in Threads : todo'[x] = IF x = "proxy" THEN r ELSE todo[x]
        /\ \A x \in Threads : stage'[x] = IF x = "proxy" THEN "read" ELSE stage[x]
    BY <2>1 DEF GlobalsInv, Shape
  <2>4. KeepsKinds' /\ StageOK'
    BY <2>1, <2>3, TwoThreads DEF KindsInv, KeepsKinds, StageOK
  <2>5. (\A x \in Threads : WellPut(todo[x]) /\ args[x] \in Arguments)'
    BY <2>1, <2>2, <2>3 DEF KindsInv
  <2>6. Only(todo'["proxy"], Named)
    BY <2>2, <2>3, TwoThreads
  <2>7. QED
    BY <2>1, <2>4, <2>5, <2>6 DEF KindsInv
<1>3. QED
  BY <1>1, <1>2

LEMMA ReadArgKinds == ASSUME GlobalsInv, KindsInv, ReadArg PROVE KindsInv'
<1> DEFINE q == todo["proxy"]
           k == Head(q).name
<1> PICK S : q \in Seq(S)
  BY TwoThreads DEF GlobalsInv, Shape, Sequence
<1>1. /\ stage["proxy"] = "read" /\ q # <<>>
      /\ args' = [args EXCEPT !["proxy"][k] = Read(k)]
      /\ todo' = [todo EXCEPT !["proxy"] = Tail(q)]
      /\ UNCHANGED <<platform, saves, stored, stage>>
  BY DEF ReadArg
<1>2. WellPut(q) /\ Only(q, Named) /\ args["proxy"] \in Arguments
  BY <1>1, TwoThreads DEF KindsInv
<1>3. WellPut(Tail(q)) /\ Only(Tail(q), Named) /\ k \in Named
  BY <1>1, <1>2, TailOf DEF WellPut, Only
<1>4. Read(k) \in Servers \cup {Public, Default, Nothing}
  BY <1>3, ReadIs DEF KindsInv
<1> HIDE DEF k
<1>5. /\ \A x \in Threads : todo'[x] = IF x = "proxy" THEN Tail(q) ELSE todo[x]
      /\ \A x \in Threads : args'[x] = IF x = "proxy"
                                       THEN [args["proxy"] EXCEPT ![k] = Read(k)]
                                       ELSE args[x]
  BY <1>1 DEF GlobalsInv, Shape
<1>6. [args["proxy"] EXCEPT ![k] = Read(k)] \in Arguments
  BY <1>2, <1>3, <1>4 DEF Arguments
<1>7. KeepsKinds' /\ StageOK'
  BY <1>1 DEF KindsInv, KeepsKinds, StageOK
<1>8. (\A x \in Threads : WellPut(todo[x]) /\ args[x] \in Arguments)'
  BY <1>3, <1>5, <1>6 DEF KindsInv
<1>9. Only(todo'["proxy"], Named)
  BY <1>3, <1>5, TwoThreads
<1>10. QED
  BY <1>1, <1>7, <1>8, <1>9 DEF KindsInv

LEMMA ProxyKinds == ASSUME GlobalsInv, KindsInv, ProxyNext PROVE KindsInv'
<1>1. CASE ReadNil
  <2>1. \A t \in Threads : todo'[t] = <<>> /\ stage'[t] = "dead"
    BY <1>1 DEF ReadNil
  <2>2. UNCHANGED <<platform, saves, stored, args>>
    BY <1>1 DEF ReadNil
  <2>3. KeepsKinds' /\ StageOK'
    BY <2>1, <2>2, TwoThreads DEF KindsInv, KeepsKinds, StageOK
  <2>4. (\A x \in Threads : WellPut(todo[x]) /\ args[x] \in Arguments)'
    BY <2>1, <2>2 DEF KindsInv, WellPut
  <2>5. stage'["proxy"] = "dead"
    BY <2>1, TwoThreads
  <2>6. QED
    BY <2>2, <2>3, <2>4, <2>5 DEF KindsInv
<1>2. CASE ProxySetConfig
  BY <1>2, TwoThreads, SetConfigKinds DEF ProxySetConfig, KindsInv
<1>3. CASE RunProxy
  <2>1. stage' = [stage EXCEPT !["proxy"] = "listening"]
        /\ UNCHANGED <<platform, saves, stored, todo, args>>
    BY <1>3 DEF RunProxy
  <2>2. \A x \in Threads : stage'[x] = IF x = "proxy" THEN "listening" ELSE stage[x]
    BY <2>1 DEF GlobalsInv, Shape
  <2>3. KeepsKinds' /\ StageOK'
    BY <2>1, <2>2, TwoThreads DEF KindsInv, KeepsKinds, StageOK
  <2>4. QED
    BY <2>1, <2>2, <2>3, TwoThreads DEF KindsInv
<1>4. QED
  BY <1>1, <1>2, <1>3, ReloadKinds, ChooseKinds, ReadArgKinds DEF ProxyNext

LEMMA NextKinds == ASSUME GlobalsInv, KindsInv, [Next]_vars PROVE KindsInv'
<1>1. CASE ConnNext \/ UNCHANGED vars
  <2>1. UNCHANGED <<platform, saves, stored, todo, stage, args>>
    BY <1>1 DEF ConnNext, Accept, ReadServer, ReadPort, InitEncryption, FirstChunk,
                InitCipher, Chunk, CloseConn, Conn, vars
  <2>2. QED
    BY <2>1 DEF KindsInv, KeepsKinds, StageOK
<1>2. ASSUME NEW t \in Threads, ThreadNext(t) PROVE KindsInv'
  BY <1>2, AssignKinds, ConfigEncryptionKinds, ReturnsKinds DEF ThreadNext
<1>3. QED
  BY <1>1, <1>2, MainKinds, ProxyKinds DEF Next

(* The settings, the globals and what the threads still have to do keep    *)
(* their types; and each key of the user defaults keeps its kind, so that  *)
(* reloadConfig, which reads them one by one while the main thread saves,  *)
(* never takes YES or NO for a server's setting.                           *)
THEOREM SettingsTypes == Spec => [](TypeOK /\ KeepsKinds)
<1>1. Init => GlobalsInv /\ KindsInv
  BY InitGlobals, InitKinds
<1>2. GlobalsInv /\ KindsInv /\ [Next]_vars => (GlobalsInv /\ KindsInv)'
  BY NextGlobals, NextKinds
<1>3. GlobalsInv /\ KindsInv => TypeOK /\ KeepsKinds
  BY KindsAreTypes DEF KindsInv
<1>4. QED
  BY <1>1, <1>2, <1>3, PTL DEF Spec
=============================================================================
