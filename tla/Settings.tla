------------------------------ MODULE Settings ------------------------------
(***************************************************************************)
(* The settings, from the user's defaults through reloadConfig, set_config *)
(* and config_encryption to the connection that uses them.  The main       *)
(* thread saves and reloads at any time; the proxy thread reloads once     *)
(* when it starts and then serves connections, which read the same globals *)
(* while they may be being written.  There is no lock.                     *)
(*                                                                         *)
(* Every variable of the program holds here the server whose setting it    *)
(* has, so what belongs together can be told from what does not.  One      *)
(* assignment is one step; a string, a key or a table that is half written *)
(* is Torn.  Memory is taken to be sequentially consistent.                *)
(***************************************************************************)
EXTENDS Naturals, Sequences, FiniteSets

CONSTANTS TableServers,   \* servers whose method is "table" or not in the list
          SodiumServers,  \* ... is salsa20 or chacha20
          SSLServers,     \* ... is one of OpenSSL's
          Public,         \* the public server, built into reloadConfig
          Default,        \* aes-256-cfb, the method when none is stored
          Nothing,        \* nil, or a global that was never written
          Torn,           \* half written
          Mixed,          \* two reloads overlapped
          MaxSaves        \* how many times the settings are saved, for TLC

Servers == TableServers \cup SodiumServers \cup SSLServers

ASSUME SettingsAssumption ==
  /\ Cardinality({Public, Default, Nothing, Torn, Mixed}) = 5
  /\ Servers \cap {Public, Default, Nothing, Torn, Mixed} = {}
  /\ TableServers \cap SodiumServers = {} /\ TableServers \cap SSLServers = {}
  /\ SodiumServers \cap SSLServers = {}
  /\ MaxSaves \in Nat

Threads == {"main", "proxy"}
Keys    == {"IP", "port", "password", "method", "public"}
Globals == {"_server", "_remote_port", "_method", "cipher", "_cipher",
            "_key", "encrypt_table"}

VARIABLES platform, \* which of the two applications this is
          saves,    \* how many times the settings were saved
          stored,   \* the user defaults
          mem,      \* the globals of local.m, encrypt.c and table.m
          todo,     \* per thread: the assignments it is about to make
          stage,    \* per thread: what comes after them
          args,     \* per thread: the arguments of its set_config
          inForce,  \* history: the arguments of the last set_config, or
                    \* Nothing before it, or Mixed if another overlapped it
          overlap,  \* history: another set_config ran during the one running
          conn      \* the connection looked at, or Nothing

vars == <<platform, saves, stored, mem, todo, stage, args, inForce, overlap, conn>>

NoArgs == [IP |-> Nothing, port |-> Nothing, password |-> Nothing, method |-> Nothing]
PublicArgs == [IP |-> Public, port |-> Public, password |-> Public, method |-> Public]

TypeOK ==
  /\ platform \in {"mac", "ios"} /\ saves \in 0..MaxSaves
  /\ stored \in [Keys -> Servers \cup {Nothing, "YES", "NO"}]
  /\ DOMAIN mem = Globals
  /\ \A t \in Threads : \A i \in DOMAIN todo[t] :
       todo[t][i].name \in Keys \cup Globals
  /\ stage["main"] \in {"idle", "saved", "set", "done", "dead"}
  /\ stage["proxy"] \in {"reload", "choose", "read", "set", "done", "gate", "listening", "dead"}
  /\ \A t \in Threads :
       args[t] \in [DOMAIN NoArgs -> Servers \cup {Public, Default, Nothing}]

(* Nothing was ever stored, or a server is, or the page was left with      *)
(* "custom" chosen and nothing entered.                                    *)
Init ==
  /\ platform \in {"mac", "ios"} /\ saves = 0
  /\ \/ stored = [k \in Keys |-> Nothing]
     \/ stored = [[k \in Keys |-> Nothing] EXCEPT !["public"] = "NO"]
     \/ \E s \in Servers : stored = [[k \in Keys |-> s] EXCEPT !["public"] = "NO"]
  /\ mem = [g \in Globals |-> IF g = "cipher" THEN "TABLE" ELSE Nothing]
  /\ todo = [t \in Threads |-> <<>>]
  /\ stage = [t \in Threads |-> IF t = "main" THEN "idle" ELSE "reload"]
  /\ args = [t \in Threads |-> NoArgs]
  /\ inForce = Nothing /\ overlap = FALSE
  /\ conn = Nothing

-----------------------------------------------------------------------------
(* What the settings mean.                                                 *)

(* encryption_method_from_string.  A name that is not in the list is       *)
(* method 0, the table.  The public server's and the default are OpenSSL's. *)
CipherOf(method) ==
  IF method \in TableServers THEN "TABLE"
  ELSE IF method \in SodiumServers THEN "SODIUM" ELSE "OPENSSL"

UsesPublic == stored["public"] # "NO"
NotComplete ==
  ~UsesPublic /\ \E k \in {"IP", "port", "password"} : stored[k] = Nothing

(* What reloadConfig reads of the user defaults. *)
Read(k) == IF k = "method" /\ stored[k] = Nothing THEN Default ELSE stored[k]

Put(name, value) == [name |-> name, value |-> value]

(* set_config up to the method number of config_encryption. *)
CopyArgs(a) ==
  << Put("_server", Torn), Put("_server", a.IP),
     Put("_remote_port", Torn), Put("_remote_port", a.port),
     Put("_method", a.method) >>

(* A bug: the cipher kind is set on the way to a key only. *)
ConfigLeavesCipher(password, method) ==
  IF CipherOf(method) = "TABLE"
  THEN << Put("encrypt_table", Torn), Put("encrypt_table", password) >>
  ELSE << Put("cipher", CipherOf(method)), Put("_cipher", method),
          Put("_key", Torn), Put("_key", <<password, method>>) >>

(* The rest of config_encryption.  The public server's key is not derived  *)
(* from its password: it is right only after the memcpy in reloadConfig.   *)
(* EVP_get_cipherbyname knows all the methods of the list; were one        *)
(* missing, _cipher would be NULL and _key stay as it was.                 *)
Config(password, method) ==
  IF CipherOf(method) = "TABLE"
  THEN << Put("encrypt_table", Torn), Put("encrypt_table", password),
          Put("cipher", "TABLE") >>
  ELSE IF CipherOf(method) = "SODIUM"
  THEN << Put("cipher", "SODIUM"), Put("_key", Torn), Put("_key", <<password, method>>) >>
  ELSE << Put("cipher", "OPENSSL"), Put("_cipher", method),
          Put("_key", Torn), Put("_key", <<password, method>>) >>

-----------------------------------------------------------------------------
(* The two threads.                                                        *)

Busy(t) == stage[t] \in {"set", "done"}
Other(t) == IF t = "main" THEN "proxy" ELSE "main"

(* The next assignment of a thread. *)
Assign(t) ==
  /\ todo[t] # <<>>
  /\ LET p == Head(todo[t]) IN
       IF p.name \in Keys
       THEN /\ stored' = [stored EXCEPT ![p.name] = p.value]
            /\ UNCHANGED <<mem, conn>>
       ELSE /\ mem' = [mem EXCEPT ![p.name] = p.value]
            /\ conn' = IF conn = Nothing THEN conn
                       ELSE [conn EXCEPT !.touched = TRUE]
            /\ UNCHANGED stored
  /\ todo' = [todo EXCEPT ![t] = Tail(@)]
  /\ UNCHANGED <<platform, saves, stage, args, inForce, overlap>>

(* set_config is called with a's fields. *)
SetConfig(t, a) ==
  /\ args' = [args EXCEPT ![t] = a]
  /\ todo' = [todo EXCEPT ![t] = CopyArgs(a)]
  /\ stage' = [stage EXCEPT ![t] = "set"]
  /\ overlap' = Busy(Other(t))
  /\ UNCHANGED <<platform, saves, stored, mem, inForce, conn>>

(* config_encryption looks at the global it has just written: what it sees *)
(* may be what the other thread wrote since.                               *)
ConfigEncryption(t) ==
  /\ stage[t] = "set" /\ todo[t] = <<>>
  /\ \E method \in {args[t].method, mem["_method"]} :
       todo' = [todo EXCEPT ![t] = Config(args[t].password, method)]
  /\ stage' = [stage EXCEPT ![t] = "done"]
  /\ UNCHANGED <<platform, saves, stored, mem, args, inForce, overlap, conn>>

SetConfigReturns(t) ==
  /\ stage[t] = "done" /\ todo[t] = <<>>
  /\ inForce' = IF overlap THEN Mixed ELSE args[t]
  /\ overlap' = (overlap /\ Busy(Other(t)))
  /\ stage' = [stage EXCEPT ![t] = IF t = "main" THEN "idle" ELSE "gate"]
  /\ args' = [args EXCEPT ![t] = NoArgs]
  /\ UNCHANGED <<platform, saves, stored, mem, todo, conn>>

(* The main thread saves some keys, and then reloads, or does not. *)
Save(puts, next) ==
  /\ stage["main"] = "idle" /\ todo["main"] = <<>>
  /\ saves < MaxSaves /\ saves' = saves + 1
  /\ todo' = [todo EXCEPT !["main"] = puts]
  /\ stage' = [stage EXCEPT !["main"] = next]
  /\ UNCHANGED <<platform, stored, mem, args, inForce, overlap, conn>>

SaveServer(s) ==
  << Put("IP", s), Put("port", s), Put("password", s), Put("method", s) >>

OpenSSURL(s) == Save(SaveServer(s) \o << Put("public", "NO") >>, "saved")

(* The Mac's profiles; the second is current = -1. *)
ReloadProfile(s) == Save(<< Put("public", "NO") >> \o SaveServer(s), "saved")
ReloadPublic     == Save(<< Put("public", "YES") >>, "saved")

(* The page on iOS: the segmented control and the list of methods save at  *)
(* once and do not reload.                                                 *)
ChangePublicServer == \E yes \in {"YES", "NO"} : Save(<< Put("public", yes) >>, "idle")
ChooseMethod(s)    == Save(<< Put("method", s) >>, "idle")

(* Done saves the three text fields.  With the public server chosen they   *)
(* may not exist: setObject:nil then removes what was stored.              *)
Done(s) ==
  \E v \in {s} \cup IF UsesPublic THEN {Nothing} ELSE {} :
    Save(<< Put("IP", v), Put("port", v), Put("password", v) >>, "saved")

MainReload ==
  /\ stage["main"] = "saved" /\ todo["main"] = <<>>
  /\ IF NotComplete
     THEN /\ stage' = [stage EXCEPT !["main"] = "idle"]
          /\ UNCHANGED <<platform, saves, stored, mem, todo, args, inForce, overlap, conn>>
     ELSE SetConfig("main", IF UsesPublic THEN PublicArgs
                            ELSE [k \in DOMAIN NoArgs |-> Read(k)])

(* The proxy thread starts: reloadConfig looks whether the settings are    *)
(* complete, looks again whether they are the public server's, and then    *)
(* reads them one by one, while the main thread may be saving others.      *)
ProxyReload ==
  /\ stage["proxy"] = "reload"
  /\ stage' = [stage EXCEPT !["proxy"] = IF NotComplete THEN "gate" ELSE "choose"]
  /\ UNCHANGED <<platform, saves, stored, mem, todo, args, inForce, overlap, conn>>

ProxyChoose ==
  /\ stage["proxy"] = "choose"
  /\ IF UsesPublic THEN SetConfig("proxy", PublicArgs)
     ELSE /\ stage' = [stage EXCEPT !["proxy"] = "read"]
          /\ todo' = [todo EXCEPT !["proxy"] =
                        << Put("method", Nothing), Put("IP", Nothing),
                           Put("port", Nothing), Put("password", Nothing) >>]
          /\ UNCHANGED <<platform, saves, stored, mem, args, inForce, overlap, conn>>

ReadArg ==
  /\ stage["proxy"] = "read" /\ todo["proxy"] # <<>>
  /\ LET k == Head(todo["proxy"]).name IN
       /\ stored[k] # Nothing \/ k = "method"
       /\ args' = [args EXCEPT !["proxy"][k] = Read(k)]
  /\ todo' = [todo EXCEPT !["proxy"] = Tail(@)]
  /\ UNCHANGED <<platform, saves, stored, mem, stage, inForce, overlap, conn>>

(* A string that has gone meanwhile is NULL, and strlen of it the end of   *)
(* the process.                                                            *)
ReadNil ==
  /\ stage["proxy"] = "read" /\ todo["proxy"] # <<>>
  /\ LET k == Head(todo["proxy"]).name IN stored[k] = Nothing /\ k # "method"
  /\ stage' = [t \in Threads |-> "dead"]
  /\ todo' = [t \in Threads |-> <<>>]
  /\ inForce' = Nothing /\ overlap' = FALSE
  /\ UNCHANGED <<platform, saves, stored, mem, args, conn>>

ProxySetConfig ==
  /\ stage["proxy"] = "read" /\ todo["proxy"] = <<>>
  /\ SetConfig("proxy", args["proxy"])

(* A bug: it waits for a configuration, and not every save makes one. *)
RunProxyConfigured ==
  /\ stage["proxy"] = "gate" /\ ~NotComplete /\ inForce # Nothing
  /\ stage' = [stage EXCEPT !["proxy"] = "listening"]
  /\ UNCHANGED <<platform, saves, stored, mem, todo, args, inForce, overlap, conn>>

(* runProxy asks every two seconds whether the settings are complete, and  *)
(* then runs local_main for good (module Acceptor).                        *)
RunProxy ==
  /\ stage["proxy"] = "gate" /\ ~NotComplete
  /\ stage' = [stage EXCEPT !["proxy"] = "listening"]
  /\ UNCHANGED <<platform, saves, stored, mem, todo, args, inForce, overlap, conn>>

-----------------------------------------------------------------------------
(* One direction of one connection on the proxy thread; the other has a    *)
(* context of its own and shares nothing with it but the endpoint.  The    *)
(* globals are read when the connection is accepted, when the direction is *)
(* used first, and, without OpenSSL, with every chunk.                     *)

AllQuiet == \A t \in Threads : ~Busy(t)

(* The method and key that a connection configured with a should use.      *)
Right(a) ==
  IF CipherOf(a.method) = "TABLE" THEN <<"TABLE", a.password>>
  ELSE <<CipherOf(a.method), a.method, <<a.password, a.method>>>>

(* accept_cb up to getaddrinfo. *)
Accept ==
  /\ stage["proxy"] = "listening" /\ conn = Nothing
  /\ conn' = [at |-> "server", _server |-> Nothing, _remote_port |-> Nothing,
              cipher |-> Nothing, ivOf |-> Nothing, ctx |-> Nothing,
              start |-> IF AllQuiet THEN inForce ELSE Mixed,
              touched |-> FALSE, settled |-> FALSE, pure |-> TRUE]
  /\ UNCHANGED <<platform, saves, stored, mem, todo, stage, args, inForce, overlap>>

Conn(from, new) ==
  /\ conn # Nothing /\ conn.at = from
  /\ conn' = new
  /\ UNCHANGED <<platform, saves, stored, mem, todo, stage, args, inForce, overlap>>

(* getaddrinfo reads both strings, init_encryption the kind of cipher. *)
ReadServer == Conn("server", [conn EXCEPT !.at = "port", !._server = mem["_server"]])
ReadPort   == Conn("port", [conn EXCEPT !.at = "init", !._remote_port = mem["_remote_port"]])

InitEncryption ==
  Conn("init", [conn EXCEPT !.at = "open", !.cipher = mem["cipher"],
                            !._server = Nothing, !._remote_port = Nothing])

(* The first chunk takes the length of the IV from _method. *)
FirstChunk ==
  /\ conn # Nothing
  /\ conn.cipher # "TABLE" /\ conn.ivOf = Nothing
  /\ Conn("open", [conn EXCEPT !.at = "keying", !.ivOf = mem["_method"]])

(* What the globals say about a kind of cipher. *)
GlobalKey(kind) ==
  IF kind = "TABLE" THEN <<"TABLE", mem["encrypt_table"]>>
  ELSE <<kind, IF kind = "SODIUM" THEN mem["_method"] ELSE mem["_cipher"], mem["_key"]>>

(* A bug: every chunk looks at the global key, whatever the cipher. *)
KeyFromGlobals == GlobalKey(conn.cipher)

(* What cipher_update and table_encrypt use for a chunk. *)
KeyInUse ==
  IF conn.cipher = "OPENSSL" THEN conn.ctx ELSE GlobalKey(conn.cipher)

(* init_cipher: an OpenSSL context gets a copy of the key. *)
InitCipher ==
  /\ conn # Nothing
  /\ Conn("keying", [conn EXCEPT
       !.at = "open",
       !.ctx = IF conn.cipher = "OPENSSL" THEN GlobalKey("OPENSSL") ELSE @,
       !.settled = ~conn.touched])

(* A chunk is encrypted or decrypted. *)
Chunk ==
  /\ conn # Nothing
  /\ conn.cipher = "TABLE" \/ conn.ivOf # Nothing
  /\ Conn("open", [conn EXCEPT
       !.pure = @ /\ conn.start \notin {Nothing, Mixed}
                  /\ KeyInUse = Right(conn.start)])

CloseConn == conn # Nothing /\ conn.at = "open" /\ Conn("open", Nothing)

-----------------------------------------------------------------------------
MacNext ==
  /\ platform = "mac"
  /\ ReloadPublic \/ \E s \in Servers : ReloadProfile(s)

IOSNext ==
  /\ platform = "ios"
  /\ ChangePublicServer \/ \E s \in Servers : ChooseMethod(s) \/ Done(s)

MainNext ==
  \/ \E s \in Servers : OpenSSURL(s)
  \/ MacNext \/ IOSNext \/ MainReload

ThreadNext(t) ==
  \/ Assign(t) /\ stage[t] # "read"
  \/ ConfigEncryption(t) \/ SetConfigReturns(t)

ConnNext ==
  \/ Accept \/ ReadServer \/ ReadPort \/ InitEncryption
  \/ FirstChunk \/ InitCipher \/ Chunk \/ CloseConn

ProxyNext ==
  \/ ProxyReload \/ ProxyChoose \/ ReadArg \/ ReadNil
  \/ ProxySetConfig \/ RunProxy

Next ==
  \/ MainNext \/ ProxyNext \/ ConnNext
  \/ \E t \in Threads : ThreadNext(t)

(* Both threads run. *)
Fairness ==
  /\ \A t \in Threads : WF_vars(ThreadNext(t))
  /\ WF_vars(MainReload) /\ WF_vars(ProxyNext)

Spec == Init /\ [][Next]_vars
FairSpec == Spec /\ Fairness

-----------------------------------------------------------------------------
(* After a set_config that no other one overlapped, the globals are its    *)
(* own, all of them: whatever was configured before, name, port, method,   *)
(* kind of cipher and key or table belong together.                        *)
Installed ==
  AllQuiet /\ inForce \notin {Nothing, Mixed} =>
    /\ mem["_server"] = inForce.IP /\ mem["_remote_port"] = inForce.port
    /\ mem["_method"] = inForce.method
    /\ mem["cipher"] = CipherOf(inForce.method)
    /\ IF CipherOf(inForce.method) = "TABLE"
       THEN mem["encrypt_table"] = inForce.password
       ELSE mem["_key"] = <<inForce.password, inForce.method>>

(* A connection that was accepted when no configuration was under way, and *)
(* has seen none since, connects to one server's name at its port and uses *)
(* its method, the length of its IV and its key.                           *)
OneConfiguration ==
  conn # Nothing /\ conn.start \notin {Nothing, Mixed} /\ ~conn.touched =>
    /\ conn._server \in {Nothing, conn.start.IP}
    /\ conn._remote_port \in {Nothing, conn.start.port}
    /\ conn.cipher \in {Nothing, CipherOf(conn.start.method)}
    /\ conn.ivOf \in {Nothing, conn.start.method}
    /\ conn.pure

(* Once a direction of a connection with an OpenSSL method has started     *)
(* undisturbed, no later configuration reaches it: established connections *)
(* go on with their own key while the settings change.  (With a table or a *)
(* sodium cipher they do not: they read the globals with every chunk.)     *)
OpenSSLSurvives ==
  conn # Nothing /\ conn.start \notin {Nothing, Mixed} =>
    (conn.cipher = "OPENSSL" /\ conn.settled => conn.pure)

(* Once the settings stay complete the proxy listens, whoever stored them  *)
(* and whenever; unless the process died on a key that was removed while   *)
(* the proxy thread was reading them (ReadNil).                            *)
ListensOnceComplete ==
  <>[](~NotComplete) => <>(stage["proxy"] \in {"listening", "dead"})
=============================================================================
