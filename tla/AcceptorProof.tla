---------------------------- MODULE AcceptorProof ----------------------------
(***************************************************************************)
(* What Acceptor promises, for any number of clients and descriptors.  The *)
(* invariant adds who is where: the client being set up has one struct,    *)
(* those in the backlog have none and are there once.                      *)
(***************************************************************************)
EXTENDS Acceptor, FiniteSetTheorems, TLAPS

Setup ==
  /\ at \in {"resolve", "socket"} <=> serving # NoOne
  /\ serving # NoOne => live[serving] = {"server"}

Waiting ==
  /\ \A i \in DOMAIN backlog : backlog[i] # serving /\ live[backlog[i]] = {}
  /\ \A i, j \in DOMAIN backlog : backlog[i] = backlog[j] => i = j

NoListener == at \in {"start", "sleep"} => listenfd = NoFd

Counted == IsFiniteSet(Lost) /\ Cardinality(Lost) <= failures

Placed == TypeOK /\ Setup /\ Waiting /\ NoListener
AcceptInv == Placed /\ OwnDescriptors /\ Counted

(* Who holds a number. *)
LEMMA HeldIs ==
  ASSUME NEW n
  PROVE  n \in Held <=>
           \/ n = listenfd /\ n # NoFd
           \/ \E c \in Clients : \E e \in live[c] : n = fd[c][e]
BY DEF Held, Numbers

LEMMA HeldIsNext ==
  ASSUME NEW n
  PROVE  n \in Held' <=>
           \/ n = listenfd' /\ n # NoFd
           \/ \E c \in Clients : \E e \in live'[c] : n = fd'[c][e]
BY DEF Held, Numbers

(* OwnDescriptors number by number. *)
LEMMA OwnIs ==
  OwnDescriptors <=>
    /\ listenfd # NoFd => listenfd \in open
    /\ \A c \in Clients : \A e \in live[c] :
         fd[c][e] \in open /\ fd[c][e] # listenfd
    /\ \A c, d \in Clients : \A e \in live[c], f \in live[d] :
         fd[c][e] = fd[d][f] => c = d /\ e = f
BY HeldIs DEF OwnDescriptors, Numbers

LEMMA OwnIsNext ==
  OwnDescriptors' <=>
    /\ listenfd' # NoFd => listenfd' \in open'
    /\ \A c \in Clients : \A e \in live'[c] :
         fd'[c][e] \in open' /\ fd'[c][e] # listenfd'
    /\ \A c, d \in Clients : \A e \in live'[c], f \in live'[d] :
         fd'[c][e] = fd'[d][f] => c = d /\ e = f
BY HeldIsNext DEF OwnDescriptors, Numbers

LEMMA InitAcceptor == ASSUME Init PROVE AcceptInv
<1>1. /\ at = "start" /\ port \in {"no one", "another"} /\ listenfd = NoFd
      /\ backlog = <<>> /\ serving = NoOne /\ open = {} /\ failures = 0
      /\ live = [c \in Clients |-> {}]
      /\ fd = [c \in Clients |-> [e \in Endpoints |-> NoFd]]
  BY DEF Init
<1>2. DOMAIN backlog = {} /\ backlog \in Seq(Clients)
  <2>1. DOMAIN <<>> = {} /\ <<>> \in Seq(Clients)
    OBVIOUS
  <2>2. QED
    BY <1>1, <2>1
<1>3. TypeOK
  <2>1. live \in [Clients -> SUBSET Endpoints]
    BY <1>1
  <2>2. fd \in [Clients -> [Endpoints -> Fds \cup {NoFd}]]
    BY <1>1
  <2>3. QED
    BY <1>1, <1>2, <2>1, <2>2 DEF TypeOK
<1>4. Setup /\ Waiting /\ NoListener
  BY <1>1, <1>2 DEF Setup, Waiting, NoListener
<1>5. OwnDescriptors
  BY <1>1, OwnIs
<1>6. Counted
  <2>1. Lost = {}
    BY <1>1 DEF Lost
  <2>2. IsFiniteSet({}) /\ Cardinality({}) = 0
    BY FS_EmptySet
  <2>3. IsFiniteSet(Lost)
    BY <2>1, <2>2
  <2>4. Cardinality(Lost) = 0
    BY <2>1, <2>2
  <2>5. failures = 0
    BY <1>1
  <2>6. Cardinality(Lost) <= failures
    BY <2>4, <2>5
  <2>7. QED
    BY <2>3, <2>6 DEF Counted
<1>7. QED
  BY <1>3, <1>4, <1>5, <1>6 DEF AcceptInv, Placed

-----------------------------------------------------------------------------
(* Counting what is lost. *)

LEMMA NothingLost ==
  ASSUME Counted, Lost' \subseteq Lost, failures' = failures, failures \in Nat
  PROVE  Counted'
<1>1. IsFiniteSet(Lost) /\ Cardinality(Lost) \in Nat
  BY FS_CardinalityType DEF Counted
<1>2. IsFiniteSet(Lost') /\ Cardinality(Lost') \in Nat
      /\ Cardinality(Lost') <= Cardinality(Lost)
  BY <1>1, FS_Subset, FS_CardinalityType
<1>3. QED
  BY <1>1, <1>2 DEF Counted

LEMMA OneLost ==
  ASSUME Counted, NEW n, Lost' \subseteq Lost \cup {n},
         failures' = failures + 1, failures \in Nat
  PROVE  Counted'
<1>1. IsFiniteSet(Lost) /\ Cardinality(Lost) \in Nat
  BY FS_CardinalityType DEF Counted
<1>2. IsFiniteSet(Lost \cup {n})
      /\ Cardinality(Lost \cup {n}) \in Nat
      /\ Cardinality(Lost \cup {n}) <= Cardinality(Lost) + 1
  BY <1>1, FS_AddElement, FS_CardinalityType
<1>3. IsFiniteSet(Lost') /\ Cardinality(Lost') \in Nat
      /\ Cardinality(Lost') <= Cardinality(Lost \cup {n})
  BY <1>2, FS_Subset, FS_CardinalityType
<1>4. QED
  BY <1>1, <1>2, <1>3 DEF Counted

-----------------------------------------------------------------------------
(* Steps that leave the descriptors alone. *)

Quiet ==
  \/ BindFails \/ Retry \/ Listen \/ OtherPort \/ AcceptCb \/ AcceptFails
  \/ Getaddrinfo \/ (\E c \in Clients : Connects(c)) \/ UNCHANGED vars

LEMMA QuietPlaces == ASSUME AcceptInv, Quiet PROVE Placed'
<1> USE AcceptorAssumption DEF AcceptInv, Placed
<1>1. CASE \/ BindFails \/ Retry \/ Listen \/ OtherPort \/ AcceptCb
           \/ AcceptFails \/ Getaddrinfo \/ UNCHANGED vars
  <2>1. UNCHANGED <<listenfd, backlog, serving, live, fd, open, failures>>
    BY <1>1 DEF BindFails, Retry, Listen, OtherPort, AcceptCb, AcceptFails,
                Getaddrinfo, vars, connections
  <2>2. TypeOK'
    BY <1>1, <2>1 DEF BindFails, Retry, Listen, OtherPort, AcceptCb, AcceptFails,
                      Getaddrinfo, vars, TypeOK
  <2>3. Setup' /\ Waiting' /\ NoListener'
    BY <1>1, <2>1 DEF BindFails, Retry, Listen, OtherPort, AcceptCb, AcceptFails,
                      Getaddrinfo, vars, Setup, Waiting, NoListener
  <2>4. QED
    BY <2>2, <2>3
<1>2. ASSUME NEW c \in Clients, Connects(c) PROVE Placed'
  <2> USE <1>2 DEF Connects, connections
  <2>1. backlog \in Seq(Clients) /\ backlog' = Append(backlog, c)
    BY DEF TypeOK
  <2>2. TypeOK'
    <3>1. backlog' \in Seq(Clients)
      BY <2>1
    <3>2. UNCHANGED <<at, port, listenfd, serving, live, fd, open, failures>>
      OBVIOUS
    <3>3. QED
      BY <3>1, <3>2 DEF TypeOK
  <2>3. Setup' /\ NoListener'
    BY DEF Setup, NoListener
  <2>4. Len(backlog) \in Nat /\ DOMAIN backlog = 1..Len(backlog)
        /\ DOMAIN backlog' = 1..(Len(backlog) + 1)
    BY <2>1
  <2>5. \A i \in DOMAIN backlog' : backlog'[i] = IF i = Len(backlog) + 1 THEN c
                                                ELSE backlog[i]
    BY <2>1, <2>4
  <2>6. \A i \in DOMAIN backlog' : i # Len(backlog) + 1 => i \in DOMAIN backlog
    BY <2>4
  <2>7. \A i \in DOMAIN backlog : backlog[i] # c
    BY DEF InBacklog
  <2>8. Waiting'
    <3>1. ASSUME NEW i \in DOMAIN backlog'
          PROVE  backlog'[i] # serving' /\ live'[backlog'[i]] = {}
      BY <2>5, <2>6 DEF Waiting
    <3>2. ASSUME NEW i \in DOMAIN backlog', NEW j \in DOMAIN backlog',
                 backlog'[i] = backlog'[j]
          PROVE  i = j
      BY <2>5, <2>6, <2>7, <3>2 DEF Waiting
    <3>3. QED
      BY <3>1, <3>2 DEF Waiting
  <2>9. QED
    BY <2>2, <2>3, <2>8
<1>3. QED
  BY <1>1, <1>2 DEF Quiet

LEMMA QuietStep == ASSUME AcceptInv, Quiet PROVE AcceptInv'
<1>1. UNCHANGED <<listenfd, live, fd, open, failures>>
  BY DEF Quiet, BindFails, Retry, Listen, OtherPort, AcceptCb, AcceptFails,
         Getaddrinfo, Connects, vars, connections
<1>2. Held' = Held
  BY <1>1 DEF Held, Numbers
<1>3. OwnDescriptors'
  BY <1>1, <1>2 DEF OwnDescriptors, AcceptInv, Numbers
<1>4. Counted'
  BY <1>1, <1>2, NothingLost DEF Lost, AcceptInv, Placed, TypeOK
<1>5. QED
  BY <1>3, <1>4, QuietPlaces DEF AcceptInv

-----------------------------------------------------------------------------
(* The listener's descriptor. *)

LEMMA BindStep == ASSUME AcceptInv, CreateAndBind PROVE AcceptInv'
<1>1. PICK n \in Fds \ open : open' = open \cup {n} /\ listenfd' = n
  BY DEF CreateAndBind
<1>2. /\ at = "start" /\ at' = "bound" /\ port' = "this"
      /\ UNCHANGED <<backlog, serving, live, fd, failures>>
  BY DEF CreateAndBind, connections
<1>3. TypeOK /\ Setup /\ Waiting /\ NoListener /\ OwnDescriptors /\ Counted
  BY DEF AcceptInv, Placed
<1>4. open \subseteq Fds /\ listenfd = NoFd /\ failures \in Nat
  BY <1>2, <1>3 DEF TypeOK, NoListener
<1>5. TypeOK'
  BY <1>1, <1>2, <1>3, <1>4 DEF TypeOK
<1>6. Setup' /\ Waiting' /\ NoListener'
  BY <1>2, <1>3 DEF Setup, Waiting, NoListener
<1>7. OwnDescriptors'
  <2>1. \A c \in Clients : \A e \in live[c] : fd[c][e] \in open
    BY <1>3, OwnIs
  <2>2. \A c \in Clients : \A e \in live[c] :
          fd[c][e] \in open \cup {n} /\ fd[c][e] # n
    BY <1>1, <2>1
  <2>3. QED
    BY <1>1, <1>2, <1>3, <2>2, OwnIs, OwnIsNext
<1>8. Lost' \subseteq Lost
  <2>1. Held' = {n} \cup Held
    <3>1. {listenfd'} \ {NoFd} = {n}
      BY <1>1, AcceptorAssumption
    <3>2. {listenfd} \ {NoFd} = {}
      BY <1>4
    <3>3. QED
      BY <1>2, <3>1, <3>2 DEF Held, Numbers
  <2>2. QED
    BY <1>1, <2>1 DEF Lost
<1>9. Counted'
  BY <1>2, <1>3, <1>4, <1>8, NothingLost
<1>10. QED
  BY <1>5, <1>6, <1>7, <1>9 DEF AcceptInv, Placed

LEMMA ListenStep == ASSUME AcceptInv, ListenFails PROVE AcceptInv'
<1>1. /\ at' = "sleep" /\ at = "bound" /\ listenfd' = NoFd
      /\ failures' = failures + 1
      /\ UNCHANGED <<port, backlog, serving, live, fd, open>>
  BY DEF ListenFails, connections
<1>2. TypeOK /\ Setup /\ Waiting /\ OwnDescriptors /\ Counted
  BY DEF AcceptInv, Placed
<1>3. failures \in Nat /\ open \subseteq Fds
  BY <1>2 DEF TypeOK
<1>4. TypeOK'
  <2>1. failures' \in Nat
    BY <1>1, <1>3
  <2>2. QED
    BY <1>1, <1>2, <2>1 DEF TypeOK
<1>5. Setup' /\ Waiting' /\ NoListener'
  BY <1>1, <1>2 DEF Setup, Waiting, NoListener
<1>6. OwnDescriptors'
  <2>1. NoFd \notin open
    BY <1>3, AcceptorAssumption
  <2>2. QED
    BY <1>1, <1>2, <2>1, OwnIs, OwnIsNext
<1>7. Lost' \subseteq Lost \cup {listenfd}
  BY <1>1, HeldIs, HeldIsNext DEF Lost
<1>8. Counted'
  BY <1>1, <1>2, <1>3, <1>7, OneLost
<1>9. QED
  BY <1>4, <1>5, <1>6, <1>8 DEF AcceptInv, Placed

-----------------------------------------------------------------------------
(* accept_cb. *)

LEMMA AcceptStep == ASSUME AcceptInv, Accept PROVE AcceptInv'
<1> USE AcceptorAssumption DEF AcceptInv, Placed
<1> DEFINE c == Head(backlog)
<1>0. backlog \in Seq(Clients) /\ backlog # <<>>
  BY DEF Accept, TypeOK
<1>1. /\ backlog \in Seq(Clients) /\ backlog # <<>>
      /\ Len(backlog) \in Nat /\ DOMAIN backlog = 1..Len(backlog)
  BY <1>0
<1>2. c \in Clients /\ c = backlog[1] /\ live[c] = {}
  BY <1>1 DEF Waiting
<1>3. PICK n \in Fds \ open :
        open' = open \cup {n} /\ fd' = [fd EXCEPT ![c]["server"] = n]
  BY DEF Accept
<1>4. /\ live' = [live EXCEPT ![c] = {"server"}]
      /\ backlog' = Tail(backlog) /\ serving' = c /\ at' = "resolve"
      /\ UNCHANGED <<port, listenfd, failures>>
  BY DEF Accept
<1> HIDE DEF c
<1>5. /\ fd \in [Clients -> [Endpoints -> Fds \cup {NoFd}]]
      /\ live \in [Clients -> SUBSET Endpoints] /\ open \subseteq Fds
      /\ "server" \in Endpoints
  BY DEF TypeOK, Endpoints
<1>6. /\ fd' \in [Clients -> [Endpoints -> Fds \cup {NoFd}]]
      /\ fd'[c]["server"] = n
      /\ \A d \in Clients \ {c} : fd'[d] = fd[d]
  BY <1>2, <1>3, <1>5
<1>7. /\ live' \in [Clients -> SUBSET Endpoints]
      /\ live'[c] = {"server"}
      /\ \A d \in Clients \ {c} : live'[d] = live[d]
  BY <1>2, <1>4, <1>5
<1>8. TypeOK'
  <2>1. backlog' \in Seq(Clients)
    BY <1>1, <1>4
  <2>2. QED
    BY <1>2, <1>3, <1>4, <1>6, <1>7, <2>1 DEF TypeOK
<1>9. Setup' /\ NoListener'
  BY <1>2, <1>4, <1>7 DEF Setup, NoListener
<1>10. Waiting'
  <2>1. Len(backlog') = Len(backlog) - 1
        /\ \A i \in DOMAIN backlog' : i + 1 \in DOMAIN backlog
                                      /\ backlog'[i] = backlog[i + 1]
    BY <1>1, <1>4
  <2>2. ASSUME NEW i \in DOMAIN backlog'
        PROVE  backlog'[i] # c /\ live'[backlog'[i]] = {}
    <3>1. i \in Nat /\ i # 0 /\ 1 \in DOMAIN backlog
      BY <1>1, <1>4
    <3>2. backlog'[i] # c
      BY <1>2, <2>1, <3>1 DEF Waiting
    <3>3. backlog'[i] \in Clients
      BY <1>1, <2>1
    <3>4. live[backlog'[i]] = {}
      BY <2>1 DEF Waiting
    <3>5. QED
      BY <1>7, <3>2, <3>3, <3>4
  <2>3. ASSUME NEW i \in DOMAIN backlog', NEW j \in DOMAIN backlog',
               backlog'[i] = backlog'[j]
        PROVE  i = j
    <3>1. i + 1 = j + 1
      BY <2>1, <2>3 DEF Waiting
    <3>2. i \in Nat /\ j \in Nat
      BY <1>1, <1>4
    <3>3. QED
      BY <3>1, <3>2
  <2>4. QED
    BY <1>4, <2>2, <2>3 DEF Waiting
<1>11. OwnDescriptors'
  <2>1. listenfd' # NoFd => listenfd' \in open'
    BY <1>3, <1>4, OwnIs
  <2>2. ASSUME NEW d \in Clients, NEW e \in live'[d]
        PROVE  /\ fd'[d][e] \in open' /\ fd'[d][e] # listenfd'
               /\ d = c => e = "server" /\ fd'[d][e] = n
               /\ d # c => e \in live[d] /\ fd'[d][e] = fd[d][e] /\ fd[d][e] \in open
    BY <1>2, <1>3, <1>4, <1>6, <1>7, OwnIs
  <2>3. ASSUME NEW d \in Clients, NEW b \in Clients, NEW e \in live'[d],
               NEW f \in live'[b], fd'[d][e] = fd'[b][f]
        PROVE  d = b /\ e = f
    BY <1>3, <2>2, <2>3, OwnIs
  <2>4. QED
    BY <2>1, <2>2, <2>3, OwnIsNext
<1>12. Lost' \subseteq Lost
  <2> SUFFICES ASSUME NEW k \in open', k \notin Held' PROVE k \in open /\ k \notin Held
    BY DEF Lost
  <2>1. k # n
    BY <1>2, <1>6, <1>7, HeldIsNext
  <2>2. k \notin Held
    <3> SUFFICES ASSUME k \in Held PROVE FALSE
      OBVIOUS
    <3>1. CASE k = listenfd /\ k # NoFd
      BY <1>4, <3>1, HeldIsNext
    <3>2. ASSUME NEW d \in Clients, NEW e \in live[d], k = fd[d][e] PROVE FALSE
      <4>1. d # c
        BY <1>2, <3>2
      <4>2. QED
        BY <1>6, <1>7, <3>2, <4>1, HeldIsNext
    <3>3. QED
      BY <3>1, <3>2, HeldIs
  <2>3. QED
    BY <1>3, <2>1, <2>2
<1>13. Counted'
  BY <1>4, <1>12, NothingLost DEF TypeOK
<1>14. QED
  BY <1>8, <1>9, <1>10, <1>11, <1>13

(* The backlog when the client being set up is done with. *)
LEMMA ServedPlaces ==
  ASSUME Placed, serving \in Clients, serving' = NoOne,
         at' \in {"accept", "loop"}, UNCHANGED <<listenfd, backlog>>,
         \A d \in Clients \ {serving} : live'[d] = live[d]
  PROVE  Setup' /\ Waiting' /\ NoListener'
<1> USE AcceptorAssumption DEF Placed
<1>1. Setup' /\ NoListener'
  BY DEF Setup, NoListener
<1>2. \A i \in DOMAIN backlog : backlog[i] \in Clients /\ backlog[i] # serving
                                /\ live[backlog[i]] = {}
  <2>1. backlog \in Seq(Clients)
    BY DEF TypeOK
  <2>2. \A i \in DOMAIN backlog : backlog[i] \in Clients
    BY <2>1
  <2>3. QED
    BY <2>2 DEF Waiting
<1>3. \A i \in DOMAIN backlog : backlog[i] # NoOne
  BY <1>2
<1>4. Waiting'
  BY <1>2, <1>3 DEF Waiting
<1>5. QED
  BY <1>1, <1>4

LEMMA GiveUpStep ==
  ASSUME AcceptInv, at \in {"resolve", "socket"}, GiveUp PROVE AcceptInv'
<1> USE AcceptorAssumption DEF AcceptInv, Placed
<1> DEFINE c == serving
<1>1. c \in Clients /\ live[c] = {"server"}
  BY DEF Setup, TypeOK
<1>2. /\ live' = [live EXCEPT ![c] = {}]
      /\ fd' = [fd EXCEPT ![c]["server"] = NoFd]
      /\ serving' = NoOne /\ at' = "accept" /\ failures' = failures + 1
      /\ UNCHANGED <<port, listenfd, backlog, open>>
  BY DEF GiveUp
<1>3. /\ fd \in [Clients -> [Endpoints -> Fds \cup {NoFd}]]
      /\ live \in [Clients -> SUBSET Endpoints] /\ open \subseteq Fds
      /\ failures \in Nat
  BY DEF TypeOK
<1>4. /\ fd' \in [Clients -> [Endpoints -> Fds \cup {NoFd}]]
      /\ \A d \in Clients \ {c} : fd'[d] = fd[d]
  BY <1>1, <1>2, <1>3
<1>5. /\ live' \in [Clients -> SUBSET Endpoints] /\ live'[c] = {}
      /\ \A d \in Clients \ {c} : live'[d] = live[d]
  BY <1>1, <1>2, <1>3
<1>6. TypeOK'
  <2>1. failures' \in Nat
    BY <1>2, <1>3
  <2>2. QED
    BY <1>2, <1>4, <1>5, <2>1 DEF TypeOK
<1>7. Setup' /\ Waiting' /\ NoListener'
  BY <1>1, <1>2, <1>5, ServedPlaces
<1>8. ASSUME NEW d \in Clients, NEW e \in live'[d]
      PROVE  e \in live[d] /\ fd'[d][e] = fd[d][e]
  BY <1>4, <1>5
<1>9. OwnDescriptors'
  BY <1>2, <1>8, OwnIs, OwnIsNext
<1>10. Lost' \subseteq Lost \cup {fd[c]["server"]}
  <2> SUFFICES ASSUME NEW k \in open', k \notin Held', k \in Held
               PROVE  k = fd[c]["server"]
    BY <1>2 DEF Lost
  <2>1. k # listenfd \/ k = NoFd
    BY <1>2, HeldIsNext
  <2>2. ASSUME NEW d \in Clients, NEW e \in live[d], k = fd[d][e]
        PROVE  k = fd[c]["server"]
    <3>1. CASE d = c
      BY <1>1, <2>2, <3>1
    <3>2. CASE d # c
      BY <1>4, <1>5, <2>2, <3>2, HeldIsNext
    <3>3. QED
      BY <3>1, <3>2
  <2>3. QED
    BY <2>1, <2>2, HeldIs
<1>11. Counted'
  BY <1>2, <1>3, <1>10, OneLost
<1>12. QED
  BY <1>6, <1>7, <1>9, <1>11

LEMMA SocketStep == ASSUME AcceptInv, Socket PROVE AcceptInv'
<1> USE AcceptorAssumption DEF AcceptInv, Placed
<1> DEFINE c == serving
<1>1. c \in Clients /\ live[c] = {"server"}
  BY DEF Setup, TypeOK, Socket
<1>2. PICK n \in Fds \ open :
        open' = open \cup {n} /\ fd' = [fd EXCEPT ![c]["remote"] = n]
  BY DEF Socket
<1>3. /\ live' = [live EXCEPT ![c] = Endpoints]
      /\ serving' = NoOne /\ at' = "loop"
      /\ UNCHANGED <<port, listenfd, backlog, failures>>
  BY DEF Socket
<1>4. /\ fd \in [Clients -> [Endpoints -> Fds \cup {NoFd}]]
      /\ live \in [Clients -> SUBSET Endpoints] /\ open \subseteq Fds
      /\ Endpoints = {"server", "remote"}
  BY DEF TypeOK, Endpoints
<1>5. /\ fd' \in [Clients -> [Endpoints -> Fds \cup {NoFd}]]
      /\ fd'[c]["remote"] = n /\ fd'[c]["server"] = fd[c]["server"]
      /\ \A d \in Clients \ {c} : fd'[d] = fd[d]
  BY <1>1, <1>2, <1>4
<1>6. /\ live' \in [Clients -> SUBSET Endpoints] /\ live'[c] = Endpoints
      /\ \A d \in Clients \ {c} : live'[d] = live[d]
  BY <1>1, <1>3, <1>4
<1>7. TypeOK'
  BY <1>2, <1>3, <1>5, <1>6 DEF TypeOK
<1>8. Setup' /\ Waiting' /\ NoListener'
  BY <1>1, <1>3, <1>6, ServedPlaces
<1>9. ASSUME NEW d \in Clients, NEW e \in live'[d]
      PROVE  \/ d = c /\ e = "remote" /\ fd'[d][e] = n
             \/ e \in live[d] /\ fd'[d][e] = fd[d][e] /\ fd[d][e] \in open
                /\ ~(d = c /\ e = "remote")
  BY <1>1, <1>4, <1>5, <1>6, OwnIs
<1>10. OwnDescriptors'
  <2>1. listenfd' # NoFd => listenfd' \in open'
    BY <1>2, <1>3, OwnIs
  <2>2. \A d \in Clients : \A e \in live'[d] :
          fd'[d][e] \in open' /\ fd'[d][e] # listenfd'
    BY <1>2, <1>3, <1>9, OwnIs
  <2>3. ASSUME NEW d \in Clients, NEW b \in Clients, NEW e \in live'[d],
               NEW f \in live'[b], fd'[d][e] = fd'[b][f]
        PROVE  d = b /\ e = f
    BY <1>2, <1>9, <2>3, OwnIs
  <2>4. QED
    BY <2>1, <2>2, <2>3, OwnIsNext
<1>11. Lost' \subseteq Lost
  <2> SUFFICES ASSUME NEW k \in open', k \notin Held' PROVE k \in open /\ k \notin Held
    BY DEF Lost
  <2>1. k # n
    BY <1>1, <1>4, <1>5, <1>6, HeldIsNext
  <2>2. ASSUME NEW d \in Clients, NEW e \in live[d], k = fd[d][e] PROVE FALSE
    <3>1. e \in live'[d] /\ fd'[d][e] = fd[d][e]
      BY <1>1, <1>4, <1>5, <1>6
    <3>2. QED
      BY <2>2, <3>1, HeldIsNext
  <2>3. k \notin Held
    BY <1>3, <2>2, HeldIs, HeldIsNext
  <2>4. QED
    BY <1>2, <2>1, <2>3
<1>12. Counted'
  BY <1>3, <1>11, NothingLost DEF TypeOK
<1>13. QED
  BY <1>7, <1>8, <1>10, <1>12

-----------------------------------------------------------------------------
(* The end of a connection. *)

LEMMA EndStep ==
  ASSUME AcceptInv, NEW c \in Clients, at = "loop",
         NEW E \in SUBSET live[c], CloseEnds(c, E)
  PROVE  AcceptInv'
<1> USE AcceptorAssumption DEF AcceptInv, Placed
<1>1. /\ live' = [live EXCEPT ![c] = @ \ E]
      /\ open' = open \ Numbers(c, E)
      /\ UNCHANGED <<at, port, listenfd, backlog, serving, failures>>
      /\ fd' = [fd EXCEPT ![c] = [e \in Endpoints |->
                                    IF e \in E THEN NoFd ELSE @[e]]]
  BY DEF CloseEnds
<1>2. /\ fd \in [Clients -> [Endpoints -> Fds \cup {NoFd}]]
      /\ live \in [Clients -> SUBSET Endpoints] /\ open \subseteq Fds
      /\ E \subseteq Endpoints
  BY DEF TypeOK
<1>3. /\ fd' \in [Clients -> [Endpoints -> Fds \cup {NoFd}]]
      /\ \A e \in Endpoints \ E : fd'[c][e] = fd[c][e]
      /\ \A d \in Clients \ {c} : fd'[d] = fd[d]
  <2>1. [e \in Endpoints |-> IF e \in E THEN NoFd ELSE fd[c][e]]
          \in [Endpoints -> Fds \cup {NoFd}]
    BY <1>2
  <2>2. fd' = [fd EXCEPT ![c] = [e \in Endpoints |->
                                   IF e \in E THEN NoFd ELSE fd[c][e]]]
    BY <1>1
  <2>3. QED
    BY <1>2, <2>1, <2>2
<1>4. /\ live' \in [Clients -> SUBSET Endpoints] /\ live'[c] = live[c] \ E
      /\ \A d \in Clients \ {c} : live'[d] = live[d]
  BY <1>1, <1>2
<1>5. TypeOK'
  BY <1>1, <1>3, <1>4 DEF TypeOK
<1>6. serving = NoOne
  BY DEF Setup
<1>7. Setup' /\ NoListener'
  BY <1>1, <1>6 DEF Setup, NoListener
<1>8. Waiting'
  <2>1. ASSUME NEW i \in DOMAIN backlog PROVE live'[backlog[i]] = {}
    <3>0. backlog \in Seq(Clients)
      BY DEF TypeOK
    <3>1. backlog[i] \in Clients /\ live[backlog[i]] = {}
      BY <3>0 DEF Waiting
    <3>2. QED
      BY <1>4, <3>1
  <2>2. QED
    BY <1>1, <2>1 DEF Waiting
<1>9. ASSUME NEW d \in Clients, NEW e \in live'[d]
      PROVE  /\ e \in live[d] /\ fd'[d][e] = fd[d][e]
             /\ d = c => e \notin E
  BY <1>2, <1>3, <1>4
<1>10. \A d \in Clients : \A e \in live[d] :
         fd[d][e] \in Numbers(c, E) => d = c /\ e \in E
  BY OwnIs DEF Numbers
<1>11. listenfd \notin Numbers(c, E)
  BY OwnIs DEF Numbers
<1>12. OwnDescriptors'
  <2>1. \A d \in Clients : \A e \in live'[d] :
          fd'[d][e] \in open' /\ fd'[d][e] # listenfd'
    BY <1>1, <1>9, <1>10, OwnIs
  <2>2. \A d, b \in Clients : \A e \in live'[d], f \in live'[b] :
          fd'[d][e] = fd'[b][f] => d = b /\ e = f
    BY <1>9, OwnIs
  <2>3. QED
    BY <1>1, <1>11, <2>1, <2>2, OwnIs, OwnIsNext
<1>13. Lost' \subseteq Lost
  <2> SUFFICES ASSUME NEW k \in open', k \notin Held' PROVE k \notin Held
    BY <1>1 DEF Lost
  <2>1. ASSUME NEW d \in Clients, NEW e \in live[d], k = fd[d][e] PROVE FALSE
    <3>1. d = c => e \notin E
      BY <1>1, <2>1 DEF Numbers
    <3>2. e \in live'[d] /\ fd'[d][e] = fd[d][e]
      BY <1>2, <1>3, <1>4, <3>1
    <3>3. QED
      BY <2>1, <3>2, HeldIsNext
  <2>2. QED
    BY <1>1, <2>1, HeldIs, HeldIsNext
<1>14. Counted'
  BY <1>1, <1>13, NothingLost DEF TypeOK
<1>15. QED
  BY <1>5, <1>7, <1>8, <1>12, <1>14

LEMMA NextAcceptor == ASSUME AcceptInv, [Next]_vars PROVE AcceptInv'
<1>1. CASE Quiet
  BY <1>1, QuietStep
<1>2. CASE GetaddrinfoFails \/ SocketFails
  BY <1>2, GiveUpStep DEF GetaddrinfoFails, SocketFails
<1>3. CASE \E c \in Clients : Ends(c)
  BY <1>3, EndStep DEF Ends
<1>4. QED
  BY <1>1, <1>2, <1>3, BindStep, ListenStep, AcceptStep, SocketStep
     DEF Next, LocalMain, AcceptNext, Quiet

LEMMA AcceptInvariant == Spec => []AcceptInv
BY InitAcceptor, NextAcceptor, PTL DEF Spec

-----------------------------------------------------------------------------
(* The types of the proxy thread's variables. *)
THEOREM AcceptorTypes == Spec => []TypeOK
<1>1. AcceptInv => TypeOK
  BY DEF AcceptInv, Placed
<1>2. QED
  BY <1>1, AcceptInvariant, PTL

(* No two connections share a descriptor, and none is used after it was    *)
(* closed, however numbers are reused.                                     *)
THEOREM DescriptorsOwned == Spec => []OwnDescriptors
<1>1. AcceptInv => OwnDescriptors
  BY DEF AcceptInv
<1>2. QED
  BY <1>1, AcceptInvariant, PTL

(* Only failed set-ups cost descriptors, and each of them one. *)
THEOREM OnlyFailuresCost == Spec => []Accounted
<1>1. AcceptInv => Accounted
  BY DEF AcceptInv, Counted, Accounted
<1>2. QED
  BY <1>1, AcceptInvariant, PTL

(* Seen from outside accept_cb, a connection comes to be with both its     *)
(* structs at once.                                                        *)
THEOREM ImplementsLifetimes == Spec => AllOrNothing
<1> USE AcceptorAssumption
<1> DEFINE shown == [c \in Clients |-> IF serving = c THEN {} ELSE live[c]]
<1>1. Init => Lives!Init
  BY DEF Init, Lives!Init
<1>2. AcceptInv /\ [Next]_vars => [Lives!Next]_shown
  <2> SUFFICES ASSUME AcceptInv, [Next]_vars PROVE Lives!Next \/ shown' = shown
    BY DEF Lives!Next
  <2> USE DEF AcceptInv, Placed
  <2>0. live \in [Clients -> SUBSET Endpoints] /\ serving \in Clients \cup {NoOne}
    BY DEF TypeOK
  <2>1. CASE UNCHANGED <<live, serving>>
    BY <2>1
  <2>2. CASE Accept
    <3>0. backlog \in Seq(Clients) /\ backlog # <<>>
      BY <2>2 DEF Accept, TypeOK
    <3>a. Head(backlog) = backlog[1] /\ 1 \in DOMAIN backlog /\ backlog[1] \in Clients
      BY <3>0
    <3>1. /\ Head(backlog) \in Clients
          /\ live[Head(backlog)] = {} /\ serving = NoOne
      BY <2>2, <3>a DEF Accept, Waiting, Setup
    <3>2. live' = [live EXCEPT ![Head(backlog)] = {"server"}]
          /\ serving' = Head(backlog)
      BY <2>2 DEF Accept
    <3>3. QED
      BY <2>0, <3>1, <3>2
  <2>3. CASE GetaddrinfoFails \/ SocketFails
    <3>1. serving \in Clients /\ serving' = NoOne
          /\ live' = [live EXCEPT ![serving] = {}]
      BY <2>3 DEF GetaddrinfoFails, SocketFails, GiveUp, Setup, TypeOK
    <3>2. QED
      BY <2>0, <3>1
  <2>4. CASE Socket
    <3>1. serving \in Clients /\ serving' = NoOne
          /\ live' = [live EXCEPT ![serving] = Endpoints]
      BY <2>4 DEF Socket, Setup, TypeOK
    <3>2. PICK c \in Clients : c = serving
      BY <3>1
    <3>3. shown[c] = {} /\ shown' = [shown EXCEPT ![c] = Endpoints]
      BY <2>0, <3>1, <3>2
    <3>4. Lives!Begin(c)
      BY <3>3 DEF Lives!Begin, Lives!Endpoints, Endpoints
    <3>5. QED
      BY <3>4 DEF Lives!Next
  <2>5. ASSUME NEW c \in Clients, Ends(c) PROVE Lives!Next
    <3>1. PICK E \in SUBSET live[c] : E # {} /\ CloseEnds(c, E)
      BY <2>5 DEF Ends
    <3>2. serving = NoOne /\ serving' = NoOne
      BY <2>5, <3>1 DEF Ends, CloseEnds, Setup
    <3>3. live' = [live EXCEPT ![c] = @ \ E]
      BY <3>1 DEF CloseEnds
    <3>4. E \in SUBSET shown[c] /\ shown' = [shown EXCEPT ![c] = @ \ E]
      BY <2>0, <3>2, <3>3
    <3>5. Lives!End(c)
      BY <3>1, <3>4 DEF Lives!End
    <3>6. QED
      BY <3>5 DEF Lives!Next
  <2>6. QED
    BY <2>1, <2>2, <2>3, <2>4, <2>5
       DEF Next, LocalMain, AcceptNext, OtherPort, CreateAndBind, BindFails,
           Retry, Listen, ListenFails, AcceptCb, AcceptFails, Getaddrinfo,
           Connects, vars, connections
<1>3. QED
  BY <1>1, <1>2, AcceptInvariant, PTL DEF Spec, AllOrNothing, Lives!Spec
=============================================================================
