------------------------------ MODULE Acceptor ------------------------------
(***************************************************************************)
(* The proxy thread around its connections: local_main binds the port, is  *)
(* tried again every second while it fails, and then accept_cb makes the   *)
(* two sockets of each connection out of a limited number of descriptors.  *)
(* What happens inside a connection is module Relay; here it only ends,    *)
(* one end after the other or both at once.                                *)
(*                                                                         *)
(* Everything is one thread: while accept_cb is under way (at is "accept", *)
(* "resolve" or "socket") no other callback runs, and getaddrinfo blocks.  *)
(***************************************************************************)
EXTENDS Naturals, Sequences, FiniteSets

CONSTANTS Clients,   \* those who connect to the SOCKS port
          Fds,       \* the descriptors the process may have for it
          NoOne,     \* no client
          NoFd       \* -1

ASSUME AcceptorAssumption ==
  /\ NoFd \notin Fds
  /\ NoOne \notin Clients

VARIABLES
  at,        \* where the proxy thread is
  port,      \* who has the port: "no one", "another" process, "this" one
  listenfd,  \* the listener's descriptor
  backlog,   \* clients the kernel has connected, not yet accepted
  serving,   \* the client accept_cb is setting up
  live,      \* per client: which of its two structs are allocated
  fd,        \* per client: server->fd and remote->fd
  open,      \* the descriptors that are open
  failures   \* history: how many descriptors a failure has cost

connections == <<live, fd>>
vars == <<at, port, listenfd, backlog, serving, connections, open, failures>>

Endpoints == {"server", "remote"}

TypeOK ==
  /\ at \in {"start", "sleep", "bound", "loop", "accept", "resolve", "socket"}
  /\ port \in {"no one", "another", "this"}
  /\ listenfd \in Fds \cup {NoFd}
  /\ backlog \in Seq(Clients) /\ serving \in Clients \cup {NoOne}
  /\ live \in [Clients -> SUBSET Endpoints]
  /\ fd \in [Clients -> [Endpoints -> Fds \cup {NoFd}]]
  /\ open \subseteq Fds
  /\ failures \in Nat

Init ==
  /\ at = "start" /\ port \in {"no one", "another"} /\ listenfd = NoFd
  /\ backlog = <<>> /\ serving = NoOne
  /\ live = [c \in Clients |-> {}]
  /\ fd = [c \in Clients |-> [e \in Endpoints |-> NoFd]]
  /\ open = {} /\ failures = 0

-----------------------------------------------------------------------------
(* local_main.                                                             *)

CreateAndBind ==
  /\ at = "start" /\ port = "no one"
  /\ \E n \in Fds \ open : open' = open \cup {n} /\ listenfd' = n
  /\ port' = "this" /\ at' = "bound"
  /\ UNCHANGED <<backlog, serving, connections, failures>>

(* A bug: the socket that could not be bound is left open. *)
BindFailsOpen ==
  /\ at = "start" /\ (port # "no one" \/ open = Fds)
  /\ open' \in {open \cup {n} : n \in Fds}
  /\ at' = "sleep"
  /\ UNCHANGED <<port, listenfd, backlog, serving, connections, failures>>

(* The port is taken or there is no descriptor; local_main returns with    *)
(* what it opened closed.                                                  *)
BindFails ==
  /\ at = "start" /\ (port # "no one" \/ open = Fds)
  /\ at' = "sleep"
  /\ UNCHANGED <<port, listenfd, backlog, serving, connections, open, failures>>

(* runProxy calls local_main again after a second. *)
Retry ==
  /\ at = "sleep"
  /\ at' = "start"
  /\ UNCHANGED <<port, listenfd, backlog, serving, connections, open, failures>>

Listen ==
  /\ at = "bound"
  /\ at' = "loop"
  /\ UNCHANGED <<port, listenfd, backlog, serving, connections, open, failures>>

(* listen fails: local_main returns and keeps the descriptor, and with it  *)
(* the port, from the next call.                                           *)
ListenFails ==
  /\ at = "bound"
  /\ at' = "sleep" /\ listenfd' = NoFd
  /\ failures' = failures + 1
  /\ UNCHANGED <<port, backlog, serving, connections, open>>

(* Another process takes the port before this one does, or lets it go. *)
OtherPort ==
  /\ port # "this"
  /\ port' \in {"no one", "another"} \ {port}
  /\ UNCHANGED <<at, listenfd, backlog, serving, connections, open, failures>>

-----------------------------------------------------------------------------
(* accept_cb, one step per system call that can fail.                      *)

InBacklog == {backlog[i] : i \in DOMAIN backlog}

Connects(c) ==
  /\ at \notin {"start", "sleep", "bound"}
  /\ c \notin InBacklog /\ c # serving /\ live[c] = {}
  /\ backlog' = Append(backlog, c)
  /\ UNCHANGED <<at, port, listenfd, serving, connections, open, failures>>

AcceptCb ==
  /\ at = "loop" /\ backlog # <<>>
  /\ at' = "accept"
  /\ UNCHANGED <<port, listenfd, backlog, serving, connections, open, failures>>

(* accept and new_server. *)
Accept ==
  /\ at = "accept" /\ backlog # <<>>
  /\ \E n \in Fds \ open :
       /\ open' = open \cup {n}
       /\ fd' = [fd EXCEPT ![Head(backlog)]["server"] = n]
  /\ live' = [live EXCEPT ![Head(backlog)] = {"server"}]
  /\ backlog' = Tail(backlog) /\ serving' = Head(backlog)
  /\ at' = "resolve"
  /\ UNCHANGED <<port, listenfd, failures>>

(* A bug: accept is tried until it works. *)
AcceptUntilRoom ==
  /\ at = "accept" /\ backlog = <<>>
  /\ at' = "loop"
  /\ UNCHANGED <<port, listenfd, backlog, serving, connections, open, failures>>

(* accept has nobody to return, EAGAIN, or no number for it, EMFILE. *)
AcceptFails ==
  /\ at = "accept" /\ (backlog = <<>> \/ open = Fds)
  /\ at' = "loop"
  /\ UNCHANGED <<port, listenfd, backlog, serving, connections, open, failures>>

Getaddrinfo ==
  /\ at = "resolve"
  /\ at' = "socket"
  /\ UNCHANGED <<port, listenfd, backlog, serving, connections, open, failures>>

(* A bug: the loop is left before the server is freed. *)
GiveUpAndBreak ==
  /\ serving' = NoOne /\ at' = "loop"
  /\ UNCHANGED <<port, listenfd, backlog, connections, open, failures>>

(* free_server, and on to the next client.  The descriptor from accept     *)
(* stays open, and nobody knows its number any more.                       *)
GiveUp ==
  /\ live' = [live EXCEPT ![serving] = {}]
  /\ fd' = [fd EXCEPT ![serving]["server"] = NoFd]
  /\ serving' = NoOne /\ at' = "accept"
  /\ failures' = failures + 1
  /\ UNCHANGED <<port, listenfd, backlog, open>>

GetaddrinfoFails == at = "resolve" /\ GiveUp
SocketFails      == at = "socket" /\ open = Fds /\ GiveUp

(* socket, new_remote, connect and the remote's write watcher started; the *)
(* loop is left, one client per call.                                      *)
Socket ==
  /\ at = "socket"
  /\ \E n \in Fds \ open :
       /\ open' = open \cup {n}
       /\ fd' = [fd EXCEPT ![serving]["remote"] = n]
  /\ live' = [live EXCEPT ![serving] = Endpoints]
  /\ serving' = NoOne /\ at' = "loop"
  /\ UNCHANGED <<port, listenfd, backlog, failures>>

-----------------------------------------------------------------------------
(* The end of a connection, seen from here: see HangUp and Close of Relay. *)

Numbers(c, E) == {fd[c][e] : e \in E}

(* A bug: what is freed is not closed. *)
FreeEnds(c, E) ==
  /\ live' = [live EXCEPT ![c] = @ \ E]
  /\ fd' = [fd EXCEPT ![c] = [e \in Endpoints |-> IF e \in E THEN NoFd ELSE @[e]]]
  /\ UNCHANGED <<open, at, port, listenfd, backlog, serving, failures>>

(* A bug: the number of an end that was closed before is closed again. *)
CloseAgain(c, E) ==
  /\ live' = [live EXCEPT ![c] = @ \ E]
  /\ open' = open \ Numbers(c, Endpoints)
  /\ UNCHANGED <<fd, at, port, listenfd, backlog, serving, failures>>

(* close_and_free_server and close_and_free_remote. *)
CloseEnds(c, E) ==
  /\ live' = [live EXCEPT ![c] = @ \ E]
  /\ fd' = [fd EXCEPT ![c] = [e \in Endpoints |-> IF e \in E THEN NoFd ELSE @[e]]]
  /\ open' = open \ Numbers(c, E)
  /\ UNCHANGED <<at, port, listenfd, backlog, serving, failures>>

Ends(c) ==
  /\ at = "loop"
  /\ \E E \in SUBSET live[c] : E # {} /\ CloseEnds(c, E)

AcceptNext ==
  \/ AcceptCb \/ Accept \/ AcceptFails \/ Socket
  \/ Getaddrinfo \/ GetaddrinfoFails \/ SocketFails

LocalMain == CreateAndBind \/ BindFails \/ Retry \/ Listen \/ ListenFails

Next ==
  \/ LocalMain \/ OtherPort \/ AcceptNext
  \/ \E c \in Clients : Connects(c) \/ Ends(c)

(* The proxy thread runs and getaddrinfo returns.  Connections come to an  *)
(* end, an assumption on those who use them; that the end gets its turn    *)
(* among other callbacks is what EventLoop's Served says.                  *)
Fairness ==
  /\ WF_vars(AcceptNext) /\ WF_vars(LocalMain)
  /\ \A c \in Clients : SF_vars(Ends(c))

Spec == Init /\ [][Next]_vars
FairSpec == Spec /\ Fairness

-----------------------------------------------------------------------------
(* The descriptors that some part of the program still knows. *)
Held ==
  ({listenfd} \ {NoFd}) \cup UNION {Numbers(c, live[c]) : c \in Clients}

Lost == open \ Held

(* No number is known to two structs, or to one of them and the listener,  *)
(* and every number that is known is open: nothing reads from, writes to   *)
(* or closes another connection's socket, however numbers are reused.      *)
OwnDescriptors ==
  /\ Held \subseteq open
  /\ \A c, d \in Clients : \A e \in live[c], f \in live[d] :
       fd[c][e] = fd[d][f] => c = d /\ e = f
  /\ \A c \in Clients : listenfd \notin Numbers(c, live[c])

(* Failed set-ups, and only they, cost a descriptor each: connections that *)
(* end, in whatever order their two ends go, cost none.                    *)
Accounted == Cardinality(Lost) <= failures

(* Each connection begins with both its structs or not at all: what module *)
(* Relay takes for one step.  While accept_cb is at work nobody else can   *)
(* look, so what it is making does not count yet.                          *)
Lives == INSTANCE Lifetimes
           WITH live <- [c \in Clients |-> IF serving = c THEN {} ELSE live[c]]

AllOrNothing == Lives!Spec

(* Everyone in the backlog is taken from it, through any failures and any  *)
(* lack of descriptors, until failures have cost them all.                 *)
EveryoneTaken ==
  \A c \in Clients : c \in InBacklog ~>
    (c \notin InBacklog \/ Lost \cup {listenfd} = Fds)

(* Unless listen itself fails, the retries end in a listening proxy once   *)
(* the other process leaves the port for good.                             *)
ListensAtLast ==
  <>[](port # "another") /\ [](failures = 0) => <>(at = "loop")
=============================================================================
