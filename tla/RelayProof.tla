----------------------------- MODULE RelayProof -----------------------------
(***************************************************************************)
(* Proofs about Relay: its types, the safety of its pointers, watchers and *)
(* buffers, the integrity of both byte streams, and that each direction    *)
(* implements Pipe -- for every length, buffer size and bound.             *)
(***************************************************************************)
EXTENDS Relay, TLAPS

S == "server" \in live
R == "remote" \in live

(* The shape of a connection: which structs are there fixes the pointers   *)
(* and which watchers may be started.                                      *)
ConnInv ==
  /\ "server" \in ptr <=> S /\ R
  /\ "remote" \in ptr <=> S /\ R
  /\ "server_recv" \in active \/ "server_send" \in active => S
  /\ "remote_recv" \in active \/ "remote_send" \in active => R
  /\ S \/ R => link # "none"
  /\ S /\ R <=> ended = "no" /\ link # "none"
  /\ connected = 0 => stage = 0 /\ (S <=> R)
  /\ link = "none" => connected = 0 /\ ended = "no"
  /\ stage # 5 => remoteLen = 0
  /\ S /\ ~R => "server_send" \in active /\ serverLen = 0
  /\ R /\ ~S => "remote_send" \in active /\ remoteLen = 0

(* While both structs are there, the stage fixes the watchers. *)
FlowInv ==
  S /\ R =>
    /\ connected = 0 <=> ("server_recv" \notin active /\ stage = 0)
    /\ stage # 5 => /\ "remote_recv" \notin active /\ "server_send" \notin active
                    /\ "remote_send" \in active <=> connected = 0
                    /\ connected = 1 => "server_recv" \in active
    /\ stage = 5 => /\ "server_recv" \in active <=> "remote_send" \notin active
                    /\ "remote_recv" \in active <=> "server_send" \notin active
    /\ connected = 1 /\ "remote_send" \in active => remoteLen > 0
    /\ "server_send" \in active => serverLen > 0

ShapeInv == TypeOK /\ ConnInv /\ FlowInv

-----------------------------------------------------------------------------
(* Tearing down. *)

LEMMA WatcherSets ==
  /\ WatchersOf({"server"}) = {"server_recv", "server_send"}
  /\ WatchersOf({"remote"}) = {"remote_recv", "remote_send"}
  /\ WatchersOf(Endpoints) = Watchers
BY DEF WatchersOf, Watchers, Endpoints

LEMMA BothEnds ==
  /\ "server" \in ptr => Both("server") = Endpoints
  /\ "remote" \in ptr => Both("remote") = Endpoints
  /\ "server" \notin ptr => Both("server") = {"server"}
  /\ "remote" \notin ptr => Both("remote") = {"remote"}
BY DEF Both, Endpoints, Peer

(* Closing both ends leaves nothing. *)
LEMMA CloseAll ==
  ASSUME TypeOK, NEW why, Close(Endpoints, why)
  PROVE  /\ live' = {} /\ ptr' = {} /\ active' = {}
         /\ connected' = connected /\ stage' = stage
         /\ ended' = IF ended = "no" THEN why ELSE ended
BY WatcherSets DEF TypeOK, Close, Free, Endpoints

(* Closing the only end that is left leaves nothing. *)
LEMMA CloseServer ==
  ASSUME ShapeInv, ~R, NEW why, Close({"server"}, why)
  PROVE  /\ live' = {} /\ ptr' = {} /\ active' = {}
         /\ connected' = connected /\ stage' = stage
         /\ ended' = IF ended = "no" THEN why ELSE ended
<1>1. live \subseteq {"server"} /\ ptr = {}
  BY DEF ShapeInv, TypeOK, ConnInv, S, R, Endpoints
<1>2. active \subseteq {"server_recv", "server_send"}
  BY DEF ShapeInv, TypeOK, ConnInv, R, Watchers
<1>3. QED
  BY <1>1, <1>2, WatcherSets DEF Close, Free

LEMMA CloseRemote ==
  ASSUME ShapeInv, ~S, NEW why, Close({"remote"}, why)
  PROVE  /\ live' = {} /\ ptr' = {} /\ active' = {}
         /\ connected' = connected /\ stage' = stage
         /\ ended' = IF ended = "no" THEN why ELSE ended
<1>1. live \subseteq {"remote"} /\ ptr = {}
  BY DEF ShapeInv, TypeOK, ConnInv, S, R, Endpoints
<1>2. active \subseteq {"remote_recv", "remote_send"}
  BY DEF ShapeInv, TypeOK, ConnInv, S, Watchers
<1>3. QED
  BY <1>1, <1>2, WatcherSets DEF Close, Free

(* So every callback that closes the ends it knows of leaves nothing. *)
LEMMA CloseBothServer ==
  ASSUME ShapeInv, S, NEW why, Close(Both("server"), why)
  PROVE  /\ live' = {} /\ ptr' = {} /\ active' = {}
         /\ connected' = connected /\ stage' = stage
         /\ ended' = IF ended = "no" THEN why ELSE ended
<1>1. CASE "server" \in ptr
  BY <1>1, BothEnds, CloseAll DEF ShapeInv
<1>2. CASE "server" \notin ptr
  BY <1>2, BothEnds, CloseServer DEF ShapeInv, ConnInv
<1>3. QED
  BY <1>1, <1>2

LEMMA CloseBothRemote ==
  ASSUME ShapeInv, R, NEW why, Close(Both("remote"), why)
  PROVE  /\ live' = {} /\ ptr' = {} /\ active' = {}
         /\ connected' = connected /\ stage' = stage
         /\ ended' = IF ended = "no" THEN why ELSE ended
<1>1. CASE "remote" \in ptr
  BY <1>1, BothEnds, CloseAll DEF ShapeInv
<1>2. CASE "remote" \notin ptr
  BY <1>2, BothEnds, CloseRemote DEF ShapeInv, ConnInv
<1>3. QED
  BY <1>1, <1>2
-----------------------------------------------------------------------------
(* Types. *)

LEMMA CloseTypes ==
  ASSUME TypeOK, NEW E, NEW why \in {"abort", "crash"}, Close(E, why)
  PROVE  /\ live' \subseteq Endpoints /\ ptr' \subseteq Endpoints
         /\ active' \subseteq Watchers
         /\ connected' \in {0, 1} /\ stage' \in {0, 1, 5}
         /\ ended' \in {"no", "client_eof", "remote_eof", "abort", "crash"}
BY DEF TypeOK, Close, Free

LEMMA HangUpTypes ==
  ASSUME TypeOK, NEW e, NEW w \in Watchers,
         NEW why \in {"client_eof", "remote_eof"}, HangUp(e, w, why)
  PROVE  /\ live' \subseteq Endpoints /\ ptr' \subseteq Endpoints
         /\ active' \subseteq Watchers
         /\ ended' \in {"no", "client_eof", "remote_eof", "abort", "crash"}
BY DEF TypeOK, HangUp, Free

LEMMA SwitchTypes ==
  ASSUME TypeOK, NEW w1, NEW w2 \in Watchers, Switch(w1, w2)
  PROVE  active' \subseteq Watchers
BY DEF TypeOK, Switch

LEMMA TypeStep ==
  ASSUME TypeOK, [Next]_vars
  PROVE  TypeOK'
<1> USE RelayAssumption
<1> USE DEF conn, upBuf, downBuf, peers, seen
<1>1. CASE Peers
  <2>1. CASE ClientSend
    BY <2>1 DEF TypeOK, ClientSend
  <2>2. CASE FarSend
    BY <2>2 DEF TypeOK, FarSend
  <2>3. CASE ClientClose
    BY <2>3 DEF TypeOK, ClientClose
  <2>4. CASE ClientReset
    BY <2>4 DEF TypeOK, ClientReset
  <2>5. CASE FarClose
    BY <2>5 DEF TypeOK, FarClose
  <2>6. CASE FarReset
    BY <2>6 DEF TypeOK, FarReset
  <2>7. CASE ConnectDone
    BY <2>7 DEF TypeOK, ConnectDone
  <2>8. QED
    BY <1>1, <2>1, <2>2, <2>3, <2>4, <2>5, <2>6, <2>7 DEF Peers
<1>2. CASE Accept
  BY <1>2 DEF TypeOK, Accept, Endpoints, Watchers
<1>3. CASE ServerRecv
  <2>1. CASE ServerRecvOrphan
    BY <2>1, CloseTypes DEF TypeOK, ServerRecvOrphan
  <2>2. CASE ServerRecvEof
    BY <2>2, HangUpTypes DEF TypeOK, ServerRecvEof, Watchers
  <2>3. CASE ServerRecvError
    BY <2>3, CloseTypes DEF TypeOK, ServerRecvError
  <2>4. CASE ServerRecvGreeting
    BY <2>4 DEF TypeOK, ServerRecvGreeting
  <2>5. CASE ServerRecvRefused
    BY <2>5, CloseTypes DEF TypeOK, ServerRecvRefused, TakeRequest
  <2>6. CASE ServerRecvRequest
    BY <2>6 DEF TypeOK, ServerRecvRequest, TakeRequest, Watchers
  <2>7. CASE ServerRecvData
    <3>1. PICK r \in 1..BufSize, w \in 0..BufSize :
            /\ cRead + r <= cSent
            /\ Accepts(farEnd, r, w)
            /\ cRead' = cRead + r
            /\ ToFar(cRead, w)
            /\ IF w = r
                 THEN /\ remoteBuf' = cRead
                      /\ UNCHANGED <<remoteLen, active>>
                 ELSE /\ remoteBuf' = Moved(cRead, w)
                      /\ remoteLen' = Rest(r, w)
                      /\ Switch("server_recv", "remote_send")
      BY <2>7 DEF ServerRecvData
    <3>2. active' \subseteq Watchers
      BY <3>1, SwitchTypes DEF TypeOK, Watchers
    <3>3. QED
      BY <2>7, <3>1, <3>2 DEF TypeOK, ServerRecvData, Accepts, ToFar, Moved, Rest
  <2>8. CASE ServerRecvSendError
    BY <2>8, CloseTypes DEF TypeOK, ServerRecvSendError
  <2>9. QED
    BY <1>3, <2>1, <2>2, <2>3, <2>4, <2>5, <2>6, <2>7, <2>8 DEF ServerRecv
<1>4. CASE ServerSend
  <2>1. CASE ServerSendClose
    BY <2>1, CloseTypes DEF TypeOK, ServerSendClose
  <2>2. CASE ServerSendSome
    <3>1. PICK w \in 1..BufSize :
            /\ Accepts(clientEnd, serverLen, w)
            /\ ToClient(serverBuf, w)
            /\ IF w < serverLen
                 THEN /\ serverBuf' = Moved(serverBuf, w)
                      /\ serverLen' = Rest(serverLen, w)
                      /\ UNCHANGED <<conn, ended>>
                 ELSE /\ serverLen' = 0
                      /\ UNCHANGED serverBuf
                      /\ IF "server" \in ptr
                           THEN /\ Switch("server_send", "remote_recv")
                                /\ UNCHANGED <<live, ptr, connected, stage, ended>>
                           ELSE Close(Both("server"), "abort")
      BY <2>2 DEF ServerSendSome
    <3>2. /\ live' \subseteq Endpoints /\ ptr' \subseteq Endpoints
          /\ active' \subseteq Watchers
          /\ connected' \in {0, 1} /\ stage' \in {0, 1, 5}
          /\ ended' \in {"no", "client_eof", "remote_eof", "abort", "crash"}
      BY <3>1, CloseTypes, SwitchTypes DEF TypeOK, Watchers
    <3>3. QED
      BY <2>2, <3>1, <3>2 DEF TypeOK, ServerSendSome, Accepts, ToClient, Moved, Rest
  <2>3. CASE ServerSendError
    BY <2>3, CloseTypes DEF TypeOK, ServerSendError
  <2>4. QED
    BY <1>4, <2>1, <2>2, <2>3 DEF ServerSend
<1>5. CASE RemoteRecv
  <2>1. CASE RemoteRecvOrphan
    BY <2>1, CloseTypes DEF TypeOK, RemoteRecvOrphan
  <2>2. CASE RemoteRecvEof
    BY <2>2, HangUpTypes DEF TypeOK, RemoteRecvEof, Watchers
  <2>3. CASE RemoteRecvError
    BY <2>3, CloseTypes DEF TypeOK, RemoteRecvError
  <2>4. CASE RemoteRecvData
    <3>1. PICK r \in 1..BufSize, n \in 0..BufSize, w \in 0..BufSize,
               pos \in 0..MaxDown :
            /\ TakeCipher(r, pos, n)
            /\ Accepts(clientEnd, n, w)
            /\ decoder' = IF decoder = "empty" THEN "ready" ELSE decoder
            /\ ToClient(pos, w)
            /\ IF w = n
                 THEN /\ serverBuf' = pos
                      /\ UNCHANGED <<serverLen, active>>
                 ELSE /\ serverBuf' = Moved(pos, w)
                      /\ serverLen' = Rest(n, w)
                      /\ Switch("remote_recv", "server_send")
      BY <2>4 DEF RemoteRecvData
    <3>2. active' \subseteq Watchers
      BY <3>1, SwitchTypes DEF TypeOK, Watchers
    <3>3. fRead' \in 0..fSent
      BY <3>1 DEF TypeOK, TakeCipher
    <3>4. QED
      BY <2>4, <3>1, <3>2, <3>3 DEF TypeOK, RemoteRecvData, Accepts, ToClient,
                                    Moved, Rest
  <2>5. CASE RemoteRecvShortIV
    <3>1. fRead' \in 0..fSent
      BY <2>5 DEF TypeOK, RemoteRecvShortIV
    <3>2. /\ live' \subseteq Endpoints /\ ptr' \subseteq Endpoints
          /\ active' \subseteq Watchers
          /\ connected' \in {0, 1} /\ stage' \in {0, 1, 5}
          /\ ended' \in {"no", "client_eof", "remote_eof", "abort", "crash"}
      BY <2>5, CloseTypes DEF TypeOK, RemoteRecvShortIV
    <3>3. serverBuf' \in Nat /\ decoder' \in {"empty", "ready", "garbled"}
      BY <2>5 DEF TypeOK, RemoteRecvShortIV
    <3>4. UNCHANGED serverLen /\ (intact' = intact)
      BY <2>5 DEF RemoteRecvShortIV
    <3>5. QED
      BY <2>5, <3>1, <3>2, <3>3, <3>4 DEF TypeOK, RemoteRecvShortIV
  <2>6. CASE RemoteRecvSendError
    BY <2>6, CloseTypes DEF TypeOK, RemoteRecvSendError
  <2>7. QED
    BY <1>5, <2>1, <2>2, <2>3, <2>4, <2>5, <2>6 DEF RemoteRecv
<1>6. CASE RemoteSend
  <2>1. CASE RemoteSendConnected
    BY <2>1, SwitchTypes DEF TypeOK, RemoteSendConnected, Watchers
  <2>2. CASE RemoteSendRefused
    BY <2>2, CloseTypes DEF TypeOK, RemoteSendRefused
  <2>3. CASE RemoteSendClose
    BY <2>3, CloseTypes DEF TypeOK, RemoteSendClose
  <2>4. CASE RemoteSendSome
    <3>1. PICK w \in 1..BufSize :
            /\ Accepts(farEnd, remoteLen, w)
            /\ ToFar(remoteBuf, w)
            /\ IF w < remoteLen
                 THEN /\ remoteBuf' = Moved(remoteBuf, w)
                      /\ remoteLen' = Rest(remoteLen, w)
                      /\ UNCHANGED <<conn, ended>>
                 ELSE /\ UNCHANGED upBuf
                      /\ IF "remote" \in ptr
                           THEN /\ Switch("remote_send", "server_recv")
                                /\ UNCHANGED <<live, ptr, connected, stage, ended>>
                           ELSE Close(Both("remote"), "abort")
      BY <2>4 DEF RemoteSendSome
    <3>2. /\ live' \subseteq Endpoints /\ ptr' \subseteq Endpoints
          /\ active' \subseteq Watchers
          /\ connected' \in {0, 1} /\ stage' \in {0, 1, 5}
          /\ ended' \in {"no", "client_eof", "remote_eof", "abort", "crash"}
      BY <3>1, CloseTypes, SwitchTypes DEF TypeOK, Watchers
    <3>3. QED
      BY <2>4, <3>1, <3>2 DEF TypeOK, RemoteSendSome, Accepts, ToFar, Moved, Rest
  <2>5. CASE RemoteSendError
    BY <2>5, CloseTypes DEF TypeOK, RemoteSendError
  <2>6. QED
    BY <1>6, <2>1, <2>2, <2>3, <2>4, <2>5 DEF RemoteSend
<1>7. CASE Over
  BY <1>7 DEF TypeOK, Over, vars
<1>8. CASE UNCHANGED vars
  BY <1>8 DEF TypeOK, vars
<1>9. QED
  BY <1>1, <1>2, <1>3, <1>4, <1>5, <1>6, <1>7, <1>8 DEF Next

LEMMA TypeInit == ASSUME Init PROVE TypeOK
BY RelayAssumption DEF Init, TypeOK, Handshake

(* Types are preserved, for every length, buffer size and bound. *)
THEOREM TypeCorrect == Spec => []TypeOK
BY TypeInit, TypeStep, PTL DEF Spec

-----------------------------------------------------------------------------
(* The shape of the connection. *)

LEMMA ShapeInit == ASSUME Init PROVE ConnInv /\ FlowInv
BY DEF Init, ConnInv, FlowInv, S, R

(* A connection that is over keeps its shape. *)
LEMMA ShapeGone ==
  ASSUME ShapeInv, link # "none", link' = link, remoteLen' = remoteLen,
         live' = {}, ptr' = {}, active' = {},
         connected' = connected, stage' = stage,
         ended' = "client_eof" \/ ended' = "remote_eof"
           \/ ended' = "abort" \/ ended' = "crash"
  PROVE  ConnInv' /\ FlowInv'
BY DEF ShapeInv, ConnInv, FlowInv, S, R

(* What a started watcher or a linked peer says of the structs. *)
LEMMA Started ==
  ASSUME ShapeInv
  PROVE  /\ "server_recv" \in active \/ "server_send" \in active => S /\ link # "none"
         /\ "remote_recv" \in active \/ "remote_send" \in active => R /\ link # "none"
         /\ "server" \in ptr \/ "remote" \in ptr => S /\ R /\ ended = "no"
BY DEF ShapeInv, ConnInv

LEMMA Aborted ==
  ASSUME ShapeInv, link' = link, link # "none", remoteLen' = remoteLen,
         \/ S /\ Close(Both("server"), "abort")
         \/ R /\ Close(Both("remote"), "abort")
         \/ Close(Endpoints, "crash")
  PROVE  ConnInv' /\ FlowInv'
<1>1. /\ live' = {} /\ ptr' = {} /\ active' = {}
      /\ connected' = connected /\ stage' = stage
      /\ \/ ended' = IF ended = "no" THEN "abort" ELSE ended
         \/ ended' = IF ended = "no" THEN "crash" ELSE ended
  BY CloseBothServer, CloseBothRemote, CloseAll DEF ShapeInv
<1>2. \/ ended' = "client_eof" \/ ended' = "remote_eof"
      \/ ended' = "abort" \/ ended' = "crash"
  BY <1>1 DEF ShapeInv, TypeOK
<1>3. QED
  BY <1>1, <1>2, ShapeGone

(* The end of file at one end leaves the other with its order to close. *)
LEMMA HungUpServer ==
  ASSUME TypeOK, "server" \in ptr, "remote" \in ptr, S, R, 
         HangUp("server", "remote_send", "client_eof")
  PROVE  /\ live' = {"remote"} /\ ptr' = {}
         /\ active' = (active \cap {"remote_recv"}) \cup {"remote_send"}
         /\ ended' = "client_eof"
BY WatcherSets DEF TypeOK, S, R, HangUp, Free, Peer, Endpoints, Watchers

LEMMA HungUpRemote ==
  ASSUME TypeOK, "server" \in ptr, "remote" \in ptr, S, R, 
         HangUp("remote", "server_send", "remote_eof")
  PROVE  /\ live' = {"server"} /\ ptr' = {}
         /\ active' = (active \cap {"server_recv"}) \cup {"server_send"}
         /\ ended' = "remote_eof"
BY WatcherSets DEF TypeOK, S, R, HangUp, Free, Peer, Endpoints, Watchers

LEMMA ShapeStep ==
  ASSUME ShapeInv, [Next]_vars
  PROVE  ConnInv' /\ FlowInv'
<1> USE DEF conn, upBuf, downBuf, peers, seen
<1>0. TypeOK /\ ConnInv /\ FlowInv
  BY DEF ShapeInv
<1>1. CASE Peers
  <2>1. CASE ConnectDone
    BY <1>0, <2>1 DEF TypeOK, ConnInv, FlowInv, S, R, ConnectDone
  <2>2. CASE ClientSend \/ ClientClose \/ ClientReset
             \/ FarSend \/ FarClose \/ FarReset
    <3>1. UNCHANGED <<live, ptr, active, connected, stage, remoteLen, serverLen,
                      link, ended>>
      BY <2>2 DEF ClientSend, ClientClose, ClientReset, FarSend, FarClose, FarReset
    <3>2. QED
      BY <1>0, <3>1 DEF ConnInv, FlowInv, S, R
  <2>3. QED
    BY <1>1, <2>1, <2>2 DEF Peers
<1>2. CASE Accept
  BY <1>0, <1>2 DEF TypeOK, ConnInv, FlowInv, S, R, Accept
<1>3. CASE ServerRecv
  <2>1. CASE ServerRecvOrphan
    <3>1. Close(Both("server"), "abort") /\ UNCHANGED <<link, remoteLen>>
      BY <2>1, BothEnds DEF ServerRecvOrphan
    <3>2. QED
      BY <2>1, <3>1, Started, Aborted DEF ServerRecvOrphan
  <2>2. CASE ServerRecvEof
    <3>1. S /\ R /\ "remote" \in ptr /\ link # "none"
      BY <1>0, <2>2 DEF ConnInv, ServerRecvEof
    <3>2. /\ live' = {"remote"} /\ ptr' = {}
          /\ active' = (active \cap {"remote_recv"}) \cup {"remote_send"}
          /\ ended' = "client_eof" /\ link' = link
          /\ connected' = connected /\ stage' = stage
      BY <1>0, <2>2, <3>1, HungUpServer DEF ServerRecvEof
    <3>3. connected = 1 /\ remoteLen' = 0
      BY <1>0, <2>2, <3>1 DEF TypeOK, ConnInv, FlowInv, ServerRecvEof
    <3>4. QED
      BY <3>1, <3>2, <3>3 DEF ConnInv, FlowInv, S, R
  <2>3. CASE ServerRecvError
    BY <2>3, Started, Aborted DEF ServerRecvError
  <2>4. CASE ServerRecvGreeting
    BY <1>0, <2>4 DEF TypeOK, ConnInv, FlowInv, S, R, ServerRecvGreeting
  <2>5. CASE ServerRecvRefused
    BY <2>5, Started, Aborted DEF ServerRecvRefused, TakeRequest
  <2>6. CASE ServerRecvRequest
    BY <1>0, <2>6 DEF TypeOK, ConnInv, FlowInv, S, R, ServerRecvRequest, TakeRequest
  <2>7. CASE ServerRecvData
    <3>1. /\ UNCHANGED <<live, ptr, connected, stage, link, ended, serverLen>>
          /\ \/ UNCHANGED <<active, remoteLen>>
             \/ /\ active' = (active \ {"server_recv"}) \cup {"remote_send"}
                /\ remoteLen' > 0
      BY <2>7 DEF ServerRecvData, Switch, Rest, Accepts
    <3>2. S /\ R /\ connected = 1 /\ stage = 5 /\ "remote_send" \notin active
      BY <1>0, <2>7 DEF TypeOK, ConnInv, FlowInv, ServerRecvData
    <3>3. QED
      BY <1>0, <3>1, <3>2, <2>7 DEF ConnInv, FlowInv, S, R, ServerRecvData
  <2>8. CASE ServerRecvSendError
    BY <2>8, Started, Aborted DEF ServerRecvSendError
  <2>9. QED
    BY <1>3, <2>1, <2>2, <2>3, <2>4, <2>5, <2>6, <2>7, <2>8 DEF ServerRecv
<1>4. CASE ServerSend
  <2>1. CASE ServerSendClose
    BY <2>1, Started, Aborted DEF ServerSendClose
  <2>2. CASE ServerSendSome
    <3>1. "server" \in ptr /\ S /\ R /\ stage = 5 /\ connected = 1
      BY <1>0, <2>2 DEF TypeOK, ConnInv, FlowInv, ServerSendSome
    <3>2. /\ UNCHANGED <<live, ptr, connected, stage, link, ended, remoteLen>>
          /\ \/ UNCHANGED active /\ serverLen' > 0
             \/ /\ active' = (active \ {"server_send"}) \cup {"remote_recv"}
      BY <1>0, <2>2, <3>1 DEF TypeOK, ServerSendSome, Switch, Rest, Accepts
    <3>3. QED
      BY <1>0, <2>2, <3>1, <3>2 DEF ConnInv, FlowInv, S, R, ServerSendSome
  <2>3. CASE ServerSendError
    BY <2>3, Started, Aborted DEF ServerSendError
  <2>4. QED
    BY <1>4, <2>1, <2>2, <2>3 DEF ServerSend
<1>5. CASE RemoteRecv
  <2>1. CASE RemoteRecvOrphan
    <3>1. Close(Both("remote"), "abort") /\ UNCHANGED <<link, remoteLen>>
      BY <2>1, BothEnds DEF RemoteRecvOrphan
    <3>2. QED
      BY <2>1, <3>1, Started, Aborted DEF RemoteRecvOrphan
  <2>2. CASE RemoteRecvEof
    <3>1. S /\ R /\ "server" \in ptr /\ link # "none"
      BY <1>0, <2>2 DEF ConnInv, RemoteRecvEof
    <3>2. /\ live' = {"server"} /\ ptr' = {}
          /\ active' = (active \cap {"server_recv"}) \cup {"server_send"}
          /\ ended' = "remote_eof" /\ link' = link
          /\ connected' = connected /\ stage' = stage
      BY <1>0, <2>2, <3>1, HungUpRemote DEF RemoteRecvEof
    <3>3. connected = 1 /\ serverLen' = 0
      BY <1>0, <2>2, <3>1 DEF TypeOK, ConnInv, FlowInv, RemoteRecvEof
    <3>4. QED
      BY <1>0, <2>2, <3>1, <3>2, <3>3 DEF RemoteRecvEof, ConnInv, FlowInv, S, R
  <2>3. CASE RemoteRecvError
    BY <2>3, Started, Aborted DEF RemoteRecvError
  <2>4. CASE RemoteRecvData
    <3>1. /\ UNCHANGED <<live, ptr, connected, stage, link, ended, remoteLen>>
          /\ \/ UNCHANGED <<active, serverLen>>
             \/ /\ active' = (active \ {"remote_recv"}) \cup {"server_send"}
                /\ serverLen' > 0
      BY <2>4 DEF RemoteRecvData, Switch, Rest, Accepts
    <3>2. /\ "remote_recv" \in active /\ S /\ R /\ connected = 1 /\ stage = 5
          /\ "server_send" \notin active
      BY <1>0, <2>4 DEF TypeOK, ConnInv, FlowInv, RemoteRecvData, TakeCipher
    <3>3. QED
      BY <1>0, <3>1, <3>2 DEF ConnInv, FlowInv, S, R
  <2>5. CASE RemoteRecvShortIV
    <3>1. CASE Library = "sodium"
      <4>1. Close(Endpoints, "crash") /\ UNCHANGED <<link, remoteLen>>
        BY <2>5, <3>1 DEF RemoteRecvShortIV
      <4>2. QED
        BY <2>5, <4>1, Started, Aborted DEF RemoteRecvShortIV
    <3>2. CASE Library # "sodium"
      BY <1>0, <2>5, <3>2 DEF ConnInv, FlowInv, S, R, RemoteRecvShortIV
    <3>3. QED
      BY <3>1, <3>2
  <2>6. CASE RemoteRecvSendError
    BY <2>6, Started, Aborted DEF RemoteRecvSendError
  <2>7. QED
    BY <1>5, <2>1, <2>2, <2>3, <2>4, <2>5, <2>6 DEF RemoteRecv
<1>6. CASE RemoteSend
  <2>1. CASE RemoteSendConnected
    BY <1>0, <2>1 DEF TypeOK, ConnInv, FlowInv, S, R, RemoteSendConnected, Switch
  <2>2. CASE RemoteSendRefused
    BY <2>2, Started, Aborted DEF RemoteSendRefused
  <2>3. CASE RemoteSendClose
    BY <2>3, Started, Aborted DEF RemoteSendClose
  <2>4. CASE RemoteSendSome
    <3>1. "remote" \in ptr /\ S /\ R /\ stage = 5
      BY <1>0, <2>4 DEF TypeOK, ConnInv, FlowInv, RemoteSendSome
    <3>2. /\ UNCHANGED <<live, ptr, connected, stage, link, ended, serverLen>>
          /\ \/ UNCHANGED active /\ remoteLen' > 0
             \/ /\ active' = (active \ {"remote_send"}) \cup {"server_recv"}
      BY <1>0, <2>4, <3>1 DEF TypeOK, RemoteSendSome, Switch, Rest, Accepts
    <3>3. QED
      BY <1>0, <2>4, <3>1, <3>2 DEF ConnInv, FlowInv, S, R, RemoteSendSome
  <2>5. CASE RemoteSendError
    BY <2>5, Started, Aborted DEF RemoteSendError
  <2>6. QED
    BY <1>6, <2>1, <2>2, <2>3, <2>4, <2>5 DEF RemoteSend
<1>7. CASE Over \/ UNCHANGED vars
  <2>1. UNCHANGED <<live, ptr, active, connected, stage, remoteLen, serverLen,
                    link, ended>>
    BY <1>7 DEF Over, vars
  <2>2. QED
    BY <1>0, <2>1 DEF ConnInv, FlowInv, S, R
<1>8. QED
  BY <1>1, <1>2, <1>3, <1>4, <1>5, <1>6, <1>7 DEF Next

LEMMA ShapeInvariant == Spec => []ShapeInv
<1>1. Init => ShapeInv
  BY TypeInit, ShapeInit DEF ShapeInv
<1>2. ShapeInv /\ [Next]_vars => ShapeInv'
  BY TypeStep, ShapeStep DEF ShapeInv
<1>3. QED
  BY <1>1, <1>2, PTL DEF Spec

(* The callbacks never use a freed struct and never let the two uses of a  *)
(* buffer meet, and a struct that has lost its peer is always about to be  *)
(* freed.                                                                  *)
THEOREM PointersAndBuffers == Spec => [](MemorySafe /\ BufferExclusive /\ NotStranded)
<1>1. ShapeInv => MemorySafe
  <2> SUFFICES ASSUME ShapeInv PROVE MemorySafe
    OBVIOUS
  <2>1. \A e \in ptr : {e, Peer(e)} \subseteq live /\ Peer(e) \in ptr
    BY DEF ShapeInv, TypeOK, ConnInv, S, R, Peer, Endpoints
  <2>2. \A e \in Endpoints : active \cap WatchersOf({e}) # {} => e \in live
    BY WatcherSets DEF ShapeInv, ConnInv, S, R, Endpoints
  <2>3. "remote_send" \in active /\ connected = 0 => "remote" \in ptr
    BY DEF ShapeInv, ConnInv
  <2>4. QED
    BY <2>1, <2>2, <2>3 DEF MemorySafe
<1>2. ShapeInv => BufferExclusive
  BY DEF ShapeInv, TypeOK, ConnInv, FlowInv, BufferExclusive
<1>3. ShapeInv => NotStranded
  <2> SUFFICES ASSUME ShapeInv PROVE NotStranded
    OBVIOUS
  <2>1. live = {"server"} => "server_send" \in active /\ serverLen = 0
    BY DEF ShapeInv, ConnInv, S, R
  <2>2. live = {"remote"} => "remote_send" \in active /\ remoteLen = 0 /\ connected = 1
    BY DEF ShapeInv, TypeOK, ConnInv, S, R
  <2>3. live = Endpoints => active # {}
    BY DEF ShapeInv, TypeOK, ConnInv, FlowInv, S, R, Endpoints
  <2>4. live = Endpoints /\ stage = 5 =>
          /\ {"server_recv", "remote_send"} \cap active # {}
          /\ {"remote_recv", "server_send"} \cap active # {}
    BY DEF ShapeInv, FlowInv, S, R, Endpoints
  <2>5. QED
    BY <2>1, <2>2, <2>3, <2>4 DEF NotStranded
<1>4. QED
  BY <1>1, <1>2, <1>3, ShapeInvariant, PTL

(* The receiver and the sender of a buffer are never both started. *)
THEOREM OneUserPerBuffer == Spec => []BufferExclusive
BY PointersAndBuffers, PTL

(* Whatever is left of a connection has a watcher that will end it. *)
THEOREM NobodyStranded == Spec => []NotStranded
BY PointersAndBuffers, PTL

-----------------------------------------------------------------------------
(* The two byte streams. *)

(* Up to stage 5 the handshake messages account for what was read; from    *)
(* then on, if they came whole, every byte read is past or in the backlog. *)
UpInv ==
  /\ stage = 0 => cRead = 0 /\ whole = {}
  /\ stage = 1 /\ ended = "no" => /\ "request" \notin whole
                                  /\ "greeting" \in whole => cRead = GreetLen
  /\ stage # 5 => toFar = Handshake
  /\ stage # 5 \/ Framed => "up" \in intact
  /\ stage = 5 /\ Framed /\ ended = "no" =>
       /\ "remote_send" \in active => remoteBuf = toFar /\ toFar + remoteLen = cRead
       /\ "remote_send" \notin active => toFar = cRead

DownInv ==
  /\ stage # 5 => decoder = "empty"
  /\ decoder = "empty" => toClient = IVLen
  /\ decoder = "empty" /\ ended = "no" => fRead = 0 /\ "server_send" \notin active
  /\ decoder # "garbled" => "down" \in intact
  /\ decoder = "ready" /\ ended = "no" =>
       /\ "server_send" \in active => serverBuf = toClient /\ toClient + serverLen = fRead
       /\ "server_send" \notin active => toClient = fRead

RelayInv == ShapeInv /\ UpInv /\ DownInv

LEMMA StreamInit == ASSUME Init PROVE UpInv /\ DownInv
BY DEF Init, UpInv, DownInv, Framed

(* A step that tears down asks nothing more of the streams. *)
LEMMA StreamGone ==
  ASSUME UpInv, DownInv, ended' # "no", stage' = stage,
         UNCHANGED <<toFar, toClient, intact, decoder>>,
         stage # 0 \/ UNCHANGED <<cRead, whole>>,
         stage # 5 \/ UNCHANGED whole
  PROVE  UpInv' /\ DownInv'
BY DEF UpInv, DownInv, Framed

LEMMA AbortedStreams ==
  ASSUME ShapeInv, UpInv, DownInv,
         NEW E, NEW why \in {"abort", "crash"}, Close(E, why),
         UNCHANGED <<toFar, toClient, intact, decoder>>,
         stage # 0 \/ UNCHANGED <<cRead, whole>>,
         stage # 5 \/ UNCHANGED whole
  PROVE  UpInv' /\ DownInv'
<1>1. ended' # "no" /\ stage' = stage
  BY DEF ShapeInv, TypeOK, Close
<1>2. QED
  BY <1>1, StreamGone

LEMMA StreamStep ==
  ASSUME RelayInv, [Next]_vars
  PROVE  UpInv' /\ DownInv'
<1> USE RelayAssumption
<1> USE DEF conn, upBuf, downBuf, peers, seen
<1>0. ShapeInv /\ TypeOK /\ ConnInv /\ FlowInv /\ UpInv /\ DownInv
  BY DEF RelayInv, ShapeInv
<1>1. CASE Peers \/ Accept \/ Over \/ UNCHANGED vars
  <2>1. UNCHANGED <<stage, remoteBuf, remoteLen, cRead, toFar, whole, ended>>
    BY <1>1 DEF Peers, ClientSend, ClientClose, ClientReset, FarSend, FarClose,
                FarReset, ConnectDone, Accept, Over, vars
  <2>2. UNCHANGED <<serverBuf, serverLen, decoder, fRead, toClient, intact>>
    BY <1>1 DEF Peers, ClientSend, ClientClose, ClientReset, FarSend, FarClose,
                FarReset, ConnectDone, Accept, Over, vars
  <2>3. active' = active \/ (stage = 0 /\ active' = {"remote_send"})
    <3>1. CASE Accept
      BY <1>0, <3>1 DEF Accept, ConnInv
    <3>2. Peers \/ Over \/ UNCHANGED vars => active' = active
      BY DEF Peers, ClientSend, ClientClose, ClientReset, FarSend, FarClose,
             FarReset, ConnectDone, Over, vars
    <3>3. QED
      BY <1>1, <3>1, <3>2
  <2>4. QED
    BY <1>0, <2>1, <2>2, <2>3 DEF UpInv, DownInv, Framed
<1>2. CASE ServerRecv
  <2>1. CASE ServerRecvOrphan \/ ServerRecvError
    BY <1>0, <2>1, AbortedStreams DEF ServerRecvOrphan, ServerRecvError
  <2>2. CASE ServerRecvEof
    BY <1>0, <2>2, StreamGone DEF ServerRecvEof, HangUp
  <2>3. CASE ServerRecvGreeting
    BY <1>0, <2>3 DEF TypeOK, UpInv, DownInv, Framed, ServerRecvGreeting
  <2>4. CASE ServerRecvRefused
    BY <1>0, <2>4, AbortedStreams DEF ServerRecvRefused, TakeRequest
  <2>5. CASE ServerRecvRequest
    <3>1. "remote_send" \notin active /\ "server_send" \notin active /\ ended = "no"
      BY <1>0, <2>5 DEF ConnInv, FlowInv, ServerRecvRequest, TakeRequest
    <3>2. UpInv'
      BY <1>0, <2>5, <3>1 DEF TypeOK, UpInv, Framed, Handshake, ServerRecvRequest,
                              TakeRequest
    <3>3. DownInv'
      BY <1>0, <2>5, <3>1 DEF DownInv, ServerRecvRequest, TakeRequest
    <3>4. QED
      BY <3>2, <3>3
  <2>6. CASE ServerRecvData
    <3>1. PICK r \in 1..BufSize, w \in 0..BufSize :
            /\ cRead + r <= cSent
            /\ Accepts(farEnd, r, w)
            /\ cRead' = cRead + r
            /\ ToFar(cRead, w)
            /\ IF w = r
                 THEN /\ remoteBuf' = cRead
                      /\ UNCHANGED <<remoteLen, active>>
                 ELSE /\ remoteBuf' = Moved(cRead, w)
                      /\ remoteLen' = Rest(r, w)
                      /\ Switch("server_recv", "remote_send")
      BY <2>6 DEF ServerRecvData
    <3>2. "remote_send" \notin active /\ ended = "no" /\ stage = 5
      BY <1>0, <2>6 DEF ConnInv, FlowInv, ServerRecvData
    <3>3. UpInv'
      BY <1>0, <2>6, <3>1, <3>2 DEF TypeOK, UpInv, Framed, ServerRecvData, ToFar,
                                    Accepts, Moved, Rest, Switch
    <3>4. /\ UNCHANGED <<toClient, decoder, fRead, serverBuf, serverLen, stage, ended>>
          /\ "server_send" \in active' <=> "server_send" \in active
          /\ "down" \in intact => "down" \in intact'
      BY <2>6, <3>1 DEF ServerRecvData, ToFar, Switch
    <3>5. DownInv'
      BY <1>0, <3>4 DEF DownInv
    <3>6. QED
      BY <3>3, <3>5
  <2>7. CASE ServerRecvSendError
    BY <1>0, <2>7, AbortedStreams DEF ServerRecvSendError
  <2>8. QED
    BY <1>2, <2>1, <2>2, <2>3, <2>4, <2>5, <2>6, <2>7 DEF ServerRecv
<1>3. CASE ServerSend
  <2>1. CASE ServerSendClose \/ ServerSendError
    BY <1>0, <2>1, AbortedStreams DEF ServerSendClose, ServerSendError
  <2>2. CASE ServerSendSome
    <3>1. "server" \in ptr /\ ended = "no" /\ decoder # "empty" /\ stage = 5
      BY <1>0, <2>2 DEF TypeOK, ConnInv, FlowInv, DownInv, ServerSendSome
    <3>2. PICK w \in 1..BufSize :
            /\ Accepts(clientEnd, serverLen, w)
            /\ ToClient(serverBuf, w)
            /\ IF w < serverLen
                 THEN /\ serverBuf' = Moved(serverBuf, w)
                      /\ serverLen' = Rest(serverLen, w)
                      /\ UNCHANGED <<conn, ended>>
                 ELSE /\ serverLen' = 0
                      /\ UNCHANGED serverBuf
                      /\ Switch("server_send", "remote_recv")
                      /\ UNCHANGED <<live, ptr, connected, stage, ended>>
      BY <2>2, <3>1 DEF ServerSendSome
    <3>3. /\ UNCHANGED <<toFar, whole, cRead, remoteBuf, remoteLen, stage, ended>>
          /\ "remote_send" \in active' <=> "remote_send" \in active
          /\ "up" \in intact => "up" \in intact'
      BY <2>2, <3>2 DEF ServerSendSome, ToClient, Switch
    <3>4. UpInv'
      BY <1>0, <3>3 DEF UpInv, Framed
    <3>5. DownInv'
      BY <1>0, <2>2, <3>1, <3>2 DEF TypeOK, DownInv, ServerSendSome, ToClient,
                                    Accepts, Moved, Rest, Switch
    <3>6. QED
      BY <3>4, <3>5
  <2>3. QED
    BY <1>3, <2>1, <2>2 DEF ServerSend
<1>4. CASE RemoteRecv
  <2>1. CASE RemoteRecvOrphan \/ RemoteRecvError \/ RemoteRecvSendError
    BY <1>0, <2>1, AbortedStreams
       DEF RemoteRecvOrphan, RemoteRecvError, RemoteRecvSendError
  <2>2. CASE RemoteRecvEof
    BY <1>0, <2>2, StreamGone DEF RemoteRecvEof, HangUp
  <2>3. CASE RemoteRecvData
    <3>1. PICK r \in 1..BufSize, n \in 0..BufSize, w \in 0..BufSize,
               pos \in 0..MaxDown :
            /\ TakeCipher(r, pos, n)
            /\ Accepts(clientEnd, n, w)
            /\ decoder' = IF decoder = "empty" THEN "ready" ELSE decoder
            /\ ToClient(pos, w)
            /\ IF w = n
                 THEN /\ serverBuf' = pos
                      /\ UNCHANGED <<serverLen, active>>
                 ELSE /\ serverBuf' = Moved(pos, w)
                      /\ serverLen' = Rest(n, w)
                      /\ Switch("remote_recv", "server_send")
      BY <2>3 DEF RemoteRecvData
    <3>2. "server_send" \notin active /\ ended = "no" /\ stage = 5
      BY <1>0, <3>1 DEF TypeOK, ConnInv, FlowInv, TakeCipher
    <3>3. /\ UNCHANGED <<toFar, whole, cRead, remoteBuf, remoteLen, stage, ended>>
          /\ "remote_send" \in active' <=> "remote_send" \in active
          /\ "up" \in intact => "up" \in intact'
      BY <2>3, <3>1 DEF RemoteRecvData, ToClient, Switch
    <3>4. UpInv'
      BY <1>0, <3>3 DEF UpInv, Framed
    <3>5. /\ decoder # "garbled" => pos = toClient
          /\ fRead' = pos + n /\ fRead' \in Nat
      BY <1>0, <3>1, <3>2 DEF TypeOK, DownInv, TakeCipher
    <3>6. /\ decoder' # "empty"
          /\ decoder' = "garbled" <=> decoder = "garbled"
          /\ ended' = "no" /\ stage' = 5
      BY <1>0, <3>1, <3>2, <3>3 DEF TypeOK
    <3>7. DownInv'
      BY <1>0, <3>1, <3>2, <3>5, <3>6
         DEF TypeOK, DownInv, ToClient, Accepts, Moved, Rest, Switch
    <3>8. QED
      BY <3>4, <3>7
  <2>4. CASE RemoteRecvShortIV
    <3>1. CASE Library = "sodium"
      BY <1>0, <2>4, <3>1, AbortedStreams DEF RemoteRecvShortIV
    <3>2. CASE Library # "sodium"
      <4>1. stage = 5
        BY <1>0, <2>4 DEF TypeOK, ConnInv, FlowInv, RemoteRecvShortIV
      <4>2. QED
        BY <1>0, <2>4, <3>2, <4>1 DEF UpInv, DownInv, Framed, RemoteRecvShortIV
    <3>3. QED
      BY <3>1, <3>2
  <2>5. QED
    BY <1>4, <2>1, <2>2, <2>3, <2>4 DEF RemoteRecv
<1>5. CASE RemoteSend
  <2>1. CASE RemoteSendRefused \/ RemoteSendClose \/ RemoteSendError
    BY <1>0, <2>1, AbortedStreams
       DEF RemoteSendRefused, RemoteSendClose, RemoteSendError
  <2>2. CASE RemoteSendConnected
    BY <1>0, <2>2 DEF UpInv, DownInv, ConnInv, Framed, RemoteSendConnected, Switch
  <2>3. CASE RemoteSendSome
    <3>1. "remote" \in ptr /\ ended = "no" /\ stage = 5
      BY <1>0, <2>3 DEF TypeOK, ConnInv, FlowInv, RemoteSendSome
    <3>2. PICK w \in 1..BufSize :
            /\ Accepts(farEnd, remoteLen, w)
            /\ ToFar(remoteBuf, w)
            /\ IF w < remoteLen
                 THEN /\ remoteBuf' = Moved(remoteBuf, w)
                      /\ remoteLen' = Rest(remoteLen, w)
                      /\ UNCHANGED <<conn, ended>>
                 ELSE /\ UNCHANGED upBuf
                      /\ Switch("remote_send", "server_recv")
                      /\ UNCHANGED <<live, ptr, connected, stage, ended>>
      BY <2>3, <3>1 DEF RemoteSendSome
    <3>3. UpInv'
      BY <1>0, <2>3, <3>1, <3>2 DEF TypeOK, UpInv, Framed, RemoteSendSome, ToFar,
                                    Accepts, Moved, Rest, Switch
    <3>4. /\ UNCHANGED <<toClient, decoder, fRead, serverBuf, serverLen, stage, ended>>
          /\ "server_send" \in active' <=> "server_send" \in active
          /\ "down" \in intact => "down" \in intact'
      BY <2>3, <3>2 DEF RemoteSendSome, ToFar, Switch
    <3>5. DownInv'
      BY <1>0, <3>4 DEF DownInv
    <3>6. QED
      BY <3>3, <3>5
  <2>4. QED
    BY <1>5, <2>1, <2>2, <2>3 DEF RemoteSend
<1>6. QED
  BY <1>1, <1>2, <1>3, <1>4, <1>5 DEF Next

LEMMA RelayInvariant == Spec => []RelayInv
<1>1. Init => RelayInv
  BY TypeInit, ShapeInit, StreamInit DEF RelayInv, ShapeInv
<1>2. RelayInv /\ [Next]_vars => RelayInv'
  BY TypeStep, ShapeStep, StreamStep DEF RelayInv, ShapeInv
<1>3. QED
  BY <1>1, <1>2, PTL DEF Spec

(* Nothing is lost between two sockets while both ends are there, and what *)
(* has come out at either end is a gapless, duplicate-free prefix.         *)
THEOREM StreamIntegrity == Spec => [](NoByteLost /\ StreamsIntact)
<1>1. RelayInv => NoByteLost
  <2> SUFFICES ASSUME RelayInv, live = Endpoints, stage = 5
               PROVE  /\ Framed => toFar + Backlog("remote_send", remoteLen) = cRead
                      /\ decoder = "ready" =>
                           toClient + Backlog("server_send", serverLen) = fRead
    BY DEF NoByteLost
  <2>1. ended = "no"
    BY DEF RelayInv, ShapeInv, ConnInv, S, R, Endpoints
  <2>2. QED
    BY <2>1 DEF RelayInv, ShapeInv, TypeOK, UpInv, DownInv, Backlog
<1>2. RelayInv => StreamsIntact
  BY DEF RelayInv, UpInv, DownInv, StreamsIntact
<1>3. QED
  BY <1>1, <1>2, RelayInvariant, PTL

(* Both receivers have seen a gapless stream of what was sent. *)
THEOREM GaplessStreams == Spec => []StreamsIntact
BY StreamIntegrity, PTL

(* Who may read, and what that leaves to be sent first. *)
LEMMA ReadsServer ==
  ASSUME RelayInv, [Next]_vars, cRead' # cRead, stage = 5
  PROVE  "server_recv" \in active /\ "remote_send" \notin active /\ ended = "no"
<1>1. "server_recv" \in active /\ "server" \in ptr
  BY DEF Next, Peers, ClientSend, ClientClose, ClientReset, FarSend, FarClose,
         FarReset, ConnectDone, Accept, Over, vars, ServerRecv, ServerRecvOrphan,
         ServerRecvEof, ServerRecvError, ServerRecvGreeting, ServerRecvRefused,
         ServerRecvRequest, TakeRequest, ServerRecvData, ServerRecvSendError,
         ServerSend, ServerSendClose, ServerSendSome, ServerSendError,
         RemoteRecv, RemoteRecvOrphan, RemoteRecvEof, RemoteRecvError,
         RemoteRecvData, RemoteRecvShortIV, RemoteRecvSendError, RemoteSend,
         RemoteSendConnected, RemoteSendRefused, RemoteSendClose,
         RemoteSendSome, RemoteSendError
<1>2. QED
  BY <1>1 DEF RelayInv, ShapeInv, ConnInv, FlowInv

LEMMA ReadsRemote ==
  ASSUME RelayInv, [Next]_vars, fRead' # fRead
  PROVE  "remote_recv" \in active /\ "server_send" \notin active /\ ended = "no"
<1>1. "remote_recv" \in active /\ "remote" \in ptr
  BY DEF Next, Peers, ClientSend, ClientClose, ClientReset, FarSend, FarClose,
         FarReset, ConnectDone, Accept, Over, vars, ServerRecv, ServerRecvOrphan,
         ServerRecvEof, ServerRecvError, ServerRecvGreeting, ServerRecvRefused,
         ServerRecvRequest, TakeRequest, ServerRecvData, ServerRecvSendError,
         ServerSend, ServerSendClose, ServerSendSome, ServerSendError,
         RemoteRecv, RemoteRecvOrphan, RemoteRecvEof, RemoteRecvError, TakeCipher,
         RemoteRecvData, RemoteRecvShortIV, RemoteRecvSendError, RemoteSend,
         RemoteSendConnected, RemoteSendRefused, RemoteSendClose,
         RemoteSendSome, RemoteSendError
<1>2. QED
  BY <1>1 DEF RelayInv, ShapeInv, TypeOK, ConnInv, FlowInv

(* A callback never receives over bytes that have not gone out. *)
THEOREM NothingOverwritten == Spec => NoOverwrite
<1>1. ASSUME RelayInv, [Next]_vars
      PROVE  /\ cRead' # cRead /\ stage = 5 /\ Framed => toFar = cRead
             /\ fRead' # fRead /\ decoder = "ready" => toClient = fRead
  BY <1>1, ReadsServer, ReadsRemote DEF RelayInv, UpInv, DownInv
<1>2. QED
  BY <1>1, RelayInvariant, PTL DEF Spec, NoOverwrite

-----------------------------------------------------------------------------
(* The way up is a pipe. *)

LEMMA UpQuiet ==
  ASSUME UNCHANGED <<stage, whole, ended, cSent, toFar>>
  PROVE  UNCHANGED Up!pipeVars
BY DEF Up!pipeVars, UpMode, Framed

LEMMA UpAborted ==
  ASSUME TypeOK, NEW E, NEW why \in {"abort", "crash"}, Close(E, why),
         UNCHANGED <<cSent, toFar>>, stage # 5 \/ UNCHANGED whole
  PROVE  [Up!Next]_(Up!pipeVars)
<1>1. stage' = stage /\ ended' = IF ended = "no" THEN why ELSE ended
  BY DEF Close
<1>2. CASE ended = "no"
  <2>1. UpMode \in {"shut", "open", "spoiled"} /\ UpMode' = "aborted"
    BY <1>1, <1>2 DEF UpMode
  <2>2. Up!Abort
    BY <2>1 DEF Up!Abort
  <2>3. QED
    BY <2>2 DEF Up!Next
<1>3. CASE ended # "no"
  BY <1>1, <1>3 DEF Up!pipeVars, UpMode, Framed
<1>4. QED
  BY <1>2, <1>3

LEMMA UpPipeStep ==
  ASSUME RelayInv, [Next]_vars
  PROVE  [Up!Next]_(Up!pipeVars)
<1> USE RelayAssumption
<1> USE DEF conn, upBuf, downBuf, peers, seen
<1>0. TypeOK /\ ConnInv /\ FlowInv /\ UpInv
  BY DEF RelayInv, ShapeInv
<1>1. CASE ClientSend
  <2>1. UNCHANGED <<UpMode, toFar>> /\ cSent' = cSent + 1 /\ cSent \in Nat
    BY <1>0, <1>1 DEF TypeOK, ClientSend, UpMode, Framed
  <2>2. Up!Produce
    BY <2>1 DEF Up!Produce
  <2>3. QED
    BY <2>2 DEF Up!Next
<1>2. CASE \/ ClientClose \/ ClientReset \/ FarSend \/ FarClose \/ FarReset
           \/ ConnectDone \/ Accept \/ Over \/ UNCHANGED vars
  <2>1. UNCHANGED <<stage, whole, ended, cSent, toFar>>
    BY <1>2 DEF ClientClose, ClientReset, FarSend, FarClose, FarReset,
                ConnectDone, Accept, Over, vars
  <2>2. QED
    BY <2>1, UpQuiet
<1>3. CASE ServerRecv
  <2>1. CASE ServerRecvOrphan \/ ServerRecvError
    BY <1>0, <2>1, UpAborted DEF ServerRecvOrphan, ServerRecvError
  <2>2. CASE ServerRecvEof
    <3>1. /\ ended = "no" /\ ended' = "client_eof" /\ cRead = cSent
          /\ UNCHANGED <<stage, whole, cSent, toFar>>
          /\ "server_recv" \in active /\ S /\ R
      BY <1>0, <2>2 DEF ConnInv, ServerRecvEof, HangUp
    <3>2. CASE stage = 5 /\ Framed
      <4>1. toFar = cSent
        BY <1>0, <3>1, <3>2 DEF UpInv, FlowInv
      <4>2. UpMode = "open" /\ UpMode' = "done"
        BY <3>1, <3>2 DEF UpMode, Framed
      <4>3. Up!Finish
        BY <3>1, <4>1, <4>2 DEF Up!Finish
      <4>4. QED
        BY <4>3 DEF Up!Next
    <3>3. CASE ~(stage = 5 /\ Framed)
      <4>1. UpMode \in {"shut", "spoiled"} /\ UpMode' = "aborted"
        BY <3>1, <3>3 DEF UpMode, Framed
      <4>2. Up!Abort
        BY <3>1, <4>1 DEF Up!Abort
      <4>3. QED
        BY <4>2 DEF Up!Next
    <3>4. QED
      BY <3>2, <3>3
  <2>3. CASE ServerRecvGreeting
    <3>1. UNCHANGED <<UpMode, cSent, toFar>>
      BY <2>3 DEF ServerRecvGreeting, UpMode
    <3>2. QED
      BY <3>1 DEF Up!pipeVars
  <2>4. CASE ServerRecvRefused
    BY <1>0, <2>4, UpAborted DEF ServerRecvRefused, TakeRequest
  <2>5. CASE ServerRecvRequest
    <3>1. /\ UNCHANGED <<ended, cSent, toFar>> /\ ended = "no"
          /\ stage' = 5 /\ stage = 1
      BY <1>0, <2>5 DEF ConnInv, ServerRecvRequest, TakeRequest
    <3>2. toFar = Handshake /\ UpMode = "shut" /\ UpMode' \in {"open", "spoiled"}
      BY <1>0, <3>1 DEF UpInv, UpMode
    <3>3. Up!Open \/ Up!Spoil
      BY <3>1, <3>2 DEF Up!Open, Up!Spoil
    <3>4. QED
      BY <3>3 DEF Up!Next
  <2>6. CASE ServerRecvData
    <3>1. PICK r \in 1..BufSize, w \in 0..BufSize :
            /\ cRead + r <= cSent
            /\ Accepts(farEnd, r, w)
            /\ ToFar(cRead, w)
      BY <2>6 DEF ServerRecvData
    <3>2. /\ "remote_send" \notin active /\ ended = "no" /\ stage = 5
          /\ UNCHANGED <<ended, stage, whole, cSent>>
      BY <1>0, <2>6 DEF ConnInv, FlowInv, ServerRecvData
    <3>3. UpMode \in {"open", "spoiled"} /\ UpMode' = UpMode
          /\ (UpMode = "open" <=> Framed)
      BY <3>2 DEF UpMode, Framed
    <3>4. CASE toFar' = toFar
      BY <3>2, <3>3, <3>4 DEF Up!pipeVars
    <3>5. CASE toFar' # toFar /\ Framed
      <4>1. /\ toFar' > toFar /\ toFar' <= cSent /\ toFar' \in Nat
        BY <1>0, <3>1, <3>2, <3>5 DEF TypeOK, UpInv, ToFar, Accepts
      <4>2. Up!Deliver
        BY <3>2, <3>3, <3>5, <4>1 DEF Up!Deliver
      <4>3. QED
        BY <4>2 DEF Up!Next
    <3>6. CASE ~Framed
      <4>1. toFar' \in Nat
        BY <1>0, <3>1 DEF TypeOK, ToFar, Accepts
      <4>2. Up!Noise
        BY <3>2, <3>3, <3>6, <4>1 DEF Up!Noise
      <4>3. QED
        BY <4>2 DEF Up!Next
    <3>7. QED
      BY <3>4, <3>5, <3>6
  <2>7. CASE ServerRecvSendError
    BY <1>0, <2>7, UpAborted DEF ServerRecvSendError
  <2>8. QED
    BY <1>3, <2>1, <2>2, <2>3, <2>4, <2>5, <2>6, <2>7 DEF ServerRecv
<1>4. CASE ServerSend
  <2>1. CASE ServerSendClose \/ ServerSendError
    BY <1>0, <2>1, UpAborted DEF ServerSendClose, ServerSendError
  <2>2. CASE ServerSendSome
    <3>1. "server" \in ptr
      BY <1>0, <2>2 DEF TypeOK, ConnInv, FlowInv, ServerSendSome
    <3>2. UNCHANGED <<stage, whole, ended, cSent, toFar>>
      BY <2>2, <3>1 DEF ServerSendSome, ToClient
    <3>3. QED
      BY <3>2, UpQuiet
  <2>3. QED
    BY <1>4, <2>1, <2>2 DEF ServerSend
<1>5. CASE RemoteRecv
  <2>1. CASE RemoteRecvOrphan \/ RemoteRecvError \/ RemoteRecvSendError
    BY <1>0, <2>1, UpAborted
       DEF RemoteRecvOrphan, RemoteRecvError, RemoteRecvSendError
  <2>2. CASE RemoteRecvEof
    <3>1. /\ ended = "no" /\ ended' = "remote_eof"
          /\ UNCHANGED <<stage, whole, cSent, toFar>>
      BY <1>0, <2>2 DEF ConnInv, RemoteRecvEof, HangUp
    <3>2. UpMode \in {"shut", "open", "spoiled"} /\ UpMode' = "aborted"
      BY <3>1 DEF UpMode
    <3>3. Up!Abort
      BY <3>1, <3>2 DEF Up!Abort
    <3>4. QED
      BY <3>3 DEF Up!Next
  <2>3. CASE RemoteRecvData
    <3>1. UNCHANGED <<stage, whole, ended, cSent, toFar>>
      BY <2>3 DEF RemoteRecvData, ToClient
    <3>2. QED
      BY <3>1, UpQuiet
  <2>4. CASE RemoteRecvShortIV
    <3>1. CASE Library = "sodium"
      BY <1>0, <2>4, <3>1, UpAborted DEF RemoteRecvShortIV
    <3>2. CASE Library # "sodium"
      BY <2>4, <3>2, UpQuiet DEF RemoteRecvShortIV
    <3>3. QED
      BY <3>1, <3>2
  <2>5. QED
    BY <1>5, <2>1, <2>2, <2>3, <2>4 DEF RemoteRecv
<1>6. CASE RemoteSend
  <2>1. CASE RemoteSendRefused \/ RemoteSendClose \/ RemoteSendError
    BY <1>0, <2>1, UpAborted DEF RemoteSendRefused, RemoteSendClose, RemoteSendError
  <2>2. CASE RemoteSendConnected
    BY <2>2, UpQuiet DEF RemoteSendConnected
  <2>3. CASE RemoteSendSome
    <3>1. "remote" \in ptr /\ ended = "no" /\ stage = 5
      BY <1>0, <2>3 DEF TypeOK, ConnInv, FlowInv, RemoteSendSome
    <3>2. PICK w \in 1..BufSize :
            Accepts(farEnd, remoteLen, w) /\ ToFar(remoteBuf, w)
      BY <2>3 DEF RemoteSendSome
    <3>3. UNCHANGED <<ended, stage, whole, cSent>>
      BY <2>3, <3>1 DEF RemoteSendSome
    <3>4. UpMode \in {"open", "spoiled"} /\ UpMode' = UpMode
          /\ (UpMode = "open" <=> Framed)
      BY <3>1, <3>3 DEF UpMode, Framed
    <3>5. CASE toFar' = toFar
      BY <3>3, <3>4, <3>5 DEF Up!pipeVars
    <3>6. CASE toFar' # toFar /\ Framed
      <4>1. /\ toFar' > toFar /\ toFar' <= cSent /\ toFar' \in Nat
        BY <1>0, <2>3, <3>1, <3>2, <3>6
           DEF TypeOK, UpInv, ToFar, Accepts, RemoteSendSome
      <4>2. Up!Deliver
        BY <3>3, <3>4, <3>6, <4>1 DEF Up!Deliver
      <4>3. QED
        BY <4>2 DEF Up!Next
    <3>7. CASE ~Framed
      <4>1. toFar' \in Nat
        BY <1>0, <3>2 DEF TypeOK, ToFar, Accepts
      <4>2. Up!Noise
        BY <3>3, <3>4, <3>7, <4>1 DEF Up!Noise
      <4>3. QED
        BY <4>2 DEF Up!Next
    <3>8. QED
      BY <3>5, <3>6, <3>7
  <2>4. QED
    BY <1>6, <2>1, <2>2, <2>3 DEF RemoteSend
<1>7. QED
  BY <1>1, <1>2, <1>3, <1>4, <1>5, <1>6 DEF Next, Peers

(* What the client sends comes out at the far end as out of a pipe, and    *)
(* all of it has when the client's end of file is seen.                    *)
THEOREM UpImplementsPipe == Spec => UpIsPipe
<1>1. Init => Up!Init
  BY DEF Init, Up!Init, UpMode
<1>2. RelayInv /\ [Next]_vars => [Up!Next]_(Up!pipeVars)
  BY UpPipeStep
<1>3. QED
  BY <1>1, <1>2, RelayInvariant, PTL DEF Spec, UpIsPipe, Up!Spec

-----------------------------------------------------------------------------
(* The way down is a pipe. *)

LEMMA DownQuiet ==
  ASSUME UNCHANGED <<stage, decoder, ended, fSent, toClient>>
  PROVE  UNCHANGED Down!pipeVars
BY DEF Down!pipeVars, DownMode

LEMMA DownAborted ==
  ASSUME TypeOK, NEW E, NEW why \in {"abort", "crash"}, Close(E, why),
         UNCHANGED <<fSent, toClient, decoder>>
  PROVE  [Down!Next]_(Down!pipeVars)
<1>1. stage' = stage /\ ended' = IF ended = "no" THEN why ELSE ended
  BY DEF Close
<1>2. CASE ended = "no"
  <2>1. DownMode \in {"shut", "open", "spoiled"} /\ DownMode' = "aborted"
    BY <1>1, <1>2 DEF DownMode
  <2>2. Down!Abort
    BY <2>1 DEF Down!Abort
  <2>3. QED
    BY <2>2 DEF Down!Next
<1>3. CASE ended # "no"
  BY <1>1, <1>3 DEF Down!pipeVars, DownMode
<1>4. QED
  BY <1>2, <1>3

LEMMA DownPipeStep ==
  ASSUME RelayInv, [Next]_vars
  PROVE  [Down!Next]_(Down!pipeVars)
<1> USE RelayAssumption
<1> USE DEF conn, upBuf, downBuf, peers, seen
<1>0. TypeOK /\ ConnInv /\ FlowInv /\ DownInv
  BY DEF RelayInv, ShapeInv
<1>1. CASE FarSend
  <2>1. UNCHANGED <<DownMode, toClient>> /\ fSent' = fSent + 1 /\ fSent \in Nat
    BY <1>0, <1>1 DEF TypeOK, FarSend, DownMode
  <2>2. Down!Produce
    BY <2>1 DEF Down!Produce
  <2>3. QED
    BY <2>2 DEF Down!Next
<1>2. CASE \/ ClientSend \/ ClientClose \/ ClientReset \/ FarClose \/ FarReset
           \/ ConnectDone \/ Accept \/ Over \/ UNCHANGED vars
  <2>1. UNCHANGED <<stage, decoder, ended, fSent, toClient>>
    BY <1>2 DEF ClientSend, ClientClose, ClientReset, FarClose, FarReset,
                ConnectDone, Accept, Over, vars
  <2>2. QED
    BY <2>1, DownQuiet
<1>3. CASE ServerRecv
  <2>1. CASE ServerRecvOrphan \/ ServerRecvError \/ ServerRecvSendError
    BY <1>0, <2>1, DownAborted
       DEF ServerRecvOrphan, ServerRecvError, ServerRecvSendError
  <2>2. CASE ServerRecvEof
    <3>1. /\ ended = "no" /\ ended' = "client_eof"
          /\ UNCHANGED <<stage, decoder, fSent, toClient>>
      BY <1>0, <2>2 DEF ConnInv, ServerRecvEof, HangUp
    <3>2. DownMode \in {"shut", "open", "spoiled"} /\ DownMode' = "aborted"
      BY <3>1 DEF DownMode
    <3>3. Down!Abort
      BY <3>1, <3>2 DEF Down!Abort
    <3>4. QED
      BY <3>3 DEF Down!Next
  <2>3. CASE ServerRecvGreeting
    <3>1. UNCHANGED <<DownMode, fSent, toClient>>
      BY <2>3 DEF ServerRecvGreeting, DownMode
    <3>2. QED
      BY <3>1 DEF Down!pipeVars
  <2>4. CASE ServerRecvRefused
    BY <1>0, <2>4, DownAborted DEF ServerRecvRefused, TakeRequest
  <2>5. CASE ServerRecvRequest
    <3>1. /\ UNCHANGED <<ended, decoder, fSent, toClient>> /\ ended = "no"
          /\ stage' = 5 /\ stage = 1 /\ decoder = "empty"
      BY <1>0, <2>5 DEF ConnInv, DownInv, ServerRecvRequest, TakeRequest
    <3>2. DownMode = "shut" /\ DownMode' = "open"
      BY <3>1 DEF DownMode
    <3>3. Down!Open
      BY <3>1, <3>2 DEF Down!Open
    <3>4. QED
      BY <3>3 DEF Down!Next
  <2>6. CASE ServerRecvData
    <3>1. UNCHANGED <<stage, decoder, ended, fSent, toClient>>
      BY <2>6 DEF ServerRecvData, ToFar
    <3>2. QED
      BY <3>1, DownQuiet
  <2>7. QED
    BY <1>3, <2>1, <2>2, <2>3, <2>4, <2>5, <2>6 DEF ServerRecv
<1>4. CASE ServerSend
  <2>1. CASE ServerSendClose \/ ServerSendError
    BY <1>0, <2>1, DownAborted DEF ServerSendClose, ServerSendError
  <2>2. CASE ServerSendSome
    <3>1. "server" \in ptr /\ ended = "no" /\ stage = 5 /\ decoder # "empty"
      BY <1>0, <2>2 DEF TypeOK, ConnInv, FlowInv, DownInv, ServerSendSome
    <3>2. PICK w \in 1..BufSize :
            Accepts(clientEnd, serverLen, w) /\ ToClient(serverBuf, w)
      BY <2>2 DEF ServerSendSome
    <3>3. UNCHANGED <<ended, stage, decoder, fSent>>
      BY <2>2, <3>1 DEF ServerSendSome
    <3>4. /\ DownMode \in {"open", "spoiled"} /\ DownMode' = DownMode
          /\ DownMode = "open" <=> decoder = "ready"
      BY <1>0, <3>1, <3>3 DEF TypeOK, DownMode
    <3>5. CASE toClient' = toClient
      BY <3>3, <3>4, <3>5 DEF Down!pipeVars
    <3>6. CASE toClient' # toClient /\ decoder = "ready"
      <4>1. toClient' > toClient /\ toClient' <= fSent /\ toClient' \in Nat
        BY <1>0, <2>2, <3>1, <3>2, <3>6
           DEF TypeOK, DownInv, ToClient, Accepts, ServerSendSome
      <4>2. Down!Deliver
        BY <3>3, <3>4, <3>6, <4>1 DEF Down!Deliver
      <4>3. QED
        BY <4>2 DEF Down!Next
    <3>7. CASE decoder # "ready"
      <4>1. toClient' \in Nat
        BY <1>0, <3>2 DEF TypeOK, ToClient, Accepts
      <4>2. Down!Noise
        BY <3>3, <3>4, <3>7, <4>1 DEF Down!Noise
      <4>3. QED
        BY <4>2 DEF Down!Next
    <3>8. QED
      BY <3>5, <3>6, <3>7
  <2>3. QED
    BY <1>4, <2>1, <2>2 DEF ServerSend
<1>5. CASE RemoteRecv
  <2>1. CASE RemoteRecvOrphan \/ RemoteRecvError \/ RemoteRecvSendError
    BY <1>0, <2>1, DownAborted
       DEF RemoteRecvOrphan, RemoteRecvError, RemoteRecvSendError
  <2>2. CASE RemoteRecvEof
    <3>1. /\ ended = "no" /\ ended' = "remote_eof" /\ fRead = fSent
          /\ UNCHANGED <<stage, decoder, fSent, toClient>>
          /\ "remote_recv" \in active /\ S /\ R
      BY <1>0, <2>2 DEF ConnInv, RemoteRecvEof, HangUp
    <3>2. stage = 5 /\ "server_send" \notin active
      BY <1>0, <3>1 DEF FlowInv
    <3>3. CASE decoder = "ready"
      <4>1. toClient = fSent
        BY <1>0, <3>1, <3>2, <3>3 DEF DownInv
      <4>2. DownMode = "open" /\ DownMode' = "done"
        BY <3>1, <3>2, <3>3 DEF DownMode
      <4>3. Down!Finish
        BY <3>1, <4>1, <4>2 DEF Down!Finish
      <4>4. QED
        BY <4>3 DEF Down!Next
    <3>4. CASE decoder # "ready"
      <4>1. DownMode \in {"open", "spoiled"} /\ DownMode' = "aborted"
        BY <3>1, <3>2, <3>4 DEF DownMode
      <4>2. Down!Abort
        BY <3>1, <4>1 DEF Down!Abort
      <4>3. QED
        BY <4>2 DEF Down!Next
    <3>5. QED
      BY <3>3, <3>4
  <2>3. CASE RemoteRecvData
    <3>1. PICK r \in 1..BufSize, n \in 0..BufSize, w \in 0..BufSize,
               pos \in 0..MaxDown :
            /\ TakeCipher(r, pos, n)
            /\ Accepts(clientEnd, n, w)
            /\ ToClient(pos, w)
      BY <2>3 DEF RemoteRecvData
    <3>2. "server_send" \notin active /\ ended = "no" /\ stage = 5
      BY <1>0, <3>1 DEF TypeOK, ConnInv, FlowInv, TakeCipher
    <3>3. /\ UNCHANGED <<ended, stage, fSent>>
          /\ decoder' = IF decoder = "empty" THEN "ready" ELSE decoder
      BY <2>3 DEF RemoteRecvData
    <3>4. /\ DownMode \in {"open", "spoiled"} /\ DownMode' = DownMode
          /\ DownMode = "open" <=> decoder # "garbled"
      BY <1>0, <3>2, <3>3 DEF TypeOK, DownMode
    <3>5. CASE toClient' = toClient
      BY <3>3, <3>4, <3>5 DEF Down!pipeVars
    <3>6. CASE toClient' # toClient /\ decoder # "garbled"
      <4>1. pos + n <= fSent
        BY <1>0, <3>1, <3>2 DEF TypeOK, DownInv, TakeCipher
      <4>2. toClient' > toClient /\ toClient' <= fSent /\ toClient' \in Nat
        BY <1>0, <3>1, <3>6, <4>1 DEF TypeOK, ToClient, Accepts
      <4>3. Down!Deliver
        BY <3>3, <3>4, <3>6, <4>2 DEF Down!Deliver
      <4>4. QED
        BY <4>3 DEF Down!Next
    <3>7. CASE decoder = "garbled"
      <4>1. toClient' \in Nat
        BY <1>0, <3>1 DEF TypeOK, ToClient, Accepts
      <4>2. Down!Noise
        BY <3>3, <3>4, <3>7, <4>1 DEF Down!Noise
      <4>3. QED
        BY <4>2 DEF Down!Next
    <3>8. QED
      BY <3>5, <3>6, <3>7
  <2>4. CASE RemoteRecvShortIV
    <3>1. CASE Library = "sodium"
      BY <1>0, <2>4, <3>1, DownAborted DEF RemoteRecvShortIV
    <3>2. CASE Library # "sodium"
      <4>1. /\ ended = "no" /\ stage = 5 /\ decoder = "empty"
            /\ decoder' = "garbled"
            /\ UNCHANGED <<ended, stage, fSent, toClient>>
        BY <1>0, <2>4, <3>2 DEF TypeOK, ConnInv, FlowInv, RemoteRecvShortIV
      <4>2. toClient = IVLen /\ DownMode = "open" /\ DownMode' = "spoiled"
        BY <1>0, <4>1 DEF DownInv, DownMode
      <4>3. Down!Spoil
        BY <4>1, <4>2 DEF Down!Spoil
      <4>4. QED
        BY <4>3 DEF Down!Next
    <3>3. QED
      BY <3>1, <3>2
  <2>5. QED
    BY <1>5, <2>1, <2>2, <2>3, <2>4 DEF RemoteRecv
<1>6. CASE RemoteSend
  <2>1. CASE RemoteSendRefused \/ RemoteSendClose \/ RemoteSendError
    BY <1>0, <2>1, DownAborted
       DEF RemoteSendRefused, RemoteSendClose, RemoteSendError
  <2>2. CASE RemoteSendConnected
    BY <2>2, DownQuiet DEF RemoteSendConnected
  <2>3. CASE RemoteSendSome
    <3>1. "remote" \in ptr
      BY <1>0, <2>3 DEF TypeOK, ConnInv, FlowInv, RemoteSendSome
    <3>2. UNCHANGED <<stage, decoder, ended, fSent, toClient>>
      BY <2>3, <3>1 DEF RemoteSendSome, ToFar
    <3>3. QED
      BY <3>2, DownQuiet
  <2>4. QED
    BY <1>6, <2>1, <2>2, <2>3 DEF RemoteSend
<1>7. QED
  BY <1>1, <1>2, <1>3, <1>4, <1>5, <1>6 DEF Next, Peers

(* What the far end sends comes out at the client as out of a pipe, and    *)
(* all of it has when the far end's end of file is seen.                   *)
THEOREM DownImplementsPipe == Spec => DownIsPipe
<1>1. Init => Down!Init
  BY DEF Init, Down!Init, DownMode
<1>2. RelayInv /\ [Next]_vars => [Down!Next]_(Down!pipeVars)
  BY DownPipeStep
<1>3. QED
  BY <1>1, <1>2, RelayInvariant, PTL DEF Spec, DownIsPipe, Down!Spec
=============================================================================
