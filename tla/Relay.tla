-------------------------------- MODULE Relay --------------------------------
(***************************************************************************)
(* One SOCKS5 connection through ShadowWeb/local.m: the two structs of the *)
(* connection (struct server faces the SOCKS client, struct remote faces   *)
(* the shadowsocks server), their four libev watchers, the two buffers     *)
(* that serve both as receive buffer and as backlog, and the kernel's two  *)
(* sockets with the peers behind them.                                     *)
(*                                                                         *)
(* One action is one invocation of a callback by ev_run (they never        *)
(* overlap: one thread, one loop), or one thing a peer or the network      *)
(* does.  A callback that finds EAGAIN and returns changes nothing and is  *)
(* a stuttering step.                                                      *)
(*                                                                         *)
(* Bytes are positions in the sender's stream.  cSent and fSent count what *)
(* has reached the relay's sockets from the client and from the far end    *)
(* (the shadowsocks server); cRead and fRead what recv has taken from      *)
(* them; toFar and toClient are the positions of the next byte each        *)
(* receiver expects from send.  The first Handshake bytes from the client  *)
(* are the SOCKS greeting and request, the first IVLen bytes from the far  *)
(* end the IV of its cipher stream.                                        *)
(***************************************************************************)
EXTENDS Naturals, FiniteSets

CONSTANTS GreetLen,   \* bytes of the client's method-selection message
          ReqLen,     \* bytes of the client's connect request
          IVLen,      \* encryption_iv_len[_method] (0 for table and rc4)
          Library,    \* "sodium" for salsa20 and chacha20, else "openssl"
          BufSize,    \* BUF_SIZE
          MaxUp,      \* bound on what the client sends
          MaxDown     \* bound on what the far end sends

ASSUME RelayAssumption ==
  /\ GreetLen \in Nat \ {0} /\ ReqLen \in Nat \ {0}
  /\ IVLen \in Nat /\ BufSize \in Nat \ {0}
  /\ MaxUp \in Nat /\ MaxDown \in Nat
  /\ Library \in {"sodium", "openssl"}

Handshake == GreetLen + ReqLen

VARIABLES
  live,       \* which of the two structs are allocated
  ptr,        \* "server" \in ptr: server->remote # NULL; "remote": remote->server
  active,     \* the started watchers
  connected,  \* remote->send_ctx->connected
  stage,      \* server->stage
  remoteBuf,  \* stream position of the first byte in remote->buf
  remoteLen,  \* remote->buf_len
  serverBuf,  \* stream position of the first byte in server->buf
  serverLen,  \* server->buf_len
  decoder,    \* remote->recv_encryption_ctx: "empty", "ready", "garbled"
  cRead, fRead,
  cSent, fSent, clientEnd, farEnd, link,  \* the peers and the network
  toFar, toClient, intact,                \* what the receivers have seen
  whole, reply, ended                     \* history, see below

(* whole: the handshake messages that one recv returned whole and alone.   *)
(* reply: what became of the SOCKS reply to the client's request.          *)
(* ended: the first event that began tearing the connection down.          *)
conn  == <<live, ptr, active, connected, stage>>
upBuf == <<remoteBuf, remoteLen>>
downBuf == <<serverBuf, serverLen, decoder>>
peers == <<cSent, fSent, clientEnd, farEnd, link>>
seen  == <<toFar, toClient, intact>>
vars  == <<conn, upBuf, downBuf, cRead, fRead, peers, seen, whole, reply, ended>>

Endpoints == {"server", "remote"}
Watchers  == {"server_recv", "server_send", "remote_recv", "remote_send"}
Framed    == whole = {"greeting", "request"}

TypeOK ==
  /\ live \subseteq Endpoints /\ ptr \subseteq Endpoints
  /\ active \subseteq Watchers
  /\ connected \in {0, 1} /\ stage \in {0, 1, 5}
  /\ remoteBuf \in Nat /\ remoteLen \in 0..BufSize
  /\ serverBuf \in Nat /\ serverLen \in 0..BufSize
  /\ decoder \in {"empty", "ready", "garbled"}
  /\ cRead \in 0..cSent /\ fRead \in 0..fSent
  /\ cSent \in 0..MaxUp /\ fSent \in 0..MaxDown
  /\ clientEnd \in {"open", "fin", "rst"} /\ farEnd \in {"open", "fin", "rst"}
  /\ link \in {"none", "connecting", "up", "refused"}
  /\ toFar \in Nat /\ toClient \in Nat /\ intact \subseteq {"up", "down"}
  /\ whole \subseteq {"greeting", "request"}
  /\ reply \in {"none", "full", "lost"}
  /\ ended \in {"no", "client_eof", "remote_eof", "abort", "crash"}

Init ==
  /\ live = {} /\ ptr = {} /\ active = {} /\ connected = 0 /\ stage = 0
  /\ remoteBuf = 0 /\ remoteLen = 0 /\ serverBuf = 0 /\ serverLen = 0
  /\ decoder = "empty" /\ cRead = 0 /\ fRead = 0 /\ cSent = 0 /\ fSent = 0
  /\ clientEnd = "open" /\ farEnd = "open" /\ link = "none"
  /\ toFar = Handshake /\ toClient = IVLen /\ intact = {"up", "down"}
  /\ whole = {} /\ reply = "none" /\ ended = "no"

-----------------------------------------------------------------------------
(* The peers and the network.  A peer that has closed or reset its socket  *)
(* sends nothing more.  What a peer does to a socket the relay has already *)
(* closed is of no consequence and left out.                               *)

ClientSend ==
  /\ "server" \in live /\ clientEnd = "open" /\ cSent < MaxUp
  /\ cSent' = cSent + 1
  /\ UNCHANGED <<conn, upBuf, downBuf, cRead, fRead, fSent, clientEnd, farEnd,
                 link, seen, whole, reply, ended>>

ClientClose ==
  /\ "server" \in live /\ clientEnd = "open"
  /\ clientEnd' = "fin"
  /\ UNCHANGED <<conn, upBuf, downBuf, cRead, fRead, cSent, fSent, farEnd,
                 link, seen, whole, reply, ended>>

ClientReset ==
  /\ "server" \in live /\ clientEnd # "rst"
  /\ clientEnd' = "rst"
  /\ UNCHANGED <<conn, upBuf, downBuf, cRead, fRead, cSent, fSent, farEnd,
                 link, seen, whole, reply, ended>>

FarSend ==
  /\ "remote" \in live /\ link = "up" /\ farEnd = "open" /\ fSent < MaxDown
  /\ fSent' = fSent + 1
  /\ UNCHANGED <<conn, upBuf, downBuf, cRead, fRead, cSent, clientEnd, farEnd,
                 link, seen, whole, reply, ended>>

FarClose ==
  /\ "remote" \in live /\ link = "up" /\ farEnd = "open"
  /\ farEnd' = "fin"
  /\ UNCHANGED <<conn, upBuf, downBuf, cRead, fRead, cSent, fSent, clientEnd,
                 link, seen, whole, reply, ended>>

FarReset ==
  /\ "remote" \in live /\ link = "up" /\ farEnd # "rst"
  /\ farEnd' = "rst"
  /\ UNCHANGED <<conn, upBuf, downBuf, cRead, fRead, cSent, fSent, clientEnd,
                 link, seen, whole, reply, ended>>

(* The non-blocking connect of accept_cb completes, one way or the other.  *)
ConnectDone ==
  /\ link = "connecting"
  /\ link' \in {"up", "refused"}
  /\ UNCHANGED <<conn, upBuf, downBuf, cRead, fRead, cSent, fSent, clientEnd,
                 farEnd, seen, whole, reply, ended>>

-----------------------------------------------------------------------------
(* Tearing down. *)

Peer(e) == IF e = "server" THEN "remote" ELSE "server"

WatchersOf(E) ==
  {w \in Watchers : \/ "server" \in E /\ w \in {"server_recv", "server_send"}
                    \/ "remote" \in E /\ w \in {"remote_recv", "remote_send"}}

(* A bug: free_server and free_remote forget the peer's pointer to them. *)
FreeDangling(E) ==
  /\ live' = live \ E
  /\ ptr' = ptr \ E

(* close_and_free_server and close_and_free_remote on the structs in E:    *)
(* the watchers stop, the memory goes, and each clears the pointer its     *)
(* peer holds to it, which it finds through its own pointer.               *)
Free(E) ==
  /\ live' = live \ E
  /\ ptr' = {p \in ptr \ E : ~ (Peer(p) \in E /\ Peer(p) \in ptr)}

(* The endpoints a callback of e closes when it closes "both": its peer is *)
(* a NULL argument when e no longer has one.                               *)
Both(e) == {e} \cup {p \in Endpoints : p = Peer(e) /\ e \in ptr}

Close(E, why) ==
  /\ Free(E)
  /\ active' = active \ WatchersOf(E)
  /\ ended' = IF ended = "no" THEN why ELSE ended
  /\ UNCHANGED <<connected, stage>>

(* A bug: the peer's write watcher is not started. *)
HangUpSilently(e, w, why) ==
  /\ Free({e})
  /\ active' = active \ WatchersOf({e})
  /\ ended' = why

(* End of file at e: it goes at once, and the write watcher w of its peer  *)
(* is started to take the peer down.                                       *)
HangUp(e, w, why) ==
  /\ Free({e})
  /\ active' = (active \ WatchersOf({e})) \cup {w}
  /\ ended' = why

(* Two bugs: forgetting to stop the one; or, in the callbacks that receive, *)
(* to start the other.                                                     *)
SwitchStartOnly(w1, w2) == active' = active \cup {w2}
SwitchStopOnly(w1, w2)  ==
  active' = (active \ {w1}) \cup {w \in {w2} : w1 \in {"server_send", "remote_send"}}

(* ev_io_stop of one watcher and ev_io_start of another. *)
Switch(w1, w2) == active' = (active \ {w1}) \cup {w2}

-----------------------------------------------------------------------------
(* send on a connected socket: the kernel takes some prefix, EAGAIN is 0;  *)
(* after a reset it fails.                                                 *)
Accepts(end, n, w) == end # "rst" /\ w \in 0..n

(* A bug: the rest of the buffer is not moved to its front. *)
NotMoved(pos, w) == pos

(* The position of a buffer's first byte, and the buffer's buf_len, after  *)
(* the first w bytes were sent and the rest moved down.  Two bugs in the   *)
(* second.                                                                 *)
Moved(pos, w) == pos + w

RestAdded(n, w) == n + w
RestKept(n, w)  == n

Rest(n, w) == n - w

(* Bytes [pos, pos + n) reach the far end (the client): they continue the  *)
(* stream if they start where the last ones stopped.                       *)
ToFar(pos, n) ==
  /\ toFar' = IF pos = toFar THEN toFar + n ELSE toFar
  /\ intact' = IF n = 0 \/ pos = toFar THEN intact ELSE intact \ {"up"}
  /\ UNCHANGED toClient

ToClient(pos, n) ==
  /\ toClient' = IF pos = toClient THEN toClient + n ELSE toClient
  /\ intact' = IF n = 0 \/ pos = toClient THEN intact ELSE intact \ {"down"}
  /\ UNCHANGED toFar

-----------------------------------------------------------------------------
(* accept_cb, for a connection it can serve: both structs, linked to each  *)
(* other, and the watcher that waits for the connect.                      *)
Accept ==
  /\ link = "none"
  /\ live' = {"server", "remote"} /\ ptr' = {"server", "remote"}
  /\ active' = {"remote_send"}
  /\ link' = "connecting"
  /\ UNCHANGED <<connected, stage, upBuf, downBuf, cRead, fRead, cSent, fSent,
                 clientEnd, farEnd, seen, whole, reply, ended>>

-----------------------------------------------------------------------------
(* server_recv_cb. *)

(* remote == NULL: nothing left to relay to. *)
ServerRecvOrphan ==
  /\ "server_recv" \in active /\ "server" \notin ptr
  /\ cRead < cSent \/ clientEnd # "open"
  /\ Close({"server"}, "abort")
  /\ UNCHANGED <<upBuf, downBuf, cRead, fRead, peers, seen, whole, reply>>

(* recv returned 0: the server goes at once; the remote's write watcher,   *)
(* with buf_len 0 as its order to close, takes the remote down later.      *)
ServerRecvEof ==
  /\ "server_recv" \in active /\ "server" \in ptr
  /\ clientEnd # "open" /\ cRead = cSent
  /\ HangUp("server", "remote_send", "client_eof")
  /\ IF stage = 5 THEN remoteLen' = 0 /\ UNCHANGED serverLen
                  ELSE serverLen' = 0 /\ UNCHANGED remoteLen
  /\ UNCHANGED <<connected, stage, remoteBuf, serverBuf, decoder, cRead, fRead,
                 peers, seen, whole, reply>>

ServerRecvError ==
  /\ "server_recv" \in active /\ "server" \in ptr
  /\ clientEnd = "rst"
  /\ Close(Both("server"), "abort")
  /\ UNCHANGED <<upBuf, downBuf, cRead, fRead, peers, seen, whole, reply>>

(* Stage 0: whatever arrived is taken for the greeting; the answer's fate  *)
(* is not looked at.                                                       *)
ServerRecvGreeting ==
  /\ "server_recv" \in active /\ "server" \in ptr /\ stage = 0
  /\ \E r \in 1..BufSize :
       /\ cRead + r <= cSent
       /\ cRead' = cRead + r
       /\ whole' = IF r = GreetLen THEN whole \cup {"greeting"} ELSE whole
  /\ stage' = 1
  /\ serverBuf' = cRead
  /\ UNCHANGED <<live, ptr, active, connected, upBuf, serverLen, decoder, fRead,
                 peers, seen, reply, ended>>

(* Stage 1: what arrived is taken for the request, and r bytes of it are   *)
(* now in server->buf.                                                     *)
TakeRequest ==
  /\ "server_recv" \in active /\ "server" \in ptr /\ stage = 1
  /\ \E r \in 1..BufSize :
       /\ cRead + r <= cSent
       /\ cRead' = cRead + r
       /\ whole' = IF r = ReqLen THEN whole \cup {"request"} ELSE whole
  /\ serverBuf' = cRead

(* A command other than connect, an address that is neither IPv4 nor a     *)
(* domain name, a header that send_encrypt could not send whole, or a      *)
(* reply of which send took 0 to 9 of the 10 bytes: both ends go.          *)
ServerRecvRefused ==
  /\ TakeRequest
  /\ Close(Both("server"), "abort")
  /\ UNCHANGED <<upBuf, serverLen, decoder, fRead, peers, seen, reply>>

(* The header has gone out and the reply too, or send returned -1: r is    *)
(* signed, reply_size is not, and r < reply_size is then false.            *)
ServerRecvRequest ==
  /\ TakeRequest
  /\ farEnd # "rst"
  /\ reply' = IF clientEnd = "rst" THEN "lost" ELSE "full"
  /\ stage' = 5
  /\ active' = active \cup {"remote_recv"}
  /\ UNCHANGED <<live, ptr, connected, upBuf, serverLen, decoder, fRead, peers,
                 seen, ended>>

(* Stage 5: r bytes into remote->buf and on to the far end, of which it    *)
(* took w.                                                                 *)
ServerRecvData ==
  /\ "server_recv" \in active /\ "server" \in ptr /\ stage = 5
  /\ \E r \in 1..BufSize, w \in 0..BufSize :
       /\ cRead + r <= cSent
       /\ Accepts(farEnd, r, w)
       /\ cRead' = cRead + r
       /\ ToFar(cRead, w)
       /\ IF w = r
            THEN /\ remoteBuf' = cRead
                 /\ UNCHANGED <<remoteLen, active>>
            ELSE /\ remoteBuf' = Moved(cRead, w)
                 /\ remoteLen' = Rest(r, w)
                 /\ Switch("server_recv", "remote_send")
  /\ UNCHANGED <<live, ptr, connected, stage, downBuf, fRead, peers, whole,
                 reply, ended>>

ServerRecvSendError ==
  /\ "server_recv" \in active /\ "server" \in ptr /\ stage = 5
  /\ farEnd = "rst"
  /\ \E r \in 1..BufSize : cRead + r <= cSent /\ cRead' = cRead + r
  /\ Close(Both("server"), "abort")
  /\ UNCHANGED <<upBuf, downBuf, fRead, peers, seen, whole, reply>>

ServerRecv == \/ ServerRecvOrphan \/ ServerRecvEof \/ ServerRecvError
              \/ ServerRecvGreeting \/ ServerRecvRefused \/ ServerRecvRequest
              \/ ServerRecvData \/ ServerRecvSendError

-----------------------------------------------------------------------------
(* server_send_cb. *)

ServerSendClose ==
  /\ "server_send" \in active /\ serverLen = 0
  /\ Close(Both("server"), "abort")
  /\ UNCHANGED <<upBuf, downBuf, cRead, fRead, peers, seen, whole, reply>>

(* w = 0 is EAGAIN, a stuttering step. *)
ServerSendSome ==
  /\ "server_send" \in active /\ serverLen > 0
  /\ \E w \in 1..BufSize :
       /\ Accepts(clientEnd, serverLen, w)
       /\ ToClient(serverBuf, w)
       /\ IF w < serverLen
            THEN /\ serverBuf' = Moved(serverBuf, w)
                 /\ serverLen' = Rest(serverLen, w)
                 /\ UNCHANGED <<conn, ended>>
            ELSE /\ serverLen' = 0
                 /\ UNCHANGED serverBuf
                 /\ IF "server" \in ptr
                      THEN /\ Switch("server_send", "remote_recv")
                           /\ UNCHANGED <<live, ptr, connected, stage, ended>>
                      ELSE Close(Both("server"), "abort")
  /\ UNCHANGED <<upBuf, decoder, cRead, fRead, peers, whole, reply>>

ServerSendError ==
  /\ "server_send" \in active /\ serverLen > 0
  /\ clientEnd = "rst"
  /\ Close(Both("server"), "abort")
  /\ UNCHANGED <<upBuf, downBuf, cRead, fRead, peers, seen, whole, reply>>

ServerSend == ServerSendClose \/ ServerSendSome \/ ServerSendError

-----------------------------------------------------------------------------
(* remote_recv_cb. *)

RemoteRecvOrphan ==
  /\ "remote_recv" \in active /\ "remote" \notin ptr
  /\ fRead < fSent \/ farEnd # "open"
  /\ Close({"remote"}, "abort")
  /\ UNCHANGED <<upBuf, downBuf, cRead, fRead, peers, seen, whole, reply>>

RemoteRecvEof ==
  /\ "remote_recv" \in active /\ "remote" \in ptr
  /\ farEnd # "open" /\ fRead = fSent
  /\ HangUp("remote", "server_send", "remote_eof")
  /\ serverLen' = 0
  /\ UNCHANGED <<connected, stage, upBuf, serverBuf, decoder, cRead, fRead,
                 peers, seen, whole, reply>>

RemoteRecvError ==
  /\ "remote_recv" \in active /\ "remote" \in ptr
  /\ farEnd = "rst"
  /\ Close(Both("remote"), "abort")
  /\ UNCHANGED <<upBuf, downBuf, cRead, fRead, peers, seen, whole, reply>>

(* A bug: the IV is not taken out. *)
TakeCipherWithIV(r, pos, n) ==
  /\ "remote_recv" \in active /\ "remote" \in ptr
  /\ fRead + r <= fSent
  /\ fRead' = fRead + r
  /\ decoder = "empty" => r >= IVLen
  /\ pos = fRead /\ n = r

(* r bytes into server->buf.  decrypt_buf takes the IV out of the first    *)
(* ones; n bytes of plaintext, from stream position pos, are left to send. *)
TakeCipher(r, pos, n) ==
  /\ "remote_recv" \in active /\ "remote" \in ptr
  /\ fRead + r <= fSent
  /\ fRead' = fRead + r
  /\ IF decoder = "empty"
       THEN r >= IVLen /\ pos = fRead + IVLen /\ n + IVLen = r
       ELSE pos = fRead /\ n = r

(* Sent on to the client, which took w of the n bytes. *)
RemoteRecvData ==
  /\ \E r \in 1..BufSize, n \in 0..BufSize, w \in 0..BufSize, pos \in 0..MaxDown :
       /\ TakeCipher(r, pos, n)
       /\ Accepts(clientEnd, n, w)
       /\ decoder' = IF decoder = "empty" THEN "ready" ELSE decoder
       /\ ToClient(pos, w)
       /\ IF w = n
            THEN /\ serverBuf' = pos
                 /\ UNCHANGED <<serverLen, active>>
            ELSE /\ serverBuf' = Moved(pos, w)
                 /\ serverLen' = Rest(n, w)
                 /\ Switch("remote_recv", "server_send")
  /\ UNCHANGED <<live, ptr, connected, stage, upBuf, cRead, peers, whole, reply,
                 ended>>

(* The first recv brought less than an IV: the rest of the IV is whatever  *)
(* the buffer held, *len - iv_len wraps around.  OpenSSL takes the length  *)
(* for negative and does nothing, and all that follows decrypts to noise;  *)
(* memcpy into sodium_buf does not survive it.                             *)
RemoteRecvShortIV ==
  /\ "remote_recv" \in active /\ "remote" \in ptr /\ decoder = "empty"
  /\ Library = "sodium" \/ clientEnd # "rst"
  /\ \E r \in 1..BufSize : /\ r < IVLen /\ fRead + r <= fSent
                           /\ fRead' = fRead + r
  /\ IF Library = "sodium" THEN /\ Close(Endpoints, "crash")
                    /\ UNCHANGED <<downBuf, intact>>
               ELSE /\ decoder' = "garbled"
                    /\ serverBuf' = fRead
                    /\ UNCHANGED <<conn, serverLen, intact, ended>>
  /\ UNCHANGED <<upBuf, cRead, peers, toFar, toClient, whole, reply>>

RemoteRecvSendError ==
  /\ "remote_recv" \in active /\ "remote" \in ptr
  /\ clientEnd = "rst"
  /\ \E r \in 1..BufSize : /\ r >= IVLen \/ decoder # "empty" \/ Library # "sodium"
                           /\ fRead + r <= fSent /\ fRead' = fRead + r
  /\ Close(Both("remote"), "abort")
  /\ UNCHANGED <<upBuf, downBuf, cRead, peers, seen, whole, reply>>

RemoteRecv == \/ RemoteRecvOrphan \/ RemoteRecvEof \/ RemoteRecvError
              \/ RemoteRecvData \/ RemoteRecvShortIV \/ RemoteRecvSendError

-----------------------------------------------------------------------------
(* remote_send_cb. *)

RemoteSendConnected ==
  /\ "remote_send" \in active /\ connected = 0
  /\ link = "up"
  /\ connected' = 1
  /\ Switch("remote_send", "server_recv")
  /\ UNCHANGED <<live, ptr, stage, upBuf, downBuf, cRead, fRead, peers, seen,
                 whole, reply, ended>>

(* getpeername fails. *)
RemoteSendRefused ==
  /\ "remote_send" \in active /\ connected = 0
  /\ link = "refused" \/ farEnd = "rst"
  /\ Close(Both("remote"), "abort")
  /\ UNCHANGED <<upBuf, downBuf, cRead, fRead, peers, seen, whole, reply>>

RemoteSendClose ==
  /\ "remote_send" \in active /\ connected = 1 /\ remoteLen = 0
  /\ Close(Both("remote"), "abort")
  /\ UNCHANGED <<upBuf, downBuf, cRead, fRead, peers, seen, whole, reply>>

(* When the last byte is out, buf_len keeps its old value. *)
RemoteSendSome ==
  /\ "remote_send" \in active /\ connected = 1 /\ remoteLen > 0
  /\ \E w \in 1..BufSize :
       /\ Accepts(farEnd, remoteLen, w)
       /\ ToFar(remoteBuf, w)
       /\ IF w < remoteLen
            THEN /\ remoteBuf' = Moved(remoteBuf, w)
                 /\ remoteLen' = Rest(remoteLen, w)
                 /\ UNCHANGED <<conn, ended>>
            ELSE /\ UNCHANGED upBuf
                 /\ IF "remote" \in ptr
                      THEN /\ Switch("remote_send", "server_recv")
                           /\ UNCHANGED <<live, ptr, connected, stage, ended>>
                      ELSE Close(Both("remote"), "abort")
  /\ UNCHANGED <<downBuf, cRead, fRead, peers, whole, reply>>

RemoteSendError ==
  /\ "remote_send" \in active /\ connected = 1 /\ remoteLen > 0
  /\ farEnd = "rst"
  /\ Close(Both("remote"), "abort")
  /\ UNCHANGED <<upBuf, downBuf, cRead, fRead, peers, seen, whole, reply>>

RemoteSend == \/ RemoteSendConnected \/ RemoteSendRefused \/ RemoteSendClose
              \/ RemoteSendSome \/ RemoteSendError

-----------------------------------------------------------------------------
Peers == \/ ClientSend \/ ClientClose \/ ClientReset
         \/ FarSend \/ FarClose \/ FarReset \/ ConnectDone

(* The connection is over: nothing is allocated and nothing will be. *)
Over == live = {} /\ link # "none" /\ UNCHANGED vars

Next == Peers \/ Accept \/ ServerRecv \/ ServerSend \/ RemoteRecv \/ RemoteSend
        \/ Over

Spec == Init /\ [][Next]_vars

(* ev_run is level triggered and serves every pending watcher in each      *)
(* iteration, so a callback that stays enabled runs.  That a send makes    *)
(* progress in the end assumes that the peer keeps reading its socket;     *)
(* that a connect resolves is the kernel's timeout.                        *)
Fairness ==
  /\ WF_vars(Accept) /\ WF_vars(ConnectDone)
  /\ WF_vars(ServerRecv) /\ WF_vars(ServerSend)
  /\ WF_vars(RemoteRecv) /\ WF_vars(RemoteSend)

FairSpec == Spec /\ Fairness

-----------------------------------------------------------------------------
(* No callback follows a pointer into a freed struct: a started watcher    *)
(* lives in an allocated struct, a non-NULL pointer between the two        *)
(* structs has an allocated target and is mutual, and remote_send_cb,      *)
(* which uses remote->server unchecked while connecting, finds it there.   *)
MemorySafe ==
  /\ \A e \in ptr : {e, Peer(e)} \subseteq live /\ Peer(e) \in ptr
  /\ \A e \in Endpoints : active \cap WatchersOf({e}) # {} => e \in live
  /\ "remote_send" \in active /\ connected = 0 => "remote" \in ptr

(* The sharing of each buffer between receive buffer and backlog is safe:  *)
(* the watcher that fills it and the one that drains it are never started  *)
(* together.                                                               *)
BufferExclusive ==
  /\ ~ {"server_recv", "remote_send"} \subseteq active
  /\ ~ {"remote_recv", "server_send"} \subseteq active

(* No struct is left without a callback to free it.  A struct that has     *)
(* lost its peer has its write watcher started with buf_len 0, the order   *)
(* to close; a connection in its relaying stage watches both directions.   *)
NotStranded ==
  /\ live = {"server"} => "server_send" \in active /\ serverLen = 0
  /\ live = {"remote"} => "remote_send" \in active /\ remoteLen = 0 /\ connected = 1
  /\ live = Endpoints => active # {}
  /\ live = Endpoints /\ stage = 5 =>
       /\ {"server_recv", "remote_send"} \cap active # {}
       /\ {"remote_recv", "server_send"} \cap active # {}

(* While both ends are there, every byte taken from one socket has been    *)
(* accepted by the other or is in the backlog a started watcher drains;    *)
(* a buf_len left over from an earlier backlog is never counted again.     *)
Backlog(w, n) == IF w \in active THEN n ELSE 0

NoByteLost ==
  live = Endpoints /\ stage = 5 =>
    /\ Framed => toFar + Backlog("remote_send", remoteLen) = cRead
    /\ decoder = "ready" => toClient + Backlog("server_send", serverLen) = fRead

(* Each receiver sees a gapless, duplicate-free prefix of the sender's     *)
(* stream: going up if the handshake messages arrived one per recv, coming *)
(* down if the IV arrived in one.                                          *)
StreamsIntact ==
  /\ Framed => "up" \in intact
  /\ decoder # "garbled" => "down" \in intact

(* A callback receives into a shared buffer only when everything received  *)
(* into it before has gone out.                                            *)
NoOverwrite ==
  [][/\ cRead' # cRead /\ stage = 5 /\ Framed => toFar = cRead
     /\ fRead' # fRead /\ decoder = "ready" => toClient = fRead]_vars

(* The abstract pipe each direction implements.  Its mode is read off the  *)
(* stage, the framing and the way the connection ended.                    *)
UpMode ==
  IF stage = 5 /\ Framed /\ ended = "client_eof" THEN "done"
  ELSE IF ended # "no" THEN "aborted"
  ELSE IF stage # 5 THEN "shut"
  ELSE IF Framed THEN "open" ELSE "spoiled"

DownMode ==
  IF decoder = "ready" /\ ended = "remote_eof" THEN "done"
  ELSE IF ended # "no" THEN "aborted"
  ELSE IF stage # 5 THEN "shut"
  ELSE IF decoder # "garbled" THEN "open" ELSE "spoiled"

Up   == INSTANCE Pipe WITH Start <- Handshake, mode <- UpMode,
                           sent <- cSent, got <- toFar
Down == INSTANCE Pipe WITH Start <- IVLen, mode <- DownMode,
                           sent <- fSent, got <- toClient

(* Each direction is a pipe: in order, gapless, complete at a graceful end *)
(* (the client's EOF found everything it sent passed on; so did the far    *)
(* end's).                                                                 *)
UpIsPipe   == Up!Spec
DownIsPipe == Down!Spec

(* A connection whose client has gone is freed completely, whatever was    *)
(* buffered; so is one that was relaying when the far end went.            *)
Freed ==
  /\ clientEnd # "open" ~> live = {}
  /\ farEnd # "open" /\ stage = 5 ~> live = {}

(* What a peer has sent is passed on, unless one end goes away first: the  *)
(* stopping and starting of watchers never leaves bytes behind.            *)
Delivered ==
  /\ \A p \in 1..MaxUp :
       stage = 5 /\ Framed /\ cSent = p ~> toFar >= p \/ live # Endpoints
  /\ \A p \in 1..MaxDown :
       stage = 5 /\ fSent = p ~> \/ toClient >= p \/ live # Endpoints
                                 \/ decoder = "garbled"

(* The connection starts relaying only after the client has been sent the  *)
(* reply to its request.                                                   *)
ReplyBeforeRelay == stage = 5 => reply = "full"
=============================================================================
