------------------------------ MODULE EventLoop ------------------------------
(***************************************************************************)
(* libev's loop as local.m uses it: ev_io watchers of one priority over    *)
(* the select backend, the only one libev recommends on Apple's systems.   *)
(*                                                                         *)
(* The program starts and stops watchers, opens and closes descriptors, in *)
(* the middle of callbacks; the kernel's set is brought in line only once  *)
(* per iteration, and events already collected wait in a queue meanwhile.  *)
(* What Relay takes for granted is shown here: a callback runs only for a  *)
(* watcher that is started, and one that stays started on a descriptor     *)
(* that stays ready runs.                                                  *)
(***************************************************************************)
EXTENDS Naturals, Sequences, FiniteSets

CONSTANTS Fds,       \* the descriptors
          Listener,  \* the one local_main listens on
          NoOne      \* libev's pending_w, and "no callback is running"

Events == {"READ", "WRITE"}

(* The recv_ctx->io and send_ctx->io of the struct that owns a descriptor. *)
Watchers == Fds \X Events

ASSUME EventLoopAssumption ==
  /\ Listener \in Fds
  /\ NoOne \notin Watchers

VARIABLES
  open,       \* descriptors the program holds, each with its two watchers
  active,     \* the watchers with w->active, in the lists anfds[fd].head
  fresh,      \* the watchers with EV__IOFDSET in w->events
  pending,    \* w->pending: 0, or the index of the watcher's entry below
  pendings,   \* pendings[0]: the watchers whose callbacks are due
  events,     \* anfds[fd].events: what the backend was asked for
  reify,      \* anfds[fd].reify
  fdchanges,  \* the descriptors in fdchanges[]
  pollset,    \* vec_ri and vec_wi
  ready,      \* the kernel: what each descriptor is ready for
  phase,      \* where ev_run is in its iteration
  found,      \* the watchers of the events select returned, not yet fed
  running     \* the watcher whose callback runs, or NoOne

queue  == <<pending, pendings>>
kernel == <<events, reify, fdchanges, pollset>>
vars   == <<open, active, fresh, queue, kernel, ready, phase, found, running>>

Of(fd) == {fd} \X Events

TypeOK ==
  /\ open \subseteq Fds /\ Listener \in open
  /\ active \subseteq Watchers /\ fresh \subseteq Watchers
  /\ pending \in [Watchers -> Nat]
  /\ pendings \in Seq(Watchers \cup {NoOne})
  /\ events \in [Fds -> SUBSET Events] /\ pollset \in [Fds -> SUBSET Events]
  /\ ready \in [Fds -> SUBSET Events]
  /\ reify \in [Fds -> SUBSET {"REIFY", "IOFDSET"}]
  /\ fdchanges \subseteq Fds
  /\ phase \in {"reify", "poll", "feed", "invoke"}
  /\ found \subseteq Watchers
  /\ running \in Watchers \cup {NoOne}

(* local_main has started the listener's watcher and entered ev_run. *)
Init ==
  /\ open = {Listener} /\ active = {<<Listener, "READ">>} /\ fresh = {}
  /\ pending = [w \in Watchers |-> 0] /\ pendings = <<>>
  /\ events = [fd \in Fds |-> {}] /\ pollset = [fd \in Fds |-> {}]
  /\ reify = [fd \in Fds |-> IF fd = Listener THEN {"REIFY", "IOFDSET"} ELSE {}]
  /\ fdchanges = {Listener}
  /\ ready = [fd \in Fds |-> {}]
  /\ phase = "reify" /\ found = {} /\ running = NoOne

-----------------------------------------------------------------------------
(* The queue of pending watchers.                                          *)

FeedEvent(w) ==
  IF pending[w] # 0 THEN UNCHANGED queue
  ELSE /\ pendings' = Append(pendings, w)
       /\ pending' = [pending EXCEPT ![w] = Len(pendings) + 1]

(* A bug: the watchers forget their entries, the entries stay. *)
ClearOnlyWatchers(ws) ==
  /\ pendings' = pendings
  /\ pending' = [w \in Watchers |-> IF w \in ws THEN 0 ELSE pending[w]]

(* clear_pending of each of a set of watchers.  The entry stays, its       *)
(* watcher replaced by one whose callback does nothing.                    *)
ClearPending(ws) ==
  /\ pendings' = [i \in 1..Len(pendings) |->
                    IF pendings[i] \in ws /\ pending[pendings[i]] = i
                    THEN NoOne ELSE pendings[i]]
  /\ pending' = [w \in Watchers |-> IF w \in ws THEN 0 ELSE pending[w]]

(* A bug: a descriptor is noted once per life of the array. *)
FdChangeOnce(fd, flags) ==
  /\ reify' = [reify EXCEPT ![fd] = @ \cup flags]
  /\ fdchanges' = IF reify[fd] = {} /\ events[fd] = {}
                  THEN fdchanges \cup {fd} ELSE fdchanges

(* fd_change: note the descriptor for fd_reify, unless that is done. *)
FdChange(fd, flags) ==
  /\ reify' = [reify EXCEPT ![fd] = @ \cup flags]
  /\ fdchanges' = IF reify[fd] = {} THEN fdchanges \cup {fd} ELSE fdchanges

-----------------------------------------------------------------------------
(* What a callback does.  Callbacks of local.m start and stop the watchers *)
(* of either end, close an end, and accept or make sockets.                *)

(* ev_io_start of a watcher that is not active. *)
IoStart(w) ==
  /\ running # NoOne
  /\ w \notin active /\ w[1] \in open \ {Listener}
  /\ active' = active \cup {w}
  /\ FdChange(w[1], {"REIFY"} \cup IF w \in fresh THEN {"IOFDSET"} ELSE {})
  /\ fresh' = fresh \ {w}
  /\ UNCHANGED <<open, queue, events, pollset, ready, phase, found, running>>

(* ev_io_stop; of a watcher that is not active it only clears.  The        *)
(* listener is never stopped.                                              *)
IoStop(w) ==
  /\ running # NoOne
  /\ w[1] \in open \ {Listener}
  /\ ClearPending({w})
  /\ active' = active \ {w}
  /\ IF w \in active THEN FdChange(w[1], {"REIFY"})
                     ELSE UNCHANGED <<reify, fdchanges>>
  /\ UNCHANGED <<open, fresh, events, pollset, ready, phase, found, running>>

(* close_and_free_server and close_and_free_remote: both watchers are      *)
(* stopped, the descriptor closed, the struct with the watchers freed.     *)
CloseFd(fd) ==
  /\ running # NoOne
  /\ fd \in open \ {Listener}
  /\ ClearPending(Of(fd))
  /\ active' = active \ Of(fd)
  /\ IF active \cap Of(fd) # {} THEN FdChange(fd, {"REIFY"})
                                ELSE UNCHANGED <<reify, fdchanges>>
  /\ open' = open \ {fd}
  /\ ready' = [ready EXCEPT ![fd] = {}]
  /\ UNCHANGED <<fresh, events, pollset, phase, found, running>>

(* new_server and new_remote: accept or socket returned a number that may  *)
(* have been in use a moment ago, and ev_io_init makes two new watchers.   *)
OpenFd(fd) ==
  /\ running # NoOne
  /\ fd \notin open
  /\ open' = open \cup {fd}
  /\ fresh' = fresh \cup Of(fd)
  /\ pending' = [w \in Watchers |-> IF w[1] = fd THEN 0 ELSE pending[w]]
  /\ UNCHANGED <<active, pendings, kernel, ready, phase, found, running>>

Return ==
  /\ running # NoOne
  /\ running' = NoOne
  /\ UNCHANGED <<open, active, fresh, queue, kernel, ready, phase, found>>

Callback ==
  \/ \E w \in Watchers : IoStart(w) \/ IoStop(w)
  \/ \E fd \in Fds : CloseFd(fd) \/ OpenFd(fd)

-----------------------------------------------------------------------------
(* One iteration of ev_run.                                                *)

(* A bug: a descriptor's first watcher decides for it. *)
WantedByFirst(fd) ==
  LET mine == active \cap Of(fd) IN
  IF mine = {} THEN {} ELSE {(CHOOSE w \in mine : TRUE)[2]}

(* The events the started watchers of a descriptor ask for. *)
Wanted(fd) == {w[2] : w \in active \cap Of(fd)}

(* fd_reify, calling select_modify where the wanted events changed: with   *)
(* select, a number that was closed and reused needs nothing else.  Each   *)
(* descriptor is noted once, so their order is of no account.              *)
FdReify ==
  /\ phase = "reify"
  /\ events' = [fd \in Fds |->
                  IF fd \in fdchanges THEN Wanted(fd) ELSE events[fd]]
  /\ pollset' = [fd \in Fds |->
                   IF fd \in fdchanges /\ events[fd] # Wanted(fd)
                   THEN Wanted(fd) ELSE pollset[fd]]
  /\ reify' = [fd \in Fds |-> IF fd \in fdchanges THEN {} ELSE reify[fd]]
  /\ fdchanges' = {}
  /\ phase' = "poll"
  /\ UNCHANGED <<open, active, fresh, queue, ready, found, running>>

(* select_poll returns what is ready of what it was asked for. *)
Poll ==
  /\ phase = "poll"
  /\ \E fd \in Fds : pollset[fd] \cap ready[fd] # {}
  /\ found' = {w \in active : /\ w[2] \in pollset[w[1]] \cap ready[w[1]]
                              /\ reify[w[1]] = {}}
  /\ phase' = "feed"
  /\ UNCHANGED <<open, active, fresh, queue, kernel, ready, running>>

(* select was interrupted by a signal, or waited for its longest time. *)
PollInVain ==
  /\ phase = "poll"
  /\ phase' = "feed"
  /\ UNCHANGED <<open, active, fresh, queue, kernel, ready, found, running>>

(* fd_event, for one watcher of one of the descriptors that were reported. *)
(* The order is that of the bits and of the lists; it is left open here.   *)
Feed(w) ==
  /\ phase = "feed" /\ w \in found
  /\ FeedEvent(w)
  /\ found' = found \ {w}
  /\ UNCHANGED <<open, active, fresh, kernel, ready, phase, running>>

FeedDone ==
  /\ phase = "feed" /\ found = {}
  /\ phase' = "invoke"
  /\ UNCHANGED <<open, active, fresh, queue, kernel, ready, found, running>>

(* ev_invoke_pending takes the last entry and calls back. *)
InvokePending ==
  /\ phase = "invoke" /\ running = NoOne /\ pendings # <<>>
  /\ LET w == pendings[Len(pendings)] IN
       /\ pendings' = SubSeq(pendings, 1, Len(pendings) - 1)
       /\ pending' = IF w = NoOne THEN pending
                     ELSE [pending EXCEPT ![w] = 0]
       /\ running' = w
  /\ UNCHANGED <<open, active, fresh, kernel, ready, phase, found>>

(* The listener stays active, so ev_run goes round for ever. *)
Iterate ==
  /\ phase = "invoke" /\ running = NoOne /\ pendings = <<>>
  /\ phase' = "reify"
  /\ UNCHANGED <<open, active, fresh, queue, kernel, ready, found, running>>

(* The kernel: data or room comes or goes on an open descriptor. *)
Readiness(fd) ==
  /\ fd \in open
  /\ \E e \in SUBSET Events : ready' = [ready EXCEPT ![fd] = e]
  /\ UNCHANGED <<open, active, fresh, queue, kernel, phase, found, running>>

EvRun ==
  \/ FdReify \/ Poll \/ PollInVain \/ FeedDone \/ InvokePending \/ Iterate
  \/ \E w \in Watchers : Feed(w)

Next ==
  \/ EvRun \/ Callback \/ Return
  \/ \E fd \in Fds : Readiness(fd)

(* Callbacks return; select, given something to return, is not interrupted *)
(* every time.  Nothing is assumed of the kernel's sockets.                *)
Fairness ==
  /\ WF_vars(FdReify) /\ SF_vars(Poll) /\ WF_vars(PollInVain)
  /\ WF_vars(\E w \in Watchers : Feed(w)) /\ WF_vars(FeedDone)
  /\ WF_vars(InvokePending) /\ WF_vars(Iterate) /\ WF_vars(Return)

Spec == Init /\ [][Next]_vars
FairSpec == Spec /\ Fairness

-----------------------------------------------------------------------------
(* A watcher that is pending is started and has its own entry in the       *)
(* queue, and an entry that still names a watcher is that watcher's: after *)
(* any stopping, closing and reusing of numbers in between, nothing in the *)
(* queue points at a freed struct or at its successor.                     *)
PendingSound ==
  /\ \A w \in Watchers : pending[w] # 0 =>
       /\ w \in active
       /\ pending[w] <= Len(pendings) /\ pendings[pending[w]] = w
  /\ \A i \in 1..Len(pendings) :
       pendings[i] # NoOne => pending[pendings[i]] = i

(* When select is called, it is asked for exactly the events of the        *)
(* started watchers, so for open descriptors only: the code for EBADF,     *)
(* which kills watchers, is never reached.                                 *)
PollSetRight ==
  phase = "poll" => \A fd \in Fds :
    /\ pollset[fd] = Wanted(fd)
    /\ pollset[fd] # {} => fd \in open

(* A callback is only ever invoked for a watcher that is started, on a     *)
(* descriptor that is open: what Relay assumes of every callback.          *)
CallbackOfStarted ==
  [][running = NoOne /\ running' # NoOne =>
       running' \in active /\ running'[1] \in open]_vars

(* A watcher that stays started on a descriptor that stays ready is called *)
(* back again and again: the fairness Relay assumes of its callbacks.      *)
Served ==
  \A w \in Watchers :
    <>[](w \in active /\ w[2] \in ready[w[1]]) => []<>(running = w)
=============================================================================
