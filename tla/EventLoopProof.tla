--------------------------- MODULE EventLoopProof ---------------------------
(***************************************************************************)
(* What EventLoop promises, for any set of descriptors.  The invariant     *)
(* says which part of libev's bookkeeping is allowed to lag behind which:  *)
(* the queue never behind the started watchers, the kernel's set only for  *)
(* descriptors that are noted in fdchanges.                                *)
(***************************************************************************)
EXTENDS EventLoop, TLAPS

(* Started watchers belong to open descriptors. *)
Owned == active \subseteq open \X Events

(* A descriptor has a reify flag exactly if fd_reify will look at it. *)
Noted == \A fd \in Fds : fd \in fdchanges <=> reify[fd] # {}

(* What libev asked for is what select is asked for, and only noted        *)
(* descriptors are out of step with their watchers.                        *)
InStep ==
  /\ \A fd \in Fds : pollset[fd] = events[fd]
  /\ \A fd \in Fds : fd \notin fdchanges => events[fd] = Wanted(fd)

(* Which parts of an iteration leave what behind. *)
Phases ==
  /\ phase # "invoke" => running = NoOne
  /\ phase = "poll" => fdchanges = {}
  /\ phase # "feed" => found = {}
  /\ phase = "feed" => fdchanges = {}
  /\ found \subseteq active

LoopInv == TypeOK /\ Owned /\ Noted /\ InStep /\ Phases /\ PendingSound

LEMMA InitInv == Init => LoopInv
  <1> SUFFICES ASSUME Init PROVE LoopInv
    OBVIOUS
  <1> USE EventLoopAssumption
  <1>1. TypeOK
    BY DEF Init, TypeOK, Watchers, Events
  <1>2. Owned
    BY DEF Init, Owned, Events
  <1>3. Noted
    BY DEF Init, Noted
  <1>4. InStep
    BY DEF Init, InStep, Wanted, Of, Events
  <1>5. Phases
    BY DEF Init, Phases
  <1>6. PendingSound
    BY DEF Init, PendingSound
  <1> QED
    BY <1>1, <1>2, <1>3, <1>4, <1>5, <1>6 DEF LoopInv

-----------------------------------------------------------------------------
(* Clearing keeps the queue sound if the watchers cleared include all that *)
(* are stopped.                                                            *)
LEMMA ClearKeeps ==
  ASSUME LoopInv, NEW ws \in SUBSET Watchers, ClearPending(ws),
         active \ ws \subseteq active'
  PROVE  /\ pending' \in [Watchers -> Nat]
         /\ pendings' \in Seq(Watchers \cup {NoOne})
         /\ PendingSound'
  <1> USE EventLoopAssumption DEF LoopInv, TypeOK
  <1> DEFINE n == Len(pendings)
  <1>1. n \in Nat /\ \A i \in 1..n : pendings[i] \in Watchers \cup {NoOne}
    OBVIOUS
  <1>2. pending' \in [Watchers -> Nat]
    BY DEF ClearPending
  <1>3. pendings' \in Seq(Watchers \cup {NoOne}) /\ Len(pendings') = n
    BY <1>1 DEF ClearPending
  <1>4. \A i \in 1..n : pendings'[i] =
          IF pendings[i] \in ws /\ pending[pendings[i]] = i
          THEN NoOne ELSE pendings[i]
    BY <1>1 DEF ClearPending
  <1>5. ASSUME NEW w \in Watchers, pending'[w] # 0
        PROVE  /\ w \in active' /\ pending'[w] <= n
               /\ pendings'[pending'[w]] = w
    <2>1. w \notin ws /\ pending'[w] = pending[w]
      BY <1>5 DEF ClearPending
    <2>2. /\ w \in active /\ pending[w] <= n
          /\ pendings[pending[w]] = w
      BY <1>5, <2>1 DEF PendingSound
    <2>3. pending[w] \in 1..n
      BY <1>5, <2>1, <2>2
    <2> QED
      BY <2>1, <2>2, <2>3, <1>4
  <1>6. ASSUME NEW i \in 1..n, pendings'[i] # NoOne
        PROVE  pending'[pendings'[i]] = i
    <2>1. pendings'[i] = pendings[i] /\ pendings[i] \in Watchers
      BY <1>1, <1>4, <1>6
    <2>2. pending[pendings[i]] = i
      BY <2>1, <1>6 DEF PendingSound
    <2>3. pendings[i] \notin ws
      BY <1>4, <1>6, <2>2
    <2> QED
      BY <2>1, <2>2, <2>3 DEF ClearPending
  <1>7. PendingSound'
    BY <1>3, <1>5, <1>6 DEF PendingSound
  <1> QED
    BY <1>2, <1>3, <1>7

(* A change of a descriptor's watchers that is noted keeps the rest in     *)
(* step.                                                                   *)
LEMMA ChangeKeeps ==
  ASSUME LoopInv, NEW fd \in Fds, NEW flags \in SUBSET {"REIFY", "IOFDSET"},
         flags # {}, FdChange(fd, flags), UNCHANGED <<events, pollset>>,
         \A w \in Watchers : w[1] # fd => (w \in active' <=> w \in active)
  PROVE  /\ reify' \in [Fds -> SUBSET {"REIFY", "IOFDSET"}]
         /\ fdchanges' \subseteq Fds
         /\ Noted' /\ InStep'
  <1> USE DEF LoopInv, TypeOK
  <1>1. reify' \in [Fds -> SUBSET {"REIFY", "IOFDSET"}] /\ fdchanges' \subseteq Fds
    BY DEF FdChange
  <1>2. fd \in fdchanges'
    BY DEF FdChange, Noted
  <1>3. Noted'
    BY <1>1 DEF FdChange, Noted
  <1>4. ASSUME NEW g \in Fds, g \notin fdchanges'
        PROVE  events'[g] = (Wanted(g))'
    <2>1. g # fd /\ g \notin fdchanges
      BY <1>2, <1>4 DEF FdChange
    <2>2. active \cap Of(g) = active' \cap Of(g)
      BY <2>1 DEF Of, Watchers, Events
    <2> QED
      BY <2>1, <2>2 DEF InStep, Wanted
  <1>5. InStep'
    BY <1>4 DEF InStep
  <1> QED
    BY <1>1, <1>3, <1>5

(* Parts of the invariant that a step does not touch. *)
LEMMA SameKernel ==
  ASSUME LoopInv, UNCHANGED kernel, active' = active
  PROVE  Noted' /\ InStep'
  BY DEF LoopInv, kernel, Noted, InStep, Wanted

LEMMA SameQueue ==
  ASSUME LoopInv, UNCHANGED queue, active \subseteq active'
  PROVE  PendingSound'
  BY DEF LoopInv, queue, PendingSound

-----------------------------------------------------------------------------
(* One lemma per action.                                                   *)

LEMMA StepIoStart ==
  ASSUME LoopInv, NEW w \in Watchers, IoStart(w)
  PROVE  LoopInv'
  <1> USE EventLoopAssumption
  <1> DEFINE flags == {"REIFY"} \cup IF w \in fresh THEN {"IOFDSET"} ELSE {}
  <1>1. w[1] \in Fds /\ w[2] \in Events /\ w = <<w[1], w[2]>>
    BY DEF Watchers
  <1>2. /\ w[1] \in open /\ running # NoOne
        /\ active' = active \cup {w} /\ fresh' = fresh \ {w}
        /\ FdChange(w[1], flags)
        /\ UNCHANGED <<open, queue, events, pollset, ready, phase, found, running>>
    BY DEF IoStart
  <1>3. flags \in SUBSET {"REIFY", "IOFDSET"} /\ flags # {}
    OBVIOUS
  <1>4. \A v \in Watchers : v[1] # w[1] => (v \in active' <=> v \in active)
    BY <1>2
  <1> HIDE DEF flags
  <1>5. /\ reify' \in [Fds -> SUBSET {"REIFY", "IOFDSET"}]
        /\ fdchanges' \subseteq Fds /\ Noted' /\ InStep'
    BY <1>1, <1>2, <1>3, <1>4, ChangeKeeps
  <1>6. PendingSound'
    BY <1>2, SameQueue
  <1>7. TypeOK'
    BY <1>2, <1>5 DEF LoopInv, TypeOK, queue
  <1>8. Owned'
    BY <1>1, <1>2 DEF LoopInv, Owned
  <1>9. Phases'
    BY <1>2 DEF LoopInv, Phases
  <1> QED
    BY <1>5, <1>6, <1>7, <1>8, <1>9 DEF LoopInv

LEMMA StepIoStop ==
  ASSUME LoopInv, NEW w \in Watchers, IoStop(w)
  PROVE  LoopInv'
  <1> USE EventLoopAssumption
  <1>1. w[1] \in Fds
    BY DEF Watchers
  <1>2. /\ running # NoOne /\ ClearPending({w}) /\ active' = active \ {w}
        /\ UNCHANGED <<open, fresh, events, pollset, ready, phase, found, running>>
        /\ IF w \in active THEN FdChange(w[1], {"REIFY"})
                           ELSE UNCHANGED <<reify, fdchanges>>
    BY DEF IoStop
  <1>3. /\ reify' \in [Fds -> SUBSET {"REIFY", "IOFDSET"}]
        /\ fdchanges' \subseteq Fds /\ Noted' /\ InStep'
    <2>1. CASE w \in active
      <3>1. \A v \in Watchers : v[1] # w[1] => (v \in active' <=> v \in active)
        BY <1>2
      <3>2. {"REIFY"} \in SUBSET {"REIFY", "IOFDSET"} /\ {"REIFY"} # {}
        OBVIOUS
      <3> QED
        BY <1>1, <1>2, <2>1, <3>1, <3>2, ChangeKeeps
    <2>2. CASE w \notin active
      <3>1. active' = active /\ UNCHANGED kernel
        BY <1>2, <2>2 DEF kernel
      <3> QED
        BY <3>1, SameKernel DEF LoopInv, TypeOK, kernel
    <2> QED
      BY <2>1, <2>2
  <1>4. /\ pending' \in [Watchers -> Nat]
        /\ pendings' \in Seq(Watchers \cup {NoOne})
        /\ PendingSound'
    <2>1. {w} \in SUBSET Watchers /\ active \ {w} \subseteq active'
      BY <1>2
    <2> QED
      BY <1>2, <2>1, ClearKeeps
  <1>5. TypeOK'
    BY <1>2, <1>3, <1>4 DEF LoopInv, TypeOK
  <1>6. Owned'
    BY <1>2 DEF LoopInv, Owned
  <1>7. Phases'
    <2>1. phase = "invoke" /\ found = {}
      BY <1>2 DEF LoopInv, Phases
    <2> QED
      BY <1>2, <2>1 DEF LoopInv, Phases
  <1> QED
    BY <1>3, <1>4, <1>5, <1>6, <1>7 DEF LoopInv

LEMMA StepCloseFd ==
  ASSUME LoopInv, NEW fd \in Fds, CloseFd(fd)
  PROVE  LoopInv'
  <1> USE EventLoopAssumption
  <1>1. /\ running # NoOne /\ fd \in open \ {Listener}
        /\ ClearPending(Of(fd)) /\ active' = active \ Of(fd)
        /\ open' = open \ {fd} /\ ready' = [ready EXCEPT ![fd] = {}]
        /\ UNCHANGED <<fresh, events, pollset, phase, found, running>>
        /\ IF active \cap Of(fd) # {} THEN FdChange(fd, {"REIFY"})
                                      ELSE UNCHANGED <<reify, fdchanges>>
    BY DEF CloseFd
  <1>2. /\ reify' \in [Fds -> SUBSET {"REIFY", "IOFDSET"}]
        /\ fdchanges' \subseteq Fds /\ Noted' /\ InStep'
    <2>1. CASE active \cap Of(fd) # {}
      <3>1. \A v \in Watchers : v[1] # fd => (v \in active' <=> v \in active)
        BY <1>1 DEF Of
      <3>2. {"REIFY"} \in SUBSET {"REIFY", "IOFDSET"} /\ {"REIFY"} # {}
        OBVIOUS
      <3> QED
        BY <1>1, <2>1, <3>1, <3>2, ChangeKeeps
    <2>2. CASE active \cap Of(fd) = {}
      <3>1. active' = active /\ UNCHANGED kernel
        BY <1>1, <2>2 DEF kernel
      <3> QED
        BY <3>1, SameKernel DEF LoopInv, TypeOK, kernel
    <2> QED
      BY <2>1, <2>2
  <1>3. /\ pending' \in [Watchers -> Nat]
        /\ pendings' \in Seq(Watchers \cup {NoOne})
        /\ PendingSound'
    <2>1. Of(fd) \in SUBSET Watchers /\ active \ Of(fd) \subseteq active'
      BY <1>1 DEF Of, Watchers
    <2> QED
      BY <1>1, <2>1, ClearKeeps
  <1>4. TypeOK'
    BY <1>1, <1>2, <1>3 DEF LoopInv, TypeOK
  <1>5. Owned'
    BY <1>1 DEF LoopInv, Owned, Of
  <1>6. Phases'
    <2>1. phase = "invoke" /\ found = {}
      BY <1>1 DEF LoopInv, Phases
    <2> QED
      BY <1>1, <2>1 DEF LoopInv, Phases
  <1> QED
    BY <1>2, <1>3, <1>4, <1>5, <1>6 DEF LoopInv

LEMMA StepOpenFd ==
  ASSUME LoopInv, NEW fd \in Fds, OpenFd(fd)
  PROVE  LoopInv'
  <1> USE EventLoopAssumption
  <1>1. /\ fd \notin open /\ open' = open \cup {fd} /\ fresh' = fresh \cup Of(fd)
        /\ pending' = [w \in Watchers |-> IF w[1] = fd THEN 0 ELSE pending[w]]
        /\ UNCHANGED <<active, pendings, kernel, ready, phase, found, running>>
    BY DEF OpenFd
  <1>2. Noted' /\ InStep'
    BY <1>1, SameKernel
  <1>3. \A w \in Watchers : w[1] = fd => pending[w] = 0
    <2> SUFFICES ASSUME NEW w \in Watchers, w[1] = fd, pending[w] # 0
                 PROVE FALSE
      OBVIOUS
    <2>1. w \in active
      BY DEF LoopInv, PendingSound
    <2> QED
      BY <1>1, <2>1 DEF LoopInv, Owned
  <1>4. pending' = pending
    BY <1>1, <1>3 DEF LoopInv, TypeOK
  <1>5. PendingSound'
    <2>1. UNCHANGED queue /\ active' = active
      BY <1>1, <1>4 DEF queue
    <2> QED
      BY <2>1, SameQueue
  <1>6. TypeOK'
    BY <1>1, <1>4 DEF LoopInv, TypeOK, kernel, Of, Watchers
  <1>7. Owned'
    BY <1>1 DEF LoopInv, Owned
  <1>8. Phases'
    BY <1>1 DEF LoopInv, Phases, kernel
  <1> QED
    BY <1>2, <1>5, <1>6, <1>7, <1>8 DEF LoopInv

LEMMA StepReify ==
  ASSUME LoopInv, FdReify
  PROVE  LoopInv'
  <1> USE EventLoopAssumption
  <1>1. /\ phase = "reify" /\ phase' = "poll" /\ fdchanges' = {}
        /\ events' = [fd \in Fds |->
                        IF fd \in fdchanges THEN Wanted(fd) ELSE events[fd]]
        /\ pollset' = [fd \in Fds |->
                         IF fd \in fdchanges /\ events[fd] # Wanted(fd)
                         THEN Wanted(fd) ELSE pollset[fd]]
        /\ reify' = [fd \in Fds |-> IF fd \in fdchanges THEN {} ELSE reify[fd]]
        /\ UNCHANGED <<open, active, fresh, queue, ready, found, running>>
    BY DEF FdReify
  <1>2. \A fd \in Fds : Wanted(fd) \in SUBSET Events
    BY DEF LoopInv, TypeOK, Wanted, Of
  <1>3. TypeOK'
    <2>1. /\ events' \in [Fds -> SUBSET Events]
          /\ pollset' \in [Fds -> SUBSET Events]
      BY <1>1, <1>2 DEF LoopInv, TypeOK
    <2>2. reify' \in [Fds -> SUBSET {"REIFY", "IOFDSET"}]
      BY <1>1 DEF LoopInv, TypeOK
    <2> QED
      BY <1>1, <2>1, <2>2 DEF LoopInv, TypeOK, queue
  <1>4. Noted'
    BY <1>1 DEF LoopInv, Noted
  <1>5. InStep'
    <2>1. \A fd \in Fds : (Wanted(fd))' = Wanted(fd)
      BY <1>1 DEF Wanted
    <2>2. \A fd \in Fds : events'[fd] = Wanted(fd)
      BY <1>1 DEF LoopInv, InStep
    <2>3. \A fd \in Fds : pollset'[fd] = Wanted(fd)
      BY <1>1 DEF LoopInv, InStep
    <2> QED
      BY <2>1, <2>2, <2>3 DEF InStep
  <1>6. Owned' /\ Phases'
    BY <1>1 DEF LoopInv, Owned, Phases
  <1>7. PendingSound'
    BY <1>1, SameQueue
  <1> QED
    BY <1>3, <1>4, <1>5, <1>6, <1>7 DEF LoopInv

(* select reports started watchers only, none of them pending yet. *)
LEMMA StepPoll ==
  ASSUME LoopInv, Poll \/ PollInVain
  PROVE  LoopInv'
  <1>1. /\ phase = "poll" /\ phase' = "feed" /\ found' \subseteq active
        /\ UNCHANGED <<open, active, fresh, queue, kernel, ready, running>>
    BY DEF Poll, PollInVain, LoopInv, Phases
  <1>2. Noted' /\ InStep'
    BY <1>1, SameKernel
  <1>3. PendingSound'
    BY <1>1, SameQueue
  <1>4. TypeOK'
    BY <1>1 DEF LoopInv, TypeOK, queue, kernel
  <1>5. Owned' /\ Phases'
    BY <1>1 DEF LoopInv, Owned, Phases, kernel
  <1> QED
    BY <1>2, <1>3, <1>4, <1>5 DEF LoopInv

LEMMA StepFeed ==
  ASSUME LoopInv, NEW w \in Watchers, Feed(w)
  PROVE  LoopInv'
  <1> USE EventLoopAssumption
  <1> DEFINE n == Len(pendings)
  <1>1. /\ phase = "feed" /\ w \in found /\ FeedEvent(w)
        /\ found' = found \ {w}
        /\ UNCHANGED <<open, active, fresh, kernel, ready, phase, running>>
    BY DEF Feed
  <1>2. Noted' /\ InStep'
    BY <1>1, SameKernel
  <1>3. /\ n \in Nat
        /\ \A i \in 1..n : pendings[i] \in Watchers \cup {NoOne}
    BY DEF LoopInv, TypeOK
  <1>4. /\ pending' \in [Watchers -> Nat]
        /\ pendings' \in Seq(Watchers \cup {NoOne})
        /\ PendingSound'
    <2>1. CASE pending[w] # 0
      BY <1>1, <2>1, SameQueue DEF FeedEvent, queue, LoopInv, TypeOK
    <2>2. CASE pending[w] = 0
      <3>1. /\ pendings' = Append(pendings, w)
            /\ pending' = [pending EXCEPT ![w] = n + 1]
        BY <1>1, <2>2 DEF FeedEvent
      <3>2. /\ pendings' \in Seq(Watchers \cup {NoOne}) /\ Len(pendings') = n + 1
            /\ \A i \in 1..n : pendings'[i] = pendings[i]
            /\ pendings'[n + 1] = w
        BY <1>3, <3>1 DEF LoopInv, TypeOK
      <3>3. pending' \in [Watchers -> Nat]
        BY <1>3, <3>1 DEF LoopInv, TypeOK
      <3>4. w \in active
        BY <1>1 DEF LoopInv, Phases
      <3>5. ASSUME NEW v \in Watchers, pending'[v] # 0
            PROVE  /\ v \in active' /\ pending'[v] <= Len(pendings')
                   /\ pendings'[pending'[v]] = v
        <4>1. CASE v = w
          BY <1>1, <1>3, <3>1, <3>2, <3>4, <4>1 DEF LoopInv, TypeOK
        <4>2. CASE v # w
          <5>1. pending'[v] = pending[v]
            BY <3>1, <4>2 DEF LoopInv, TypeOK
          <5>2. /\ v \in active /\ pending[v] \in 1..n
                /\ pendings[pending[v]] = v
            BY <3>5, <5>1 DEF LoopInv, TypeOK, PendingSound
          <5> QED
            BY <1>1, <3>2, <5>1, <5>2
        <4> QED
          BY <4>1, <4>2
      <3>6. ASSUME NEW i \in 1..(n + 1), pendings'[i] # NoOne
            PROVE  pending'[pendings'[i]] = i
        <4>1. CASE i = n + 1
          BY <3>1, <3>2, <4>1 DEF LoopInv, TypeOK
        <4>2. CASE i \in 1..n
          <5>1. pendings'[i] = pendings[i] /\ pendings[i] \in Watchers
            BY <1>3, <3>2, <3>6, <4>2
          <5>2. pending[pendings[i]] = i
            BY <3>6, <4>2, <5>1 DEF LoopInv, PendingSound
          <5>3. pendings[i] # w
            BY <2>2, <4>2, <5>2
          <5> QED
            BY <3>1, <5>1, <5>2, <5>3 DEF LoopInv, TypeOK
        <4> QED
          BY <1>3, <4>1, <4>2
      <3>7. PendingSound'
        BY <3>2, <3>5, <3>6 DEF PendingSound
      <3> QED
        BY <3>2, <3>3, <3>7
    <2> QED
      BY <2>1, <2>2
  <1>5. TypeOK'
    BY <1>1, <1>4 DEF LoopInv, TypeOK, kernel
  <1>6. Owned' /\ Phases'
    BY <1>1 DEF LoopInv, Owned, Phases, kernel
  <1> QED
    BY <1>2, <1>4, <1>5, <1>6 DEF LoopInv

LEMMA WithoutLast ==
  ASSUME NEW S, NEW q \in Seq(S), NEW n \in Nat, n + 1 = Len(q)
  PROVE  /\ SubSeq(q, 1, n) \in Seq(S) /\ Len(SubSeq(q, 1, n)) = n
         /\ \A i \in 1..n : SubSeq(q, 1, n)[i] = q[i]
  OBVIOUS

(* The entry that is taken is the last one, so no index moves. *)
LEMMA StepInvoke ==
  ASSUME LoopInv, InvokePending
  PROVE  /\ LoopInv'
         /\ running' # NoOne => running' \in active /\ running'[1] \in open
  <1> USE EventLoopAssumption
  <1> DEFINE n == Len(pendings)
             p == pendings[n]
  <1>1. /\ phase = "invoke" /\ running = NoOne /\ pendings # <<>>
        /\ pendings' = SubSeq(pendings, 1, n - 1)
        /\ pending' = IF p = NoOne THEN pending ELSE [pending EXCEPT ![p] = 0]
        /\ running' = p
        /\ UNCHANGED <<open, active, fresh, kernel, ready, phase, found>>
    BY DEF InvokePending
  <1>2. n \in Nat \ {0} /\ \A i \in 1..n : pendings[i] \in Watchers \cup {NoOne}
    BY <1>1 DEF LoopInv, TypeOK
  <1>3. p \in Watchers \cup {NoOne}
    BY <1>2
  <1>4. p # NoOne => p \in active /\ pending[p] = n
    <2> SUFFICES ASSUME p # NoOne PROVE p \in active /\ pending[p] = n
      OBVIOUS
    <2>1. pending[p] = n
      BY <1>2 DEF LoopInv, PendingSound
    <2> QED
      BY <1>2, <1>3, <2>1 DEF LoopInv, PendingSound
  <1>5. p # NoOne => p[1] \in open
    BY <1>4 DEF LoopInv, Owned
  <1>6. Noted' /\ InStep'
    BY <1>1, SameKernel
  <1>7. /\ pendings' \in Seq(Watchers \cup {NoOne}) /\ Len(pendings') = n - 1
        /\ \A i \in 1..(n - 1) : pendings'[i] = pendings[i]
    <2>1. n - 1 \in Nat /\ (n - 1) + 1 = n
      BY <1>2
    <2>2. pendings \in Seq(Watchers \cup {NoOne})
      BY DEF LoopInv, TypeOK
    <2> HIDE DEF n
    <2> QED
      BY <1>1, <2>1, <2>2, WithoutLast DEF n
  <1>8. pending' \in [Watchers -> Nat]
    BY <1>1, <1>3 DEF LoopInv, TypeOK
  <1>9. ASSUME NEW v \in Watchers, pending'[v] # 0
        PROVE  /\ v \in active' /\ pending'[v] <= n - 1
               /\ pendings'[pending'[v]] = v
    <2>1. v # p /\ pending'[v] = pending[v]
      BY <1>1, <1>3, <1>9 DEF LoopInv, TypeOK
    <2>2. v \in active /\ pending[v] \in 1..n /\ pendings[pending[v]] = v
      BY <1>9, <2>1 DEF LoopInv, TypeOK, PendingSound
    <2>3. pending[v] # n
      BY <2>1, <2>2
    <2>4. pending[v] \in 1..(n - 1)
      BY <1>2, <2>2, <2>3
    <2> QED
      BY <1>1, <1>7, <2>1, <2>2, <2>4
  <1>10. ASSUME NEW i \in 1..(n - 1), pendings'[i] # NoOne
         PROVE  pending'[pendings'[i]] = i
    <2>1. i \in 1..n /\ i # n
      BY <1>2
    <2>2. pendings'[i] = pendings[i] /\ pendings[i] \in Watchers
      BY <1>2, <1>7, <1>10, <2>1
    <2>3. pending[pendings[i]] = i
      BY <1>10, <2>1, <2>2 DEF LoopInv, PendingSound
    <2>4. pendings[i] # p
      BY <1>4, <1>10, <2>1, <2>2, <2>3
    <2> QED
      BY <1>1, <1>3, <2>2, <2>3, <2>4 DEF LoopInv, TypeOK
  <1>11. PendingSound'
    BY <1>7, <1>9, <1>10 DEF PendingSound
  <1>12. TypeOK'
    BY <1>1, <1>3, <1>7, <1>8 DEF LoopInv, TypeOK, kernel
  <1>13. Owned' /\ Phases'
    BY <1>1 DEF LoopInv, Owned, Phases, kernel
  <1> QED
    BY <1>1, <1>4, <1>5, <1>6, <1>11, <1>12, <1>13 DEF LoopInv

(* Steps that move only the loop's own place, or the kernel. *)
LEMMA StepRest ==
  ASSUME LoopInv,
         FeedDone \/ Iterate \/ Return \/ UNCHANGED vars
           \/ \E fd \in Fds : Readiness(fd)
  PROVE  LoopInv'
  <1>1. UNCHANGED <<open, active, fresh, queue, kernel, found>>
    BY DEF FeedDone, Iterate, Return, Readiness, vars, queue, kernel
  <1>2. Noted' /\ InStep'
    BY <1>1, SameKernel
  <1>3. PendingSound'
    BY <1>1, SameQueue
  <1>4. ready' \in [Fds -> SUBSET Events]
    BY DEF FeedDone, Iterate, Return, Readiness, vars, LoopInv, TypeOK
  <1>5. /\ running' \in Watchers \cup {NoOne}
        /\ phase' \in {"reify", "poll", "feed", "invoke"}
        /\ Phases'
    BY <1>1 DEF FeedDone, Iterate, Return, Readiness, vars, queue, kernel,
                LoopInv, TypeOK, Phases
  <1>6. TypeOK'
    BY <1>1, <1>4, <1>5 DEF LoopInv, TypeOK, queue, kernel
  <1>7. Owned'
    BY <1>1 DEF LoopInv, Owned
  <1> QED
    BY <1>2, <1>3, <1>5, <1>6, <1>7 DEF LoopInv

LEMMA NextInv == LoopInv /\ [Next]_vars => LoopInv'
  <1> SUFFICES ASSUME LoopInv, [Next]_vars PROVE LoopInv'
    OBVIOUS
  <1>1. ASSUME NEW w \in Watchers, IoStart(w) \/ IoStop(w) \/ Feed(w)
        PROVE LoopInv'
    BY <1>1, StepIoStart, StepIoStop, StepFeed
  <1>2. ASSUME NEW fd \in Fds, CloseFd(fd) \/ OpenFd(fd) PROVE LoopInv'
    BY <1>2, StepCloseFd, StepOpenFd
  <1>3. CASE FdReify
    BY <1>3, StepReify
  <1>4. CASE Poll \/ PollInVain
    BY <1>4, StepPoll
  <1>5. CASE InvokePending
    BY <1>5, StepInvoke
  <1>6. CASE FeedDone \/ Iterate \/ Return \/ UNCHANGED vars
               \/ \E fd \in Fds : Readiness(fd)
    BY <1>6, StepRest
  <1> QED
    BY <1>1, <1>2, <1>3, <1>4, <1>5, <1>6 DEF Next, EvRun, Callback

LEMMA Always == Spec => []LoopInv
  <1>1. QED
    BY InitInv, NextInv, PTL DEF Spec

-----------------------------------------------------------------------------
(* libev's structures keep their types: in particular w->pending, the      *)
(* bits of reify and the events of a descriptor stay what they are read as, *)
(* and the listener is never closed.                                       *)
THEOREM LoopTypes == Spec => []TypeOK
  <1>1. LoopInv => TypeOK
    BY DEF LoopInv
  <1> QED
    BY <1>1, Always, PTL

(* A pending watcher is started and owns its queue entry, whatever was     *)
(* stopped, closed and reused since its event was collected.               *)
THEOREM QueueIsSound == Spec => []PendingSound
  <1>1. LoopInv => PendingSound
    BY DEF LoopInv
  <1> QED
    BY <1>1, Always, PTL

(* select is always asked for exactly what the started watchers want. *)
THEOREM KernelInStep == Spec => []PollSetRight
  <1>1. LoopInv => PollSetRight
    <2> SUFFICES ASSUME LoopInv, phase = "poll", NEW fd \in Fds
                 PROVE  /\ pollset[fd] = Wanted(fd)
                        /\ pollset[fd] # {} => fd \in open
      BY DEF PollSetRight
    <2>1. pollset[fd] = Wanted(fd)
      BY DEF LoopInv, InStep, Phases
    <2>2. Wanted(fd) # {} => fd \in open
      BY DEF LoopInv, Owned, Wanted, Of
    <2> QED
      BY <2>1, <2>2
  <1> QED
    BY <1>1, Always, PTL

(* Callbacks are invoked for started watchers of open descriptors only. *)
THEOREM OnlyStartedAreCalled == Spec => CallbackOfStarted
  <1>1. LoopInv /\ [Next]_vars =>
          [running = NoOne /\ running' # NoOne =>
             running' \in active /\ running'[1] \in open]_vars
    <2> SUFFICES ASSUME LoopInv, Next, running = NoOne, running' # NoOne
                 PROVE running' \in active /\ running'[1] \in open
      OBVIOUS
    <2>1. CASE InvokePending
      BY <2>1, StepInvoke
    <2>2. CASE ~InvokePending
      BY <2>2 DEF Next, EvRun, Callback, FdReify, Poll, PollInVain, FeedDone,
                  Iterate, Feed, IoStart, IoStop, CloseFd, OpenFd, Return,
                  Readiness
    <2> QED
      BY <2>1, <2>2
  <1> QED
    BY <1>1, Always, PTL DEF Spec, CallbackOfStarted
=============================================================================
