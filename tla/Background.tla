----------------------------- MODULE Background -----------------------------
(***************************************************************************)
(* RunInBackground, which keeps the iOS application running by playing a   *)
(* silent song from a timer.  The timer lives in a run loop that a block   *)
(* on a serial queue enters and does not leave until the main thread stops *)
(* it; the two threads share the timers and the reference to the loop.     *)
(* There are two timers, one that plays and one that logs (PrintLog is     *)
(* always defined).                                                        *)
(*                                                                         *)
(* A block is named by its number, and so are its timers and its run loop. *)
(***************************************************************************)
EXTENDS Naturals, FiniteSets

CONSTANT MaxStarts   \* how often the application goes to the background

ASSUME BackgroundAssumption == MaxStarts \in Nat

None  == 0
Kinds == {"audio", "log"}

VARIABLES
  screen,      \* "active", "background", or "entering" the foreground
  isRun,       \* the application delegate's _isRun
  stopping,    \* how far stopAudioPlay has got on the main thread
  starts,      \* the blocks dispatched so far
  block,       \* the one that is running or will be next
  pc,          \* where it is
  timer,       \* the properties audioTimer and logTimer: whose they hold
  valid,       \* the timers that have not been invalidated
  runloopRef,  \* the loop the variable refers to
  inLoop,      \* the timers added to the running block's loop
  crashed,     \* CFRunLoopStop was given NULL, or addTimer nil
  clean        \* history: every stop came when the last block was in its loop

main  == <<screen, isRun, stopping>>
vars  == <<main, starts, block, pc, timer, valid, runloopRef, inLoop,
           crashed, clean>>
Blocks == 1..MaxStarts

TypeOK ==
  /\ screen \in {"active", "background", "entering"}
  /\ isRun \in BOOLEAN
  /\ stopping \in {<<"no">>, <<"loop">>} \cup {"stop", "forget"} \X Kinds
  /\ starts \in 0..MaxStarts /\ block \in 1..MaxStarts + 1
  /\ pc \in {"waiting", "log", "ref", "add", "run", "looping", "stopped"}
  /\ timer \in [Kinds -> Blocks \cup {None}] /\ runloopRef \in Blocks \cup {None}
  /\ valid \subseteq Kinds \X Blocks /\ inLoop \subseteq Kinds \X Blocks
  /\ crashed \in BOOLEAN /\ clean \in BOOLEAN

Init ==
  /\ screen = "active" /\ isRun = FALSE /\ stopping = <<"no">>
  /\ starts = 0 /\ block = 1 /\ pc = "waiting"
  /\ timer = [kind \in Kinds |-> None] /\ valid = {}
  /\ runloopRef = None /\ inLoop = {}
  /\ crashed = FALSE /\ clean = TRUE

-----------------------------------------------------------------------------
(* The main thread: the application delegate.                              *)

Main == ~crashed /\ stopping = <<"no">>

(* A bug: the delegate does not note that it started. *)
EnterUnmarked ==
  /\ Main /\ screen # "background" /\ starts < MaxStarts
  /\ screen' = "background"
  /\ starts' = starts + 1
  /\ UNCHANGED <<isRun, stopping, block, pc, timer, valid, runloopRef,
                 inLoop, crashed, clean>>

(* applicationDidEnterBackground: startRunInbackGround dispatches a block. *)
DidEnterBackground ==
  /\ Main /\ screen # "background" /\ starts < MaxStarts
  /\ screen' = "background" /\ isRun' = TRUE
  /\ starts' = starts + 1
  /\ UNCHANGED <<stopping, block, pc, timer, valid, runloopRef, inLoop,
                 crashed, clean>>

(* The user may leave again before the application has become active. *)
WillEnterForeground ==
  /\ Main /\ screen = "background"
  /\ screen' = "entering"
  /\ UNCHANGED <<isRun, stopping, starts, block, pc, timer, valid,
                 runloopRef, inLoop, crashed, clean>>

DidBecomeActive ==
  /\ Main /\ screen = "entering"
  /\ screen' = "active"
  /\ stopping' = IF isRun THEN <<"loop">> ELSE <<"no">>
  /\ UNCHANGED <<isRun, starts, block, pc, timer, valid, runloopRef,
                 inLoop, crashed, clean>>

(* A bug, though a comment in the code says it is enough: only the timer   *)
(* is stopped.                                                             *)
LeaveLoopRunning ==
  /\ ~crashed /\ stopping = <<"loop">>
  /\ stopping' = <<"stop", "audio">>
  /\ clean' = (clean /\ pc = "looping" /\ block = starts)
  /\ UNCHANGED <<screen, isRun, starts, block, pc, timer, valid,
                 runloopRef, inLoop, crashed>>

(* CFRunLoopStop in stopAudioPlay.  A loop that is not yet running, or no  *)
(* longer, does not hear of it.                                            *)
StopLoop ==
  /\ ~crashed /\ stopping = <<"loop">>
  /\ stopping' = <<"stop", "audio">>
  /\ crashed' = (runloopRef = None)
  /\ pc' = IF pc = "looping" /\ runloopRef = block THEN "stopped" ELSE pc
  /\ clean' = (clean /\ pc = "looping" /\ block = starts)
  /\ UNCHANGED <<screen, isRun, starts, block, timer, valid, runloopRef,
                 inLoop>>

(* Each timer is invalidated and then forgotten, the log's last; with that *)
(* stopAudioPlay returns and the delegate clears _isRun.                   *)
StopTimer(kind) ==
  /\ ~crashed /\ stopping = <<"stop", kind>>
  /\ stopping' = <<"forget", kind>>
  /\ valid' = valid \ {<<kind, timer[kind]>>}
  /\ UNCHANGED <<screen, isRun, starts, block, pc, timer, runloopRef, inLoop,
                 crashed, clean>>

ForgetTimer(kind) ==
  /\ ~crashed /\ stopping = <<"forget", kind>>
  /\ stopping' = IF kind = "audio" THEN <<"stop", "log">> ELSE <<"no">>
  /\ isRun' = (isRun /\ kind = "audio")
  /\ timer' = [timer EXCEPT ![kind] = None]
  /\ UNCHANGED <<screen, starts, block, pc, valid, runloopRef, inLoop, crashed,
                 clean>>

StopNext == StopLoop \/ \E kind \in Kinds : StopTimer(kind) \/ ForgetTimer(kind)

-----------------------------------------------------------------------------
(* The block on the serial queue. *)

Step(from, to) == ~crashed /\ pc = from /\ pc' = to

NewTimer ==
  /\ block <= starts /\ Step("waiting", "log")
  /\ timer' = [timer EXCEPT !["audio"] = block]
  /\ valid' = valid \cup {<<"audio", block>>}
  /\ UNCHANGED <<main, starts, block, runloopRef, inLoop, crashed, clean>>

(* scheduledTimerWithTimeInterval also adds the timer to the loop. *)
NewLogTimer ==
  /\ Step("log", "ref")
  /\ timer' = [timer EXCEPT !["log"] = block]
  /\ valid' = valid \cup {<<"log", block>>}
  /\ inLoop' = inLoop \cup {<<"log", block>>}
  /\ UNCHANGED <<main, starts, block, runloopRef, crashed, clean>>

SetRunloopRef ==
  /\ Step("ref", "add")
  /\ runloopRef' = block
  /\ UNCHANGED <<main, starts, block, timer, valid, inLoop, crashed, clean>>

(* The property may have become nil meanwhile; what addTimer does with nil *)
(* is not documented.                                                      *)
AddTimer ==
  /\ Step("add", "run")
  /\ IF timer["audio"] = None
     THEN crashed' \in BOOLEAN /\ UNCHANGED inLoop
     ELSE inLoop' = inLoop \cup {<<"audio", timer["audio"]>>} /\ UNCHANGED crashed
  /\ UNCHANGED <<main, starts, block, timer, valid, runloopRef, clean>>

(* The next block may be given the same thread, and with it the same loop. *)
Done ==
  /\ block' = block + 1 /\ inLoop' \in {{}, inLoop \cap valid}
  /\ UNCHANGED <<main, starts, timer, valid, runloopRef, crashed, clean>>

(* CFRunLoopRun returns at once from a loop with nothing in it. *)
Run ==
  /\ inLoop \cap valid # {} /\ Step("run", "looping")
  /\ UNCHANGED <<main, starts, block, timer, valid, runloopRef, inLoop,
                 crashed, clean>>
RunEmpty == inLoop \cap valid = {} /\ Step("run", "waiting") /\ Done
Leave    == Step("stopped", "waiting") /\ Done

(* A running loop that lost its timers returns when something wakes it;    *)
(* their invalidation on another thread need not.                          *)
Notice == inLoop \cap valid = {} /\ Step("looping", "waiting") /\ Done

BlockNext ==
  \/ NewTimer \/ NewLogTimer \/ SetRunloopRef \/ AddTimer
  \/ Run \/ RunEmpty \/ Leave

Next ==
  \/ DidEnterBackground \/ WillEnterForeground \/ DidBecomeActive
  \/ StopNext \/ BlockNext \/ Notice

(* Both threads run; the user comes and goes at will. *)
Fairness == WF_vars(StopNext) /\ WF_vars(BlockNext)

Spec == Init /\ [][Next]_vars
FairSpec == Spec /\ Fairness

-----------------------------------------------------------------------------
Playing ==
  pc = "looping" /\ \E b \in Blocks : <<"audio", b>> \in inLoop \cap valid

(* In the background the song goes on being played, whatever coming and    *)
(* going there was before ("runs in the background all the time",          *)
(* README.md): no block is stuck behind a loop that lost its timers. This  *)
(* holds provided every stop came when the last block was in its loop; one *)
(* that comes as the block is about to run its loop is lost, takes the     *)
(* timers away, and the queue may then be stuck for good.                  *)
KeepsPlaying ==
  <>[](screen = "background") /\ []clean => <>[]Playing

(* In the foreground it stops, under the same proviso: an earlier stop     *)
(* misses the block, which then plays on in the foreground.                *)
QuietAgain ==
  <>[](screen = "active") /\ []clean => <>[]~Playing
=============================================================================
