------------------------------ MODULE SNThread ------------------------------
(***************************************************************************)
(* The pausable thread every active part of the player runs on             *)
(* (framework/utils/SNThread.cpp): one inner thread that calls a user      *)
(* function in a loop, and the threads that start, pause and stop it.      *)
(*                                                                         *)
(* A step is what happens between two points where another thread can see  *)
(* or change something: a lock operation, a read or write of mStatus, of   *)
(* mWaitPaused or of mTryPause outside a lock that its other users hold,   *)
(* a wait, a notification.  mStatus and mTryPause are plain fields; each   *)
(* access is one step.  A caller holds mMutex from Enter to Leave;         *)
(* mWaitMutex is held across steps only by the inner thread, between the   *)
(* test of its wait predicate and its falling asleep.                      *)
(***************************************************************************)
EXTENDS Integers, FiniteSets

CONSTANTS
  Callers,    \* the threads that use this SNThread
  Ops,        \* the methods they call
  Returns,    \* what the user function may return
  MaxCalls,   \* bound: calls made by each caller
  Inner,      \* the inner thread, as a waiter of mWaitCond
  Free        \* mMutex: held by nobody

AllOps == {"start", "pause", "tryPause", "stop", "destroy"}

ASSUME SNThreadAssumption ==
  /\ Ops \subseteq AllOps
  /\ Returns \subseteq {0, -1}
  /\ MaxCalls \in Nat
  /\ Inner \notin Callers
  /\ Free \notin Callers

VARIABLES
  mStatus,       \* IDLE, STOPED, RUNNING or PAUSED
  mWaitPaused,   \* pause() waits for the inner thread
  mTryPause,     \* a pause is asked for but nobody waits for it
  mInnerThread,  \* the std::thread exists
  mMutex,        \* the caller that holds it, or Free
  waiting,       \* the threads blocked in mWaitCond.wait
  wpc,           \* where the inner thread is in runLoop
  op, at,        \* per caller: the method it is in and where
  calls,         \* per caller: calls made
  quiet          \* pause() or stop() has returned, no start() has acted since

vars == <<mStatus, mWaitPaused, mTryPause, mInnerThread, mMutex, waiting,
          wpc, op, at, calls, quiet>>

WorkerPlaces == {"none", "top", "ask", "setPaused", "ack", "status", "lock",
                 "sleep", "wait", "user", "try", "apply", "clear", "done"}
CallerPlaces == {"out", "enter", "locked", "ask", "wait", "store", "notify",
                 "join"}

TypeOK ==
  /\ mStatus \in {"IDLE", "STOPED", "RUNNING", "PAUSED"}
  /\ mWaitPaused \in BOOLEAN
  /\ mTryPause \in BOOLEAN
  /\ mInnerThread \in BOOLEAN
  /\ mMutex \in Callers \cup {Free}
  /\ waiting \subseteq Callers \cup {Inner}
  /\ wpc \in WorkerPlaces
  /\ op \in [Callers -> AllOps]
  /\ at \in [Callers -> CallerPlaces]
  /\ calls \in [Callers -> 0 .. MaxCalls]
  /\ quiet \in BOOLEAN

Init ==
  /\ mStatus = "IDLE"
  /\ mWaitPaused = FALSE
  /\ mTryPause = FALSE
  /\ mInnerThread = FALSE
  /\ mMutex = Free
  /\ waiting = {}
  /\ wpc = "none"
  /\ op \in [Callers -> {"start"}]
  /\ at = [c \in Callers |-> "out"]
  /\ calls = [c \in Callers |-> 0]
  /\ quiet = TRUE

WaitMutexFree == wpc # "sleep"

\* mWaitCond.notify_one: some waiter is released, if there is one.
NotifyOne ==
  IF waiting = {} THEN waiting' = waiting
  ELSE \E t \in waiting : waiting' = waiting \ {t}

Goto(c, place) == at' = [at EXCEPT ![c] = place]

\* The end of a method that took mMutex.
Leave(c) == Goto(c, "out") /\ mMutex' = Free

-----------------------------------------------------------------------------
(***************************************************************************)
(* The methods.  A client destroys the object when no method is running,   *)
(* and calls nothing afterwards.                                           *)
(***************************************************************************)
Destroyed == \E c \in Callers : calls[c] > 0 /\ op[c] = "destroy"

Unused == \A d \in Callers : at[d] = "out"

Call(c, o) ==
  /\ at[c] = "out"
  /\ calls[c] < MaxCalls
  /\ ~Destroyed
  /\ o = "destroy" => Unused
  /\ calls' = [calls EXCEPT ![c] = @ + 1]
  /\ op' = [op EXCEPT ![c] = o]
  /\ Goto(c, "enter")
  /\ UNCHANGED <<mStatus, mWaitPaused, mTryPause, mInnerThread, mMutex,
                 waiting, wpc, quiet>>

Enter(c) ==
  /\ at[c] = "enter"
  /\ op[c] # "tryPause"
  /\ mMutex = Free
  /\ mMutex' = c
  /\ Goto(c, "locked")
  /\ UNCHANGED <<mStatus, mWaitPaused, mTryPause, mInnerThread, waiting, wpc,
                 op, calls, quiet>>

\* start(): the first one creates the inner thread.
StartCreates(c) ==
  /\ at[c] = "locked" /\ op[c] = "start"
  /\ ~mInnerThread
  /\ mStatus' = "RUNNING"
  /\ mInnerThread' = TRUE
  /\ wpc' = "top"
  /\ quiet' = FALSE
  /\ Leave(c)
  /\ UNCHANGED <<mWaitPaused, mTryPause, waiting, op, calls>>

\* A later one changes the status without mWaitMutex, then notifies.
StartResumes(c) ==
  /\ at[c] = "locked" /\ op[c] = "start"
  /\ mInnerThread
  /\ mStatus' = "RUNNING"
  /\ quiet' = FALSE
  /\ Goto(c, "notify")
  /\ UNCHANGED <<mWaitPaused, mTryPause, mInnerThread, mMutex, waiting, wpc,
                 op, calls>>

StartNotifies(c) ==
  /\ at[c] = "notify" /\ op[c] = "start"
  /\ NotifyOne
  /\ Leave(c)
  /\ UNCHANGED <<mStatus, mWaitPaused, mTryPause, mInnerThread, wpc, op,
                 calls, quiet>>

\* Mutant: a pending tryPause() is taken for a pause.
PauseTrustsTryPause(c) ==
  /\ at[c] = "locked" /\ op[c] = "pause"
  /\ mStatus # "RUNNING" \/ mTryPause
  /\ quiet' = TRUE
  /\ Leave(c)
  /\ UNCHANGED <<mStatus, mWaitPaused, mTryPause, mInnerThread, waiting, wpc,
                 op, calls>>

\* pause() has nothing to wait for unless the status is RUNNING.
PauseReturnsAtOnce(c) ==
  /\ at[c] = "locked" /\ op[c] = "pause"
  /\ mStatus # "RUNNING"
  /\ quiet' = TRUE
  /\ Leave(c)
  /\ UNCHANGED <<mStatus, mWaitPaused, mTryPause, mInnerThread, waiting, wpc,
                 op, calls>>

PauseMustWait(c) ==
  /\ at[c] = "locked" /\ op[c] = "pause"
  /\ mStatus = "RUNNING"
  /\ Goto(c, "ask")
  /\ UNCHANGED <<mStatus, mWaitPaused, mTryPause, mInnerThread, mMutex,
                 waiting, wpc, op, calls, quiet>>

\* It waits with mMutex held; the wait releases mWaitMutex only.
PauseWaits(c) ==
  /\ at[c] = "ask"
  /\ WaitMutexFree
  /\ mWaitPaused' = TRUE
  /\ waiting' = waiting \cup {c}
  /\ Goto(c, "wait")
  /\ UNCHANGED <<mStatus, mTryPause, mInnerThread, mMutex, wpc, op, calls,
                 quiet>>

\* Mutant: the wait has no predicate.
PauseBelievesAnyWakeup(c) ==
  /\ at[c] = "wait" /\ c \notin waiting
  /\ WaitMutexFree
  /\ quiet' = TRUE
  /\ Leave(c)
  /\ UNCHANGED <<waiting, mStatus, mWaitPaused, mTryPause, mInnerThread, wpc,
                 op, calls>>

PauseWakes(c) ==
  /\ at[c] = "wait" /\ c \notin waiting
  /\ WaitMutexFree
  /\ \/ /\ mWaitPaused
        /\ waiting' = waiting \cup {c}
        /\ UNCHANGED <<at, mMutex, quiet>>
     \/ /\ ~mWaitPaused
        /\ quiet' = TRUE
        /\ Leave(c)
        /\ UNCHANGED waiting
  /\ UNCHANGED <<mStatus, mWaitPaused, mTryPause, mInnerThread, wpc, op, calls>>

\* tryPause() gives up when mMutex is taken.
TryPause(c) ==
  /\ at[c] = "enter" /\ op[c] = "tryPause"
  /\ mTryPause' = IF mMutex = Free /\ mStatus = "RUNNING" THEN TRUE ELSE mTryPause
  /\ Goto(c, "out")
  /\ UNCHANGED <<mStatus, mWaitPaused, mInnerThread, mMutex, waiting, wpc, op,
                 calls, quiet>>

\* stop() and the destructor differ in the status they leave.
StopBegins(c) ==
  /\ at[c] = "locked" /\ op[c] \in {"stop", "destroy"}
  /\ mTryPause' = FALSE
  /\ Goto(c, "store")
  /\ UNCHANGED <<mStatus, mWaitPaused, mInnerThread, mMutex, waiting, wpc, op,
                 calls, quiet>>

StopStores(c) ==
  /\ at[c] = "store"
  /\ WaitMutexFree
  /\ mStatus' = IF op[c] = "stop" THEN "STOPED" ELSE "IDLE"
  /\ Goto(c, "notify")
  /\ UNCHANGED <<mWaitPaused, mTryPause, mInnerThread, mMutex, waiting, wpc,
                 op, calls, quiet>>

StopNotifies(c) ==
  /\ at[c] = "notify" /\ op[c] \in {"stop", "destroy"}
  /\ NotifyOne
  /\ Goto(c, "join")
  /\ UNCHANGED <<mStatus, mWaitPaused, mTryPause, mInnerThread, mMutex, wpc,
                 op, calls, quiet>>

StopJoins(c) ==
  /\ at[c] = "join"
  /\ mInnerThread => wpc = "done"
  /\ mInnerThread' = FALSE
  /\ wpc' = "none"
  /\ quiet' = TRUE
  /\ Leave(c)
  /\ UNCHANGED <<mStatus, mWaitPaused, mTryPause, waiting, op, calls>>

Method(c) ==
  \/ Enter(c)
  \/ StartCreates(c) \/ StartResumes(c) \/ StartNotifies(c)
  \/ PauseReturnsAtOnce(c) \/ PauseMustWait(c) \/ PauseWaits(c) \/ PauseWakes(c)
  \/ TryPause(c)
  \/ StopBegins(c) \/ StopStores(c) \/ StopNotifies(c) \/ StopJoins(c)

-----------------------------------------------------------------------------
(***************************************************************************)
(* runLoop.                                                                *)
(***************************************************************************)
CallerStateUnchanged == UNCHANGED <<mInnerThread, mMutex, op, at, calls, quiet>>

\* A step that only reads.
Step(from, to) ==
  /\ wpc = from
  /\ wpc' = to
  /\ UNCHANGED <<mStatus, mWaitPaused, mTryPause, waiting>>
  /\ CallerStateUnchanged

LoopTop ==
  \/ mStatus \in {"RUNNING", "PAUSED"} /\ Step("top", "ask")
  \/ mStatus \in {"IDLE", "STOPED"} /\ Step("top", "done")

SeePauseAsked ==
  \/ mWaitPaused /\ Step("ask", "setPaused")
  \/ ~mWaitPaused /\ Step("ask", "status")

\* The status is set before mWaitMutex is taken.
SetPaused ==
  /\ wpc = "setPaused"
  /\ wpc' = "ack"
  /\ mStatus' = "PAUSED"
  /\ UNCHANGED <<mWaitPaused, mTryPause, waiting>>
  /\ CallerStateUnchanged

\* Mutant: nobody is notified.
AcknowledgeSilently ==
  /\ wpc = "ack"
  /\ wpc' = "status"
  /\ mWaitPaused' = FALSE
  /\ UNCHANGED <<mStatus, mTryPause, waiting>>
  /\ CallerStateUnchanged

AcknowledgePause ==
  /\ wpc = "ack"
  /\ wpc' = "status"
  /\ mWaitPaused' = FALSE
  /\ NotifyOne
  /\ UNCHANGED <<mStatus, mTryPause>>
  /\ CallerStateUnchanged

SeeStatus ==
  \/ mStatus = "PAUSED" /\ Step("status", "lock")
  \/ mStatus = "RUNNING" /\ Step("status", "user")
  \/ mStatus \in {"IDLE", "STOPED"} /\ Step("status", "try")

\* The second look at the status is made under mWaitMutex.
LookAgain ==
  \/ mStatus = "PAUSED" /\ Step("lock", "sleep")
  \/ mStatus # "PAUSED" /\ Step("lock", "try")

FallAsleep ==
  /\ wpc = "sleep"
  /\ wpc' = "wait"
  /\ waiting' = waiting \cup {Inner}
  /\ UNCHANGED <<mStatus, mWaitPaused, mTryPause>>
  /\ CallerStateUnchanged

WakeUp ==
  /\ Inner \notin waiting
  /\ \/ mStatus = "PAUSED" /\ Step("wait", "sleep")
     \/ mStatus # "PAUSED" /\ Step("wait", "try")

\* The user function, of which only the return value matters here.
UserFuncReturns(ret) ==
  /\ wpc = "user"
  /\ wpc' = "try"
  /\ mTryPause' = IF ret < 0 THEN TRUE ELSE mTryPause
  /\ UNCHANGED <<mStatus, mWaitPaused, waiting>>
  /\ CallerStateUnchanged

SeeTryPause ==
  \/ mTryPause /\ Step("try", "apply")
  \/ ~mTryPause /\ Step("try", "top")

\* Mutant: mMutex is not released.
ApplyTryPauseKeepsMutex ==
  /\ wpc = "apply"
  /\ wpc' = "clear"
  /\ mMutex' = IF mMutex = Free THEN Inner ELSE mMutex
  /\ mStatus' = IF mMutex = Free /\ mStatus = "RUNNING" THEN "PAUSED" ELSE mStatus
  /\ UNCHANGED <<mWaitPaused, mTryPause, waiting, mInnerThread, op, at, calls,
                 quiet>>

\* Mutant: neither mMutex nor the status is looked at.
ApplyTryPauseBlindly ==
  /\ wpc = "apply"
  /\ wpc' = "clear"
  /\ mStatus' = "PAUSED"
  /\ UNCHANGED <<mWaitPaused, mTryPause, waiting>>
  /\ CallerStateUnchanged

\* mMutex.try_lock(): a caller in a method makes the request fail.
ApplyTryPause ==
  /\ wpc = "apply"
  /\ wpc' = "clear"
  /\ mStatus' = IF mMutex = Free /\ mStatus = "RUNNING" THEN "PAUSED" ELSE mStatus
  /\ UNCHANGED <<mWaitPaused, mTryPause, waiting>>
  /\ CallerStateUnchanged

ClearTryPause ==
  /\ wpc = "clear"
  /\ wpc' = "top"
  /\ mTryPause' = FALSE
  /\ UNCHANGED <<mStatus, mWaitPaused, waiting>>
  /\ CallerStateUnchanged

RunLoop ==
  \/ LoopTop \/ SeePauseAsked \/ SetPaused \/ AcknowledgePause
  \/ SeeStatus \/ LookAgain \/ FallAsleep \/ WakeUp
  \/ \E ret \in Returns : UserFuncReturns(ret)
  \/ SeeTryPause \/ ApplyTryPause \/ ClearTryPause

\* A wait may return although nobody notified it.
SpuriousWakeup ==
  /\ \E t \in waiting : waiting' = waiting \ {t}
  /\ UNCHANGED <<mStatus, mWaitPaused, mTryPause, wpc>>
  /\ CallerStateUnchanged

Next ==
  \/ \E c \in Callers : Method(c) \/ \E o \in Ops : Call(c, o)
  \/ RunLoop
  \/ SpuriousWakeup

Spec == Init /\ [][Next]_vars

(***************************************************************************)
(* The inner thread and a caller inside a method are scheduled whenever    *)
(* they can run, and the user function returns.  Waits return without a    *)
(* notification finitely often.  No caller has to make another call.       *)
(***************************************************************************)
FairSpec ==
  /\ Spec
  /\ WF_vars(RunLoop)
  /\ \A c \in Callers : WF_vars(Method(c))
  /\ <>[][~SpuriousWakeup]_vars

-----------------------------------------------------------------------------
(***************************************************************************)
(* Once pause() or stop() has returned the user function is not running,   *)
(* until the next start(): flush() and close() of SNActiveDecoder empty    *)
(* the queues of the decoding thread on that promise.                      *)
(***************************************************************************)
PausedMeansQuiet == quiet => wpc # "user"

(***************************************************************************)
(* A stop() that has stored its status is not undone by the inner thread,  *)
(* which writes PAUSED without mWaitMutex in two places.                   *)
(***************************************************************************)
StopIsNotOverwritten ==
  \A c \in Callers :
    at[c] \in {"notify", "join"} /\ op[c] \in {"stop", "destroy"}
      => mStatus \in {"STOPED", "IDLE"}

(***************************************************************************)
(* mWaitPaused is raised only while a pause() waits for the answer, so an  *)
(* inner thread never pauses itself for a caller that has gone.            *)
(***************************************************************************)
PauseRequestHasItsCaller ==
  mWaitPaused \/ wpc \in {"setPaused", "ack"}
    => \E c \in Callers : at[c] = "wait" /\ mMutex = c

\* The notification of start() was lost.
Stranded == mStatus = "RUNNING" /\ wpc = "wait" /\ Inner \in waiting

(***************************************************************************)
(* Every method returns: stop() and the destructor always find the inner   *)
(* thread able to leave its loop, pause() always gets its answer, unless   *)
(* a start() has left the thread asleep with the status RUNNING.           *)
(***************************************************************************)
EveryCallReturns ==
  \A c \in Callers : at[c] # "out" ~> at[c] = "out" \/ Stranded

(***************************************************************************)
(* mWaitMutex and mWaitCond "are used for pausing and waking inside"       *)
(* (SNThread.h:65): an inner thread asleep whose status start() has made   *)
(* RUNNING again wakes up, as tests/thread/ThreadTest.cpp:61 expects.      *)
(***************************************************************************)
StartWakesThePaused ==
  (mStatus = "RUNNING" /\ wpc = "wait") ~> ~(mStatus = "RUNNING" /\ wpc = "wait")
=============================================================================
