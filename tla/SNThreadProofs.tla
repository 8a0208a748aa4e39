--------------------------- MODULE SNThreadProofs ---------------------------
(***************************************************************************)
(* Theorems about SNThread, for any number of callers and of calls: a      *)
(* returned pause() or stop() means that the user function is not running, *)
(* a stop() is not undone, and a pause is never asked for by nobody.       *)
(*                                                                         *)
(* They rest on mMutex (a caller inside a method holds it, so a pause()    *)
(* that waits keeps every start() and stop() out) and on what the inner    *)
(* thread writes while one waits.                                          *)
(***************************************************************************)
EXTENDS SNThread, TLAPS

\* The places of a caller between its taking mMutex and its leaving.
Inside == CallerPlaces \ {"out", "enter"}

LocksHeld == \A c \in Callers : at[c] \in Inside => mMutex = c

KnowsItsMethod ==
  \A c \in Callers :
    /\ at[c] \in {"ask", "wait"} => op[c] = "pause"
    /\ at[c] \in {"store", "join"} => op[c] \in {"stop", "destroy"}

InnerThreadExists == mInnerThread <=> wpc # "none"

AnsweredLast == wpc \in {"setPaused", "ack"} => mWaitPaused

\* A pause() that has its answer finds the inner thread paused.
Acknowledged ==
  /\ wpc = "ack" => mStatus = "PAUSED"
  /\ \A c \in Callers :
       at[c] = "wait" /\ ~mWaitPaused => mStatus = "PAUSED" /\ wpc # "user"

Stopping(c) == at[c] \in {"notify", "join"} /\ op[c] \in {"stop", "destroy"}

UserFuncRuns ==
  wpc = "user" => mStatus = "RUNNING" \/ \E c \in Callers : Stopping(c)

QuietIsNotRunning == quiet => mStatus # "RUNNING" /\ wpc # "user"

\* What the callers and the inner thread keep in turn.
CallersInv == LocksHeld /\ KnowsItsMethod /\ InnerThreadExists
PauseInv == AnsweredLast /\ PauseRequestHasItsCaller /\ Acknowledged
QuietInv == UserFuncRuns /\ QuietIsNotRunning /\ StopIsNotOverwritten

ThreadInv == TypeOK /\ CallersInv /\ PauseInv /\ QuietInv

-----------------------------------------------------------------------------
LEMMA InitHolds == Init => ThreadInv
<1> SUFFICES ASSUME Init PROVE ThreadInv
  OBVIOUS
<1>1. TypeOK
  <2>1. at \in [Callers -> CallerPlaces] /\ op \in [Callers -> AllOps]
    BY DEF Init, CallerPlaces, AllOps
  <2>2. calls \in [Callers -> 0 .. MaxCalls]
    BY SNThreadAssumption DEF Init
  <2> QED
    BY <2>1, <2>2 DEF Init, TypeOK, WorkerPlaces
<1>2. CallersInv /\ PauseInv /\ QuietInv
  BY DEF Init, CallersInv, PauseInv, QuietInv, LocksHeld, KnowsItsMethod,
     InnerThreadExists, AnsweredLast, PauseRequestHasItsCaller, Acknowledged,
     UserFuncRuns, QuietIsNotRunning, StopIsNotOverwritten, Inside
<1> QED
  BY <1>1, <1>2 DEF ThreadInv

\* mMutex is held by one caller at a time.
LEMMA OneInside ==
  ASSUME LocksHeld, NEW c \in Callers, at[c] \in Inside,
         NEW d \in Callers, at[d] \in Inside
  PROVE  c = d
  BY DEF LocksHeld

-----------------------------------------------------------------------------
(***************************************************************************)
(* Types.                                                                  *)
(***************************************************************************)
LEMMA NotifyOneKeepsWaiters ==
  ASSUME NEW W, waiting \subseteq W, NotifyOne
  PROVE  waiting' \subseteq W
  BY DEF NotifyOne

LEMMA RunLoopKeepsTypes ==
  ASSUME TypeOK, RunLoop \/ SpuriousWakeup
  PROVE  TypeOK'
<1>1. CASE LoopTop \/ SeePauseAsked \/ SetPaused \/ SeeStatus \/ LookAgain
           \/ FallAsleep \/ WakeUp
  BY <1>1 DEF LoopTop, SeePauseAsked, SetPaused, SeeStatus, LookAgain,
     FallAsleep, WakeUp, Step, CallerStateUnchanged, TypeOK, WorkerPlaces
<1>2. CASE AcknowledgePause
  BY <1>2, NotifyOneKeepsWaiters
     DEF AcknowledgePause, CallerStateUnchanged, TypeOK, WorkerPlaces
<1>3. CASE \E ret \in Returns : UserFuncReturns(ret)
  BY <1>3 DEF UserFuncReturns, CallerStateUnchanged, TypeOK, WorkerPlaces
<1>4. CASE SeeTryPause \/ ApplyTryPause \/ ClearTryPause
  BY <1>4 DEF SeeTryPause, ApplyTryPause, ClearTryPause, Step,
     CallerStateUnchanged, TypeOK, WorkerPlaces
<1>5. CASE SpuriousWakeup
  BY <1>5 DEF SpuriousWakeup, CallerStateUnchanged, TypeOK
<1> QED
  BY <1>1, <1>2, <1>3, <1>4, <1>5 DEF RunLoop

LEMMA MethodKeepsTypes ==
  ASSUME TypeOK, NEW c \in Callers, Method(c)
  PROVE  TypeOK'
<1>1. at' \in [Callers -> CallerPlaces]
  BY DEF Method, Enter, StartCreates, StartResumes, StartNotifies,
     PauseReturnsAtOnce, PauseMustWait, PauseWaits, PauseWakes, TryPause,
     StopBegins, StopStores, StopNotifies, StopJoins, Goto, Leave, TypeOK,
     CallerPlaces
<1>2. CASE Enter(c) \/ StartCreates(c) \/ StartResumes(c)
  BY <1>1, <1>2 DEF Enter, StartCreates, StartResumes, Leave, TypeOK,
     WorkerPlaces
<1>3. CASE StartNotifies(c) \/ StopNotifies(c)
  BY <1>1, <1>3, NotifyOneKeepsWaiters
     DEF StartNotifies, StopNotifies, Leave, TypeOK
<1>4. CASE PauseReturnsAtOnce(c) \/ PauseMustWait(c) \/ PauseWaits(c)
           \/ PauseWakes(c)
  BY <1>1, <1>4 DEF PauseReturnsAtOnce, PauseMustWait, PauseWaits, PauseWakes,
     Leave, TypeOK
<1>5. CASE TryPause(c) \/ StopBegins(c) \/ StopStores(c) \/ StopJoins(c)
  BY <1>1, <1>5 DEF TryPause, StopBegins, StopStores, StopJoins, Leave, TypeOK,
     WorkerPlaces
<1> QED
  BY <1>2, <1>3, <1>4, <1>5 DEF Method

LEMMA CallKeepsTypes ==
  ASSUME TypeOK, NEW c \in Callers, NEW o \in Ops, Call(c, o)
  PROVE  TypeOK'
<1>1. at' \in [Callers -> CallerPlaces] /\ op' \in [Callers -> AllOps]
  BY SNThreadAssumption DEF Call, Goto, TypeOK, CallerPlaces
<1>2. calls' \in [Callers -> 0 .. MaxCalls]
  BY SNThreadAssumption DEF Call, TypeOK
<1> QED
  BY <1>1, <1>2 DEF Call, TypeOK

-----------------------------------------------------------------------------
(***************************************************************************)
(* The callers: who holds mMutex, and the inner thread's existence.        *)
(***************************************************************************)
LEMMA MethodKeepsCallers ==
  ASSUME TypeOK, CallersInv, NEW c \in Callers, Method(c)
  PROVE  CallersInv'
<1> USE DEF CallersInv
<1>1. Free \notin Callers /\ at \in [Callers -> CallerPlaces]
  BY SNThreadAssumption DEF TypeOK
<1>2. LocksHeld'
  <2>1. CASE Enter(c)
    BY <1>1, <2>1 DEF Enter, Goto, LocksHeld, Inside, CallerPlaces
  <2>2. CASE Leave(c) /\ at[c] \in Inside
    BY <1>1, <2>2 DEF Leave, Goto, LocksHeld, Inside, CallerPlaces
  <2>3. CASE TryPause(c)
    BY <1>1, <2>3 DEF TryPause, Goto, LocksHeld, Inside, CallerPlaces
  <2>4. CASE /\ at[c] \in Inside /\ mMutex' = mMutex
             /\ at' = at \/ \E place \in Inside : Goto(c, place)
    BY <1>1, <2>4 DEF Goto, LocksHeld
  <2> QED
    BY <2>1, <2>2, <2>3, <2>4 DEF Method, StartCreates, StartResumes,
       StartNotifies, PauseReturnsAtOnce, PauseMustWait, PauseWaits,
       PauseWakes, StopBegins, StopStores, StopNotifies, StopJoins, Inside,
       CallerPlaces
<1>3. KnowsItsMethod'
  BY <1>1 DEF Method, Enter, StartCreates, StartResumes, StartNotifies,
     PauseReturnsAtOnce, PauseMustWait, PauseWaits, PauseWakes, TryPause,
     StopBegins, StopStores, StopNotifies, StopJoins, Goto, Leave,
     KnowsItsMethod
<1>4. InnerThreadExists'
  <2>1. CASE UNCHANGED <<mInnerThread, wpc>>
    BY <2>1 DEF InnerThreadExists
  <2>2. CASE StartCreates(c) \/ StopJoins(c)
    BY <2>2 DEF StartCreates, StopJoins, InnerThreadExists
  <2> QED
    BY <2>1, <2>2 DEF Method, Enter, StartResumes, StartNotifies,
       PauseReturnsAtOnce, PauseMustWait, PauseWaits, PauseWakes, TryPause,
       StopBegins, StopStores, StopNotifies
<1> QED
  BY <1>2, <1>3, <1>4

LEMMA CallKeepsCallers ==
  ASSUME TypeOK, CallersInv, NEW c \in Callers, NEW o \in Ops, Call(c, o)
  PROVE  CallersInv'
  BY DEF Call, Goto, TypeOK, CallersInv, LocksHeld, KnowsItsMethod,
     InnerThreadExists, Inside, CallerPlaces

LEMMA RunLoopKeepsCallers ==
  ASSUME CallersInv, RunLoop \/ SpuriousWakeup
  PROVE  CallersInv'
<1>1. UNCHANGED <<mInnerThread, mMutex, op, at>>
  BY DEF RunLoop, SpuriousWakeup, LoopTop, SeePauseAsked, SetPaused,
     AcknowledgePause, SeeStatus, LookAgain, FallAsleep, WakeUp,
     UserFuncReturns, SeeTryPause, ApplyTryPause, ClearTryPause, Step,
     CallerStateUnchanged
<1>2. wpc # "none" <=> wpc' # "none"
  BY DEF RunLoop, SpuriousWakeup, LoopTop, SeePauseAsked, SetPaused,
     AcknowledgePause, SeeStatus, LookAgain, FallAsleep, WakeUp,
     UserFuncReturns, SeeTryPause, ApplyTryPause, ClearTryPause, Step
<1> QED
  BY <1>1, <1>2 DEF CallersInv, LocksHeld, KnowsItsMethod, InnerThreadExists

-----------------------------------------------------------------------------
(***************************************************************************)
(* The pause: a caller waits for as long as one is asked for, and what the *)
(* inner thread answers with is the status PAUSED.                         *)
(***************************************************************************)
LEMMA RunLoopKeepsPause ==
  ASSUME TypeOK, CallersInv, PauseInv, RunLoop \/ SpuriousWakeup
  PROVE  PauseInv'
<1>1. UNCHANGED <<mInnerThread, mMutex, op, at>>
  BY DEF RunLoop, SpuriousWakeup, LoopTop, SeePauseAsked, SetPaused,
     AcknowledgePause, SeeStatus, LookAgain, FallAsleep, WakeUp,
     UserFuncReturns, SeeTryPause, ApplyTryPause, ClearTryPause, Step,
     CallerStateUnchanged
<1>2. CASE SeePauseAsked \/ SetPaused \/ AcknowledgePause
  BY <1>1, <1>2 DEF SeePauseAsked, SetPaused, AcknowledgePause, Step, PauseInv,
     AnsweredLast, PauseRequestHasItsCaller, Acknowledged
<1>3. CASE LoopTop \/ SeeStatus \/ LookAgain \/ FallAsleep \/ WakeUp
           \/ SeeTryPause \/ ClearTryPause \/ SpuriousWakeup
           \/ \E ret \in Returns : UserFuncReturns(ret)
  <2>1. UNCHANGED <<mStatus, mWaitPaused>>
    BY <1>3 DEF LoopTop, SeeStatus, LookAgain, FallAsleep, WakeUp, SeeTryPause,
       ClearTryPause, SpuriousWakeup, UserFuncReturns, Step
  <2>2. wpc' \notin {"setPaused", "ack"} \/ wpc' = wpc
    BY <1>3 DEF LoopTop, SeeStatus, LookAgain, FallAsleep, WakeUp, SeeTryPause,
       ClearTryPause, SpuriousWakeup, UserFuncReturns, Step
  <2>3. wpc' = "user" => mStatus = "RUNNING" \/ wpc' = wpc
    BY <1>3 DEF LoopTop, SeeStatus, LookAgain, FallAsleep, WakeUp, SeeTryPause,
       ClearTryPause, SpuriousWakeup, UserFuncReturns, Step
  <2> QED
    BY <1>1, <2>1, <2>2, <2>3 DEF PauseInv, AnsweredLast,
       PauseRequestHasItsCaller, Acknowledged
<1>4. CASE ApplyTryPause
  BY <1>1, <1>4 DEF ApplyTryPause, PauseInv, AnsweredLast,
     PauseRequestHasItsCaller, Acknowledged
<1> QED
  BY <1>2, <1>3, <1>4 DEF RunLoop

LEMMA CallKeepsPause ==
  ASSUME TypeOK, PauseInv, NEW c \in Callers, NEW o \in Ops, Call(c, o)
  PROVE  PauseInv'
  BY DEF Call, Goto, TypeOK, PauseInv, AnsweredLast, PauseRequestHasItsCaller,
     Acknowledged

\* Only one who is not inside, or who holds mMutex alone, takes a step.
LEMMA MethodKeepsPause ==
  ASSUME TypeOK, CallersInv, PauseInv, NEW c \in Callers, Method(c)
  PROVE  PauseInv'
<1> USE DEF PauseInv
<1>1. /\ Free \notin Callers /\ at \in [Callers -> CallerPlaces]
      /\ LocksHeld /\ KnowsItsMethod /\ InnerThreadExists
  BY SNThreadAssumption DEF TypeOK, CallersInv
<1>2. at[c] \in Inside => mMutex = c /\ \A d \in Callers \ {c} : at[d] \notin Inside
  BY <1>1, OneInside DEF LocksHeld
<1>3. {"locked", "ask", "wait", "store", "notify", "join"} \subseteq Inside
  BY DEF Inside, CallerPlaces
<1>4. CASE Enter(c) \/ TryPause(c)
  <2>1. \A d \in Callers : at'[d] = "wait" <=> at[d] = "wait"
    BY <1>1, <1>4 DEF Enter, TryPause, Goto
  <2>2. UNCHANGED <<mStatus, mWaitPaused, wpc>>
    BY <1>4 DEF Enter, TryPause
  <2>3. mMutex' = mMutex \/ mMutex = Free
    BY <1>4 DEF Enter, TryPause
  <2> QED
    BY <1>1, <2>1, <2>2, <2>3 DEF AnsweredLast, PauseRequestHasItsCaller,
       Acknowledged
<1>5. CASE PauseWaits(c)
  BY <1>1, <1>2, <1>3, <1>5 DEF PauseWaits, Goto, AnsweredLast,
     PauseRequestHasItsCaller, Acknowledged
<1>6. CASE PauseWakes(c)
  BY <1>1, <1>2, <1>3, <1>6 DEF PauseWakes, Goto, Leave, AnsweredLast,
     PauseRequestHasItsCaller, Acknowledged
<1>7. CASE \/ StartCreates(c) \/ StartResumes(c) \/ StartNotifies(c)
           \/ PauseReturnsAtOnce(c) \/ PauseMustWait(c) \/ StopBegins(c)
           \/ StopStores(c) \/ StopNotifies(c) \/ StopJoins(c)
  <2>1. at[c] \in Inside /\ at[c] # "wait" /\ at'[c] # "wait"
    BY <1>1, <1>3, <1>7 DEF StartCreates, StartResumes, StartNotifies,
       PauseReturnsAtOnce, PauseMustWait, StopBegins, StopStores,
       StopNotifies, StopJoins, Goto, Leave
  <2>2. \A d \in Callers : at[d] # "wait" /\ at'[d] # "wait"
    BY <1>1, <1>2, <1>3, <1>7, <2>1 DEF StartCreates, StartResumes,
       StartNotifies, PauseReturnsAtOnce, PauseMustWait, StopBegins,
       StopStores, StopNotifies, StopJoins, Goto, Leave
  <2>3. ~mWaitPaused /\ wpc \notin {"setPaused", "ack"}
    BY <2>2 DEF PauseRequestHasItsCaller
  <2>4. ~mWaitPaused' /\ wpc' \notin {"setPaused", "ack"}
    BY <1>7, <2>3 DEF StartCreates, StartResumes, StartNotifies,
       PauseReturnsAtOnce, PauseMustWait, StopBegins, StopStores,
       StopNotifies, StopJoins
  <2> QED
    BY <2>2, <2>4 DEF AnsweredLast, PauseRequestHasItsCaller, Acknowledged
<1> QED
  BY <1>4, <1>5, <1>6, <1>7 DEF Method

-----------------------------------------------------------------------------
(***************************************************************************)
(* The user function, the promise of pause() and stop(), and the status    *)
(* that a stop() leaves.                                                   *)
(***************************************************************************)
LEMMA RunLoopKeepsQuiet ==
  ASSUME TypeOK, CallersInv, PauseInv, QuietInv, RunLoop \/ SpuriousWakeup
  PROVE  QuietInv'
<1> USE DEF QuietInv
<1>1. UNCHANGED <<mMutex, op, at, quiet>>
  BY DEF RunLoop, SpuriousWakeup, LoopTop, SeePauseAsked, SetPaused,
     AcknowledgePause, SeeStatus, LookAgain, FallAsleep, WakeUp,
     UserFuncReturns, SeeTryPause, ApplyTryPause, ClearTryPause, Step,
     CallerStateUnchanged
<1>2. CASE SetPaused
  <2>1. PICK w \in Callers : at[w] = "wait" /\ mMutex = w
    BY <1>2 DEF SetPaused, PauseInv, PauseRequestHasItsCaller
  <2>2. \A c \in Callers : at[c] \notin {"notify", "join"}
    BY <2>1, OneInside DEF CallersInv, Inside, CallerPlaces
  <2> QED
    BY <1>1, <1>2, <2>2 DEF SetPaused, UserFuncRuns, QuietIsNotRunning,
       StopIsNotOverwritten
<1>3. CASE ApplyTryPause
  <2>1. mMutex = Free => \A c \in Callers : at[c] \notin {"notify", "join"}
    BY SNThreadAssumption DEF CallersInv, LocksHeld, Inside, CallerPlaces
  <2> QED
    BY <1>1, <1>3, <2>1 DEF ApplyTryPause, UserFuncRuns, QuietIsNotRunning,
       StopIsNotOverwritten
<1>4. CASE SeeStatus
  BY <1>1, <1>4 DEF SeeStatus, Step, UserFuncRuns, QuietIsNotRunning,
     StopIsNotOverwritten
<1>5. CASE UNCHANGED mStatus /\ wpc' # "user"
  BY <1>1, <1>5 DEF UserFuncRuns, QuietIsNotRunning, StopIsNotOverwritten
<1>6. CASE SpuriousWakeup
  BY <1>1, <1>6 DEF SpuriousWakeup, UserFuncRuns, QuietIsNotRunning,
     StopIsNotOverwritten, Stopping
<1>7. CASE LoopTop \/ SeePauseAsked \/ AcknowledgePause \/ LookAgain
           \/ FallAsleep \/ WakeUp \/ SeeTryPause \/ ClearTryPause
           \/ \E ret \in Returns : UserFuncReturns(ret)
  BY <1>5, <1>7 DEF LoopTop, SeePauseAsked, AcknowledgePause, LookAgain,
     FallAsleep, WakeUp, SeeTryPause, ClearTryPause, UserFuncReturns, Step
<1> QED
  BY <1>2, <1>3, <1>4, <1>6, <1>7 DEF RunLoop

LEMMA CallKeepsQuiet ==
  ASSUME TypeOK, QuietInv, NEW c \in Callers, NEW o \in Ops, Call(c, o)
  PROVE  QuietInv'
  BY DEF Call, Goto, TypeOK, QuietInv, UserFuncRuns, QuietIsNotRunning,
     StopIsNotOverwritten, Stopping

LEMMA MethodKeepsQuiet ==
  ASSUME TypeOK, CallersInv, PauseInv, QuietInv, NEW c \in Callers, Method(c)
  PROVE  QuietInv'
<1> USE DEF QuietInv
<1>1. /\ Free \notin Callers /\ at \in [Callers -> CallerPlaces]
      /\ LocksHeld /\ KnowsItsMethod /\ InnerThreadExists
  BY SNThreadAssumption DEF TypeOK, CallersInv
<1>2. at[c] \in Inside => \A d \in Callers \ {c} : at[d] \notin Inside
  BY <1>1, OneInside
<1>3. {"locked", "ask", "wait", "store", "notify", "join"} \subseteq Inside
  BY DEF Inside, CallerPlaces
<1>4. at[c] \in Inside => \A d \in Callers \ {c} : ~Stopping(d)
  BY <1>2, <1>3 DEF Stopping
<1>5. \A d \in Callers \ {c} : at'[d] = at[d] /\ op'[d] = op[d]
  BY <1>1 DEF Method, Enter, StartCreates, StartResumes, StartNotifies,
     PauseReturnsAtOnce, PauseMustWait, PauseWaits, PauseWakes, TryPause,
     StopBegins, StopStores, StopNotifies, StopJoins, Goto, Leave
<1>6. UNCHANGED op
  BY DEF Method, Enter, StartCreates, StartResumes, StartNotifies,
     PauseReturnsAtOnce, PauseMustWait, PauseWaits, PauseWakes, TryPause,
     StopBegins, StopStores, StopNotifies, StopJoins
<1>7. CASE Enter(c) \/ TryPause(c)
  <2>1. at'[c] \notin {"notify", "join"} /\ at[c] \notin {"notify", "join"}
    BY <1>1, <1>7 DEF Enter, TryPause, Goto
  <2>2. UNCHANGED <<mStatus, wpc, quiet>>
    BY <1>7 DEF Enter, TryPause
  <2> QED
    BY <1>5, <1>6, <2>1, <2>2 DEF UserFuncRuns, QuietIsNotRunning,
       StopIsNotOverwritten, Stopping
<1>8. CASE StartCreates(c) \/ StartResumes(c) \/ StartNotifies(c)
  BY <1>1, <1>2, <1>3, <1>5, <1>6, <1>8
     DEF StartCreates, StartResumes, StartNotifies, Goto, Leave, UserFuncRuns,
     QuietIsNotRunning, StopIsNotOverwritten, Stopping
<1>9. CASE PauseReturnsAtOnce(c)
  BY <1>1, <1>3, <1>4, <1>5, <1>6, <1>9
     DEF PauseReturnsAtOnce, Goto, Leave, UserFuncRuns, QuietIsNotRunning,
     StopIsNotOverwritten, Stopping
<1>10. CASE PauseMustWait(c) \/ PauseWaits(c)
  BY <1>1, <1>3, <1>4, <1>5, <1>6, <1>10
     DEF PauseMustWait, PauseWaits, Goto, UserFuncRuns, QuietIsNotRunning,
     StopIsNotOverwritten, Stopping
<1>11. CASE PauseWakes(c)
  BY <1>1, <1>3, <1>4, <1>5, <1>6, <1>11
     DEF PauseWakes, Goto, Leave, UserFuncRuns, QuietIsNotRunning,
     StopIsNotOverwritten, Stopping, PauseInv, Acknowledged
<1>12. CASE StopBegins(c)
  BY <1>1, <1>3, <1>4, <1>5, <1>6, <1>12
     DEF StopBegins, Goto, UserFuncRuns, QuietIsNotRunning,
     StopIsNotOverwritten, Stopping
<1>13. CASE StopStores(c)
  <2>1. op[c] \in {"stop", "destroy"} /\ Stopping(c)'
    BY <1>1, <1>6, <1>13 DEF StopStores, Goto, KnowsItsMethod, Stopping
  <2>2. mStatus' \in {"STOPED", "IDLE"}
    BY <1>13 DEF StopStores
  <2> QED
    BY <1>13, <2>1, <2>2 DEF StopStores, UserFuncRuns, QuietIsNotRunning,
       StopIsNotOverwritten
<1>14. CASE StopNotifies(c)
  BY <1>1, <1>5, <1>6, <1>14 DEF StopNotifies, Goto, UserFuncRuns,
     QuietIsNotRunning, StopIsNotOverwritten, Stopping
<1>15. CASE StopJoins(c)
  BY <1>1, <1>3, <1>5, <1>6, <1>15 DEF StopJoins, Goto, Leave, UserFuncRuns,
     QuietIsNotRunning, StopIsNotOverwritten, KnowsItsMethod
<1> QED
  BY <1>7, <1>8, <1>9, <1>10, <1>11, <1>12, <1>13, <1>14, <1>15 DEF Method

-----------------------------------------------------------------------------
LEMMA StutterKeepsThreadInv ==
  ASSUME ThreadInv, UNCHANGED vars
  PROVE  ThreadInv'
<1>1. TypeOK' /\ CallersInv'
  BY DEF ThreadInv, TypeOK, CallersInv, LocksHeld, KnowsItsMethod,
     InnerThreadExists, vars
<1>2. PauseInv' /\ QuietInv'
  BY DEF ThreadInv, PauseInv, QuietInv, AnsweredLast, PauseRequestHasItsCaller,
     Acknowledged, UserFuncRuns, QuietIsNotRunning, StopIsNotOverwritten,
     Stopping, vars
<1> QED
  BY <1>1, <1>2 DEF ThreadInv

LEMMA StepKeepsThreadInv ==
  ASSUME ThreadInv, [Next]_vars
  PROVE  ThreadInv'
<1> USE DEF ThreadInv
<1>1. CASE \E c \in Callers : Method(c)
  BY <1>1, MethodKeepsTypes, MethodKeepsCallers, MethodKeepsPause,
     MethodKeepsQuiet
<1>2. CASE \E c \in Callers : \E o \in Ops : Call(c, o)
  BY <1>2, CallKeepsTypes, CallKeepsCallers, CallKeepsPause, CallKeepsQuiet
<1>3. CASE RunLoop \/ SpuriousWakeup
  BY <1>3, RunLoopKeepsTypes, RunLoopKeepsCallers, RunLoopKeepsPause,
     RunLoopKeepsQuiet
<1>4. CASE UNCHANGED vars
  BY <1>4, StutterKeepsThreadInv
<1> QED
  BY <1>1, <1>2, <1>3, <1>4 DEF Next

LEMMA AlwaysThreadInv == Spec => []ThreadInv
  BY InitHolds, StepKeepsThreadInv, PTL DEF Spec

(***************************************************************************)
(* The thread's state is well typed, for any number of callers and calls.  *)
(***************************************************************************)
THEOREM ThreadTypeCorrect == Spec => []TypeOK
<1>1. ThreadInv => TypeOK
  BY DEF ThreadInv
<1> QED
  BY AlwaysThreadInv, <1>1, PTL

(***************************************************************************)
(* Once pause() or stop() has returned the user function is not running    *)
(* until the next start(), whoever calls what meanwhile.                   *)
(***************************************************************************)
THEOREM ThreadPauses == Spec => []PausedMeansQuiet
<1>1. ThreadInv => PausedMeansQuiet
  BY DEF ThreadInv, QuietInv, QuietIsNotRunning, PausedMeansQuiet
<1> QED
  BY AlwaysThreadInv, <1>1, PTL

(***************************************************************************)
(* The inner thread, which writes PAUSED in two places without the lock    *)
(* that stop() writes under, never overwrites what a stop() has stored.    *)
(***************************************************************************)
THEOREM ThreadKeepsStop == Spec => []StopIsNotOverwritten
<1>1. ThreadInv => StopIsNotOverwritten
  BY DEF ThreadInv, QuietInv
<1> QED
  BY AlwaysThreadInv, <1>1, PTL

(***************************************************************************)
(* While a pause is asked for, its caller waits for the answer and holds   *)
(* mMutex: the inner thread never pauses itself for one that has gone.     *)
(***************************************************************************)
THEOREM ThreadPausesForACaller == Spec => []PauseRequestHasItsCaller
<1>1. ThreadInv => PauseRequestHasItsCaller
  BY DEF ThreadInv, PauseInv
<1> QED
  BY AlwaysThreadInv, <1>1, PTL
=============================================================================
