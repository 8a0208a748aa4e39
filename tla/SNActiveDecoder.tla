--------------------------- MODULE SNActiveDecoder ---------------------------
(***************************************************************************)
(* The decoder of one stream: the client's thread sends packets and takes  *)
(* frames, a thread of its own moves them through the codec                *)
(* (framework/codec/SNActiveDecoder.cpp, SNFFDecoder.cpp).                 *)
(*                                                                         *)
(* Packets and frames are numbers, in the order of sending.  Each access   *)
(* to a queue or an atomic flag that the other thread uses is one step; a  *)
(* queue has one producer and one consumer.  The thread is an SNThread,    *)
(* with as much of its loop as the decoder can tell apart: pause() waits   *)
(* for an answer, tryPause() does not, and a start() may come just before  *)
(* the thread goes to sleep.  Timed waits end by themselves.               *)
(***************************************************************************)
EXTENDS Integers, Sequences, SequencesExt

CONSTANTS
  mMaxInQueueSize, mMaxOutQueueSize,
  CodecSize,      \* packets the codec takes before a frame must be received
  Ops,            \* the optional methods the client calls
  MaxPackets,     \* bound: packets sent
  MaxOps          \* bound: calls of the optional methods

AllOps == {"prePause", "pause", "holdOn", "flush", "close"}

ASSUME SNActiveDecoderAssumption ==
  /\ {mMaxInQueueSize, mMaxOutQueueSize, CodecSize} \subseteq Nat \ {0}
  /\ Ops \subseteq AllOps
  /\ MaxPackets \in Nat /\ MaxOps \in Nat

VARIABLES
  mInputQueue, mOutputQueue, mHoldingQueue,
  mRunning, mHolding,
  mInputEos,               \* the client has sent the end of the stream
  mDecoderEos,             \* the codec has given its last frame
  mHaveSendEosToDecoder,
  mNeedKeyFrame,
  keyPts,                  \* a key frame's pts is set: earlier ones are dropped
  codec,                   \* what the codec has taken and not given back
  draining,                \* the codec has been sent the end
  status, asked, mTryPause, \* of mDecodeThread; asked: pause() waits
  dpc,                     \* where the decoding thread is
  op, at,                  \* where the client is, in which of the pausing methods
  threadRuning,            \* flush()'s local variable
  keyRefused,              \* the client keeps a key frame answered with AGAIN
  ops,                     \* calls of the optional methods so far
  kinds,                   \* history: the kinds of the packets accepted
  got,                     \* history: the frames taken, in order
  gone,                    \* history: the packets dropped on the way
  flushed,                 \* history: packets accepted before the last flush()
  fed,                     \* history: what the codec was given since its flush
  ended                    \* the last getFrame() returned EOS

queues == <<mInputQueue, mOutputQueue, mHoldingQueue>>
flags == <<mRunning, mHolding, mInputEos, mDecoderEos, mHaveSendEosToDecoder,
           mNeedKeyFrame, keyPts>>
context == <<codec, draining, fed>>
thread == <<status, asked, mTryPause>>
client == <<op, at, threadRuning, keyRefused, ops, ended>>
history == <<kinds, got, gone, flushed>>
vars == <<queues, flags, context, thread, dpc, client, history>>

Id == 1 .. MaxPackets

(***************************************************************************)
(* A leading packet is one whose pts is before that of the last key frame; *)
(* a corrupt one is dropped whatever it is.                                *)
(***************************************************************************)
Kinds == {"key", "delta", "leading"}

TypeOK ==
  /\ mInputQueue \in Seq(Id) /\ mOutputQueue \in Seq(Id)
  /\ mHoldingQueue \in Seq(Id)
  /\ Len(mInputQueue) <= mMaxInQueueSize
  /\ Len(mOutputQueue) <= mMaxOutQueueSize
  /\ {mRunning, mHolding, mInputEos, mDecoderEos, mHaveSendEosToDecoder,
      mNeedKeyFrame, keyPts, draining, asked, mTryPause, threadRuning,
      keyRefused, ended}
       \subseteq BOOLEAN
  /\ codec \in Seq(Id) /\ Len(codec) <= CodecSize
  /\ status \in {"IDLE", "RUNNING", "PAUSED"}
  /\ dpc \in {"none", "top", "toSleep", "asleep", "func", "loop", "extract",
              "enqueue", "end", "empty", "sendEnd", "drain", "try"}
  /\ op \in AllOps \cup {"none"}
  /\ at \in {"new", "out", "enqueue", "eos", "hold", "pause", "wait", "paused",
             "closed"}
  /\ ops \in 0 .. MaxOps
  /\ kinds \in Seq(Kinds) /\ Len(kinds) <= MaxPackets
  /\ got \in Seq(Id)
  /\ gone \subseteq Id
  /\ flushed \in 0 .. MaxPackets
  /\ fed \in Seq(Id)

Init ==
  /\ mInputQueue = <<>> /\ mOutputQueue = <<>> /\ mHoldingQueue = <<>>
  /\ mRunning = FALSE /\ mHolding = FALSE
  /\ mInputEos = FALSE /\ mDecoderEos = FALSE
  /\ mHaveSendEosToDecoder = FALSE
  /\ mNeedKeyFrame = TRUE /\ keyPts = FALSE
  /\ codec = <<>> /\ draining = FALSE
  /\ status = "IDLE" /\ asked = FALSE /\ mTryPause = FALSE
  /\ dpc = "none"
  /\ op = "none" /\ at = "new" /\ threadRuning = FALSE /\ keyRefused = FALSE
  /\ ops = 0 /\ kinds = <<>> /\ got = <<>> /\ gone = {} /\ flushed = 0
  /\ fed = <<>>
  /\ ended = FALSE

sent == Len(kinds)

-----------------------------------------------------------------------------
(***************************************************************************)
(* The decoding thread.  First what SNThread's loop does around decodeFunc.*)
(***************************************************************************)
ThreadOnly == UNCHANGED <<mInputEos, mRunning, mHolding, mNeedKeyFrame, keyPts,
                          mHoldingQueue, client, kinds, got, flushed>>

Goes(from, to) ==
  /\ dpc = from /\ dpc' = to
  /\ ThreadOnly

StillTheSame == UNCHANGED <<mInputQueue, mOutputQueue, mDecoderEos,
                            mHaveSendEosToDecoder, context, gone>>

AnswersPause ==
  /\ asked /\ Goes("top", "top")
  /\ status' = "PAUSED" /\ asked' = FALSE
  /\ UNCHANGED mTryPause
  /\ StillTheSame

\* The last look at the status before the wait, with mWaitMutex held.
SeesPaused == ~asked /\ status = "PAUSED" /\ Goes("top", "toSleep")
              /\ UNCHANGED thread /\ StillTheSame

FallsAsleep == Goes("toSleep", "asleep") /\ UNCHANGED thread /\ StillTheSame

\* A spurious wakeup; start() wakes the thread that sleeps already.
Awakes == status = "RUNNING" /\ Goes("asleep", "try")
          /\ UNCHANGED thread /\ StillTheSame

CallsDecodeFunc == ~asked /\ status = "RUNNING" /\ Goes("top", "func")
                   /\ UNCHANGED thread /\ StillTheSame

\* A pause() that waits holds the mutex this would need.
AppliesTryPause ==
  /\ Goes("try", "top")
  /\ mTryPause' = FALSE
  /\ status' = IF mTryPause /\ ~asked /\ status = "RUNNING" THEN "PAUSED"
               ELSE status
  /\ UNCHANGED asked
  /\ StillTheSame

Loop ==
  \/ AnswersPause \/ SeesPaused \/ FallsAsleep \/ CallsDecodeFunc
  \/ AppliesTryPause

-----------------------------------------------------------------------------
(***************************************************************************)
(* SNFFDecoder's use of the codec, with what it answers.  A codec with no  *)
(* room wants a frame to be received first; one that was sent the end      *)
(* takes nothing any more and is empty in the end.                         *)
(***************************************************************************)
NoPacket == 0

\* enqueueDecoder of a packet, or of none, which is the end.
CodecSend(packet, answer) ==
  \/ /\ answer = "SUCCESS" /\ ~draining /\ Len(codec) < CodecSize
     /\ codec' = IF packet = NoPacket THEN codec ELSE Append(codec, packet)
     /\ draining' = (packet = NoPacket)
  \/ /\ \/ answer = "AGAIN" /\ ~draining /\ Len(codec) = CodecSize
        \/ answer = "ERROR" /\ ~draining /\ packet # NoPacket
        \/ answer = "EOS" /\ draining
     /\ UNCHANGED <<codec, draining>>

\* dequeueDecoder: a frame with error flags is AGAIN, like none at all.
CodecReceive(answer) ==
  \/ /\ answer \in {"SUCCESS", "AGAIN"} /\ codec # <<>>
     /\ codec' = Tail(codec)
     /\ gone' = IF answer = "SUCCESS" THEN gone ELSE gone \cup {Head(codec)}
  \/ /\ \/ answer = "AGAIN" /\ ~draining /\ Len(codec) < CodecSize
        \/ answer = "EOS" /\ draining /\ codec = <<>>
     /\ UNCHANGED <<codec, gone>>

FlushDecoder == codec' = <<>> /\ draining' = FALSE /\ fed' = <<>>

CloseDecoder == codec' = <<>> /\ draining' = FALSE /\ fed' = <<>>

-----------------------------------------------------------------------------
(***************************************************************************)
(* decodeFunc.                                                             *)
(***************************************************************************)
Looks(from, to) == Goes(from, to) /\ UNCHANGED thread /\ StillTheSame

SeeDecoderEos == Looks("func", IF mDecoderEos THEN "try" ELSE "loop")

SeeWork ==
  Looks("loop", IF mInputQueue # <<>> /\ Len(mOutputQueue) < mMaxOutQueueSize
                   /\ mRunning
                THEN "extract" ELSE "end")

\* One turn of extractDecoder, which ends with the first answer but SUCCESS.
ExtractDecoder(from, to) ==
  /\ UNCHANGED <<mInputQueue, mHaveSendEosToDecoder, draining, fed, thread>>
  /\ IF Len(mOutputQueue) < mMaxOutQueueSize /\ mRunning
     THEN \E answer \in {"SUCCESS", "AGAIN", "EOS"} :
            /\ CodecReceive(answer)
            /\ Goes(from, IF answer = "SUCCESS" THEN from ELSE to)
            /\ mOutputQueue' = IF answer = "SUCCESS"
                               THEN Append(mOutputQueue, Head(codec))
                               ELSE mOutputQueue
            /\ mDecoderEos' = (mDecoderEos \/ answer = "EOS")
     ELSE /\ Goes(from, to)
          /\ UNCHANGED <<mOutputQueue, mDecoderEos, codec, gone>>

\* Mutant: a packet the codec has no room for is popped all the same.
EnqueuePopsAlways ==
  /\ Goes("enqueue", "loop")
  /\ mInputQueue' = Tail(mInputQueue)
  /\ fed' = Append(fed, Head(mInputQueue))
  /\ \/ /\ Len(codec) < CodecSize
        /\ codec' = Append(codec, Head(mInputQueue))
        /\ UNCHANGED gone
     \/ /\ Len(codec) = CodecSize
        /\ UNCHANGED <<codec, gone>>
  /\ UNCHANGED <<mOutputQueue, mDecoderEos, mHaveSendEosToDecoder, draining, thread>>

\* The packet at the front, which stays there if the codec has no room.
EnqueueDecoder ==
  LET packet == Head(mInputQueue)
  IN /\ Goes("enqueue", "loop")
     /\ \E answer \in {"SUCCESS", "AGAIN", "EOS", "ERROR"} :
          /\ CodecSend(packet, answer)
          /\ IF answer = "AGAIN" THEN UNCHANGED <<mInputQueue, fed>>
             ELSE mInputQueue' = Tail(mInputQueue) /\ fed' = Append(fed, packet)
          /\ mDecoderEos' = (mDecoderEos \/ answer = "EOS")
          /\ gone' = IF answer \in {"EOS", "ERROR"} THEN gone \cup {packet} ELSE gone
     /\ UNCHANGED <<mOutputQueue, mHaveSendEosToDecoder, thread>>

SeeInputEos == Looks("end", IF mInputEos THEN "empty" ELSE "try")

\* Mutant: whether the queue is empty is not asked.
SeeEndOnly == Looks("empty", IF mHaveSendEosToDecoder THEN "drain" ELSE "sendEnd")

\* The queue is looked at after the flag: it cannot fill up any more.
SeeInputEmpty ==
  \/ mInputQueue # <<>> /\ Looks("empty", "try")
  \/ /\ mInputQueue = <<>>
     /\ Looks("empty", IF mHaveSendEosToDecoder THEN "drain" ELSE "sendEnd")

SendEosToDecoder ==
  /\ Goes("sendEnd", "drain")
  /\ \E answer \in {"SUCCESS", "AGAIN", "EOS"} :
       /\ CodecSend(NoPacket, answer)
       /\ mHaveSendEosToDecoder' = (mHaveSendEosToDecoder \/ answer # "AGAIN")
       /\ mDecoderEos' = (mDecoderEos \/ answer = "EOS")
  /\ UNCHANGED <<mInputQueue, mOutputQueue, fed, gone, thread>>

DecodeFunc ==
  \/ SeeDecoderEos \/ SeeWork
  \/ ExtractDecoder("extract", "enqueue") \/ EnqueueDecoder
  \/ SeeInputEos \/ SeeInputEmpty \/ SendEosToDecoder
  \/ ExtractDecoder("drain", "try")

DecodeThread == Loop \/ DecodeFunc

-----------------------------------------------------------------------------
(***************************************************************************)
(* The client's thread.                                                    *)
(***************************************************************************)
ClientAndThreadAt(from, to) ==
  /\ at = from /\ at' = to
  /\ UNCHANGED <<mDecoderEos, mHaveSendEosToDecoder>>

ClientAt(from, to) == ClientAndThreadAt(from, to) /\ UNCHANGED dpc

\* What no method but flush(), holdOn() and close() touches.
QueuesUnchanged == UNCHANGED <<queues, context, got, gone, flushed>>

\* start() of mDecodeThread, and mRunning before it.
Start ==
  /\ mRunning' = TRUE /\ status' = "RUNNING"
  /\ \/ dpc = "none" /\ dpc' = "top"
     \/ dpc = "asleep" /\ dpc' = "try"
     \/ dpc \notin {"none", "asleep"} /\ UNCHANGED dpc
  /\ UNCHANGED <<asked, mTryPause>>

\* A decoder that cannot be initialised is closed again.
Open ==
  /\ at = "new"
  /\ \/ at' = "out" /\ Start
     \/ at' = "closed" /\ UNCHANGED <<dpc, mRunning, thread>>
  /\ QueuesUnchanged
  /\ UNCHANGED <<mHolding, mInputEos, mDecoderEos, mHaveSendEosToDecoder,
                 mNeedKeyFrame, keyPts, op, threadRuning, keyRefused, ops,
                 ended, kinds>>

\* needDrop: a packet is dropped here without any other effect.
NeedDrop(kind) ==
  \/ mNeedKeyFrame /\ kind # "key"
  \/ keyPts /\ kind = "leading"

\* What needDrop remembers of a key frame; the second one clears keyPts.
LooksAtKey(kind) ==
  IF kind = "key" THEN mNeedKeyFrame' = FALSE /\ keyPts' = mNeedKeyFrame
  ELSE UNCHANGED <<mNeedKeyFrame, keyPts>>

Sends(kind, to) ==
  /\ sent < MaxPackets
  /\ ~NeedDrop(kind)
  /\ keyRefused => kind = "key"
  /\ LooksAtKey(kind)
  /\ ClientAt("out", to)
  /\ UNCHANGED <<mRunning, mHolding, mInputEos, thread, op, threadRuning, ops,
                 ended>>

\* No packet that the client would have to keep is in its hands any more.
NoneKept == keyRefused' = FALSE

SendAfterTheEnd(kind) ==
  /\ mInputEos
  /\ Sends(kind, "out")
  /\ QueuesUnchanged
  /\ UNCHANGED kinds
  /\ NoneKept

\* While holding a packet is put aside; a key frame first clears what is
\* held, and flushes the codec.
SendHeld(kind) ==
  /\ ~mInputEos /\ mHolding
  /\ Sends(kind, IF kind = "key" THEN "hold" ELSE "out")
  /\ kinds' = Append(kinds, kind)
  /\ mHoldingQueue' = IF kind = "key" THEN <<>> ELSE Append(mHoldingQueue, sent + 1)
  /\ gone' = IF kind = "key" THEN gone \cup ToSet(mHoldingQueue) ELSE gone
  /\ UNCHANGED <<mInputQueue, mOutputQueue, context, got, flushed>>
  /\ NoneKept

FlushForHeldKey ==
  /\ ClientAt("hold", "out")
  /\ FlushDecoder
  /\ gone' = gone \cup ToSet(codec)
  /\ mHoldingQueue' = <<sent>>
  /\ UNCHANGED <<mInputQueue, mOutputQueue, mRunning, mHolding, mInputEos,
                 mNeedKeyFrame, keyPts, thread, op, threadRuning,
                 keyRefused, ops, ended, kinds, got, flushed>>

\* Mutant: only the input queue's size is looked at, and one too far.
SendPacketOneMore(kind) ==
  /\ ~mInputEos /\ ~mHolding
  /\ Len(mInputQueue) <= mMaxInQueueSize
  /\ Sends(kind, "enqueue")
  /\ kinds' = Append(kinds, kind)
  /\ QueuesUnchanged
  /\ NoneKept

SendPacket(kind) ==
  /\ ~mInputEos /\ ~mHolding
  /\ Len(mInputQueue) < mMaxInQueueSize /\ Len(mOutputQueue) < mMaxOutQueueSize
  /\ Sends(kind, "enqueue")
  /\ kinds' = Append(kinds, kind)
  /\ QueuesUnchanged
  /\ NoneKept

\* A full queue answers AGAIN and the client keeps the packet; needDrop has
\* looked at it all the same, which only a key frame leaves traces of.
SendRefused ==
  /\ ~mInputEos /\ ~mHolding
  /\ Len(mInputQueue) = mMaxInQueueSize \/ Len(mOutputQueue) = mMaxOutQueueSize
  /\ Sends("key", "out")
  /\ keyRefused' = TRUE
  /\ UNCHANGED kinds
  /\ QueuesUnchanged

Enqueue ==
  /\ ClientAt("enqueue", "out")
  /\ mInputQueue' = Append(mInputQueue, sent)
  /\ UNCHANGED <<mOutputQueue, mHoldingQueue, context, got, gone, flushed, kinds,
                 mRunning, mHolding, mInputEos, mNeedKeyFrame, keyPts, thread,
                 op, threadRuning, keyRefused, ops, ended>>

\* sendPacket of no packet.
SendTheEnd ==
  /\ ~mInputEos /\ ~keyRefused
  /\ ClientAt("out", "out")
  /\ mInputEos' = TRUE
  /\ QueuesUnchanged
  /\ UNCHANGED <<mRunning, mHolding, mNeedKeyFrame, keyPts, thread, op,
                 threadRuning, keyRefused, ops, ended, kinds>>

ClientFlagsUnchanged ==
  UNCHANGED <<mRunning, mHolding, mInputEos, mNeedKeyFrame, keyPts, thread,
              op, threadRuning, keyRefused, ops, kinds, flushed>>

GetFrame ==
  /\ \/ /\ mOutputQueue # <<>>
        /\ ClientAt("out", "out")
        /\ mOutputQueue' = Tail(mOutputQueue)
        /\ got' = Append(got, Head(mOutputQueue))
        /\ ended' = FALSE
     \/ /\ mOutputQueue = <<>>
        /\ ClientAt("out", "eos")
        /\ UNCHANGED <<mOutputQueue, got, ended>>
  /\ UNCHANGED <<mInputQueue, mHoldingQueue, context, gone>>
  /\ ClientFlagsUnchanged

\* mDecoderEos is read after the queue was seen empty.
GetFrameLooksAtEos ==
  /\ ClientAt("eos", "out")
  /\ ended' = mDecoderEos
  /\ UNCHANGED <<queues, context, gone, got>>
  /\ ClientFlagsUnchanged

-----------------------------------------------------------------------------
(***************************************************************************)
(* pause(true), holdOn(true), flush() and close() stop the loops with      *)
(* mRunning, pause the thread, and then own the queues and the codec.      *)
(***************************************************************************)
Calls(o) == o \in Ops /\ ops < MaxOps /\ ops' = ops + 1

\* The method returns.
Returns == op' = "none" /\ threadRuning' = FALSE /\ UNCHANGED ops

NothingElse == UNCHANGED <<mHolding, mInputEos, mNeedKeyFrame, keyPts, keyRefused,
                           ended, kinds>>

StopRunning(o) ==
  /\ Calls(o) /\ o # "prePause"
  /\ o = "holdOn" => ~mHolding
  /\ ClientAt("out", "pause")
  /\ op' = o
  /\ mRunning' = FALSE
  /\ threadRuning' = (o = "flush" /\ status = "RUNNING")
  /\ NothingElse /\ QueuesUnchanged
  /\ UNCHANGED thread

\* Mutant: tryPause() instead of pause().
TryPauseThread ==
  /\ ClientAt("pause", "paused")
  /\ mTryPause' = (status = "RUNNING")
  /\ NothingElse /\ QueuesUnchanged
  /\ UNCHANGED <<asked, status, mRunning, op, ops, threadRuning>>

PauseThread ==
  /\ dpc # "toSleep"  \* the thread holds mWaitMutex
  /\ ClientAt("pause", IF status = "RUNNING" THEN "wait" ELSE "paused")
  /\ asked' = (status = "RUNNING")
  /\ NothingElse /\ QueuesUnchanged
  /\ UNCHANGED <<status, mTryPause, mRunning, op, ops, threadRuning>>

ThreadIsPaused ==
  /\ ~asked
  /\ ClientAt("wait", "paused")
  /\ NothingElse /\ QueuesUnchanged
  /\ UNCHANGED <<thread, mRunning, op, ops, threadRuning>>

PauseEnds ==
  /\ op = "pause"
  /\ ClientAt("paused", "out") /\ Returns
  /\ NothingElse /\ QueuesUnchanged
  /\ UNCHANGED <<thread, mRunning>>

\* What was not decoded is held, what was decoded is dropped.
HoldOnEnds ==
  /\ op = "holdOn"
  /\ ClientAndThreadAt("paused", "out") /\ Returns
  /\ mHoldingQueue' = mHoldingQueue \o mInputQueue
  /\ mInputQueue' = <<>>
  /\ mOutputQueue' = <<>>
  /\ gone' = gone \cup ToSet(mOutputQueue)
  /\ mHolding' = TRUE
  /\ Start
  /\ UNCHANGED <<context, mInputEos, mNeedKeyFrame, keyPts, keyRefused, ended,
                 kinds, got, flushed>>

Emptied == mInputQueue' = <<>> /\ mOutputQueue' = <<>>

\* Mutant: the end stays sent.
FlushKeepsTheEnd ==
  /\ op = "flush"
  /\ at = "paused" /\ at' = "out" /\ Returns
  /\ FlushDecoder /\ Emptied /\ mHoldingQueue' = <<>>
  /\ gone' = gone \cup ToSet(mInputQueue \o mOutputQueue \o mHoldingQueue \o codec)
  /\ flushed' = sent
  /\ mInputEos' = FALSE /\ mDecoderEos' = FALSE
  /\ mNeedKeyFrame' = TRUE
  /\ IF threadRuning THEN Start ELSE UNCHANGED <<mRunning, thread, dpc>>
  /\ UNCHANGED <<mHaveSendEosToDecoder, mHolding, keyPts, ended, kinds,
                 got>>
  /\ NoneKept

\* Mutant: what was decoded before is kept.
FlushKeepsTheOutput ==
  /\ op = "flush"
  /\ at = "paused" /\ at' = "out" /\ Returns
  /\ mInputQueue' = <<>> /\ mHoldingQueue' = <<>>
  /\ FlushDecoder
  /\ gone' = gone \cup ToSet(mInputQueue \o mHoldingQueue \o codec)
  /\ flushed' = sent
  /\ mInputEos' = FALSE /\ mDecoderEos' = FALSE /\ mHaveSendEosToDecoder' = FALSE
  /\ mNeedKeyFrame' = TRUE
  /\ IF threadRuning THEN Start ELSE UNCHANGED <<mRunning, thread, dpc>>
  /\ UNCHANGED <<mOutputQueue, mHolding, keyPts, ended, kinds, got>>
  /\ NoneKept

\* Mutant: decoding goes on with any packet.
FlushNeedsNoKey ==
  /\ op = "flush"
  /\ at = "paused" /\ at' = "out" /\ Returns
  /\ FlushDecoder /\ Emptied /\ mHoldingQueue' = <<>>
  /\ gone' = gone \cup ToSet(mInputQueue \o mOutputQueue \o mHoldingQueue \o codec)
  /\ flushed' = sent
  /\ mInputEos' = FALSE /\ mDecoderEos' = FALSE /\ mHaveSendEosToDecoder' = FALSE
  /\ IF threadRuning THEN Start ELSE UNCHANGED <<mRunning, thread, dpc>>
  /\ UNCHANGED <<mNeedKeyFrame, mHolding, keyPts, ended, kinds, got>>
  /\ NoneKept

\* The thread is started again only if it was running.
FlushEnds ==
  /\ op = "flush"
  /\ at = "paused" /\ at' = "out" /\ Returns
  /\ FlushDecoder /\ Emptied /\ mHoldingQueue' = <<>>
  /\ gone' = gone \cup ToSet(mInputQueue \o mOutputQueue \o mHoldingQueue \o codec)
  /\ flushed' = sent
  /\ mInputEos' = FALSE /\ mDecoderEos' = FALSE /\ mHaveSendEosToDecoder' = FALSE
  /\ mNeedKeyFrame' = TRUE
  /\ IF threadRuning THEN Start ELSE UNCHANGED <<mRunning, thread, dpc>>
  /\ UNCHANGED <<mHolding, keyPts, ended, kinds, got>>
  /\ NoneKept

CloseEnds ==
  /\ op = "close"
  /\ ClientAt("paused", "closed") /\ Returns
  /\ CloseDecoder /\ Emptied
  /\ gone' = gone \cup ToSet(mInputQueue \o mOutputQueue \o codec)
  /\ NothingElse
  /\ UNCHANGED <<mHoldingQueue, got, flushed, thread, mRunning>>

\* pause(false); holdOn(false) when nothing is held does the same.
Resume ==
  /\ \E o \in {"pause", "holdOn"} : Calls(o) /\ (o = "holdOn" => ~mHolding)
  /\ ClientAndThreadAt("out", "out")
  /\ Start
  /\ NothingElse /\ QueuesUnchanged
  /\ UNCHANGED <<op, threadRuning>>

PrePause ==
  /\ Calls("prePause")
  /\ ClientAt("out", "out")
  /\ mRunning' = FALSE
  /\ mTryPause' = (mTryPause \/ status = "RUNNING")
  /\ NothingElse /\ QueuesUnchanged
  /\ UNCHANGED <<op, threadRuning, status, asked>>

InsideCall ==
  \/ FlushForHeldKey \/ Enqueue \/ GetFrameLooksAtEos
  \/ PauseThread \/ ThreadIsPaused
  \/ PauseEnds \/ HoldOnEnds \/ FlushEnds \/ CloseEnds

Client ==
  \/ Open
  \/ \E kind \in Kinds : SendAfterTheEnd(kind) \/ SendHeld(kind) \/ SendPacket(kind)
  \/ SendRefused \/ SendTheEnd
  \/ GetFrame
  \/ \E o \in Ops : StopRunning(o)
  \/ Resume \/ PrePause
  \/ InsideCall

Next == DecodeThread \/ Awakes \/ Client

Spec == Init /\ [][Next]_vars

(***************************************************************************)
(* Both threads run, and the client keeps calling getFrame(), as           *)
(* fillVideoFrame of the player's loop does.  Nobody has to wake the       *)
(* thread, or to make any other call.                                      *)
(***************************************************************************)
FairSpec ==
  /\ Spec
  /\ WF_vars(DecodeThread)
  /\ WF_vars(InsideCall)
  /\ WF_vars(GetFrame)

-----------------------------------------------------------------------------
InPipeline ==
  mOutputQueue \o codec \o mInputQueue \o mHoldingQueue \o
    (IF at = "enqueue" \/ at = "hold" THEN <<sent>> ELSE <<>>)

(***************************************************************************)
(* Frames come out once each and in the order of their packets, through    *)
(* two queues, the codec and the holding queue, and what was accepted and  *)
(* not refused by the codec, flushed or replaced is still on its way.      *)
(***************************************************************************)
FramesInOrderOnce ==
  LET all == got \o InPipeline
  IN /\ \A i, j \in DOMAIN all : i < j => all[i] < all[j]
     /\ ToSet(all) \cap gone = {}
     /\ ToSet(all) \cup gone = 1 .. sent

(***************************************************************************)
(* The codec and both ends of the queues are used by one thread at a time: *)
(* when the client's methods empty the queues or flush the codec, and for  *)
(* ever once close() has freed it, the decoding thread is outside          *)
(* decodeFunc; and it is outside its use of the codec when a held key      *)
(* frame flushes it without a pause.                                       *)
(***************************************************************************)
CodecIsUsedByOneThread ==
  /\ at \in {"paused", "closed"} => dpc \in {"none", "top", "toSleep", "asleep", "try"}
  /\ at = "hold" => dpc \notin {"extract", "enqueue", "sendEnd", "drain"}

(***************************************************************************)
(* After flush() nothing of what was sent before it comes out or is still  *)
(* inside, although the thread may have been anywhere when it was called.  *)
(***************************************************************************)
NothingOldAfterFlush ==
  at # "paused" => \A id \in ToSet(InPipeline) : id > flushed

(***************************************************************************)
(* The codec is sent the end after all packets: once it drains, no packet  *)
(* is behind it in the input queue (decodeFunc reads mInputEos first, then *)
(* the queue that the client fills before it sets mInputEos).              *)
(***************************************************************************)
EndFollowsThePackets ==
  draining => mInputQueue = <<>> /\ at # "enqueue"

(***************************************************************************)
(* Since it was opened or flushed the codec starts with a key frame, and   *)
(* is given no packet that depends on what was before it: leading packets  *)
(* only after a second key frame (needDrop's mNeedKeyFrame and keyPts).    *)
(***************************************************************************)
CodecStartsWithAKeyFrame ==
  LET IsKey(i) == kinds[fed[i]] = "key"
  IN \A i \in DOMAIN fed :
       /\ IsKey(1)
       /\ kinds[fed[i]] = "leading" => \E j \in 2 .. i - 1 : IsKey(j)

\* The notification of start() was lost (SNThread.tla's Stranded).
Stranded == dpc = "asleep" /\ status = "RUNNING"

(***************************************************************************)
(* A client that has sent the end and keeps taking frames is told EOS, if  *)
(* it does not pause, flush or close; after a flush the next end is again. *)
(* Not claimed when a start() loses its notification, nor after prePause():*)
(* its tryPause() may be applied after a later start().                    *)
(***************************************************************************)
EndIsReached ==
  []~mTryPause /\ []~Stranded
    => (mInputEos ~> ended \/ ~mInputEos \/ ~mRunning)
=============================================================================
