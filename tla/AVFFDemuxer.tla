----------------------------- MODULE AVFFDemuxer -----------------------------
(***************************************************************************)
(* The demuxer's read thread and its packet queue                          *)
(* (framework/demuxer/AVFFDemuxer.cpp): the thread reads packets of the    *)
(* opened streams and queues them, the player's thread takes them out.     *)
(*                                                                         *)
(* The media is a sequence of packets of which only the stream matters; a  *)
(* packet is named by its position.  The read thread is an SNThread, of    *)
(* which this module keeps the status and the loop; one player thread      *)
(* starts and stops it, and another thread may interrupt with preStop().   *)
(* mReadEOS is set only when readPacketInternal returns AGAIN, which it    *)
(* never does, so the wait for a new start at the end of the stream        *)
(* (readLoop, 170-178) is not reached and has no action here.              *)
(***************************************************************************)
EXTENDS Integers, Sequences, FiniteSets, SequencesExt

CONSTANTS
  Media,           \* the stream of each packet, in file order
  MAX_QUEUE_SIZE,
  Ops,             \* the methods the player and the interrupting thread call
  Faults,          \* "io": a read may fail, "bsf": a bitstream filter may
  MaxStops         \* bound: calls of stop() and preStop()

AllOps == {"start", "restart", "stop", "preStop", "openStream", "closeStream"}

Streams == {Media[i] : i \in DOMAIN Media}
Position == DOMAIN Media

ASSUME AVFFDemuxerAssumption ==
  /\ Media \in Seq(Streams)
  /\ MAX_QUEUE_SIZE \in Nat
  /\ Ops \subseteq AllOps
  /\ Faults \subseteq {"io", "bsf"}
  /\ MaxStops \in Nat

VARIABLES
  mOpened,        \* open() has succeeded
  opened,         \* the streams openStream() has opened
  next,           \* position of the next packet in the file
  mPacketQueue,   \* the positions queued
  mReadEOS, mError, bPaused, mExited,
  status,         \* the status of mReadThread
  rpc,            \* where the read thread is
  pkt,            \* the packet it has read and not queued, 0: none
  blocked,        \* it waits on mQueCond
  at,             \* where the player's thread is
  otherAt,        \* where the interrupting thread is
  stops,          \* calls of stop() and preStop() so far
  delivered,      \* the positions readPacket() has returned
  skipped,        \* the positions no packet was made of
  result          \* the last status readPacket() returned

demux == <<mOpened, opened, next, skipped>>
reader == <<rpc, pkt>>
client == <<at, otherAt, stops, delivered, result>>
vars == <<mOpened, opened, next, mPacketQueue, mReadEOS, mError, bPaused,
          mExited, status, rpc, pkt, blocked, at, otherAt, stops, delivered,
          skipped, result>>

PacketsTypeOK ==
  /\ mOpened \in BOOLEAN
  /\ opened \subseteq Streams
  /\ next \in 1 .. Len(Media) + 1
  /\ mPacketQueue \in Seq(Position)
  /\ pkt \in Position \cup {0}
  /\ delivered \in Seq(Position)
  /\ skipped \subseteq Position
  /\ result \in {"NONE", "SUCCESS", "ERROR", "AGAIN", "EOS"}

ThreadsTypeOK ==
  /\ mReadEOS \in BOOLEAN
  /\ mError \in {0, -1}
  /\ bPaused \in BOOLEAN
  /\ mExited \in BOOLEAN
  /\ status \in {"IDLE", "STOPED", "RUNNING", "PAUSED"}
  /\ rpc \in {"none", "top", "begin", "read", "push", "full", "error",
              "asleep", "done"}
  /\ blocked \in BOOLEAN
  /\ at \in {"out", "startThread", "stopNotify", "stopThread", "join"}
  /\ otherAt \in {"out", "notify"}
  /\ stops \in 0 .. MaxStops

TypeOK == PacketsTypeOK /\ ThreadsTypeOK

Init ==
  /\ mOpened = FALSE
  /\ opened = {}
  /\ next = 1
  /\ mPacketQueue = <<>>
  /\ mReadEOS = FALSE /\ mError = 0 /\ bPaused = FALSE /\ mExited = FALSE
  /\ status = "IDLE"
  /\ rpc = "none" /\ pkt = 0 /\ blocked = FALSE
  /\ at = "out" /\ otherAt = "out" /\ stops = 0
  /\ delivered = <<>> /\ skipped = {} /\ result = "NONE"

-----------------------------------------------------------------------------
(***************************************************************************)
(* readPacketInternal: one packet of an opened stream, or why there is     *)
(* none.  av_read_frame skips to the next packet; the end of the file is   *)
(* reported as EOS; a packet the bitstream filter refuses is gone.         *)
(***************************************************************************)
Ahead == {i \in Position : i >= next /\ Media[i] \in opened}

ReadFrame(ret, packet) ==
  \/ /\ ~mOpened \/ "io" \in Faults
     /\ ret = "ERROR" /\ packet = 0
     /\ UNCHANGED <<next, skipped>>
  \/ /\ mOpened
     /\ \E i \in Ahead :
          /\ \A j \in Ahead : i <= j
          /\ next' = i + 1
          /\ \/ /\ ret = "SUCCESS" /\ packet = i
                /\ skipped' = skipped \cup (next .. i - 1)
             \/ /\ "bsf" \in Faults
                /\ ret = "ERROR" /\ packet = 0
                /\ skipped' = skipped \cup (next .. i)
  \/ /\ mOpened /\ Ahead = {}
     /\ ret = "EOS" /\ packet = 0
     /\ next' = Len(Media) + 1
     /\ skipped' = skipped \cup (next .. Len(Media))

Results == {"SUCCESS", "ERROR", "EOS"}

-----------------------------------------------------------------------------
(***************************************************************************)
(* The read thread: SNThread's loop around readLoop.                       *)
(***************************************************************************)
ReaderOnly == UNCHANGED <<mOpened, opened, bPaused, mExited, client>>

Goes(from, to) ==
  /\ rpc = from
  /\ rpc' = to
  /\ UNCHANGED <<mPacketQueue, mReadEOS, mError, status, pkt, blocked, next,
                 skipped>>
  /\ ReaderOnly

\* A stopped thread leaves the loop.
LoopEnds == status = "STOPED" /\ Goes("top", "done")

LoopContinues == status = "RUNNING" /\ ~mExited /\ Goes("top", "begin")

\* After preStop() readLoop returns -1, and SNThread pauses itself.
LoopPauses ==
  /\ status = "RUNNING" /\ mExited
  /\ rpc = "top" /\ rpc' = "asleep"
  /\ status' = "PAUSED"
  /\ UNCHANGED <<mPacketQueue, mReadEOS, mError, pkt, blocked, next, skipped>>
  /\ ReaderOnly

LoopResumes == status # "PAUSED" /\ Goes("asleep", "top")

Begin ==
  \/ bPaused /\ Goes("begin", "top")
  \/ ~bPaused /\ ~mReadEOS /\ Goes("begin", "read")

\* Mutant: errors are counted.
ReadCountsErrors ==
  \E ret \in Results, packet \in Position \cup {0} :
    /\ rpc = "read"
    /\ ReadFrame(ret, packet)
    /\ pkt' = packet
    /\ rpc' = IF ret = "SUCCESS" THEN "push" ELSE "error"
    /\ mError' = IF ret = "SUCCESS" THEN mError ELSE mError - 1
    /\ UNCHANGED <<mReadEOS, mPacketQueue, status, blocked>>
    /\ ReaderOnly

Read ==
  \E ret \in Results, packet \in Position \cup {0} :
    /\ rpc = "read"
    /\ ReadFrame(ret, packet)
    /\ pkt' = packet
    /\ rpc' = CASE ret = "SUCCESS" -> "push"
                [] ret = "AGAIN" -> "top"
                [] OTHER -> "error"
    /\ mReadEOS' = (mReadEOS \/ ret = "AGAIN")
    /\ mError' = IF ret \in {"SUCCESS", "AGAIN"} THEN mError ELSE -1
    /\ UNCHANGED <<mPacketQueue, status, blocked>>
    /\ ReaderOnly

\* wait_for ends after 10 ms at the latest.
ErrorWaitEnds == Goes("error", "top")

QueueIsFull == Len(mPacketQueue) > MAX_QUEUE_SIZE

\* The predicate of the wait on mQueCond is tested before it blocks, and again
\* whenever it is woken: there is room, or the thread is told to leave.
MustWait == QueueIsFull /\ ~bPaused /\ ~mExited

PushPacket ==
  /\ mPacketQueue' = Append(mPacketQueue, pkt)
  /\ pkt' = 0
  /\ rpc' = "top"
  /\ UNCHANGED <<mReadEOS, mError, status, blocked, next, skipped>>
  /\ ReaderOnly

BlockOnQueue ==
  /\ rpc' = "full"
  /\ blocked' = TRUE
  /\ UNCHANGED <<mPacketQueue, mReadEOS, mError, status, pkt, next, skipped>>
  /\ ReaderOnly

\* Mutant: the queue has no limit.
PushAtOnce == rpc = "push" /\ PushPacket

Push ==
  /\ rpc = "push"
  /\ IF MustWait THEN BlockOnQueue ELSE PushPacket

\* Mutant: told to leave, the thread leaves without its packet.
WakeAndLeave ==
  /\ rpc = "full" /\ ~blocked
  /\ CASE MustWait -> BlockOnQueue
       [] ~QueueIsFull -> PushPacket
       [] OTHER -> /\ pkt' = 0 /\ rpc' = "top"
                   /\ UNCHANGED <<mPacketQueue, mReadEOS, mError, status,
                                  blocked, next, skipped>>
                   /\ ReaderOnly

WakeOnQueue ==
  /\ rpc = "full" /\ ~blocked
  /\ IF MustWait THEN BlockOnQueue ELSE PushPacket

Reader ==
  \/ LoopEnds \/ LoopContinues \/ LoopPauses \/ LoopResumes
  \/ Begin \/ Read \/ ErrorWaitEnds \/ Push \/ WakeOnQueue

-----------------------------------------------------------------------------
(***************************************************************************)
(* The player's thread.                                                    *)
(***************************************************************************)
PlayerAt(from, to) ==
  /\ at = from /\ at' = to
  /\ UNCHANGED <<mOpened, otherAt, delivered, result, skipped, next,
                 mPacketQueue, mReadEOS, mError, mExited, pkt>>

Open ==
  /\ at = "out" /\ ~mOpened
  /\ mOpened' = TRUE
  /\ UNCHANGED <<opened, next, skipped, mPacketQueue, mReadEOS, mError,
                 bPaused, mExited, status, reader, blocked, client>>

OpenStream(s) ==
  /\ "openStream" \in Ops /\ at = "out"
  /\ opened' = opened \cup {s}
  /\ UNCHANGED <<mOpened, next, skipped, mPacketQueue, mReadEOS, mError,
                 bPaused, mExited, status, reader, blocked, client>>

CloseStream(s) ==
  /\ "closeStream" \in Ops /\ at = "out"
  /\ opened' = opened \ {s}
  /\ UNCHANGED <<mOpened, next, skipped, mPacketQueue, mReadEOS, mError,
                 bPaused, mExited, status, reader, blocked, client>>

\* The first start() creates the thread; the player makes no other.
StartUnpauses ==
  /\ IF status = "IDLE" THEN "start" \in Ops ELSE "restart" \in Ops
  /\ PlayerAt("out", "startThread")
  /\ bPaused' = FALSE
  /\ UNCHANGED <<opened, status, rpc, blocked, stops>>

StartThread ==
  /\ PlayerAt("startThread", "out")
  /\ status' = "RUNNING"
  /\ rpc' = IF rpc = "none" THEN "top" ELSE rpc
  /\ UNCHANGED <<opened, bPaused, blocked, stops>>

StopPauses ==
  /\ "stop" \in Ops /\ stops < MaxStops
  /\ PlayerAt("out", "stopNotify")
  /\ bPaused' = TRUE
  /\ stops' = stops + 1
  /\ UNCHANGED <<opened, status, rpc, blocked>>

\* Mutant: the waiting thread is not notified.
StopIsSilent ==
  /\ PlayerAt("stopNotify", "stopThread")
  /\ UNCHANGED <<blocked, opened, bPaused, status, rpc, stops>>

StopNotifies ==
  /\ PlayerAt("stopNotify", "stopThread")
  /\ blocked' = FALSE
  /\ UNCHANGED <<opened, bPaused, status, rpc, stops>>

StopThread ==
  /\ PlayerAt("stopThread", "join")
  /\ status' = "STOPED"
  /\ UNCHANGED <<opened, bPaused, rpc, blocked, stops>>

StopJoins ==
  /\ rpc \in {"none", "done"}
  /\ PlayerAt("join", "out")
  /\ rpc' = "none"
  /\ UNCHANGED <<opened, bPaused, status, blocked, stops>>

\* readPacket() with no thread yet reads the file itself.
ReadPacketDirectly ==
  /\ at = "out" /\ status = "IDLE"
  /\ \E ret \in Results, packet \in Position \cup {0} :
       /\ ReadFrame(ret, packet)
       /\ result' = ret
       /\ delivered' = IF ret = "SUCCESS" THEN Append(delivered, packet)
                       ELSE delivered
  /\ UNCHANGED <<mOpened, opened, mPacketQueue, mReadEOS, mError, bPaused,
                 mExited, status, reader, blocked, at, otherAt, stops>>

EmptyResult ==
  IF mReadEOS THEN "EOS" ELSE IF mError < 0 THEN "ERROR" ELSE "AGAIN"

\* Mutant: the waiting thread is not notified of the room.
ReadPacketSilently ==
  /\ at = "out" /\ status # "IDLE"
  /\ \/ /\ mPacketQueue # <<>>
        /\ delivered' = Append(delivered, Head(mPacketQueue))
        /\ mPacketQueue' = Tail(mPacketQueue)
        /\ result' = "SUCCESS"
     \/ /\ mPacketQueue = <<>>
        /\ result' = EmptyResult
        /\ UNCHANGED <<delivered, mPacketQueue>>
  /\ UNCHANGED <<demux, mReadEOS, mError, bPaused, mExited, status, reader,
                 blocked, at, otherAt, stops>>

\* Otherwise it takes the front of the queue and wakes the read thread.
ReadPacket ==
  /\ at = "out" /\ status # "IDLE"
  /\ \/ /\ mPacketQueue # <<>>
        /\ delivered' = Append(delivered, Head(mPacketQueue))
        /\ mPacketQueue' = Tail(mPacketQueue)
        /\ blocked' = FALSE
        /\ result' = "SUCCESS"
     \/ /\ mPacketQueue = <<>>
        /\ result' = EmptyResult
        /\ UNCHANGED <<delivered, mPacketQueue, blocked>>
  /\ UNCHANGED <<demux, mReadEOS, mError, bPaused, mExited, status, reader,
                 at, otherAt, stops>>

\* preStop(), from a thread that may not be the player's.
PreStop ==
  /\ "preStop" \in Ops /\ stops < MaxStops
  /\ otherAt = "out" /\ otherAt' = "notify"
  /\ mExited' = TRUE
  /\ stops' = stops + 1
  /\ UNCHANGED <<demux, mPacketQueue, mReadEOS, mError, bPaused, status,
                 reader, blocked, at, delivered, result>>

PreStopNotifies ==
  /\ otherAt = "notify" /\ otherAt' = "out"
  /\ blocked' = FALSE
  /\ UNCHANGED <<demux, mPacketQueue, mReadEOS, mError, bPaused, mExited,
                 status, reader, at, stops, delivered, result>>

InsideCall ==
  StartThread \/ StopNotifies \/ StopThread \/ StopJoins

Client ==
  \/ Open \/ \E s \in Streams : OpenStream(s) \/ CloseStream(s)
  \/ StartUnpauses \/ StopPauses \/ InsideCall
  \/ ReadPacketDirectly \/ ReadPacket

Next == Reader \/ Client \/ PreStop \/ PreStopNotifies

Spec == Init /\ [][Next]_vars

(***************************************************************************)
(* The threads run: the read thread whenever it can, the player's thread   *)
(* inside start() and stop(), the interrupting thread inside preStop().    *)
(***************************************************************************)
FairSpec ==
  /\ Spec
  /\ WF_vars(Reader)
  /\ WF_vars(InsideCall)
  /\ WF_vars(PreStopNotifies)

(***************************************************************************)
(* A player as processPrepareMsg and doReadPacket make it: it opens the    *)
(* file and the streams, starts the thread and keeps reading between its   *)
(* other calls.                                                            *)
(***************************************************************************)
PlayingSpec ==
  /\ FairSpec
  /\ WF_vars(Open)
  /\ \A s \in Streams : WF_vars(OpenStream(s))
  /\ WF_vars(StartUnpauses /\ status = "IDLE" /\ mOpened /\ opened = Streams)
  /\ SF_vars(ReadPacket)

-----------------------------------------------------------------------------
Held == IF pkt = 0 THEN <<>> ELSE <<pkt>>
Made == delivered \o (mPacketQueue \o Held)

(***************************************************************************)
(* Whatever is started, stopped, interrupted or refused, the packets come  *)
(* out once each and in file order, and none that was read is lost between *)
(* the read thread, the queue and the player.                              *)
(***************************************************************************)
InFileOrderOnce ==
  /\ \A i, j \in DOMAIN Made : i < j => Made[i] < Made[j]
  /\ ToSet(Made) \cup skipped = 1 .. next - 1

(***************************************************************************)
(* The queue holds MAX_QUEUE_SIZE + 1 packets, and one more for each time  *)
(* stop() or preStop() made the waiting thread push the packet it held.    *)
(***************************************************************************)
QueueIsBounded == Len(mPacketQueue) <= MAX_QUEUE_SIZE + 1 + stops

(***************************************************************************)
(* stop() returns: a read thread that waits for room, sleeps after         *)
(* preStop() or spins while paused always gets to the end of its loop.     *)
(***************************************************************************)
StopReturns == at \in {"stopNotify", "stopThread", "join"} ~> at = "out"

(***************************************************************************)
(* A player that keeps reading, stops nothing and leaves its streams open  *)
(* gets every packet of the file, if no read fails before its end.         *)
(***************************************************************************)
EverythingIsDelivered ==
  /\ [](stops = 0 /\ (mError = 0 \/ next > Len(Media)))
  /\ <>[](opened = Streams)
  => <>[](ToSet(delivered) \cup skipped = Position)

(***************************************************************************)
(* A player that keeps reading is told of the end: readPacketInternal      *)
(* returns EOS there (AVFFDemuxer.cpp:282), for SnPlayer.cpp:257.          *)
(***************************************************************************)
EndIsReported == <>(result = "EOS")
=============================================================================
