------------------------ MODULE PlayerPipelineProofs ------------------------
(***************************************************************************)
(* The media loop uses its queue only as the queue's own theorems allow,   *)
(* so they hold in the pipeline; no video packet is lost, repeated or      *)
(* reordered on its way to the decoder; and the shorter of two buffers     *)
(* never grows beyond what stops the reading by more than one packet and   *)
(* what the decoder holds, for any file and any limits.                    *)
(***************************************************************************)
EXTENDS PlayerPipeline, MediaPacketQueueProofs

\* The packet in hand is the next one of the file after those taken.
HandSize == IF mVideoPacket = NoPacket THEN 0 ELSE 1

(***************************************************************************)
(* VideoInOrderOnce position by position: what was taken, what is in hand  *)
(* and what is queued are numbered through.                                *)
(***************************************************************************)
InOrder ==
  /\ Len(taken) + HandSize + Len(mQueue) = videoRead
  /\ \A i \in 1 .. Len(taken) : taken[i] = i
  /\ mVideoPacket # NoPacket => mVideoPacket.id = Len(taken) + 1
  /\ \A i \in 1 .. Len(mQueue) : mQueue[i].id = Len(taken) + HandSize + i

\* A turn comes to the sending only with a packet in hand.
SendsAPacket == at = "send" => mVideoPacket # NoPacket

PipelineInv == PipelineTypeOK /\ InOrder /\ SendsAPacket

-----------------------------------------------------------------------------
\* Every step of the pipeline is a call of the queue or leaves it alone.
LEMMA PipelineStepsTheQueue ==
  ASSUME [PipelineNext]_pipeline
  PROVE  [Next]_vars
<1>1. CASE Prepared
  BY <1>1 DEF Prepared, queue, vars
<1>2. CASE ProcessMediaLoop
  BY <1>2 DEF ProcessMediaLoop, queue, vars
<1>3. CASE DoReadPacket
  <2>1. CASE ReadVideoPacket
    <3>1. PICK p \in Packets : AddPacket(p)
      BY <2>1 DEF ReadVideoPacket
    <3> QED
      BY <3>1 DEF Next
  <2>2. CASE BufferFull \/ LowMemory
    BY <2>2 DEF BufferFull, LowMemory, queue, vars
  <2>3. CASE ReadAudioPacket \/ ReadNothing \/ ReadEnds
    BY <2>3 DEF ReadAudioPacket, ReadNothing, ReadEnds, queue, vars
  <2> QED
    BY <1>3, <2>1, <2>2, <2>3 DEF DoReadPacket
<1>4. CASE DoDecode
  <2>1. CASE TakePacket
    BY <2>1 DEF TakePacket, Next, queue, vars
  <2>2. CASE SkipDecoding \/ FillVideoFrame \/ SendPacket
    BY <2>2 DEF SkipDecoding, FillVideoFrame, SendPacket, queue, vars
  <2> QED
    BY <1>4, <2>1, <2>2 DEF DoDecode
<1>5. CASE SetupAVDevice \/ Decode
  BY <1>5 DEF Setup, SetupAVDevice, Decode, queue, vars
<1>6. CASE UNCHANGED pipeline
  BY <1>6 DEF pipeline, queue, vars
<1> QED
  BY <1>1, <1>2, <1>3, <1>4, <1>5, <1>6 DEF PipelineNext, MainService

(***************************************************************************)
(* The media loop's calls of the queue are those the queue's own           *)
(* specification allows: what holds of the queue holds in the pipeline.    *)
(***************************************************************************)
THEOREM PipelineUsesTheQueue == PipelineSpec => Spec
<1>1. PipelineInit => Init
  BY DEF PipelineInit
<1>2. [PipelineNext]_pipeline => [Next]_vars
  BY PipelineStepsTheQueue
<1> QED
  BY <1>1, <1>2, PTL DEF PipelineSpec, Spec

(***************************************************************************)
(* No assertion of the queue fails in the media loop, whatever the file,   *)
(* the limits and the order of reading and decoding.                       *)
(***************************************************************************)
THEOREM PipelineNeverFaults ==
  ASSUME PlayerUse
  PROVE  PipelineSpec => []NoFault
  BY PipelineUsesTheQueue, PlayerNeverFaults, PTL

(***************************************************************************)
(* In the media loop the queue implements the tape.                        *)
(***************************************************************************)
THEOREM PipelineImplementsTape ==
  ASSUME PlayerUse
  PROVE  PipelineSpec => ImplementsTape
  BY PipelineUsesTheQueue, PlayerImplementsTape, PTL

-----------------------------------------------------------------------------
\* A packet of the file is none of the nullptrs.
LEMMA FileHasNoNullptr ==
  ASSUME NEW p \in Packets
  PROVE  Dated(p).id = p.id /\ p.id \in Nat /\ p.id # 0
  BY PacketsAssumption DEF Dated, Packet, NoPacket

\* The bounds that are compared are numbers.
LEMMA BoundsAreNumbers ==
  /\ VideoLength \in Nat /\ GoodSteps \in Nat /\ MiddleSteps \in Nat
  /\ MAX_INPUT_SIZE \in Nat /\ MAX_OUTPUT_SIZE \in Nat
  /\ MaxSetupFailures \in Nat /\ AudioLength \in Nat
  BY PipelineAssumption

LEMMA NullptrIsAPacket == NoPacket \in Packet
  BY DEF NoPacket, Packet, NoTime

\* The types of what the order of the packets is about.
LEMMA OrderTypes ==
  ASSUME PlayerInv, PipelineInv
  PROVE  /\ mQueue \in Seq(Packet) /\ Len(mQueue) \in Nat
         /\ taken \in Seq(1 .. VideoLength) /\ Len(taken) \in Nat
         /\ HandSize \in 0 .. 1
         /\ videoRead \in Nat /\ videoRead <= VideoLength
         /\ VideoLength \in Nat
<1>1. mQueue \in Seq(Packet)
  BY DEF PlayerInv, TypeOK
<1>2. taken \in Seq(1 .. VideoLength) /\ videoRead \in 0 .. VideoLength
  BY DEF PipelineInv, PipelineTypeOK, VideoTypeOK
<1> QED
  BY <1>1, <1>2, BoundsAreNumbers DEF HandSize

LEMMA PipelineInitHolds == PipelineInit => PipelineInv
<1> SUFFICES ASSUME PipelineInit PROVE PipelineInv
  OBVIOUS
<1>1. LoopTypeOK
  <2>1. 0 \in 0 .. AudioLength /\ 0 \in Nat
    BY BoundsAreNumbers
  <2> QED
    BY <2>1, Zenon DEF PipelineInit, LoopTypeOK
<1>2. VideoTypeOK
  <2>1. mInputQueue \in Seq(1 .. VideoLength) /\ Len(mInputQueue) = 0
        /\ taken \in Seq(1 .. VideoLength)
    BY DEF PipelineInit
  <2>2. /\ 0 \in 0 .. VideoLength /\ 0 \in 0 .. MAX_OUTPUT_SIZE
        /\ 0 \in 0 .. MaxSetupFailures /\ 0 <= MAX_INPUT_SIZE
    BY BoundsAreNumbers
  <2>3. Len(mInputQueue) <= MAX_INPUT_SIZE
    BY <2>1, <2>2
  <2> QED
    BY <2>1, <2>2, <2>3, NullptrIsAPacket, Zenon DEF PipelineInit, VideoTypeOK
<1>3. InOrder /\ SendsAPacket
  BY DEF PipelineInit, Init, InOrder, HandSize, SendsAPacket
<1> QED
  BY <1>1, <1>2, <1>3 DEF PipelineInv, PipelineTypeOK

\* The next packet of the file goes to the end of the queue.
LEMMA ReadVideoKeepsInv ==
  ASSUME PlayerInv, PlayerInv', PipelineInv, ReadVideoPacket
  PROVE  PipelineInv'
<1>1. PICK p \in Packets : p.id = videoRead + 1 /\ AddPacket(p)
  BY DEF ReadVideoPacket
<1>2. /\ UNCHANGED <<mPlayStatus, streams, mReadEos, mAudioPackets,
                     mVideoPacket, valid, mInputQueue, mOutputQueue,
                     setupFailures, taken, startBufferDuration>>
      /\ videoRead < VideoLength /\ videoRead' = videoRead + 1
      /\ mBufferIsFull' = FALSE /\ at' \in {"read", "decode"}
      /\ mLowMem' = mLowMem \/ mLowMem' = FALSE
  BY DEF ReadVideoPacket, MayRead, EnoughMemory, GoesOn, decoder
<1>3. checkStep' \in Nat
  <2>1. checkStep \in Nat
    BY DEF PipelineInv, PipelineTypeOK, LoopTypeOK
  <2>2. checkStep' \in {GoodSteps, MiddleSteps,
                        IF checkStep = 0 THEN 0 ELSE checkStep - 1}
    BY DEF ReadVideoPacket, EnoughMemory
  <2> QED
    BY <2>1, <2>2, BoundsAreNumbers
<1>4. LoopTypeOK'
  BY <1>2, <1>3 DEF PipelineInv, PipelineTypeOK, LoopTypeOK
<1>5. VideoTypeOK'
  <2>1. videoRead' \in 0 .. VideoLength
    BY <1>2, OrderTypes
  <2> QED
    BY <1>2, <2>1 DEF PipelineInv, PipelineTypeOK, VideoTypeOK
<1>6. InOrder'
  <2>1. mQueue \in Seq(Packet) /\ Dated(p) \in Packet
    BY PacketsAssumption, DatedPacket DEF PlayerInv, TypeOK
  <2>2. mQueue' = Append(mQueue, Dated(p)) /\ Dated(p).id = videoRead + 1
    BY <1>1, FileHasNoNullptr DEF AddPacket
  <2>3. /\ Len(mQueue') = Len(mQueue) + 1
        /\ \A i \in 1 .. Len(mQueue) : mQueue'[i] = mQueue[i]
        /\ mQueue'[Len(mQueue) + 1] = Dated(p)
    BY <2>1, <2>2
  <2>4. taken' = taken /\ HandSize' = HandSize
    BY <1>2 DEF HandSize
  <2>5. Len(taken) + HandSize + Len(mQueue) = videoRead
    BY DEF PipelineInv, InOrder
  <2>6. Len(taken) \in Nat /\ HandSize \in Nat /\ Len(mQueue) \in Nat
        /\ videoRead \in Nat
    BY OrderTypes
  <2>7. \A i \in 1 .. Len(mQueue') :
          mQueue'[i].id = Len(taken) + HandSize + i
    <3>1. ASSUME NEW i \in 1 .. Len(mQueue)
          PROVE  mQueue'[i].id = Len(taken) + HandSize + i
      BY <2>3 DEF PipelineInv, InOrder
    <3>2. mQueue'[Len(mQueue) + 1].id = videoRead + 1
      BY <2>2, <2>3
    <3>3. videoRead + 1 = Len(taken) + HandSize + (Len(mQueue) + 1)
      BY <2>5, <2>6
    <3>4. \A i \in 1 .. Len(mQueue') :
            i \in 1 .. Len(mQueue) \/ i = Len(mQueue) + 1
      BY <2>3, <2>6
    <3> QED
      BY <3>1, <3>2, <3>3, <3>4
  <2>8. Len(taken) + HandSize + Len(mQueue') = videoRead'
    BY <1>2, <2>3, <2>5, <2>6
  <2> QED
    BY <1>2, <2>4, <2>7, <2>8 DEF PipelineInv, InOrder
<1>7. SendsAPacket'
  BY <1>2 DEF SendsAPacket
<1> QED
  BY <1>4, <1>5, <1>6, <1>7 DEF PipelineInv, PipelineTypeOK

\* The front of the queue becomes the packet in hand, when there was none.
LEMMA TakePacketKeepsInv ==
  ASSUME PlayerInv, PlayerInv', PipelineInv, TakePacket
  PROVE  PipelineInv'
<1>1. /\ UNCHANGED <<mPlayStatus, streams, checkStep, startBufferDuration,
                     mBufferIsFull, mLowMem, mReadEos, mAudioPackets,
                     videoRead, valid, mInputQueue, mOutputQueue,
                     setupFailures, taken>>
      /\ at' = "fill"
  BY DEF TakePacket, reading, decoder
<1>2. LoopTypeOK' /\ SendsAPacket'
  BY <1>1 DEF PipelineInv, PipelineTypeOK, LoopTypeOK, SendsAPacket
<1>3. VideoTypeOK'
  <2>1. mVideoPacket' \in Packet
    BY DEF TakePacket, PlayerInv, TypeOK, PipelineInv, PipelineTypeOK,
           VideoTypeOK
  <2> QED
    BY <1>1, <2>1 DEF PipelineInv, PipelineTypeOK, VideoTypeOK
<1>4. CASE mVideoPacket = NoPacket
  <2>1. GetPacket /\ mVideoPacket' = returned'
    BY <1>4 DEF TakePacket
  <2>2. CASE GetPacketAborts
    BY <2>2 DEF GetPacketAborts, Asserted, PlayerInv, ForwardOnly
  <2>3. CASE GetNothing
    <3>1. mVideoPacket' = mVideoPacket /\ mQueue' = mQueue
      BY <1>4, <2>1, <2>3 DEF GetNothing
    <3>2. InOrder'
      BY <1>1, <3>1 DEF PipelineInv, InOrder, HandSize
    <3> QED
      BY <1>2, <1>3, <3>2 DEF PipelineInv, PipelineTypeOK
  <2>4. CASE GetAndRemove
    <3>1. mQueue # <<>> /\ mQueue' = Tail(mQueue) /\ mVideoPacket' = mQueue[1]
      BY <2>1, <2>4 DEF GetAndRemove
    <3>2. HandSize = 0 /\ Len(mQueue) > 0
      BY <1>4, <3>1, OrderTypes DEF HandSize
    <3>3. mQueue[1].id = Len(taken) + 1
      BY <3>2, OrderTypes DEF PipelineInv, InOrder
    <3>4. mVideoPacket' # NoPacket /\ HandSize' = 1
      BY <3>1, <3>3, OrderTypes DEF HandSize, NoPacket
    <3>5. Len(mQueue') = Len(mQueue) - 1
          /\ \A i \in 1 .. Len(mQueue') : mQueue'[i] = mQueue[i + 1]
      BY <3>1, OrderTypes
    <3>6. ASSUME NEW i \in 1 .. Len(mQueue')
          PROVE  mQueue'[i].id = Len(taken) + 1 + i
      <4>1. i + 1 \in 1 .. Len(mQueue)
        BY <3>5, OrderTypes
      <4>2. mQueue[i + 1].id = Len(taken) + HandSize + (i + 1)
        BY <4>1 DEF PipelineInv, InOrder
      <4> QED
        BY <3>2, <3>5, <4>2, OrderTypes
    <3>7. Len(taken) + HandSize' + Len(mQueue') = videoRead
      BY <3>2, <3>4, <3>5, OrderTypes DEF PipelineInv, InOrder
    <3>8. InOrder'
      BY <1>1, <3>1, <3>3, <3>4, <3>6, <3>7 DEF PipelineInv, InOrder
    <3> QED
      BY <1>2, <1>3, <3>8 DEF PipelineInv, PipelineTypeOK
  <2>5. CASE GetAndKeep
    BY <2>5 DEF GetAndKeep, PlayerInv, ForwardOnly
  <2> QED
    BY <2>1, <2>2, <2>3, <2>4, <2>5 DEF GetPacket
<1>5. CASE mVideoPacket # NoPacket
  <2>1. mVideoPacket' = mVideoPacket /\ mQueue' = mQueue
    BY <1>5 DEF TakePacket, queue
  <2>2. InOrder'
    BY <1>1, <2>1 DEF PipelineInv, InOrder, HandSize
  <2> QED
    BY <1>2, <1>3, <2>2 DEF PipelineInv, PipelineTypeOK
<1> QED
  BY <1>4, <1>5

\* The packet in hand is taken, or kept when the decoder is full.
LEMMA SendPacketKeepsInv ==
  ASSUME PlayerInv, PipelineInv, SendPacket
  PROVE  PipelineInv'
<1>1. /\ UNCHANGED <<mQueue, mPlayStatus, streams, checkStep,
                     startBufferDuration, mBufferIsFull, mLowMem, mReadEos,
                     mAudioPackets, videoRead, valid, mOutputQueue,
                     setupFailures>>
      /\ at = "send" /\ at' = "setup"
  BY DEF SendPacket, queue, reading
<1>2. LoopTypeOK' /\ SendsAPacket'
  BY <1>1 DEF PipelineInv, PipelineTypeOK, LoopTypeOK, SendsAPacket
<1>3. CASE UNCHANGED <<mVideoPacket, mInputQueue, taken>>
  <2>1. VideoTypeOK'
    BY <1>1, <1>3 DEF PipelineInv, PipelineTypeOK, VideoTypeOK
  <2>2. InOrder'
    BY <1>1, <1>3 DEF PipelineInv, InOrder, HandSize
  <2> QED
    BY <1>2, <2>1, <2>2 DEF PipelineInv, PipelineTypeOK
<1>4. CASE /\ taken' = Append(taken, mVideoPacket.id)
           /\ mVideoPacket' = NoPacket
           /\ \/ UNCHANGED mInputQueue
              \/ /\ ~DecoderIsFull
                 /\ mInputQueue' = Append(mInputQueue, mVideoPacket.id)
  <2>1. mVideoPacket # NoPacket
    BY <1>1 DEF PipelineInv, SendsAPacket
  <2>2. HandSize = 1 /\ HandSize' = 0
    BY <1>4, <2>1 DEF HandSize
  <2>3. mVideoPacket.id = Len(taken) + 1
    BY <2>1 DEF PipelineInv, InOrder
  <2>4. Len(taken) + 1 + Len(mQueue) = videoRead
    BY <2>2 DEF PipelineInv, InOrder
  <2>5. mVideoPacket.id \in 1 .. VideoLength
    BY <2>3, <2>4, OrderTypes
  <2>6. /\ Len(taken') = Len(taken) + 1
        /\ \A i \in 1 .. Len(taken) : taken'[i] = taken[i]
        /\ taken'[Len(taken) + 1] = Len(taken) + 1
        /\ taken' \in Seq(1 .. VideoLength)
    BY <1>4, <2>3, <2>5, OrderTypes
  <2>7. mInputQueue' \in Seq(1 .. VideoLength)
        /\ Len(mInputQueue') <= MAX_INPUT_SIZE
    <3>1. mInputQueue \in Seq(1 .. VideoLength)
          /\ Len(mInputQueue) <= MAX_INPUT_SIZE
      BY DEF PipelineInv, PipelineTypeOK, VideoTypeOK
    <3>2. CASE UNCHANGED mInputQueue
      BY <3>1, <3>2
    <3>3. CASE /\ ~DecoderIsFull
               /\ mInputQueue' = Append(mInputQueue, mVideoPacket.id)
      <4>1. Len(mInputQueue) < MAX_INPUT_SIZE
        BY <3>1, <3>3, BoundsAreNumbers DEF DecoderIsFull
      <4> QED
        BY <2>5, <3>1, <3>3, <4>1, BoundsAreNumbers
    <3> QED
      BY <1>4, <3>2, <3>3
  <2>8. VideoTypeOK'
    <3>1. mVideoPacket' \in Packet
      BY <1>4, NullptrIsAPacket
    <3> QED
      BY <1>1, <2>6, <2>7, <3>1 DEF PipelineInv, PipelineTypeOK, VideoTypeOK
  <2>9. ASSUME NEW i \in 1 .. Len(mQueue)
        PROVE  mQueue[i].id = (Len(taken) + 1) + 0 + i
    BY <2>2, OrderTypes DEF PipelineInv, InOrder
  <2>10. \A i \in 1 .. Len(taken') : taken'[i] = i
    <3>1. \A i \in 1 .. Len(taken) : taken[i] = i
      BY DEF PipelineInv, InOrder
    <3>2. \A i \in 1 .. Len(taken') :
            i \in 1 .. Len(taken) \/ i = Len(taken) + 1
      BY <2>6, OrderTypes
    <3> QED
      BY <2>6, <3>1, <3>2
  <2>11. InOrder'
    BY <1>1, <1>4, <2>2, <2>4, <2>6, <2>9, <2>10, OrderTypes DEF InOrder
  <2> QED
    BY <1>2, <2>8, <2>11 DEF PipelineInv, PipelineTypeOK
<1> QED
  BY <1>3, <1>4 DEF SendPacket

\* The actions that neither touch the queue nor the packet in hand.
LEMMA LoopKeepsInv ==
  ASSUME PipelineInv,
         Prepared \/ ProcessMediaLoop \/ BufferFull \/ LowMemory
         \/ ReadAudioPacket \/ ReadNothing \/ ReadEnds \/ SkipDecoding
         \/ SetupAVDevice
  PROVE  PipelineInv'
<1>1. UNCHANGED <<mQueue, mVideoPacket, videoRead, taken, mInputQueue,
                  mOutputQueue>>
  BY DEF Prepared, ProcessMediaLoop, BufferFull, LowMemory, ReadAudioPacket,
         ReadNothing, ReadEnds, SkipDecoding, Setup, SetupAVDevice, queue, reading,
         decoder
<1>2. InOrder'
  BY <1>1 DEF PipelineInv, InOrder, HandSize
<1>3. SendsAPacket'
  BY <1>1 DEF PipelineInv, SendsAPacket, MayRead, EnoughMemory, GoesOn,
              Prepared, ProcessMediaLoop, BufferFull, LowMemory,
              ReadAudioPacket, ReadNothing, ReadEnds, SkipDecoding,
              SetupAVDevice
<1>4. VideoTypeOK'
  <2>1. (valid \in BOOLEAN)' /\ (setupFailures \in 0 .. MaxSetupFailures)'
    <3>1. valid \in BOOLEAN /\ setupFailures \in 0 .. MaxSetupFailures
      BY DEF PipelineInv, PipelineTypeOK, VideoTypeOK
    <3>2. CASE SetupAVDevice
      <4>1. \/ setupFailures' = setupFailures
            \/ setupFailures < MaxSetupFailures
               /\ setupFailures' = setupFailures + 1
        BY <3>2 DEF Setup, SetupAVDevice
      <4>2. valid' \in BOOLEAN
        <5>1. valid' = TRUE \/ valid' = valid
          BY <3>2, Zenon DEF Setup, SetupAVDevice
        <5> QED
          BY <3>1, <5>1
      <4>3. (setupFailures \in 0 .. MaxSetupFailures)'
        BY <3>1, <4>1, BoundsAreNumbers
      <4> QED
        BY <4>2, <4>3
    <3>3. CASE ~SetupAVDevice
      <4>1. UNCHANGED <<valid, setupFailures>>
        BY <3>3, Zenon
           DEF Prepared, ProcessMediaLoop, BufferFull, LowMemory,
               ReadAudioPacket, ReadNothing, ReadEnds, SkipDecoding, decoder
      <4> QED
        BY <3>1, <4>1
    <3> QED
      BY <3>2, <3>3
  <2> QED
    BY <1>1, <2>1 DEF PipelineInv, PipelineTypeOK, VideoTypeOK
<1>5. LoopTypeOK'
  <2>1. LoopTypeOK
    BY DEF PipelineInv, PipelineTypeOK
  <2>2. CASE Prepared
    <3>1. streams' \subseteq {"video", "audio"}
      BY <2>2, PipelineAssumption DEF Prepared
    <3> QED
      BY <2>1, <2>2, <3>1 DEF Prepared, LoopTypeOK, reading
  <2>3. CASE ProcessMediaLoop
    BY <2>1, <2>3 DEF ProcessMediaLoop, LoopTypeOK
  <2>4. CASE BufferFull
    BY <2>1, <2>4 DEF BufferFull, LoopTypeOK
  <2>5. CASE LowMemory
    BY <2>1, <2>5 DEF LowMemory, MayRead, LoopTypeOK
  <2>6. CASE ReadAudioPacket \/ ReadNothing \/ ReadEnds
    <3>1. /\ UNCHANGED <<mPlayStatus, streams, startBufferDuration>>
          /\ mBufferIsFull' = FALSE /\ at' \in {"read", "decode"}
          /\ mLowMem' = mLowMem \/ mLowMem' = FALSE
          /\ checkStep' \in {GoodSteps, MiddleSteps,
                             IF checkStep = 0 THEN 0 ELSE checkStep - 1}
      BY <2>6 DEF ReadAudioPacket, ReadNothing, ReadEnds, MayRead,
                  EnoughMemory, GoesOn
    <3>2. checkStep' \in Nat
      BY <2>1, <3>1, BoundsAreNumbers DEF LoopTypeOK
    <3>3. mReadEos' \in BOOLEAN
      BY <2>1, <2>6 DEF ReadAudioPacket, ReadNothing, ReadEnds, LoopTypeOK
    <3>4. mAudioPackets' \in 0 .. AudioLength
      BY <2>1, <2>6, BoundsAreNumbers
         DEF ReadAudioPacket, ReadNothing, ReadEnds, LoopTypeOK
    <3> QED
      BY <2>1, <3>1, <3>2, <3>3, <3>4 DEF LoopTypeOK
  <2>7. CASE SkipDecoding \/ SetupAVDevice
    BY <2>1, <2>7 DEF SkipDecoding, Setup, SetupAVDevice, LoopTypeOK, reading
  <2> QED
    BY <2>2, <2>3, <2>4, <2>5, <2>6, <2>7
<1> QED
  BY <1>2, <1>3, <1>4, <1>5 DEF PipelineInv, PipelineTypeOK

\* Frames come and go without the packets.
LEMMA FramesKeepInv ==
  ASSUME PipelineInv, FillVideoFrame \/ Decode
  PROVE  PipelineInv'
<1>1. UNCHANGED <<mQueue, mPlayStatus, streams, checkStep,
                  startBufferDuration, mBufferIsFull, mLowMem, mReadEos,
                  mAudioPackets, videoRead, mVideoPacket, taken, valid,
                  setupFailures>>
  BY DEF FillVideoFrame, Decode, queue, reading
<1>2. InOrder'
  BY <1>1 DEF PipelineInv, InOrder, HandSize
<1>3. SendsAPacket' /\ LoopTypeOK'
  BY <1>1 DEF PipelineInv, PipelineTypeOK, LoopTypeOK, SendsAPacket,
              FillVideoFrame, Decode
<1>4. VideoTypeOK'
  <2>1. mInputQueue \in Seq(1 .. VideoLength)
        /\ Len(mInputQueue) <= MAX_INPUT_SIZE
        /\ mOutputQueue \in 0 .. MAX_OUTPUT_SIZE
    BY DEF PipelineInv, PipelineTypeOK, VideoTypeOK
  <2>2. mOutputQueue' \in 0 .. MAX_OUTPUT_SIZE
    <3>1. CASE FillVideoFrame
      <4>1. mOutputQueue' = IF mOutputQueue = 0 THEN 0 ELSE mOutputQueue - 1
        BY <3>1 DEF FillVideoFrame
      <4> QED
        BY <2>1, <4>1, BoundsAreNumbers
    <3>2. CASE Decode
      <4>1. mOutputQueue < MAX_OUTPUT_SIZE
            /\ mOutputQueue' \in {mOutputQueue, mOutputQueue + 1}
        BY <3>2 DEF Decode
      <4> QED
        BY <2>1, <4>1, BoundsAreNumbers
    <3> QED
      BY <3>1, <3>2
  <2>3. \/ mInputQueue' = mInputQueue
        \/ mInputQueue # <<>> /\ mInputQueue' = Tail(mInputQueue)
    <3>1. CASE FillVideoFrame
      BY <3>1 DEF FillVideoFrame
    <3>2. CASE Decode
      BY <3>2 DEF Decode
    <3> QED
      BY <3>1, <3>2
  <2>4. mInputQueue' \in Seq(1 .. VideoLength)
        /\ Len(mInputQueue') <= MAX_INPUT_SIZE
    <3>1. ASSUME NEW q \in Seq(1 .. VideoLength), q # <<>>,
                 Len(q) <= MAX_INPUT_SIZE
          PROVE  Tail(q) \in Seq(1 .. VideoLength)
                 /\ Len(Tail(q)) <= MAX_INPUT_SIZE
      BY <3>1, BoundsAreNumbers
    <3> QED
      BY <2>1, <2>3, <3>1
  <2> QED
    BY <1>1, <2>2, <2>4 DEF PipelineInv, PipelineTypeOK, VideoTypeOK
<1> QED
  BY <1>2, <1>3, <1>4 DEF PipelineInv, PipelineTypeOK

\* Every step keeps the invariant, given that of the queue.
LEMMA PipelineStep ==
  ASSUME PlayerInv, PlayerInv', PipelineInv, [PipelineNext]_pipeline
  PROVE  PipelineInv'
<1>1. CASE ReadVideoPacket
  BY <1>1, ReadVideoKeepsInv
<1>2. CASE TakePacket
  BY <1>2, TakePacketKeepsInv
<1>3. CASE SendPacket
  BY <1>3, SendPacketKeepsInv
<1>4. CASE FillVideoFrame \/ Decode
  BY <1>4, FramesKeepInv
<1>5. CASE Prepared \/ ProcessMediaLoop \/ BufferFull \/ LowMemory
           \/ ReadAudioPacket \/ ReadNothing \/ ReadEnds \/ SkipDecoding
           \/ SetupAVDevice
  BY <1>5, LoopKeepsInv
<1>6. CASE UNCHANGED pipeline
  BY <1>6 DEF pipeline, queue, reading, decoder, PipelineInv, PipelineTypeOK,
              LoopTypeOK, VideoTypeOK, InOrder, HandSize, SendsAPacket
<1> QED
  BY <1>1, <1>2, <1>3, <1>4, <1>5, <1>6
     DEF PipelineNext, MainService, DoReadPacket, DoDecode

LEMMA PipelineInvariance ==
  ASSUME PlayerUse
  PROVE  PipelineSpec => [](PlayerInv /\ PipelineInv)
<1>1. PipelineInit => PipelineInv
  BY PipelineInitHolds
<1>2. PlayerInv /\ PlayerInv' /\ PipelineInv /\ [PipelineNext]_pipeline
      => PipelineInv'
  BY PipelineStep
<1> QED
  BY <1>1, <1>2, PipelineUsesTheQueue, PlayerInvariance, PTL DEF PipelineSpec

(***************************************************************************)
(* In every state of the media loop its variables have their types: no     *)
(* counter leaves its range and the decoder's queues keep their limits.    *)
(***************************************************************************)
THEOREM PipelineTypeCorrect ==
  ASSUME PlayerUse
  PROVE  PipelineSpec => []PipelineTypeOK
<1>1. PipelineInv => PipelineTypeOK
  BY DEF PipelineInv
<1> QED
  BY <1>1, PipelineInvariance, PTL

\* Where an element of two, and of three, concatenated sequences comes from.
LEMMA TwoParts ==
  ASSUME NEW a \in Seq(Nat), NEW b \in Seq(Nat)
  PROVE  /\ a \o b \in Seq(Nat)
         /\ Len(a \o b) = Len(a) + Len(b)
         /\ \A i \in 1 .. Len(a \o b) :
              (a \o b)[i] = IF i <= Len(a) THEN a[i] ELSE b[i - Len(a)]
  OBVIOUS

LEMMA ThreeParts ==
  ASSUME NEW a \in Seq(Nat), NEW b \in Seq(Nat), NEW c \in Seq(Nat)
  PROVE  /\ a \o b \o c \in Seq(Nat)
         /\ Len(a \o b \o c) = Len(a) + Len(b) + Len(c)
         /\ \A i \in 1 .. Len(a \o b \o c) :
              (a \o b \o c)[i] =
                IF i <= Len(a) THEN a[i]
                ELSE IF i <= Len(a) + Len(b) THEN b[i - Len(a)]
                ELSE c[i - Len(a) - Len(b)]
<1> DEFINE ab == a \o b
<1>1. ab \in Seq(Nat) /\ Len(ab) = Len(a) + Len(b)
      /\ \A i \in 1 .. Len(ab) :
           ab[i] = IF i <= Len(a) THEN a[i] ELSE b[i - Len(a)]
  BY TwoParts
<1>2. Len(a) \in Nat /\ Len(b) \in Nat /\ Len(c) \in Nat
  OBVIOUS
<1> HIDE DEF ab
<1>3. ab \in Seq(Nat)
  BY <1>1
<1>4. ab \o c \in Seq(Nat) /\ Len(ab \o c) = Len(ab) + Len(c)
      /\ \A i \in 1 .. Len(ab \o c) :
           (ab \o c)[i] = IF i <= Len(ab) THEN ab[i] ELSE c[i - Len(ab)]
  BY <1>3, TwoParts
<1>5. ASSUME NEW i \in 1 .. Len(ab \o c)
      PROVE  (ab \o c)[i] =
               IF i <= Len(a) THEN a[i]
               ELSE IF i <= Len(a) + Len(b) THEN b[i - Len(a)]
               ELSE c[i - Len(a) - Len(b)]
  <2>1. CASE i <= Len(ab)
    <3>1. i \in 1 .. Len(ab)
      BY <1>1, <1>2, <2>1
    <3> QED
      BY <1>1, <1>2, <1>4, <2>1, <3>1
  <2>2. CASE i > Len(ab)
    <3>1. i - Len(ab) = i - Len(a) - Len(b) /\ ~(i <= Len(a))
      BY <1>1, <1>2, <2>2
    <3> QED
      BY <1>1, <1>2, <1>4, <2>2, <3>1
  <2> QED
    BY <1>1, <1>2, <2>1, <2>2
<1> QED
  BY <1>1, <1>4, <1>5 DEF ab

\* Numbered through, the three parts make up the file as far as it was read.
LEMMA NumberedMeansInOrder ==
  ASSUME PlayerInv, PipelineInv
  PROVE  VideoInOrderOnce
<1> DEFINE hand == IF mVideoPacket = NoPacket THEN <<>> ELSE <<mVideoPacket.id>>
           ids == IdsOf(mQueue)
           all == taken \o hand \o ids
<1>1. Pending = mQueue
  BY OrderTypes, CutAtFront DEF Pending, Dangling, PlayerInv, ForwardOnly
<1>2. taken \in Seq(Nat) /\ Len(taken) \in Nat
  BY OrderTypes
<1>3. hand \in Seq(Nat) /\ Len(hand) = HandSize
      /\ (HandSize = 1 => hand[1] = Len(taken) + 1)
  <2>1. mVideoPacket # NoPacket => mVideoPacket.id = Len(taken) + 1
    BY DEF PipelineInv, InOrder
  <2> QED
    BY <1>2, <2>1 DEF HandSize
<1>4. ids \in Seq(Nat) /\ Len(ids) = Len(mQueue)
      /\ \A i \in 1 .. Len(mQueue) : ids[i] = Len(taken) + HandSize + i
  <2>1. \A i \in 1 .. Len(mQueue) : mQueue[i].id = Len(taken) + HandSize + i
    BY DEF PipelineInv, InOrder
  <2>2. \A i \in 1 .. Len(mQueue) : mQueue[i].id \in Nat
    <3>1. \A i \in 1 .. Len(mQueue) : mQueue[i] \in Packet
      BY OrderTypes
    <3> QED
      BY <3>1 DEF Packet
  <2>3. ids = [i \in 1 .. Len(mQueue) |-> mQueue[i].id]
    BY OrderTypes DEF IdsOf
  <2>4. ids \in Seq(Nat) /\ Len(ids) = Len(mQueue)
    BY <2>2, <2>3, OrderTypes
  <2> QED
    BY <2>1, <2>3, <2>4
<1>5. Len(taken) + HandSize + Len(mQueue) = videoRead
      /\ \A i \in 1 .. Len(taken) : taken[i] = i
  BY DEF PipelineInv, InOrder
<1>6. all \in Seq(Nat) /\ Len(all) = Len(taken) + HandSize + Len(mQueue)
      /\ \A i \in 1 .. Len(all) :
           all[i] = IF i <= Len(taken) THEN taken[i]
                    ELSE IF i <= Len(taken) + HandSize
                    THEN hand[i - Len(taken)]
                    ELSE ids[i - Len(taken) - HandSize]
  <2> HIDE DEF hand, ids
  <2>1. taken \in Seq(Nat) /\ hand \in Seq(Nat) /\ ids \in Seq(Nat)
    BY <1>2, <1>3, <1>4
  <2>2. Len(hand) = HandSize /\ Len(ids) = Len(mQueue)
    BY <1>3, <1>4
  <2>3. /\ all \in Seq(Nat)
        /\ Len(all) = Len(taken) + Len(hand) + Len(ids)
        /\ \A i \in 1 .. Len(all) :
             all[i] = IF i <= Len(taken) THEN taken[i]
                      ELSE IF i <= Len(taken) + Len(hand)
                      THEN hand[i - Len(taken)]
                      ELSE ids[i - Len(taken) - Len(hand)]
    BY <2>1, ThreeParts
  <2> QED
    BY <2>2, <2>3
<1>7. ASSUME NEW i \in 1 .. videoRead PROVE all[i] = i
  <2> HIDE DEF hand, ids, all
  <2>1. Len(taken) \in Nat /\ HandSize \in 0 .. 1 /\ Len(mQueue) \in Nat
        /\ i \in 1 .. Len(all)
    BY <1>5, <1>6, OrderTypes
  <2>2. CASE i <= Len(taken)
    BY <1>5, <1>6, <2>1, <2>2
  <2>3. CASE i > Len(taken) /\ i <= Len(taken) + HandSize
    <3>1. HandSize = 1 /\ i = Len(taken) + 1
      BY <2>1, <2>3
    <3>2. all[i] = hand[i - Len(taken)] /\ i - Len(taken) = 1
      BY <1>6, <2>1, <2>3, <3>1
    <3> QED
      BY <1>3, <3>1, <3>2
  <2>4. CASE i > Len(taken) + HandSize
    <3>1. i - Len(taken) - HandSize \in 1 .. Len(mQueue)
      BY <1>5, <2>1, <2>4
    <3>2. all[i] = ids[i - Len(taken) - HandSize]
      BY <1>6, <2>1, <2>4
    <3>3. ids[i - Len(taken) - HandSize]
          = Len(taken) + HandSize + (i - Len(taken) - HandSize)
      BY <1>4, <3>1
    <3> QED
      BY <2>1, <3>2, <3>3
  <2> QED
    BY <2>1, <2>2, <2>3, <2>4
<1>8. all = [i \in 1 .. videoRead |-> i]
  <2> HIDE DEF hand, ids, all
  <2>1. Len(all) = videoRead
    BY <1>5, <1>6
  <2> QED
    BY <1>6, <1>7, <2>1
<1> QED
  BY <1>1, <1>8 DEF VideoInOrderOnce

(***************************************************************************)
(* Whatever the file, the limits and the decoder's refusals, video packets *)
(* reach the decoder once each and in the order of the file.               *)
(***************************************************************************)
THEOREM PipelineKeepsTheOrder ==
  ASSUME PlayerUse
  PROVE  PipelineSpec => []VideoInOrderOnce
<1>1. PlayerInv /\ PipelineInv => VideoInOrderOnce
  BY NumberedMeansInOrder
<1> QED
  BY <1>1, PipelineInvariance, PTL

(***************************************************************************)
(* The durations the media loop decides on are those of the packets in the *)
(* queue, whatever it has read, forged and handed out.                     *)
(***************************************************************************)
THEOREM PipelineCountsDurations ==
  ASSUME PlayerUse
  PROVE  PipelineSpec => []DurationAccounting
  BY PipelineUsesTheQueue, PlayerCountsDurations, PTL

-----------------------------------------------------------------------------
(***************************************************************************)
(* The bound of the buffers.  With both streams, either the audio was not  *)
(* full when its last packet was read, or the video was not: what it had   *)
(* then bounds what it can have now, in the queue, in hand and in the      *)
(* decoder together, because packets only move on from one to the next.    *)
(***************************************************************************)
BothStreams == streams = {"video", "audio"}

Frames(n) == n * VIDEO_RENDER_DURATION_DEFAULT

AudioIsBounded == mAudioPackets * AudioDuration <= FullAt + AudioDuration

VideoIsBounded ==
  /\ mPacketDuration # 0 => mDuration <= FullAt + LongestPacket
  /\ mPacketDuration = 0 =>
       Frames(Len(mQueue) + HandSize + Len(mInputQueue))
       <= FullAt + Frames(2)

\* Nothing is read before prepare() has found the streams.
NothingReadYet == mPlayStatus = "IDLE" => at = "loop" /\ mAudioPackets = 0

\* The decoder holds nothing until it is set up.
DecoderIsSetUp ==
  /\ ~valid => mInputQueue = <<>> /\ mVideoPacket = NoPacket
  /\ at \in {"fill", "send"} => valid

\* No forged duration is longer than the packets', and there is none at
\* first.
UnitIsBounded ==
  /\ mPacketDuration <= LongestPacket
  /\ mPacketDuration = 0 => mDuration = 0

BoundInv ==
  /\ startBufferDuration <= startBufferDurations.normal
  /\ NothingReadYet /\ DecoderIsSetUp /\ UnitIsBounded
  /\ BothStreams => AudioIsBounded \/ VideoIsBounded

\* The arithmetic of frames.
LEMMA FramesAdd ==
  ASSUME NEW m \in Nat, NEW n \in Nat
  PROVE  /\ Frames(m) \in Nat
         /\ Frames(m + n) = Frames(m) + Frames(n)
         /\ m <= n => Frames(m) <= Frames(n)
         /\ Frames(0) = 0
<1> DEFINE d == VIDEO_RENDER_DURATION_DEFAULT
<1>1. d \in Nat
  BY PipelineAssumption
<1> HIDE DEF d
<1>2. m * d \in Nat /\ n * d \in Nat
  BY <1>1
<1>3. (m + n) * d = m * d + n * d
  BY <1>1
<1>4. m <= n => m * d <= n * d
  BY <1>1
<1>5. 0 * d = 0
  BY <1>1
<1> QED
  BY <1>2, <1>3, <1>4, <1>5 DEF d, Frames

LEMMA OneMoreAudioPacket ==
  ASSUME NEW n \in Nat
  PROVE  n * AudioDuration \in Nat
         /\ (n + 1) * AudioDuration = n * AudioDuration + AudioDuration
<1>1. AudioDuration \in Nat
  BY PipelineAssumption
<1> QED
  BY <1>1

\* The types of what the bound is about.
BoundTypes ==
  /\ mDuration \in Nat /\ mPacketDuration \in Nat
  /\ mQueue \in Seq(Packet) /\ Len(mQueue) \in Nat
  /\ HandSize \in 0 .. 1
  /\ Len(mInputQueue) \in Nat /\ Len(mInputQueue) <= MAX_INPUT_SIZE
  /\ mAudioPackets \in Nat
  /\ startBufferDuration \in Nat

LEMMA StateOfTheBound ==
  ASSUME PlayerInv, CountersAreSums, PipelineInv
  PROVE  BoundTypes
<1>1. mDuration \in Nat /\ mPacketDuration \in Nat /\ mQueue \in Seq(Packet)
  BY SumOfIsNat DEF CountersAreSums, PlayerInv, TypeOK
<1>2. Len(mInputQueue) \in Nat /\ Len(mInputQueue) <= MAX_INPUT_SIZE
  BY DEF PipelineInv, PipelineTypeOK, VideoTypeOK
<1>3. mAudioPackets \in Nat
  BY BoundsAreNumbers DEF PipelineInv, PipelineTypeOK, LoopTypeOK
<1>4. startBufferDuration \in Nat
  BY PipelineAssumption DEF PipelineInv, PipelineTypeOK, LoopTypeOK
<1> QED
  BY <1>1, <1>2, <1>3, <1>4, OrderTypes DEF BoundTypes

LEMMA LimitsAreNumbers ==
  /\ FullAt \in Nat /\ maxBufferDuration \in Nat
  /\ startBufferDurations.normal \in Nat
  /\ maxBufferDuration <= FullAt /\ startBufferDurations.normal <= FullAt
  /\ LongestPacket \in Nat /\ MAX_INPUT_SIZE \in Nat \ {0}
  /\ AudioDuration \in Nat /\ AudioDuration <= LongestPacket
  /\ Frames(1) \in Nat /\ Frames(1) <= LongestPacket
  /\ Frames(2) = Frames(1) + Frames(1)
<1>1. Frames(1) = VIDEO_RENDER_DURATION_DEFAULT
      /\ Frames(2) = VIDEO_RENDER_DURATION_DEFAULT + VIDEO_RENDER_DURATION_DEFAULT
  BY PipelineAssumption DEF Frames
<1> QED
  BY <1>1, PipelineAssumption DEF FullAt

\* What the media loop counts, of both streams.
LEMMA WhatIsCounted ==
  ASSUME PlayerInv, BoundTypes, DecoderIsSetUp, BothStreams
  PROVE  /\ AudioBufDuration = mAudioPackets * AudioDuration
         /\ mPacketDuration # 0 =>
              VideoBufDuration = mDuration + Frames(Len(mInputQueue))
         /\ mPacketDuration = 0 =>
              VideoBufDuration
              = Frames(Len(mQueue)) + Frames(Len(mInputQueue))
<1>1. HAVE_VIDEO /\ HAVE_AUDIO
  BY DEF BothStreams, HAVE_VIDEO, HAVE_AUDIO
<1>2. AudioBufDuration = mAudioPackets * AudioDuration
  BY <1>1 DEF AudioBufDuration
<1>3. Frames(Len(mInputQueue)) \in Nat /\ Frames(0) = 0
      /\ Frames(Len(mQueue)) \in Nat
  BY FramesAdd DEF BoundTypes
<1>4. (IF valid THEN Len(mInputQueue) * VIDEO_RENDER_DURATION_DEFAULT ELSE 0)
      = Frames(Len(mInputQueue))
  <2>1. CASE valid
    BY <2>1 DEF Frames
  <2>2. CASE ~valid
    <3>1. Len(mInputQueue) = 0
      BY <2>2 DEF DecoderIsSetUp
    <3> QED
      BY <1>3, <2>2, <3>1
  <2> QED
    BY <2>1, <2>2
<1>5. GetSize = Len(mQueue)
  BY DEF GetSize, PlayerInv, ForwardOnly, BoundTypes
<1>6. CASE mPacketDuration # 0
  <2>1. GetDuration = mDuration /\ ~(GetDuration < 0)
    BY <1>6 DEF GetDuration, BoundTypes
  <2>2. VideoBufDuration = mDuration + Frames(Len(mInputQueue))
    BY <1>1, <1>4, <2>1 DEF VideoBufDuration
  <2> QED
    BY <1>2, <1>6, <2>2
<1>7. CASE mPacketDuration = 0
  <2>1. (IF GetDuration < 0 THEN GetSize * VIDEO_RENDER_DURATION_DEFAULT
         ELSE GetDuration) = Frames(Len(mQueue))
    <3>1. CASE mQueue = <<>> \/ AtEnd
      <4>1. Len(mQueue) = 0
        BY <3>1 DEF AtEnd, End, PlayerInv, ForwardOnly, BoundTypes
      <4>2. GetDuration = 0
        BY <1>7, <3>1 DEF GetDuration
      <4> QED
        BY <1>3, <4>1, <4>2
    <3>2. CASE ~(mQueue = <<>> \/ AtEnd)
      <4>1. GetDuration = -1
        BY <1>7, <3>2 DEF GetDuration
      <4> QED
        BY <1>5, <4>1 DEF Frames
    <3> QED
      BY <3>1, <3>2
  <2>2. VideoBufDuration = Frames(Len(mQueue)) + Frames(Len(mInputQueue))
    BY <1>1, <1>4, <2>1 DEF VideoBufDuration
  <2> QED
    BY <1>2, <1>7, <2>2
<1> QED
  BY <1>6, <1>7

\* A packet is read only while one of the two buffers is not full.
LEMMA ReadingIsBounded ==
  ASSUME PlayerInv, BoundTypes, BoundInv, BothStreams, MayRead
  PROVE  \/ mAudioPackets * AudioDuration <= FullAt
         \/ /\ mPacketDuration # 0 => mDuration <= FullAt
            /\ mPacketDuration = 0 =>
                 Frames(Len(mQueue) + HandSize + Len(mInputQueue))
                 <= FullAt + Frames(1)
<1>1. AudioBufDuration = mAudioPackets * AudioDuration
      /\ (mPacketDuration # 0 =>
            VideoBufDuration = mDuration + Frames(Len(mInputQueue)))
      /\ (mPacketDuration = 0 =>
            VideoBufDuration = Frames(Len(mQueue)) + Frames(Len(mInputQueue)))
  BY WhatIsCounted DEF BoundInv
<1>2. /\ mAudioPackets * AudioDuration \in Nat
      /\ Frames(Len(mInputQueue)) \in Nat /\ Frames(Len(mQueue)) \in Nat
  BY OneMoreAudioPacket, FramesAdd DEF BoundTypes
<1>3. mDuration \in Nat /\ mPacketDuration \in Nat
  BY DEF BoundTypes
<1>4. AudioBufDuration \in Nat /\ VideoBufDuration \in Nat
  <2>1. AudioBufDuration \in Nat
    BY <1>1, <1>2
  <2>2. mPacketDuration # 0 => VideoBufDuration \in Nat
    BY <1>1, <1>2, <1>3
  <2>3. mPacketDuration = 0 => VideoBufDuration \in Nat
    BY <1>1, <1>2
  <2> QED
    BY <2>1, <2>2, <2>3
<1>5. PlayerBufferDuration <= FullAt
  <2>1. ~IsFull(PlayerBufferDuration)
    BY DEF MayRead
  <2>2. PlayerBufferDuration \in Nat
    BY <1>4 DEF PlayerBufferDuration
  <2>3. startBufferDuration \in Nat /\ startBufferDuration <= FullAt
    BY LimitsAreNumbers DEF BoundInv, BoundTypes
  <2> QED
    BY <2>1, <2>2, <2>3, LimitsAreNumbers DEF IsFull
<1>6. AudioBufDuration <= FullAt \/ VideoBufDuration <= FullAt
  BY <1>5 DEF PlayerBufferDuration
<1>7. CASE AudioBufDuration <= FullAt
  BY <1>1, <1>7
<1>8. CASE VideoBufDuration <= FullAt
  <2>1. mPacketDuration # 0 => mDuration <= FullAt
    BY <1>1, <1>2, <1>3, <1>8, LimitsAreNumbers
  <2>2. ASSUME mPacketDuration = 0
        PROVE  Frames(Len(mQueue) + HandSize + Len(mInputQueue))
               <= FullAt + Frames(1)
    <3>1. /\ Len(mQueue) \in Nat /\ HandSize \in Nat /\ HandSize <= 1
          /\ Len(mInputQueue) \in Nat /\ Len(mQueue) + HandSize \in Nat
      BY DEF BoundTypes
    <3>2. Frames(Len(mQueue) + HandSize + Len(mInputQueue))
          = Frames(Len(mQueue) + HandSize) + Frames(Len(mInputQueue))
      BY <3>1, FramesAdd
    <3>3. Frames(Len(mQueue) + HandSize) = Frames(Len(mQueue)) + Frames(HandSize)
      BY <3>1, FramesAdd
    <3>4. Frames(HandSize) \in Nat /\ Frames(HandSize) <= Frames(1)
      BY <3>1, FramesAdd
    <3>5. Frames(Len(mQueue)) + Frames(Len(mInputQueue)) <= FullAt
      BY <1>1, <1>8, <2>2
    <3> QED
      BY <1>2, <3>2, <3>3, <3>4, <3>5, LimitsAreNumbers
  <2> QED
    BY <2>1, <2>2
<1> QED
  BY <1>6, <1>7, <1>8

\* A step that reads nothing and leaves no more to count keeps the bound.
LEMMA LessIsBounded ==
  ASSUME BoundTypes, BoundTypes', BoundInv, mPacketDuration' = mPacketDuration,
         mDuration' <= mDuration,
         Len(mQueue') + HandSize' + Len(mInputQueue')
         <= Len(mQueue) + HandSize + Len(mInputQueue),
         mAudioPackets' = mAudioPackets, streams' = streams
  PROVE  /\ UnitIsBounded'
         /\ BothStreams' => AudioIsBounded' \/ VideoIsBounded'
<1>1. UnitIsBounded'
  BY DEF UnitIsBounded, BoundInv, BoundTypes
<1>2. CASE AudioIsBounded
  BY <1>1, <1>2 DEF AudioIsBounded
<1>3. CASE VideoIsBounded
  <2> DEFINE m == Len(mQueue') + HandSize' + Len(mInputQueue')
             n == Len(mQueue) + HandSize + Len(mInputQueue)
  <2>1. m \in Nat /\ n \in Nat /\ m <= n
    BY DEF BoundTypes
  <2>2. Frames(m) \in Nat /\ Frames(n) \in Nat
    BY <2>1, FramesAdd
  <2>3. Frames(m) <= Frames(n)
    BY <2>1, FramesAdd
  <2>4. mPacketDuration' = 0 => Frames(m) <= FullAt + Frames(2)
    <3>1. mPacketDuration = 0 => Frames(n) <= FullAt + Frames(2)
      BY <1>3 DEF VideoIsBounded
    <3> HIDE DEF m, n
    <3> QED
      BY <2>2, <2>3, <3>1, LimitsAreNumbers
  <2>5. mPacketDuration' # 0 => mDuration' <= FullAt + LongestPacket
    <3>1. mPacketDuration # 0 => mDuration <= FullAt + LongestPacket
      BY <1>3 DEF VideoIsBounded
    <3> QED
      BY <3>1, LimitsAreNumbers DEF BoundTypes
  <2> QED
    BY <1>1, <2>4, <2>5 DEF VideoIsBounded
<1>4. CASE ~BothStreams
  BY <1>1, <1>4 DEF BothStreams
<1> QED
  BY <1>2, <1>3, <1>4 DEF BoundInv

\* The packet read last makes the difference between full and too much.
LEMMA ReadVideoKeepsBound ==
  ASSUME PlayerInv, BoundTypes, BoundTypes', BoundInv, ReadVideoPacket
  PROVE  BoundInv'
<1>1. PICK p \in Packets : AddPacket(p)
  BY DEF ReadVideoPacket
<1>2. /\ UNCHANGED <<mPlayStatus, streams, mAudioPackets, mVideoPacket, valid,
                     mInputQueue, startBufferDuration>>
      /\ MayRead /\ at = "read" /\ at' \in {"read", "decode"}
  BY DEF ReadVideoPacket, MayRead, EnoughMemory, GoesOn, decoder
<1>3. mPlayStatus' # "IDLE"
  BY <1>2 DEF BoundInv, NothingReadYet
<1>4. /\ p \in Packet /\ p.duration \in Nat /\ p.duration <= LongestPacket
      /\ Counted(Dated(p)) \in Nat
  BY PacketsAssumption, PipelineAssumption, DatedPacket DEF Packet, BoundTypes
<1>5. /\ mQueue' = Append(mQueue, Dated(p))
      /\ mDuration' = mDuration + Counted(Dated(p))
      /\ mPacketDuration' = Unit(p)
  BY <1>1 DEF AddPacket
<1>6. /\ Unit(p) <= LongestPacket /\ Counted(Dated(p)) <= LongestPacket
      /\ Unit(p) = 0 => mPacketDuration = 0 /\ Counted(Dated(p)) = 0
  <2>1. mPacketDuration \in Nat /\ mPacketDuration <= LongestPacket
        /\ LongestPacket \in Nat
    BY LimitsAreNumbers DEF BoundInv, UnitIsBounded, BoundTypes
  <2>2. CASE p.duration > 0
    <3>1. Dated(p) = p
      BY <2>2 DEF Dated
    <3>2. Counted(p) <= p.duration
      BY <1>4 DEF Counted
    <3>3. Unit(p) <= LongestPacket /\ Unit(p) # 0
      BY <1>4, <2>1, <2>2 DEF Unit
    <3> QED
      BY <1>4, <2>1, <3>1, <3>2, <3>3
  <2>3. CASE ~(p.duration > 0)
    <3>1. Dated(p).duration = mPacketDuration
      BY <1>4, <2>3 DEF Dated, Packet
    <3>2. Counted(Dated(p)) <= mPacketDuration
      BY <2>1, <3>1 DEF Counted
    <3>3. Unit(p) = mPacketDuration
      BY <2>3 DEF Unit
    <3> QED
      BY <1>4, <2>1, <3>2, <3>3
  <2> QED
    BY <2>2, <2>3
<1>7. UnitIsBounded'
  BY <1>5, <1>6 DEF BoundInv, UnitIsBounded, BoundTypes
<1>8. Len(mQueue') = Len(mQueue) + 1 /\ HandSize' = HandSize
  <2>1. Dated(p) \in Packet
    BY <1>4, DatedPacket DEF BoundTypes
  <2> QED
    BY <1>2, <1>5, <2>1 DEF HandSize, BoundTypes
<1>9. ASSUME BothStreams PROVE AudioIsBounded' \/ VideoIsBounded'
  <2>1. CASE mAudioPackets * AudioDuration <= FullAt
    BY <1>2, <2>1, LimitsAreNumbers, OneMoreAudioPacket
       DEF AudioIsBounded, BoundTypes
  <2>2. CASE /\ mPacketDuration # 0 => mDuration <= FullAt
             /\ mPacketDuration = 0 =>
                  Frames(Len(mQueue) + HandSize + Len(mInputQueue))
                  <= FullAt + Frames(1)
    <3>1. mDuration <= FullAt
      BY <2>2, LimitsAreNumbers DEF BoundInv, UnitIsBounded
    <3>2. mDuration' <= FullAt + LongestPacket
      BY <1>4, <1>5, <1>6, <3>1, LimitsAreNumbers, SMTT(30) DEF BoundTypes
    <3>3. ASSUME mPacketDuration' = 0
          PROVE  Frames(Len(mQueue') + HandSize' + Len(mInputQueue'))
                 <= FullAt + Frames(2)
      <4> DEFINE n == Len(mQueue) + HandSize + Len(mInputQueue)
      <4>1. n \in Nat
        BY DEF BoundTypes
      <4>2. Len(mQueue') + HandSize' + Len(mInputQueue') = n + 1
        BY <1>2, <1>8 DEF BoundTypes
      <4>3. Frames(n) <= FullAt + Frames(1)
        BY <1>5, <1>6, <2>2, <3>3
      <4> HIDE DEF n
      <4>4. Frames(n + 1) = Frames(n) + Frames(1) /\ Frames(n) \in Nat
        BY <4>1, FramesAdd
      <4> QED
        BY <4>2, <4>3, <4>4, LimitsAreNumbers
    <3> QED
      BY <3>2, <3>3 DEF VideoIsBounded
  <2> QED
    BY <1>2, <1>9, <2>1, <2>2, ReadingIsBounded
<1>10. DecoderIsSetUp'
  BY <1>2 DEF BoundInv, DecoderIsSetUp
<1> QED
  BY <1>2, <1>3, <1>7, <1>9, <1>10 DEF BoundInv, NothingReadYet, BothStreams

LEMMA ReadAudioKeepsBound ==
  ASSUME PlayerInv, BoundTypes, BoundTypes', BoundInv, ReadAudioPacket
  PROVE  BoundInv'
<1>1. /\ UNCHANGED <<mQueue, mDuration, mPacketDuration, mPlayStatus, streams,
                     mVideoPacket, valid, mInputQueue, startBufferDuration>>
      /\ mAudioPackets' = mAudioPackets + 1
      /\ MayRead /\ at = "read" /\ at' \in {"read", "decode"}
  BY DEF ReadAudioPacket, MayRead, EnoughMemory, GoesOn, decoder, queue
<1>2. mPlayStatus' # "IDLE"
  BY <1>1 DEF BoundInv, NothingReadYet
<1>3. ASSUME BothStreams PROVE AudioIsBounded' \/ VideoIsBounded'
  <2>1. CASE mAudioPackets * AudioDuration <= FullAt
    <3>1. (mAudioPackets + 1) * AudioDuration
          = mAudioPackets * AudioDuration + AudioDuration
          /\ mAudioPackets * AudioDuration \in Nat
      BY OneMoreAudioPacket DEF BoundTypes
    <3> QED
      BY <1>1, <2>1, <3>1, LimitsAreNumbers DEF AudioIsBounded
  <2>2. CASE /\ mPacketDuration # 0 => mDuration <= FullAt
             /\ mPacketDuration = 0 =>
                  Frames(Len(mQueue) + HandSize + Len(mInputQueue))
                  <= FullAt + Frames(1)
    <3>1. Frames(Len(mQueue) + HandSize + Len(mInputQueue)) \in Nat
      <4>1. Len(mQueue) + HandSize + Len(mInputQueue) \in Nat
        BY DEF BoundTypes
      <4> QED
        BY <4>1, FramesAdd
    <3>2. VideoIsBounded
      <4>1. mPacketDuration # 0 => mDuration <= FullAt + LongestPacket
        BY <2>2, LimitsAreNumbers DEF BoundTypes
      <4>2. ASSUME mPacketDuration = 0
            PROVE  Frames(Len(mQueue) + HandSize + Len(mInputQueue))
                   <= FullAt + Frames(2)
        BY <2>2, <3>1, <4>2, LimitsAreNumbers
      <4> QED
        BY <4>1, <4>2 DEF VideoIsBounded
    <3> QED
      BY <1>1, <3>2 DEF VideoIsBounded, HandSize
  <2> QED
    BY <1>1, <1>3, <2>1, <2>2, ReadingIsBounded
<1>4. DecoderIsSetUp' /\ UnitIsBounded'
  BY <1>1 DEF BoundInv, DecoderIsSetUp, UnitIsBounded
<1> QED
  BY <1>1, <1>2, <1>3, <1>4 DEF BoundInv, NothingReadYet, BothStreams

\* What waits is in the queue or in hand: it becomes less only by going on.
LEMMA WaitingPackets ==
  ASSUME PlayerInv, PipelineInv
  PROVE  Len(mQueue) + HandSize = videoRead - Len(taken)
  BY OrderTypes DEF PipelineInv, InOrder

LEMMA TakePacketKeepsBound ==
  ASSUME PlayerInv, PlayerInv', PipelineInv, PipelineInv', BoundTypes,
         BoundTypes', BoundInv, TakePacket
  PROVE  BoundInv'
<1>1. /\ UNCHANGED <<mPlayStatus, streams, startBufferDuration, mAudioPackets,
                     videoRead, valid, mInputQueue, taken>>
      /\ at = "decode" /\ at' = "fill" /\ valid
  BY DEF TakePacket, reading, decoder
<1>2. mPacketDuration' = mPacketDuration /\ mDuration' <= mDuration
  <2>1. CASE mVideoPacket # NoPacket
    BY <2>1 DEF TakePacket, queue, BoundTypes
  <2>2. CASE GetPacketAborts \/ GetNothing
    BY <2>2 DEF GetPacketAborts, GetNothing, Fail, BoundTypes
  <2>3. CASE GetAndRemove
    <3>1. Counted(Head(mQueue)) \in Nat
      <4>1. Head(mQueue) \in Packet
        BY <2>3 DEF GetAndRemove, BoundTypes
      <4> QED
        BY <4>1 DEF Counted, Packet
    <3> QED
      BY <2>3, <3>1 DEF GetAndRemove, BoundTypes
  <2>4. ~GetAndKeep
    BY DEF GetAndKeep, PlayerInv, ForwardOnly
  <2> QED
    BY <2>1, <2>2, <2>3, <2>4 DEF TakePacket, GetPacket
<1>3. Len(mQueue') + HandSize' = Len(mQueue) + HandSize
  <2>1. Len(mQueue) + HandSize = videoRead - Len(taken)
    BY WaitingPackets
  <2>2. Len(taken') + HandSize' + Len(mQueue') = videoRead'
    BY DEF PipelineInv, InOrder
  <2>3. Len(taken) \in Nat /\ videoRead \in Nat
    BY OrderTypes
  <2> QED
    BY <1>1, <2>1, <2>2, <2>3 DEF BoundTypes
<1>4. UnitIsBounded' /\ (BothStreams' => AudioIsBounded' \/ VideoIsBounded')
  BY <1>1, <1>2, <1>3, LessIsBounded DEF BoundTypes
<1>5. NothingReadYet' /\ DecoderIsSetUp'
  BY <1>1 DEF BoundInv, NothingReadYet, DecoderIsSetUp
<1> QED
  BY <1>1, <1>4, <1>5 DEF BoundInv

LEMMA SendPacketKeepsBound ==
  ASSUME PlayerInv, PipelineInv, BoundTypes, BoundTypes', BoundInv, SendPacket
  PROVE  BoundInv'
<1>1. /\ UNCHANGED <<mQueue, mDuration, mPacketDuration, mPlayStatus, streams,
                     startBufferDuration, mAudioPackets, valid>>
      /\ at = "send" /\ at' = "setup"
  BY DEF SendPacket, queue, reading
<1>2. valid /\ mVideoPacket # NoPacket /\ HandSize = 1
  BY <1>1 DEF BoundInv, DecoderIsSetUp, PipelineInv, SendsAPacket, HandSize
<1>3. HandSize' + Len(mInputQueue') <= HandSize + Len(mInputQueue)
  <2>1. mInputQueue \in Seq(1 .. VideoLength)
    BY DEF PipelineInv, PipelineTypeOK, VideoTypeOK
  <2>2. CASE UNCHANGED <<mVideoPacket, mInputQueue>>
    BY <2>2 DEF HandSize, BoundTypes
  <2>3. CASE mVideoPacket' = NoPacket /\ UNCHANGED mInputQueue
    BY <1>2, <2>3 DEF HandSize, BoundTypes
  <2>4. CASE /\ mVideoPacket' = NoPacket
             /\ mInputQueue' = Append(mInputQueue, mVideoPacket.id)
    <3>1. Len(mInputQueue') = Len(mInputQueue) + 1
      BY <2>1, <2>4
    <3>2. HandSize' = 0
      BY <2>4 DEF HandSize
    <3> QED
      BY <1>2, <3>1, <3>2 DEF BoundTypes
  <2> QED
    BY <2>2, <2>3, <2>4 DEF SendPacket
<1>4. Len(mQueue') + HandSize' + Len(mInputQueue')
      <= Len(mQueue) + HandSize + Len(mInputQueue)
  BY <1>1, <1>3 DEF BoundTypes
<1>5. UnitIsBounded' /\ (BothStreams' => AudioIsBounded' \/ VideoIsBounded')
  BY <1>1, <1>4, LessIsBounded DEF BoundTypes
<1>6. NothingReadYet' /\ DecoderIsSetUp'
  BY <1>1, <1>2 DEF BoundInv, NothingReadYet, DecoderIsSetUp
<1> QED
  BY <1>1, <1>5, <1>6 DEF BoundInv

LEMMA FramesKeepBound ==
  ASSUME PipelineInv, BoundTypes, BoundTypes', BoundInv,
         FillVideoFrame \/ Decode
  PROVE  BoundInv'
<1>1. /\ UNCHANGED <<mQueue, mDuration, mPacketDuration, mPlayStatus, streams,
                     startBufferDuration, mAudioPackets, valid, mVideoPacket>>
      /\ HandSize' = HandSize
  BY DEF FillVideoFrame, Decode, queue, reading, HandSize
<1>2. Len(mInputQueue') <= Len(mInputQueue)
      /\ (mInputQueue = <<>> => mInputQueue' = <<>>)
  <2>1. CASE FillVideoFrame
    BY <2>1 DEF FillVideoFrame, BoundTypes
  <2>2. CASE Decode
    <3>1. mInputQueue \in Seq(1 .. VideoLength)
      BY DEF PipelineInv, PipelineTypeOK, VideoTypeOK
    <3>2. mInputQueue # <<>> /\ mInputQueue' = Tail(mInputQueue)
      BY <2>2 DEF Decode
    <3> QED
      BY <3>1, <3>2
  <2> QED
    BY <2>1, <2>2
<1>3. Len(mQueue') + HandSize' + Len(mInputQueue')
      <= Len(mQueue) + HandSize + Len(mInputQueue)
  BY <1>1, <1>2 DEF BoundTypes
<1>4. UnitIsBounded' /\ (BothStreams' => AudioIsBounded' \/ VideoIsBounded')
  BY <1>1, <1>3, LessIsBounded DEF BoundTypes
<1>5. DecoderIsSetUp' /\ NothingReadYet'
  <2>1. CASE FillVideoFrame
    <3>1. at = "fill" /\ at' \in {"setup", "send"} /\ valid
      BY <2>1 DEF FillVideoFrame, BoundInv, DecoderIsSetUp
    <3> QED
      BY <1>1, <3>1 DEF BoundInv, NothingReadYet, DecoderIsSetUp
  <2>2. CASE Decode
    <3>1. at' = at
      BY <2>2 DEF Decode
    <3> QED
      BY <1>1, <1>2, <3>1 DEF BoundInv, NothingReadYet, DecoderIsSetUp
  <2> QED
    BY <2>1, <2>2
<1> QED
  BY <1>1, <1>4, <1>5 DEF BoundInv

\* The actions that read nothing and move no packet.
LEMMA LoopKeepsBound ==
  ASSUME BoundTypes, BoundTypes', BoundInv,
         ProcessMediaLoop \/ BufferFull \/ LowMemory \/ ReadNothing
         \/ ReadEnds \/ SkipDecoding \/ SetupAVDevice
  PROVE  BoundInv'
<1>1. /\ UNCHANGED <<mQueue, mDuration, mPacketDuration, mPlayStatus, streams,
                     mAudioPackets, mInputQueue, mVideoPacket>>
      /\ HandSize' = HandSize
  BY DEF ProcessMediaLoop, BufferFull, LowMemory, ReadNothing, ReadEnds,
         SkipDecoding, SetupAVDevice, queue, reading, decoder, HandSize
<1>2. startBufferDuration' <= startBufferDurations.normal
  <2>1. CASE LowMemory
    BY <2>1, LimitsAreNumbers, PipelineAssumption, SMTT(30)
       DEF LowMemory, BoundInv, BoundTypes
  <2>2. CASE ~LowMemory
    BY <2>2 DEF ProcessMediaLoop, BufferFull, ReadNothing, ReadEnds,
                EnoughMemory, SkipDecoding, SetupAVDevice, reading, BoundInv
  <2> QED
    BY <2>1, <2>2
<1>3. valid => valid'
  BY DEF ProcessMediaLoop, BufferFull, LowMemory, ReadNothing, ReadEnds,
         SkipDecoding, SetupAVDevice, Setup, decoder
<1>4. at' \notin {"fill", "send"} /\ mPlayStatus # "IDLE"
  <2>1. mPlayStatus # "IDLE"
    BY DEF ProcessMediaLoop, BufferFull, LowMemory, ReadNothing, ReadEnds,
           MayRead, SkipDecoding, SetupAVDevice, BoundInv, NothingReadYet
  <2> QED
    BY <2>1 DEF ProcessMediaLoop, BufferFull, LowMemory, ReadNothing, ReadEnds,
                SkipDecoding, SetupAVDevice
<1>5. UnitIsBounded' /\ (BothStreams' => AudioIsBounded' \/ VideoIsBounded')
  BY <1>1, LessIsBounded DEF BoundTypes
<1>6. NothingReadYet' /\ DecoderIsSetUp'
  BY <1>1, <1>3, <1>4 DEF BoundInv, NothingReadYet, DecoderIsSetUp
<1> QED
  BY <1>2, <1>5, <1>6 DEF BoundInv

\* At first there is no audio, so the audio is not full.
LEMMA PreparedKeepsBound ==
  ASSUME BoundTypes, BoundInv, Prepared
  PROVE  BoundInv'
<1>1. /\ UNCHANGED <<mQueue, mDuration, mPacketDuration, startBufferDuration,
                     mAudioPackets, mInputQueue, mVideoPacket, valid, at>>
      /\ mPlayStatus' = "PREPARING" /\ mAudioPackets = 0
  BY DEF Prepared, queue, reading, decoder, BoundInv, NothingReadYet
<1>2. AudioIsBounded'
  <2>1. 0 * AudioDuration = 0
    BY LimitsAreNumbers
  <2> QED
    BY <1>1, <2>1, LimitsAreNumbers DEF AudioIsBounded
<1> QED
  BY <1>1, <1>2 DEF BoundInv, NothingReadYet, DecoderIsSetUp, UnitIsBounded

LEMMA BoundStep ==
  ASSUME PlayerInv, PlayerInv', PipelineInv, PipelineInv', BoundTypes,
         BoundTypes', BoundInv, [PipelineNext]_pipeline
  PROVE  BoundInv'
<1>1. CASE ReadVideoPacket
  BY <1>1, ReadVideoKeepsBound
<1>2. CASE ReadAudioPacket
  BY <1>2, ReadAudioKeepsBound
<1>3. CASE TakePacket
  BY <1>3, TakePacketKeepsBound
<1>4. CASE SendPacket
  BY <1>4, SendPacketKeepsBound
<1>5. CASE FillVideoFrame \/ Decode
  BY <1>5, FramesKeepBound
<1>6. CASE ProcessMediaLoop \/ BufferFull \/ LowMemory \/ ReadNothing
           \/ ReadEnds \/ SkipDecoding \/ SetupAVDevice
  BY <1>6, LoopKeepsBound
<1>7. CASE Prepared
  BY <1>7, PreparedKeepsBound
<1>8. CASE UNCHANGED pipeline
  BY <1>8 DEF pipeline, queue, reading, decoder, BoundInv, NothingReadYet,
              DecoderIsSetUp, UnitIsBounded, BothStreams, AudioIsBounded,
              VideoIsBounded, HandSize
<1> QED
  BY <1>1, <1>2, <1>3, <1>4, <1>5, <1>6, <1>7, <1>8
     DEF PipelineNext, MainService, DoReadPacket, DoDecode

LEMMA BoundInit == PipelineInit => BoundInv
<1> SUFFICES ASSUME PipelineInit PROVE BoundInv
  OBVIOUS
<1>1. NothingReadYet /\ DecoderIsSetUp /\ ~BothStreams
  BY DEF PipelineInit, NothingReadYet, DecoderIsSetUp, BothStreams
<1>2. UnitIsBounded
  BY LimitsAreNumbers DEF PipelineInit, Init, UnitIsBounded
<1>3. startBufferDuration <= startBufferDurations.normal
  BY LimitsAreNumbers DEF PipelineInit
<1> QED
  BY <1>1, <1>2, <1>3 DEF BoundInv

\* The bound of either stream is one of the shorter buffer.
LEMMA BoundFollows ==
  ASSUME PlayerInv, BoundTypes, BoundInv
  PROVE  BufferIsBounded
<1> SUFFICES ASSUME BothStreams
             PROVE  PlayerBufferDuration <= FullAt + LongestPacket
                    + MAX_INPUT_SIZE * VIDEO_RENDER_DURATION_DEFAULT
  BY DEF BufferIsBounded, BothStreams
<1> DEFINE most == MAX_INPUT_SIZE * VIDEO_RENDER_DURATION_DEFAULT
           coded == Len(mInputQueue)
<1>1. /\ most \in Nat /\ Frames(1) <= most
      /\ Frames(coded) \in Nat /\ Frames(coded) <= most
  <2>1. MAX_INPUT_SIZE \in Nat /\ 1 <= MAX_INPUT_SIZE /\ coded \in Nat
        /\ coded <= MAX_INPUT_SIZE
    BY LimitsAreNumbers DEF BoundTypes
  <2>2. most = Frames(MAX_INPUT_SIZE)
    BY DEF Frames
  <2> HIDE DEF most, coded
  <2> QED
    BY <2>1, <2>2, FramesAdd
<1>2. AudioBufDuration = mAudioPackets * AudioDuration
      /\ (mPacketDuration # 0 => VideoBufDuration = mDuration + Frames(coded))
      /\ (mPacketDuration = 0 =>
            VideoBufDuration = Frames(Len(mQueue)) + Frames(coded))
  BY WhatIsCounted DEF BoundInv
<1>3. mAudioPackets * AudioDuration \in Nat /\ Frames(Len(mQueue)) \in Nat
      /\ mDuration \in Nat /\ mPacketDuration \in Nat
  BY OneMoreAudioPacket, FramesAdd DEF BoundTypes
<1> HIDE DEF most
<1>4. CASE AudioIsBounded
  <2>1. AudioBufDuration \in Nat
        /\ AudioBufDuration <= FullAt + LongestPacket + most
    BY <1>1, <1>2, <1>3, <1>4, LimitsAreNumbers DEF AudioIsBounded
  <2>2. VideoBufDuration \in Nat
    BY <1>1, <1>2, <1>3
  <2> QED
    BY <1>1, <2>1, <2>2, LimitsAreNumbers DEF PlayerBufferDuration, most
<1>5. CASE VideoIsBounded
  <2>1. ASSUME mPacketDuration # 0
        PROVE  VideoBufDuration \in Nat
               /\ VideoBufDuration <= FullAt + LongestPacket + most
    BY <1>1, <1>2, <1>3, <1>5, <2>1, LimitsAreNumbers DEF VideoIsBounded
  <2>2. ASSUME mPacketDuration = 0
        PROVE  VideoBufDuration \in Nat
               /\ VideoBufDuration <= FullAt + LongestPacket + most
    <3> DEFINE n == Len(mQueue) + HandSize + Len(mInputQueue)
    <3>1. Frames(n) <= FullAt + Frames(2)
      BY <1>5, <2>2 DEF VideoIsBounded
    <3>2. Len(mQueue) + coded \in Nat /\ n \in Nat /\ Len(mQueue) + coded <= n
      BY DEF BoundTypes
    <3>3. Frames(Len(mQueue) + coded) = Frames(Len(mQueue)) + Frames(coded)
      BY FramesAdd DEF BoundTypes
    <3>4. Frames(Len(mQueue) + coded) <= Frames(n) /\ Frames(n) \in Nat
      BY <3>2, FramesAdd
    <3> HIDE DEF n, coded
    <3> QED
      BY <1>1, <1>2, <1>3, <2>2, <3>1, <3>3, <3>4, LimitsAreNumbers
  <2>3. VideoBufDuration \in Nat
        /\ VideoBufDuration <= FullAt + LongestPacket + most
    BY <2>1, <2>2
  <2>4. AudioBufDuration \in Nat
    BY <1>2, <1>3
  <2> QED
    BY <1>1, <2>3, <2>4, LimitsAreNumbers DEF PlayerBufferDuration, most
<1> QED
  BY <1>4, <1>5 DEF BoundInv

(***************************************************************************)
(* Whatever the file, the limits and the speed of the decoder, reading     *)
(* never fills the shorter of the two buffers beyond the limit, but for a  *)
(* packet and what the decoder holds.                                      *)
(***************************************************************************)
THEOREM BufferStaysBounded ==
  ASSUME PlayerUse
  PROVE  PipelineSpec => []BufferIsBounded
<1>1. PlayerInv /\ CountersAreSums /\ PipelineInv => BoundTypes
  BY StateOfTheBound
<1>2. PipelineInit => BoundInv
  BY BoundInit
<1>3. PlayerInv /\ PlayerInv' /\ PipelineInv /\ PipelineInv' /\ BoundTypes
      /\ BoundTypes' /\ BoundInv /\ [PipelineNext]_pipeline => BoundInv'
  BY BoundStep
<1>4. PlayerInv /\ BoundTypes /\ BoundInv => BufferIsBounded
  BY BoundFollows
<1> QED
  BY <1>1, <1>2, <1>3, <1>4, PipelineUsesTheQueue, SumsInvariance,
     PipelineInvariance, PTL DEF PipelineSpec
=============================================================================
