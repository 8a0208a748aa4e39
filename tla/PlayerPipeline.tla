--------------------------- MODULE PlayerPipeline ---------------------------
(***************************************************************************)
(* The player's media loop (media_player/SnPlayer.cpp): a turn reads       *)
(* packets from the demuxer into the playback queues until they are full,  *)
(* moves one video packet on to the decoder, and opens the decoder if that *)
(* is not done.  The loop is one thread; the demuxer and the decoder have  *)
(* their own.  The video queue is MediaPacketQueue, used as the            *)
(* BufferController uses it.  No audio decoder is ever set up, so of the   *)
(* audio queue only its duration matters.                                  *)
(*                                                                         *)
(* Left out: rendering, which nothing calls, the background status and     *)
(* mCanceled, which nothing sets, and the frames, which are thrown away.   *)
(***************************************************************************)
EXTENDS MediaPacketQueue

CONSTANTS
  VideoLength,      \* the packets of the file's video stream have the ids 1 ..
  AudioLength,      \* and so many audio packets, each AudioDuration long
  AudioDuration,
  StreamSets,       \* the streams prepare() may find, of "video" and "audio"
  EndAnswers,       \* what the demuxer answers behind the end
  maxBufferDuration, startBufferDurations, kBufferGap, kSecond,
  GoodSteps, MiddleSteps,         \* packets read between two looks at the memory
  VIDEO_RENDER_DURATION_DEFAULT,
  MAX_INPUT_SIZE, MAX_OUTPUT_SIZE,
  LongestPacket,    \* no packet counts for more in the buffers
  MaxSetupFailures  \* bound: how often the decoder cannot be opened

ASSUME PipelineAssumption ==
  /\ VideoLength \in Nat /\ AudioLength \in Nat /\ AudioDuration \in Nat
  /\ \A i \in 1 .. VideoLength : \E p \in Packets : p.id = i
  /\ MaxQueue >= VideoLength
  /\ StreamSets \subseteq SUBSET {"video", "audio"}
  /\ EndAnswers \subseteq {"EOS", "ERROR"}
  /\ maxBufferDuration \in Nat /\ kBufferGap \in Nat /\ kSecond \in Nat
  /\ GoodSteps \in Nat /\ MiddleSteps \in Nat
  /\ VIDEO_RENDER_DURATION_DEFAULT \in Nat /\ MaxSetupFailures \in Nat
  /\ startBufferDurations.normal \in Nat /\ startBufferDurations.lowMem \in Nat
  /\ MAX_INPUT_SIZE \in Nat \ {0} /\ MAX_OUTPUT_SIZE \in Nat \ {0}
  /\ LongestPacket \in Nat
  /\ AudioDuration <= LongestPacket
  /\ VIDEO_RENDER_DURATION_DEFAULT <= LongestPacket
  /\ \A p \in Packets : p.duration <= LongestPacket

VARIABLES
  mPlayStatus,
  streams,          \* those with mCurrentVideoIndex or mCurrentAudioIndex >= 0
  at,               \* where the player's thread is
  checkStep,
  startBufferDuration,
  mBufferIsFull, mLowMem, mReadEos,
  mAudioPackets,    \* packets in the audio queue
  mVideoPacket,     \* taken from the queue and not yet by the decoder
  valid,            \* the video decoder's handle
  mInputQueue,      \* of the decoder: the ids of packets
  mOutputQueue,     \* of the decoder: how many frames
  videoRead,        \* history: video packets read
  taken,            \* history: the ids of those the decoder has taken
  setupFailures

queue == <<mQueue, mCurrent, mPacketDuration, mMaxBackwardDuration, mDuration,
           mTotalDuration, returned, fault>>
reading == <<checkStep, startBufferDuration, mBufferIsFull, mLowMem, mReadEos,
             mAudioPackets, videoRead>>
decoder == <<valid, mInputQueue, mOutputQueue, setupFailures>>
pipeline == <<queue, mPlayStatus, streams, at, reading, mVideoPacket, decoder,
              taken>>

LoopTypeOK ==
  /\ mPlayStatus \in {"IDLE", "PREPARING"}
  /\ streams \subseteq {"video", "audio"}
  /\ at \in {"loop", "read", "decode", "fill", "send", "setup"}
  /\ checkStep \in Nat
  /\ startBufferDuration \in
       {startBufferDurations.normal, startBufferDurations.lowMem}
  /\ mBufferIsFull \in BOOLEAN /\ mLowMem \in BOOLEAN /\ mReadEos \in BOOLEAN
  /\ mAudioPackets \in 0 .. AudioLength

VideoTypeOK ==
  /\ valid \in BOOLEAN
  /\ mVideoPacket \in Packet
  /\ mInputQueue \in Seq(1 .. VideoLength) /\ Len(mInputQueue) <= MAX_INPUT_SIZE
  /\ mOutputQueue \in 0 .. MAX_OUTPUT_SIZE
  /\ videoRead \in 0 .. VideoLength
  /\ taken \in Seq(1 .. VideoLength)
  /\ setupFailures \in 0 .. MaxSetupFailures

PipelineTypeOK == LoopTypeOK /\ VideoTypeOK

PipelineInit ==
  /\ Init
  /\ mPlayStatus = "IDLE" /\ streams = {} /\ at = "loop"
  /\ checkStep = 0 /\ startBufferDuration = startBufferDurations.normal
  /\ mBufferIsFull = FALSE /\ mLowMem = FALSE /\ mReadEos = FALSE
  /\ mAudioPackets = 0 /\ mVideoPacket = NoPacket
  /\ valid = FALSE /\ mInputQueue = <<>> /\ mOutputQueue = 0
  /\ videoRead = 0 /\ taken = <<>> /\ setupFailures = 0

HAVE_VIDEO == "video" \in streams
HAVE_AUDIO == "audio" \in streams

-----------------------------------------------------------------------------
(***************************************************************************)
(* The message processor's prepare comes to its end, and the media loop of *)
(* the next turns is not skipped any more.                                 *)
(***************************************************************************)
Prepared ==
  /\ Alive /\ at = "loop"
  /\ mPlayStatus = "IDLE" /\ mPlayStatus' = "PREPARING"
  /\ streams' \in StreamSets
  /\ UNCHANGED <<queue, at, reading, mVideoPacket, decoder, taken>>

ProcessMediaLoop ==
  /\ Alive /\ at = "loop"
  /\ mPlayStatus = "PREPARING"
  /\ at' = IF mReadEos THEN "decode" ELSE "read"
  /\ checkStep' = 0
  /\ UNCHANGED <<queue, mPlayStatus, streams, startBufferDuration,
                 mBufferIsFull, mLowMem, mReadEos, mAudioPackets, videoRead,
                 mVideoPacket, decoder, taken>>

-----------------------------------------------------------------------------
\* MediaPacketQueue::getDuration: -1 while no packet had a duration.
GetDuration ==
  IF mPacketDuration # 0 THEN mDuration
  ELSE IF mQueue = <<>> \/ AtEnd THEN 0 ELSE -1

GetSize == Len(mQueue) - mCurrent + 1

\* With no duration known, the frames are counted.
VideoBufDuration ==
  IF ~HAVE_VIDEO THEN -1
  ELSE (IF GetDuration < 0 THEN GetSize * VIDEO_RENDER_DURATION_DEFAULT
        ELSE GetDuration)
       + (IF valid THEN Len(mInputQueue) * VIDEO_RENDER_DURATION_DEFAULT ELSE 0)

AudioBufDuration == IF HAVE_AUDIO THEN mAudioPackets * AudioDuration ELSE -1

(***************************************************************************)
(* getPlayerBufferDuration(false).  A stream there is none of counts as    *)
(* -1: with one stream only, the buffer is never full.  (The times of the  *)
(* first and the last packet are used only then.)                          *)
(***************************************************************************)
PlayerBufferDuration ==
  IF AudioBufDuration > VideoBufDuration THEN VideoBufDuration
  ELSE AudioBufDuration

-----------------------------------------------------------------------------
(***************************************************************************)
(* doReadPacket, one turn of its loop an action.                           *)
(***************************************************************************)
\* Mutant: what was full once is full, however much was taken out since.
StaysFullForEver(duration) == mBufferIsFull

\* Full at the last look, and not a bufferGap has been taken out since.
StaysFull(duration) ==
  /\ mBufferIsFull
  /\ maxBufferDuration > 2 * kBufferGap
  /\ duration > maxBufferDuration - kBufferGap
  /\ duration > startBufferDuration

\* Mutant: the second comparison is the wrong way round.
IsFullBeforeTheStart(duration) ==
  /\ duration > maxBufferDuration
  /\ duration < startBufferDuration

IsFull(duration) ==
  /\ duration > maxBufferDuration
  /\ duration > startBufferDuration

BufferFull ==
  /\ Alive /\ at = "read"
  /\ StaysFull(PlayerBufferDuration) \/ IsFull(PlayerBufferDuration)
  /\ mBufferIsFull' = TRUE
  /\ at' = "decode"
  /\ UNCHANGED <<queue, mPlayStatus, streams, checkStep, startBufferDuration,
                 mLowMem, mReadEos, mAudioPackets, videoRead, mVideoPacket,
                 decoder, taken>>

\* More is to be read; the memory is looked at after checkStep packets.
MayRead ==
  /\ Alive /\ at = "read"
  /\ ~StaysFull(PlayerBufferDuration) /\ ~IsFull(PlayerBufferDuration)
  /\ mBufferIsFull' = FALSE

LooksAtMemory == checkStep = 0 /\ PlayerBufferDuration > kSecond

LowMemory ==
  /\ MayRead /\ LooksAtMemory
  /\ mLowMem' = TRUE
  /\ startBufferDuration' =
       IF startBufferDuration > startBufferDurations.lowMem
       THEN startBufferDurations.lowMem ELSE startBufferDuration
  /\ at' = "decode"
  /\ UNCHANGED <<queue, mPlayStatus, streams, checkStep, mReadEos,
                 mAudioPackets, videoRead, mVideoPacket, decoder, taken>>

\* Plenty of memory, enough, or nobody looks or can tell.
EnoughMemory ==
  /\ \/ LooksAtMemory /\ checkStep' = GoodSteps /\ UNCHANGED mLowMem
     \/ LooksAtMemory /\ checkStep' = MiddleSteps /\ mLowMem' = FALSE
     \/ /\ checkStep' = IF checkStep = 0 THEN 0 ELSE checkStep - 1
        /\ UNCHANGED mLowMem
  /\ UNCHANGED startBufferDuration

\* The loop goes on, unless it has taken 10 ms.
GoesOn == at' \in {"read", "decode"}

ReadVideoPacket ==
  /\ HAVE_VIDEO /\ videoRead < VideoLength
  /\ MayRead /\ EnoughMemory /\ GoesOn
  /\ \E p \in Packets : p.id = videoRead + 1 /\ AddPacket(p)
  /\ videoRead' = videoRead + 1
  /\ UNCHANGED <<mPlayStatus, streams, mReadEos, mAudioPackets, mVideoPacket,
                 decoder, taken>>

ReadAudioPacket ==
  /\ HAVE_AUDIO /\ mAudioPackets < AudioLength
  /\ MayRead /\ EnoughMemory /\ GoesOn
  /\ mAudioPackets' = mAudioPackets + 1
  /\ UNCHANGED <<queue, mPlayStatus, streams, mReadEos, videoRead,
                 mVideoPacket, decoder, taken>>

\* The demuxer has nothing at the moment, or fails for a moment.
ReadNothing ==
  /\ MayRead /\ EnoughMemory
  /\ at' = "decode"
  /\ UNCHANGED <<queue, mPlayStatus, streams, mReadEos, mAudioPackets,
                 videoRead, mVideoPacket, decoder, taken>>

ReadEnds ==
  /\ HAVE_VIDEO => videoRead = VideoLength
  /\ HAVE_AUDIO => mAudioPackets = AudioLength
  /\ MayRead /\ EnoughMemory
  /\ \E answer \in EndAnswers : mReadEos' = (answer = "EOS")
  /\ at' = "decode"
  /\ UNCHANGED <<queue, mPlayStatus, streams, mAudioPackets, videoRead,
                 mVideoPacket, decoder, taken>>

DoReadPacket ==
  \/ BufferFull \/ LowMemory
  \/ ReadVideoPacket \/ ReadAudioPacket \/ ReadNothing \/ ReadEnds

-----------------------------------------------------------------------------
(***************************************************************************)
(* doDecode: a packet that the decoder did not take is kept.               *)
(***************************************************************************)
SkipDecoding ==
  /\ Alive /\ at = "decode" /\ at' = "setup"
  /\ ~HAVE_VIDEO \/ ~valid
  /\ UNCHANGED <<queue, mPlayStatus, streams, reading, mVideoPacket, decoder,
                 taken>>

\* Mutant: a packet that was kept is replaced by the next one.
TakePacketAnyway ==
  /\ Alive /\ at = "decode" /\ at' = "fill"
  /\ HAVE_VIDEO /\ valid
  /\ GetPacket /\ mVideoPacket' = returned'
  /\ UNCHANGED <<mPlayStatus, streams, reading, decoder, taken>>

TakePacket ==
  /\ Alive /\ at = "decode" /\ at' = "fill"
  /\ HAVE_VIDEO /\ valid
  /\ IF mVideoPacket = NoPacket
     THEN GetPacket /\ mVideoPacket' = returned'
     ELSE UNCHANGED <<queue, mVideoPacket>>
  /\ UNCHANGED <<mPlayStatus, streams, reading, decoder, taken>>

\* fillVideoFrame: a frame, if there is one, is taken and thrown away.
FillVideoFrame ==
  /\ Alive /\ at = "fill"
  /\ at' = IF mVideoPacket = NoPacket THEN "setup" ELSE "send"
  /\ mOutputQueue' = IF mOutputQueue = 0 THEN 0 ELSE mOutputQueue - 1
  /\ UNCHANGED <<queue, mPlayStatus, streams, reading, mVideoPacket, valid,
                 mInputQueue, setupFailures, taken>>

\* Mutant: only the frames are counted.
DecoderIsFullOfFrames == mOutputQueue >= MAX_OUTPUT_SIZE

DecoderIsFull ==
  Len(mInputQueue) >= MAX_INPUT_SIZE \/ mOutputQueue >= MAX_OUTPUT_SIZE

(***************************************************************************)
(* decodeVideoPacket: the decoder answers AGAIN, drops a packet that is    *)
(* corrupt or waits for a key frame, or takes it.  With no packet left     *)
(* nothing is sent, not even the end.                                      *)
(***************************************************************************)
SendPacket ==
  /\ Alive /\ at = "send" /\ at' = "setup"
  /\ \/ /\ DecoderIsFull
        /\ UNCHANGED <<mVideoPacket, mInputQueue, taken>>
     \/ /\ taken' = Append(taken, mVideoPacket.id)
        /\ mVideoPacket' = NoPacket
        /\ UNCHANGED mInputQueue
     \/ /\ ~DecoderIsFull
        /\ taken' = Append(taken, mVideoPacket.id)
        /\ mInputQueue' = Append(mInputQueue, mVideoPacket.id)
        /\ mVideoPacket' = NoPacket
  /\ UNCHANGED <<queue, mPlayStatus, streams, reading, valid, mOutputQueue,
                 setupFailures>>

DoDecode == SkipDecoding \/ TakePacket \/ FillVideoFrame \/ SendPacket

\* DeviceManager::setup: a decoder that cannot be opened is thrown away.
Setup ==
  \/ valid' = TRUE /\ UNCHANGED setupFailures
  \/ /\ setupFailures < MaxSetupFailures
     /\ setupFailures' = setupFailures + 1
     /\ UNCHANGED valid

SetupAVDevice ==
  /\ Alive /\ at = "setup" /\ at' = "loop"
  /\ IF HAVE_VIDEO /\ ~valid THEN Setup ELSE UNCHANGED <<valid, setupFailures>>
  /\ UNCHANGED <<queue, mPlayStatus, streams, reading, mVideoPacket,
                 mInputQueue, mOutputQueue, taken>>

MainService == ProcessMediaLoop \/ DoReadPacket \/ DoDecode \/ SetupAVDevice

\* The decoder's thread: a packet gives a frame now, or later.
Decode ==
  /\ Alive
  /\ mInputQueue # <<>> /\ mOutputQueue < MAX_OUTPUT_SIZE
  /\ mInputQueue' = Tail(mInputQueue)
  /\ mOutputQueue' \in {mOutputQueue, mOutputQueue + 1}
  /\ UNCHANGED <<queue, mPlayStatus, streams, at, reading, mVideoPacket,
                 valid, setupFailures, taken>>

PipelineNext == Prepared \/ MainService \/ Decode

PipelineSpec == PipelineInit /\ [][PipelineNext]_pipeline

(***************************************************************************)
(* SNThread repeats mainService, the decoder's thread decodes, and what    *)
(* the demuxer has read reaches a player that asks for it again and again. *)
(***************************************************************************)
FairPipelineSpec ==
  /\ PipelineSpec
  /\ WF_pipeline(MainService)
  /\ WF_pipeline(Decode)
  /\ SF_pipeline(ReadVideoPacket)
  /\ SF_pipeline(ReadAudioPacket)

-----------------------------------------------------------------------------
IdsOf(packets) == [i \in DOMAIN packets |-> packets[i].id]

(***************************************************************************)
(* Video packets reach the decoder once each and in the order of the file, *)
(* over the queue, the packet in hand and any number of refusals.          *)
(***************************************************************************)
VideoInOrderOnce ==
  Alive => taken
           \o (IF mVideoPacket = NoPacket THEN <<>> ELSE <<mVideoPacket.id>>)
           \o IdsOf(Pending)
         = [i \in 1 .. videoRead |-> i]

(***************************************************************************)
(* With both streams, the shorter of the two buffers is no longer than     *)
(* where the reading stops, but for the packet read last and for the       *)
(* packets in the decoder, where each counts as 40 ms whatever it lasts.   *)
(***************************************************************************)
FullAt == IF startBufferDurations.normal > maxBufferDuration
          THEN startBufferDurations.normal ELSE maxBufferDuration

BufferIsBounded ==
  streams = {"video", "audio"} =>
    PlayerBufferDuration <= FullAt + LongestPacket
                            + MAX_INPUT_SIZE * VIDEO_RENDER_DURATION_DEFAULT

(***************************************************************************)
(* All of a prepared video reaches the decoder: neither a full buffer nor  *)
(* low memory nor a decoder that refuses stops the loop for good.          *)
(***************************************************************************)
EverythingIsDecoded ==
  mPlayStatus = "PREPARING" /\ HAVE_VIDEO ~> Len(taken) = VideoLength
=============================================================================
