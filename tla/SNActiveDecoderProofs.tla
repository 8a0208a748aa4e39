------------------------ MODULE SNActiveDecoderProofs ------------------------
(***************************************************************************)
(* Theorems about SNActiveDecoder, for every size of its queues and of the *)
(* codec and any number of packets and calls: its types, who uses the      *)
(* codec, and that frames come out in order and once.                      *)
(*                                                                         *)
(* The proofs go in three layers.  The control of the two threads (who may *)
(* be where, with which flags) rests on the types of the queues alone.     *)
(* The packets' order rests on it only through HoldInv, and is stated of   *)
(* sets: which numbers are in which queue, and that whatever is in one     *)
(* queue comes before whatever is in a later one.  What the codec is given *)
(* is stated of the sequence of the packets given to it and still to come. *)
(***************************************************************************)
EXTENDS SNActiveDecoder, SequenceTheorems, TLAPS

USE SNActiveDecoderAssumption

-----------------------------------------------------------------------------
(***************************************************************************)
(* Sequences, the sets of their elements, and order.                       *)
(***************************************************************************)
Sorted(s) == \A i, j \in DOMAIN s : i < j => s[i] < s[j]

Before(S, T) == \A x \in S, y \in T : x < y

LEMMA TailProperties ==
  ASSUME NEW S, NEW s \in Seq(S), s # <<>>
  PROVE  /\ Tail(s) \in Seq(S) /\ Len(Tail(s)) = Len(s) - 1
         /\ Head(s) \in S /\ Head(s) = s[1]
         /\ Len(s) \in Nat \ {0}
         /\ \A i \in 1 .. Len(Tail(s)) : Tail(s)[i] = s[i + 1]
BY HeadTailProperties, LenProperties, EmptySeq

LEMMA SetOfEmpty == ToSet(<<>>) = {}
BY DEF ToSet

LEMMA SetOfSeq ==
  ASSUME NEW S, NEW s \in Seq(S)
  PROVE  ToSet(s) \subseteq S
BY LenProperties, ElementOfSeq DEF ToSet

LEMMA SetOfAppend ==
  ASSUME NEW S, NEW s \in Seq(S), NEW x \in S
  PROVE  ToSet(Append(s, x)) = ToSet(s) \cup {x}
<1> DEFINE t == Append(s, x)
<1>1. /\ t \in Seq(S) /\ Len(t) = Len(s) + 1 /\ Len(s) \in Nat
      /\ \A i \in 1 .. Len(s) : t[i] = s[i]
      /\ t[Len(s) + 1] = x
  BY AppendProperties, LenProperties
<1>2. DOMAIN t = 1 .. Len(s) + 1 /\ DOMAIN s = 1 .. Len(s)
  BY <1>1, LenProperties
<1> QED
  BY <1>1, <1>2 DEF ToSet

LEMMA SetOfTail ==
  ASSUME NEW S, NEW s \in Seq(S), s # <<>>
  PROVE  ToSet(s) = {Head(s)} \cup ToSet(Tail(s))
<1>1. DOMAIN Tail(s) = 1 .. Len(s) - 1 /\ DOMAIN s = 1 .. Len(s)
  BY TailProperties, LenProperties
<1>2. \A i \in DOMAIN Tail(s) : i + 1 \in DOMAIN s /\ Tail(s)[i] = s[i + 1]
  BY <1>1, TailProperties
<1>3. \A i \in DOMAIN s \ {1} : /\ i - 1 \in DOMAIN Tail(s)
                                /\ s[i] = Tail(s)[i - 1]
  BY <1>1, TailProperties
<1>4. ToSet(s) \subseteq {Head(s)} \cup ToSet(Tail(s))
  <2>1. ASSUME NEW x \in ToSet(s) PROVE x \in {Head(s)} \cup ToSet(Tail(s))
    <3>1. PICK i \in DOMAIN s : x = s[i]
      BY DEF ToSet
    <3>2. CASE i = 1
      BY <3>1, <3>2, TailProperties
    <3>3. CASE i # 1
      BY <1>3, <3>1, <3>3 DEF ToSet
    <3> QED
      BY <3>2, <3>3
  <2> QED
    BY <2>1
<1>5. {Head(s)} \cup ToSet(Tail(s)) \subseteq ToSet(s)
  BY <1>1, <1>2, TailProperties DEF ToSet
<1> QED
  BY <1>4, <1>5

LEMMA SetOfConcat ==
  ASSUME NEW S, NEW s \in Seq(S), NEW t \in Seq(S)
  PROVE  ToSet(s \o t) = ToSet(s) \cup ToSet(t)
<1>1. /\ DOMAIN (s \o t) = 1 .. Len(s) + Len(t)
      /\ DOMAIN s = 1 .. Len(s) /\ DOMAIN t = 1 .. Len(t)
      /\ Len(s) \in Nat /\ Len(t) \in Nat
  BY ConcatProperties, LenProperties
<1>2. \A i \in DOMAIN (s \o t) :
        (s \o t)[i] = IF i <= Len(s) THEN s[i] ELSE t[i - Len(s)]
  BY <1>1, ConcatProperties
<1>3. \A i \in DOMAIN s : i \in DOMAIN (s \o t) /\ (s \o t)[i] = s[i]
  BY <1>1, <1>2
<1>4. \A i \in DOMAIN t :
        i + Len(s) \in DOMAIN (s \o t) /\ (s \o t)[i + Len(s)] = t[i]
  BY <1>1, <1>2
<1>5. ToSet(s \o t) \subseteq ToSet(s) \cup ToSet(t)
  BY <1>1, <1>2 DEF ToSet
<1>6. ToSet(s) \cup ToSet(t) \subseteq ToSet(s \o t)
  BY <1>3, <1>4 DEF ToSet
<1> QED
  BY <1>5, <1>6

LEMMA SetOfConcat3 ==
  ASSUME NEW S, NEW s \in Seq(S), NEW t \in Seq(S), NEW u \in Seq(S)
  PROVE  /\ s \o t \o u \in Seq(S)
         /\ ToSet(s \o t \o u) = ToSet(s) \cup ToSet(t) \cup ToSet(u)
<1>1. s \o t \in Seq(S) /\ ToSet(s \o t) = ToSet(s) \cup ToSet(t)
  BY ConcatProperties, SetOfConcat
<1>2. ToSet((s \o t) \o u) = ToSet(s \o t) \cup ToSet(u)
      /\ (s \o t) \o u \in Seq(S)
  <2> DEFINE r == s \o t
  <2>1. r \in Seq(S)
    BY <1>1
  <2> HIDE DEF r
  <2>2. ToSet(r \o u) = ToSet(r) \cup ToSet(u) /\ r \o u \in Seq(S)
    BY <2>1, SetOfConcat, ConcatProperties
  <2> QED
    BY <2>2 DEF r
<1> QED
  BY <1>1, <1>2

LEMMA SetOfConcat4 ==
  ASSUME NEW S, NEW s \in Seq(S), NEW t \in Seq(S), NEW u \in Seq(S),
         NEW v \in Seq(S)
  PROVE  ToSet(s \o t \o u \o v) = ToSet(s) \cup ToSet(t) \cup ToSet(u) \cup ToSet(v)
<1>1. /\ s \o t \o u \in Seq(S)
      /\ ToSet(s \o t \o u) = ToSet(s) \cup ToSet(t) \cup ToSet(u)
  BY SetOfConcat3
<1>2. PICK w \in Seq(S) : /\ w = s \o t \o u
                          /\ ToSet(w) = ToSet(s) \cup ToSet(t) \cup ToSet(u)
  BY <1>1
<1>3. ToSet(w \o v) = ToSet(w) \cup ToSet(v)
  BY SetOfConcat
<1> QED
  BY <1>2, <1>3

LEMMA SortedEmpty == Sorted(<<>>)
BY DEF Sorted

LEMMA SortedOne == ASSUME NEW x PROVE Sorted(<<x>>)
BY DEF Sorted

LEMMA SortedAppend ==
  ASSUME NEW S, NEW s \in Seq(S), NEW x \in S, Sorted(s),
         Before(ToSet(s), {x})
  PROVE  Sorted(Append(s, x))
<1> DEFINE t == Append(s, x)
<1>1. /\ t \in Seq(S) /\ Len(t) = Len(s) + 1 /\ Len(s) \in Nat
      /\ \A i \in 1 .. Len(s) : t[i] = s[i]
      /\ t[Len(s) + 1] = x
  BY AppendProperties, LenProperties
<1>2. DOMAIN t = 1 .. Len(s) + 1 /\ DOMAIN s = 1 .. Len(s)
  BY <1>1, LenProperties
<1> QED
  BY <1>1, <1>2 DEF ToSet, Sorted, Before

LEMMA SortedTail ==
  ASSUME NEW S, NEW s \in Seq(S), s # <<>>, Sorted(s)
  PROVE  Sorted(Tail(s)) /\ Before({Head(s)}, ToSet(Tail(s)))
<1>1. DOMAIN Tail(s) = 1 .. Len(s) - 1 /\ DOMAIN s = 1 .. Len(s)
  BY TailProperties, LenProperties
<1>2. \A i \in DOMAIN Tail(s) :
        /\ i + 1 \in DOMAIN s /\ Tail(s)[i] = s[i + 1]
        /\ 1 \in DOMAIN s /\ 1 < i + 1
  BY <1>1, TailProperties
<1>3. Before({Head(s)}, ToSet(Tail(s)))
  BY <1>2, TailProperties DEF ToSet, Sorted, Before
<1>4. Sorted(Tail(s))
  BY <1>1, <1>2 DEF Sorted
<1> QED
  BY <1>3, <1>4

LEMMA SortedConcat ==
  ASSUME NEW S, NEW s \in Seq(S), NEW t \in Seq(S), Sorted(s), Sorted(t),
         Before(ToSet(s), ToSet(t))
  PROVE  Sorted(s \o t)
<1>1. /\ DOMAIN (s \o t) = 1 .. Len(s) + Len(t)
      /\ DOMAIN s = 1 .. Len(s) /\ DOMAIN t = 1 .. Len(t)
      /\ Len(s) \in Nat /\ Len(t) \in Nat
  BY ConcatProperties, LenProperties
<1>2. \A i \in DOMAIN (s \o t) :
        (s \o t)[i] = IF i <= Len(s) THEN s[i] ELSE t[i - Len(s)]
  BY <1>1, ConcatProperties
<1> SUFFICES ASSUME NEW i \in DOMAIN (s \o t), NEW j \in DOMAIN (s \o t), i < j
             PROVE  (s \o t)[i] < (s \o t)[j]
  BY DEF Sorted
<1>3. CASE j <= Len(s)
  BY <1>1, <1>2, <1>3 DEF Sorted
<1>4. CASE i > Len(s)
  <2>1. i - Len(s) \in DOMAIN t /\ j - Len(s) \in DOMAIN t
        /\ i - Len(s) < j - Len(s)
    BY <1>1, <1>4
  <2> QED
    BY <2>1, <1>1, <1>2, <1>4 DEF Sorted
<1>5. CASE i <= Len(s) /\ ~ (j <= Len(s))
  <2>1. i \in DOMAIN s /\ j - Len(s) \in DOMAIN t
    BY <1>1, <1>5
  <2>2. s[i] \in ToSet(s) /\ t[j - Len(s)] \in ToSet(t)
    BY <2>1 DEF ToSet
  <2> QED
    BY <2>2, <1>1, <1>2, <1>5 DEF Before
<1> QED
  BY <1>3, <1>4, <1>5, <1>1

LEMMA Joined ==
  ASSUME NEW S, NEW s \in Seq(S), NEW t \in Seq(S), Sorted(s), Sorted(t),
         Before(ToSet(s), ToSet(t))
  PROVE  /\ s \o t \in Seq(S) /\ Sorted(s \o t)
         /\ ToSet(s \o t) = ToSet(s) \cup ToSet(t)
BY ConcatProperties, SortedConcat, SetOfConcat

-----------------------------------------------------------------------------
(***************************************************************************)
(* What happens to packets and frames, action by action.  Every step of    *)
(* either thread is one of these moves, or leaves them where they are.     *)
(***************************************************************************)
InHand == at \in {"enqueue", "hold"}

SameHand == /\ at' = "enqueue" <=> at = "enqueue"
            /\ at' = "hold" <=> at = "hold"

Still == /\ UNCHANGED <<queues, codec, fed, history>>
         /\ SameHand

FrameComesOut ==
  /\ codec # <<>> /\ Len(mOutputQueue) < mMaxOutQueueSize
  /\ mOutputQueue' = Append(mOutputQueue, Head(codec)) /\ codec' = Tail(codec)
  /\ UNCHANGED <<mInputQueue, mHoldingQueue, fed, history>>
  /\ SameHand

FrameIsBad ==
  /\ codec # <<>>
  /\ codec' = Tail(codec) /\ gone' = gone \cup {Head(codec)}
  /\ UNCHANGED <<queues, fed, kinds, got, flushed>>
  /\ SameHand

PacketGoesIn ==
  /\ mInputQueue # <<>> /\ Len(codec) < CodecSize
  /\ mInputQueue' = Tail(mInputQueue) /\ codec' = Append(codec, Head(mInputQueue))
  /\ fed' = Append(fed, Head(mInputQueue))
  /\ UNCHANGED <<mOutputQueue, mHoldingQueue, history>>
  /\ SameHand

PacketIsRefused ==
  /\ mInputQueue # <<>>
  /\ mInputQueue' = Tail(mInputQueue) /\ gone' = gone \cup {Head(mInputQueue)}
  /\ fed' = Append(fed, Head(mInputQueue))
  /\ UNCHANGED <<mOutputQueue, mHoldingQueue, codec, kinds, got, flushed>>
  /\ SameHand

PacketIsSent(kind) ==
  /\ sent < MaxPackets /\ kinds' = Append(kinds, kind)
  /\ at = "out" /\ at' = "enqueue"
  /\ UNCHANGED <<queues, codec, fed, got, gone, flushed>>

PacketIsQueued ==
  /\ at = "enqueue" /\ at' = "out"
  /\ mInputQueue' = Append(mInputQueue, sent)
  /\ UNCHANGED <<mOutputQueue, mHoldingQueue, codec, fed, history>>

PacketIsHeld(kind) ==
  /\ sent < MaxPackets /\ kinds' = Append(kinds, kind)
  /\ at = "out" /\ at' = "out"
  /\ mHoldingQueue' = Append(mHoldingQueue, sent + 1)
  /\ UNCHANGED <<mInputQueue, mOutputQueue, codec, fed, got, gone, flushed>>

KeyReplacesHeld(kind) ==
  /\ sent < MaxPackets /\ kinds' = Append(kinds, kind)
  /\ at = "out" /\ at' = "hold"
  /\ mHoldingQueue' = <<>> /\ gone' = gone \cup ToSet(mHoldingQueue)
  /\ UNCHANGED <<mInputQueue, mOutputQueue, codec, fed, got, flushed>>

KeyIsHeld ==
  /\ at = "hold" /\ at' = "out"
  /\ codec' = <<>> /\ gone' = gone \cup ToSet(codec) /\ fed' = <<>>
  /\ mHoldingQueue' = <<sent>>
  /\ UNCHANGED <<mInputQueue, mOutputQueue, kinds, got, flushed>>

FrameIsTaken ==
  /\ mOutputQueue # <<>>
  /\ mOutputQueue' = Tail(mOutputQueue) /\ got' = Append(got, Head(mOutputQueue))
  /\ UNCHANGED <<mInputQueue, mHoldingQueue, codec, fed, kinds, gone, flushed>>
  /\ SameHand

InputIsHeld ==
  /\ at = "paused" /\ at' = "out"
  /\ mHoldingQueue' = mHoldingQueue \o mInputQueue
  /\ Emptied /\ gone' = gone \cup ToSet(mOutputQueue)
  /\ UNCHANGED <<codec, fed, kinds, got, flushed>>

AllIsDropped ==
  /\ at = "paused" /\ at' = "out"
  /\ Emptied /\ codec' = <<>> /\ mHoldingQueue' = <<>> /\ fed' = <<>>
  /\ gone' = gone \cup ToSet(mInputQueue \o mOutputQueue \o mHoldingQueue \o codec)
  /\ flushed' = sent
  /\ UNCHANGED <<kinds, got>>

AllIsFreed ==
  /\ at = "paused" /\ at' = "closed"
  /\ Emptied /\ codec' = <<>> /\ fed' = <<>>
  /\ gone' = gone \cup ToSet(mInputQueue \o mOutputQueue \o codec)
  /\ UNCHANGED <<mHoldingQueue, kinds, got, flushed>>

Moves ==
  \/ Still
  \/ FrameComesOut \/ FrameIsBad \/ PacketGoesIn \/ PacketIsRefused
  \/ \E kind \in Kinds : \/ PacketIsSent(kind)
                         \/ PacketIsHeld(kind) \/ KeyReplacesHeld(kind)
  \/ PacketIsQueued \/ KeyIsHeld \/ FrameIsTaken
  \/ InputIsHeld \/ AllIsDropped \/ AllIsFreed

LEMMA LoopMoves ==
  ASSUME Loop \/ Awakes
  PROVE  Still
BY DEF Loop, Awakes, AnswersPause, SeesPaused, FallsAsleep, CallsDecodeFunc,
   AppliesTryPause, Goes, ThreadOnly, StillTheSame, Still, SameHand, InHand,
   queues, context, client, history

EnqueuesAPacket ==
  dpc = "enqueue" => mInputQueue # <<>> /\ Head(mInputQueue) # NoPacket

LEMMA DecodeFuncMoves ==
  ASSUME DecodeFunc, EnqueuesAPacket
  PROVE  \/ Still
         \/ FrameComesOut \/ FrameIsBad \/ PacketGoesIn \/ PacketIsRefused
<1> USE DEF Goes, ThreadOnly, SameHand, InHand, queues, context, client, history
<1>1. ASSUME SeeDecoderEos \/ SeeWork \/ SeeInputEos \/ SeeInputEmpty
      PROVE  Still
  BY <1>1 DEF SeeDecoderEos, SeeWork, SeeInputEos, SeeInputEmpty, Looks,
     StillTheSame, Still
<1>2. ASSUME ExtractDecoder("extract", "enqueue") \/ ExtractDecoder("drain", "try")
      PROVE  Still \/ FrameComesOut \/ FrameIsBad
  BY <1>2 DEF ExtractDecoder, CodecReceive, Still, FrameComesOut, FrameIsBad
<1>3. ASSUME EnqueueDecoder
      PROVE  Still \/ PacketGoesIn \/ PacketIsRefused
  BY <1>3 DEF EnqueueDecoder, CodecSend, EnqueuesAPacket, Still, PacketGoesIn,
     PacketIsRefused
<1>4. ASSUME SendEosToDecoder
      PROVE  Still
  BY <1>4 DEF SendEosToDecoder, CodecSend, Still
<1> QED
  BY <1>1, <1>2, <1>3, <1>4 DEF DecodeFunc

LEMMA SendMoves ==
  ASSUME NEW kind \in Kinds,
         SendAfterTheEnd(kind) \/ SendHeld(kind) \/ SendPacket(kind)
  PROVE  \/ Still
         \/ PacketIsSent(kind) \/ PacketIsHeld(kind) \/ KeyReplacesHeld(kind)
<1> USE DEF Sends, ClientAt, ClientAndThreadAt, QueuesUnchanged, queues, context,
            SameHand, InHand, history
<1>1. ASSUME SendAfterTheEnd(kind)
      PROVE  Still
  BY <1>1 DEF SendAfterTheEnd, Still
<1>2. ASSUME SendHeld(kind)
      PROVE  PacketIsHeld(kind) \/ KeyReplacesHeld(kind)
  BY <1>2 DEF SendHeld, PacketIsHeld, KeyReplacesHeld
<1>3. ASSUME SendPacket(kind)
      PROVE  PacketIsSent(kind)
  BY <1>3 DEF SendPacket, PacketIsSent
<1> QED
  BY <1>1, <1>2, <1>3

LEMMA OtherCallsMove ==
  ASSUME \/ Open \/ SendRefused \/ SendTheEnd \/ GetFrame \/ Resume \/ PrePause
         \/ \E o \in Ops : StopRunning(o)
  PROVE  Still \/ FrameIsTaken
<1> USE DEF ClientAt, ClientAndThreadAt, QueuesUnchanged, NothingElse, queues,
            context, SameHand, InHand, history
<1>1. ASSUME Open \/ Resume \/ PrePause \/ \E o \in Ops : StopRunning(o)
      PROVE  Still
  BY <1>1 DEF Open, Resume, PrePause, StopRunning, Still
<1>2. ASSUME SendRefused \/ SendTheEnd
      PROVE  Still
  BY <1>2 DEF SendRefused, SendTheEnd, Sends, Still
<1>3. ASSUME GetFrame
      PROVE  Still \/ FrameIsTaken
  BY <1>3 DEF GetFrame, ClientFlagsUnchanged, Still, FrameIsTaken
<1> QED
  BY <1>1, <1>2, <1>3

LEMMA InsideCallMoves ==
  ASSUME InsideCall
  PROVE  \/ Still
         \/ PacketIsQueued \/ KeyIsHeld \/ InputIsHeld \/ AllIsDropped
         \/ AllIsFreed
<1> USE DEF ClientAt, ClientAndThreadAt, QueuesUnchanged, NothingElse, queues,
            context, SameHand, InHand, history
<1>1. ASSUME GetFrameLooksAtEos \/ PauseThread \/ ThreadIsPaused \/ PauseEnds
      PROVE  Still
  BY <1>1 DEF GetFrameLooksAtEos, PauseThread, ThreadIsPaused, PauseEnds,
     ClientFlagsUnchanged, Still
<1>2. ASSUME FlushForHeldKey
      PROVE  KeyIsHeld
  BY <1>2 DEF FlushForHeldKey, FlushDecoder, KeyIsHeld
<1>3. ASSUME Enqueue
      PROVE  PacketIsQueued
  BY <1>3 DEF Enqueue, PacketIsQueued
<1>4. ASSUME HoldOnEnds
      PROVE  InputIsHeld
  BY <1>4 DEF HoldOnEnds, InputIsHeld, Emptied
<1>5. ASSUME FlushEnds
      PROVE  AllIsDropped
  BY <1>5 DEF FlushEnds, FlushDecoder, AllIsDropped
<1>6. ASSUME CloseEnds
      PROVE  AllIsFreed
  BY <1>6 DEF CloseEnds, CloseDecoder, AllIsFreed
<1> QED
  BY <1>1, <1>2, <1>3, <1>4, <1>5, <1>6 DEF InsideCall

LEMMA EveryStepMoves ==
  ASSUME Next, EnqueuesAPacket
  PROVE  Moves
<1>1. CASE Loop \/ Awakes
  BY <1>1, LoopMoves DEF Moves
<1>2. CASE DecodeFunc
  BY <1>2, DecodeFuncMoves DEF Moves
<1>3. CASE \E kind \in Kinds : SendAfterTheEnd(kind) \/ SendHeld(kind)
                                 \/ SendPacket(kind)
  BY <1>3, SendMoves DEF Moves
<1>4. CASE InsideCall
  BY <1>4, InsideCallMoves DEF Moves
<1>5. CASE \/ Open \/ SendRefused \/ SendTheEnd \/ GetFrame \/ Resume \/ PrePause
           \/ \E o \in Ops : StopRunning(o)
  BY <1>5, OtherCallsMove DEF Moves
<1> QED
  BY <1>1, <1>2, <1>3, <1>4, <1>5 DEF Next, Client, DecodeThread

-----------------------------------------------------------------------------
(***************************************************************************)
(* Types and sizes of the queues.                                          *)
(***************************************************************************)
QueueTypes ==
  /\ mInputQueue \in Seq(Id) /\ mOutputQueue \in Seq(Id)
  /\ mHoldingQueue \in Seq(Id) /\ codec \in Seq(Id)
  /\ kinds \in Seq(Kinds) /\ got \in Seq(Id) /\ fed \in Seq(Id)

QueueSizes ==
  /\ Len(mInputQueue) <= mMaxInQueueSize
  /\ Len(mOutputQueue) <= mMaxOutQueueSize
  /\ Len(codec) <= CodecSize
  /\ Len(kinds) <= MaxPackets
  /\ at = "enqueue" => Len(mInputQueue) < mMaxInQueueSize
  /\ InHand => sent >= 1

LEMMA QueueTypesStep ==
  ASSUME QueueTypes, QueueSizes, Moves
  PROVE  QueueTypes'
<1> USE DEF QueueTypes, queues, history
<1>1. /\ <<>> \in Seq(Id) /\ sent \in Nat
      /\ InHand => sent \in Id
      /\ sent < MaxPackets => sent + 1 \in Id
  BY EmptySeq, LenProperties DEF QueueSizes, sent, Id
<1>2. CASE Still
  BY <1>2 DEF Still
<1>3. CASE FrameComesOut
  BY <1>3, TailProperties, AppendProperties DEF FrameComesOut
<1>4. CASE FrameIsBad
  BY <1>4, TailProperties DEF FrameIsBad
<1>5. CASE PacketGoesIn
  BY <1>5, TailProperties, AppendProperties DEF PacketGoesIn
<1>6. CASE PacketIsRefused
  BY <1>6, TailProperties, AppendProperties DEF PacketIsRefused
<1>7. CASE \E kind \in Kinds : PacketIsSent(kind)
  BY <1>7, AppendProperties DEF PacketIsSent
<1>8. CASE \E kind \in Kinds : PacketIsHeld(kind)
  BY <1>1, <1>8, AppendProperties DEF PacketIsHeld
<1>9. CASE \E kind \in Kinds : KeyReplacesHeld(kind)
  BY <1>1, <1>9, AppendProperties DEF KeyReplacesHeld
<1>10. CASE PacketIsQueued
  BY <1>1, <1>10, AppendProperties DEF PacketIsQueued, InHand
<1>11. CASE KeyIsHeld
  <2>1. <<sent>> \in Seq(Id)
    BY <1>1, <1>11 DEF KeyIsHeld, InHand
  <2> QED
    BY <1>1, <1>11, <2>1 DEF KeyIsHeld
<1>12. CASE FrameIsTaken
  BY <1>12, TailProperties, AppendProperties DEF FrameIsTaken
<1>13. CASE InputIsHeld
  BY <1>1, <1>13, ConcatProperties DEF InputIsHeld, Emptied
<1>14. CASE AllIsDropped \/ AllIsFreed
  BY <1>1, <1>14 DEF AllIsDropped, AllIsFreed, Emptied
<1> QED
  BY <1>2, <1>3, <1>4, <1>5, <1>6, <1>7, <1>8, <1>9, <1>10, <1>11, <1>12,
     <1>13, <1>14 DEF Moves

LEMMA QueueSizesStep ==
  ASSUME QueueTypes, QueueSizes, Moves,
         at' = "enqueue" => Len(mInputQueue') < mMaxInQueueSize
  PROVE  QueueSizes'
<1> USE DEF QueueTypes, QueueSizes, queues, history, sent
<1>1. /\ Len(mInputQueue) \in Nat /\ Len(mOutputQueue) \in Nat
      /\ Len(codec) \in Nat /\ Len(kinds) \in Nat /\ Len(<<>>) = 0
      /\ mInputQueue # <<>> => Len(Tail(mInputQueue)) = Len(mInputQueue) - 1
      /\ mOutputQueue # <<>> => Len(Tail(mOutputQueue)) = Len(mOutputQueue) - 1
      /\ codec # <<>> => Len(Tail(codec)) = Len(codec) - 1
  BY EmptySeq, LenProperties, TailProperties
<1>2. CASE Still
  BY <1>2 DEF Still, SameHand, InHand
<1>3. CASE FrameComesOut
  BY <1>1, <1>3, TailProperties, AppendProperties DEF FrameComesOut, SameHand, InHand
<1>4. CASE FrameIsBad
  BY <1>1, <1>4 DEF FrameIsBad, SameHand, InHand
<1>5. CASE PacketGoesIn
  BY <1>1, <1>5, TailProperties, AppendProperties DEF PacketGoesIn, SameHand, InHand
<1>6. CASE PacketIsRefused
  BY <1>1, <1>6 DEF PacketIsRefused, SameHand, InHand
<1>7. CASE \E kind \in Kinds : \/ PacketIsSent(kind)
                               \/ PacketIsHeld(kind) \/ KeyReplacesHeld(kind)
  BY <1>1, <1>7, AppendProperties DEF PacketIsSent, PacketIsHeld, KeyReplacesHeld,
     InHand
<1>8. CASE PacketIsQueued
  <2>1. Len(mInputQueue') = Len(mInputQueue) + 1
    BY <1>1, <1>8, AppendProperties DEF PacketIsQueued, InHand, Id
  <2> QED
    BY <1>1, <1>8, <2>1 DEF PacketIsQueued, InHand
<1>9. CASE KeyIsHeld
  BY <1>1, <1>9 DEF KeyIsHeld, InHand
<1>10. CASE FrameIsTaken
  BY <1>1, <1>10 DEF FrameIsTaken, SameHand, InHand
<1>11. CASE InputIsHeld \/ AllIsDropped \/ AllIsFreed
  BY <1>1, <1>11 DEF InputIsHeld, AllIsDropped, AllIsFreed, Emptied, InHand
<1> QED
  BY <1>2, <1>3, <1>4, <1>5, <1>6, <1>7, <1>8, <1>9, <1>10, <1>11 DEF Moves

-----------------------------------------------------------------------------
(***************************************************************************)
(* The control of the two threads: where they may be, with which flags.    *)
(***************************************************************************)
Flags ==
  {mRunning, mHolding, mInputEos, mDecoderEos, mHaveSendEosToDecoder,
   mNeedKeyFrame, keyPts, draining, asked, mTryPause, threadRuning, keyRefused,
   ended} \subseteq BOOLEAN

Places ==
  /\ status \in {"IDLE", "RUNNING", "PAUSED"}
  /\ dpc \in {"none", "top", "toSleep", "asleep", "func", "loop", "extract",
              "enqueue", "end", "empty", "sendEnd", "drain", "try"}
  /\ op \in AllOps \cup {"none"}
  /\ at \in {"new", "out", "enqueue", "eos", "hold", "pause", "wait", "paused",
             "closed"}
  /\ ops \in 0 .. MaxOps

InDecodeFunc == {"func", "loop", "extract", "enqueue", "end", "empty",
                 "sendEnd", "drain"}

\* The thread decodes only while it runs; a method that has paused it starts
\* it again only when it returns.
ThreadInv ==
  /\ at = "new" => status = "IDLE"
  /\ asked => at = "wait"
  /\ at = "wait" => asked \/ status = "PAUSED"
  /\ at \in {"paused", "closed"} => status # "RUNNING"
  /\ status = "IDLE" => dpc = "none"
  /\ status = "PAUSED" => dpc \notin InDecodeFunc

\* Once packets are held none reaches the input queue any more.
HoldInv ==
  /\ mHolding => mInputQueue = <<>> /\ dpc \notin {"extract", "enqueue"}
  /\ mHoldingQueue # <<>> => mHolding
  /\ at = "enqueue" => ~mHolding /\ ~mInputEos
  /\ at = "hold" => mHolding /\ ~mInputEos /\ mHoldingQueue = <<>>
  /\ dpc \in {"extract", "enqueue"} => mInputQueue # <<>>

\* Where the thread has seen the end, and then the input queue empty, the
\* client adds nothing.
EndInv ==
  /\ dpc \in {"empty", "sendEnd", "drain"} => mInputEos
  /\ dpc \in {"sendEnd", "drain"} => mInputQueue = <<>>
  /\ draining => mInputEos /\ mInputQueue = <<>>

ControlInv == Flags /\ Places /\ ThreadInv /\ HoldInv /\ EndInv

LEMMA FlagsStep ==
  ASSUME Flags, Next
  PROVE  Flags'
<1> USE DEF Flags, queues, flags, context, thread, client, history,
            ClientAt, ClientAndThreadAt, QueuesUnchanged, NothingElse, Start
<1>1. CASE Loop \/ Awakes
  BY <1>1 DEF Loop, Awakes, AnswersPause, SeesPaused, FallsAsleep,
     CallsDecodeFunc, AppliesTryPause, Goes, ThreadOnly, StillTheSame
<1>2. CASE DecodeFunc
  BY <1>2 DEF DecodeFunc, SeeDecoderEos, SeeWork, ExtractDecoder, EnqueueDecoder,
     SeeInputEos, SeeInputEmpty, SendEosToDecoder, Looks, Goes, ThreadOnly,
     StillTheSame, CodecSend, CodecReceive
<1>3. CASE Open \/ Resume \/ PrePause
  BY <1>3 DEF Open, Resume, PrePause
<1>4. CASE \E kind \in Kinds : SendAfterTheEnd(kind) \/ SendHeld(kind)
                                 \/ SendPacket(kind)
  BY <1>4 DEF SendAfterTheEnd, SendHeld, SendPacket, Sends, LooksAtKey, NoneKept
<1>5. CASE SendRefused \/ SendTheEnd \/ GetFrame
  BY <1>5 DEF SendRefused, SendTheEnd, GetFrame, Sends, LooksAtKey,
     ClientFlagsUnchanged
<1>6. CASE \E o \in Ops : StopRunning(o)
  BY <1>6 DEF StopRunning
<1>7. CASE InsideCall
  BY <1>7 DEF InsideCall, FlushForHeldKey, Enqueue, GetFrameLooksAtEos,
     PauseThread, ThreadIsPaused, PauseEnds, HoldOnEnds, FlushEnds, CloseEnds,
     Returns, Emptied, NoneKept, FlushDecoder, CloseDecoder, ClientFlagsUnchanged
<1> QED
  BY <1>1, <1>2, <1>3, <1>4, <1>5, <1>6, <1>7 DEF Next, Client, DecodeThread

LEMMA PlacesStep ==
  ASSUME Places, Next
  PROVE  Places'
<1> USE DEF Places, AllOps, Calls, queues, flags, context, thread, client, history,
            ClientAt, ClientAndThreadAt, QueuesUnchanged, NothingElse, Start
<1>1. CASE Loop \/ Awakes
  BY <1>1 DEF Loop, Awakes, AnswersPause, SeesPaused, FallsAsleep,
     CallsDecodeFunc, AppliesTryPause, Goes, ThreadOnly, StillTheSame
<1>2. CASE DecodeFunc
  BY <1>2 DEF DecodeFunc, SeeDecoderEos, SeeWork, ExtractDecoder, EnqueueDecoder,
     SeeInputEos, SeeInputEmpty, SendEosToDecoder, Looks, Goes, ThreadOnly,
     StillTheSame, CodecSend, CodecReceive
<1>3. CASE Open \/ Resume \/ PrePause
  BY <1>3 DEF Open, Resume, PrePause
<1>4. CASE \E kind \in Kinds : SendAfterTheEnd(kind) \/ SendHeld(kind)
                                 \/ SendPacket(kind)
  BY <1>4 DEF SendAfterTheEnd, SendHeld, SendPacket, Sends, LooksAtKey, NoneKept
<1>5. CASE SendRefused \/ SendTheEnd \/ GetFrame
  BY <1>5 DEF SendRefused, SendTheEnd, GetFrame, Sends, LooksAtKey,
     ClientFlagsUnchanged
<1>6. CASE \E o \in Ops : StopRunning(o)
  BY <1>6 DEF StopRunning
<1>7. CASE InsideCall
  BY <1>7 DEF InsideCall, FlushForHeldKey, Enqueue, GetFrameLooksAtEos,
     PauseThread, ThreadIsPaused, PauseEnds, HoldOnEnds, FlushEnds, CloseEnds,
     Returns, Emptied, NoneKept, FlushDecoder, CloseDecoder, ClientFlagsUnchanged
<1> QED
  BY <1>1, <1>2, <1>3, <1>4, <1>5, <1>6, <1>7 DEF Next, Client, DecodeThread

LEMMA ThreadStep ==
  ASSUME Flags, Places, ThreadInv, HoldInv, Next
  PROVE  ThreadInv'
<1> USE DEF Flags, Places, ThreadInv, HoldInv, InDecodeFunc, queues, flags, context, thread, client, history
<1>1. CASE AnswersPause
  BY <1>1 DEF AnswersPause, Goes, ThreadOnly, StillTheSame
<1>2. CASE SeesPaused
  BY <1>2 DEF SeesPaused, Goes, ThreadOnly, StillTheSame
<1>3. CASE FallsAsleep
  BY <1>3 DEF FallsAsleep, Goes, ThreadOnly, StillTheSame
<1>4. CASE Awakes
  BY <1>4 DEF Awakes, Goes, ThreadOnly, StillTheSame
<1>5. CASE CallsDecodeFunc
  BY <1>5 DEF CallsDecodeFunc, Goes, ThreadOnly, StillTheSame
<1>6. CASE AppliesTryPause
  BY <1>6 DEF AppliesTryPause, Goes, ThreadOnly, StillTheSame
<1>7. CASE SeeDecoderEos
  BY <1>7 DEF SeeDecoderEos, Looks, Goes, ThreadOnly, StillTheSame
<1>8. CASE SeeWork
  BY <1>8 DEF SeeWork, Looks, Goes, ThreadOnly, StillTheSame
<1>9. CASE SeeInputEos
  BY <1>9 DEF SeeInputEos, Looks, Goes, ThreadOnly, StillTheSame
<1>10. CASE SeeInputEmpty
  BY <1>10 DEF SeeInputEmpty, Looks, Goes, ThreadOnly, StillTheSame
<1>11. CASE ExtractDecoder("extract", "enqueue")
  BY <1>11 DEF ExtractDecoder, CodecReceive, Goes, ThreadOnly
<1>12. CASE ExtractDecoder("drain", "try")
  BY <1>12 DEF ExtractDecoder, CodecReceive, Goes, ThreadOnly
<1>13. CASE EnqueueDecoder
  BY <1>13 DEF EnqueueDecoder, CodecSend, NoPacket, Goes, ThreadOnly
<1>14. CASE SendEosToDecoder
  BY <1>14 DEF SendEosToDecoder, CodecSend, NoPacket, Goes, ThreadOnly
<1>15. CASE Open
  BY <1>15 DEF Open, Start, QueuesUnchanged
<1>16. CASE Resume
  BY <1>16 DEF Resume, Start, NothingElse, QueuesUnchanged, ClientAndThreadAt
<1>17. CASE PrePause
  BY <1>17 DEF PrePause, NothingElse, QueuesUnchanged, ClientAt, ClientAndThreadAt
<1>18. CASE \E kind \in Kinds : SendAfterTheEnd(kind)
  BY <1>18 DEF SendAfterTheEnd, QueuesUnchanged, Sends, LooksAtKey, NoneKept, ClientAt, ClientAndThreadAt
<1>19. CASE \E kind \in Kinds : SendHeld(kind)
  BY <1>19 DEF SendHeld, Sends, LooksAtKey, NoneKept, ClientAt, ClientAndThreadAt
<1>20. CASE \E kind \in Kinds : SendPacket(kind)
  BY <1>20 DEF SendPacket, QueuesUnchanged, Sends, LooksAtKey, NoneKept, ClientAt, ClientAndThreadAt
<1>21. CASE SendRefused
  BY <1>21 DEF SendRefused, QueuesUnchanged, Sends, LooksAtKey, NoneKept, ClientAt, ClientAndThreadAt
<1>22. CASE SendTheEnd
  BY <1>22 DEF SendTheEnd, QueuesUnchanged, ClientAt, ClientAndThreadAt
<1>23. CASE GetFrame
  BY <1>23 DEF GetFrame, ClientFlagsUnchanged, ClientAt, ClientAndThreadAt
<1>24. CASE \E o \in Ops : StopRunning(o)
  BY <1>24 DEF StopRunning, NothingElse, QueuesUnchanged, ClientAt, ClientAndThreadAt
<1>25. CASE FlushForHeldKey
  BY <1>25 DEF FlushForHeldKey, FlushDecoder, ClientAt, ClientAndThreadAt
<1>26. CASE Enqueue
  BY <1>26 DEF Enqueue, ClientAt, ClientAndThreadAt
<1>27. CASE GetFrameLooksAtEos
  BY <1>27 DEF GetFrameLooksAtEos, ClientFlagsUnchanged, ClientAt, ClientAndThreadAt
<1>28. CASE PauseThread
  BY <1>28 DEF PauseThread, NothingElse, QueuesUnchanged, ClientAt, ClientAndThreadAt
<1>29. CASE ThreadIsPaused
  BY <1>29 DEF ThreadIsPaused, NothingElse, QueuesUnchanged, ClientAt, ClientAndThreadAt
<1>30. CASE PauseEnds
  BY <1>30 DEF PauseEnds, Returns, NothingElse, QueuesUnchanged, ClientAt, ClientAndThreadAt
<1>31. CASE HoldOnEnds
  BY <1>31 DEF HoldOnEnds, Start, Returns, ClientAndThreadAt
<1>32. CASE FlushEnds
  BY <1>32 DEF FlushEnds, FlushDecoder, Emptied, Start, Returns, NoneKept
<1>33. CASE CloseEnds
  BY <1>33 DEF CloseEnds, CloseDecoder, Emptied, Returns, NothingElse, ClientAt, ClientAndThreadAt
<1> QED
  BY <1>1, <1>2, <1>3, <1>4, <1>5, <1>6, <1>7, <1>8, <1>9, <1>10, <1>11, <1>12, <1>13, <1>14, <1>15, <1>16, <1>17, <1>18, <1>19, <1>20, <1>21, <1>22, <1>23, <1>24, <1>25, <1>26, <1>27, <1>28, <1>29, <1>30, <1>31, <1>32, <1>33
  DEF Next, Client, DecodeThread, DecodeFunc, Loop, InsideCall

LEMMA SentIsAnId ==
  ASSUME QueueTypes, QueueSizes, InHand
  PROVE  sent \in Id /\ mInputQueue \in Seq(Id)
BY LenProperties DEF QueueTypes, QueueSizes, sent, Id

LEMMA HeadIsAPacket ==
  ASSUME QueueTypes, mInputQueue # <<>>
  PROVE  Head(mInputQueue) # NoPacket
BY TailProperties DEF QueueTypes, Id, NoPacket

LEMMA HoldStep ==
  ASSUME QueueTypes, QueueSizes, ControlInv, Next
  PROVE  HoldInv'
<1> USE DEF ControlInv, Flags, Places, ThreadInv, HoldInv, EndInv, InDecodeFunc, queues, flags, context, thread, client, history
<1>1. CASE AnswersPause
  BY <1>1 DEF AnswersPause, Goes, ThreadOnly, StillTheSame
<1>2. CASE SeesPaused
  BY <1>2 DEF SeesPaused, Goes, ThreadOnly, StillTheSame
<1>3. CASE FallsAsleep
  BY <1>3 DEF FallsAsleep, Goes, ThreadOnly, StillTheSame
<1>4. CASE Awakes
  BY <1>4 DEF Awakes, Goes, ThreadOnly, StillTheSame
<1>5. CASE CallsDecodeFunc
  BY <1>5 DEF CallsDecodeFunc, Goes, ThreadOnly, StillTheSame
<1>6. CASE AppliesTryPause
  BY <1>6 DEF AppliesTryPause, Goes, ThreadOnly, StillTheSame
<1>7. CASE SeeDecoderEos
  BY <1>7 DEF SeeDecoderEos, Looks, Goes, ThreadOnly, StillTheSame
<1>8. CASE SeeWork
  BY <1>8 DEF SeeWork, Looks, Goes, ThreadOnly, StillTheSame
<1>9. CASE SeeInputEos
  BY <1>9 DEF SeeInputEos, Looks, Goes, ThreadOnly, StillTheSame
<1>10. CASE SeeInputEmpty
  BY <1>10 DEF SeeInputEmpty, Looks, Goes, ThreadOnly, StillTheSame
<1>11. CASE ExtractDecoder("extract", "enqueue")
  BY <1>11 DEF ExtractDecoder, CodecReceive, Goes, ThreadOnly
<1>12. CASE ExtractDecoder("drain", "try")
  BY <1>12 DEF ExtractDecoder, CodecReceive, Goes, ThreadOnly
<1>13. CASE EnqueueDecoder
  BY <1>13 DEF EnqueueDecoder, CodecSend, NoPacket, Goes, ThreadOnly
<1>14. CASE SendEosToDecoder
  BY <1>14 DEF SendEosToDecoder, CodecSend, NoPacket, Goes, ThreadOnly
<1>15. CASE Open
  BY <1>15 DEF Open, Start, QueuesUnchanged
<1>16. CASE Resume
  BY <1>16 DEF Resume, Start, NothingElse, QueuesUnchanged, ClientAndThreadAt
<1>17. CASE PrePause
  BY <1>17 DEF PrePause, NothingElse, QueuesUnchanged, ClientAt, ClientAndThreadAt
<1>18. CASE \E kind \in Kinds : SendAfterTheEnd(kind)
  BY <1>18 DEF SendAfterTheEnd, QueuesUnchanged, Sends, LooksAtKey, NoneKept, ClientAt, ClientAndThreadAt
<1>19. CASE \E kind \in Kinds : SendHeld(kind)
  BY <1>19 DEF SendHeld, Sends, LooksAtKey, NoneKept, ClientAt, ClientAndThreadAt
<1>20. CASE \E kind \in Kinds : SendPacket(kind)
  BY <1>20 DEF SendPacket, QueuesUnchanged, Sends, LooksAtKey, NoneKept, ClientAt, ClientAndThreadAt
<1>21. CASE SendRefused
  BY <1>21 DEF SendRefused, QueuesUnchanged, Sends, LooksAtKey, NoneKept, ClientAt, ClientAndThreadAt
<1>22. CASE SendTheEnd
  BY <1>22 DEF SendTheEnd, QueuesUnchanged, ClientAt, ClientAndThreadAt
<1>23. CASE GetFrame
  BY <1>23 DEF GetFrame, ClientFlagsUnchanged, ClientAt, ClientAndThreadAt
<1>24. CASE \E o \in Ops : StopRunning(o)
  BY <1>24 DEF StopRunning, NothingElse, QueuesUnchanged, ClientAt, ClientAndThreadAt
<1>25. CASE FlushForHeldKey
  BY <1>25 DEF FlushForHeldKey, FlushDecoder, ClientAt, ClientAndThreadAt
<1>26. CASE Enqueue
  BY <1>26, SentIsAnId, AppendProperties DEF InHand, Enqueue, ClientAt, ClientAndThreadAt
<1>27. CASE GetFrameLooksAtEos
  BY <1>27 DEF GetFrameLooksAtEos, ClientFlagsUnchanged, ClientAt, ClientAndThreadAt
<1>28. CASE PauseThread
  BY <1>28 DEF PauseThread, NothingElse, QueuesUnchanged, ClientAt, ClientAndThreadAt
<1>29. CASE ThreadIsPaused
  BY <1>29 DEF ThreadIsPaused, NothingElse, QueuesUnchanged, ClientAt, ClientAndThreadAt
<1>30. CASE PauseEnds
  BY <1>30 DEF PauseEnds, Returns, NothingElse, QueuesUnchanged, ClientAt, ClientAndThreadAt
<1>31. CASE HoldOnEnds
  BY <1>31 DEF HoldOnEnds, Start, Returns, ClientAndThreadAt
<1>32. CASE FlushEnds
  BY <1>32 DEF FlushEnds, FlushDecoder, Emptied, Start, Returns, NoneKept
<1>33. CASE CloseEnds
  BY <1>33 DEF CloseEnds, CloseDecoder, Emptied, Returns, NothingElse, ClientAt, ClientAndThreadAt
<1> QED
  BY <1>1, <1>2, <1>3, <1>4, <1>5, <1>6, <1>7, <1>8, <1>9, <1>10, <1>11, <1>12, <1>13, <1>14, <1>15, <1>16, <1>17, <1>18, <1>19, <1>20, <1>21, <1>22, <1>23, <1>24, <1>25, <1>26, <1>27, <1>28, <1>29, <1>30, <1>31, <1>32, <1>33
  DEF Next, Client, DecodeThread, DecodeFunc, Loop, InsideCall

LEMMA EndStep ==
  ASSUME QueueTypes, QueueSizes, ControlInv, Next
  PROVE  EndInv'
<1> USE DEF ControlInv, Flags, Places, ThreadInv, HoldInv, EndInv, InDecodeFunc, queues, flags, context, thread, client, history
<1>1. CASE AnswersPause
  BY <1>1 DEF AnswersPause, Goes, ThreadOnly, StillTheSame
<1>2. CASE SeesPaused
  BY <1>2 DEF SeesPaused, Goes, ThreadOnly, StillTheSame
<1>3. CASE FallsAsleep
  BY <1>3 DEF FallsAsleep, Goes, ThreadOnly, StillTheSame
<1>4. CASE Awakes
  BY <1>4 DEF Awakes, Goes, ThreadOnly, StillTheSame
<1>5. CASE CallsDecodeFunc
  BY <1>5 DEF CallsDecodeFunc, Goes, ThreadOnly, StillTheSame
<1>6. CASE AppliesTryPause
  BY <1>6 DEF AppliesTryPause, Goes, ThreadOnly, StillTheSame
<1>7. CASE SeeDecoderEos
  BY <1>7 DEF SeeDecoderEos, Looks, Goes, ThreadOnly, StillTheSame
<1>8. CASE SeeWork
  BY <1>8 DEF SeeWork, Looks, Goes, ThreadOnly, StillTheSame
<1>9. CASE SeeInputEos
  BY <1>9 DEF SeeInputEos, Looks, Goes, ThreadOnly, StillTheSame
<1>10. CASE SeeInputEmpty
  BY <1>10 DEF SeeInputEmpty, Looks, Goes, ThreadOnly, StillTheSame
<1>11. CASE ExtractDecoder("extract", "enqueue")
  BY <1>11 DEF ExtractDecoder, CodecReceive, Goes, ThreadOnly
<1>12. CASE ExtractDecoder("drain", "try")
  BY <1>12 DEF ExtractDecoder, CodecReceive, Goes, ThreadOnly
<1>13. CASE EnqueueDecoder
  BY <1>13, HeadIsAPacket DEF EnqueueDecoder, CodecSend, NoPacket, Goes, ThreadOnly
<1>14. CASE SendEosToDecoder
  BY <1>14 DEF SendEosToDecoder, CodecSend, NoPacket, Goes, ThreadOnly
<1>15. CASE Open
  BY <1>15 DEF Open, Start, QueuesUnchanged
<1>16. CASE Resume
  BY <1>16 DEF Resume, Start, NothingElse, QueuesUnchanged, ClientAndThreadAt
<1>17. CASE PrePause
  BY <1>17 DEF PrePause, NothingElse, QueuesUnchanged, ClientAt, ClientAndThreadAt
<1>18. CASE \E kind \in Kinds : SendAfterTheEnd(kind)
  BY <1>18 DEF SendAfterTheEnd, QueuesUnchanged, Sends, LooksAtKey, NoneKept, ClientAt, ClientAndThreadAt
<1>19. CASE \E kind \in Kinds : SendHeld(kind)
  BY <1>19 DEF SendHeld, Sends, LooksAtKey, NoneKept, ClientAt, ClientAndThreadAt
<1>20. CASE \E kind \in Kinds : SendPacket(kind)
  BY <1>20 DEF SendPacket, QueuesUnchanged, Sends, LooksAtKey, NoneKept, ClientAt, ClientAndThreadAt
<1>21. CASE SendRefused
  BY <1>21 DEF SendRefused, QueuesUnchanged, Sends, LooksAtKey, NoneKept, ClientAt, ClientAndThreadAt
<1>22. CASE SendTheEnd
  BY <1>22 DEF SendTheEnd, QueuesUnchanged, ClientAt, ClientAndThreadAt
<1>23. CASE GetFrame
  BY <1>23 DEF GetFrame, ClientFlagsUnchanged, ClientAt, ClientAndThreadAt
<1>24. CASE \E o \in Ops : StopRunning(o)
  BY <1>24 DEF StopRunning, NothingElse, QueuesUnchanged, ClientAt, ClientAndThreadAt
<1>25. CASE FlushForHeldKey
  BY <1>25 DEF FlushForHeldKey, FlushDecoder, ClientAt, ClientAndThreadAt
<1>26. CASE Enqueue
  BY <1>26 DEF Enqueue, ClientAt, ClientAndThreadAt
<1>27. CASE GetFrameLooksAtEos
  BY <1>27 DEF GetFrameLooksAtEos, ClientFlagsUnchanged, ClientAt, ClientAndThreadAt
<1>28. CASE PauseThread
  BY <1>28 DEF PauseThread, NothingElse, QueuesUnchanged, ClientAt, ClientAndThreadAt
<1>29. CASE ThreadIsPaused
  BY <1>29 DEF ThreadIsPaused, NothingElse, QueuesUnchanged, ClientAt, ClientAndThreadAt
<1>30. CASE PauseEnds
  BY <1>30 DEF PauseEnds, Returns, NothingElse, QueuesUnchanged, ClientAt, ClientAndThreadAt
<1>31. CASE HoldOnEnds
  BY <1>31 DEF HoldOnEnds, Start, Returns, ClientAndThreadAt
<1>32. CASE FlushEnds
  BY <1>32 DEF FlushEnds, FlushDecoder, Emptied, Start, Returns, NoneKept
<1>33. CASE CloseEnds
  BY <1>33 DEF CloseEnds, CloseDecoder, Emptied, Returns, NothingElse, ClientAt, ClientAndThreadAt
<1> QED
  BY <1>1, <1>2, <1>3, <1>4, <1>5, <1>6, <1>7, <1>8, <1>9, <1>10, <1>11, <1>12, <1>13, <1>14, <1>15, <1>16, <1>17, <1>18, <1>19, <1>20, <1>21, <1>22, <1>23, <1>24, <1>25, <1>26, <1>27, <1>28, <1>29, <1>30, <1>31, <1>32, <1>33
  DEF Next, Client, DecodeThread, DecodeFunc, Loop, InsideCall


\* A packet is accepted only where there is room, and it stays.
LEMMA RoomStep ==
  ASSUME QueueTypes, QueueSizes, ControlInv, Next
  PROVE  at' = "enqueue" => Len(mInputQueue') < mMaxInQueueSize
<1> SUFFICES ASSUME at' = "enqueue"
             PROVE  Len(mInputQueue') < mMaxInQueueSize
  OBVIOUS
<1> USE DEF ClientAt, ClientAndThreadAt, QueuesUnchanged, queues, client
<1>1. CASE Loop \/ Awakes
  BY <1>1, LoopMoves DEF Still, queues, QueueSizes, Loop, Awakes, AnswersPause,
     SeesPaused, FallsAsleep, CallsDecodeFunc, AppliesTryPause, Goes, ThreadOnly
<1>2. CASE DecodeFunc
  <2>1. /\ at = "enqueue" /\ Len(mInputQueue) \in Nat
        /\ mInputQueue # <<>> => Len(Tail(mInputQueue)) = Len(mInputQueue) - 1
    BY <1>2, LenProperties, TailProperties DEF QueueTypes, DecodeFunc,
       SeeDecoderEos, SeeWork, SeeInputEos, SeeInputEmpty, ExtractDecoder,
       EnqueueDecoder, SendEosToDecoder, Looks, Goes, ThreadOnly
  <2>2. EnqueuesAPacket
    BY HeadIsAPacket DEF EnqueuesAPacket, ControlInv, HoldInv
  <2> QED
    BY <1>2, <2>1, <2>2, DecodeFuncMoves DEF QueueSizes, Still, FrameComesOut,
       FrameIsBad, PacketGoesIn, PacketIsRefused
<1>3. CASE \E kind \in Kinds : SendAfterTheEnd(kind) \/ SendHeld(kind)
                                 \/ SendPacket(kind)
  BY <1>3 DEF SendAfterTheEnd, SendHeld, SendPacket, Sends
<1>4. CASE \/ Open \/ SendRefused \/ SendTheEnd \/ GetFrame \/ Resume \/ PrePause
           \/ \E o \in Ops : StopRunning(o)
  BY <1>4 DEF Open, SendRefused, SendTheEnd, GetFrame, Resume, PrePause,
     StopRunning, Sends
<1>5. CASE InsideCall
  BY <1>5 DEF InsideCall, FlushForHeldKey, Enqueue, GetFrameLooksAtEos,
     PauseThread, ThreadIsPaused, PauseEnds, HoldOnEnds, FlushEnds, CloseEnds
<1> QED
  BY <1>1, <1>2, <1>3, <1>4, <1>5 DEF Next, Client, DecodeThread

-----------------------------------------------------------------------------
(***************************************************************************)
(* The first layer: types, sizes and control together are inductive.       *)
(***************************************************************************)
ShapeInv == QueueTypes /\ QueueSizes /\ ControlInv

LEMMA ShapeInit == Init => ShapeInv
<1> SUFFICES ASSUME Init
             PROVE  ShapeInv
  OBVIOUS
<1>1. QueueTypes /\ QueueSizes
  BY EmptySeq DEF Init, QueueTypes, QueueSizes, InHand, sent
<1>2. Flags
  BY DEF Init, Flags
<1>3. Places
  BY DEF Init, Places
<1>4. ThreadInv /\ HoldInv /\ EndInv
  BY DEF Init, ThreadInv, HoldInv, EndInv, InDecodeFunc
<1> QED
  BY <1>1, <1>2, <1>3, <1>4 DEF ShapeInv, ControlInv

LEMMA ShapeStep ==
  ASSUME ShapeInv, Next
  PROVE  ShapeInv' /\ Moves
<1> USE DEF ShapeInv
<1>1. EnqueuesAPacket
  BY HeadIsAPacket DEF EnqueuesAPacket, ControlInv, HoldInv
<1>2. Moves
  BY <1>1, EveryStepMoves
<1>3. QueueTypes' /\ QueueSizes'
  BY <1>2, QueueTypesStep, QueueSizesStep, RoomStep
<1>4. ControlInv'
  BY FlagsStep, PlacesStep, ThreadStep, HoldStep, EndStep DEF ControlInv
<1> QED
  BY <1>2, <1>3, <1>4

LEMMA ShapeStutters ==
  ASSUME ShapeInv, UNCHANGED vars
  PROVE  ShapeInv'
<1> USE DEF vars, queues, flags, context, thread, client, history
<1>1. QueueTypes' /\ QueueSizes'
  BY DEF ShapeInv, QueueTypes, QueueSizes, InHand, sent
<1>2. ControlInv'
  BY DEF ShapeInv, ControlInv, Flags, Places, ThreadInv, HoldInv, EndInv
<1> QED
  BY <1>1, <1>2 DEF ShapeInv

LEMMA ShapeAlways == Spec => []ShapeInv
<1>1. ShapeInv /\ [Next]_vars => ShapeInv'
  BY ShapeStep, ShapeStutters
<1> QED
  BY <1>1, ShapeInit, PTL DEF Spec

-----------------------------------------------------------------------------
(***************************************************************************)
(* The second layer: the packets' order.  Their numbers are in the queues  *)
(* in the order of sending, one queue behind the other; the packet in the  *)
(* client's hands is the last.  Every number is somewhere or gone, never   *)
(* both, and what is inside is newer than the last flush().                *)
(***************************************************************************)
Hand == IF InHand THEN {sent} ELSE {}

Waiting == ToSet(mInputQueue) \cup ToSet(mHoldingQueue) \cup Hand

Inside == ToSet(mOutputQueue) \cup ToSet(codec) \cup Waiting

EachSorted ==
  /\ Sorted(got) /\ Sorted(mOutputQueue) /\ Sorted(codec)
  /\ Sorted(mInputQueue) /\ Sorted(mHoldingQueue)

OneBehindTheOther ==
  /\ Before(ToSet(mHoldingQueue), Hand)
  /\ Before(ToSet(mInputQueue), ToSet(mHoldingQueue) \cup Hand)
  /\ Before(ToSet(codec), Waiting)
  /\ Before(ToSet(mOutputQueue), ToSet(codec) \cup Waiting)
  /\ Before(ToSet(got), Inside)

AllSomewhere ==
  /\ (ToSet(got) \cup Inside) \cap gone = {}
  /\ ToSet(got) \cup Inside \cup gone = 1 .. sent

NewerThanFlush ==
  /\ flushed \in 0 .. sent
  /\ \A id \in Inside : id > flushed

OrderInv == EachSorted /\ OneBehindTheOther /\ AllSomewhere /\ NewerThanFlush

LEMMA BeforeIsApart ==
  ASSUME NEW S \in SUBSET Nat, NEW T, Before(S, T)
  PROVE  S \cap T = {}
<1> SUFFICES ASSUME NEW x \in S, x \in T
             PROVE  FALSE
  OBVIOUS
<1>1. x \in Nat /\ x < x
  BY DEF Before
<1> QED
  BY <1>1

LEMMA OrderInit == Init => OrderInv
BY SetOfEmpty, SortedEmpty
   DEF Init, OrderInv, EachSorted, OneBehindTheOther, AllSomewhere,
   NewerThanFlush, Inside, Waiting, Hand, InHand, Before, sent

LEMMA OrderStep ==
  ASSUME QueueTypes, QueueSizes, HoldInv, OrderInv, Moves
  PROVE  OrderInv'
<1> USE DEF OrderInv, QueueTypes, queues, history
<1> DEFINE O == ToSet(mOutputQueue)
           C == ToSet(codec)
           I == ToSet(mInputQueue)
           H == ToSet(mHoldingQueue)
           G == ToSet(got)
<1>1. /\ sent \in Nat /\ Id \subseteq Nat /\ <<>> \in Seq(Id)
      /\ InHand => sent \in Id
      /\ sent < MaxPackets => sent + 1 \in Id
  BY LenProperties, EmptySeq DEF QueueSizes, Id, sent
<1>a. /\ O \subseteq Id /\ C \subseteq Id /\ I \subseteq Id /\ H \subseteq Id
      /\ G \subseteq Id
  BY SetOfSeq
<1>b. flushed \in Nat /\ Hand \subseteq Id
  BY <1>1 DEF NewerThanFlush, Hand
<1>c. /\ H \cap Hand = {} /\ I \cap (H \cup Hand) = {} /\ C \cap Waiting = {}
      /\ O \cap (C \cup Waiting) = {} /\ G \cap Inside = {}
  BY <1>1, <1>a, BeforeIsApart DEF OneBehindTheOther
<1> USE DEF EachSorted, OneBehindTheOther, AllSomewhere, NewerThanFlush, Inside, Waiting
<1>2. CASE Still
  <2>1. Hand' = Hand
    BY <1>2 DEF Still, SameHand, InHand, Hand, sent
  <2> QED
    BY <1>2, <2>1 DEF Still, sent
<1>3. CASE FrameComesOut
  <2>1. Hand' = Hand /\ sent' = sent
    BY <1>3 DEF FrameComesOut, SameHand, InHand, Hand, sent
  <2> DEFINE h == Head(codec)
  <2>2. /\ C = {h} \cup ToSet(Tail(codec)) /\ h \in Id
        /\ Sorted(Tail(codec)) /\ Before({h}, ToSet(Tail(codec)))
    BY <1>3, SetOfTail, SortedTail, TailProperties DEF FrameComesOut
  <2>3. ToSet(mOutputQueue') = O \cup {h} /\ Sorted(mOutputQueue')
    BY <1>3, <2>2, SetOfAppend, SortedAppend DEF FrameComesOut, Before
  <2>4. ToSet(codec') = ToSet(Tail(codec))
    BY <1>3 DEF FrameComesOut
  <2>5. EachSorted'
    BY <1>3, <2>2, <2>3 DEF FrameComesOut
  <2>6. OneBehindTheOther'
    BY <1>3, <2>1, <2>2, <2>3, <2>4 DEF FrameComesOut, Before
  <2>7. AllSomewhere' /\ NewerThanFlush'
    BY <1>3, <2>1, <2>2, <2>3, <2>4 DEF FrameComesOut
  <2> QED
    BY <2>5, <2>6, <2>7
<1>4. CASE FrameIsBad
  <2>1. Hand' = Hand /\ sent' = sent
    BY <1>4 DEF FrameIsBad, SameHand, InHand, Hand, sent
  <2> DEFINE h == Head(codec)
  <2>2. /\ C = {h} \cup ToSet(Tail(codec)) /\ h \in Id
        /\ Sorted(Tail(codec)) /\ Before({h}, ToSet(Tail(codec)))
    BY <1>4, SetOfTail, SortedTail, TailProperties DEF FrameIsBad
  <2>3. h \notin G \cup O \cup ToSet(Tail(codec)) \cup Waiting
    <3>1. h \notin ToSet(Tail(codec))
      <4> SUFFICES ASSUME h \in ToSet(Tail(codec))
                   PROVE  FALSE
        OBVIOUS
      <4>1. h \in Nat /\ h < h
        BY <1>1, <2>2 DEF Before
      <4> QED
        BY <4>1
    <3> QED
      BY <1>c, <2>2, <3>1
  <2>4. ToSet(codec') = ToSet(Tail(codec))
    BY <1>4 DEF FrameIsBad
  <2>5. EachSorted'
    BY <1>4, <2>2 DEF FrameIsBad
  <2>6. OneBehindTheOther'
    BY <1>4, <2>1, <2>2, <2>4 DEF FrameIsBad, Before
  <2>7. AllSomewhere' /\ NewerThanFlush'
    BY <1>4, <2>1, <2>2, <2>3, <2>4 DEF FrameIsBad
  <2> QED
    BY <2>5, <2>6, <2>7
<1>5. CASE PacketGoesIn
  <2>1. Hand' = Hand /\ sent' = sent
    BY <1>5 DEF PacketGoesIn, SameHand, InHand, Hand, sent
  <2> DEFINE h == Head(mInputQueue)
  <2>2. /\ I = {h} \cup ToSet(Tail(mInputQueue)) /\ h \in Id
        /\ Sorted(Tail(mInputQueue)) /\ Before({h}, ToSet(Tail(mInputQueue)))
    BY <1>5, SetOfTail, SortedTail, TailProperties DEF PacketGoesIn
  <2>3. ToSet(codec') = C \cup {h} /\ Sorted(codec')
    BY <1>5, <2>2, SetOfAppend, SortedAppend DEF PacketGoesIn, Before
  <2>4. ToSet(mInputQueue') = ToSet(Tail(mInputQueue))
    BY <1>5 DEF PacketGoesIn
  <2>5. EachSorted'
    BY <1>5, <2>2, <2>3 DEF PacketGoesIn
  <2>6. OneBehindTheOther'
    BY <1>5, <2>1, <2>2, <2>3, <2>4 DEF PacketGoesIn, Before
  <2>7. AllSomewhere' /\ NewerThanFlush'
    BY <1>5, <2>1, <2>2, <2>3, <2>4 DEF PacketGoesIn
  <2> QED
    BY <2>5, <2>6, <2>7
<1>6. CASE PacketIsRefused
  <2>1. Hand' = Hand /\ sent' = sent
    BY <1>6 DEF PacketIsRefused, SameHand, InHand, Hand, sent
  <2> DEFINE h == Head(mInputQueue)
  <2>2. /\ I = {h} \cup ToSet(Tail(mInputQueue)) /\ h \in Id
        /\ Sorted(Tail(mInputQueue)) /\ Before({h}, ToSet(Tail(mInputQueue)))
    BY <1>6, SetOfTail, SortedTail, TailProperties DEF PacketIsRefused
  <2>3. h \notin G \cup O \cup C \cup ToSet(Tail(mInputQueue)) \cup H \cup Hand
    <3>1. h \notin ToSet(Tail(mInputQueue))
      <4> SUFFICES ASSUME h \in ToSet(Tail(mInputQueue))
                   PROVE  FALSE
        OBVIOUS
      <4>1. h \in Nat /\ h < h
        BY <1>1, <2>2 DEF Before
      <4> QED
        BY <4>1
    <3> QED
      BY <1>c, <2>2, <3>1
  <2>4. ToSet(mInputQueue') = ToSet(Tail(mInputQueue))
    BY <1>6 DEF PacketIsRefused
  <2>5. EachSorted'
    BY <1>6, <2>2 DEF PacketIsRefused
  <2>6. OneBehindTheOther'
    BY <1>6, <2>1, <2>2, <2>4 DEF PacketIsRefused, Before
  <2>7. AllSomewhere' /\ NewerThanFlush'
    BY <1>6, <2>1, <2>2, <2>3, <2>4 DEF PacketIsRefused
  <2> QED
    BY <2>5, <2>6, <2>7
<1>7. ASSUME NEW kind \in Kinds, sent < MaxPackets, kinds' = Append(kinds, kind)
      PROVE  /\ sent' = sent + 1 /\ sent + 1 \in Nat
             /\ 1 .. sent' = 1 .. sent \cup {sent + 1}
             /\ \A x \in 1 .. sent : x < sent + 1
             /\ flushed < sent + 1
  BY <1>1, <1>7, AppendProperties DEF sent
<1>8. CASE \E kind \in Kinds : PacketIsSent(kind)
  <2>1. PICK kind \in Kinds : PacketIsSent(kind)
    BY <1>8
  <2>2. Hand = {} /\ Hand' = {sent + 1} /\ sent' = sent + 1
    BY <2>1, <1>7 DEF PacketIsSent, Hand, InHand
  <2>3. EachSorted'
    BY <2>1 DEF PacketIsSent
  <2>4. OneBehindTheOther'
    BY <2>1, <2>2, <1>7 DEF PacketIsSent, Before
  <2>5. AllSomewhere' /\ NewerThanFlush'
    BY <2>1, <2>2, <1>1, <1>7 DEF PacketIsSent
  <2> QED
    BY <2>3, <2>4, <2>5
<1>9. CASE \E kind \in Kinds : PacketIsHeld(kind)
  <2>1. PICK kind \in Kinds : PacketIsHeld(kind)
    BY <1>9
  <2>2. Hand = {} /\ Hand' = {} /\ sent' = sent + 1
    BY <2>1, <1>7 DEF PacketIsHeld, Hand, InHand
  <2>3. sent + 1 \in Id /\ Before(H, {sent + 1})
    BY <2>1, <1>1, <1>7 DEF PacketIsHeld, Before
  <2>4. ToSet(mHoldingQueue') = H \cup {sent + 1} /\ Sorted(mHoldingQueue')
    BY <2>1, <2>3, SetOfAppend, SortedAppend DEF PacketIsHeld
  <2>5. EachSorted'
    BY <2>1, <2>4 DEF PacketIsHeld
  <2>6. OneBehindTheOther'
    BY <2>1, <2>2, <2>4, <1>7, SMTT(30) DEF PacketIsHeld, Before
  <2>7. AllSomewhere' /\ NewerThanFlush'
    BY <2>1, <2>2, <2>4, <1>1, <1>7 DEF PacketIsHeld
  <2> QED
    BY <2>5, <2>6, <2>7
<1>10. CASE \E kind \in Kinds : KeyReplacesHeld(kind)
  <2>1. PICK kind \in Kinds : KeyReplacesHeld(kind)
    BY <1>10
  <2>2. Hand = {} /\ Hand' = {sent + 1} /\ sent' = sent + 1
    BY <2>1, <1>7 DEF KeyReplacesHeld, Hand, InHand
  <2>3. ToSet(mHoldingQueue') = {} /\ Sorted(mHoldingQueue')
    BY <2>1, SetOfEmpty, SortedEmpty DEF KeyReplacesHeld
  <2>4. H \cap (G \cup O \cup C \cup I) = {}
    BY <1>c
  <2>5. EachSorted'
    BY <2>1, <2>3 DEF KeyReplacesHeld
  <2>6. Before(G \cup O \cup C \cup I, {sent + 1})
    BY <2>1, <1>7 DEF KeyReplacesHeld, Before
  <2>7. OneBehindTheOther'
    BY <2>1, <2>2, <2>3, <2>6 DEF KeyReplacesHeld, Before
  <2>8. AllSomewhere' /\ NewerThanFlush'
    BY <2>1, <2>2, <2>3, <2>4, <1>1, <1>7 DEF KeyReplacesHeld
  <2> QED
    BY <2>5, <2>7, <2>8
<1>11. CASE PacketIsQueued
  <2>1. Hand = {sent} /\ Hand' = {} /\ sent' = sent /\ sent \in Id
    BY <1>11, <1>1 DEF PacketIsQueued, Hand, InHand, sent
  <2>2. H = {}
    BY <1>11, SetOfEmpty DEF PacketIsQueued, HoldInv
  <2>3. ToSet(mInputQueue') = I \cup {sent} /\ Sorted(mInputQueue')
    BY <1>11, <2>1, SetOfAppend, SortedAppend DEF PacketIsQueued, Before
  <2>4. EachSorted'
    BY <1>11, <2>3 DEF PacketIsQueued
  <2>5. OneBehindTheOther'
    BY <1>11, <2>1, <2>2, <2>3 DEF PacketIsQueued, Before
  <2>6. AllSomewhere' /\ NewerThanFlush'
    BY <1>11, <2>1, <2>2, <2>3 DEF PacketIsQueued
  <2> QED
    BY <2>4, <2>5, <2>6
<1>12. CASE KeyIsHeld
  <2>1. Hand = {sent} /\ Hand' = {} /\ sent' = sent /\ sent \in Id
    BY <1>12, <1>1 DEF KeyIsHeld, Hand, InHand, sent
  <2>2. H = {} /\ ToSet(codec') = {} /\ Sorted(codec')
    BY <1>12, SetOfEmpty, SortedEmpty DEF KeyIsHeld, HoldInv
  <2>3. ToSet(mHoldingQueue') = {sent} /\ Sorted(mHoldingQueue')
    BY <1>12, SortedOne DEF KeyIsHeld, ToSet
  <2>4. C \cap (G \cup O \cup I \cup Hand) = {}
    BY <1>c
  <2>5. EachSorted'
    BY <1>12, <2>2, <2>3 DEF KeyIsHeld
  <2>6. OneBehindTheOther'
    BY <1>12, <2>1, <2>2, <2>3 DEF KeyIsHeld, Before
  <2>7. AllSomewhere' /\ NewerThanFlush'
    BY <1>12, <2>1, <2>2, <2>3, <2>4 DEF KeyIsHeld
  <2> QED
    BY <2>5, <2>6, <2>7
<1>13. CASE FrameIsTaken
  <2>1. Hand' = Hand /\ sent' = sent
    BY <1>13 DEF FrameIsTaken, SameHand, InHand, Hand, sent
  <2> DEFINE h == Head(mOutputQueue)
  <2>2. /\ O = {h} \cup ToSet(Tail(mOutputQueue)) /\ h \in Id
        /\ Sorted(Tail(mOutputQueue)) /\ Before({h}, ToSet(Tail(mOutputQueue)))
    BY <1>13, SetOfTail, SortedTail, TailProperties DEF FrameIsTaken
  <2>3. ToSet(got') = G \cup {h} /\ Sorted(got')
    BY <1>13, <2>2, SetOfAppend, SortedAppend DEF FrameIsTaken, Before
  <2>4. ToSet(mOutputQueue') = ToSet(Tail(mOutputQueue))
    BY <1>13 DEF FrameIsTaken
  <2>5. EachSorted'
    BY <1>13, <2>2, <2>3 DEF FrameIsTaken
  <2>6. OneBehindTheOther'
    BY <1>13, <2>1, <2>2, <2>3, <2>4 DEF FrameIsTaken, Before
  <2>7. AllSomewhere' /\ NewerThanFlush'
    BY <1>13, <2>1, <2>2, <2>3, <2>4 DEF FrameIsTaken
  <2> QED
    BY <2>5, <2>6, <2>7
<1>14. CASE InputIsHeld
  <2>1. Hand = {} /\ Hand' = {} /\ sent' = sent
    BY <1>14 DEF InputIsHeld, Hand, InHand, sent
  <2>2. /\ ToSet(mOutputQueue') = {} /\ ToSet(mInputQueue') = {}
        /\ Sorted(mOutputQueue') /\ Sorted(mInputQueue')
    BY <1>14, SetOfEmpty, SortedEmpty DEF InputIsHeld, Emptied
  <2>3. mHoldingQueue = <<>> \/ mInputQueue = <<>>
    BY DEF HoldInv
  <2>4. mHoldingQueue' = IF mInputQueue = <<>> THEN mHoldingQueue ELSE mInputQueue
    BY <1>14, <2>3, ConcatEmptySeq DEF InputIsHeld
  <2>5. ToSet(mHoldingQueue') = H \cup I /\ Sorted(mHoldingQueue')
    BY <2>3, <2>4, SetOfEmpty
  <2>6. O \cap (G \cup C \cup I \cup H) = {}
    BY <1>c
  <2>7. EachSorted'
    BY <1>14, <2>2, <2>5 DEF InputIsHeld
  <2>8. OneBehindTheOther'
    BY <1>14, <2>1, <2>2, <2>5 DEF InputIsHeld, Before
  <2>9. AllSomewhere' /\ NewerThanFlush'
    BY <1>14, <2>1, <2>2, <2>5, <2>6 DEF InputIsHeld
  <2> QED
    BY <2>7, <2>8, <2>9
<1>15. CASE AllIsDropped
  <2>1. Hand = {} /\ Hand' = {} /\ sent' = sent
    BY <1>15 DEF AllIsDropped, Hand, InHand, sent
  <2>2. /\ ToSet(mOutputQueue') = {} /\ ToSet(mInputQueue') = {}
        /\ ToSet(codec') = {} /\ ToSet(mHoldingQueue') = {}
    BY <1>15, SetOfEmpty DEF AllIsDropped, Emptied
  <2>3. gone' = gone \cup O \cup C \cup I \cup H
    <3>1. ToSet(mInputQueue \o mOutputQueue \o mHoldingQueue \o codec)
            = I \cup O \cup H \cup C
      BY SetOfConcat4
    <3> QED
      BY <1>15, <3>1 DEF AllIsDropped
  <2>4. G \cap (O \cup C \cup I \cup H) = {}
    BY <1>c
  <2>5. EachSorted'
    BY <1>15, SortedEmpty DEF AllIsDropped, Emptied
  <2>6. OneBehindTheOther'
    BY <1>15, <2>1, <2>2 DEF AllIsDropped, Before
  <2>7. AllSomewhere' /\ NewerThanFlush'
    BY <1>1, <1>15, <2>1, <2>2, <2>3, <2>4 DEF AllIsDropped
  <2> QED
    BY <2>5, <2>6, <2>7
<1>16. CASE AllIsFreed
  <2>1. Hand = {} /\ Hand' = {} /\ sent' = sent
    BY <1>16 DEF AllIsFreed, Hand, InHand, sent
  <2>2. /\ ToSet(mOutputQueue') = {} /\ ToSet(mInputQueue') = {}
        /\ ToSet(codec') = {}
    BY <1>16, SetOfEmpty DEF AllIsFreed, Emptied
  <2>3. gone' = gone \cup O \cup C \cup I
    <3>1. ToSet(mInputQueue \o mOutputQueue \o codec) = I \cup O \cup C
      BY SetOfConcat3
    <3> QED
      BY <1>16, <3>1 DEF AllIsFreed
  <2>4. (G \cup H) \cap (O \cup C \cup I) = {}
    BY <1>c
  <2>5. EachSorted'
    BY <1>16, SortedEmpty DEF AllIsFreed, Emptied
  <2>6. OneBehindTheOther'
    BY <1>16, <2>1, <2>2 DEF AllIsFreed, Before
  <2>7. AllSomewhere' /\ NewerThanFlush'
    BY <1>16, <2>1, <2>2, <2>3, <2>4 DEF AllIsFreed
  <2> QED
    BY <2>5, <2>6, <2>7
<1> QED
  BY <1>2, <1>3, <1>4, <1>5, <1>6, <1>8, <1>9, <1>10, <1>11, <1>12, <1>13, <1>14,
     <1>15, <1>16 DEF Moves

-----------------------------------------------------------------------------
(***************************************************************************)
(* The theorems on the decoder's queues and threads.                       *)
(***************************************************************************)
PipelineInv == ShapeInv /\ OrderInv

LEMMA PipelineAlways == Spec => []PipelineInv
<1>1. Init => PipelineInv
  BY ShapeInit, OrderInit DEF PipelineInv
<1>2. ASSUME PipelineInv, Next
      PROVE  PipelineInv'
  BY <1>2, ShapeStep, OrderStep DEF PipelineInv, ShapeInv, ControlInv
<1>3. ASSUME PipelineInv, UNCHANGED vars
      PROVE  PipelineInv'
  <2>1. ShapeInv'
    BY <1>3, ShapeStutters DEF PipelineInv
  <2>2. Moves
    BY <1>3 DEF vars, Moves, Still, SameHand, InHand, queues, context, client,
       history
  <2> QED
    BY <1>3, <2>1, <2>2, OrderStep DEF PipelineInv, ShapeInv, ControlInv
<1> QED
  BY <1>1, <1>2, <1>3, PTL DEF Spec

(***************************************************************************)
(* Every variable keeps its type; no queue, nor the codec, ever holds more *)
(* than its size although both threads look at a queue and change it       *)
(* later (SNActiveDecoder.cpp, sendPacket and extractDecoder).             *)
(***************************************************************************)
THEOREM DecoderTypeCorrect == Spec => []TypeOK
<1>1. PipelineInv => TypeOK
  <2> SUFFICES ASSUME PipelineInv
               PROVE  TypeOK
    OBVIOUS
  <2>1. QueueTypes /\ QueueSizes /\ Flags /\ Places
    BY DEF PipelineInv, ShapeInv, ControlInv
  <2>2. sent \in Nat /\ sent <= MaxPackets
    BY <2>1, LenProperties DEF QueueTypes, QueueSizes, sent
  <2>3. gone \subseteq Id /\ flushed \in 0 .. MaxPackets
    BY <2>2 DEF PipelineInv, OrderInv, AllSomewhere, NewerThanFlush, Id
  <2> QED
    BY <2>1, <2>3 DEF QueueTypes, QueueSizes, Flags, Places, TypeOK
<1> QED
  BY <1>1, PipelineAlways, PTL

(***************************************************************************)
(* The codec and the queues are never used by both threads: flush(),       *)
(* holdOn() and close() touch them only while the thread is outside        *)
(* decodeFunc, and so does the flush for a held key frame, without a pause.*)
(***************************************************************************)
THEOREM CodecNeverShared == Spec => []CodecIsUsedByOneThread
<1>1. ShapeInv => CodecIsUsedByOneThread
  <2> SUFFICES ASSUME ShapeInv
               PROVE  CodecIsUsedByOneThread
    OBVIOUS
  <2>1. Places /\ ThreadInv /\ HoldInv /\ EndInv
    BY DEF ShapeInv, ControlInv
  <2>2. at \in {"paused", "closed"}
          => dpc \in {"none", "top", "toSleep", "asleep", "try"}
    BY <2>1 DEF Places, ThreadInv, InDecodeFunc
  <2>3. at = "hold" => dpc \notin {"extract", "enqueue", "sendEnd", "drain"}
    BY <2>1 DEF HoldInv, EndInv
  <2> QED
    BY <2>2, <2>3 DEF CodecIsUsedByOneThread
<1> QED
  BY <1>1, ShapeAlways, PTL

(***************************************************************************)
(* The codec is sent the end only behind the last packet: decodeFunc reads *)
(* mInputEos before it sees the input queue empty, and the client fills    *)
(* the queue before it sets mInputEos.                                     *)
(***************************************************************************)
THEOREM EndBehindThePackets == Spec => []EndFollowsThePackets
<1>1. ShapeInv => EndFollowsThePackets
  BY DEF ShapeInv, ControlInv, HoldInv, EndInv, EndFollowsThePackets
<1> QED
  BY <1>1, ShapeAlways, PTL

LEMMA PipelineInOrder ==
  ASSUME PipelineInv
  PROVE  LET all == got \o InPipeline
         IN /\ InPipeline \in Seq(Id)
            /\ ToSet(InPipeline) = Inside
            /\ all \in Seq(Id) /\ Sorted(all)
            /\ ToSet(all) = ToSet(got) \cup Inside
<1> DEFINE one == IF at = "enqueue" \/ at = "hold" THEN <<sent>> ELSE <<>>
<1>1. /\ QueueTypes /\ EachSorted /\ OneBehindTheOther
      /\ InHand => sent \in Id
  BY SentIsAnId DEF PipelineInv, ShapeInv, OrderInv
<1>2. PICK hand \in Seq(Id) : /\ hand = one /\ Sorted(hand)
                              /\ ToSet(hand) = Hand
  <2>1. one \in Seq(Id) /\ ToSet(one) = Hand /\ Sorted(one)
    BY <1>1, EmptySeq, SetOfEmpty, SortedEmpty, SortedOne DEF InHand, Hand, ToSet
  <2> QED
    BY <2>1
<1>3. PICK p1 \in Seq(Id) : /\ p1 = mOutputQueue \o codec /\ Sorted(p1)
                            /\ ToSet(p1) = ToSet(mOutputQueue) \cup ToSet(codec)
  <2>1. Before(ToSet(mOutputQueue), ToSet(codec))
    BY <1>1 DEF OneBehindTheOther, Before
  <2>2. /\ mOutputQueue \in Seq(Id) /\ codec \in Seq(Id)
        /\ Sorted(mOutputQueue) /\ Sorted(codec)
    BY <1>1 DEF QueueTypes, EachSorted
  <2>3. /\ mOutputQueue \o codec \in Seq(Id) /\ Sorted(mOutputQueue \o codec)
        /\ ToSet(mOutputQueue \o codec) = ToSet(mOutputQueue) \cup ToSet(codec)
    BY ONLY <2>1, <2>2, Joined
  <2> QED
    BY <2>3
<1>4. PICK p2 \in Seq(Id) : /\ p2 = p1 \o mInputQueue /\ Sorted(p2)
                            /\ ToSet(p2) = ToSet(p1) \cup ToSet(mInputQueue)
  <2>1. Before(ToSet(p1), ToSet(mInputQueue))
    BY <1>1, <1>3 DEF OneBehindTheOther, Waiting, Before
  <2>2. /\ p1 \in Seq(Id) /\ mInputQueue \in Seq(Id)
        /\ Sorted(p1) /\ Sorted(mInputQueue)
    BY <1>1, <1>3 DEF QueueTypes, EachSorted
  <2>3. /\ p1 \o mInputQueue \in Seq(Id) /\ Sorted(p1 \o mInputQueue)
        /\ ToSet(p1 \o mInputQueue) = ToSet(p1) \cup ToSet(mInputQueue)
    BY ONLY <2>1, <2>2, Joined
  <2> QED
    BY <2>3
<1>5. PICK p3 \in Seq(Id) : /\ p3 = p2 \o mHoldingQueue /\ Sorted(p3)
                            /\ ToSet(p3) = ToSet(p2) \cup ToSet(mHoldingQueue)
  <2>1. Before(ToSet(p2), ToSet(mHoldingQueue))
    BY <1>1, <1>3, <1>4 DEF OneBehindTheOther, Waiting, Before
  <2>2. /\ p2 \in Seq(Id) /\ mHoldingQueue \in Seq(Id)
        /\ Sorted(p2) /\ Sorted(mHoldingQueue)
    BY <1>1, <1>4 DEF QueueTypes, EachSorted
  <2>3. /\ p2 \o mHoldingQueue \in Seq(Id) /\ Sorted(p2 \o mHoldingQueue)
        /\ ToSet(p2 \o mHoldingQueue) = ToSet(p2) \cup ToSet(mHoldingQueue)
    BY ONLY <2>1, <2>2, Joined
  <2> QED
    BY <2>3
<1>6. PICK p4 \in Seq(Id) : /\ p4 = p3 \o hand /\ Sorted(p4)
                            /\ ToSet(p4) = ToSet(p3) \cup ToSet(hand)
  <2>1. Before(ToSet(p3), ToSet(hand))
    BY <1>1, <1>2, <1>3, <1>4, <1>5 DEF OneBehindTheOther, Waiting, Before
  <2>2. /\ p3 \in Seq(Id) /\ hand \in Seq(Id)
        /\ Sorted(p3) /\ Sorted(hand)
    BY <1>2, <1>5
  <2>3. /\ p3 \o hand \in Seq(Id) /\ Sorted(p3 \o hand)
        /\ ToSet(p3 \o hand) = ToSet(p3) \cup ToSet(hand)
    BY ONLY <2>1, <2>2, Joined
  <2> QED
    BY <2>3
<1>7. p4 = InPipeline
  BY <1>2, <1>3, <1>4, <1>5, <1>6 DEF InPipeline
<1>8. ToSet(p4) = Inside
  BY <1>2, <1>3, <1>4, <1>5, <1>6 DEF Inside, Waiting
<1>9. PICK all \in Seq(Id) : /\ all = got \o p4 /\ Sorted(all)
                             /\ ToSet(all) = ToSet(got) \cup ToSet(p4)
  <2>1. Before(ToSet(got), ToSet(p4))
    BY <1>1, <1>8 DEF OneBehindTheOther
  <2>2. /\ got \in Seq(Id) /\ p4 \in Seq(Id)
        /\ Sorted(got) /\ Sorted(p4)
    BY <1>1, <1>6 DEF QueueTypes, EachSorted
  <2>3. /\ got \o p4 \in Seq(Id) /\ Sorted(got \o p4)
        /\ ToSet(got \o p4) = ToSet(got) \cup ToSet(p4)
    BY ONLY <2>1, <2>2, Joined
  <2> QED
    BY <2>3
<1> QED
  BY <1>7, <1>8, <1>9

(***************************************************************************)
(* Frames are taken once each and in the order of their packets, and every *)
(* packet accepted is given back, still on its way or dropped, never two   *)
(* of these.                                                               *)
(***************************************************************************)
THEOREM FramesStayInOrder == Spec => []FramesInOrderOnce
<1>1. PipelineInv => FramesInOrderOnce
  BY PipelineInOrder
     DEF PipelineInv, OrderInv, AllSomewhere, FramesInOrderOnce, Sorted
<1> QED
  BY <1>1, PipelineAlways, PTL

(***************************************************************************)
(* After flush() nothing of before is in the decoder or comes out of it,   *)
(* wherever the thread was when it was called.                             *)
(***************************************************************************)
THEOREM FlushLeavesNothing == Spec => []NothingOldAfterFlush
<1>1. PipelineInv => NothingOldAfterFlush
  BY PipelineInOrder
     DEF PipelineInv, OrderInv, NewerThanFlush, NothingOldAfterFlush
<1> QED
  BY <1>1, PipelineAlways, PTL

-----------------------------------------------------------------------------
(***************************************************************************)
(* The third layer: the key frames.  s is a sequence of packets, k the     *)
(* kinds of all packets so far.                                            *)
(***************************************************************************)
Known(s, k) == \A i \in DOMAIN s : s[i] \in DOMAIN k

KeysIn(s, k) ==
  \A i \in DOMAIN s :
    /\ k[s[1]] = "key"
    /\ k[s[i]] = "leading" => \E j \in 2 .. i - 1 : k[s[j]] = "key"

SecondKey(s, k) == \E j \in DOMAIN s \ {1} : k[s[j]] = "key"

LEMMA KeysWithAnother ==
  ASSUME NEW s \in Seq(Id), NEW k \in Seq(Kinds), NEW kind \in Kinds,
         Known(s, k)
  PROVE  LET l == Append(k, kind)
         IN /\ Known(s, l)
            /\ \A i \in DOMAIN s : l[s[i]] = k[s[i]]
            /\ KeysIn(s, k) => KeysIn(s, l)
            /\ SecondKey(s, k) => SecondKey(s, l)
<1> DEFINE l == Append(k, kind)
<1>1. /\ DOMAIN k = 1 .. Len(k) /\ DOMAIN l = 1 .. Len(k) + 1 /\ Len(k) \in Nat
      /\ \A i \in 1 .. Len(k) : l[i] = k[i]
  BY AppendProperties, LenProperties
<1>2. Known(s, l) /\ \A i \in DOMAIN s : l[s[i]] = k[s[i]]
  BY <1>1 DEF Known
<1>3. DOMAIN s = 1 .. Len(s) /\ Len(s) \in Nat
  BY LenProperties
<1>4. ASSUME KeysIn(s, k)
      PROVE  KeysIn(s, l)
  <2> SUFFICES ASSUME NEW i \in DOMAIN s
               PROVE  /\ l[s[1]] = "key"
                      /\ l[s[i]] = "leading" => \E j \in 2 .. i - 1 : l[s[j]] = "key"
    BY DEF KeysIn
  <2>1. l[s[1]] = "key"
    <3>1. 1 \in DOMAIN s /\ k[s[1]] = "key"
      BY <1>3, <1>4 DEF KeysIn
    <3> QED
      BY <1>2, <3>1
  <2>2. ASSUME l[s[i]] = "leading"
        PROVE  \E j \in 2 .. i - 1 : l[s[j]] = "key"
    <3>1. PICK j \in 2 .. i - 1 : k[s[j]] = "key"
      BY <1>2, <1>4, <2>2 DEF KeysIn
    <3>2. j \in DOMAIN s
      BY <1>3
    <3> QED
      BY <1>2, <3>1, <3>2
  <2> QED
    BY <2>1, <2>2
<1>5. SecondKey(s, k) => SecondKey(s, l)
  BY <1>2 DEF SecondKey
<1> QED
  BY <1>2, <1>4, <1>5

\* Sending: a key frame, or any packet behind a key frame if it is not a
\* leading one without a second key frame before it.
LEMMA KeysAppended ==
  ASSUME NEW s \in Seq(Id), NEW k \in Seq(Kinds), NEW kind \in Kinds,
         Known(s, k), KeysIn(s, k), Len(k) + 1 \in Id,
         s = <<>> => kind = "key",
         kind = "leading" => SecondKey(s, k)
  PROVE  LET t == Append(s, Len(k) + 1)
             l == Append(k, kind)
         IN /\ Known(t, l) /\ KeysIn(t, l) /\ t # <<>>
            /\ s # <<>> /\ kind = "key" => SecondKey(t, l)
            /\ SecondKey(s, k) => SecondKey(t, l)
<1> DEFINE t == Append(s, Len(k) + 1)
           l == Append(k, kind)
           n == Len(s)
<1>1. /\ n \in Nat /\ DOMAIN s = 1 .. n /\ DOMAIN t = 1 .. n + 1
      /\ \A i \in 1 .. n : t[i] = s[i]
      /\ t[n + 1] = Len(k) + 1 /\ t # <<>>
      /\ s = <<>> <=> n = 0
  BY AppendProperties, LenProperties, EmptySeq
<1>2. /\ DOMAIN l = 1 .. Len(k) + 1 /\ Len(k) \in Nat /\ l[Len(k) + 1] = kind
  BY AppendProperties, LenProperties
<1>3. /\ Known(s, l) /\ KeysIn(s, l)
      /\ SecondKey(s, k) => SecondKey(s, l)
  BY KeysWithAnother
<1> HIDE DEF t, l
<1>4. Known(t, l)
  BY <1>1, <1>2, <1>3 DEF Known
<1>5. l[t[n + 1]] = kind
  BY <1>1, <1>2
<1>6. ASSUME SecondKey(s, k)
      PROVE  \E j \in 2 .. n : l[t[j]] = "key"
  <2>1. PICK j \in DOMAIN s \ {1} : l[s[j]] = "key"
    BY <1>3, <1>6 DEF SecondKey
  <2>2. j \in 2 .. n /\ t[j] = s[j]
    BY <1>1, <2>1
  <2> QED
    BY <2>1, <2>2
<1>7. l[t[1]] = "key"
  <2>1. CASE n = 0
    BY <1>1, <1>5, <2>1
  <2>2. CASE n > 0
    <3>1. 1 \in DOMAIN s /\ t[1] = s[1]
      BY <1>1, <2>2
    <3> QED
      BY <1>3, <3>1 DEF KeysIn
  <2> QED
    BY <1>1, <2>1, <2>2
<1>8. KeysIn(t, l)
  <2> SUFFICES ASSUME NEW i \in 1 .. n + 1, l[t[i]] = "leading"
               PROVE  \E j \in 2 .. i - 1 : l[t[j]] = "key"
    BY <1>1, <1>7 DEF KeysIn
  <2>1. CASE i = n + 1
    <3>1. kind = "leading" /\ i - 1 = n
      BY <1>1, <1>5, <2>1
    <3> QED
      BY <1>6, <3>1
  <2>2. CASE i \in 1 .. n
    <3>1. PICK j \in 2 .. i - 1 : l[s[j]] = "key"
      BY <1>1, <1>3, <2>2 DEF KeysIn
    <3>2. j \in 1 .. n
      BY <1>1, <2>2
    <3> QED
      BY <1>1, <3>1, <3>2
  <2>3. i = n + 1 \/ i \in 1 .. n
    BY <1>1
  <2> QED
    BY <2>1, <2>2, <2>3
<1>9. s # <<>> /\ kind = "key" => SecondKey(t, l)
  BY <1>1, <1>5 DEF SecondKey
<1>10. ASSUME SecondKey(s, k)
       PROVE  SecondKey(t, l)
  <2>1. PICK j \in 2 .. n : l[t[j]] = "key"
    BY <1>6, <1>10
  <2>2. j \in DOMAIN t \ {1}
    BY <1>1
  <2> QED
    BY <2>1, <2>2 DEF SecondKey
<1> QED
  BY <1>1, <1>4, <1>8, <1>9, <1>10 DEF t, l

LEMMA KeysOfPrefix ==
  ASSUME NEW s \in Seq(Id), NEW t \in Seq(Id), NEW k,
         Known(s \o t, k), KeysIn(s \o t, k)
  PROVE  Known(s, k) /\ KeysIn(s, k)
<1> DEFINE u == s \o t
<1>1. /\ DOMAIN s = 1 .. Len(s) /\ DOMAIN u = 1 .. Len(s) + Len(t)
      /\ Len(s) \in Nat /\ Len(t) \in Nat
      /\ \A i \in 1 .. Len(s) + Len(t) :
           u[i] = IF i <= Len(s) THEN s[i] ELSE t[i - Len(s)]
  BY ConcatProperties, LenProperties
<1>2. \A i \in DOMAIN s : i \in DOMAIN u /\ u[i] = s[i]
  BY <1>1
<1>3. Known(s, k)
  BY <1>2 DEF Known
<1>4. KeysIn(s, k)
  <2> SUFFICES ASSUME NEW i \in DOMAIN s
               PROVE  /\ k[s[1]] = "key"
                      /\ k[s[i]] = "leading" => \E j \in 2 .. i - 1 : k[s[j]] = "key"
    BY DEF KeysIn
  <2>1. i \in DOMAIN u /\ 1 \in DOMAIN s /\ \A j \in 2 .. i - 1 : j \in DOMAIN s
    BY <1>1
  <2>2. /\ k[u[1]] = "key"
        /\ k[u[i]] = "leading" => \E j \in 2 .. i - 1 : k[u[j]] = "key"
    BY <2>1 DEF KeysIn
  <2> QED
    BY <1>2, <2>1, <2>2
<1> QED
  BY <1>3, <1>4

LEMMA HeadMoves ==
  ASSUME NEW s \in Seq(Id), NEW t \in Seq(Id), t # <<>>
  PROVE  Append(s, Head(t)) \o Tail(t) = s \o t
<1>1. /\ Head(t) \in Id /\ Tail(t) \in Seq(Id) /\ Head(t) = t[1]
      /\ Len(Tail(t)) = Len(t) - 1 /\ Len(t) \in Nat \ {0}
      /\ \A i \in 1 .. Len(Tail(t)) : Tail(t)[i] = t[i + 1]
  BY TailProperties
<1> DEFINE a == Append(s, Head(t))
<1>2. /\ a \in Seq(Id) /\ Len(a) = Len(s) + 1 /\ Len(s) \in Nat
      /\ \A i \in 1 .. Len(s) : a[i] = s[i]
      /\ a[Len(s) + 1] = Head(t)
  BY <1>1, AppendProperties, LenProperties
<1> HIDE DEF a
<1>3. /\ a \o Tail(t) \in Seq(Id) /\ Len(a \o Tail(t)) = Len(s) + Len(t)
      /\ \A i \in 1 .. Len(s) + Len(t) :
           (a \o Tail(t))[i] = IF i <= Len(s) + 1 THEN a[i]
                               ELSE Tail(t)[i - (Len(s) + 1)]
  <2> DEFINE b == Tail(t)
  <2>1. b \in Seq(Id) /\ Len(a) + Len(b) = Len(s) + Len(t)
    BY <1>1, <1>2, LenProperties
  <2> HIDE DEF b
  <2>2. /\ a \o b \in Seq(Id) /\ Len(a \o b) = Len(a) + Len(b)
        /\ \A i \in 1 .. Len(a) + Len(b) :
             (a \o b)[i] = IF i <= Len(a) THEN a[i] ELSE b[i - Len(a)]
    BY <1>2, <2>1, ConcatProperties
  <2> QED
    BY <1>2, <2>1, <2>2 DEF b
<1>4. /\ s \o t \in Seq(Id) /\ Len(s \o t) = Len(s) + Len(t)
      /\ \A i \in 1 .. Len(s) + Len(t) :
           (s \o t)[i] = IF i <= Len(s) THEN s[i] ELSE t[i - Len(s)]
  BY ConcatProperties
<1>5. ASSUME NEW i \in 1 .. Len(s) + Len(t)
      PROVE  (a \o Tail(t))[i] = (s \o t)[i]
  <2>1. CASE i <= Len(s)
    BY <1>2, <1>3, <1>4, <2>1
  <2>2. CASE i = Len(s) + 1
    BY <1>1, <1>2, <1>3, <1>4, <2>2
  <2>3. CASE i > Len(s) + 1
    <3>1. i - (Len(s) + 1) \in 1 .. Len(Tail(t))
      BY <1>1, <1>2, <2>3
    <3>2. Tail(t)[i - (Len(s) + 1)] = t[i - Len(s)]
      BY <1>1, <1>2, <3>1
    <3> QED
      BY <1>2, <1>3, <1>4, <2>3, <3>2
  <2> QED
    BY <1>2, <2>1, <2>2, <2>3
<1>6. a \o Tail(t) = s \o t
  BY <1>3, <1>4, <1>5, SeqEqual
<1> QED
  BY <1>6 DEF a

(***************************************************************************)
(* The packets the codec was given, those it will be given, and the one    *)
(* the client is about to put into the input queue: as the client's        *)
(* needDrop has let them pass.  While packets are accepted (not held, no   *)
(* end sent) mNeedKeyFrame is set if there are none, and keyPts is only    *)
(* reset by a second key frame, one that the client keeps included.        *)
(***************************************************************************)
Sending == IF at = "enqueue" THEN <<sent>> ELSE <<>>

Stream == (fed \o mInputQueue) \o Sending

Accepting == ~mHolding /\ ~mInputEos /\ at # "closed"

NeedDropRemembers ==
  Accepting =>
    /\ Stream = <<>> => mNeedKeyFrame /\ ~keyRefused
    /\ ~mNeedKeyFrame /\ ~keyPts => keyRefused \/ SecondKey(Stream, kinds)

FramesAreOfTheStream ==
  mOutputQueue # <<>> \/ codec # <<>> => mHolding \/ fed # <<>>

KeyInv ==
  /\ Known(Stream, kinds) /\ KeysIn(Stream, kinds)
  /\ NeedDropRemembers
  /\ FramesAreOfTheStream

LEMMA StreamType ==
  ASSUME QueueTypes, QueueSizes
  PROVE  /\ fed \o mInputQueue \in Seq(Id) /\ Sending \in Seq(Id)
         /\ Stream \in Seq(Id)
         /\ at # "enqueue" => Stream = fed \o mInputQueue
         /\ fed # <<>> \/ mInputQueue # <<>> => Stream # <<>>
<1>1. fed \o mInputQueue \in Seq(Id) /\ <<>> \in Seq(Id)
  BY ConcatProperties, EmptySeq DEF QueueTypes
<1>2. Sending \in Seq(Id)
  BY <1>1, SentIsAnId DEF Sending, InHand
<1>3. Stream \in Seq(Id) /\ (at # "enqueue" => Stream = fed \o mInputQueue)
  BY <1>1, <1>2, ConcatProperties, ConcatEmptySeq DEF Stream, Sending
<1>4. ASSUME Stream = <<>>
      PROVE  fed = <<>> /\ mInputQueue = <<>>
  <2>1. fed \o mInputQueue = <<>>
    BY <1>1, <1>2, <1>4, ConcatEqualIffEmpty DEF Stream
  <2> QED
    BY <2>1, ConcatEqualIffEmpty DEF QueueTypes
<1> QED
  BY <1>1, <1>2, <1>3, <1>4

Flows ==
  \/ Still \/ FrameComesOut \/ FrameIsBad \/ PacketGoesIn \/ PacketIsRefused
  \/ PacketIsQueued \/ FrameIsTaken

LEMMA StreamFlows ==
  ASSUME QueueTypes, QueueSizes, Flows, FramesAreOfTheStream, UNCHANGED mHolding
  PROVE  /\ Stream' = Stream /\ kinds' = kinds
         /\ FramesAreOfTheStream'
<1> USE DEF FramesAreOfTheStream
<1>1. CASE Still
  BY <1>1 DEF Still, SameHand, Stream, Sending, sent, queues, history
<1>2. CASE FrameComesOut \/ FrameIsBad \/ FrameIsTaken
  <2>1. /\ UNCHANGED <<fed, mInputQueue, kinds>> /\ SameHand
        /\ mOutputQueue' # <<>> \/ codec' # <<>> => mOutputQueue # <<>> \/ codec # <<>>
    BY <1>2 DEF FrameComesOut, FrameIsBad, FrameIsTaken, queues, history
  <2> QED
    BY <2>1 DEF SameHand, Stream, Sending, sent
<1>3. CASE PacketGoesIn \/ PacketIsRefused
  <2>1. /\ mInputQueue # <<>> /\ fed' = Append(fed, Head(mInputQueue))
        /\ mInputQueue' = Tail(mInputQueue) /\ kinds' = kinds /\ SameHand
    BY <1>3 DEF PacketGoesIn, PacketIsRefused, queues, history
  <2>2. fed' \o mInputQueue' = fed \o mInputQueue
    BY <2>1, HeadMoves DEF QueueTypes
  <2>3. fed' # <<>>
    BY <2>1, TailProperties, AppendProperties DEF QueueTypes
  <2>4. Sending' = Sending
    BY <2>1 DEF SameHand, Sending, sent
  <2> QED
    BY <2>1, <2>2, <2>3, <2>4 DEF Stream
<1>4. CASE PacketIsQueued
  <2>1. /\ sent \in Id /\ mInputQueue \in Seq(Id) /\ fed \in Seq(Id)
        /\ <<sent>> \in Seq(Id) /\ at = "enqueue" /\ at' = "out"
        /\ mInputQueue' = Append(mInputQueue, sent) /\ fed' = fed
    BY <1>4, SentIsAnId DEF PacketIsQueued, InHand, QueueTypes
  <2>2. mInputQueue' = mInputQueue \o <<sent>> /\ mInputQueue' \in Seq(Id)
    BY <2>1, AppendIsConcat, AppendProperties
  <2>3. fed \o (mInputQueue \o <<sent>>) = (fed \o mInputQueue) \o <<sent>>
    BY <2>1, ConcatAssociative
  <2>4. Sending = <<sent>> /\ Sending' = <<>>
    BY <2>1 DEF Sending
  <2>5. fed' \o mInputQueue' \in Seq(Id)
    BY <2>1, <2>2, ConcatProperties
  <2>6. Stream' = fed' \o mInputQueue'
    BY <2>4, <2>5, ConcatEmptySeq DEF Stream
  <2>7. Stream' = Stream
    BY <2>1, <2>2, <2>3, <2>4, <2>6 DEF Stream
  <2> QED
    BY <1>4, <2>7 DEF PacketIsQueued, history
<1> QED
  BY <1>1, <1>2, <1>3, <1>4 DEF Flows

LEMMA KeysKept ==
  ASSUME QueueTypes, QueueSizes, KeyInv, Flows, UNCHANGED mHolding,
         Accepting' =>
           /\ Accepting
           /\ UNCHANGED <<mNeedKeyFrame, keyPts, keyRefused>>
  PROVE  KeyInv'
<1>1. Stream' = Stream /\ kinds' = kinds /\ FramesAreOfTheStream'
  BY StreamFlows DEF KeyInv
<1>2. Known(Stream, kinds)' /\ KeysIn(Stream, kinds)'
  BY <1>1 DEF KeyInv, Known, KeysIn
<1>3. NeedDropRemembers'
  BY <1>1 DEF KeyInv, NeedDropRemembers, SecondKey
<1> QED
  BY <1>1, <1>2, <1>3 DEF KeyInv

LEMMA StreamEmptied ==
  ASSUME fed' = <<>>, mInputQueue' = <<>>, at' # "enqueue", kinds' = kinds
  PROVE  Stream' = <<>> /\ Known(Stream, kinds)' /\ KeysIn(Stream, kinds)'
<1>1. Stream' = (<<>> \o <<>>) \o <<>>
  BY DEF Stream, Sending
<1>2. Stream' = <<>>
  BY <1>1, EmptySeq, ConcatEmptySeq
<1> QED
  BY <1>2 DEF Known, KeysIn

LEMMA SendPacketKeepsKeys ==
  ASSUME ShapeInv, KeyInv, NEW kind \in Kinds, SendPacket(kind)
  PROVE  KeyInv'
<1>1. /\ QueueTypes /\ QueueSizes /\ Flags
      /\ kinds \in Seq(Kinds) /\ Len(kinds) \in Nat /\ Len(kinds) + 1 \in Id
  BY LenProperties
     DEF ShapeInv, ControlInv, QueueTypes, SendPacket, Sends, sent, Id
<1>2. /\ Accepting /\ at = "out" /\ at' = "enqueue" /\ kinds' = Append(kinds, kind)
      /\ mHolding' = mHolding /\ keyRefused' = FALSE
      /\ UNCHANGED <<fed, mInputQueue, mOutputQueue, codec>>
  BY DEF SendPacket, Sends, ClientAt, ClientAndThreadAt, NoneKept, Accepting,
     QueuesUnchanged, queues, context
<1>3. /\ mNeedKeyFrame => kind = "key"
      /\ keyPts => kind # "leading"
      /\ keyRefused => kind = "key"
  BY DEF SendPacket, Sends, NeedDrop
<1>4. IF kind = "key" THEN mNeedKeyFrame' = FALSE /\ keyPts' = mNeedKeyFrame
      ELSE mNeedKeyFrame' = mNeedKeyFrame /\ keyPts' = keyPts
  BY DEF SendPacket, Sends, LooksAtKey
<1>5. /\ mNeedKeyFrame \in BOOLEAN /\ keyPts \in BOOLEAN
      /\ keyRefused \in BOOLEAN
  BY <1>1 DEF Flags
<1>6. /\ Stream = <<>> => mNeedKeyFrame
      /\ ~mNeedKeyFrame /\ ~keyPts => keyRefused \/ SecondKey(Stream, kinds)
  BY <1>2 DEF KeyInv, NeedDropRemembers
<1>7. /\ Stream = <<>> => kind = "key"
      /\ kind = "leading" => SecondKey(Stream, kinds)
  BY <1>3, <1>5, <1>6
<1>8. Stream \in Seq(Id) /\ Known(Stream, kinds) /\ KeysIn(Stream, kinds)
  BY <1>1, StreamType DEF KeyInv
<1>9. Stream' = Append(Stream, Len(kinds) + 1)
  <2>1. Stream = fed \o mInputQueue
    BY <1>1, <1>2, StreamType
  <2>2. Len(kinds') = Len(kinds) + 1
    BY <1>1, <1>2, AppendProperties
  <2>3. Stream' = (fed \o mInputQueue) \o <<Len(kinds) + 1>>
    BY <1>2, <2>2 DEF Stream, Sending, sent
  <2> QED
    BY <1>1, <1>8, <2>1, <2>3, AppendIsConcat
<1>10. /\ Known(Stream', kinds') /\ KeysIn(Stream', kinds') /\ Stream' # <<>>
       /\ Stream # <<>> /\ kind = "key" => SecondKey(Stream', kinds')
       /\ SecondKey(Stream, kinds) => SecondKey(Stream', kinds')
  BY <1>1, <1>2, <1>7, <1>8, <1>9, KeysAppended
<1>11. ~mNeedKeyFrame' /\ ~keyPts' => SecondKey(Stream', kinds')
  BY <1>3, <1>4, <1>5, <1>6, <1>10
<1>12. NeedDropRemembers'
  BY <1>10, <1>11 DEF NeedDropRemembers
<1>13. FramesAreOfTheStream'
  BY <1>2 DEF KeyInv, FramesAreOfTheStream
<1> QED
  BY <1>10, <1>12, <1>13 DEF KeyInv

LEMMA SendHeldKeepsKeys ==
  ASSUME ShapeInv, KeyInv, NEW kind \in Kinds, SendHeld(kind)
  PROVE  KeyInv'
<1>1. QueueTypes /\ QueueSizes
  BY DEF ShapeInv
<1>2. /\ mHolding /\ mHolding' = mHolding /\ kinds' = Append(kinds, kind)
      /\ at = "out" /\ at' \in {"out", "hold"}
      /\ UNCHANGED <<fed, mInputQueue, mOutputQueue, codec>>
  BY DEF SendHeld, Sends, ClientAt, ClientAndThreadAt, context
<1>3. Stream' = Stream
  BY <1>2 DEF Stream, Sending
<1>4. Stream \in Seq(Id) /\ kinds \in Seq(Kinds)
  BY <1>1, StreamType DEF QueueTypes
<1>5. Known(Stream', kinds') /\ KeysIn(Stream', kinds')
  BY <1>2, <1>3, <1>4, KeysWithAnother DEF KeyInv
<1> QED
  BY <1>2, <1>5 DEF KeyInv, NeedDropRemembers, Accepting, FramesAreOfTheStream

\* The queues are full, so there is a key frame before the one kept.
LEMMA SendRefusedKeepsKeys ==
  ASSUME ShapeInv, KeyInv, SendRefused
  PROVE  KeyInv'
<1>1. QueueTypes /\ QueueSizes
  BY DEF ShapeInv
<1>2. /\ Still /\ Flows /\ UNCHANGED mHolding /\ Accepting
      /\ at = "out" /\ keyRefused' = TRUE
      /\ \/ Len(mInputQueue) = mMaxInQueueSize
         \/ Len(mOutputQueue) = mMaxOutQueueSize
  BY DEF SendRefused, Sends, ClientAt, ClientAndThreadAt, QueuesUnchanged, Still,
     Flows, SameHand, queues, context, history, Accepting
<1>3. mInputQueue # <<>> \/ mOutputQueue # <<>>
  BY <1>1, <1>2, EmptySeq
<1>4. Stream # <<>>
  BY <1>1, <1>2, <1>3, StreamType DEF KeyInv, FramesAreOfTheStream, Accepting
<1>5. Stream' = Stream /\ kinds' = kinds /\ FramesAreOfTheStream'
  BY <1>1, <1>2, StreamFlows DEF KeyInv
<1> QED
  BY <1>2, <1>4, <1>5 DEF KeyInv, Known, KeysIn, NeedDropRemembers

LEMMA InsideCallKeepsKeys ==
  ASSUME ShapeInv, KeyInv, InsideCall
  PROVE  KeyInv'
<1>1. QueueTypes /\ QueueSizes /\ HoldInv /\ Flags
  BY DEF ShapeInv, ControlInv
<1> USE DEF ClientAt, ClientAndThreadAt
<1>2. CASE Enqueue \/ GetFrameLooksAtEos \/ PauseThread \/ ThreadIsPaused
           \/ PauseEnds
  <2>1. /\ UNCHANGED <<mHolding, mInputEos, mNeedKeyFrame, keyPts, keyRefused>>
        /\ at # "closed"
    BY <1>2 DEF Enqueue, GetFrameLooksAtEos, PauseThread, ThreadIsPaused,
       PauseEnds, ClientFlagsUnchanged, NothingElse
  <2>2. Flows
    BY <1>2 DEF Enqueue, GetFrameLooksAtEos, PauseThread, ThreadIsPaused,
       PauseEnds, Flows, PacketIsQueued, Still, SameHand, ClientFlagsUnchanged,
       NothingElse, QueuesUnchanged, queues, context, history
  <2> QED
    BY <1>1, <2>1, <2>2, KeysKept DEF Accepting
<1>3. CASE FlushForHeldKey
  <2>1. /\ fed' = <<>> /\ mInputQueue' = <<>> /\ at' = "out" /\ kinds' = kinds
        /\ mHolding' = mHolding /\ mHolding
    BY <1>1, <1>3 DEF FlushForHeldKey, FlushDecoder, HoldInv
  <2> QED
    BY <2>1, StreamEmptied
       DEF KeyInv, NeedDropRemembers, Accepting, FramesAreOfTheStream
<1>4. CASE HoldOnEnds
  <2>1. /\ mInputQueue' = <<>> /\ fed' = fed /\ kinds' = kinds
        /\ at = "paused" /\ at' = "out" /\ mHolding' = TRUE
    BY <1>4 DEF HoldOnEnds, context
  <2>2. fed \in Seq(Id) /\ mInputQueue \in Seq(Id)
    BY <1>1 DEF QueueTypes
  <2>3. Stream = fed \o mInputQueue
    BY <1>1, <2>1, StreamType
  <2>4. Known(fed, kinds) /\ KeysIn(fed, kinds)
    BY <2>2, <2>3, KeysOfPrefix DEF KeyInv
  <2>5. Stream' = fed
    BY <2>1, <2>2, ConcatEmptySeq DEF Stream, Sending
  <2> QED
    BY <2>1, <2>4, <2>5
       DEF KeyInv, NeedDropRemembers, Accepting, FramesAreOfTheStream
<1>5. CASE FlushEnds
  <2>1. /\ fed' = <<>> /\ mInputQueue' = <<>> /\ mOutputQueue' = <<>>
        /\ codec' = <<>> /\ at' = "out" /\ kinds' = kinds
        /\ mNeedKeyFrame' = TRUE /\ keyRefused' = FALSE
    BY <1>5 DEF FlushEnds, FlushDecoder, Emptied, NoneKept
  <2> QED
    BY <2>1, StreamEmptied
       DEF KeyInv, NeedDropRemembers, Accepting, FramesAreOfTheStream
<1>6. CASE CloseEnds
  <2>1. /\ fed' = <<>> /\ mInputQueue' = <<>> /\ mOutputQueue' = <<>>
        /\ codec' = <<>> /\ at' = "closed" /\ kinds' = kinds
    BY <1>6 DEF CloseEnds, CloseDecoder, Emptied, NothingElse
  <2> QED
    BY <2>1, StreamEmptied
       DEF KeyInv, NeedDropRemembers, Accepting, FramesAreOfTheStream
<1> QED
  BY <1>2, <1>3, <1>4, <1>5, <1>6 DEF InsideCall

LEMMA KeyStep ==
  ASSUME ShapeInv, KeyInv, Next
  PROVE  KeyInv'
<1>1. QueueTypes /\ QueueSizes /\ EnqueuesAPacket
  BY HeadIsAPacket DEF ShapeInv, ControlInv, HoldInv, EnqueuesAPacket
<1>2. CASE DecodeThread \/ Awakes
  <2>1. UNCHANGED <<mHolding, mInputEos, mNeedKeyFrame, keyPts, keyRefused, at>>
    BY <1>2 DEF DecodeThread, Awakes, Loop, AnswersPause, SeesPaused, FallsAsleep,
       CallsDecodeFunc, AppliesTryPause, DecodeFunc, SeeDecoderEos, SeeWork,
       ExtractDecoder, EnqueueDecoder, SeeInputEos, SeeInputEmpty,
       SendEosToDecoder, Looks, Goes, ThreadOnly, client
  <2>2. Flows
    BY <1>1, <1>2, LoopMoves, DecodeFuncMoves DEF DecodeThread, Flows
  <2> QED
    BY <1>1, <2>1, <2>2, KeysKept DEF Accepting
<1>3. CASE \E kind \in Kinds : SendAfterTheEnd(kind)
  <2>1. ~Accepting' /\ UNCHANGED mHolding
    BY <1>3 DEF SendAfterTheEnd, Sends, Accepting
  <2>2. Flows
    BY <1>3 DEF SendAfterTheEnd, Sends, Flows, Still, SameHand, QueuesUnchanged,
       ClientAt, ClientAndThreadAt, queues, context, history
  <2> QED
    BY <1>1, <2>1, <2>2, KeysKept
<1>4. CASE \E kind \in Kinds : SendHeld(kind)
  BY <1>4, SendHeldKeepsKeys
<1>5. CASE \E kind \in Kinds : SendPacket(kind)
  BY <1>5, SendPacketKeepsKeys
<1>6. CASE SendRefused
  BY <1>6, SendRefusedKeepsKeys
<1>7. CASE SendTheEnd
  <2>1. ~Accepting' /\ UNCHANGED mHolding
    BY <1>7 DEF SendTheEnd, Accepting
  <2>2. Flows
    BY <1>7, OtherCallsMove DEF Flows
  <2> QED
    BY <1>1, <2>1, <2>2, KeysKept
<1>8. CASE Open \/ GetFrame \/ Resume \/ PrePause \/ \E o \in Ops : StopRunning(o)
  <2>1. UNCHANGED <<mHolding, mInputEos, mNeedKeyFrame, keyPts, keyRefused>>
        /\ at # "closed"
    BY <1>8 DEF Open, GetFrame, Resume, PrePause, StopRunning, ClientAt,
       ClientAndThreadAt, ClientFlagsUnchanged, NothingElse
  <2>2. Flows
    BY <1>8, OtherCallsMove DEF Flows
  <2> QED
    BY <1>1, <2>1, <2>2, KeysKept DEF Accepting
<1>9. CASE InsideCall
  BY <1>9, InsideCallKeepsKeys
<1> QED
  BY <1>2, <1>3, <1>4, <1>5, <1>6, <1>7, <1>8, <1>9 DEF Next, Client

(***************************************************************************)
(* Since it was opened or flushed the codec has been given a key frame     *)
(* first, and leading packets only after a second one: what needDrop       *)
(* lets pass for the packets sent holds of the packets that reach the      *)
(* codec, through flush(), holdOn(), refused packets and dropped ones.     *)
(***************************************************************************)
THEOREM CodecGetsKeyFrameFirst == Spec => []CodecStartsWithAKeyFrame
<1>1. Init => KeyInv
  <2> SUFFICES ASSUME Init
               PROVE  KeyInv
    OBVIOUS
  <2>1. Stream = (<<>> \o <<>>) \o <<>>
    BY DEF Init, Stream, Sending
  <2>2. Stream = <<>>
    BY <2>1, EmptySeq, ConcatEmptySeq
  <2> QED
    BY <2>2 DEF Init, KeyInv, Known, KeysIn, NeedDropRemembers,
       FramesAreOfTheStream
<1>2. ASSUME ShapeInv, KeyInv, [Next]_vars
      PROVE  KeyInv'
  <2>1. CASE Next
    BY <1>2, <2>1, KeyStep
  <2>2. CASE UNCHANGED vars
    <3>1. QueueTypes /\ QueueSizes
      BY <1>2 DEF ShapeInv
    <3>2. Flows /\ UNCHANGED mHolding /\ UNCHANGED Accepting
      BY <2>2 DEF vars, Flows, Still, SameHand, queues, flags, context, client,
         history, Accepting
    <3>3. UNCHANGED <<mNeedKeyFrame, keyPts, keyRefused>>
      BY <2>2 DEF vars, flags, client
    <3> QED
      BY <1>2, <3>1, <3>2, <3>3, KeysKept
  <2> QED
    BY <1>2, <2>1, <2>2
<1>3. ShapeInv /\ KeyInv => CodecStartsWithAKeyFrame
  <2> SUFFICES ASSUME ShapeInv, KeyInv
               PROVE  CodecStartsWithAKeyFrame
    OBVIOUS
  <2>1. QueueTypes /\ QueueSizes
    BY DEF ShapeInv
  <2>2. fed \in Seq(Id) /\ mInputQueue \in Seq(Id) /\ fed \o mInputQueue \in Seq(Id)
    BY <2>1, StreamType DEF QueueTypes
  <2>3. Known(fed \o mInputQueue, kinds) /\ KeysIn(fed \o mInputQueue, kinds)
    BY <2>1, <2>2, StreamType, KeysOfPrefix DEF KeyInv, Stream
  <2>4. KeysIn(fed, kinds)
    BY <2>2, <2>3, KeysOfPrefix
  <2> QED
    BY <2>4 DEF KeysIn, CodecStartsWithAKeyFrame
<1> QED
  BY <1>1, <1>2, <1>3, ShapeAlways, PTL DEF Spec
=============================================================================
