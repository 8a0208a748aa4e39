-------------------------- MODULE AVFFDemuxerProofs --------------------------
(***************************************************************************)
(* Theorems about AVFFDemuxer, for every file, every limit of the queue,   *)
(* every set of faults and any number of calls: the state is well typed,   *)
(* the queue is bounded, and packets come out once and in file order.      *)
(*                                                                         *)
(* The invariant adds to these three what they rest on: before the thread  *)
(* is started there is nothing in the queue, the read thread holds a       *)
(* packet exactly while it is about to push one, and a packet that a       *)
(* stop() lets through is paid for by that stop().                         *)
(***************************************************************************)
EXTENDS AVFFDemuxer, SequenceTheorems, TLAPS

EmptyWhileIdle == status = "IDLE" => mPacketQueue = <<>> /\ rpc = "none"

HoldsAPacket == pkt # 0 <=> rpc \in {"push", "full"}

\* The read thread was told to leave and may still push a packet.
MayExceed ==
  \/ rpc \in {"read", "push", "full"} /\ (bPaused \/ mExited)
  \/ rpc = "begin" /\ mExited

Excess == IF MayExceed THEN 1 ELSE 0

StopsPay == Len(mPacketQueue) + Excess <= MAX_QUEUE_SIZE + 1 + stops

DemuxerInv ==
  /\ TypeOK
  /\ EmptyWhileIdle
  /\ HoldsAPacket
  /\ StopsPay
  /\ InFileOrderOnce

-----------------------------------------------------------------------------
LEMMA MediaIsFinite ==
  Len(Media) \in Nat /\ Position = 1 .. Len(Media)
  BY AVFFDemuxerAssumption DEF Position

LEMMA BoundsAreNumbers == MAX_QUEUE_SIZE \in Nat /\ MaxStops \in Nat
  BY AVFFDemuxerAssumption

\* What a read of the file does to the place in it.
LEMMA ReadFrameMovesOn ==
  ASSUME PacketsTypeOK, NEW ret \in Results, NEW packet \in Position \cup {0},
         ReadFrame(ret, packet)
  PROVE  /\ next' \in next .. Len(Media) + 1
         /\ packet # 0 <=> ret = "SUCCESS"
         /\ packet = 0 => skipped' = skipped \cup (next .. next' - 1)
         /\ packet # 0 =>
              /\ packet >= next /\ next' = packet + 1
              /\ skipped' = skipped \cup (next .. packet - 1)
  BY MediaIsFinite DEF ReadFrame, PacketsTypeOK, Ahead, Results

LEMMA RangesNest ==
  ASSUME NEW a \in Nat, a >= 1, NEW b \in Nat, NEW n \in Nat, b - 1 <= n
  PROVE  a .. b - 1 \subseteq 1 .. n
  OBVIOUS

LEMMA ReadFrameStaysInside ==
  ASSUME PacketsTypeOK, NEW ret \in Results, NEW packet \in Position \cup {0},
         ReadFrame(ret, packet)
  PROVE  next' \in 1 .. Len(Media) + 1 /\ skipped' \subseteq Position
<1>1. next \in 1 .. Len(Media) + 1 /\ skipped \subseteq Position
  BY DEF PacketsTypeOK
<1>2. next' \in next .. Len(Media) + 1
  BY ReadFrameMovesOn
<1>3. next' \in 1 .. Len(Media) + 1
  BY <1>1, <1>2, MediaIsFinite
<1>4. CASE packet = 0
  <2>1. skipped' = skipped \cup (next .. next' - 1)
    BY <1>4, ReadFrameMovesOn
  <2>2. /\ next \in Nat /\ next >= 1 /\ Len(Media) \in Nat
        /\ next' \in Nat /\ next' - 1 <= Len(Media)
    BY <1>1, <1>3, MediaIsFinite
  <2>3. next .. next' - 1 \subseteq 1 .. Len(Media)
    BY <2>2, RangesNest
  <2> QED
    BY <1>1, <1>3, <2>1, <2>3, MediaIsFinite
<1>5. CASE packet # 0
  <2>1. skipped' = skipped \cup (next .. packet - 1)
    BY <1>5, ReadFrameMovesOn
  <2>2. packet \in 1 .. Len(Media)
    BY <1>5, MediaIsFinite
  <2> QED
    BY <1>1, <1>3, <2>1, <2>2, MediaIsFinite
<1> QED
  BY <1>4, <1>5

LEMMA InitHolds == Init => DemuxerInv
<1> SUFFICES ASSUME Init PROVE DemuxerInv
  OBVIOUS
<1>1. PacketsTypeOK
  <2>1. 1 \in 1 .. Len(Media) + 1
    BY MediaIsFinite
  <2>2. <<>> \in Seq(Position)
    OBVIOUS
  <2> QED
    BY <2>1, <2>2, Zenon DEF Init, PacketsTypeOK
<1>2. ThreadsTypeOK
  <2>1. 0 \in 0 .. MaxStops
    BY BoundsAreNumbers
  <2> QED
    BY <2>1, Zenon DEF Init, ThreadsTypeOK
<1>3. EmptyWhileIdle /\ HoldsAPacket
  BY DEF Init, EmptyWhileIdle, HoldsAPacket
<1>4. StopsPay
  BY BoundsAreNumbers DEF Init, StopsPay, Excess, MayExceed
<1>5. Made = <<>>
  BY DEF Init, Made, Held
<1>6. InFileOrderOnce
  BY <1>5 DEF Init, InFileOrderOnce, ToSet
<1> QED
  BY <1>1, <1>2, <1>3, <1>4, <1>6 DEF DemuxerInv, TypeOK

-----------------------------------------------------------------------------
(***************************************************************************)
(* Types: the places of the threads, then the packets.                     *)
(***************************************************************************)
LEMMA ThreadsKeepTheirTypes ==
  ASSUME ThreadsTypeOK, Next
  PROVE  ThreadsTypeOK'
<1>1. CASE LoopEnds \/ LoopContinues \/ LoopPauses \/ LoopResumes \/ Begin
           \/ ErrorWaitEnds
  BY <1>1 DEF LoopEnds, LoopContinues, LoopPauses, LoopResumes, Begin,
     ErrorWaitEnds, Goes, ReaderOnly, client, ThreadsTypeOK
<1>2. CASE Read
  BY <1>2 DEF Read, ReaderOnly, client, Results, ThreadsTypeOK
<1>3. CASE Push \/ WakeOnQueue
  BY <1>3 DEF Push, WakeOnQueue, BlockOnQueue, PushPacket, ReaderOnly, client,
     ThreadsTypeOK
<1>4. CASE Open \/ \E s \in Streams : OpenStream(s) \/ CloseStream(s)
  BY <1>4 DEF Open, OpenStream, CloseStream, reader, client, ThreadsTypeOK
<1>5. CASE StartUnpauses \/ StartThread \/ StopNotifies \/ StopThread
           \/ StopJoins
  BY <1>5 DEF StartUnpauses, StartThread, StopNotifies, StopThread, StopJoins,
     PlayerAt, ThreadsTypeOK
<1>6. CASE StopPauses \/ PreStop
  <2>1. stops' \in 0 .. MaxStops
    BY <1>6, BoundsAreNumbers DEF StopPauses, PreStop, ThreadsTypeOK
  <2> QED
    BY <1>6, <2>1 DEF StopPauses, PreStop, PlayerAt, reader, ThreadsTypeOK
<1>7. CASE ReadPacketDirectly \/ ReadPacket
  BY <1>7 DEF ReadPacketDirectly, ReadPacket, reader, ThreadsTypeOK
<1>8. CASE PreStopNotifies
  BY <1>8 DEF PreStopNotifies, reader, ThreadsTypeOK
<1> QED
  BY <1>1, <1>2, <1>3, <1>4, <1>5, <1>6, <1>7, <1>8
     DEF Next, Reader, Client, InsideCall

LEMMA PacketsKeepTheirTypes ==
  ASSUME PacketsTypeOK, HoldsAPacket, Next
  PROVE  PacketsTypeOK'
<1>1. CASE LoopEnds \/ LoopContinues \/ LoopPauses \/ LoopResumes \/ Begin
           \/ ErrorWaitEnds
  BY <1>1 DEF LoopEnds, LoopContinues, LoopPauses, LoopResumes, Begin,
     ErrorWaitEnds, Goes, ReaderOnly, client, PacketsTypeOK
<1>2. CASE Read
  <2>1. PICK ret \in Results, packet \in Position \cup {0} :
          ReadFrame(ret, packet) /\ pkt' = packet
    BY <1>2 DEF Read
  <2>2. next' \in 1 .. Len(Media) + 1 /\ skipped' \subseteq Position
    BY <2>1, ReadFrameStaysInside
  <2> QED
    BY <1>2, <2>1, <2>2 DEF Read, ReaderOnly, client, PacketsTypeOK
<1>3. CASE Push \/ WakeOnQueue
  <2>1. CASE BlockOnQueue
    BY <2>1 DEF BlockOnQueue, ReaderOnly, client, PacketsTypeOK
  <2>2. CASE PushPacket /\ pkt # 0
    <3>1. mPacketQueue' \in Seq(Position)
      BY <2>2 DEF PushPacket, PacketsTypeOK
    <3> QED
      BY <2>2, <3>1 DEF PushPacket, ReaderOnly, client, PacketsTypeOK
  <2> QED
    BY <1>3, <2>1, <2>2 DEF Push, WakeOnQueue, HoldsAPacket
<1>4. CASE Open \/ \E s \in Streams : OpenStream(s) \/ CloseStream(s)
  <2>1. opened' \subseteq Streams
    BY <1>4 DEF Open, OpenStream, CloseStream, PacketsTypeOK
  <2> QED
    BY <1>4, <2>1 DEF Open, OpenStream, CloseStream, reader, client,
       PacketsTypeOK
<1>5. CASE StartUnpauses \/ StopPauses \/ InsideCall
  BY <1>5 DEF StartUnpauses, StopPauses, InsideCall, StartThread, StopNotifies,
     StopThread, StopJoins, PlayerAt, PacketsTypeOK
<1>6. CASE PreStop \/ PreStopNotifies
  BY <1>6 DEF PreStop, PreStopNotifies, demux, reader, PacketsTypeOK
<1>7. CASE ReadPacketDirectly
  <2>1. PICK ret \in Results, packet \in Position \cup {0} :
          /\ ReadFrame(ret, packet)
          /\ result' = ret
          /\ delivered' = IF ret = "SUCCESS" THEN Append(delivered, packet)
                          ELSE delivered
    BY <1>7 DEF ReadPacketDirectly
  <2>2. next' \in 1 .. Len(Media) + 1 /\ skipped' \subseteq Position
    BY <2>1, ReadFrameStaysInside
  <2>3. delivered' \in Seq(Position)
    BY <2>1, ReadFrameMovesOn DEF PacketsTypeOK
  <2>4. result' \in {"SUCCESS", "ERROR", "EOS"}
    BY <2>1 DEF Results
  <2> QED
    BY <1>7, <2>2, <2>3, <2>4 DEF ReadPacketDirectly, reader, PacketsTypeOK
<1>8. CASE ReadPacket
  <2>1. delivered' \in Seq(Position) /\ mPacketQueue' \in Seq(Position)
    <3>1. CASE mPacketQueue # <<>>
      <4>1. /\ delivered' = Append(delivered, Head(mPacketQueue))
            /\ mPacketQueue' = Tail(mPacketQueue)
        BY <1>8, <3>1 DEF ReadPacket
      <4>2. delivered \in Seq(Position) /\ mPacketQueue \in Seq(Position)
        BY DEF PacketsTypeOK
      <4>3. /\ Head(mPacketQueue) \in Position
            /\ Tail(mPacketQueue) \in Seq(Position)
        BY <3>1, <4>2, HeadTailProperties
      <4> QED
        BY <4>1, <4>2, <4>3, AppendProperties
    <3>2. CASE mPacketQueue = <<>>
      BY <1>8, <3>2 DEF ReadPacket, PacketsTypeOK
    <3> QED
      BY <3>1, <3>2
  <2>2. result' \in {"SUCCESS", "ERROR", "AGAIN", "EOS"}
    BY <1>8 DEF ReadPacket, EmptyResult
  <2> QED
    BY <1>8, <2>1, <2>2 DEF ReadPacket, demux, reader, PacketsTypeOK
<1> QED
  BY <1>1, <1>2, <1>3, <1>4, <1>5, <1>6, <1>7, <1>8 DEF Next, Reader, Client

-----------------------------------------------------------------------------
(***************************************************************************)
(* Who holds a packet, and what the queue is before the thread is started. *)
(***************************************************************************)
LEMMA StepKeepsTheHolder ==
  ASSUME PacketsTypeOK, EmptyWhileIdle, HoldsAPacket, Next
  PROVE  EmptyWhileIdle' /\ HoldsAPacket'
<1>1. CASE Read
  BY <1>1, ReadFrameMovesOn
     DEF Read, ReaderOnly, EmptyWhileIdle, HoldsAPacket, Results
<1>2. CASE Push \/ WakeOnQueue
  BY <1>2 DEF Push, WakeOnQueue, PushPacket, BlockOnQueue, ReaderOnly,
     EmptyWhileIdle, HoldsAPacket
<1>3. CASE LoopEnds \/ LoopContinues \/ LoopPauses \/ LoopResumes \/ Begin
           \/ ErrorWaitEnds
  BY <1>3 DEF LoopEnds, LoopContinues, LoopPauses, LoopResumes, Begin,
     ErrorWaitEnds, Goes, ReaderOnly, EmptyWhileIdle, HoldsAPacket
<1>4. CASE ReadPacketDirectly \/ ReadPacket
  BY <1>4 DEF ReadPacketDirectly, ReadPacket, reader, EmptyWhileIdle, HoldsAPacket
<1>5. CASE Open \/ \E s \in Streams : OpenStream(s) \/ CloseStream(s)
  BY <1>5 DEF Open, OpenStream, CloseStream, reader, EmptyWhileIdle, HoldsAPacket
<1>6. CASE StartUnpauses \/ StopPauses \/ InsideCall
  BY <1>6 DEF StartUnpauses, StopPauses, InsideCall, StartThread, StopNotifies,
     StopThread, StopJoins, PlayerAt, EmptyWhileIdle, HoldsAPacket
<1>7. CASE PreStop \/ PreStopNotifies
  BY <1>7 DEF PreStop, PreStopNotifies, reader, EmptyWhileIdle, HoldsAPacket
<1> QED
  BY <1>1, <1>2, <1>3, <1>4, <1>5, <1>6, <1>7 DEF Next, Reader, Client

(***************************************************************************)
(* The bound of the queue.  A stop() or preStop() raises it by one, and    *)
(* lets at most the one packet through that is read or held at the moment. *)
(***************************************************************************)
LEMMA StepKeepsTheBound ==
  ASSUME PacketsTypeOK, ThreadsTypeOK, StopsPay, Next
  PROVE  StopsPay'
<1>1. Len(mPacketQueue) \in Nat /\ stops \in Nat /\ MAX_QUEUE_SIZE \in Nat
  BY BoundsAreNumbers DEF PacketsTypeOK, ThreadsTypeOK
<1>2. CASE Read
  BY <1>1, <1>2 DEF Read, ReaderOnly, client, StopsPay, Excess, MayExceed
<1>3. CASE Push \/ WakeOnQueue
  <2>1. CASE BlockOnQueue
    BY <1>1, <1>3, <2>1 DEF BlockOnQueue, Push, WakeOnQueue, ReaderOnly, client,
       StopsPay, Excess, MayExceed
  <2>2. CASE PushPacket /\ ~MustWait
    <3>1. mPacketQueue' = Append(mPacketQueue, pkt) /\ rpc' = "top"
          /\ UNCHANGED <<bPaused, mExited, stops>>
      BY <2>2 DEF PushPacket, ReaderOnly, client
    <3>2. Len(mPacketQueue') = Len(mPacketQueue) + 1
      BY <3>1 DEF PacketsTypeOK
    <3>3. Excess' = 0
      BY <3>1 DEF Excess, MayExceed
    <3>4. CASE bPaused \/ mExited
      <4>1. Excess = 1
        BY <1>3, <3>4 DEF Push, WakeOnQueue, Excess, MayExceed
      <4> QED
        BY <1>1, <3>1, <3>2, <3>3, <4>1 DEF StopsPay
    <3>5. CASE Len(mPacketQueue) <= MAX_QUEUE_SIZE
      BY <1>1, <3>1, <3>2, <3>3, <3>5 DEF StopsPay
    <3> QED
      BY <1>1, <2>2, <3>4, <3>5 DEF MustWait, QueueIsFull
  <2> QED
    BY <1>3, <2>1, <2>2 DEF Push, WakeOnQueue
<1>4. CASE LoopEnds \/ LoopContinues \/ LoopPauses \/ LoopResumes \/ Begin
           \/ ErrorWaitEnds
  BY <1>1, <1>4 DEF LoopEnds, LoopContinues, LoopPauses, LoopResumes, Begin,
     ErrorWaitEnds, Goes, ReaderOnly, client, StopsPay, Excess, MayExceed
<1>5. CASE ReadPacket
  <2>1. Len(mPacketQueue') \in Nat /\ Len(mPacketQueue') <= Len(mPacketQueue)
    BY <1>1, <1>5 DEF ReadPacket, PacketsTypeOK
  <2>2. UNCHANGED <<rpc, bPaused, mExited, stops>>
    BY <1>5 DEF ReadPacket, reader
  <2> QED
    BY <1>1, <2>1, <2>2 DEF StopsPay, Excess, MayExceed
<1>6. CASE ReadPacketDirectly \/ PreStopNotifies
  BY <1>6 DEF ReadPacketDirectly, PreStopNotifies, demux, reader, StopsPay,
     Excess, MayExceed
<1>7. CASE Open \/ \E s \in Streams : OpenStream(s) \/ CloseStream(s)
  BY <1>7 DEF Open, OpenStream, CloseStream, reader, client, StopsPay, Excess,
     MayExceed
<1>8. CASE StartUnpauses \/ StopPauses \/ InsideCall \/ PreStop
  BY <1>1, <1>8 DEF StartUnpauses, StopPauses, InsideCall, StartThread,
     StopNotifies, StopThread, StopJoins, PreStop, PlayerAt, demux, reader,
     StopsPay, Excess, MayExceed
<1> QED
  BY <1>2, <1>3, <1>4, <1>5, <1>6, <1>7, <1>8 DEF Next, Reader, Client

-----------------------------------------------------------------------------
(***************************************************************************)
(* The order.  A read appends its packet to what was made, everything else *)
(* leaves that as it is: a packet only moves from the thread to the queue  *)
(* and from the queue to the player.                                       *)
(***************************************************************************)
\* The sequence s holds the positions below n that are not in k, in order.
InOrderUpTo(s, k, n) ==
  /\ \A i, j \in DOMAIN s : i < j => s[i] < s[j]
  /\ ToSet(s) \cup k = 1 .. n - 1

LEMMA PiecesAreSequences ==
  ASSUME NEW d \in Seq(Position), NEW q \in Seq(Position),
         NEW h \in Seq(Position)
  PROVE  /\ d \o q \in Seq(Position)
         /\ d \o (q \o h) = (d \o q) \o h
         /\ d \o (q \o h) \in Seq(Position)
<1>1. q \o h \in Seq(Position) /\ d \o q \in Seq(Position)
  BY ConcatProperties
<1> QED
  BY <1>1, ConcatProperties, ConcatAssociative

LEMMA HeldIsASequence ==
  ASSUME NEW x \in Position \cup {0}
  PROVE  (IF x = 0 THEN <<>> ELSE <<x>>) \in Seq(Position)
  OBVIOUS

LEMMA MadeIsASequence ==
  ASSUME PacketsTypeOK
  PROVE  Made \in Seq(Position)
  BY HeldIsASequence, PiecesAreSequences DEF Made, Held, PacketsTypeOK

LEMMA AppendKeepsOrder ==
  ASSUME NEW s \in Seq(Position), NEW k, NEW n \in Nat, n >= 1,
         InOrderUpTo(s, k, n), NEW p \in Position, p >= n
  PROVE  InOrderUpTo(Append(s, p), k \cup (n .. p - 1), p + 1)
<1> DEFINE t == Append(s, p)
<1>1. /\ Len(t) = Len(s) + 1 /\ DOMAIN t = 1 .. Len(s) + 1
      /\ \A i \in 1 .. Len(s) : t[i] = s[i]
      /\ t[Len(s) + 1] = p
      /\ Len(s) \in Nat /\ DOMAIN s = 1 .. Len(s)
  BY AppendProperties
<1>2. p \in Nat
  BY MediaIsFinite
<1>3. \A i \in DOMAIN s : s[i] \in 1 .. n - 1
  BY DEF InOrderUpTo, ToSet
<1>4. \A i, j \in DOMAIN t : i < j => t[i] < t[j]
  <2> SUFFICES ASSUME NEW i \in DOMAIN t, NEW j \in DOMAIN t, i < j
               PROVE  t[i] < t[j]
    OBVIOUS
  <2> HIDE DEF t
  <2>1. i \in 1 .. Len(s) /\ t[i] = s[i]
    BY <1>1
  <2>2. CASE j \in 1 .. Len(s)
    BY <1>1, <2>1, <2>2 DEF InOrderUpTo
  <2>3. CASE j = Len(s) + 1
    BY <1>1, <1>2, <1>3, <2>1, <2>3
  <2> QED
    BY <1>1, <2>2, <2>3
<1>5. ToSet(t) = ToSet(s) \cup {p}
  <2> HIDE DEF t
  <2> QED
    BY <1>1 DEF ToSet
<1>6. ToSet(t) \cup (k \cup (n .. p - 1)) = 1 .. (p + 1) - 1
  <2>1. ToSet(s) \cup k = 1 .. n - 1
    BY DEF InOrderUpTo
  <2>2. (1 .. n - 1) \cup {p} \cup (n .. p - 1) = 1 .. (p + 1) - 1
    BY <1>2
  <2> HIDE DEF t
  <2> QED
    BY <1>5, <2>1, <2>2
<1> QED
  BY <1>4, <1>6 DEF InOrderUpTo

LEMMA SkipKeepsOrder ==
  ASSUME NEW s, NEW k, NEW n \in Nat, n >= 1, InOrderUpTo(s, k, n),
         NEW m \in Nat, m >= n
  PROVE  InOrderUpTo(s, k \cup (n .. m - 1), m)
<1>1. (1 .. n - 1) \cup (n .. m - 1) = 1 .. m - 1
  OBVIOUS
<1> QED
  BY <1>1 DEF InOrderUpTo

\* What a read makes of the sequence, whoever made it.
LEMMA ReadKeepsOrder ==
  ASSUME PacketsTypeOK, InFileOrderOnce,
         NEW ret \in Results, NEW packet \in Position \cup {0},
         ReadFrame(ret, packet),
         Made' = IF packet = 0 THEN Made ELSE Append(Made, packet)
  PROVE  InFileOrderOnce'
<1>1. next \in Nat /\ next >= 1 /\ next' \in Nat /\ next' >= next
  BY ReadFrameMovesOn, MediaIsFinite DEF PacketsTypeOK
<1>2. Made \in Seq(Position) /\ InOrderUpTo(Made, skipped, next)
  BY MadeIsASequence, Zenon DEF InFileOrderOnce, InOrderUpTo
<1>3. InOrderUpTo(Made', skipped', next')
  <2>1. CASE packet = 0
    BY <1>1, <1>2, <2>1, ReadFrameMovesOn, SkipKeepsOrder
  <2>2. CASE packet # 0
    <3>1. /\ packet \in Position /\ packet >= next /\ next' = packet + 1
          /\ skipped' = skipped \cup (next .. packet - 1)
          /\ Made' = Append(Made, packet)
      BY <2>2, ReadFrameMovesOn
    <3>2. InOrderUpTo(Append(Made, packet), skipped \cup (next .. packet - 1),
                      packet + 1)
      BY <1>1, <1>2, <3>1, AppendKeepsOrder
    <3> QED
      BY <3>1, <3>2, Zenon
  <2> QED
    BY <2>1, <2>2
<1> QED
  BY <1>3, Zenon DEF InFileOrderOnce, InOrderUpTo

\* Whoever holds the packets, they are the same ones.
LEMMA SameOrder ==
  ASSUME InFileOrderOnce, Made' = Made, UNCHANGED <<next, skipped>>
  PROVE  InFileOrderOnce'
  BY Zenon DEF InFileOrderOnce

LEMMA StepKeepsTheOrder ==
  ASSUME PacketsTypeOK, EmptyWhileIdle, HoldsAPacket, InFileOrderOnce, Next
  PROVE  InFileOrderOnce'
<1>1. /\ delivered \in Seq(Position) /\ mPacketQueue \in Seq(Position)
      /\ Held \in Seq(Position)
      /\ delivered \o mPacketQueue \in Seq(Position)
      /\ Made = (delivered \o mPacketQueue) \o Held
  BY HeldIsASequence, PiecesAreSequences DEF Made, Held, PacketsTypeOK
<1>0. Made' = (delivered' \o mPacketQueue') \o Held'
  <2>1. PacketsTypeOK'
    BY PacketsKeepTheirTypes
  <2>2. Held' \in Seq(Position)
    BY <2>1, HeldIsASequence DEF Held, PacketsTypeOK
  <2>3. delivered' \in Seq(Position) /\ mPacketQueue' \in Seq(Position)
    BY <2>1 DEF PacketsTypeOK
  <2> QED
    BY <2>2, <2>3, PiecesAreSequences DEF Made
<1>2. CASE Read
  <2>1. PICK ret \in Results, packet \in Position \cup {0} :
          ReadFrame(ret, packet) /\ pkt' = packet
    BY <1>2 DEF Read
  <2>2. delivered' = delivered /\ mPacketQueue' = mPacketQueue /\ pkt = 0
    BY <1>2 DEF Read, ReaderOnly, client, HoldsAPacket
  <2>3. Made = delivered \o mPacketQueue
    BY <1>0, <1>1, <2>2, ConcatEmptySeq DEF Held
  <2>4. Made' = IF packet = 0 THEN Made ELSE Append(Made, packet)
    <3>1. CASE packet = 0
      BY <1>0, <1>1, <2>1, <2>2, <2>3, <3>1, ConcatEmptySeq DEF Held
    <3>2. CASE packet # 0
      <4>1. Made' = (delivered \o mPacketQueue) \o <<packet>>
        BY <1>0, <1>1, <2>1, <2>2, <3>2 DEF Held
      <4> QED
        BY <1>0, <1>1, <2>3, <3>2, <4>1, AppendIsConcat
    <3> QED
      BY <3>1, <3>2
  <2> QED
    BY <2>1, <2>4, ReadKeepsOrder
<1>3. CASE ReadPacketDirectly
  <2>1. PICK ret \in Results, packet \in Position \cup {0} :
          /\ ReadFrame(ret, packet)
          /\ delivered' = IF ret = "SUCCESS" THEN Append(delivered, packet)
                          ELSE delivered
    BY <1>3 DEF ReadPacketDirectly
  <2>2. /\ mPacketQueue = <<>> /\ mPacketQueue' = <<>>
        /\ Held = <<>> /\ Held' = <<>>
    BY <1>3 DEF ReadPacketDirectly, EmptyWhileIdle, HoldsAPacket, reader, Held
  <2>3. Made = delivered
    BY <1>0, <1>1, <2>2, ConcatEmptySeq
  <2>4. delivered' \in Seq(Position)
    BY PacketsKeepTheirTypes DEF PacketsTypeOK
  <2>5. Made' = delivered'
    BY <1>0, <1>1, <2>2, <2>4, ConcatEmptySeq
  <2>6. Made' = IF packet = 0 THEN Made ELSE Append(Made, packet)
    BY <2>1, <2>3, <2>5, ReadFrameMovesOn
  <2> QED
    BY <2>1, <2>6, ReadKeepsOrder
<1>4. CASE Push \/ WakeOnQueue
  <2>1. UNCHANGED <<delivered, next, skipped>>
    BY <1>4 DEF Push, WakeOnQueue, PushPacket, BlockOnQueue, ReaderOnly, client
  <2>2. CASE BlockOnQueue
    <3>1. mPacketQueue' = mPacketQueue /\ Held' = Held
      BY <2>2 DEF BlockOnQueue, Held
    <3> QED
      BY <1>0, <1>1, <2>1, <3>1, SameOrder
  <2>3. CASE PushPacket /\ pkt # 0
    <3>1. /\ mPacketQueue' = Append(mPacketQueue, pkt) /\ Held' = <<>>
          /\ Held = <<pkt>> /\ pkt \in Position
      BY <2>3 DEF PushPacket, Held, PacketsTypeOK
    <3>2. Append(mPacketQueue, pkt) = mPacketQueue \o Held
      BY <1>0, <1>1, <3>1, AppendIsConcat
    <3>3. Made' = delivered \o (mPacketQueue \o Held)
      <4>1. delivered \o (mPacketQueue \o Held) \in Seq(Position)
        BY <1>0, <1>1, ConcatProperties
      <4> QED
        BY <1>0, <2>1, <3>1, <3>2, <4>1, ConcatEmptySeq
    <3>4. Made' = Made
      BY <3>3 DEF Made
    <3> QED
      BY <2>1, <3>4, SameOrder
  <2> QED
    BY <1>4, <2>2, <2>3 DEF Push, WakeOnQueue, HoldsAPacket
<1>5. CASE ReadPacket
  <2>1. UNCHANGED <<next, skipped, pkt>> /\ Held' = Held
    BY <1>5 DEF ReadPacket, demux, reader, Held
  <2>2. CASE mPacketQueue = <<>>
    <3>1. UNCHANGED <<delivered, mPacketQueue>>
      BY <1>5, <2>2 DEF ReadPacket
    <3> QED
      BY <1>0, <1>1, <2>1, <3>1, SameOrder
  <2>3. CASE mPacketQueue # <<>>
    <3> DEFINE h == Head(mPacketQueue)  q == Tail(mPacketQueue)
    <3>1. delivered' = Append(delivered, h) /\ mPacketQueue' = q
      BY <1>5, <2>3 DEF ReadPacket
    <3>2. h \in Position /\ q \in Seq(Position) /\ <<h>> \in Seq(Position)
      BY <1>0, <1>1, <2>3, HeadTailProperties
    <3>3. mPacketQueue = <<h>> \o q
      BY <1>0, <1>1, <2>3
    <3> HIDE DEF h, q
    <3>4. delivered' \o mPacketQueue' = (delivered \o <<h>>) \o q
      BY <1>0, <1>1, <3>1, <3>2, AppendIsConcat
    <3>5. delivered' \o mPacketQueue' = delivered \o mPacketQueue
      <4>1. delivered \in Seq(Position)
        BY <1>0, <1>1
      <4>2. (delivered \o <<h>>) \o q = delivered \o (<<h>> \o q)
        BY ONLY <3>2, <4>1, PiecesAreSequences
      <4> QED
        BY ONLY <3>3, <3>4, <4>2
    <3>6. Made' = Made
      BY <1>0, <1>1, <2>1, <3>5
    <3> QED
      BY <2>1, <3>6, SameOrder
  <2> QED
    BY <2>2, <2>3
<1>6. CASE UNCHANGED <<delivered, mPacketQueue, pkt, next, skipped>>
  <2>1. Held' = Held
    BY <1>6 DEF Held
  <2> QED
    BY <1>0, <1>1, <1>6, <2>1, SameOrder
<1>7. CASE LoopEnds \/ LoopContinues \/ LoopPauses \/ LoopResumes \/ Begin
           \/ ErrorWaitEnds
  BY <1>6, <1>7 DEF LoopEnds, LoopContinues, LoopPauses, LoopResumes, Begin,
     ErrorWaitEnds, Goes, ReaderOnly, client
<1>8. CASE Open \/ \E s \in Streams : OpenStream(s) \/ CloseStream(s)
  BY <1>6, <1>8 DEF Open, OpenStream, CloseStream, reader, client
<1>9. CASE StartUnpauses \/ StopPauses \/ InsideCall
  BY <1>6, <1>9 DEF StartUnpauses, StopPauses, InsideCall, StartThread,
     StopNotifies, StopThread, StopJoins, PlayerAt
<1>10. CASE PreStop \/ PreStopNotifies
  BY <1>6, <1>10 DEF PreStop, PreStopNotifies, demux, reader
<1> QED
  BY <1>2, <1>3, <1>4, <1>5, <1>7, <1>8, <1>9, <1>10 DEF Next, Reader, Client

-----------------------------------------------------------------------------
LEMMA StutterKeepsDemuxerInv ==
  ASSUME DemuxerInv, UNCHANGED vars
  PROVE  DemuxerInv'
<1>1. TypeOK'
  BY DEF DemuxerInv, TypeOK, PacketsTypeOK, ThreadsTypeOK, vars
<1>2. EmptyWhileIdle' /\ HoldsAPacket' /\ StopsPay'
  BY DEF DemuxerInv, EmptyWhileIdle, HoldsAPacket, StopsPay, Excess, MayExceed,
     vars
<1>3. InFileOrderOnce'
  BY DEF DemuxerInv, InFileOrderOnce, Made, Held, vars
<1> QED
  BY <1>1, <1>2, <1>3 DEF DemuxerInv

LEMMA StepKeepsDemuxerInv ==
  ASSUME DemuxerInv, [Next]_vars
  PROVE  DemuxerInv'
<1>1. CASE Next
  BY <1>1, ThreadsKeepTheirTypes, PacketsKeepTheirTypes, StepKeepsTheHolder,
     StepKeepsTheBound, StepKeepsTheOrder DEF DemuxerInv, TypeOK
<1>2. CASE UNCHANGED vars
  BY <1>2, StutterKeepsDemuxerInv
<1> QED
  BY <1>1, <1>2

LEMMA AlwaysDemuxerInv == Spec => []DemuxerInv
  BY InitHolds, StepKeepsDemuxerInv, PTL DEF Spec

(***************************************************************************)
(* The demuxer's state is well typed whatever its two callers do: the read *)
(* thread is always at a place it has, with the flags it has.              *)
(***************************************************************************)
THEOREM DemuxerTypeCorrect == Spec => []TypeOK
<1>1. DemuxerInv => TypeOK
  BY DEF DemuxerInv
<1> QED
  BY AlwaysDemuxerInv, <1>1, PTL

(***************************************************************************)
(* The queue never holds more than MAX_QUEUE_SIZE + 1 packets and one for  *)
(* each stop() or preStop(), for every limit and any number of stops       *)
(* (AVFFDemuxer.cpp:209-218).                                              *)
(***************************************************************************)
THEOREM DemuxerQueueBounded == Spec => []QueueIsBounded
<1>1. DemuxerInv => QueueIsBounded
  <2> SUFFICES ASSUME DemuxerInv PROVE QueueIsBounded
    OBVIOUS
  <2>1. Len(mPacketQueue) \in Nat /\ stops \in Nat /\ MAX_QUEUE_SIZE \in Nat
    BY BoundsAreNumbers DEF DemuxerInv, TypeOK, PacketsTypeOK, ThreadsTypeOK
  <2>2. Excess \in {0, 1}
    BY DEF Excess
  <2> QED
    BY <2>1, <2>2 DEF DemuxerInv, StopsPay, QueueIsBounded
<1> QED
  BY AlwaysDemuxerInv, <1>1, PTL

(***************************************************************************)
(* Whatever the file, the faults and the calls, each packet comes out once *)
(* and in file order, and none is lost on the way from the read thread     *)
(* through the queue to the player.                                        *)
(***************************************************************************)
THEOREM DemuxerKeepsTheOrder == Spec => []InFileOrderOnce
<1>1. DemuxerInv => InFileOrderOnce
  BY DEF DemuxerInv
<1> QED
  BY AlwaysDemuxerInv, <1>1, PTL
=============================================================================
