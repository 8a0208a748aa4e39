-------------------------- MODULE MediaPacketQueue --------------------------
(***************************************************************************)
(* One playback queue of the BufferController: the demuxed packets of one  *)
(* stream that the decoder has not taken yet, and, when a backward         *)
(* duration is set, the packets already played that are kept so that       *)
(* playback can be rewound (media_player/MediaPacketQueue.cpp).            *)
(*                                                                         *)
(* Every method but rewind and setMaxBackwardDuration holds the queue's    *)
(* recursive mutex, so a method is one action.  The std::list iterator     *)
(* mCurrent is a position of mQueue: 1 is begin(), Len(mQueue) + 1 is      *)
(* end() and 0 an iterator whose element has been erased.                  *)
(***************************************************************************)
EXTENDS Integers, SequencesExt

CONSTANTS
  Packets,            \* the packets the demuxer may deliver
  Calls,              \* the optional methods the client uses
  BackwardDurations,  \* the arguments of setMaxBackwardDuration
  TimePositions,      \* the arguments of the methods that take a time position
  MaxQueue            \* bound: no packet is added to a queue this long

NoTime == -99         \* INT64_MIN, an unset timePosition
Dangling == 0         \* an iterator to an erased element

(***************************************************************************)
(* A packet: its identity, PacketInfo.duration (0: unknown), the duration  *)
(* of the AVPacket it wraps, whether it is discarded, whether it is a key  *)
(* frame, and its timePosition.                                            *)
(***************************************************************************)
Packet == [id: Nat, duration: Nat, avDuration: Nat, discard: BOOLEAN,
           key: BOOLEAN, time: Int]

\* nullptr; its id is no packet's.
NoPacket == [id |-> 0, duration |-> 0, avDuration |-> 0, discard |-> FALSE,
             key |-> FALSE, time |-> NoTime]

AllCalls == {"clear", "clearBefore", "clearAfter", "rewind", "query"}

ASSUME PacketsAssumption ==
  /\ Packets \subseteq Packet
  /\ \A p \in Packets : p.id # NoPacket.id /\ p.avDuration = p.duration
ASSUME ArgumentsAssumption ==
  /\ Calls \subseteq AllCalls
  /\ BackwardDurations \subseteq Nat
  /\ TimePositions \subseteq Int
  /\ MaxQueue \in Nat

VARIABLES
  mQueue,                 \* std::list of packets, front first
  mCurrent,               \* the next packet to hand out
  mPacketDuration,        \* the first duration seen, 0 before
  mMaxBackwardDuration,   \* how much played data is kept
  mDuration,              \* duration of what is not played
  mTotalDuration,         \* duration of the whole queue
  returned,               \* what the last getPacket returned
  fault                   \* "assert" or "deref" once the code has failed

vars == <<mQueue, mCurrent, mPacketDuration, mMaxBackwardDuration,
          mDuration, mTotalDuration, returned, fault>>

TypeOK ==
  /\ mQueue \in Seq(Packet)
  /\ mCurrent \in Nat
  /\ mCurrent <= Len(mQueue) + 1
  /\ mPacketDuration \in Nat
  /\ mMaxBackwardDuration \in Nat
  /\ mDuration \in Int
  /\ mTotalDuration \in Int
  /\ returned \in Packet
  /\ fault \in {"none", "assert", "deref"}

-----------------------------------------------------------------------------
End == Len(mQueue) + 1
AtEnd == mCurrent = End
AtFront == mCurrent = 1

\* What a packet adds to the counters: discarded packets count for nothing.
Counted(p) == IF p.duration > 0 /\ ~p.discard THEN p.duration ELSE 0

SumOf(packets) ==
  LET sum[n \in 0 .. Len(packets)] ==
        IF n = 0 THEN 0 ELSE sum[n - 1] + Counted(packets[n])
  IN  sum[Len(packets)]

Played  == SubSeq(mQueue, 1, mCurrent - 1)
Pending == IF mCurrent = Dangling THEN <<>>
           ELSE SubSeq(mQueue, mCurrent, Len(mQueue))

\* SNAVPacket's copy constructor reads everything back from the AVPacket.
Clone(p) == [p EXCEPT !.duration = p.avDuration, !.time = NoTime]

\* Mutant: the limit itself is already too much.
ExceedsOrEquals(difference, limit) == difference < 0 \/ difference >= limit

\* The comparison of getPacket's loop is made in uint64_t.
Exceeds(difference, limit) == difference < 0 \/ difference > limit

Init ==
  /\ mQueue = <<>>
  /\ mCurrent = 1
  /\ mPacketDuration = 0
  /\ mMaxBackwardDuration = 0
  /\ mDuration = 0
  /\ mTotalDuration = 0
  /\ returned = NoPacket
  /\ fault = "none"

Alive == fault = "none"

\* An assertion that fails, or a read of no element, ends the process.
Fail(kind) ==
  /\ fault' = kind
  /\ UNCHANGED <<mQueue, mCurrent, mPacketDuration, mMaxBackwardDuration,
                 mDuration, mTotalDuration, returned>>

-----------------------------------------------------------------------------
\* Mutant: the duration given is the last one seen.
UnitIsTheLast(p) == IF p.duration > 0 THEN p.duration ELSE mPacketDuration

\* A packet without a duration is given the first one seen.
Unit(p) ==
  IF p.duration > 0 /\ mPacketDuration = 0 THEN p.duration ELSE mPacketDuration

Dated(p) == IF p.duration > 0 THEN p ELSE [p EXCEPT !.duration = mPacketDuration]

\* Mutant: the whole queue's duration counts discarded packets too.
AddPacketCountsDiscarded(p) ==
  /\ Alive
  /\ Len(mQueue) < MaxQueue
  /\ mPacketDuration' = Unit(p)
  /\ mQueue' = Append(mQueue, Dated(p))
  /\ mDuration' = mDuration + Counted(Dated(p))
  /\ mTotalDuration' = mTotalDuration + Dated(p).duration
  /\ mCurrent' = IF mQueue = <<>> THEN 1 ELSE mCurrent
  /\ UNCHANGED <<mMaxBackwardDuration, returned, fault>>

\* Mutant: the packet is counted before it is given a duration.
AddPacketCountsFirst(p) ==
  /\ Alive
  /\ Len(mQueue) < MaxQueue
  /\ mPacketDuration' = Unit(p)
  /\ mQueue' = Append(mQueue, Dated(p))
  /\ mDuration' = mDuration + Counted(p)
  /\ mTotalDuration' = mTotalDuration + Counted(p)
  /\ mCurrent' = IF mQueue = <<>> THEN 1 ELSE mCurrent
  /\ UNCHANGED <<mMaxBackwardDuration, returned, fault>>

AddPacket(p) ==
  /\ Alive
  /\ Len(mQueue) < MaxQueue
  /\ mPacketDuration' = Unit(p)
  /\ mQueue' = Append(mQueue, Dated(p))
  /\ mDuration' = mDuration + Counted(Dated(p))
  /\ mTotalDuration' = mTotalDuration + Counted(Dated(p))
  /\ mCurrent' = IF mQueue = <<>> THEN 1 ELSE mCurrent
  /\ UNCHANGED <<mMaxBackwardDuration, returned, fault>>

\* The condition that getPacket and popFrontPacket assert.
Asserted(total, remaining, current) ==
  total = remaining /\ current = 1

GetPacketAborts ==
  /\ Alive
  /\ mMaxBackwardDuration = 0
  /\ ~Asserted(mTotalDuration, mDuration, mCurrent)
  /\ Fail("assert")

GetNothing ==
  /\ Alive
  /\ mMaxBackwardDuration = 0 => Asserted(mTotalDuration, mDuration, mCurrent)
  /\ mQueue = <<>> \/ AtEnd
  /\ returned' = NoPacket
  /\ UNCHANGED <<mQueue, mCurrent, mPacketDuration, mMaxBackwardDuration,
                 mDuration, mTotalDuration, fault>>

\* Mutant: the iterator is not set back to begin().
GetAndRemoveMovesOn ==
  /\ Alive
  /\ mMaxBackwardDuration = 0
  /\ mQueue # <<>>
  /\ returned' = Head(mQueue)
  /\ mQueue' = Tail(mQueue)
  /\ mCurrent' = mCurrent + 1
  /\ mTotalDuration' = mTotalDuration - Counted(Head(mQueue))
  /\ mDuration' = mDuration - Counted(Head(mQueue))
  /\ UNCHANGED <<mPacketDuration, mMaxBackwardDuration, fault>>

\* Without a backward duration the packet leaves the queue.
GetAndRemove ==
  /\ Alive
  /\ mMaxBackwardDuration = 0
  /\ Asserted(mTotalDuration, mDuration, mCurrent)
  /\ mQueue # <<>>
  /\ returned' = Head(mQueue)
  /\ mQueue' = Tail(mQueue)
  /\ mCurrent' = 1
  /\ mTotalDuration' = mTotalDuration - Counted(Head(mQueue))
  /\ mDuration' = mDuration - Counted(Head(mQueue))
  /\ UNCHANGED <<mPacketDuration, mMaxBackwardDuration, fault>>

(***************************************************************************)
(* With one, a clone is handed out, the cursor moves on, and played        *)
(* packets are dropped from the front while they last longer than the      *)
(* limit.  Loops run over a record of what they change, and each turn      *)
(* erases or passes an element: the queue bounds the turns.                *)
(***************************************************************************)
While(Test(_), Body(_), start) ==
  LET turn[n \in 0 .. Len(start.queue)] ==
        IF n = 0 THEN start
        ELSE LET s == turn[n - 1] IN IF Test(s) THEN Body(s) ELSE s
  IN  turn[Len(start.queue)]

DropPlayed(s) ==
  [s EXCEPT !.queue = Tail(@),
            !.total = @ - Counted(Head(s.queue)),
            !.current = IF @ = 1 THEN 1 ELSE @ - 1]

TooMuchPlayed(s) == Exceeds(s.total - s.remaining, mMaxBackwardDuration)

Trimmed ==
  While(TooMuchPlayed, DropPlayed,
        [queue |-> mQueue, current |-> mCurrent + 1, total |-> mTotalDuration,
         remaining |-> mDuration - Counted(Clone(mQueue[mCurrent]))])

GetAndKeep ==
  /\ Alive
  /\ mMaxBackwardDuration > 0
  /\ mQueue # <<>> /\ ~AtEnd
  /\ mCurrent # Dangling
  /\ IF TooMuchPlayed(Trimmed)
     THEN Fail("assert")
     ELSE /\ returned' = Clone(mQueue[mCurrent])
          /\ mQueue' = Trimmed.queue
          /\ mCurrent' = Trimmed.current
          /\ mTotalDuration' = Trimmed.total
          /\ mDuration' = Trimmed.remaining
          /\ UNCHANGED <<mPacketDuration, mMaxBackwardDuration, fault>>

GetPacket == GetPacketAborts \/ GetNothing \/ GetAndRemove \/ GetAndKeep

-----------------------------------------------------------------------------
\* Mutant: mTotalDuration is not reset.
ClearKeepsTheTotal ==
  /\ Alive
  /\ "clear" \in Calls
  /\ mQueue' = <<>>
  /\ mCurrent' = IF AtEnd THEN 1 ELSE Dangling
  /\ mDuration' = 0
  /\ UNCHANGED <<mTotalDuration, mPacketDuration, mMaxBackwardDuration,
                 returned, fault>>

\* mCurrent is left alone: unless it was end(), it points to an erased element.
Clear ==
  /\ Alive
  /\ "clear" \in Calls
  /\ mQueue' = <<>>
  /\ mCurrent' = IF AtEnd THEN 1 ELSE Dangling
  /\ mDuration' = 0
  /\ mTotalDuration' = 0
  /\ UNCHANGED <<mPacketDuration, mMaxBackwardDuration, returned, fault>>

Rewind ==
  /\ Alive
  /\ "rewind" \in Calls
  /\ mCurrent' = 1
  /\ mDuration' = mTotalDuration
  /\ UNCHANGED <<mQueue, mPacketDuration, mMaxBackwardDuration,
                 mTotalDuration, returned, fault>>

SetMaxBackwardDuration(limit) ==
  /\ Alive
  /\ mMaxBackwardDuration' = limit
  /\ UNCHANGED <<mQueue, mCurrent, mPacketDuration, mDuration,
                 mTotalDuration, returned, fault>>

\* popFrontPacket, with its closing assertion.
PopFrontPacket(s) ==
  LET remaining == s.remaining - Counted(s.queue[s.current])
      total == IF Head(s.queue).discard THEN s.total
               ELSE s.total - Head(s.queue).duration
  IN IF mMaxBackwardDuration = 0
     THEN [queue |-> Tail(s.queue), current |-> 1, total |-> total,
           remaining |-> remaining, ok |-> total = remaining]
     ELSE [s EXCEPT !.current = @ + 1, !.remaining = remaining]

OlderThan(limit, s) ==
  /\ s.ok
  /\ s.current <= Len(s.queue)
  /\ s.queue[s.current].time < limit

ClearedBefore(limit) ==
  LET older(s) == OlderThan(limit, s)
  IN  While(older, PopFrontPacket,
            [queue |-> mQueue, current |-> mCurrent, total |-> mTotalDuration,
             remaining |-> mDuration, ok |-> TRUE])

\* clearPacketBeforeTimePos; clearPacketBeforePts is the same over pts.
ClearPacketBefore(limit) ==
  /\ Alive
  /\ "clearBefore" \in Calls
  /\ IF mCurrent = Dangling
     THEN Fail("deref")
     ELSE IF ~ClearedBefore(limit).ok
     THEN Fail("assert")
     ELSE /\ mQueue' = ClearedBefore(limit).queue
          /\ mCurrent' = ClearedBefore(limit).current
          /\ mTotalDuration' = ClearedBefore(limit).total
          /\ mDuration' = ClearedBefore(limit).remaining
          /\ UNCHANGED <<mPacketDuration, mMaxBackwardDuration, returned, fault>>

Newest(s) == s.queue[Len(s.queue)]

BehindCurrent(s) == ~s.found /\ Len(s.queue) > mCurrent

EraseBack(limit, s) ==
  [s EXCEPT !.queue = SubSeq(@, 1, Len(@) - 1),
            !.cleared = @ + Counted(Newest(s)),
            !.found = Newest(s).time <= limit]

\* From the back, the first packet that is not after the limit included.
ClearedAfter(limit) ==
  LET eraseBack(s) == EraseBack(limit, s)
  IN  While(BehindCurrent, eraseBack,
            [queue |-> mQueue, cleared |-> 0, found |-> FALSE])

\* clearPacketAfterTimePosition never erases the current packet, and reads
\* back() and *mCurrent before it tests anything.
ClearPacketAfter(limit) ==
  /\ Alive
  /\ "clearAfter" \in Calls
  /\ IF AtEnd \/ mCurrent = Dangling
     THEN Fail("deref")
     ELSE /\ mQueue' = ClearedAfter(limit).queue
          /\ mDuration' = mDuration - ClearedAfter(limit).cleared
          /\ mTotalDuration' = mTotalDuration - ClearedAfter(limit).cleared
          /\ UNCHANGED <<mCurrent, mPacketDuration, mMaxBackwardDuration,
                         returned, fault>>

-----------------------------------------------------------------------------
(***************************************************************************)
(* The queries change nothing.  The three key frame queries compare each   *)
(* packet with *mCurrent, whatever mCurrent is, and one that meets no      *)
(* answer in its first step dereferences it; getSize walks from mCurrent.  *)
(***************************************************************************)
QueryFaults(limit) ==
  /\ Alive
  /\ "query" \in Calls
  /\ \/ mCurrent = Dangling
     \/ /\ mQueue # <<>>
        /\ AtEnd
        /\ ~(Head(mQueue).key /\ Head(mQueue).time < limit)
  /\ Fail("deref")

Next ==
  \/ \E p \in Packets : AddPacket(p)
  \/ GetPacket
  \/ Clear
  \/ Rewind
  \/ \E limit \in BackwardDurations : SetMaxBackwardDuration(limit)
  \/ \E limit \in TimePositions :
       ClearPacketBefore(limit) \/ ClearPacketAfter(limit) \/ QueryFaults(limit)

Spec == Init /\ [][Next]_vars

-----------------------------------------------------------------------------
(***************************************************************************)
(* No sequence of the client's calls reaches one of the code's assertions  *)
(* or dereferences an iterator that is not at an element.                  *)
(***************************************************************************)
NoFault == fault = "none"

(***************************************************************************)
(* The assertions of getPacket and popFrontPacket hold: "when no backward  *)
(* buffer is needed the condition that follows should hold"                *)
(* (MediaPacketQueue.cpp:80).                                              *)
(***************************************************************************)
NoAbort == fault # "assert"

(***************************************************************************)
(* The counters are the durations they stand for, whatever was forged,     *)
(* handed out, rewound or cleared: mDuration of the packets not played,    *)
(* mTotalDuration of the whole queue (MediaPacketQueue.h:102-107).         *)
(***************************************************************************)
DurationAccounting ==
  Alive => mDuration = SumOf(Pending) /\ mTotalDuration = SumOf(mQueue)

(***************************************************************************)
(* The list, its iterator and its counters implement the tape: nothing is  *)
(* lost, repeated or reordered, and trimming never reaches what is unread. *)
(***************************************************************************)
Tape == INSTANCE PlaybackTape WITH
  played <- Played, pending <- Pending,
  unit <- mPacketDuration, limit <- mMaxBackwardDuration,
  last <- returned.id

ImplementsTape == Tape!Spec
=============================================================================
