---------------------------- MODULE PlaybackTape ----------------------------
(***************************************************************************)
(* What a playback queue promises its client: the packets form one tape in *)
(* the order they were added, cut at the cursor into what was played and   *)
(* what is pending.  Reading moves the cut by one packet and then forgets  *)
(* the oldest played packets that the limit has no room for; rewinding     *)
(* moves the cut back to the start; clearing shortens the pending end.     *)
(* MediaPacketQueue implements it with one list, an iterator and counters. *)
(***************************************************************************)
EXTENDS Integers, Sequences

CONSTANTS Packets

VARIABLES
  played, pending,   \* the two parts of the tape
  unit,              \* the duration given to packets that have none
  limit,             \* how much of what was played is kept
  last               \* the identity of the packet last read, 0: none

vars == <<played, pending, unit, limit, last>>

Weight(p) == IF p.duration > 0 /\ ~p.discard THEN p.duration ELSE 0

WeightOf(packets) ==
  LET sum[n \in 0 .. Len(packets)] ==
        IF n = 0 THEN 0 ELSE sum[n - 1] + Weight(packets[n])
  IN  sum[Len(packets)]

\* The longest end of a sequence of packets that fits in the limit.
Kept(packets) ==
  LET fits == {n \in 0 .. Len(packets) :
                 WeightOf(SubSeq(packets, n + 1, Len(packets))) <= limit}
      drop == CHOOSE n \in fits : \A m \in fits : n <= m
  IN IF limit = 0 THEN <<>> ELSE SubSeq(packets, drop + 1, Len(packets))

Init ==
  /\ played = <<>> /\ pending = <<>>
  /\ unit = 0 /\ limit = 0
  /\ last = 0

Add(p) ==
  LET known == IF unit = 0 THEN p.duration ELSE unit
      dated == IF p.duration = 0 THEN [p EXCEPT !.duration = known] ELSE p
  IN /\ unit' = known
     /\ pending' = Append(pending, dated)
     /\ UNCHANGED <<played, limit, last>>

Read ==
  /\ pending # <<>>
  /\ last' = Head(pending).id
  /\ pending' = Tail(pending)
  /\ played' = Kept(Append(played, Head(pending)))
  /\ UNCHANGED <<unit, limit>>

ReadNothing ==
  /\ pending = <<>>
  /\ last' = 0
  /\ UNCHANGED <<played, pending, unit, limit>>

Rewind ==
  /\ played' = <<>>
  /\ pending' = played \o pending
  /\ UNCHANGED <<unit, limit, last>>

SetLimit ==
  /\ limit' \in Nat
  /\ UNCHANGED <<played, pending, unit, last>>

\* Pending packets are skipped: dropped, or counted as played.
Skip ==
  \E n \in 1 .. Len(pending) :
    /\ pending' = SubSeq(pending, n + 1, Len(pending))
    /\ played' = IF limit = 0 THEN <<>> ELSE played \o SubSeq(pending, 1, n)
    /\ UNCHANGED <<unit, limit, last>>

Clear ==
  /\ played' = <<>> /\ pending' = <<>>
  /\ UNCHANGED <<unit, limit, last>>

\* The newest pending packets are erased, never all of them.
Shorten ==
  \E n \in 1 .. Len(pending) - 1 :
    /\ pending' = SubSeq(pending, 1, n)
    /\ UNCHANGED <<played, unit, limit, last>>

Next ==
  \/ \E p \in Packets : Add(p)
  \/ Read \/ ReadNothing \/ Rewind \/ SetLimit
  \/ Clear \/ Skip \/ Shorten

Spec == Init /\ [][Next]_vars
=============================================================================
