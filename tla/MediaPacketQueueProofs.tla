----------------------- MODULE MediaPacketQueueProofs -----------------------
(***************************************************************************)
(* Theorems about one playback queue, in three parts.  As the player uses  *)
(* it - addPacket, getPacket, rewind and the queries, never a backward     *)
(* duration - the assertions of the code hold.  However it is used, the    *)
(* counters are the durations they stand for, as long as no packet with a  *)
(* forged duration is kept; and the list implements the tape, as long as a *)
(* limit is not taken back to 0.  All for any packets, limits and times.   *)
(***************************************************************************)
EXTENDS MediaPacketQueue, WellFoundedInduction, TLAPS

PlayerUse ==
  /\ Calls \subseteq {"rewind", "query"}
  /\ BackwardDurations = {}

\* Nothing played is kept, so the cursor stays at the front and the two
\* counters move together.
ForwardOnly ==
  /\ mMaxBackwardDuration = 0
  /\ mCurrent = 1
  /\ mDuration = mTotalDuration

PlayerInv == TypeOK /\ ForwardOnly /\ fault = "none"

\* What addPacket stores is a packet, and it counts for a natural number.
LEMMA DatedPacket ==
  ASSUME NEW p \in Packet, mPacketDuration \in Nat
  PROVE  /\ Dated(p) \in Packet
         /\ Counted(Dated(p)) \in Nat
         /\ Unit(p) \in Nat
  BY DEF Packet, Dated, Counted, Unit

\* The empty queue is in the invariant: every counter is 0.
LEMMA PlayerInit == Init => PlayerInv
  BY DEF Init, PlayerInv, TypeOK, ForwardOnly, Packet, NoPacket, NoTime

\* addPacket adds the same amount to both counters and leaves the cursor.
LEMMA AddKeepsPlayerInv ==
  ASSUME PlayerInv, NEW p \in Packets, AddPacket(p)
  PROVE  PlayerInv'
<1>1. p \in Packet
  BY PacketsAssumption
<1>2. Dated(p) \in Packet /\ Counted(Dated(p)) \in Nat /\ Unit(p) \in Nat
  BY <1>1, DatedPacket DEF PlayerInv, TypeOK
<1>3. mQueue' \in Seq(Packet) /\ Len(mQueue') = Len(mQueue) + 1
  BY <1>2 DEF PlayerInv, TypeOK, AddPacket
<1>4. mCurrent' = 1
  BY DEF PlayerInv, ForwardOnly, AddPacket
<1> QED
  BY <1>2, <1>3, <1>4 DEF PlayerInv, TypeOK, ForwardOnly, AddPacket

\* getPacket passes its assertion and takes the front packet off both.
LEMMA GetKeepsPlayerInv ==
  ASSUME PlayerInv, GetPacket
  PROVE  PlayerInv'
<1>1. CASE GetPacketAborts
  BY <1>1 DEF GetPacketAborts, Asserted, PlayerInv, ForwardOnly
<1>2. CASE GetNothing
  BY <1>2 DEF GetNothing, PlayerInv, TypeOK, ForwardOnly, Packet, NoPacket, NoTime
<1>3. CASE GetAndRemove
  <2>1. Head(mQueue) \in Packet /\ Tail(mQueue) \in Seq(Packet)
    BY <1>3 DEF GetAndRemove, PlayerInv, TypeOK
  <2>2. Counted(Head(mQueue)) \in Nat
    BY <2>1 DEF Counted, Packet
  <2>3. mCurrent' = 1 /\ mQueue' \in Seq(Packet) /\ 1 <= Len(mQueue') + 1
    BY <1>3, <2>1 DEF GetAndRemove
  <2> QED
    BY <1>3, <2>1, <2>2, <2>3 DEF GetAndRemove, PlayerInv, TypeOK, ForwardOnly
<1>4. CASE GetAndKeep
  BY <1>4 DEF GetAndKeep, PlayerInv, ForwardOnly
<1> QED
  BY <1>1, <1>2, <1>3, <1>4 DEF GetPacket

\* A query never meets an iterator it may not read: the cursor is at the
\* front, which is end() only when the queue is empty.
LEMMA QueriesAreSafe ==
  ASSUME PlayerInv, NEW limit
  PROVE  ~QueryFaults(limit)
<1>1. mQueue # <<>> => ~AtEnd
  BY DEF AtEnd, End, PlayerInv, TypeOK, ForwardOnly
<1> QED
  BY <1>1 DEF QueryFaults, PlayerInv, ForwardOnly, Dangling

\* Every step the player can take keeps the invariant.
LEMMA PlayerStep ==
  ASSUME PlayerUse, PlayerInv, [Next]_vars
  PROVE  PlayerInv'
<1>1. ASSUME NEW p \in Packets, AddPacket(p) PROVE PlayerInv'
  BY <1>1, AddKeepsPlayerInv
<1>2. CASE GetPacket
  BY <1>2, GetKeepsPlayerInv
<1>3. CASE Clear
  BY <1>3 DEF Clear, PlayerUse
<1>4. CASE Rewind
  BY <1>4 DEF Rewind, PlayerInv, TypeOK, ForwardOnly
<1>5. ASSUME NEW limit \in BackwardDurations, SetMaxBackwardDuration(limit)
      PROVE  PlayerInv'
  BY <1>5 DEF PlayerUse
<1>6. ASSUME NEW limit \in TimePositions,
             ClearPacketBefore(limit) \/ ClearPacketAfter(limit)
      PROVE  PlayerInv'
  BY <1>6 DEF ClearPacketBefore, ClearPacketAfter, PlayerUse
<1>7. ASSUME NEW limit \in TimePositions, QueryFaults(limit) PROVE PlayerInv'
  BY <1>7, QueriesAreSafe
<1>8. CASE UNCHANGED vars
  BY <1>8 DEF vars, PlayerInv, TypeOK, ForwardOnly
<1> QED
  BY <1>1, <1>2, <1>3, <1>4, <1>5, <1>6, <1>7, <1>8 DEF Next

\* In the player's use the invariant holds in every state.
LEMMA PlayerInvariance ==
  ASSUME PlayerUse
  PROVE  Spec => []PlayerInv
<1>1. PlayerInv /\ [Next]_vars => PlayerInv'
  BY PlayerStep
<1> QED
  BY <1>1, PlayerInit, PTL DEF Spec

(***************************************************************************)
(* In the player's use no assertion of the queue fails and no iterator is  *)
(* misused, whatever packets arrive and however the calls interleave.      *)
(***************************************************************************)
THEOREM PlayerNeverFaults ==
  ASSUME PlayerUse
  PROVE  Spec => []NoFault
<1>1. PlayerInv => NoFault
  BY DEF PlayerInv, NoFault
<1> QED
  BY <1>1, PlayerInvariance, PTL

(***************************************************************************)
(* In the player's use every variable keeps its type: the counters are     *)
(* numbers and the cursor is a position of the list.                       *)
(***************************************************************************)
THEOREM PlayerTypeCorrect ==
  ASSUME PlayerUse
  PROVE  Spec => []TypeOK
<1>1. PlayerInv => TypeOK
  BY DEF PlayerInv
<1> QED
  BY <1>1, PlayerInvariance, PTL


-----------------------------------------------------------------------------
(***************************************************************************)
(* Induction, from the library's theorem that every set of numbers with a  *)
(* member has a minimal one.                                               *)
(***************************************************************************)
\* Every set of natural numbers that is not empty has a least one.
LEMMA MinimalElement ==
  ASSUME NEW T, T \subseteq Nat, T # {},
         NEW Less, IsWellFoundedOn(Less, Nat)
  PROVE  \E x \in T : \A y \in T : <<y, x>> \notin Less
  BY WFMin, Zenon

LEMMA LeastNumber ==
  ASSUME NEW T, T \subseteq Nat, T # {}
  PROVE  \E x \in T : \A y \in T : x <= y
<1>1. IsWellFoundedOn({pair \in Nat \X Nat : pair[1] < pair[2]}, Nat)
  BY NatLessThanWellFounded, Zenon DEF OpToRel
<1>2. PICK x \in T :
        \A y \in T : <<y, x>> \notin {pair \in Nat \X Nat : pair[1] < pair[2]}
  BY <1>1, MinimalElement, Zenon
<1>3. ASSUME NEW y \in T PROVE x <= y
  <2>1. x \in Nat /\ y \in Nat
    OBVIOUS
  <2>2. ~(y < x)
    <3>1. ASSUME y < x
          PROVE  <<y, x>> \in {pair \in Nat \X Nat : pair[1] < pair[2]}
      BY <2>1, <3>1
    <3> QED
      BY <1>2, <3>1
  <2> QED
    BY <2>1, <2>2
<1> QED
  BY <1>3

\* What holds of 0, and with n of n + 1, holds of every natural number.
LEMMA InductionOnSets ==
  ASSUME NEW S, 0 \in S, \A n \in Nat : n \in S => n + 1 \in S
  PROVE  Nat \subseteq S
<1> SUFFICES ASSUME Nat \ S # {} PROVE FALSE
  OBVIOUS
<1>1. PICK x \in Nat \ S : \A y \in Nat \ S : x <= y
  <2>1. \A T : T \subseteq Nat /\ T # {} => \E x \in T : \A y \in T : x <= y
    BY LeastNumber
  <2> QED
    BY <2>1
<1>2. x - 1 \in Nat /\ x - 1 \in S
  BY <1>1
<1> QED
  BY <1>1, <1>2

-----------------------------------------------------------------------------
(***************************************************************************)
(* What SumOf computes, for a queue of any length.                         *)
(***************************************************************************)
\* f[n] is what the first n packets of q count for.
Sums(f, q) ==
  f = [n \in 0 .. Len(q) |-> IF n = 0 THEN 0 ELSE f[n - 1] + Counted(q[n])]

LEMMA CountedIsNat ==
  ASSUME NEW q \in Seq(Packet), NEW n \in 1 .. Len(q)
  PROVE  Counted(q[n]) \in Nat
<1>1. q[n] \in Packet
  OBVIOUS
<1> QED
  BY <1>1 DEF Counted, Packet

LEMMA SumsStepByStep ==
  ASSUME NEW q \in Seq(Packet), NEW f, Sums(f, q)
  PROVE  f[0] = 0 /\ \A n \in 1 .. Len(q) : f[n] = f[n - 1] + Counted(q[n])
<1> DEFINE step(n) == IF n = 0 THEN 0 ELSE f[n - 1] + Counted(q[n])
<1>1. Len(q) \in Nat /\ f = [n \in 0 .. Len(q) |-> step(n)]
  BY DEF Sums
<1> HIDE DEF step
<1>2. \A n \in 0 .. Len(q) : f[n] = step(n)
  BY <1>1
<1> QED
  BY <1>1, <1>2 DEF step

LEMMA SumsExist ==
  ASSUME NEW q \in Seq(Packet)
  PROVE  \E f \in [0 .. Len(q) -> Nat] : Sums(f, q)
<1> DEFINE UpTo(f, m) == f[0] = 0 /\ \A n \in 1 .. m : f[n] = f[n - 1] + Counted(q[n])
           S == {m \in Nat : m <= Len(q) => \E f \in [0 .. m -> Nat] : UpTo(f, m)}
<1>1. 0 \in S
  <2>1. [n \in 0 .. 0 |-> 0] \in [0 .. 0 -> Nat] /\ UpTo([n \in 0 .. 0 |-> 0], 0)
    OBVIOUS
  <2> QED
    BY <2>1
<1>2. ASSUME NEW m \in Nat, m \in S PROVE m + 1 \in S
  <2>1. ASSUME m + 1 <= Len(q)
        PROVE  \E g \in [0 .. m + 1 -> Nat] : UpTo(g, m + 1)
    <3>1. m <= Len(q)
      BY <2>1
    <3>2. PICK f \in [0 .. m -> Nat] : UpTo(f, m)
      BY <1>2, <3>1
    <3> DEFINE g == [n \in 0 .. m + 1 |->
                       IF n = m + 1 THEN f[m] + Counted(q[m + 1]) ELSE f[n]]
    <3>3. f[m] \in Nat /\ Counted(q[m + 1]) \in Nat
      BY <2>1, CountedIsNat
    <3>4. g \in [0 .. m + 1 -> Nat]
      BY <3>3
    <3>5. UpTo(g, m + 1)
      <4>1. g[0] = 0
        BY <3>2
      <4>2. ASSUME NEW n \in 1 .. m + 1
            PROVE  g[n] = g[n - 1] + Counted(q[n])
        <5>1. n - 1 \in 0 .. m /\ g[n - 1] = f[n - 1]
          OBVIOUS
        <5>2. CASE n = m + 1
          BY <5>1, <5>2
        <5>3. CASE n # m + 1
          <6>1. n \in 1 .. m /\ g[n] = f[n]
            BY <5>3
          <6> QED
            BY <3>2, <5>1, <6>1
        <5> QED
          BY <5>2, <5>3
      <4> QED
        BY <4>1, <4>2
    <3> QED
      BY <3>4, <3>5
  <2>2. m + 1 \in Nat
    OBVIOUS
  <2> HIDE DEF UpTo
  <2> QED
    BY <2>1, <2>2
<1> HIDE DEF S
<1>3. Nat \subseteq S
  BY <1>1, <1>2, InductionOnSets
<1>4. Len(q) \in S
  BY <1>3
<1>5. PICK f \in [0 .. Len(q) -> Nat] : UpTo(f, Len(q))
  BY <1>4 DEF S
<1>6. Sums(f, q)
  BY <1>5 DEF Sums
<1> QED
  BY <1>6

LEMMA SumsAreUnique ==
  ASSUME NEW q \in Seq(Packet), NEW f, NEW g, Sums(f, q), Sums(g, q)
  PROVE  f = g
<1> DEFINE S == {m \in Nat : m <= Len(q) => f[m] = g[m]}
<1>0. /\ f[0] = 0 /\ \A n \in 1 .. Len(q) : f[n] = f[n - 1] + Counted(q[n])
      /\ g[0] = 0 /\ \A n \in 1 .. Len(q) : g[n] = g[n - 1] + Counted(q[n])
  BY SumsStepByStep
<1>1. 0 \in S
  BY <1>0
<1>2. ASSUME NEW m \in Nat, m \in S PROVE m + 1 \in S
  <2>1. CASE m + 1 <= Len(q)
    <3>1. m + 1 \in 1 .. Len(q) /\ (m + 1) - 1 = m /\ f[m] = g[m]
      BY <1>2, <2>1
    <3>2. f[m + 1] = f[m] + Counted(q[m + 1]) /\ g[m + 1] = g[m] + Counted(q[m + 1])
      BY <1>0, <3>1
    <3> QED
      BY <3>1, <3>2
  <2>2. CASE ~(m + 1 <= Len(q))
    BY <2>2
  <2> QED
    BY <2>1, <2>2
<1> HIDE DEF S
<1>3. Nat \subseteq S
  BY <1>1, <1>2, InductionOnSets
<1>4. \A n \in 0 .. Len(q) : f[n] = g[n]
  BY <1>3 DEF S
<1> QED
  BY <1>4 DEF Sums

\* SumOf is the last of the sums, whichever function lists them.
LEMMA SumOfIsTheLast ==
  ASSUME NEW q \in Seq(Packet), NEW f, Sums(f, q)
  PROVE  SumOf(q) = f[Len(q)] /\ f \in [0 .. Len(q) -> Nat]
<1>1. PICK h \in [0 .. Len(q) -> Nat] : Sums(h, q)
  BY SumsExist
<1>2. \E g : Sums(g, q) /\ SumOf(q) = g[Len(q)]
  BY <1>1, Zenon DEF SumOf, Sums
<1>3. PICK g : Sums(g, q) /\ SumOf(q) = g[Len(q)]
  BY <1>2
<1> QED
  BY <1>1, <1>3, SumsAreUnique

LEMMA SumOfIsNat ==
  ASSUME NEW q \in Seq(Packet)
  PROVE  SumOf(q) \in Nat
<1>1. PICK f \in [0 .. Len(q) -> Nat] : Sums(f, q)
  BY SumsExist
<1>2. SumOf(q) = f[Len(q)]
  BY <1>1, SumOfIsTheLast
<1> QED
  BY <1>1, <1>2

\* A packet at the end adds what it counts for, and none counts for nothing.
LEMMA SumOfAppend ==
  ASSUME NEW q \in Seq(Packet), NEW p \in Packet
  PROVE  SumOf(Append(q, p)) = SumOf(q) + Counted(p) /\ SumOf(q) \in Nat
<1> DEFINE r == Append(q, p)
<1>1. r \in Seq(Packet) /\ Len(r) = Len(q) + 1 /\ r[Len(q) + 1] = p
      /\ \A i \in 1 .. Len(q) : r[i] = q[i]
  OBVIOUS
<1> HIDE DEF r
<1>2. PICK f \in [0 .. Len(r) -> Nat] : Sums(f, r)
  BY <1>1, SumsExist
<1> DEFINE g == [n \in 0 .. Len(q) |-> f[n]]
<1>3. f[0] = 0 /\ \A n \in 1 .. Len(r) : f[n] = f[n - 1] + Counted(r[n])
  BY <1>1, <1>2, SumsStepByStep
<1>4. Sums(g, q)
  <2>1. ASSUME NEW n \in 0 .. Len(q)
        PROVE  g[n] = IF n = 0 THEN 0 ELSE g[n - 1] + Counted(q[n])
    <3>1. CASE n = 0
      BY <1>3, <3>1
    <3>2. CASE n # 0
      <4>1. n \in 1 .. Len(q) /\ n \in 1 .. Len(r) /\ n - 1 \in 0 .. Len(q)
        BY <1>1, <3>2
      <4> QED
        BY <1>1, <1>3, <3>2, <4>1
    <3> QED
      BY <3>1, <3>2
  <2> QED
    BY <2>1 DEF Sums
<1>5. SumOf(r) = f[Len(r)] /\ SumOf(q) = g[Len(q)] /\ g \in [0 .. Len(q) -> Nat]
  BY <1>1, <1>2, <1>4, SumOfIsTheLast
<1>6. f[Len(q) + 1] = f[Len(q)] + Counted(p)
  BY <1>1, <1>3
<1>7. SumOf(q) \in Nat
  BY <1>5
<1> QED
  BY <1>1, <1>5, <1>6, <1>7 DEF r

\* Without its first packet a queue counts for so much less.
LEMMA SumOfTail ==
  ASSUME NEW q \in Seq(Packet), q # <<>>
  PROVE  SumOf(Tail(q)) = SumOf(q) - Counted(Head(q))
<1> DEFINE r == Tail(q)
<1>1. r \in Seq(Packet) /\ Len(r) = Len(q) - 1 /\ Head(q) = q[1]
      /\ Len(q) \in Nat \ {0} /\ \A i \in 1 .. Len(r) : r[i] = q[i + 1]
  OBVIOUS
<1> HIDE DEF r
<1>2. PICK f \in [0 .. Len(q) -> Nat] : Sums(f, q)
  BY SumsExist
<1> DEFINE g == [n \in 0 .. Len(r) |-> f[n + 1] - Counted(q[1])]
<1>3. f[0] = 0 /\ \A n \in 1 .. Len(q) : f[n] = f[n - 1] + Counted(q[n])
  BY <1>2, SumsStepByStep
<1>4. Sums(g, r)
  <2>1. ASSUME NEW n \in 0 .. Len(r)
        PROVE  g[n] = IF n = 0 THEN 0 ELSE g[n - 1] + Counted(r[n])
    <3>0. Counted(q[1]) \in Nat /\ f[1] = f[0] + Counted(q[1])
      <4>1. 1 \in 1 .. Len(q) /\ 1 - 1 = 0
        BY <1>1
      <4> QED
        BY <1>3, <4>1, CountedIsNat
    <3>1. CASE n = 0
      BY <1>1, <1>3, <3>0, <3>1
    <3>2. CASE n # 0
      <4>1. n \in 1 .. Len(r) /\ n + 1 \in 1 .. Len(q) /\ n - 1 \in 0 .. Len(r)
            /\ (n + 1) - 1 = n /\ (n - 1) + 1 = n /\ n \in 0 .. Len(q)
        BY <1>1, <3>2
      <4>2. f[n + 1] = f[n] + Counted(q[n + 1])
        BY <1>3, <4>1
      <4>3. g[n - 1] = f[n] - Counted(q[1]) /\ g[n] = f[n + 1] - Counted(q[1])
        BY <4>1
      <4>4. Counted(q[n + 1]) \in Nat /\ f[n] \in Nat /\ r[n] = q[n + 1]
        BY <1>1, <1>2, <4>1, CountedIsNat
      <4> QED
        BY <3>0, <3>2, <4>2, <4>3, <4>4
    <3> QED
      BY <3>1, <3>2
  <2> QED
    BY <2>1 DEF Sums
<1>5. SumOf(q) = f[Len(q)] /\ SumOf(r) = g[Len(r)]
  BY <1>1, <1>2, <1>4, SumOfIsTheLast
<1>6. g[Len(r)] = f[Len(q)] - Counted(q[1])
  BY <1>1
<1> QED
  BY <1>1, <1>5, <1>6 DEF r

LEMMA SumOfNothing == SumOf(<<>>) = 0
<1>1. Sums([n \in 0 .. 0 |-> 0], <<>>)
  BY DEF Sums
<1>2. <<>> \in Seq(Packet) /\ Len(<<>>) = 0
  OBVIOUS
<1> QED
  BY <1>1, <1>2, SumOfIsTheLast

-----------------------------------------------------------------------------
(***************************************************************************)
(* Parts of a queue, and what they count for.                              *)
(***************************************************************************)
\* A sequence cut before its first element.
LEMMA CutAtFront ==
  ASSUME NEW q \in Seq(Packet)
  PROVE  SubSeq(q, 1, 1 - 1) = <<>> /\ SubSeq(q, 1, Len(q)) = q
  OBVIOUS

\* What the packets from position n on count for.
Rest(q, n) == SumOf(SubSeq(q, n, Len(q)))

LEMMA SameSequence ==
  ASSUME NEW a \in Seq(Packet), NEW b \in Seq(Packet), Len(a) = Len(b),
         \A i \in 1 .. Len(a) : a[i] = b[i]
  PROVE  a = b
  OBVIOUS

LEMMA PartOf ==
  ASSUME NEW q \in Seq(Packet), NEW n \in 1 .. Len(q) + 1
  PROVE  /\ SubSeq(q, n, Len(q)) \in Seq(Packet)
         /\ Len(SubSeq(q, n, Len(q))) = Len(q) - n + 1
         /\ \A i \in 1 .. Len(q) - n + 1 : SubSeq(q, n, Len(q))[i] = q[n + i - 1]
  OBVIOUS

LEMMA TailIsPart ==
  ASSUME NEW q \in Seq(Packet), q # <<>>
  PROVE  Tail(q) = SubSeq(q, 2, Len(q))
  OBVIOUS

LEMMA RestIsNat ==
  ASSUME NEW q \in Seq(Packet), NEW n \in 1 .. Len(q) + 1
  PROVE  Rest(q, n) \in Nat
  BY PartOf, SumOfIsNat DEF Rest

LEMMA RestOfAll ==
  ASSUME NEW q \in Seq(Packet)
  PROVE  Rest(q, 1) = SumOf(q) /\ Rest(q, Len(q) + 1) = 0
<1>1. SubSeq(q, 1, Len(q)) = q
  OBVIOUS
<1>2. SubSeq(q, Len(q) + 1, Len(q)) = <<>>
  OBVIOUS
<1> QED
  BY <1>1, <1>2, SumOfNothing DEF Rest

LEMMA RestWithoutNext ==
  ASSUME NEW q \in Seq(Packet), NEW n \in 1 .. Len(q)
  PROVE  Rest(q, n) = Counted(q[n]) + Rest(q, n + 1) /\ Counted(q[n]) \in Nat
<1> DEFINE a == SubSeq(q, n, Len(q))
           b == SubSeq(q, n + 1, Len(q))
<1>1. a \in Seq(Packet) /\ Len(a) = Len(q) - n + 1
      /\ \A i \in 1 .. Len(q) - n + 1 : a[i] = q[n + i - 1]
  BY PartOf
<1>2. b \in Seq(Packet) /\ Len(b) = Len(q) - n
      /\ \A i \in 1 .. Len(q) - n : b[i] = q[n + i]
  OBVIOUS
<1> HIDE DEF a, b
<1>3. Len(q) \in Nat /\ Len(a) \in Nat \ {0} /\ a # <<>>
  BY <1>1
<1>4. Tail(a) \in Seq(Packet) /\ Len(Tail(a)) = Len(a) - 1
      /\ \A i \in 1 .. Len(a) - 1 : Tail(a)[i] = a[i + 1]
  BY <1>1, <1>3
<1>5. Tail(a) = b
  <2>1. Len(Tail(a)) = Len(b)
    BY <1>1, <1>2, <1>3, <1>4
  <2>2. ASSUME NEW i \in 1 .. Len(Tail(a)) PROVE Tail(a)[i] = b[i]
    <3>1. i \in 1 .. Len(a) - 1 /\ i + 1 \in 1 .. Len(q) - n + 1
          /\ i \in 1 .. Len(q) - n /\ n + (i + 1) - 1 = n + i
      BY <1>1, <1>3, <1>4
    <3> QED
      BY <1>1, <1>2, <1>4, <3>1
  <2> QED
    BY <1>2, <1>4, <2>1, <2>2, SameSequence
<1>6. Head(a) = q[n]
  <2>1. 1 \in 1 .. Len(q) - n + 1 /\ n + 1 - 1 = n
    BY <1>3
  <2> QED
    BY <1>1, <1>3, <2>1
<1>7. SumOf(b) = SumOf(a) - Counted(q[n])
  BY <1>1, <1>3, <1>5, <1>6, SumOfTail
<1>8. SumOf(a) \in Nat /\ SumOf(b) \in Nat /\ Counted(q[n]) \in Nat
  BY <1>1, <1>2, SumOfIsNat, CountedIsNat
<1> QED
  BY <1>7, <1>8 DEF Rest, a, b

LEMMA RestOfTail ==
  ASSUME NEW q \in Seq(Packet), NEW n \in 1 .. Len(q)
  PROVE  /\ Tail(q) \in Seq(Packet) /\ Len(Tail(q)) = Len(q) - 1
         /\ Rest(Tail(q), n) = Rest(q, n + 1)
<1>0. q # <<>> /\ Len(q) \in Nat
  OBVIOUS
<1> DEFINE t == Tail(q)
<1>1. t \in Seq(Packet) /\ Len(t) = Len(q) - 1
      /\ \A i \in 1 .. Len(q) - 1 : t[i] = q[i + 1]
  BY <1>0
<1> HIDE DEF t
<1> DEFINE a == SubSeq(t, n, Len(t))
           b == SubSeq(q, n + 1, Len(q))
<1>2. a \in Seq(Packet) /\ Len(a) = Len(q) - n
      /\ \A i \in 1 .. Len(q) - n : a[i] = t[n + i - 1]
  <2>1. n \in 1 .. Len(t) + 1
    BY <1>0, <1>1
  <2>2. Len(t) - n + 1 = Len(q) - n
    BY <1>0, <1>1
  <2> QED
    BY <1>1, <2>1, <2>2, PartOf
<1>3. b \in Seq(Packet) /\ Len(b) = Len(q) - n
      /\ \A i \in 1 .. Len(q) - n : b[i] = q[n + i]
  OBVIOUS
<1> HIDE DEF a, b
<1>4. ASSUME NEW i \in 1 .. Len(a) PROVE a[i] = b[i]
  <2>1. i \in 1 .. Len(q) - n /\ n + i - 1 \in 1 .. Len(q) - 1
        /\ (n + i - 1) + 1 = n + i
    BY <1>0, <1>2
  <2> QED
    BY <1>1, <1>2, <1>3, <2>1
<1>5. a = b
  BY <1>2, <1>3, <1>4, SameSequence
<1> QED
  BY <1>1, <1>5 DEF Rest, a, b, t

LEMMA RestOfAppend ==
  ASSUME NEW q \in Seq(Packet), NEW p \in Packet, NEW n \in 1 .. Len(q) + 1
  PROVE  Rest(Append(q, p), n) = Rest(q, n) + Counted(p)
<1> DEFINE r == Append(q, p)
<1>1. r \in Seq(Packet) /\ Len(r) = Len(q) + 1 /\ r[Len(q) + 1] = p
      /\ \A i \in 1 .. Len(q) : r[i] = q[i]
  OBVIOUS
<1>0. Len(q) \in Nat
  OBVIOUS
<1> HIDE DEF r
<1> DEFINE a == SubSeq(r, n, Len(r))
           b == SubSeq(q, n, Len(q))
           c == Append(b, p)
<1>2. a \in Seq(Packet) /\ Len(a) = Len(q) - n + 2
      /\ \A i \in 1 .. Len(q) - n + 2 : a[i] = r[n + i - 1]
  <2>1. n \in 1 .. Len(r) + 1 /\ Len(r) - n + 1 = Len(q) - n + 2
    BY <1>0, <1>1
  <2> QED
    BY <1>1, <2>1, PartOf
<1>3. b \in Seq(Packet) /\ Len(b) = Len(q) - n + 1
      /\ \A i \in 1 .. Len(q) - n + 1 : b[i] = q[n + i - 1]
  BY PartOf
<1> HIDE DEF a, b
<1>4. c \in Seq(Packet) /\ Len(c) = Len(b) + 1 /\ c[Len(b) + 1] = p
      /\ \A i \in 1 .. Len(b) : c[i] = b[i]
  BY <1>3
<1> HIDE DEF c
<1>5. ASSUME NEW i \in 1 .. Len(a) PROVE a[i] = c[i]
  <2>1. CASE i = Len(b) + 1
    <3>1. n + i - 1 = Len(q) + 1 /\ i \in 1 .. Len(q) - n + 2
      BY <1>0, <1>2, <1>3, <2>1
    <3> QED
      BY <1>1, <1>2, <1>4, <2>1, <3>1
  <2>2. CASE i # Len(b) + 1
    <3>0. n \in Nat /\ i \in Nat /\ 1 <= i /\ i <= Len(q) - n + 2
          /\ i # Len(q) - n + 2
      BY <1>0, <1>2, <1>3, <2>2
    <3>1. i \in 1 .. Len(b) /\ i \in 1 .. Len(q) - n + 1
          /\ i \in 1 .. Len(q) - n + 2
      BY <1>0, <1>3, <3>0
    <3>2. n + i - 1 \in 1 .. Len(q)
      BY <1>0, <3>1
    <3> QED
      BY <1>1, <1>2, <1>3, <1>4, <3>1, <3>2
  <2> QED
    BY <2>1, <2>2
<1>6. a = c
  <2>1. Len(a) = Len(c)
    BY <1>0, <1>2, <1>3, <1>4
  <2> QED
    BY <1>2, <1>4, <1>5, <2>1, SameSequence
<1>7. SumOf(c) = SumOf(b) + Counted(p)
  BY <1>3, SumOfAppend DEF c
<1> QED
  BY <1>6, <1>7 DEF Rest, a, b, r

\* Without the last packet every rest is shorter by it.
LEMMA RestOfFront ==
  ASSUME NEW q \in Seq(Packet), q # <<>>, NEW n \in 1 .. Len(q)
  PROVE  /\ SubSeq(q, 1, Len(q) - 1) \in Seq(Packet)
         /\ Len(SubSeq(q, 1, Len(q) - 1)) = Len(q) - 1
         /\ Rest(q, n) = Rest(SubSeq(q, 1, Len(q) - 1), n) + Counted(q[Len(q)])
<1> DEFINE f == SubSeq(q, 1, Len(q) - 1)
<1>1. f \in Seq(Packet) /\ Len(f) = Len(q) - 1 /\ Len(q) \in Nat \ {0}
      /\ \A i \in 1 .. Len(q) - 1 : f[i] = q[i]
  OBVIOUS
<1>2. q[Len(q)] \in Packet
  OBVIOUS
<1> HIDE DEF f
<1> DEFINE r == Append(f, q[Len(q)])
<1>3. r \in Seq(Packet) /\ Len(r) = Len(q) /\ r[Len(q)] = q[Len(q)]
      /\ \A i \in 1 .. Len(q) - 1 : r[i] = f[i]
  BY <1>1, <1>2
<1> HIDE DEF r
<1>4. ASSUME NEW i \in 1 .. Len(r) PROVE r[i] = q[i]
  <2>1. i = Len(q) \/ i \in 1 .. Len(q) - 1
    BY <1>1, <1>3
  <2> QED
    BY <1>1, <1>3, <2>1
<1>5. r = q
  BY <1>3, <1>4, SameSequence
<1>6. n \in 1 .. Len(f) + 1
  BY <1>1
<1>7. Rest(r, n) = Rest(f, n) + Counted(q[Len(q)])
  BY <1>1, <1>2, <1>6, RestOfAppend DEF r
<1> QED
  BY <1>1, <1>5, <1>7 DEF f

-----------------------------------------------------------------------------
(***************************************************************************)
(* Loops.  A property that every turn keeps holds at the end: stated for a *)
(* turn that is a function on the set I of the states with the property.   *)
(***************************************************************************)
Turns(f, n, start, turn) ==
  f[0] = start /\ \A i \in 1 .. n : f[i] = turn[f[i - 1]]

LEMMA TurnsExist ==
  ASSUME NEW I, NEW turn \in [I -> I], NEW start \in I, NEW n \in Nat
  PROVE  \E f \in [0 .. n -> I] : Turns(f, n, start, turn)
<1> DEFINE S == {m \in Nat : \E f \in [0 .. m -> I] : Turns(f, m, start, turn)}
<1>1. 0 \in S
  <2>1. [i \in 0 .. 0 |-> start] \in [0 .. 0 -> I]
        /\ Turns([i \in 0 .. 0 |-> start], 0, start, turn)
    BY DEF Turns
  <2> QED
    BY <2>1
<1>2. ASSUME NEW m \in Nat, m \in S PROVE m + 1 \in S
  <2>1. PICK f \in [0 .. m -> I] : Turns(f, m, start, turn)
    BY <1>2
  <2> DEFINE g == [i \in 0 .. m + 1 |-> IF i = m + 1 THEN turn[f[m]] ELSE f[i]]
  <2>2. g \in [0 .. m + 1 -> I]
    OBVIOUS
  <2>3. Turns(g, m + 1, start, turn)
    <3>1. g[0] = start
      BY <2>1 DEF Turns
    <3>2. ASSUME NEW i \in 1 .. m + 1 PROVE g[i] = turn[g[i - 1]]
      <4>1. i - 1 \in 0 .. m /\ g[i - 1] = f[i - 1]
        OBVIOUS
      <4>2. CASE i = m + 1
        BY <4>1, <4>2
      <4>3. CASE i # m + 1
        <5>1. i \in 1 .. m /\ g[i] = f[i]
          BY <4>3
        <5> QED
          BY <2>1, <4>1, <5>1 DEF Turns
      <4> QED
        BY <4>2, <4>3
    <3> QED
      BY <3>1, <3>2 DEF Turns
  <2>4. m + 1 \in Nat
    OBVIOUS
  <2> HIDE DEF g
  <2> QED
    BY <2>2, <2>3, <2>4
<1> HIDE DEF S
<1>3. Nat \subseteq S
  BY <1>1, <1>2, InductionOnSets
<1> QED
  BY <1>3 DEF S

LEMMA TurnsStayIn ==
  ASSUME NEW I, NEW turn \in [I -> I], NEW start \in I, NEW n \in Nat, NEW f,
         f[0] = start,
         \A i \in 1 .. n : f[i - 1] \in I => f[i] = turn[f[i - 1]]
  PROVE  f[n] \in I
<1> DEFINE S == {m \in Nat : m <= n => f[m] \in I}
<1>1. 0 \in S
  OBVIOUS
<1>2. ASSUME NEW m \in Nat, m \in S PROVE m + 1 \in S
  <2>1. ASSUME m + 1 <= n PROVE f[m + 1] \in I
    <3>1. m + 1 \in 1 .. n /\ (m + 1) - 1 = m /\ f[m] \in I
      BY <1>2, <2>1
    <3>2. f[m + 1] = turn[f[m]]
      BY <3>1
    <3> QED
      BY <3>1, <3>2
  <2> QED
    BY <2>1
<1> HIDE DEF S
<1>3. Nat \subseteq S
  BY <1>1, <1>2, InductionOnSets
<1> QED
  BY <1>3 DEF S

(***************************************************************************)
(* The three loops of the queue.                                           *)
(***************************************************************************)
TrimStart ==
  [queue |-> mQueue, current |-> mCurrent + 1, total |-> mTotalDuration,
   remaining |-> mDuration - Counted(Clone(mQueue[mCurrent]))]

LEMMA TrimmedIsIn ==
  ASSUME NEW I, TrimStart \in I, Len(mQueue) \in Nat,
         \A s \in I : TooMuchPlayed(s) => DropPlayed(s) \in I
  PROVE  Trimmed \in I
<1> DEFINE turn == [s \in I |-> IF TooMuchPlayed(s) THEN DropPlayed(s) ELSE s]
           n == Len(TrimStart.queue)
           Loop(f) == f = [i \in 0 .. n |->
                             IF i = 0 THEN TrimStart
                             ELSE IF TooMuchPlayed(f[i - 1])
                                  THEN DropPlayed(f[i - 1]) ELSE f[i - 1]]
<1>1. turn \in [I -> I]
  OBVIOUS
<1>2. n \in Nat
  BY DEF TrimStart
<1>3. \E f : Loop(f)
  <2>1. PICK f \in [0 .. n -> I] : Turns(f, n, TrimStart, turn)
    <3> HIDE DEF turn, n
    <3> QED
      BY <1>1, <1>2, TurnsExist
  <2> DEFINE g == [i \in 0 .. n |->
                     IF i = 0 THEN TrimStart
                     ELSE IF TooMuchPlayed(f[i - 1])
                          THEN DropPlayed(f[i - 1]) ELSE f[i - 1]]
  <2>2. ASSUME NEW i \in 0 .. n PROVE f[i] = g[i]
    <3>1. CASE i = 0
      BY <2>1, <3>1 DEF Turns
    <3>2. CASE i # 0
      <4>1. i \in 1 .. n /\ f[i - 1] \in I /\ f[i] = turn[f[i - 1]]
        <5> HIDE DEF turn, n
        <5> QED
          BY <1>2, <2>1, <3>2 DEF Turns
      <4> HIDE DEF n
      <4> QED
        BY <3>2, <4>1
    <3> QED
      BY <3>1, <3>2
  <2>3. f = g
    <3> HIDE DEF n
    <3> QED
      BY <2>2
  <2> QED
    BY <2>3
<1>4. \E f : Loop(f) /\ Trimmed = f[n]
  <2> HIDE DEF turn
  <2> QED
    BY <1>3, Zenon DEF Trimmed, While, TrimStart
<1>5. PICK f : Loop(f) /\ Trimmed = f[n]
  BY <1>4
<1>6. f[0] = TrimStart
  <2> HIDE DEF turn
  <2> QED
    BY <1>2, <1>5
<1>7. ASSUME NEW i \in 1 .. n, f[i - 1] \in I
      PROVE  f[i] = turn[f[i - 1]]
  <2>1. i \in 0 .. n /\ i # 0
    <3> HIDE DEF n
    <3> QED
      BY <1>2
  <2>2. f[i] = IF TooMuchPlayed(f[i - 1]) THEN DropPlayed(f[i - 1])
               ELSE f[i - 1]
    <3> HIDE DEF n
    <3> QED
      BY <1>5, <2>1
  <2> QED
    BY <1>7, <2>2
<1> HIDE DEF turn, n, Loop
<1> QED
  BY <1>1, <1>2, <1>5, <1>6, <1>7, TurnsStayIn

BeforeStart ==
  [queue |-> mQueue, current |-> mCurrent, total |-> mTotalDuration,
   remaining |-> mDuration, ok |-> TRUE]

LEMMA ClearedBeforeIsIn ==
  ASSUME NEW limit, NEW I, BeforeStart \in I, Len(mQueue) \in Nat,
         \A s \in I : OlderThan(limit, s) => PopFrontPacket(s) \in I
  PROVE  ClearedBefore(limit) \in I
<1> DEFINE turn == [s \in I |-> IF OlderThan(limit, s) THEN PopFrontPacket(s) ELSE s]
           n == Len(BeforeStart.queue)
           Loop(f) == f = [i \in 0 .. n |->
                             IF i = 0 THEN BeforeStart
                             ELSE IF OlderThan(limit, f[i - 1])
                                  THEN PopFrontPacket(f[i - 1]) ELSE f[i - 1]]
<1>1. turn \in [I -> I]
  OBVIOUS
<1>2. n \in Nat
  BY DEF BeforeStart
<1>3. \E f : Loop(f)
  <2>1. PICK f \in [0 .. n -> I] : Turns(f, n, BeforeStart, turn)
    <3> HIDE DEF turn, n
    <3> QED
      BY <1>1, <1>2, TurnsExist
  <2> DEFINE g == [i \in 0 .. n |->
                     IF i = 0 THEN BeforeStart
                     ELSE IF OlderThan(limit, f[i - 1])
                          THEN PopFrontPacket(f[i - 1]) ELSE f[i - 1]]
  <2>2. ASSUME NEW i \in 0 .. n PROVE f[i] = g[i]
    <3>1. CASE i = 0
      BY <2>1, <3>1 DEF Turns
    <3>2. CASE i # 0
      <4>1. i \in 1 .. n /\ f[i - 1] \in I /\ f[i] = turn[f[i - 1]]
        <5> HIDE DEF turn, n
        <5> QED
          BY <1>2, <2>1, <3>2 DEF Turns
      <4> HIDE DEF n
      <4> QED
        BY <3>2, <4>1
    <3> QED
      BY <3>1, <3>2
  <2>3. f = g
    <3> HIDE DEF n
    <3> QED
      BY <2>2
  <2> QED
    BY <2>3
<1>4. \E f : Loop(f) /\ ClearedBefore(limit) = f[n]
  <2> HIDE DEF turn
  <2> QED
    BY <1>3, Zenon DEF ClearedBefore, While, BeforeStart
<1>5. PICK f : Loop(f) /\ ClearedBefore(limit) = f[n]
  BY <1>4
<1>6. f[0] = BeforeStart
  <2> HIDE DEF turn
  <2> QED
    BY <1>2, <1>5
<1>7. ASSUME NEW i \in 1 .. n, f[i - 1] \in I
      PROVE  f[i] = turn[f[i - 1]]
  <2>1. i \in 0 .. n /\ i # 0
    <3> HIDE DEF n
    <3> QED
      BY <1>2
  <2>2. f[i] = IF OlderThan(limit, f[i - 1]) THEN PopFrontPacket(f[i - 1])
               ELSE f[i - 1]
    <3> HIDE DEF n
    <3> QED
      BY <1>5, <2>1
  <2> QED
    BY <1>7, <2>2
<1> HIDE DEF turn, n, Loop
<1> QED
  BY <1>1, <1>2, <1>5, <1>6, <1>7, TurnsStayIn

AfterStart == [queue |-> mQueue, cleared |-> 0, found |-> FALSE]

LEMMA ClearedAfterIsIn ==
  ASSUME NEW limit, NEW I, AfterStart \in I, Len(mQueue) \in Nat,
         \A s \in I : BehindCurrent(s) => EraseBack(limit, s) \in I
  PROVE  ClearedAfter(limit) \in I
<1> DEFINE turn == [s \in I |-> IF BehindCurrent(s) THEN EraseBack(limit, s) ELSE s]
           n == Len(AfterStart.queue)
           Loop(f) == f = [i \in 0 .. n |->
                             IF i = 0 THEN AfterStart
                             ELSE IF BehindCurrent(f[i - 1])
                                  THEN EraseBack(limit, f[i - 1]) ELSE f[i - 1]]
<1>1. turn \in [I -> I]
  OBVIOUS
<1>2. n \in Nat
  BY DEF AfterStart
<1>3. \E f : Loop(f)
  <2>1. PICK f \in [0 .. n -> I] : Turns(f, n, AfterStart, turn)
    <3> HIDE DEF turn, n
    <3> QED
      BY <1>1, <1>2, TurnsExist
  <2> DEFINE g == [i \in 0 .. n |->
                     IF i = 0 THEN AfterStart
                     ELSE IF BehindCurrent(f[i - 1])
                          THEN EraseBack(limit, f[i - 1]) ELSE f[i - 1]]
  <2>2. ASSUME NEW i \in 0 .. n PROVE f[i] = g[i]
    <3>1. CASE i = 0
      BY <2>1, <3>1 DEF Turns
    <3>2. CASE i # 0
      <4>1. i \in 1 .. n /\ f[i - 1] \in I /\ f[i] = turn[f[i - 1]]
        <5> HIDE DEF turn, n
        <5> QED
          BY <1>2, <2>1, <3>2 DEF Turns
      <4> HIDE DEF n
      <4> QED
        BY <3>2, <4>1
    <3> QED
      BY <3>1, <3>2
  <2>3. f = g
    <3> HIDE DEF n
    <3> QED
      BY <2>2
  <2> QED
    BY <2>3
<1>4. \E f : Loop(f) /\ ClearedAfter(limit) = f[n]
  <2> HIDE DEF turn
  <2> QED
    BY <1>3, Zenon DEF ClearedAfter, While, AfterStart
<1>5. PICK f : Loop(f) /\ ClearedAfter(limit) = f[n]
  BY <1>4
<1>6. f[0] = AfterStart
  <2> HIDE DEF turn
  <2> QED
    BY <1>2, <1>5
<1>7. ASSUME NEW i \in 1 .. n, f[i - 1] \in I
      PROVE  f[i] = turn[f[i - 1]]
  <2>1. i \in 0 .. n /\ i # 0
    <3> HIDE DEF n
    <3> QED
      BY <1>2
  <2>2. f[i] = IF BehindCurrent(f[i - 1]) THEN EraseBack(limit, f[i - 1])
               ELSE f[i - 1]
    <3> HIDE DEF n
    <3> QED
      BY <1>5, <2>1
  <2> QED
    BY <1>7, <2>2
<1> HIDE DEF turn, n, Loop
<1> QED
  BY <1>1, <1>2, <1>5, <1>6, <1>7, TurnsStayIn

-----------------------------------------------------------------------------
(***************************************************************************)
(* The queue in any use: every call, every limit, cursors that dangle.     *)
(* A packet's copy counts for what the packet does unless its duration was *)
(* forged, so that the counters may be wrong once a forged packet is kept. *)
(***************************************************************************)
PacketsAreDated == \A p \in Packets : p.duration > 0

NothingForgedIsKept == BackwardDurations = {} \/ PacketsAreDated

Exact(q) ==
  PacketsAreDated => \A i \in 1 .. Len(q) : q[i].avDuration = q[i].duration

\* The counters of a queue with its cursor.
Accounts(q, current, total, remaining) ==
  /\ total = Rest(q, 1)
  /\ remaining = IF current = Dangling THEN 0 ELSE Rest(q, current)

QueueInv ==
  /\ TypeOK
  /\ mCurrent = Dangling => mQueue = <<>>
  /\ Exact(mQueue)
  /\ Accounts(mQueue, mCurrent, mTotalDuration, mDuration)
  /\ mMaxBackwardDuration > 0 => PacketsAreDated

LEMMA QueueTypes ==
  ASSUME QueueInv
  PROVE  /\ mQueue \in Seq(Packet) /\ Len(mQueue) \in Nat
         /\ mCurrent \in Nat /\ mCurrent <= Len(mQueue) + 1
         /\ mMaxBackwardDuration \in Nat /\ mPacketDuration \in Nat
         /\ mTotalDuration \in Int /\ mDuration \in Int
         /\ returned \in Packet
  BY DEF QueueInv, TypeOK

LEMMA EmptyCountsForNothing ==
  Rest(<<>>, 1) = 0
<1>1. <<>> \in Seq(Packet) /\ Len(<<>>) + 1 = 1
  OBVIOUS
<1> QED
  BY <1>1, RestOfAll

LEMMA QueueInit == Init => QueueInv
<1> SUFFICES ASSUME Init PROVE QueueInv
  OBVIOUS
<1>1. TypeOK
  BY DEF Init, TypeOK, Packet, NoPacket, NoTime
<1>2. Exact(mQueue)
  BY DEF Init, Exact
<1>3. Accounts(mQueue, mCurrent, mTotalDuration, mDuration)
  BY EmptyCountsForNothing DEF Init, Accounts, Dangling
<1> QED
  BY <1>1, <1>2, <1>3 DEF Init, QueueInv, Dangling

LEMMA AddKeepsQueueInv ==
  ASSUME QueueInv, NEW p \in Packets, AddPacket(p)
  PROVE  QueueInv'
<1>1. p \in Packet /\ p.avDuration = p.duration
  BY PacketsAssumption
<1>2. Dated(p) \in Packet /\ Counted(Dated(p)) \in Nat /\ Unit(p) \in Nat
  BY <1>1, DatedPacket, QueueTypes
<1>3. /\ mQueue' = Append(mQueue, Dated(p))
      /\ mCurrent' = IF mQueue = <<>> THEN 1 ELSE mCurrent
      /\ mTotalDuration' = mTotalDuration + Counted(Dated(p))
      /\ mDuration' = mDuration + Counted(Dated(p))
      /\ mPacketDuration' = Unit(p)
      /\ UNCHANGED <<mMaxBackwardDuration, returned, fault>>
  BY DEF AddPacket
<1>4. mQueue' \in Seq(Packet) /\ Len(mQueue') = Len(mQueue) + 1
      /\ mQueue'[Len(mQueue) + 1] = Dated(p)
      /\ \A i \in 1 .. Len(mQueue) : mQueue'[i] = mQueue[i]
  BY <1>2, <1>3, QueueTypes
<1>5. mCurrent' \in 1 .. Len(mQueue') + 1 /\ mCurrent' # Dangling
  BY <1>3, <1>4, QueueTypes DEF QueueInv, Dangling
<1>6. TypeOK'
  BY <1>2, <1>3, <1>4, <1>5, QueueTypes DEF QueueInv, TypeOK
<1>7. Exact(mQueue)'
  <2>1. PacketsAreDated => Dated(p) = p
    BY <1>1 DEF PacketsAreDated, Dated
  <2>2. ASSUME PacketsAreDated, NEW i \in 1 .. Len(mQueue')
        PROVE  mQueue'[i].avDuration = mQueue'[i].duration
    <3>1. i \in 1 .. Len(mQueue) \/ i = Len(mQueue) + 1
      BY <1>4, QueueTypes
    <3> QED
      BY <1>1, <1>4, <2>1, <2>2, <3>1 DEF QueueInv, Exact
  <2> QED
    BY <2>2 DEF Exact
<1>8. Accounts(mQueue, mCurrent, mTotalDuration, mDuration)'
  <2>1. Rest(mQueue', 1) = Rest(mQueue, 1) + Counted(Dated(p))
    <3>1. 1 \in 1 .. Len(mQueue) + 1
      BY QueueTypes
    <3> QED
      BY <1>2, <1>3, <3>1, QueueTypes, RestOfAppend
  <2>2. CASE mQueue = <<>>
    <3>1. mDuration = 0
      <4>1. mCurrent = Dangling \/ mCurrent = 1
        BY <2>2, QueueTypes DEF Dangling
      <4> QED
        BY <2>2, <4>1, EmptyCountsForNothing DEF QueueInv, Accounts
    <3>2. Rest(mQueue, 1) = 0
      BY <2>2, EmptyCountsForNothing
    <3> QED
      BY <1>2, <1>3, <1>5, <2>1, <2>2, <3>1, <3>2
         DEF QueueInv, Accounts
  <2>3. CASE mQueue # <<>>
    <3>1. mCurrent \in 1 .. Len(mQueue) + 1 /\ mCurrent # Dangling
      BY <2>3, QueueTypes DEF QueueInv, Dangling
    <3>2. Rest(mQueue', mCurrent) = Rest(mQueue, mCurrent) + Counted(Dated(p))
      BY <1>2, <1>3, <3>1, QueueTypes, RestOfAppend
    <3> QED
      BY <1>3, <2>1, <2>3, <3>1, <3>2 DEF QueueInv, Accounts
  <2> QED
    BY <2>2, <2>3
<1> QED
  BY <1>3, <1>5, <1>6, <1>7, <1>8 DEF QueueInv

\* A tail, or an end, of a queue is as exact as the queue.
LEMMA ExactTail ==
  ASSUME NEW q \in Seq(Packet), q # <<>>, Exact(q)
  PROVE  Exact(Tail(q))
<1>1. Len(Tail(q)) = Len(q) - 1 /\ Len(q) \in Nat
      /\ \A i \in 1 .. Len(q) - 1 : Tail(q)[i] = q[i + 1]
  OBVIOUS
<1>2. ASSUME PacketsAreDated, NEW i \in 1 .. Len(Tail(q))
      PROVE  Tail(q)[i].avDuration = Tail(q)[i].duration
  <2>1. i \in 1 .. Len(q) - 1 /\ i + 1 \in 1 .. Len(q)
    BY <1>1
  <2> QED
    BY <1>1, <1>2, <2>1 DEF Exact
<1> QED
  BY <1>2 DEF Exact

LEMMA RemoveKeepsQueueInv ==
  ASSUME QueueInv, GetAndRemove
  PROVE  QueueInv'
<1>1. /\ mQueue # <<>> /\ mQueue' = Tail(mQueue)
      /\ mCurrent = 1 /\ mCurrent' = 1
      /\ mTotalDuration' = mTotalDuration - Counted(Head(mQueue))
      /\ mDuration' = mDuration - Counted(Head(mQueue))
      /\ returned' = Head(mQueue)
      /\ UNCHANGED <<mPacketDuration, mMaxBackwardDuration, fault>>
  BY DEF GetAndRemove, Asserted
<1>2. /\ mQueue' \in Seq(Packet) /\ Len(mQueue') = Len(mQueue) - 1
      /\ Head(mQueue) = mQueue[1] /\ Head(mQueue) \in Packet
      /\ 1 \in 1 .. Len(mQueue)
  BY <1>1, QueueTypes
<1>3. /\ Rest(mQueue, 1) = Counted(mQueue[1]) + Rest(mQueue, 2)
      /\ Counted(mQueue[1]) \in Nat /\ Rest(mQueue', 1) = Rest(mQueue, 2)
      /\ Rest(mQueue', 1) \in Nat
  <2>1. Rest(mQueue, 1) = Counted(mQueue[1]) + Rest(mQueue, 1 + 1)
        /\ Counted(mQueue[1]) \in Nat
    BY <1>2, QueueTypes, RestWithoutNext
  <2>2. Rest(mQueue', 1) = Rest(mQueue, 1 + 1)
    BY <1>1, <1>2, QueueTypes, RestOfTail
  <2>3. 1 \in 1 .. Len(mQueue') + 1
    BY <1>2, QueueTypes
  <2>4. Rest(mQueue', 1) \in Nat
    BY <1>2, <2>3, RestIsNat
  <2> QED
    BY <2>1, <2>2, <2>4
<1>4. Accounts(mQueue, mCurrent, mTotalDuration, mDuration)'
  BY <1>1, <1>2, <1>3 DEF QueueInv, Accounts, Dangling
<1>5. TypeOK'
  BY <1>1, <1>2, <1>3, QueueTypes DEF QueueInv, TypeOK
<1>6. Exact(mQueue)'
  BY <1>1, QueueTypes, ExactTail DEF QueueInv
<1> QED
  BY <1>1, <1>4, <1>5, <1>6 DEF QueueInv, Dangling

\* The states of getPacket's loop: the counters fit, and the cursor is not
\* at an erased element.
TrimStates ==
  {s \in [queue: Seq(Packet), current: Nat, total: Int, remaining: Int] :
     /\ s.current \in 1 .. Len(s.queue) + 1
     /\ Exact(s.queue)
     /\ s.total = Rest(s.queue, 1)
     /\ s.remaining = Rest(s.queue, s.current)}

\* The loop stops before it reaches what is not played.
LEMMA DropKeepsTrimStates ==
  ASSUME NEW s \in TrimStates, mMaxBackwardDuration \in Nat, TooMuchPlayed(s)
  PROVE  DropPlayed(s) \in TrimStates
<1>1. /\ s.queue \in Seq(Packet) /\ s.current \in 1 .. Len(s.queue) + 1
      /\ s.total = Rest(s.queue, 1) /\ s.remaining = Rest(s.queue, s.current)
      /\ s.total \in Int /\ s.remaining \in Int /\ Len(s.queue) \in Nat
      /\ s = [queue |-> s.queue, current |-> s.current, total |-> s.total,
              remaining |-> s.remaining]
      /\ Exact(s.queue)
  BY DEF TrimStates
<1>2. s.current # 1
  <2>1. ASSUME s.current = 1 PROVE FALSE
    <3>1. s.total - s.remaining = 0
      BY <1>1, <2>1
    <3> QED
      BY <3>1 DEF TooMuchPlayed, Exceeds
  <2> QED
    BY <2>1
<1>3. s.queue # <<>> /\ s.current - 1 \in 1 .. Len(s.queue)
      /\ 1 \in 1 .. Len(s.queue)
  BY <1>1, <1>2
<1> DEFINE t == DropPlayed(s)
<1>4. t = [queue |-> Tail(s.queue), current |-> s.current - 1,
           total |-> s.total - Counted(Head(s.queue)),
           remaining |-> s.remaining]
  <2>1. (IF s.current = 1 THEN 1 ELSE s.current - 1) = s.current - 1
    BY <1>2
  <2>2. t = [s EXCEPT !.queue = Tail(s.queue),
                      !.total = s.total - Counted(Head(s.queue)),
                      !.current = IF s.current = 1 THEN 1 ELSE s.current - 1]
    BY DEF DropPlayed
  <2>3. t = [s EXCEPT !.queue = Tail(s.queue),
                      !.total = s.total - Counted(Head(s.queue)),
                      !.current = s.current - 1]
    BY <2>1, <2>2, Zenon
  <2> HIDE DEF t
  <2> QED
    BY <1>1, <2>3
<1> HIDE DEF t
<1>5. Tail(s.queue) \in Seq(Packet) /\ Len(Tail(s.queue)) = Len(s.queue) - 1
      /\ Head(s.queue) = s.queue[1]
  BY <1>1, <1>3
<1>6. Rest(Tail(s.queue), s.current - 1) = Rest(s.queue, s.current)
  <2>1. (s.current - 1) + 1 = s.current
    BY <1>1
  <2> QED
    BY <1>1, <1>3, <2>1, RestOfTail
<1>7. Rest(Tail(s.queue), 1) = s.total - Counted(Head(s.queue))
      /\ Counted(Head(s.queue)) \in Nat
  <2>1. Rest(s.queue, 1) = Counted(s.queue[1]) + Rest(s.queue, 1 + 1)
        /\ Counted(s.queue[1]) \in Nat
    BY <1>1, <1>3, RestWithoutNext
  <2>2. Rest(Tail(s.queue), 1) = Rest(s.queue, 1 + 1)
    BY <1>1, <1>3, RestOfTail
  <2>3. 1 \in 1 .. Len(Tail(s.queue)) + 1
    BY <1>1, <1>3, <1>5
  <2>4. Rest(Tail(s.queue), 1) \in Nat
    BY <1>5, <2>3, RestIsNat
  <2> QED
    BY <1>1, <1>5, <2>1, <2>2, <2>4
<1>8. Exact(Tail(s.queue))
  BY <1>1, <1>3, ExactTail
<1>9. s.current - 1 \in 1 .. Len(Tail(s.queue)) + 1
  BY <1>1, <1>3, <1>5
<1>10. t.queue = Tail(s.queue) /\ t.current = s.current - 1
       /\ t.total = s.total - Counted(Head(s.queue))
       /\ t.remaining = s.remaining
  BY <1>4
<1>11. t \in [queue: Seq(Packet), current: Nat, total: Int, remaining: Int]
  BY <1>1, <1>3, <1>4, <1>5, <1>7
<1>12. t \in TrimStates
  BY <1>1, <1>6, <1>7, <1>8, <1>9, <1>10, <1>11 DEF TrimStates
<1> QED
  BY <1>12 DEF t

\* A copy of a packet whose duration was not forged counts for as much.
LEMMA ClonePacket ==
  ASSUME NEW p \in Packet, p.avDuration = p.duration
  PROVE  Clone(p) \in Packet /\ Counted(Clone(p)) = Counted(p)
<1>1. NoTime \in Int /\ p.avDuration \in Nat
  BY DEF NoTime, Packet
<1>2. Clone(p) \in Packet
  BY <1>1 DEF Clone, Packet
<1>3. Clone(p).duration = p.avDuration
  BY DEF Clone, Packet
<1>4. Clone(p).discard = p.discard
  BY DEF Clone, Packet
<1>5. Counted(Clone(p)) = Counted(p)
  BY <1>3, <1>4 DEF Counted
<1> QED
  BY <1>2, <1>5

\* And it is the same packet.
LEMMA CloneIsTheSame ==
  ASSUME NEW p \in Packet
  PROVE  Clone(p).id = p.id
  BY DEF Clone, Packet

\* The loop of getPacket starts with the next packet counted as played.
LEMMA KeepStartsInTrimStates ==
  ASSUME QueueInv, GetAndKeep
  PROVE  TrimStart \in TrimStates
<1>1. /\ mMaxBackwardDuration > 0 /\ mQueue # <<>> /\ mCurrent # End
      /\ mCurrent # Dangling
  BY DEF GetAndKeep, AtEnd
<1>2. mCurrent \in 1 .. Len(mQueue) /\ PacketsAreDated
  BY <1>1, QueueTypes DEF End, Dangling, QueueInv
<1>3. mQueue[mCurrent] \in Packet
      /\ mQueue[mCurrent].avDuration = mQueue[mCurrent].duration
  BY <1>2, QueueTypes DEF QueueInv, Exact
<1>4. Counted(Clone(mQueue[mCurrent])) = Counted(mQueue[mCurrent])
  BY <1>3, ClonePacket
<1>5. /\ Rest(mQueue, mCurrent)
         = Counted(mQueue[mCurrent]) + Rest(mQueue, mCurrent + 1)
      /\ Counted(mQueue[mCurrent]) \in Nat
  BY <1>2, QueueTypes, RestWithoutNext
<1>6. mCurrent + 1 \in 1 .. Len(mQueue) + 1
  BY <1>2, QueueTypes
<1>7. Rest(mQueue, mCurrent + 1) \in Nat
  BY <1>6, QueueTypes, RestIsNat
<1>8. mDuration - Counted(Clone(mQueue[mCurrent]))
      = Rest(mQueue, mCurrent + 1)
  BY <1>1, <1>4, <1>5, <1>7 DEF QueueInv, Accounts
<1>9. TrimStart = [queue |-> mQueue, current |-> mCurrent + 1,
                   total |-> mTotalDuration,
                   remaining |-> Rest(mQueue, mCurrent + 1)]
  BY <1>8 DEF TrimStart
<1>10. mTotalDuration = Rest(mQueue, 1) /\ Exact(mQueue)
  BY DEF QueueInv, Accounts
<1> QED
  BY <1>6, <1>7, <1>9, <1>10, QueueTypes DEF TrimStates

\* getPacket with a limit: the cursor moves on, then the loop trims.
LEMMA KeepKeepsQueueInv ==
  ASSUME QueueInv, GetAndKeep
  PROVE  QueueInv'
<1>1. /\ mMaxBackwardDuration > 0 /\ mQueue # <<>> /\ mCurrent # End
      /\ mCurrent # Dangling
  BY DEF GetAndKeep, AtEnd
<1>2. mCurrent \in 1 .. Len(mQueue) /\ PacketsAreDated
  BY <1>1, QueueTypes DEF End, Dangling, QueueInv
<1>3. mQueue[mCurrent] \in Packet
      /\ mQueue[mCurrent].avDuration = mQueue[mCurrent].duration
  BY <1>2, QueueTypes DEF QueueInv, Exact
<1>4. /\ Clone(mQueue[mCurrent]) \in Packet
      /\ Counted(Clone(mQueue[mCurrent])) = Counted(mQueue[mCurrent])
  BY <1>3, ClonePacket
<1>5. CASE fault' = "assert"
  <2>1. UNCHANGED <<mQueue, mCurrent, mPacketDuration, mMaxBackwardDuration,
                    mDuration, mTotalDuration, returned>>
    BY <1>5 DEF GetAndKeep, Fail, Alive
  <2> QED
    BY <1>5, <2>1 DEF QueueInv, TypeOK, Accounts
<1>6. CASE fault' # "assert"
  <2>1. /\ returned' = Clone(mQueue[mCurrent])
        /\ mQueue' = Trimmed.queue /\ mCurrent' = Trimmed.current
        /\ mTotalDuration' = Trimmed.total /\ mDuration' = Trimmed.remaining
        /\ UNCHANGED <<mPacketDuration, mMaxBackwardDuration, fault>>
    BY <1>6 DEF GetAndKeep, Fail
  <2>2. TrimStart \in TrimStates
    BY <1>1, KeepStartsInTrimStates
  <2>3. Trimmed \in TrimStates
    BY <2>2, DropKeepsTrimStates, QueueTypes, TrimmedIsIn
  <2>4. /\ mQueue' \in Seq(Packet) /\ mCurrent' \in 1 .. Len(mQueue') + 1
        /\ Exact(mQueue') /\ mTotalDuration' = Rest(mQueue', 1)
        /\ mDuration' = Rest(mQueue', mCurrent')
        /\ mTotalDuration' \in Int /\ mDuration' \in Int
        /\ mCurrent' \in Nat
    BY <2>1, <2>3 DEF TrimStates
  <2>5. mCurrent' # Dangling /\ mCurrent' <= Len(mQueue') + 1
    BY <2>4 DEF Dangling
  <2>6. TypeOK'
    BY <1>4, <2>1, <2>4, <2>5 DEF QueueInv, TypeOK
  <2> QED
    BY <2>1, <2>4, <2>5, <2>6 DEF QueueInv, Accounts
<1> QED
  BY <1>5, <1>6

\* The states of clearPacketBeforeTimePos's loop, while nothing failed.
BeforeStates ==
  {s \in [queue: Seq(Packet), current: Nat, total: Int, remaining: Int,
          ok: BOOLEAN] :
     /\ s.current \in 1 .. Len(s.queue) + 1
     /\ Exact(s.queue)
     /\ s.ok => /\ s.total = Rest(s.queue, 1)
                /\ s.remaining = Rest(s.queue, s.current)}

LEMMA PopKeepsBeforeStates ==
  ASSUME NEW s \in BeforeStates, NEW limit, OlderThan(limit, s)
  PROVE  PopFrontPacket(s) \in BeforeStates
<1>1. /\ s.queue \in Seq(Packet) /\ s.current \in 1 .. Len(s.queue)
      /\ s.total = Rest(s.queue, 1) /\ s.remaining = Rest(s.queue, s.current)
      /\ s.total \in Int /\ s.remaining \in Int /\ Len(s.queue) \in Nat
      /\ Exact(s.queue) /\ s.ok \in BOOLEAN /\ s.ok
      /\ s = [queue |-> s.queue, current |-> s.current, total |-> s.total,
              remaining |-> s.remaining, ok |-> s.ok]
  BY DEF BeforeStates, OlderThan
<1>2. /\ s.queue # <<>> /\ 1 \in 1 .. Len(s.queue)
      /\ Head(s.queue) = s.queue[1] /\ s.queue[1] \in Packet
  BY <1>1
<1>3. /\ Rest(s.queue, s.current)
         = Counted(s.queue[s.current]) + Rest(s.queue, s.current + 1)
      /\ Counted(s.queue[s.current]) \in Nat
      /\ Rest(s.queue, s.current + 1) \in Nat
  <2>1. s.current + 1 \in 1 .. Len(s.queue) + 1
    BY <1>1
  <2> QED
    BY <1>1, <2>1, RestWithoutNext, RestIsNat
<1>4. CASE mMaxBackwardDuration = 0
  <2> DEFINE total == IF Head(s.queue).discard THEN s.total
                      ELSE s.total - Head(s.queue).duration
             remaining == s.remaining - Counted(s.queue[s.current])
  <2>1. PopFrontPacket(s) = [queue |-> Tail(s.queue), current |-> 1,
                             total |-> total, remaining |-> remaining,
                             ok |-> total = remaining]
    BY <1>4 DEF PopFrontPacket
  <2>2. total = s.total - Counted(s.queue[1]) /\ Counted(s.queue[1]) \in Nat
    <3>1. Head(s.queue) = s.queue[1] /\ s.queue[1].duration \in Nat
          /\ s.queue[1].discard \in BOOLEAN
      BY <1>2 DEF Packet
    <3>2. CASE s.queue[1].discard
      BY <1>1, <3>1, <3>2 DEF Counted
    <3>3. CASE ~s.queue[1].discard
      BY <1>1, <3>1, <3>3 DEF Counted
    <3> QED
      BY <3>2, <3>3
  <2>3. total = Rest(Tail(s.queue), 1)
    <3>1. Rest(s.queue, 1) = Counted(s.queue[1]) + Rest(s.queue, 1 + 1)
      BY <1>1, <1>2, RestWithoutNext
    <3>2. Rest(Tail(s.queue), 1) = Rest(s.queue, 1 + 1)
      BY <1>1, <1>2, RestOfTail
    <3>3. 1 + 1 \in 1 .. Len(s.queue) + 1
      BY <1>1, <1>2
    <3>4. Rest(s.queue, 1 + 1) \in Nat
      BY <1>1, <3>3, RestIsNat
    <3> QED
      BY <1>1, <2>2, <3>1, <3>2, <3>4
  <2>4. total \in Int /\ remaining \in Int
    BY <1>1, <1>3, <2>2
  <2>5. Tail(s.queue) \in Seq(Packet) /\ 1 \in 1 .. Len(Tail(s.queue)) + 1
    <3>1. Len(Tail(s.queue)) \in Nat
      BY <1>1, <1>2
    <3> QED
      BY <1>1, <1>2, <3>1
  <2>6. Exact(Tail(s.queue))
    BY <1>1, <1>2, ExactTail
  <2> HIDE DEF total, remaining
  <2> DEFINE t == [queue |-> Tail(s.queue), current |-> 1, total |-> total,
                   remaining |-> remaining, ok |-> total = remaining]
  <2>7. t \in [queue: Seq(Packet), current: Nat, total: Int, remaining: Int,
               ok: BOOLEAN]
    BY <2>4, <2>5
  <2>8. t \in BeforeStates
    BY <2>3, <2>5, <2>6, <2>7 DEF BeforeStates
  <2> QED
    BY <2>1, <2>8
<1>5. CASE mMaxBackwardDuration # 0
  <2> DEFINE t == [queue |-> s.queue, current |-> s.current + 1,
                   total |-> s.total,
                   remaining |-> s.remaining - Counted(s.queue[s.current]),
                   ok |-> s.ok]
  <2>1. PopFrontPacket(s) = t
    BY <1>1, <1>5 DEF PopFrontPacket
  <2>2. t \in [queue: Seq(Packet), current: Nat, total: Int, remaining: Int,
               ok: BOOLEAN]
    BY <1>1, <1>3
  <2>3. s.remaining - Counted(s.queue[s.current])
        = Rest(s.queue, s.current + 1)
    BY <1>1, <1>3
  <2>4. s.current + 1 \in 1 .. Len(s.queue) + 1
    BY <1>1
  <2>5. t \in BeforeStates
    BY <1>1, <2>2, <2>3, <2>4 DEF BeforeStates
  <2> QED
    BY <2>1, <2>5
<1> QED
  BY <1>4, <1>5

LEMMA ClearBeforeKeepsQueueInv ==
  ASSUME QueueInv, NEW limit, ClearPacketBefore(limit)
  PROVE  QueueInv'
<1>1. CASE fault' # "none"
  <2>1. UNCHANGED <<mQueue, mCurrent, mPacketDuration, mMaxBackwardDuration,
                    mDuration, mTotalDuration, returned>>
        /\ fault' \in {"none", "assert", "deref"}
    BY <1>1 DEF ClearPacketBefore, Fail, Alive
  <2> QED
    BY <2>1 DEF QueueInv, TypeOK, Accounts
<1>2. CASE fault' = "none"
  <2> DEFINE c == ClearedBefore(limit)
  <2>1. /\ mCurrent # Dangling /\ c.ok
        /\ mQueue' = c.queue /\ mCurrent' = c.current
        /\ mTotalDuration' = c.total /\ mDuration' = c.remaining
        /\ UNCHANGED <<mPacketDuration, mMaxBackwardDuration, returned, fault>>
    BY <1>2 DEF ClearPacketBefore, Fail
  <2>2. BeforeStart \in BeforeStates
    <3>1. mCurrent \in 1 .. Len(mQueue) + 1
      BY <2>1, QueueTypes DEF Dangling
    <3>2. mTotalDuration = Rest(mQueue, 1)
          /\ mDuration = Rest(mQueue, mCurrent) /\ Exact(mQueue)
      BY <2>1 DEF QueueInv, Accounts
    <3> QED
      BY <3>1, <3>2, QueueTypes DEF BeforeStates, BeforeStart
  <2>3. c \in BeforeStates
    BY <2>2, PopKeepsBeforeStates, QueueTypes, ClearedBeforeIsIn
  <2> HIDE DEF c
  <2>4. /\ mQueue' \in Seq(Packet) /\ mCurrent' \in 1 .. Len(mQueue') + 1
        /\ Exact(mQueue') /\ mTotalDuration' = Rest(mQueue', 1)
        /\ mDuration' = Rest(mQueue', mCurrent')
        /\ mTotalDuration' \in Int /\ mDuration' \in Int
        /\ mCurrent' \in Nat
    BY <2>1, <2>3 DEF BeforeStates
  <2>5. mCurrent' # Dangling /\ mCurrent' <= Len(mQueue') + 1
    BY <2>4 DEF Dangling
  <2>6. TypeOK'
    BY <2>1, <2>4, <2>5 DEF QueueInv, TypeOK
  <2> QED
    BY <2>1, <2>4, <2>5, <2>6 DEF QueueInv, Accounts
<1> QED
  BY <1>1, <1>2

\* The states of clearPacketAfterTimePosition's loop: what is cleared is what
\* the counters still have and the queue has not.
AfterStates ==
  {s \in [queue: Seq(Packet), cleared: Int, found: BOOLEAN] :
     /\ mCurrent \in 1 .. Len(s.queue)
     /\ Exact(s.queue)
     /\ Rest(s.queue, 1) = mTotalDuration - s.cleared
     /\ Rest(s.queue, mCurrent) = mDuration - s.cleared}

LEMMA EraseBackKeepsAfterStates ==
  ASSUME NEW s \in AfterStates, NEW limit \in Int, BehindCurrent(s),
         mTotalDuration \in Int, mDuration \in Int, mCurrent \in Nat
  PROVE  EraseBack(limit, s) \in AfterStates
<1>1. /\ s.queue \in Seq(Packet) /\ mCurrent \in 1 .. Len(s.queue)
      /\ Rest(s.queue, 1) = mTotalDuration - s.cleared
      /\ Rest(s.queue, mCurrent) = mDuration - s.cleared
      /\ s.cleared \in Int /\ Len(s.queue) \in Nat /\ Len(s.queue) > mCurrent
      /\ Exact(s.queue)
      /\ s = [queue |-> s.queue, cleared |-> s.cleared, found |-> s.found]
  BY DEF AfterStates, BehindCurrent
<1>2. s.queue # <<>> /\ 1 \in 1 .. Len(s.queue) /\ Newest(s) \in Packet
      /\ Newest(s) = s.queue[Len(s.queue)]
  BY <1>1 DEF Newest
<1> DEFINE f == SubSeq(s.queue, 1, Len(s.queue) - 1)
<1>3. /\ f \in Seq(Packet) /\ Len(f) = Len(s.queue) - 1
      /\ \A i \in 1 .. Len(s.queue) - 1 : f[i] = s.queue[i]
  BY <1>1, <1>2
<1>4. /\ Rest(s.queue, 1) = Rest(f, 1) + Counted(Newest(s))
      /\ Rest(s.queue, mCurrent) = Rest(f, mCurrent) + Counted(Newest(s))
  BY <1>1, <1>2, RestOfFront
<1> HIDE DEF f
<1>5. Rest(f, 1) \in Nat /\ Rest(f, mCurrent) \in Nat
      /\ Counted(Newest(s)) \in Nat
  <2>1. 1 \in 1 .. Len(f) + 1 /\ mCurrent \in 1 .. Len(f) + 1
    BY <1>1, <1>3
  <2>2. Rest(f, 1) \in Nat /\ Rest(f, mCurrent) \in Nat
    BY <1>3, <2>1, RestIsNat
  <2>3. Counted(Newest(s)) \in Nat
    BY <1>2 DEF Counted, Packet
  <2> QED
    BY <2>2, <2>3
<1> DEFINE t == EraseBack(limit, s)
<1>6. t = [queue |-> f, cleared |-> s.cleared + Counted(Newest(s)),
           found |-> Newest(s).time <= limit]
  <2>1. t = [s EXCEPT !.queue = f,
                      !.cleared = s.cleared + Counted(Newest(s)),
                      !.found = Newest(s).time <= limit]
    BY DEF EraseBack, f
  <2> HIDE DEF t
  <2> QED
    BY <1>1, <2>1
<1> HIDE DEF t
<1>7. Exact(f)
  <2>1. ASSUME PacketsAreDated, NEW i \in 1 .. Len(f)
        PROVE  f[i].avDuration = f[i].duration
    <3>1. i \in 1 .. Len(s.queue) - 1 /\ i \in 1 .. Len(s.queue)
      BY <1>1, <1>3
    <3> QED
      BY <1>1, <1>3, <2>1, <3>1 DEF Exact
  <2> QED
    BY <2>1 DEF Exact
<1>8. t \in [queue: Seq(Packet), cleared: Int, found: BOOLEAN]
  BY <1>1, <1>2, <1>3, <1>5, <1>6
<1>9. t.queue = f /\ t.cleared = s.cleared + Counted(Newest(s))
  BY <1>6
<1>10. Rest(t.queue, 1) = mTotalDuration - t.cleared
       /\ Rest(t.queue, mCurrent) = mDuration - t.cleared
  BY <1>1, <1>4, <1>5, <1>9
<1>11. mCurrent \in 1 .. Len(t.queue)
  BY <1>1, <1>3, <1>9
<1> QED
  BY <1>7, <1>8, <1>9, <1>10, <1>11 DEF AfterStates, t

LEMMA ClearAfterKeepsQueueInv ==
  ASSUME QueueInv, NEW limit \in TimePositions, ClearPacketAfter(limit)
  PROVE  QueueInv'
<1>0. limit \in Int
  BY ArgumentsAssumption
<1>1. CASE AtEnd \/ mCurrent = Dangling
  <2>1. UNCHANGED <<mQueue, mCurrent, mPacketDuration, mMaxBackwardDuration,
                    mDuration, mTotalDuration, returned>>
        /\ fault' = "deref"
    BY <1>1 DEF ClearPacketAfter, Fail
  <2> QED
    BY <2>1 DEF QueueInv, TypeOK, Accounts
<1>2. CASE ~(AtEnd \/ mCurrent = Dangling)
  <2> DEFINE c == ClearedAfter(limit)
  <2>1. /\ mQueue' = c.queue /\ mDuration' = mDuration - c.cleared
        /\ mTotalDuration' = mTotalDuration - c.cleared
        /\ UNCHANGED <<mCurrent, mPacketDuration, mMaxBackwardDuration,
                       returned, fault>>
    BY <1>2 DEF ClearPacketAfter
  <2>2. mCurrent \in 1 .. Len(mQueue) /\ mCurrent # Dangling
    BY <1>2, QueueTypes DEF Dangling, AtEnd, End
  <2>3. AfterStart \in AfterStates
    <3>1. mTotalDuration = Rest(mQueue, 1)
          /\ mDuration = Rest(mQueue, mCurrent) /\ Exact(mQueue)
      BY <2>2 DEF QueueInv, Accounts
    <3> QED
      BY <2>2, <3>1, QueueTypes DEF AfterStates, AfterStart
  <2>4. c \in AfterStates
    BY <1>0, <2>3, EraseBackKeepsAfterStates, QueueTypes, ClearedAfterIsIn
  <2> HIDE DEF c
  <2>5. /\ mQueue' \in Seq(Packet) /\ mCurrent \in 1 .. Len(mQueue')
        /\ Exact(mQueue') /\ mTotalDuration' = Rest(mQueue', 1)
        /\ mDuration' = Rest(mQueue', mCurrent)
        /\ mTotalDuration' \in Int /\ mDuration' \in Int
    BY <2>1, <2>4, QueueTypes DEF AfterStates
  <2>6. TypeOK'
    BY <2>1, <2>5 DEF QueueInv, TypeOK
  <2> QED
    BY <2>1, <2>2, <2>5, <2>6 DEF QueueInv, Accounts
<1> QED
  BY <1>1, <1>2

\* clear() may leave the cursor dangling, but nothing is left to count.
LEMMA ClearKeepsQueueInv ==
  ASSUME QueueInv, Clear
  PROVE  QueueInv'
<1>1. /\ mQueue' = <<>> /\ mDuration' = 0 /\ mTotalDuration' = 0
      /\ mCurrent' = 1 \/ mCurrent' = Dangling
      /\ UNCHANGED <<mPacketDuration, mMaxBackwardDuration, returned, fault>>
  BY DEF Clear
<1>2. TypeOK'
  BY <1>1 DEF QueueInv, TypeOK, Dangling
<1>3. Exact(mQueue')
  BY <1>1 DEF Exact
<1>4. Accounts(mQueue, mCurrent, mTotalDuration, mDuration)'
  BY <1>1, EmptyCountsForNothing DEF Accounts, Dangling
<1> QED
  BY <1>1, <1>2, <1>3, <1>4 DEF QueueInv

LEMMA RewindKeepsQueueInv ==
  ASSUME QueueInv, Rewind
  PROVE  QueueInv'
<1>1. /\ mCurrent' = 1 /\ mDuration' = mTotalDuration
      /\ UNCHANGED <<mQueue, mPacketDuration, mMaxBackwardDuration,
                     mTotalDuration, returned, fault>>
  BY DEF Rewind
<1>2. TypeOK'
  BY <1>1, QueueTypes DEF QueueInv, TypeOK
<1> QED
  BY <1>1, <1>2 DEF QueueInv, Accounts, Dangling

\* A limit can only be set where nothing forged is kept.
LEMMA LimitKeepsQueueInv ==
  ASSUME QueueInv, NothingForgedIsKept,
         NEW limit \in BackwardDurations, SetMaxBackwardDuration(limit)
  PROVE  QueueInv'
<1>1. /\ mMaxBackwardDuration' = limit
      /\ UNCHANGED <<mQueue, mCurrent, mPacketDuration, mDuration,
                     mTotalDuration, returned, fault>>
  BY DEF SetMaxBackwardDuration
<1>2. limit \in Nat /\ PacketsAreDated
  BY ArgumentsAssumption DEF NothingForgedIsKept
<1> QED
  BY <1>1, <1>2 DEF QueueInv, TypeOK, Accounts

\* What fails, or answers that there is nothing, changes no counter.
LEMMA NothingKeepsQueueInv ==
  ASSUME QueueInv,
         \/ GetPacketAborts
         \/ GetNothing
         \/ \E limit \in TimePositions : QueryFaults(limit)
         \/ UNCHANGED vars
  PROVE  QueueInv'
<1>1. /\ UNCHANGED <<mQueue, mCurrent, mPacketDuration, mMaxBackwardDuration,
                     mDuration, mTotalDuration>>
      /\ returned' = returned \/ returned' = NoPacket
      /\ fault' = fault \/ fault' \in {"assert", "deref"}
  BY DEF GetPacketAborts, GetNothing, QueryFaults, Fail, vars
<1>2. NoPacket \in Packet
  BY DEF NoPacket, Packet, NoTime
<1> QED
  BY <1>1, <1>2 DEF QueueInv, TypeOK, Accounts

LEMMA QueueStep ==
  ASSUME NothingForgedIsKept, QueueInv, [Next]_vars
  PROVE  QueueInv'
<1>1. CASE \E p \in Packets : AddPacket(p)
  BY <1>1, AddKeepsQueueInv
<1>2. CASE GetPacket
  BY <1>2, NothingKeepsQueueInv, RemoveKeepsQueueInv, KeepKeepsQueueInv
     DEF GetPacket
<1>3. CASE Clear
  BY <1>3, ClearKeepsQueueInv
<1>4. CASE Rewind
  BY <1>4, RewindKeepsQueueInv
<1>5. CASE \E limit \in BackwardDurations : SetMaxBackwardDuration(limit)
  BY <1>5, LimitKeepsQueueInv
<1>6. CASE \E limit \in TimePositions : ClearPacketBefore(limit)
  BY <1>6, ClearBeforeKeepsQueueInv
<1>7. CASE \E limit \in TimePositions : ClearPacketAfter(limit)
  BY <1>7, ClearAfterKeepsQueueInv
<1>8. CASE (\E limit \in TimePositions : QueryFaults(limit)) \/ UNCHANGED vars
  BY <1>8, NothingKeepsQueueInv
<1> QED
  BY <1>1, <1>2, <1>3, <1>4, <1>5, <1>6, <1>7, <1>8 DEF Next

LEMMA QueueInvariance ==
  ASSUME NothingForgedIsKept
  PROVE  Spec => []QueueInv
<1>1. Init => QueueInv
  BY QueueInit
<1>2. QueueInv /\ [Next]_vars => QueueInv'
  BY QueueStep
<1> QED
  BY <1>1, <1>2, PTL DEF Spec

(***************************************************************************)
(* However the queue is used - rewound, cleared from either end, limited   *)
(* and not - its counters are the durations they stand for, as long as no  *)
(* packet with a forged duration is kept (MediaPacketQueue.cpp:48).        *)
(***************************************************************************)
THEOREM QueueCountsDurations ==
  ASSUME NothingForgedIsKept
  PROVE  Spec => []DurationAccounting
<1>1. QueueInv => DurationAccounting
  <2> SUFFICES ASSUME QueueInv PROVE DurationAccounting
    OBVIOUS
  <2>1. mTotalDuration = SumOf(mQueue)
    BY QueueTypes, RestOfAll DEF QueueInv, Accounts
  <2>2. mDuration = SumOf(Pending)
    <3>1. CASE mCurrent = Dangling
      BY <3>1, SumOfNothing DEF QueueInv, Accounts, Pending
    <3>2. CASE mCurrent # Dangling
      BY <3>2 DEF QueueInv, Accounts, Pending, Rest
    <3> QED
      BY <3>1, <3>2
  <2> QED
    BY <2>1, <2>2 DEF DurationAccounting
<1> QED
  BY <1>1, QueueInvariance, PTL

(***************************************************************************)
(* And its state keeps its types: the cursor is at an element of the list, *)
(* at its end, or dangles.                                                 *)
(***************************************************************************)
THEOREM QueueTypeCorrect ==
  ASSUME NothingForgedIsKept
  PROVE  Spec => []TypeOK
<1>1. QueueInv => TypeOK
  BY DEF QueueInv
<1> QED
  BY <1>1, QueueInvariance, PTL

-----------------------------------------------------------------------------
(***************************************************************************)
(* The list implements the tape, under every method, when a limit is only  *)
(* changed for another.  (A limit taken back to 0 makes getPacket fail,    *)
(* and clearPacketBefore hand played packets out again.)                   *)
(***************************************************************************)
LimitIsNotTakenBack == 0 \notin BackwardDurations

CursorInv == mMaxBackwardDuration = 0 => mCurrent \in {1, Dangling}

\* A queue cut at n: both parts, element by element.
LEMMA CutAt ==
  ASSUME NEW q \in Seq(Packet), NEW i \in 1 .. Len(q) + 1,
         NEW j \in 0 .. Len(q), i <= j + 1
  PROVE  /\ SubSeq(q, i, j) \in Seq(Packet)
         /\ Len(SubSeq(q, i, j)) = j - i + 1
         /\ \A k \in 1 .. j - i + 1 : SubSeq(q, i, j)[k] = q[i + k - 1]
  OBVIOUS

\* The part of a part is a part of the whole.
LEMMA PartOfPart ==
  ASSUME NEW q \in Seq(Packet), NEW d \in 0 .. Len(q), NEW t,
         t = SubSeq(q, d + 1, Len(q)),
         NEW i \in 1 .. Len(t) + 1, NEW j \in 0 .. Len(t), i <= j + 1
  PROVE  SubSeq(t, i, j) = SubSeq(q, d + i, d + j)
<1>1. d + 1 \in 1 .. Len(q) + 1 /\ Len(q) \in 0 .. Len(q) /\ Len(q) \in Nat
      /\ d + 1 <= Len(q) + 1
  OBVIOUS
<1>2. t \in Seq(Packet) /\ Len(t) = Len(q) - d
      /\ \A k \in 1 .. Len(q) - d : t[k] = q[d + k]
  <2>1. \A k \in Nat : d + 1 + k - 1 = d + k
    OBVIOUS
  <2>2. t \in Seq(Packet) /\ Len(t) = Len(q) - (d + 1) + 1
        /\ \A k \in 1 .. Len(q) - (d + 1) + 1 : t[k] = q[d + 1 + k - 1]
    BY <1>1, CutAt
  <2> QED
    BY <1>1, <2>1, <2>2
<1> DEFINE a == SubSeq(t, i, j)
           b == SubSeq(q, d + i, d + j)
<1>3. a \in Seq(Packet) /\ Len(a) = j - i + 1
      /\ \A k \in 1 .. j - i + 1 : a[k] = t[i + k - 1]
  BY <1>2, CutAt
<1>4. b \in Seq(Packet) /\ Len(b) = j - i + 1
      /\ \A k \in 1 .. j - i + 1 : b[k] = q[d + i + k - 1]
  <2>1. d + i \in 1 .. Len(q) + 1 /\ d + j \in 0 .. Len(q)
        /\ d + i <= d + j + 1 /\ (d + j) - (d + i) + 1 = j - i + 1
    BY <1>1, <1>2
  <2> QED
    BY <2>1, CutAt
<1> HIDE DEF a, b
<1>5. ASSUME NEW k \in 1 .. Len(a) PROVE a[k] = b[k]
  <2>1. k \in 1 .. j - i + 1 /\ i + k - 1 \in 1 .. Len(q) - d
        /\ d + (i + k - 1) = d + i + k - 1
    BY <1>1, <1>2, <1>3
  <2> QED
    BY <1>2, <1>3, <1>4, <2>1
<1>6. a = b
  BY <1>3, <1>4, <1>5, SameSequence
<1> QED
  BY <1>6 DEF a, b

\* One more element at the end of a part.
LEMMA PartAndNext ==
  ASSUME NEW q \in Seq(Packet), NEW j \in 1 .. Len(q), NEW i \in 1 .. j
  PROVE  SubSeq(q, i, j) = Append(SubSeq(q, i, j - 1), q[j])
<1>0. Len(q) \in Nat /\ q[j] \in Packet
  OBVIOUS
<1> DEFINE a == SubSeq(q, i, j)
           b == SubSeq(q, i, j - 1)
           c == Append(b, q[j])
<1>1. a \in Seq(Packet) /\ Len(a) = j - i + 1
      /\ \A k \in 1 .. j - i + 1 : a[k] = q[i + k - 1]
  BY <1>0, CutAt
<1>2. b \in Seq(Packet) /\ Len(b) = j - i
      /\ \A k \in 1 .. j - i : b[k] = q[i + k - 1]
  <2>1. j - 1 \in 0 .. Len(q) /\ i <= (j - 1) + 1 /\ i \in 1 .. Len(q) + 1
        /\ (j - 1) - i + 1 = j - i
    BY <1>0
  <2> QED
    BY <2>1, CutAt
<1> HIDE DEF a, b
<1>3. c \in Seq(Packet) /\ Len(c) = Len(b) + 1 /\ c[Len(b) + 1] = q[j]
      /\ \A k \in 1 .. Len(b) : c[k] = b[k]
  BY <1>0, <1>2
<1> HIDE DEF c
<1>4. ASSUME NEW k \in 1 .. Len(a) PROVE a[k] = c[k]
  <2>1. CASE k = j - i + 1
    <3>1. i + k - 1 = j /\ k = Len(b) + 1 /\ k \in 1 .. j - i + 1
      BY <1>1, <1>2, <2>1
    <3> QED
      BY <1>1, <1>3, <3>1
  <2>2. CASE k # j - i + 1
    <3>1. k \in 1 .. j - i /\ k \in 1 .. Len(b) /\ k \in 1 .. j - i + 1
      BY <1>1, <1>2, <2>2
    <3> QED
      BY <1>1, <1>2, <1>3, <3>1
  <2> QED
    BY <2>1, <2>2
<1>5. a = c
  <2>1. Len(a) = Len(c)
    BY <1>1, <1>2, <1>3
  <2> QED
    BY <1>1, <1>3, <1>4, <2>1, SameSequence
<1> QED
  BY <1>5 DEF a, b, c

\* What a part of a queue counts for is what the rests differ by.
LEMMA SumOfPart ==
  ASSUME NEW q \in Seq(Packet), NEW j \in 0 .. Len(q), NEW i \in 1 .. j + 1
  PROVE  /\ SumOf(SubSeq(q, i, j)) = Rest(q, i) - Rest(q, j + 1)
         /\ Rest(q, i) \in Nat /\ Rest(q, j + 1) \in Nat
         /\ Rest(q, i) >= Rest(q, j + 1)
<1>0. Len(q) \in Nat
  OBVIOUS
<1> DEFINE S == {m \in Nat : m <= Len(q) =>
                   \A n \in 1 .. m + 1 :
                     SumOf(SubSeq(q, n, m)) = Rest(q, n) - Rest(q, m + 1)}
<1>1. ASSUME NEW m \in Nat, m <= Len(q)
      PROVE  SumOf(SubSeq(q, m + 1, m)) = Rest(q, m + 1) - Rest(q, m + 1)
  <2>1. m + 1 \in 1 .. Len(q) + 1
    BY <1>0, <1>1
  <2>2. Rest(q, m + 1) \in Nat
    BY <2>1, RestIsNat
  <2>3. SubSeq(q, m + 1, m) = <<>>
    BY <1>0, <1>1
  <2>4. SumOf(SubSeq(q, m + 1, m)) = 0
    BY <2>3, SumOfNothing, Zenon
  <2>5. Rest(q, m + 1) - Rest(q, m + 1) = 0
    BY <2>2
  <2> QED
    BY <2>4, <2>5
<1>2. 0 \in S
  <2>1. ASSUME NEW n \in 1 .. 0 + 1
        PROVE  SumOf(SubSeq(q, n, 0)) = Rest(q, n) - Rest(q, 0 + 1)
    <3>1. n = 1 /\ 0 <= Len(q) /\ 0 + 1 = 1
      BY <1>0
    <3>2. SumOf(SubSeq(q, 0 + 1, 0)) = Rest(q, 0 + 1) - Rest(q, 0 + 1)
      BY <1>1, <3>1
    <3> QED
      BY <3>1, <3>2
  <2> QED
    BY <2>1
<1>3. ASSUME NEW m \in Nat, m \in S PROVE m + 1 \in S
  <2>1. ASSUME m + 1 <= Len(q), NEW n \in 1 .. (m + 1) + 1
        PROVE  SumOf(SubSeq(q, n, m + 1)) = Rest(q, n) - Rest(q, (m + 1) + 1)
    <3>1. m <= Len(q) /\ m + 1 \in 1 .. Len(q) /\ (m + 1) - 1 = m
      BY <1>0, <2>1
    <3>2. CASE n = (m + 1) + 1
      <4>1. m + 1 \in Nat
        OBVIOUS
      <4>2. SumOf(SubSeq(q, (m + 1) + 1, m + 1))
            = Rest(q, (m + 1) + 1) - Rest(q, (m + 1) + 1)
        BY <1>1, <2>1, <4>1
      <4> QED
        BY <3>2, <4>2
    <3>3. CASE n # (m + 1) + 1
      <4>1. n \in 1 .. m + 1
        BY <3>3
      <4>2. SumOf(SubSeq(q, n, m)) = Rest(q, n) - Rest(q, m + 1)
        BY <1>3, <3>1, <4>1
      <4>3. SubSeq(q, n, m + 1) = Append(SubSeq(q, n, m), q[m + 1])
        BY <3>1, <4>1, PartAndNext
      <4>4. SubSeq(q, n, m) \in Seq(Packet) /\ q[m + 1] \in Packet
        BY <1>0, <3>1, <4>1
      <4>5. SumOf(SubSeq(q, n, m + 1))
            = SumOf(SubSeq(q, n, m)) + Counted(q[m + 1])
        BY <4>3, <4>4, SumOfAppend
      <4>6. Rest(q, m + 1) = Counted(q[m + 1]) + Rest(q, (m + 1) + 1)
            /\ Counted(q[m + 1]) \in Nat
        BY <3>1, RestWithoutNext
      <4>7. n \in 1 .. Len(q) + 1 /\ (m + 1) + 1 \in 1 .. Len(q) + 1
        BY <1>0, <3>1, <4>1
      <4>8. Rest(q, n) \in Nat /\ Rest(q, (m + 1) + 1) \in Nat
        BY <4>7, RestIsNat
      <4> QED
        BY <4>2, <4>5, <4>6, <4>8
    <3> QED
      BY <3>2, <3>3
  <2> QED
    BY <2>1
<1> HIDE DEF S
<1>4. Nat \subseteq S
  BY <1>2, <1>3, InductionOnSets
<1>5. SumOf(SubSeq(q, i, j)) = Rest(q, i) - Rest(q, j + 1)
  BY <1>0, <1>4 DEF S
<1>6. i \in 1 .. Len(q) + 1 /\ j + 1 \in 1 .. Len(q) + 1
  BY <1>0
<1>7. Rest(q, i) \in Nat /\ Rest(q, j + 1) \in Nat
  BY <1>6, RestIsNat
<1>8. SumOf(SubSeq(q, i, j)) \in Nat
  <2>1. SubSeq(q, i, j) \in Seq(Packet)
    BY <1>0
  <2> QED
    BY <2>1, SumOfIsNat
<1> QED
  BY <1>5, <1>7, <1>8

\* What is played and what is pending, by the position of the cursor.
LEMMA PlayedAndPending ==
  ASSUME QueueInv
  PROVE  /\ Played = SubSeq(mQueue, 1, mCurrent - 1)
         /\ Played \in Seq(Packet) /\ Pending \in Seq(Packet)
         /\ mCurrent = Dangling =>
              mQueue = <<>> /\ Played = <<>> /\ Pending = <<>>
         /\ mCurrent # Dangling =>
              /\ mCurrent \in 1 .. Len(mQueue) + 1
              /\ Pending = SubSeq(mQueue, mCurrent, Len(mQueue))
              /\ Len(Played) = mCurrent - 1
              /\ Len(Pending) = Len(mQueue) - mCurrent + 1
              /\ \A k \in 1 .. mCurrent - 1 : Played[k] = mQueue[k]
              /\ \A k \in 1 .. Len(mQueue) - mCurrent + 1 :
                   Pending[k] = mQueue[mCurrent + k - 1]
<1>1. Played = SubSeq(mQueue, 1, mCurrent - 1)
  BY DEF Played
<1>2. CASE mCurrent = Dangling
  <2>1. mQueue = <<>> /\ mCurrent - 1 = -1 /\ Pending = <<>>
    BY <1>2 DEF QueueInv, Dangling, Pending
  <2>2. SubSeq(<<>>, 1, -1) = <<>>
    OBVIOUS
  <2>3. <<>> \in Seq(Packet)
    OBVIOUS
  <2> QED
    BY <1>1, <1>2, <2>1, <2>2, <2>3
<1>3. CASE mCurrent # Dangling
  <2>1. mCurrent \in 1 .. Len(mQueue) + 1 /\ mQueue \in Seq(Packet)
        /\ Len(mQueue) \in Nat
    BY <1>3, QueueTypes DEF Dangling
  <2>2. Pending = SubSeq(mQueue, mCurrent, Len(mQueue))
    BY <1>3 DEF Pending
  <2>3. /\ Pending \in Seq(Packet) /\ Len(Pending) = Len(mQueue) - mCurrent + 1
        /\ \A k \in 1 .. Len(mQueue) - mCurrent + 1 :
             Pending[k] = mQueue[mCurrent + k - 1]
    BY <2>1, <2>2, PartOf
  <2>4. /\ Played \in Seq(Packet) /\ Len(Played) = mCurrent - 1
        /\ \A k \in 1 .. mCurrent - 1 : Played[k] = mQueue[k]
    <3>1. mCurrent - 1 \in 0 .. Len(mQueue) /\ 1 \in 1 .. Len(mQueue) + 1
          /\ 1 <= mCurrent - 1 + 1 /\ mCurrent - 1 - 1 + 1 = mCurrent - 1
      BY <2>1
    <3>2. \A k \in Nat : 1 + k - 1 = k
      OBVIOUS
    <3> QED
      BY <1>1, <2>1, <3>1, <3>2, CutAt
  <2> QED
    BY <1>1, <1>3, <2>1, <2>2, <2>3, <2>4
<1> QED
  BY <1>2, <1>3

\* addPacket adds to the pending end what the tape would add.
LEMMA AddIsAdd ==
  ASSUME QueueInv, QueueInv', NEW p \in Packets, AddPacket(p)
  PROVE  Tape!Add(p)
<1>1. p \in Packet /\ p.duration \in Nat
  BY PacketsAssumption DEF Packet
<1>2. /\ mQueue' = Append(mQueue, Dated(p))
      /\ mCurrent' = IF mQueue = <<>> THEN 1 ELSE mCurrent
      /\ mPacketDuration' = Unit(p)
      /\ UNCHANGED <<mMaxBackwardDuration, returned>>
  BY DEF AddPacket
<1>3. Dated(p) \in Packet
  BY <1>1, DatedPacket, QueueTypes
<1>4. Played' = Played /\ Pending' = Append(Pending, Dated(p))
  <2>0. /\ mQueue \in Seq(Packet) /\ Len(mQueue) \in Nat
        /\ mQueue' \in Seq(Packet) /\ Len(mQueue') = Len(mQueue) + 1
        /\ mQueue'[Len(mQueue) + 1] = Dated(p)
        /\ \A k \in 1 .. Len(mQueue) : mQueue'[k] = mQueue[k]
        /\ Played' = SubSeq(mQueue', 1, mCurrent' - 1)
    BY <1>2, <1>3, QueueTypes DEF Played
  <2>1. CASE mQueue = <<>>
    <3>1. Played = <<>> /\ Pending = <<>>
      BY <2>1, PlayedAndPending, QueueTypes DEF Dangling
    <3>2. mCurrent' = 1 /\ mCurrent' # Dangling /\ mQueue' = <<Dated(p)>>
          /\ Len(mQueue') = 1
      BY <1>2, <2>1 DEF Dangling
    <3>3. Played' = <<>>
      BY <2>0, <3>2
    <3>4. Pending' = mQueue'
      BY <2>0, <3>2, CutAtFront DEF Pending
    <3> QED
      BY <2>1, <3>1, <3>2, <3>3, <3>4
  <2>2. CASE mQueue # <<>>
    <3>1. mCurrent' = mCurrent /\ mCurrent # Dangling
          /\ mCurrent \in 1 .. Len(mQueue) + 1
      BY <1>2, <2>2, QueueTypes DEF QueueInv, Dangling
    <3>2. Pending' = SubSeq(mQueue', mCurrent, Len(mQueue) + 1)
      BY <2>0, <3>1 DEF Pending
    <3>3. Len(mQueue) + 1 \in 1 .. Len(mQueue') /\ mCurrent \in 1 .. Len(mQueue) + 1
          /\ (Len(mQueue) + 1) - 1 = Len(mQueue)
      BY <2>0, <3>1
    <3>4. Pending' = Append(SubSeq(mQueue', mCurrent, Len(mQueue)), Dated(p))
      BY <2>0, <3>2, <3>3, PartAndNext
    <3>5. SubSeq(mQueue', mCurrent, Len(mQueue))
          = SubSeq(mQueue, mCurrent, Len(mQueue))
      BY <2>0, <3>1
    <3>6. SubSeq(mQueue', 1, mCurrent - 1) = SubSeq(mQueue, 1, mCurrent - 1)
      BY <2>0, <3>1
    <3> QED
      BY <2>0, <3>1, <3>4, <3>5, <3>6 DEF Played, Pending
  <2> QED
    BY <2>1, <2>2
<1>5. mPacketDuration \in Nat
  BY QueueTypes
<1>6. CASE p.duration = 0
  <2>1. Dated(p) = [p EXCEPT !.duration = mPacketDuration]
        /\ Unit(p) = mPacketDuration
    BY <1>5, <1>6 DEF Dated, Unit
  <2>2. Unit(p) = IF mPacketDuration = 0 THEN p.duration ELSE mPacketDuration
    BY <1>6, <2>1
  <2> QED
    BY <1>2, <1>4, <1>6, <2>1, <2>2, Zenon DEF Tape!Add
<1>7. CASE p.duration > 0
  <2>1. Dated(p) = p /\ p.duration # 0
    BY <1>1, <1>7 DEF Dated
  <2>2. Unit(p) = IF mPacketDuration = 0 THEN p.duration ELSE mPacketDuration
    BY <1>5, <1>7 DEF Unit
  <2> QED
    BY <1>2, <1>4, <2>1, <2>2, Zenon DEF Tape!Add
<1> QED
  BY <1>1, <1>6, <1>7

LEMMA GetNothingIsReadNothing ==
  ASSUME QueueInv, GetNothing
  PROVE  Tape!ReadNothing
<1>1. Pending = <<>>
  <2>1. mCurrent = Dangling \/ mCurrent = Len(mQueue) + 1
    BY QueueTypes DEF GetNothing, AtEnd, End, Dangling
  <2>2. ASSUME mCurrent = Len(mQueue) + 1 PROVE Pending = <<>>
    <3>1. Pending = SubSeq(mQueue, Len(mQueue) + 1, Len(mQueue))
      BY <2>2, QueueTypes DEF Pending, Dangling
    <3> QED
      BY <3>1, QueueTypes
  <2> QED
    BY <2>1, <2>2, PlayedAndPending
<1>2. UNCHANGED <<mQueue, mCurrent, mPacketDuration, mMaxBackwardDuration>>
      /\ returned' = NoPacket
  BY DEF GetNothing
<1>3. UNCHANGED <<Played, Pending>>
  BY <1>2 DEF Played, Pending
<1> QED
  BY <1>1, <1>2, <1>3 DEF Tape!ReadNothing, NoPacket

\* Without a limit the head of the list is the next packet, and goes.
LEMMA RemoveIsRead ==
  ASSUME QueueInv, GetAndRemove
  PROVE  Tape!Read
<1>1. /\ mQueue # <<>> /\ mQueue' = Tail(mQueue) /\ returned' = Head(mQueue)
      /\ mCurrent = 1 /\ mCurrent' = 1 /\ mMaxBackwardDuration = 0
      /\ UNCHANGED <<mPacketDuration, mMaxBackwardDuration>>
  BY DEF GetAndRemove, Asserted
<1>2. mQueue \in Seq(Packet) /\ mQueue' \in Seq(Packet)
  BY <1>1, QueueTypes
<1>3. Pending = mQueue /\ Pending' = mQueue' /\ Played' = <<>>
  BY <1>1, <1>2, CutAtFront DEF Played, Pending, Dangling
<1>4. Tape!Kept(Append(Played, Head(Pending))) = <<>>
  BY <1>1 DEF Tape!Kept
<1> QED
  BY <1>1, <1>3, <1>4 DEF Tape!Read

LEMMA ClearIsClear ==
  ASSUME QueueInv, QueueInv', Clear
  PROVE  Tape!Clear
<1>1. /\ mQueue' = <<>>
      /\ mCurrent' = 1 \/ mCurrent' = Dangling
      /\ UNCHANGED <<mPacketDuration, mMaxBackwardDuration, returned>>
  BY DEF Clear
<1>2. Played' = <<>> /\ Pending' = <<>>
  <2>1. CASE mCurrent' = Dangling
    <3>1. mCurrent' - 1 = -1 /\ SubSeq(<<>>, 1, -1) = <<>>
      BY <2>1 DEF Dangling
    <3> QED
      BY <1>1, <2>1, <3>1 DEF Played, Pending
  <2>2. CASE mCurrent' = 1
    <3>1. <<>> \in Seq(Packet)
      OBVIOUS
    <3> QED
      BY <1>1, <2>2, <3>1, CutAtFront DEF Played, Pending, Dangling
  <2> QED
    BY <1>1, <2>1, <2>2
<1> QED
  BY <1>1, <1>2 DEF Tape!Clear

LEMMA RewindIsRewind ==
  ASSUME QueueInv, Rewind
  PROVE  Tape!Rewind
<1>1. /\ mCurrent' = 1
      /\ UNCHANGED <<mQueue, mPacketDuration, mMaxBackwardDuration, returned>>
  BY DEF Rewind
<1>2. Played' = <<>> /\ Pending' = mQueue
  BY <1>1, QueueTypes, CutAtFront DEF Played, Pending, Dangling
<1>3. Played \o Pending = mQueue
  <2>1. CASE mCurrent = Dangling
    <3>1. Played = <<>> /\ Pending = <<>> /\ mQueue = <<>>
      BY <2>1, PlayedAndPending
    <3> QED
      BY <3>1
  <2>2. CASE mCurrent # Dangling
    <3> DEFINE a == Played
               b == Pending
    <3>1. /\ a \in Seq(Packet) /\ b \in Seq(Packet) /\ mQueue \in Seq(Packet)
          /\ mCurrent \in 1 .. Len(mQueue) + 1 /\ Len(mQueue) \in Nat
          /\ Len(a) = mCurrent - 1 /\ Len(b) = Len(mQueue) - mCurrent + 1
          /\ \A k \in 1 .. mCurrent - 1 : a[k] = mQueue[k]
          /\ \A k \in 1 .. Len(mQueue) - mCurrent + 1 :
               b[k] = mQueue[mCurrent + k - 1]
      BY <2>2, PlayedAndPending, QueueTypes
    <3> HIDE DEF a, b
    <3> DEFINE c == a \o b
    <3>2. /\ c \in Seq(Packet) /\ Len(c) = Len(mQueue)
          /\ \A k \in 1 .. Len(c) :
               c[k] = IF k <= Len(a) THEN a[k] ELSE b[k - Len(a)]
      BY <3>1
    <3> HIDE DEF c
    <3>3. ASSUME NEW k \in 1 .. Len(c) PROVE c[k] = mQueue[k]
      <4>1. CASE k <= Len(a)
        <5>1. k \in 1 .. mCurrent - 1
          BY <3>1, <3>2, <4>1
        <5> QED
          BY <3>1, <3>2, <4>1, <5>1
      <4>2. CASE ~(k <= Len(a))
        <5>1. k - Len(a) \in 1 .. Len(mQueue) - mCurrent + 1
              /\ mCurrent + (k - Len(a)) - 1 = k
          BY <3>1, <3>2, <4>2
        <5> QED
          BY <3>1, <3>2, <4>2, <5>1
      <4> QED
        BY <4>1, <4>2
    <3>4. c = mQueue
      BY <3>1, <3>2, <3>3, SameSequence
    <3> QED
      BY <3>4 DEF a, b, c
  <2> QED
    BY <2>1, <2>2
<1> QED
  BY <1>1, <1>2, <1>3 DEF Tape!Rewind

LEMMA LimitIsLimit ==
  ASSUME QueueInv, NEW limit \in BackwardDurations, SetMaxBackwardDuration(limit)
  PROVE  Tape!SetLimit
<1>1. /\ mMaxBackwardDuration' = limit /\ limit \in Nat
      /\ UNCHANGED <<mQueue, mCurrent, mPacketDuration, returned>>
  BY ArgumentsAssumption DEF SetMaxBackwardDuration
<1> QED
  BY <1>1 DEF Tape!SetLimit, Played, Pending

\* The states of clearPacketAfterTimePosition's loop: a beginning of the
\* queue that ends at the current packet or behind it.
ShortenedStates ==
  {s \in [queue: Seq(Packet), cleared: Int, found: BOOLEAN] :
     \E m \in mCurrent .. Len(mQueue) : s.queue = SubSeq(mQueue, 1, m)}

LEMMA EraseBackShortens ==
  ASSUME mQueue \in Seq(Packet), mCurrent \in 1 .. Len(mQueue),
         NEW s \in ShortenedStates, NEW limit \in Int, BehindCurrent(s)
  PROVE  EraseBack(limit, s) \in ShortenedStates
<1>1. PICK m \in mCurrent .. Len(mQueue) : s.queue = SubSeq(mQueue, 1, m)
  BY DEF ShortenedStates
<1>2. /\ s.queue \in Seq(Packet) /\ s.cleared \in Int /\ Len(mQueue) \in Nat
      /\ s = [queue |-> s.queue, cleared |-> s.cleared, found |-> s.found]
  BY DEF ShortenedStates
<1>3. Len(s.queue) = m /\ m \in Nat /\ m > mCurrent
  BY <1>1, <1>2 DEF BehindCurrent
<1>4. Newest(s) \in Packet
  BY <1>2, <1>3 DEF Newest
<1> DEFINE f == SubSeq(s.queue, 1, Len(s.queue) - 1)
           t == EraseBack(limit, s)
<1>5. f = SubSeq(mQueue, 1, m - 1) /\ f \in Seq(Packet)
  <2>1. 1 \in 1 .. m + 1 /\ \A k \in 1 .. m : s.queue[k] = mQueue[k]
    BY <1>1, <1>2
  <2>2. SubSeq(s.queue, 1, m - 1) = SubSeq(mQueue, 1, m - 1)
    BY <1>2, <1>3, <2>1
  <2> QED
    BY <1>2, <1>3, <2>2
<1> HIDE DEF f
<1>6. t = [queue |-> f, cleared |-> s.cleared + Counted(Newest(s)),
           found |-> Newest(s).time <= limit]
  <2>1. t = [s EXCEPT !.queue = f,
                      !.cleared = s.cleared + Counted(Newest(s)),
                      !.found = Newest(s).time <= limit]
    BY DEF EraseBack, f
  <2> HIDE DEF t
  <2> QED
    BY <1>2, <2>1
<1> HIDE DEF t
<1>7. Counted(Newest(s)) \in Nat
  BY <1>4 DEF Counted, Packet
<1>8. t \in [queue: Seq(Packet), cleared: Int, found: BOOLEAN]
  BY <1>2, <1>5, <1>6, <1>7
<1>9. m - 1 \in mCurrent .. Len(mQueue)
  BY <1>2, <1>3
<1>10. t.queue = SubSeq(mQueue, 1, m - 1)
  BY <1>5, <1>6
<1> QED
  BY <1>8, <1>9, <1>10 DEF ShortenedStates, t

LEMMA ClearAfterIsShorten ==
  ASSUME QueueInv, NEW limit \in TimePositions, ClearPacketAfter(limit)
  PROVE  Tape!Shorten \/ UNCHANGED Tape!vars
<1>0. limit \in Int
  BY ArgumentsAssumption
<1>1. CASE AtEnd \/ mCurrent = Dangling
  BY <1>1 DEF ClearPacketAfter, Fail, Tape!vars, Played, Pending
<1>2. CASE ~(AtEnd \/ mCurrent = Dangling)
  <2> DEFINE c == ClearedAfter(limit)
  <2>1. /\ mQueue' = c.queue
        /\ UNCHANGED <<mCurrent, mPacketDuration, mMaxBackwardDuration, returned>>
    BY <1>2 DEF ClearPacketAfter
  <2>2. /\ mCurrent \in 1 .. Len(mQueue) /\ mCurrent # Dangling
        /\ mQueue \in Seq(Packet) /\ Len(mQueue) \in Nat
    BY <1>2, QueueTypes DEF Dangling, AtEnd, End
  <2>3. AfterStart \in ShortenedStates
    <3>1. SubSeq(mQueue, 1, Len(mQueue)) = mQueue
      BY <2>2
    <3>2. Len(mQueue) \in mCurrent .. Len(mQueue)
      BY <2>2
    <3> QED
      BY <2>2, <3>1, <3>2 DEF ShortenedStates, AfterStart
  <2>4. c \in ShortenedStates
    BY <1>0, <2>2, <2>3, EraseBackShortens, ClearedAfterIsIn
  <2> HIDE DEF c
  <2>5. PICK m \in mCurrent .. Len(mQueue) : mQueue' = SubSeq(mQueue, 1, m)
    BY <2>1, <2>4 DEF ShortenedStates
  <2>6. /\ mQueue' \in Seq(Packet) /\ Len(mQueue') = m /\ m \in Nat
        /\ \A k \in 1 .. m : mQueue'[k] = mQueue[k]
    BY <2>2, <2>5
  <2>7. Played' = Played
    BY <2>1, <2>2, <2>6 DEF Played
  <2>8. Pending' = SubSeq(mQueue', mCurrent, m)
        /\ Pending = SubSeq(mQueue, mCurrent, Len(mQueue))
    BY <2>1, <2>2, <2>6 DEF Pending
  <2>9. SubSeq(mQueue', mCurrent, m) = SubSeq(mQueue, mCurrent, m)
    BY <2>2, <2>5, <2>6
  <2>10. CASE m = Len(mQueue)
    BY <2>1, <2>7, <2>8, <2>9, <2>10 DEF Tape!vars
  <2>11. CASE m # Len(mQueue)
    <3> DEFINE n == m - mCurrent + 1
    <3>1. Len(Pending) = Len(mQueue) - mCurrent + 1
      BY <2>2, PlayedAndPending
    <3>2. n \in 1 .. Len(Pending) - 1
      BY <2>2, <2>11, <3>1
    <3>3. Pending' = SubSeq(Pending, 1, n)
      <4>1. mCurrent - 1 \in 0 .. Len(mQueue) /\ (mCurrent - 1) + 1 = mCurrent
            /\ 1 \in 1 .. Len(Pending) + 1 /\ n \in 0 .. Len(Pending)
            /\ 1 <= n + 1 /\ (mCurrent - 1) + n = m
        BY <2>2, <2>6, <2>11, <3>1
      <4>2. Pending = SubSeq(mQueue, (mCurrent - 1) + 1, Len(mQueue))
        BY <2>8, <4>1
      <4>3. SubSeq(Pending, 1, n)
            = SubSeq(mQueue, (mCurrent - 1) + 1, (mCurrent - 1) + n)
        <5> HIDE DEF n
        <5> QED
          BY <2>2, <4>1, <4>2, PartOfPart
      <4> QED
        BY <2>8, <2>9, <4>1, <4>3
    <3> HIDE DEF n
    <3> QED
      BY <2>1, <2>7, <3>2, <3>3 DEF Tape!Shorten
  <2> QED
    BY <2>10, <2>11
<1> QED
  BY <1>1, <1>2

\* The states of clearPacketBeforeTimePos's loop: n pending packets are gone
\* from the front of the queue, or passed by the cursor.
SkippedStates ==
  {s \in BeforeStates :
     \E n \in 0 .. Len(mQueue) :
       IF mMaxBackwardDuration = 0
       THEN s.queue = SubSeq(mQueue, n + 1, Len(mQueue)) /\ s.current = 1
       ELSE s.queue = mQueue /\ s.current = mCurrent + n}

LEMMA PopSkips ==
  ASSUME mQueue \in Seq(Packet), mCurrent \in 1 .. Len(mQueue) + 1,
         NEW s \in SkippedStates, NEW limit, OlderThan(limit, s)
  PROVE  PopFrontPacket(s) \in SkippedStates
<1>0. Len(mQueue) \in Nat
  OBVIOUS
<1>1. s \in BeforeStates /\ PopFrontPacket(s) \in BeforeStates
  BY PopKeepsBeforeStates DEF SkippedStates
<1>2. PICK n \in 0 .. Len(mQueue) :
        IF mMaxBackwardDuration = 0
        THEN s.queue = SubSeq(mQueue, n + 1, Len(mQueue)) /\ s.current = 1
        ELSE s.queue = mQueue /\ s.current = mCurrent + n
  BY DEF SkippedStates
<1>3. s.current <= Len(s.queue) /\ s.queue \in Seq(Packet) /\ s.current \in Nat
      /\ s.ok \in BOOLEAN
      /\ s = [queue |-> s.queue, current |-> s.current, total |-> s.total,
              remaining |-> s.remaining, ok |-> s.ok]
  BY <1>1 DEF OlderThan, BeforeStates
<1>4. CASE mMaxBackwardDuration = 0
  <2>1. s.queue = SubSeq(mQueue, n + 1, Len(mQueue)) /\ s.current = 1
    BY <1>2, <1>4
  <2>2. n + 1 \in 0 .. Len(mQueue) /\ Len(s.queue) = Len(mQueue) - n
        /\ s.queue # <<>>
    BY <1>0, <1>3, <2>1
  <2>3. Tail(s.queue) = SubSeq(mQueue, (n + 1) + 1, Len(mQueue))
    <3>1. Tail(s.queue) = SubSeq(s.queue, 2, Len(s.queue))
      BY <1>3, <2>2, TailIsPart
    <3>2. 2 \in 1 .. Len(s.queue) + 1 /\ Len(s.queue) \in 0 .. Len(s.queue)
          /\ 2 <= Len(s.queue) + 1 /\ n + 2 = (n + 1) + 1
          /\ n + Len(s.queue) = Len(mQueue)
      <4>1. Len(s.queue) \in Nat /\ Len(s.queue) >= 1 /\ n \in Nat
        BY <1>3, <2>1
      <4> QED
        BY <1>0, <2>2, <4>1
    <3>3. SubSeq(s.queue, 2, Len(s.queue))
          = SubSeq(mQueue, n + 2, n + Len(s.queue))
      BY <2>1, <3>2, PartOfPart
    <3> QED
      BY <3>1, <3>2, <3>3
  <2>4. PopFrontPacket(s).queue = Tail(s.queue)
        /\ PopFrontPacket(s).current = 1
    BY <1>4 DEF PopFrontPacket
  <2> QED
    BY <1>1, <1>4, <2>2, <2>3, <2>4 DEF SkippedStates
<1>5. CASE mMaxBackwardDuration # 0
  <2>1. s.queue = mQueue /\ s.current = mCurrent + n
    BY <1>2, <1>5
  <2>2. PopFrontPacket(s)
        = [queue |-> s.queue, current |-> s.current + 1, total |-> s.total,
           remaining |-> s.remaining - Counted(s.queue[s.current]), ok |-> s.ok]
    BY <1>3, <1>5 DEF PopFrontPacket
  <2>3. PopFrontPacket(s).queue = mQueue
        /\ PopFrontPacket(s).current = mCurrent + (n + 1)
    BY <2>1, <2>2
  <2>4. n + 1 \in 0 .. Len(mQueue)
    BY <1>0, <1>3, <2>1
  <2> QED
    BY <1>1, <1>5, <2>3, <2>4 DEF SkippedStates
<1> QED
  BY <1>4, <1>5

LEMMA ClearBeforeIsSkip ==
  ASSUME QueueInv, CursorInv, NEW limit, ClearPacketBefore(limit)
  PROVE  /\ Tape!Skip \/ UNCHANGED Tape!vars
         /\ CursorInv'
<1>1. CASE fault' # "none"
  <2>1. UNCHANGED <<mQueue, mCurrent, mPacketDuration, mMaxBackwardDuration,
                    returned>>
    BY <1>1 DEF ClearPacketBefore, Fail, Alive
  <2> QED
    BY <2>1 DEF Tape!vars, Played, Pending, CursorInv
<1>2. CASE fault' = "none"
  <2> DEFINE c == ClearedBefore(limit)
  <2>1. /\ mCurrent # Dangling /\ c.ok
        /\ mQueue' = c.queue /\ mCurrent' = c.current
        /\ UNCHANGED <<mPacketDuration, mMaxBackwardDuration, returned>>
    BY <1>2 DEF ClearPacketBefore, Fail
  <2>2. /\ mCurrent \in 1 .. Len(mQueue) + 1 /\ mQueue \in Seq(Packet)
        /\ Len(mQueue) \in Nat
    BY <2>1, QueueTypes DEF Dangling
  <2>3. BeforeStart \in SkippedStates
    <3>1. mTotalDuration = Rest(mQueue, 1)
          /\ mDuration = Rest(mQueue, mCurrent) /\ Exact(mQueue)
      BY <2>1 DEF QueueInv, Accounts
    <3>2. BeforeStart \in BeforeStates
      BY <2>2, <3>1, QueueTypes DEF BeforeStates, BeforeStart
    <3>3. SubSeq(mQueue, 0 + 1, Len(mQueue)) = mQueue /\ mCurrent + 0 = mCurrent
          /\ 0 \in 0 .. Len(mQueue)
      BY <2>2
    <3>4. mMaxBackwardDuration = 0 => mCurrent = 1
      BY <2>1 DEF CursorInv
    <3>5. BeforeStart.queue = mQueue /\ BeforeStart.current = mCurrent
      BY DEF BeforeStart
    <3> QED
      BY <3>2, <3>3, <3>4, <3>5 DEF SkippedStates
  <2>4. c \in SkippedStates
    BY <2>2, <2>3, PopSkips, ClearedBeforeIsIn
  <2> HIDE DEF c
  <2>5. mQueue' \in Seq(Packet) /\ mCurrent' \in 1 .. Len(mQueue') + 1
    BY <2>1, <2>4 DEF SkippedStates, BeforeStates
  <2>6. PICK n \in 0 .. Len(mQueue) :
          IF mMaxBackwardDuration = 0
          THEN mQueue' = SubSeq(mQueue, n + 1, Len(mQueue)) /\ mCurrent' = 1
          ELSE mQueue' = mQueue /\ mCurrent' = mCurrent + n
    BY <2>1, <2>4 DEF SkippedStates
  <2>7. CursorInv'
    BY <2>1, <2>6 DEF CursorInv
  <2>8. CASE mMaxBackwardDuration = 0
    <3>1. /\ mQueue' = SubSeq(mQueue, n + 1, Len(mQueue)) /\ mCurrent' = 1
          /\ mCurrent = 1
      BY <2>1, <2>6, <2>8 DEF CursorInv
    <3>2. Played = <<>> /\ Pending = mQueue /\ Played' = <<>>
          /\ Pending' = mQueue'
      BY <2>2, <2>5, <3>1, CutAtFront DEF Played, Pending, Dangling
    <3>3. CASE n = 0
      <4>1. mQueue' = mQueue
        BY <2>2, <3>1, <3>3
      <4> QED
        BY <2>1, <2>7, <3>2, <4>1 DEF Tape!vars
    <3>4. CASE n # 0
      <4>1. n \in 1 .. Len(Pending)
        BY <2>2, <3>2, <3>4
      <4> QED
        BY <2>1, <2>7, <2>8, <3>1, <3>2, <4>1 DEF Tape!Skip
    <3> QED
      BY <3>3, <3>4
  <2>9. CASE mMaxBackwardDuration # 0
    <3>1. /\ mQueue' = mQueue /\ mCurrent' = mCurrent + n
          /\ mCurrent' # Dangling
      BY <2>5, <2>6, <2>9 DEF Dangling
    <3>2. /\ Played' = SubSeq(mQueue, 1, mCurrent + n - 1)
          /\ Pending' = SubSeq(mQueue, mCurrent + n, Len(mQueue))
      <4>1. Played' = SubSeq(mQueue', 1, mCurrent' - 1)
        BY DEF Played
      <4>2. Pending' = SubSeq(mQueue', mCurrent', Len(mQueue'))
        BY <3>1 DEF Pending
      <4>3. mCurrent' - 1 = mCurrent + n - 1
        BY <2>2, <3>1
      <4>4. Played' = SubSeq(mQueue, 1, mCurrent' - 1)
        BY <3>1, <4>1
      <4>5. Pending' = SubSeq(mQueue, mCurrent', Len(mQueue))
        BY <3>1, <4>2
      <4>6. Played' = SubSeq(mQueue, 1, mCurrent + n - 1)
        BY <4>3, <4>4
      <4> QED
        BY <3>1, <4>5, <4>6
    <3>3. /\ Played = SubSeq(mQueue, 1, mCurrent - 1)
          /\ Pending = SubSeq(mQueue, mCurrent, Len(mQueue))
          /\ Len(Pending) = Len(mQueue) - mCurrent + 1
          /\ Played \in Seq(Packet) /\ Pending \in Seq(Packet)
          /\ Len(Played) = mCurrent - 1
          /\ \A k \in 1 .. mCurrent - 1 : Played[k] = mQueue[k]
          /\ \A k \in 1 .. Len(mQueue) - mCurrent + 1 :
               Pending[k] = mQueue[mCurrent + k - 1]
      BY <2>1, PlayedAndPending
    <3>4. n \in 0 .. Len(Pending)
      BY <2>2, <2>5, <3>1, <3>3
    <3>5. CASE n = 0
      <4>1. Played' = Played /\ Pending' = Pending
        BY <2>2, <3>2, <3>3, <3>5
      <4> QED
        BY <2>1, <2>7, <4>1 DEF Tape!vars
    <3>6. CASE n # 0
      <4>1. n \in 1 .. Len(Pending)
        BY <2>2, <3>4, <3>6
      <4>2. Pending' = SubSeq(Pending, n + 1, Len(Pending))
        <5>1. mCurrent - 1 \in 0 .. Len(mQueue) /\ (mCurrent - 1) + 1 = mCurrent
              /\ n + 1 \in 1 .. Len(Pending) + 1
              /\ Len(Pending) \in 0 .. Len(Pending)
              /\ n + 1 <= Len(Pending) + 1
              /\ (mCurrent - 1) + (n + 1) = mCurrent + n
              /\ (mCurrent - 1) + Len(Pending) = Len(mQueue)
          BY <2>2, <3>3, <3>4
        <5>2. Pending = SubSeq(mQueue, (mCurrent - 1) + 1, Len(mQueue))
          BY <3>3, <5>1
        <5>3. SubSeq(Pending, n + 1, Len(Pending))
              = SubSeq(mQueue, (mCurrent - 1) + (n + 1),
                       (mCurrent - 1) + Len(Pending))
          BY <2>2, <5>1, <5>2, PartOfPart
        <5> QED
          BY <3>2, <5>1, <5>3
      <4>3. Played' = Played \o SubSeq(Pending, 1, n)
        <5> DEFINE a == Played
                   b == SubSeq(Pending, 1, n)
                   r == a \o b
                   q == Played'
        <5>1. a \in Seq(Packet) /\ Len(a) = mCurrent - 1
              /\ \A k \in 1 .. mCurrent - 1 : a[k] = mQueue[k]
          BY <3>3
        <5>2. b \in Seq(Packet) /\ Len(b) = n
              /\ \A k \in 1 .. n : b[k] = mQueue[mCurrent + k - 1]
          <6>1. b \in Seq(Packet) /\ Len(b) = n
                /\ \A k \in 1 .. n : b[k] = Pending[k]
            <7>1. 1 \in 1 .. Len(Pending) + 1 /\ n \in 0 .. Len(Pending)
                  /\ 1 <= n + 1 /\ n - 1 + 1 = n
                  /\ \A k \in Nat : 1 + k - 1 = k
              BY <2>2, <3>3, <4>1
            <7>2. b \in Seq(Packet) /\ Len(b) = n - 1 + 1
                  /\ \A k \in 1 .. n - 1 + 1 : b[k] = Pending[1 + k - 1]
              BY <3>3, <7>1, CutAt
            <7> HIDE DEF b
            <7> QED
              BY <7>1, <7>2
          <6>2. \A k \in 1 .. n : k \in 1 .. Len(mQueue) - mCurrent + 1
            BY <2>2, <3>3, <4>1
          <6> HIDE DEF b
          <6> QED
            BY <3>3, <6>1, <6>2
        <5>3. q \in Seq(Packet) /\ Len(q) = mCurrent + n - 1
              /\ \A k \in 1 .. mCurrent + n - 1 : q[k] = mQueue[k]
          <6>1. mCurrent + n - 1 \in 0 .. Len(mQueue)
            BY <2>2, <3>3, <3>4
          <6> QED
            BY <2>2, <3>2, <6>1
        <5> HIDE DEF a, b, q
        <5>4. /\ r \in Seq(Packet) /\ Len(r) = mCurrent + n - 1
              /\ \A k \in 1 .. Len(r) :
                   r[k] = IF k <= Len(a) THEN a[k] ELSE b[k - Len(a)]
          <6>0. a \in Seq(Packet) /\ b \in Seq(Packet)
            BY <5>1, <5>2
          <6>1. Len(r) = Len(a) + Len(b)
            BY <6>0
          <6>2. Len(r) = mCurrent + n - 1
            BY <2>2, <4>1, <5>1, <5>2, <6>1
          <6> QED
            BY <5>1, <5>2, <6>2
        <5> HIDE DEF r
        <5>5. ASSUME NEW k \in 1 .. Len(r) PROVE r[k] = q[k]
          <6>1. k \in 1 .. mCurrent + n - 1
            BY <5>4
          <6>2. CASE k <= Len(a)
            <7>1. k \in 1 .. mCurrent - 1
              BY <2>2, <5>1, <6>1, <6>2
            <7> QED
              BY <5>1, <5>3, <5>4, <6>1, <6>2, <7>1
          <6>3. CASE ~(k <= Len(a))
            <7>1. k - Len(a) \in 1 .. n /\ mCurrent + (k - Len(a)) - 1 = k
              BY <2>2, <4>1, <5>1, <6>1, <6>3
            <7> QED
              BY <5>2, <5>3, <5>4, <6>1, <6>3, <7>1
          <6> QED
            BY <6>2, <6>3
        <5>6. r = q
          BY <5>3, <5>4, <5>5, SameSequence
        <5> QED
          BY <5>6 DEF r, a, b, q
      <4> QED
        BY <2>1, <2>7, <2>9, <4>1, <4>2, <4>3 DEF Tape!Skip
    <3> QED
      BY <3>4, <3>5, <3>6
  <2> QED
    BY <2>8, <2>9
<1> QED
  BY <1>1, <1>2

LEMMA TheLeastOf ==
  ASSUME NEW S \in SUBSET Nat, NEW d \in S, \A m \in S : d <= m
  PROVE  (CHOOSE n \in S : \A m \in S : n <= m) = d
<1> DEFINE c == CHOOSE n \in S : \A m \in S : n <= m
<1>1. c \in S /\ \A m \in S : c <= m
  OBVIOUS
<1> HIDE DEF c
<1>2. c = d
  BY <1>1
<1> QED
  BY <1>2 DEF c

\* The tape weighs packets as the queue counts them.
LEMMA WeightIsSum ==
  ASSUME NEW q
  PROVE  Tape!WeightOf(q) = SumOf(q)
  BY Zenon DEF Tape!WeightOf, Tape!Weight, SumOf, Counted

(***************************************************************************)
(* The states of getPacket's loop: d packets are dropped, and with any one *)
(* of them still there too much would be kept.                             *)
(***************************************************************************)
ForgottenStates ==
  {s \in TrimStates :
     \E d \in 0 .. mCurrent :
       /\ s.queue = SubSeq(mQueue, d + 1, Len(mQueue))
       /\ s.current = mCurrent + 1 - d
       /\ \A m \in 0 .. d - 1 :
            Rest(mQueue, m + 1) - Rest(mQueue, mCurrent + 1)
              > mMaxBackwardDuration}

LEMMA ForgottenCounts ==
  ASSUME mQueue \in Seq(Packet), mCurrent \in 1 .. Len(mQueue),
         NEW d \in 0 .. mCurrent, NEW s \in TrimStates,
         s.queue = SubSeq(mQueue, d + 1, Len(mQueue)),
         s.current = mCurrent + 1 - d
  PROVE  /\ s.total = Rest(mQueue, d + 1)
         /\ s.remaining = Rest(mQueue, mCurrent + 1)
         /\ Rest(mQueue, d + 1) \in Nat /\ Rest(mQueue, mCurrent + 1) \in Nat
         /\ Rest(mQueue, d + 1) >= Rest(mQueue, mCurrent + 1)
<1>0. Len(mQueue) \in Nat
  OBVIOUS
<1>1. s.total = Rest(s.queue, 1) /\ s.remaining = Rest(s.queue, s.current)
      /\ s.queue \in Seq(Packet)
  BY DEF TrimStates
<1>2. Len(s.queue) = Len(mQueue) - d
  BY <1>0
<1>3. Rest(s.queue, 1) = Rest(mQueue, d + 1)
  <2>1. Rest(s.queue, 1) = SumOf(s.queue)
    BY <1>1, RestOfAll
  <2> QED
    BY <2>1 DEF Rest
<1>4. Rest(s.queue, s.current) = Rest(mQueue, mCurrent + 1)
  <2>1. d \in 0 .. Len(mQueue) /\ s.current \in 1 .. Len(s.queue) + 1
        /\ Len(s.queue) \in 0 .. Len(s.queue)
        /\ s.current <= Len(s.queue) + 1
        /\ d + s.current = mCurrent + 1 /\ d + Len(s.queue) = Len(mQueue)
    BY <1>0, <1>2
  <2>2. SubSeq(s.queue, s.current, Len(s.queue))
        = SubSeq(mQueue, d + s.current, d + Len(s.queue))
    BY <2>1, PartOfPart
  <2> QED
    BY <2>1, <2>2 DEF Rest
<1>5. mCurrent \in 0 .. Len(mQueue) /\ d + 1 \in 1 .. mCurrent + 1
  BY <1>0
<1> QED
  BY <1>1, <1>3, <1>4, <1>5, SumOfPart

LEMMA DropForgets ==
  ASSUME mQueue \in Seq(Packet), mCurrent \in 1 .. Len(mQueue),
         mMaxBackwardDuration \in Nat,
         NEW s \in ForgottenStates, TooMuchPlayed(s)
  PROVE  DropPlayed(s) \in ForgottenStates
<1>0. Len(mQueue) \in Nat
  OBVIOUS
<1>1. s \in TrimStates /\ DropPlayed(s) \in TrimStates
  BY DropKeepsTrimStates DEF ForgottenStates
<1>2. PICK d \in 0 .. mCurrent :
        /\ s.queue = SubSeq(mQueue, d + 1, Len(mQueue))
        /\ s.current = mCurrent + 1 - d
        /\ \A m \in 0 .. d - 1 :
             Rest(mQueue, m + 1) - Rest(mQueue, mCurrent + 1)
               > mMaxBackwardDuration
  BY DEF ForgottenStates
<1>3. /\ s.total = Rest(mQueue, d + 1)
      /\ s.remaining = Rest(mQueue, mCurrent + 1)
      /\ Rest(mQueue, d + 1) \in Nat /\ Rest(mQueue, mCurrent + 1) \in Nat
      /\ Rest(mQueue, d + 1) >= Rest(mQueue, mCurrent + 1)
  BY <1>1, <1>2, ForgottenCounts
<1>4. Rest(mQueue, d + 1) - Rest(mQueue, mCurrent + 1) > mMaxBackwardDuration
  BY <1>3 DEF TooMuchPlayed, Exceeds
<1>5. d # mCurrent
  <2>1. ASSUME d = mCurrent PROVE FALSE
    <3>1. Rest(mQueue, d + 1) = Rest(mQueue, mCurrent + 1)
      BY <2>1
    <3> QED
      BY <1>3, <1>4, <3>1
  <2> QED
    BY <2>1
<1>6. d + 1 \in 0 .. mCurrent /\ s.current # 1 /\ d \in Nat
      /\ s.current - 1 = mCurrent + 1 - (d + 1)
  BY <1>0, <1>2, <1>5
<1>7. s.queue \in Seq(Packet) /\ Len(s.queue) = Len(mQueue) - d
      /\ s.queue # <<>>
  <2>1. s.queue \in Seq(Packet)
    BY <1>1 DEF TrimStates
  <2>2. Len(s.queue) = Len(mQueue) - d
    BY <1>0, <1>2, <1>6
  <2>3. Len(s.queue) # 0
    BY <1>0, <1>5, <2>2
  <2> QED
    BY <2>1, <2>2, <2>3
<1>8. Tail(s.queue) = SubSeq(mQueue, (d + 1) + 1, Len(mQueue))
  <2>1. Tail(s.queue) = SubSeq(s.queue, 2, Len(s.queue))
    BY <1>7, TailIsPart
  <2>2. d \in 0 .. Len(mQueue) /\ 2 \in 1 .. Len(s.queue) + 1
        /\ Len(s.queue) \in 0 .. Len(s.queue) /\ 2 <= Len(s.queue) + 1
        /\ d + 2 = (d + 1) + 1 /\ d + Len(s.queue) = Len(mQueue)
    BY <1>0, <1>6, <1>7
  <2>3. SubSeq(s.queue, 2, Len(s.queue))
        = SubSeq(mQueue, d + 2, d + Len(s.queue))
    BY <1>2, <2>2, PartOfPart
  <2> QED
    BY <2>1, <2>2, <2>3
<1>9. DropPlayed(s).queue = Tail(s.queue)
      /\ DropPlayed(s).current = s.current - 1
  <2>1. s = [queue |-> s.queue, current |-> s.current, total |-> s.total,
             remaining |-> s.remaining]
    BY <1>1 DEF TrimStates
  <2>2. (IF s.current = 1 THEN 1 ELSE s.current - 1) = s.current - 1
    BY <1>6
  <2>3. DropPlayed(s)
        = [s EXCEPT !.queue = Tail(s.queue),
                    !.total = s.total - Counted(Head(s.queue)),
                    !.current = IF s.current = 1 THEN 1 ELSE s.current - 1]
    BY DEF DropPlayed
  <2>4. DropPlayed(s)
        = [s EXCEPT !.queue = Tail(s.queue),
                    !.total = s.total - Counted(Head(s.queue)),
                    !.current = s.current - 1]
    BY <2>2, <2>3, Zenon
  <2> QED
    BY <2>1, <2>4
<1>10. ASSUME NEW m \in 0 .. (d + 1) - 1
       PROVE  Rest(mQueue, m + 1) - Rest(mQueue, mCurrent + 1)
                > mMaxBackwardDuration
  <2>1. m = d \/ m \in 0 .. d - 1
    BY <1>6
  <2> QED
    BY <1>2, <1>4, <2>1
<1>11. DropPlayed(s).current = mCurrent + 1 - (d + 1)
  BY <1>6, <1>9
<1> QED
  BY <1>1, <1>6, <1>8, <1>9, <1>10, <1>11 DEF ForgottenStates

\* getPacket with a limit reads, and forgets as little as fits the limit.
LEMMA KeepIsRead ==
  ASSUME QueueInv, GetAndKeep
  PROVE  Tape!Read \/ UNCHANGED Tape!vars
<1>1. /\ mMaxBackwardDuration > 0 /\ mQueue # <<>> /\ mCurrent # End
      /\ mCurrent # Dangling
  BY DEF GetAndKeep, AtEnd
<1>2. /\ mCurrent \in 1 .. Len(mQueue) /\ PacketsAreDated
      /\ mQueue \in Seq(Packet) /\ Len(mQueue) \in Nat
      /\ mMaxBackwardDuration \in Nat /\ mMaxBackwardDuration # 0
  BY <1>1, QueueTypes DEF End, Dangling, QueueInv
<1>3. CASE TooMuchPlayed(Trimmed)
  BY <1>3 DEF GetAndKeep, Fail, Tape!vars, Played, Pending
<1>4. CASE ~TooMuchPlayed(Trimmed)
  <2>1. /\ returned' = Clone(mQueue[mCurrent])
        /\ mQueue' = Trimmed.queue /\ mCurrent' = Trimmed.current
        /\ UNCHANGED <<mPacketDuration, mMaxBackwardDuration>>
    BY <1>4 DEF GetAndKeep
  <2>2. TrimStart \in ForgottenStates
    <3>1. TrimStart \in TrimStates
      BY KeepStartsInTrimStates
    <3>2. SubSeq(mQueue, 0 + 1, Len(mQueue)) = mQueue
          /\ mCurrent + 1 - 0 = mCurrent + 1
          /\ 0 \in 0 .. mCurrent /\ 0 .. 0 - 1 = {}
      BY <1>2
    <3>3. TrimStart.queue = mQueue /\ TrimStart.current = mCurrent + 1
      BY DEF TrimStart
    <3> QED
      BY <3>1, <3>2, <3>3 DEF ForgottenStates
  <2>3. Trimmed \in ForgottenStates
    BY <1>2, <2>2, DropForgets, TrimmedIsIn
  <2>4. PICK d \in 0 .. mCurrent :
          /\ Trimmed.queue = SubSeq(mQueue, d + 1, Len(mQueue))
          /\ Trimmed.current = mCurrent + 1 - d
          /\ \A m \in 0 .. d - 1 :
               Rest(mQueue, m + 1) - Rest(mQueue, mCurrent + 1)
                 > mMaxBackwardDuration
    BY <2>3 DEF ForgottenStates
  <2>5. /\ Trimmed.total = Rest(mQueue, d + 1)
        /\ Trimmed.remaining = Rest(mQueue, mCurrent + 1)
        /\ Rest(mQueue, d + 1) \in Nat /\ Rest(mQueue, mCurrent + 1) \in Nat
    BY <1>2, <2>3, <2>4, ForgottenCounts DEF ForgottenStates
  <2>6. Rest(mQueue, d + 1) - Rest(mQueue, mCurrent + 1)
        <= mMaxBackwardDuration
    BY <1>2, <1>4, <2>5 DEF TooMuchPlayed, Exceeds
  <2> DEFINE A == SubSeq(mQueue, 1, mCurrent)
  <2>7. /\ Played = SubSeq(mQueue, 1, mCurrent - 1)
        /\ Pending = SubSeq(mQueue, mCurrent, Len(mQueue))
        /\ Pending \in Seq(Packet)
        /\ Len(Pending) = Len(mQueue) - mCurrent + 1
    BY <1>1, PlayedAndPending
  <2>8. Pending # <<>> /\ Head(Pending) = mQueue[mCurrent]
    <3>1. 1 \in 1 .. Len(mQueue) - mCurrent + 1 /\ mCurrent + 1 - 1 = mCurrent
      BY <1>2
    <3>2. Pending[1] = mQueue[mCurrent]
      BY <1>1, <3>1, PlayedAndPending
    <3>3. Pending \in Seq(Packet) /\ Len(Pending) # 0
      BY <1>2, <2>7
    <3>4. Pending # <<>> /\ Head(Pending) = Pending[1]
      BY <3>3
    <3> QED
      BY <3>2, <3>4
  <2>9. Append(Played, Head(Pending)) = A
    <3>1. mCurrent \in 1 .. Len(mQueue) /\ 1 \in 1 .. mCurrent
      BY <1>2
    <3> QED
      BY <1>2, <2>7, <2>8, <3>1, PartAndNext
  <2>10. Len(A) = mCurrent /\ A \in Seq(Packet)
    BY <1>2
  <2>11. ASSUME NEW n \in 0 .. mCurrent
         PROVE  Tape!WeightOf(SubSeq(A, n + 1, Len(A)))
                = Rest(mQueue, n + 1) - Rest(mQueue, mCurrent + 1)
    <3>1. SubSeq(A, n + 1, mCurrent) = SubSeq(mQueue, n + 1, mCurrent)
      BY <1>2
    <3>2. SumOf(SubSeq(mQueue, n + 1, mCurrent))
          = Rest(mQueue, n + 1) - Rest(mQueue, mCurrent + 1)
      <4>1. mCurrent \in 0 .. Len(mQueue) /\ n + 1 \in 1 .. mCurrent + 1
        BY <1>2
      <4> QED
        BY <1>2, <4>1, SumOfPart
    <3> HIDE DEF A
    <3> QED
      BY <2>10, <3>1, <3>2, WeightIsSum
  <2> DEFINE fits == {n \in 0 .. Len(A) :
                        Tape!WeightOf(SubSeq(A, n + 1, Len(A)))
                          <= mMaxBackwardDuration}
             drop == CHOOSE n \in fits : \A m \in fits : n <= m
  <2> HIDE DEF A
  <2>12. drop = d
    <3>1. fits \in SUBSET Nat /\ d \in fits
      BY <1>2, <2>6, <2>10, <2>11
    <3>2. ASSUME NEW m \in fits PROVE d <= m
      <4>1. m \in 0 .. mCurrent
            /\ Rest(mQueue, m + 1) - Rest(mQueue, mCurrent + 1)
                 <= mMaxBackwardDuration
        BY <2>10, <2>11
      <4>2. m + 1 \in 1 .. Len(mQueue) + 1
        BY <1>2, <4>1
      <4>3. Rest(mQueue, m + 1) \in Nat
        BY <1>2, <4>2, RestIsNat
      <4>4. m \notin 0 .. d - 1
        BY <1>2, <2>4, <2>5, <4>1, <4>3
      <4> QED
        BY <1>2, <4>1, <4>4
    <3> HIDE DEF fits
    <3> QED
      BY <3>1, <3>2, TheLeastOf
  <2>13. Tape!Kept(A) = SubSeq(A, d + 1, Len(A))
    <3>1. Tape!Kept(A) = IF mMaxBackwardDuration = 0 THEN <<>>
                         ELSE SubSeq(A, drop + 1, Len(A))
      BY Zenon DEF Tape!Kept
    <3> HIDE DEF drop
    <3> QED
      BY <1>2, <2>12, <3>1
  <2>14. SubSeq(A, d + 1, Len(A)) = SubSeq(mQueue, d + 1, mCurrent)
    BY <1>2, <2>10 DEF A
  <2>15. /\ mQueue' = SubSeq(mQueue, d + 1, Len(mQueue))
         /\ mCurrent' = mCurrent + 1 - d /\ mCurrent' # Dangling
         /\ Len(mQueue') = Len(mQueue) - d /\ d \in 0 .. Len(mQueue)
         /\ mQueue' \in Seq(Packet)
    BY <1>2, <2>1, <2>4 DEF Dangling
  <2>16. Played' = SubSeq(mQueue, d + 1, mCurrent)
    <3>1. /\ mCurrent' - 1 \in 0 .. Len(mQueue') /\ 1 \in 1 .. Len(mQueue') + 1
          /\ 1 <= mCurrent' - 1 + 1 /\ d + (mCurrent' - 1) = mCurrent
      BY <1>2, <2>15
    <3>2. SubSeq(mQueue', 1, mCurrent' - 1)
          = SubSeq(mQueue, d + 1, d + (mCurrent' - 1))
      BY <1>2, <2>15, <3>1, PartOfPart
    <3> QED
      BY <3>1, <3>2 DEF Played
  <2>17. Pending' = SubSeq(mQueue, mCurrent + 1, Len(mQueue))
    <3>1. /\ mCurrent' \in 1 .. Len(mQueue') + 1
          /\ Len(mQueue') \in 0 .. Len(mQueue')
          /\ mCurrent' <= Len(mQueue') + 1
          /\ d + mCurrent' = mCurrent + 1 /\ d + Len(mQueue') = Len(mQueue)
      BY <1>2, <2>15
    <3>2. SubSeq(mQueue', mCurrent', Len(mQueue'))
          = SubSeq(mQueue, d + mCurrent', d + Len(mQueue'))
      BY <1>2, <2>15, <3>1, PartOfPart
    <3> QED
      BY <2>15, <3>1, <3>2 DEF Pending
  <2>18. Tail(Pending) = SubSeq(mQueue, mCurrent + 1, Len(mQueue))
    <3>1. Tail(Pending) = SubSeq(Pending, 2, Len(Pending))
      BY <2>7, <2>8, TailIsPart
    <3>2. /\ mCurrent - 1 \in 0 .. Len(mQueue) /\ (mCurrent - 1) + 1 = mCurrent
          /\ 2 \in 1 .. Len(Pending) + 1 /\ Len(Pending) \in 0 .. Len(Pending)
          /\ 2 <= Len(Pending) + 1 /\ (mCurrent - 1) + 2 = mCurrent + 1
          /\ (mCurrent - 1) + Len(Pending) = Len(mQueue)
      BY <1>2, <2>7
    <3>3. Pending = SubSeq(mQueue, (mCurrent - 1) + 1, Len(mQueue))
      BY <2>7, <3>2
    <3>4. SubSeq(Pending, 2, Len(Pending))
          = SubSeq(mQueue, (mCurrent - 1) + 2, (mCurrent - 1) + Len(Pending))
      BY <1>2, <3>2, <3>3, PartOfPart
    <3> QED
      BY <3>1, <3>2, <3>4
  <2>19. returned'.id = Head(Pending).id
    <3>1. mQueue[mCurrent] \in Packet
      BY <1>2
    <3>2. Clone(mQueue[mCurrent]).id = mQueue[mCurrent].id
      BY <3>1, CloneIsTheSame
    <3> QED
      BY <2>1, <2>8, <3>2
  <2>20. Played' = Tape!Kept(Append(Played, Head(Pending)))
    BY <2>9, <2>13, <2>14, <2>16
  <2> QED
    BY <2>1, <2>8, <2>17, <2>18, <2>19, <2>20 DEF Tape!Read
<1> QED
  BY <1>3, <1>4

LEMMA StepIsTapeStep ==
  ASSUME LimitIsNotTakenBack, QueueInv, QueueInv', CursorInv, [Next]_vars
  PROVE  [Tape!Next]_(Tape!vars) /\ CursorInv'
<1>1. CASE \E p \in Packets : AddPacket(p)
  <2>1. CursorInv'
    BY <1>1 DEF AddPacket, CursorInv
  <2> QED
    BY <1>1, <2>1, AddIsAdd DEF Tape!Next
<1>2. CASE GetPacketAborts \/ \E limit \in TimePositions : QueryFaults(limit)
  BY <1>2 DEF GetPacketAborts, QueryFaults, Fail, CursorInv, Tape!vars,
              Played, Pending
<1>3. CASE GetNothing
  <2>1. CursorInv'
    BY <1>3 DEF GetNothing, CursorInv
  <2> QED
    BY <1>3, <2>1, GetNothingIsReadNothing DEF Tape!Next
<1>4. CASE GetAndRemove
  <2>1. CursorInv'
    BY <1>4 DEF GetAndRemove, CursorInv
  <2> QED
    BY <1>4, <2>1, RemoveIsRead DEF Tape!Next
<1>5. CASE GetAndKeep
  <2>1. CursorInv'
    BY <1>5 DEF GetAndKeep, Fail, CursorInv
  <2> QED
    BY <1>5, <2>1, KeepIsRead DEF Tape!Next
<1>6. CASE Clear
  <2>1. CursorInv'
    BY <1>6 DEF Clear, CursorInv
  <2> QED
    BY <1>6, <2>1, ClearIsClear DEF Tape!Next
<1>7. CASE Rewind
  <2>1. CursorInv'
    BY <1>7 DEF Rewind, CursorInv
  <2> QED
    BY <1>7, <2>1, RewindIsRewind DEF Tape!Next
<1>8. CASE \E limit \in BackwardDurations : SetMaxBackwardDuration(limit)
  <2>1. CursorInv'
    BY <1>8 DEF SetMaxBackwardDuration, CursorInv, LimitIsNotTakenBack
  <2> QED
    BY <1>8, <2>1, LimitIsLimit DEF Tape!Next
<1>9. CASE \E limit \in TimePositions : ClearPacketBefore(limit)
  BY <1>9, ClearBeforeIsSkip DEF Tape!Next
<1>10. CASE \E limit \in TimePositions : ClearPacketAfter(limit)
  <2>1. CursorInv'
    BY <1>10 DEF ClearPacketAfter, Fail, CursorInv
  <2> QED
    BY <1>10, <2>1, ClearAfterIsShorten DEF Tape!Next
<1>11. CASE UNCHANGED vars
  BY <1>11 DEF vars, CursorInv, Tape!vars, Played, Pending
<1> QED
  BY <1>1, <1>2, <1>3, <1>4, <1>5, <1>6, <1>7, <1>8, <1>9, <1>10, <1>11
     DEF Next, GetPacket

(***************************************************************************)
(* Rewound, trimmed and cleared from either end, the list with its         *)
(* iterator and counters implements the tape: packets come out once each,  *)
(* in the order they were added, until the client rewinds, and what is     *)
(* kept of the played ones is the longest end that fits the limit.         *)
(***************************************************************************)
THEOREM QueueImplementsTape ==
  ASSUME NothingForgedIsKept, LimitIsNotTakenBack
  PROVE  Spec => ImplementsTape
<1>1. Init => CursorInv
  BY DEF Init, CursorInv
<1>2. Init => Tape!Init
  BY DEF Init, Tape!Init, Played, Pending, Dangling, NoPacket
<1>3. QueueInv /\ QueueInv' /\ CursorInv /\ [Next]_vars
        => [Tape!Next]_(Tape!vars) /\ CursorInv'
  BY StepIsTapeStep
<1> QED
  BY <1>1, <1>2, <1>3, QueueInvariance, PTL DEF Spec, ImplementsTape, Tape!Spec

-----------------------------------------------------------------------------
\* The player keeps nothing that was played, and sets no limit.
LEMMA PlayerUseIsAUse ==
  ASSUME PlayerUse
  PROVE  NothingForgedIsKept /\ LimitIsNotTakenBack
  BY DEF PlayerUse, NothingForgedIsKept, LimitIsNotTakenBack

(***************************************************************************)
(* In the player's use the list with its iterator and counters implements  *)
(* the tape: packets come out once each, in the order they were added.     *)
(***************************************************************************)
THEOREM PlayerImplementsTape ==
  ASSUME PlayerUse
  PROVE  Spec => ImplementsTape
  BY PlayerUseIsAUse, QueueImplementsTape

(***************************************************************************)
(* In the player's use the counters are at all times the durations they    *)
(* stand for, however many packets were added, forged or handed out.       *)
(***************************************************************************)
THEOREM PlayerCountsDurations ==
  ASSUME PlayerUse
  PROVE  Spec => []DurationAccounting
  BY PlayerUseIsAUse, QueueCountsDurations

\* In the player's use all of the queue is pending.
LEMMA AllIsPending ==
  ASSUME PlayerInv
  PROVE  Pending = mQueue
  BY CutAtFront DEF Pending, PlayerInv, TypeOK, ForwardOnly, Dangling

CountersAreSums == mDuration = SumOf(mQueue)

LEMMA SumsInvariance ==
  ASSUME PlayerUse
  PROVE  Spec => [](PlayerInv /\ CountersAreSums)
<1>1. PlayerInv /\ DurationAccounting => CountersAreSums
  BY AllIsPending
     DEF DurationAccounting, CountersAreSums, PlayerInv, ForwardOnly, Alive
<1> QED
  BY <1>1, PlayerInvariance, PlayerCountsDurations, PTL
=============================================================================
