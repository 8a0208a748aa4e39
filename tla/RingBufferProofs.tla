-------------------------- MODULE RingBufferProofs --------------------------
(***************************************************************************)
(* Every method of the ring buffer keeps Holds, for buffers of any size:   *)
(* whatever is read, rewound, skipped and written around the end of the    *)
(* memory, what is read is the stream.                                     *)
(***************************************************************************)
EXTENDS RingBuffer, TLAPS

\* A moved index is an index.
LEMMA WrapIsAnIndex ==
  ASSUME NEW i \in Int, -mSize <= i, i < 2 * mSize
  PROVE  Wrap(i) \in Index
  BY RingBufferAssumption DEF Wrap, Index

\* A new buffer holds no bytes of the stream, wherever the stream begins.
THEOREM NewRingHolds ==
  ASSUME NEW pos \in Int
  PROVE  NewRing \in Ring /\ Holds(NewRing, pos)
  BY RingBufferAssumption DEF NewRing, Ring, Holds, Wrap, Index

\* A cleared buffer holds no bytes of the stream, wherever the next begins.
THEOREM ClearHolds ==
  ASSUME NEW b \in Ring, NEW pos \in Int
  PROVE  Clear(b) \in Ring /\ Holds(Clear(b), pos)
<1> DEFINE c == Clear(b)
<1>1. /\ c.mBuffer = b.mBuffer /\ c.mReadIndex = 0 /\ c.mWriteIndex = 0
      /\ c.mFillCount = 0 /\ c.mBackCount = 0
  BY DEF Clear, NewRing
<1>2. c \in Ring
  BY RingBufferAssumption DEF Clear, NewRing, Ring, Index
<1> HIDE DEF c
<1>3. Holds(c, pos)
  BY <1>1, RingBufferAssumption DEF Holds, Wrap
<1> QED
  BY <1>2, <1>3 DEF c

(***************************************************************************)
(* readData copies out the next bytes of the stream, across the end of the *)
(* memory too.                                                             *)
(***************************************************************************)
THEOREM OutputIsTheStream ==
  ASSUME NEW b \in Ring, NEW pos \in Int, Holds(b, pos),
         NEW n \in Nat, n <= b.mFillCount
  PROVE  Output(b, n) = [i \in 0 .. n - 1 |-> pos + i]
<1>1. \A i \in 0 .. n - 1 : i \in -b.mBackCount .. b.mFillCount - 1
  BY DEF Ring
<1>2. \A i \in 0 .. n - 1 : b.mBuffer[Wrap(b.mReadIndex + i)] = pos + i
  BY <1>1 DEF Holds
<1> QED
  BY <1>2 DEF Output

(***************************************************************************)
(* readData moves on by what it read, and what it keeps for a step back is *)
(* still there.                                                            *)
(***************************************************************************)
THEOREM ReadDataHolds ==
  ASSUME NEW b \in Ring, NEW pos \in Int, Holds(b, pos),
         NEW n \in Nat, n <= b.mFillCount
  PROVE  ReadData(b, n) \in Ring /\ Holds(ReadData(b, n), pos + n)
<1> DEFINE c == ReadData(b, n)
<1>1. /\ b.mReadIndex \in Index /\ b.mFillCount \in Nat /\ b.mBackCount \in Nat
      /\ b.mFillCount + b.mBackCount <= mSize
  BY DEF Ring, Holds
<1>2. /\ c.mBuffer = b.mBuffer /\ c.mWriteIndex = b.mWriteIndex
      /\ c.mReadIndex = Wrap(b.mReadIndex + n)
      /\ c.mFillCount = b.mFillCount - n
      /\ c.mBackCount = Least(mBackSize, b.mBackCount + n)
  BY <1>1 DEF ReadData, Ring
<1>3. c.mReadIndex \in Index /\ c.mFillCount \in Nat /\ c.mBackCount \in Nat
  BY <1>1, <1>2, RingBufferAssumption DEF Wrap, Index, Least
<1>4. c \in Ring
  BY <1>2, <1>3, <1>1 DEF ReadData, Ring
<1>5. c.mBackCount <= b.mBackCount + n
  BY <1>1, <1>2, RingBufferAssumption DEF Least
<1>6. c.mWriteIndex = Wrap(c.mReadIndex + c.mFillCount)
  BY <1>1, <1>2, RingBufferAssumption DEF Holds, Wrap, Index
<1>7. ASSUME NEW i \in -c.mBackCount .. c.mFillCount - 1
      PROVE  c.mBuffer[Wrap(c.mReadIndex + i)] = pos + n + i
  <2>1. i + n \in -b.mBackCount .. b.mFillCount - 1
    BY <1>1, <1>2, <1>3, <1>5
  <2>2. Wrap(c.mReadIndex + i) = Wrap(b.mReadIndex + (i + n))
    BY <1>1, <1>2, <2>1, RingBufferAssumption DEF Wrap, Index
  <2> QED
    BY <1>2, <2>1, <2>2 DEF Holds
<1>8. c.mFillCount + c.mBackCount <= mSize
  BY <1>1, <1>2, <1>3, <1>5, RingBufferAssumption
<1> HIDE DEF c
<1>9. Holds(c, pos + n)
  BY <1>6, <1>7, <1>8 DEF Holds
<1> QED
  BY <1>4, <1>9 DEF c

(***************************************************************************)
(* writeData, when there is room, appends to what is readable and never    *)
(* touches what may still be rewound.                                      *)
(***************************************************************************)
THEOREM WriteDataHolds ==
  ASSUME NEW b \in Ring, NEW pos \in Int, Holds(b, pos),
         NEW n \in Nat, n <= WriteableSize(b)
  PROVE  /\ WriteData(b, pos + b.mFillCount, n) \in Ring
         /\ Holds(WriteData(b, pos + b.mFillCount, n), pos)
<1> DEFINE c == WriteData(b, pos + b.mFillCount, n)
           distance(i) == Wrap(i - b.mWriteIndex)
           memory == Written(b, pos + b.mFillCount, n)
<1>1. /\ b.mReadIndex \in Index /\ b.mWriteIndex \in Index
      /\ b.mFillCount \in Nat /\ b.mBackCount \in Nat
      /\ b.mFillCount + b.mBackCount + n <= mSize
  BY RingBufferAssumption DEF Ring, Holds, WriteableSize
<1> HIDE DEF memory
<1>2. /\ c.mReadIndex = b.mReadIndex /\ c.mBackCount = b.mBackCount
      /\ c.mFillCount = b.mFillCount + n
      /\ c.mWriteIndex = Wrap(b.mWriteIndex + n)
      /\ c.mBuffer = memory
      /\ c = [b EXCEPT !.mBuffer = memory, !.mWriteIndex = Wrap(@ + n),
                       !.mFillCount = @ + n]
  <2>1. ~(n > WriteableSize(b))
    BY <1>1, RingBufferAssumption DEF WriteableSize
  <2>2. c = [b EXCEPT !.mBuffer = memory, !.mWriteIndex = Wrap(@ + n),
                      !.mFillCount = @ + n]
    BY <2>1 DEF WriteData, memory
  <2> QED
    BY <2>2 DEF Ring
<1>3. \A i \in Index : distance(i) \in Index
  BY <1>1, RingBufferAssumption DEF Wrap, Index
<1>4. c \in Ring
  <2>1. memory \in [Index -> Int]
    <3>1. b.mBuffer \in [Index -> Int] /\ Index \subseteq Int
      BY DEF Ring, Index
    <3>2. pos + b.mFillCount \in Int
      BY <1>1
    <3> QED
      BY <1>3, <3>1, <3>2 DEF memory, Written
  <2>2. c.mWriteIndex \in Index
    BY <1>1, <1>2, RingBufferAssumption DEF Wrap, Index
  <2>3. c.mFillCount \in Nat
    BY <1>1, <1>2
  <2> QED
    BY <1>1, <1>2, <2>1, <2>2, <2>3 DEF Ring
<1>5. c.mWriteIndex = Wrap(c.mReadIndex + c.mFillCount)
  BY <1>1, <1>2, RingBufferAssumption DEF Holds, Wrap, Index
<1>6. ASSUME NEW i \in -c.mBackCount .. c.mFillCount - 1
      PROVE  c.mBuffer[Wrap(c.mReadIndex + i)] = pos + i
  <2>1. Wrap(b.mReadIndex + i) \in Index
    BY <1>1, <1>2, RingBufferAssumption DEF Wrap, Index
  <2>2. CASE i < b.mFillCount
    <3>1. ~(distance(Wrap(b.mReadIndex + i)) < n)
      BY <1>1, <1>2, <2>2, RingBufferAssumption DEF Holds, Wrap, Index
    <3>2. b.mBuffer[Wrap(b.mReadIndex + i)] = pos + i
      BY <1>1, <1>2, <2>2 DEF Holds
    <3> QED
      BY <1>2, <2>1, <3>1, <3>2 DEF memory, Written
  <2>3. CASE i >= b.mFillCount
    <3>1. distance(Wrap(b.mReadIndex + i)) = i - b.mFillCount
      BY <1>1, <1>2, <2>3, RingBufferAssumption DEF Holds, Wrap, Index
    <3> QED
      BY <1>1, <1>2, <2>1, <2>3, <3>1 DEF memory, Written
  <2> QED
    BY <2>2, <2>3, <1>1, <1>2
<1>7. c.mFillCount + c.mBackCount <= mSize
  BY <1>1, <1>2, RingBufferAssumption
<1> HIDE DEF c
<1>8. Holds(c, pos)
  BY <1>5, <1>6, <1>7 DEF Holds
<1> QED
  BY <1>4, <1>8 DEF c

(***************************************************************************)
(* skipBytes moves the reader within what is held: back over what was kept *)
(* and forward over what is readable.                                      *)
(***************************************************************************)
THEOREM SkipBytesHolds ==
  ASSUME NEW b \in Ring, NEW pos \in Int, Holds(b, pos),
         NEW n \in Int, CanSkip(b, n)
  PROVE  SkipBytes(b, n) \in Ring /\ Holds(SkipBytes(b, n), pos + n)
<1> DEFINE c == SkipBytes(b, n)
<1>1. /\ b.mReadIndex \in Index /\ b.mFillCount \in Nat /\ b.mBackCount \in Nat
      /\ b.mFillCount + b.mBackCount <= mSize
      /\ -b.mBackCount <= n /\ n <= b.mFillCount
  BY DEF Ring, Holds, CanSkip
<1>2. /\ c.mBuffer = b.mBuffer /\ c.mWriteIndex = b.mWriteIndex
      /\ c.mReadIndex = Wrap(b.mReadIndex + n)
      /\ c.mFillCount = b.mFillCount - n
      /\ c.mBackCount = IF n < 0 THEN b.mBackCount + n ELSE b.mBackCount
  BY DEF SkipBytes, Ring
<1>3. c.mReadIndex \in Index /\ c.mFillCount \in Nat /\ c.mBackCount \in Nat
  BY <1>1, <1>2, RingBufferAssumption DEF Wrap, Index
<1>4. c \in Ring
  BY <1>2, <1>3, <1>1 DEF SkipBytes, Ring
<1>5. c.mFillCount + c.mBackCount <= mSize
  BY <1>1, <1>2, RingBufferAssumption
<1>6. c.mWriteIndex = Wrap(c.mReadIndex + c.mFillCount)
  BY <1>1, <1>2, RingBufferAssumption DEF Holds, Wrap, Index
<1>7. ASSUME NEW i \in -c.mBackCount .. c.mFillCount - 1
      PROVE  c.mBuffer[Wrap(c.mReadIndex + i)] = pos + n + i
  <2>1. i + n \in -b.mBackCount .. b.mFillCount - 1
    BY <1>1, <1>2
  <2>2. Wrap(c.mReadIndex + i) = Wrap(b.mReadIndex + (i + n))
    BY <1>1, <1>2, <2>1, RingBufferAssumption DEF Wrap, Index
  <2> QED
    BY <1>2, <2>1, <2>2 DEF Holds
<1> HIDE DEF c
<1>8. Holds(c, pos + n)
  BY <1>5, <1>6, <1>7 DEF Holds
<1> QED
  BY <1>4, <1>8 DEF c

-----------------------------------------------------------------------------
(***************************************************************************)
(* Every operation, called with what it refuses or not, leaves a buffer    *)
(* whose counts fit into it, whatever it holds.                            *)
(***************************************************************************)
Fits(b) ==
  /\ b \in Ring
  /\ b.mFillCount + b.mBackCount <= mSize
  /\ b.mBackCount <= mBackSize

LEMMA RingOperationsFit ==
  ASSUME NEW b, Fits(b)
  PROVE  /\ Fits(NewRing) /\ Fits(Clear(b)) /\ Clear(b).mBackCount = 0
         /\ \A n \in Nat : Fits(ReadData(b, n))
         /\ \A n \in Int : Fits(SkipBytes(b, n))
         /\ \A first \in Int, n \in Nat \ {0} :
              /\ Fits(WriteData(b, first, n))
              /\ WriteData(b, first, n).mBackCount = b.mBackCount
<1> USE RingBufferAssumption
<1>1. /\ b.mReadIndex \in Index /\ b.mWriteIndex \in Index
      /\ b.mFillCount \in Nat /\ b.mBackCount \in Nat
      /\ b.mFillCount + b.mBackCount <= mSize /\ b.mBackCount <= mBackSize
  BY DEF Fits, Ring
<1>2. b \in Ring /\ b.mBuffer \in [Index -> Int]
  BY DEF Fits, Ring
<1>3. Fits(NewRing)
  BY DEF Fits, NewRing, Ring, Index
<1>4. Fits(Clear(b)) /\ Clear(b).mBackCount = 0
  <2>1. Clear(b) \in Ring
    BY <1>2, ClearHolds
  <2>2. Clear(b).mFillCount = 0 /\ Clear(b).mBackCount = 0
    BY DEF Clear, NewRing
  <2> QED
    BY <2>1, <2>2 DEF Fits
<1>5. ASSUME NEW n \in Nat
      PROVE  Fits(ReadData(b, n))
  <2> DEFINE c == ReadData(b, n)
  <2>1. CASE n > b.mFillCount
    BY <2>1 DEF ReadData
  <2>2. CASE n <= b.mFillCount
    <3>1. /\ c.mBuffer = b.mBuffer /\ c.mWriteIndex = b.mWriteIndex
          /\ c.mReadIndex = Wrap(b.mReadIndex + n)
          /\ c.mFillCount = b.mFillCount - n
          /\ c.mBackCount = Least(mBackSize, b.mBackCount + n)
      BY <1>1, <1>2, <2>2 DEF ReadData, Ring
    <3>2. c.mReadIndex \in Index /\ c.mFillCount \in Nat /\ c.mBackCount \in Nat
      BY <1>1, <2>2, <3>1 DEF Wrap, Index, Least
    <3>3. c \in Ring
      BY <1>1, <1>2, <2>2, <3>1, <3>2 DEF ReadData, Ring
    <3>4. c.mBackCount <= mBackSize /\ c.mBackCount <= b.mBackCount + n
      BY <1>1, <3>1 DEF Least
    <3>5. c.mFillCount + c.mBackCount <= mSize
      BY <1>1, <2>2, <3>1, <3>2, <3>4
    <3> QED
      BY <3>3, <3>4, <3>5 DEF Fits
  <2> QED
    BY <1>1, <2>1, <2>2
<1>6. ASSUME NEW n \in Int
      PROVE  Fits(SkipBytes(b, n))
  <2> DEFINE c == SkipBytes(b, n)
  <2>1. CASE ~CanSkip(b, n)
    BY <2>1 DEF SkipBytes
  <2>2. CASE CanSkip(b, n)
    <3>1. -b.mBackCount <= n /\ n <= b.mFillCount
      BY <1>1, <2>2 DEF CanSkip
    <3>2. /\ c.mBuffer = b.mBuffer /\ c.mWriteIndex = b.mWriteIndex
          /\ c.mReadIndex = Wrap(b.mReadIndex + n)
          /\ c.mFillCount = b.mFillCount - n
          /\ c.mBackCount = IF n < 0 THEN b.mBackCount + n ELSE b.mBackCount
      BY <1>1, <1>2, <2>2 DEF SkipBytes, Ring
    <3>3. c.mReadIndex \in Index /\ c.mFillCount \in Nat /\ c.mBackCount \in Nat
      BY <1>1, <3>1, <3>2 DEF Wrap, Index
    <3>4. c \in Ring
      BY <1>1, <1>2, <2>2, <3>2, <3>3 DEF SkipBytes, Ring
    <3>5. c.mBackCount <= mBackSize /\ c.mFillCount + c.mBackCount <= mSize
      BY <1>1, <3>1, <3>2
    <3> QED
      BY <3>4, <3>5 DEF Fits
  <2> QED
    BY <2>1, <2>2
<1>7. ASSUME NEW first \in Int, NEW n \in Nat \ {0}
      PROVE  /\ Fits(WriteData(b, first, n))
             /\ WriteData(b, first, n).mBackCount = b.mBackCount
  <2> DEFINE c == WriteData(b, first, n)
             memory == Written(b, first, n)
  <2>1. CASE n > WriteableSize(b)
    BY <2>1 DEF WriteData
  <2>2. CASE ~(n > WriteableSize(b))
    <3>1. memory \in [Index -> Int]
      <4>1. ASSUME NEW i \in Index
            PROVE  Wrap(i - b.mWriteIndex) \in Int
        BY <1>1 DEF Wrap, Index
      <4> QED
        BY <1>2, <4>1 DEF Written
    <3> HIDE DEF memory
    <3>2. /\ c.mBuffer = memory
          /\ c.mWriteIndex = Wrap(b.mWriteIndex + n)
          /\ c.mReadIndex = b.mReadIndex
          /\ c.mFillCount = b.mFillCount + n
          /\ c.mBackCount = b.mBackCount
          /\ c = [b EXCEPT !.mBuffer = memory, !.mWriteIndex = Wrap(@ + n),
                           !.mFillCount = @ + n]
      <4>1. c = [b EXCEPT !.mBuffer = memory, !.mWriteIndex = Wrap(@ + n),
                          !.mFillCount = @ + n]
        BY <2>2 DEF WriteData, memory
      <4> QED
        BY <1>2, <4>1 DEF Ring
    <3>3. c.mWriteIndex \in Index /\ c.mFillCount \in Nat
      BY <1>1, <2>2, <3>2 DEF Wrap, Index, WriteableSize
    <3> HIDE DEF c
    <3>4. c \in Ring
      BY <1>1, <1>2, <3>1, <3>2, <3>3 DEF Ring
    <3>5. c.mBackCount <= mBackSize /\ c.mFillCount + c.mBackCount <= mSize
      BY <1>1, <2>2, <3>2 DEF WriteableSize
    <3> QED
      BY <3>2, <3>4, <3>5 DEF Fits, c
  <2> QED
    BY <1>1, <2>1, <2>2
<1> QED
  BY <1>3, <1>4, <1>5, <1>6, <1>7
=============================================================================
