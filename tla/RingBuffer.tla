----------------------------- MODULE RingBuffer -----------------------------
(***************************************************************************)
(* The ring buffer between a transfer and its reader                       *)
(* (framework/base/RingBuffer.cpp).  A buffer is a record of the code's    *)
(* fields and a method an operator on it; the connection that owns the     *)
(* buffer calls its methods under a mutex.  A byte is its position in the  *)
(* stream it comes from.                                                   *)
(***************************************************************************)
EXTENDS Integers

CONSTANTS
  mSize,      \* bytes in the buffer
  mBackSize   \* how many bytes already read may be kept for a step back

ASSUME RingBufferAssumption ==
  /\ mSize \in Nat \ {0}
  /\ mBackSize \in Nat

Index == 0 .. mSize - 1

Ring == [mBuffer: [Index -> Int], mReadIndex: Index, mWriteIndex: Index,
         mFillCount: Nat, mBackCount: Nat]

\* A new buffer, its memory set to zero.
NewRing == [mBuffer |-> [i \in Index |-> 0], mReadIndex |-> 0,
            mWriteIndex |-> 0, mFillCount |-> 0, mBackCount |-> 0]

ReadableSize(b) == b.mFillCount
WriteableSize(b) == mSize - b.mFillCount - b.mBackCount

\* An index moved by less than the size of the buffer, around its end.
Wrap(i) == IF i >= mSize THEN i - mSize ELSE IF i < 0 THEN i + mSize ELSE i

Least(m, n) == IF m < n THEN m ELSE n

-----------------------------------------------------------------------------
\* The bytes readData(n) copies out; it copies nothing if there are fewer.
Output(b, n) == [i \in 0 .. n - 1 |-> b.mBuffer[Wrap(b.mReadIndex + i)]]

ReadData(b, n) ==
  IF n > b.mFillCount THEN b
  ELSE [b EXCEPT !.mReadIndex = Wrap(@ + n),
                 !.mFillCount = @ - n,
                 !.mBackCount = Least(mBackSize, @ + n)]

\* The memory after the n bytes from the position first on were copied in.
Written(b, first, n) ==
  [i \in Index |-> IF Wrap(i - b.mWriteIndex) < n
                   THEN first + Wrap(i - b.mWriteIndex) ELSE b.mBuffer[i]]

WriteData(b, first, n) ==
  IF n > WriteableSize(b) THEN b
  ELSE [b EXCEPT !.mBuffer = Written(b, first, n),
                 !.mWriteIndex = Wrap(@ + n),
                 !.mFillCount = @ + n]

\* What skipBytes returns: 0 if it does not move.
CanSkip(b, n) ==
  IF n < 0 THEN -n <= b.mBackCount ELSE n > 0 /\ n <= b.mFillCount

\* Mutant: a step back does not give up what may be rewound.
SkipBytesBackFreely(b, n) ==
  IF ~CanSkip(b, n) THEN b
  ELSE IF n < 0
  THEN [b EXCEPT !.mReadIndex = Wrap(@ + n), !.mFillCount = @ - n]
  ELSE [b EXCEPT !.mReadIndex = Wrap(@ + n), !.mFillCount = @ - n]

\* A step back takes what is kept for it; a step forward keeps nothing.
SkipBytes(b, n) ==
  IF ~CanSkip(b, n) THEN b
  ELSE IF n < 0
  THEN [b EXCEPT !.mReadIndex = Wrap(@ + n), !.mFillCount = @ - n,
                 !.mBackCount = @ + n]
  ELSE [b EXCEPT !.mReadIndex = Wrap(@ + n), !.mFillCount = @ - n]

\* clear() leaves the bytes where they are.
Clear(b) == [NewRing EXCEPT !.mBuffer = b.mBuffer]

-----------------------------------------------------------------------------
(***************************************************************************)
(* The buffer holds the stream around the position pos: the readable bytes *)
(* are pos, pos + 1, ..., those that may be rewound end at pos - 1, and    *)
(* neither the write index nor the counts run into them.  RingBuffer.h:42  *)
(* keeps room for bytes already read "that the write pointer must not      *)
(* occupy".                                                                *)
(***************************************************************************)
Holds(b, pos) ==
  /\ b.mFillCount + b.mBackCount <= mSize
  /\ b.mWriteIndex = Wrap(b.mReadIndex + b.mFillCount)
  /\ \A i \in -b.mBackCount .. b.mFillCount - 1 :
       b.mBuffer[Wrap(b.mReadIndex + i)] = pos + i
=============================================================================
