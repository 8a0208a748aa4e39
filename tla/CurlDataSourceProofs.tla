------------------------ MODULE CurlDataSourceProofs ------------------------
(***************************************************************************)
(* Theorems about CurlDataSource, for every file, every size of the ring   *)
(* buffer, any number of connections, seeks and errors: its types, a       *)
(* buffer holds the file around its reader's position, a read returns the  *)
(* file, the transfer a seek abandons performs no more, and no             *)
(* continuation of a paused transfer is lost.                              *)
(*                                                                         *)
(* A buffer is filled from where its transfer was started, so the second   *)
(* rests on the two agreeing whenever a transfer starts: a retry empties   *)
(* the buffer and starts the transfer at mFilePos, which is sound because  *)
(* a connection whose status is an error performs no more until then.      *)
(* That a read returns nothing only at the end rests on who is told the    *)
(* end: eofSeen is shared by the messages of a turn, so on a turn having   *)
(* one message, which is the abandoned transfer being off the multi handle *)
(* before the one that replaces it.                                        *)
(***************************************************************************)
EXTENDS CurlDataSource, RingBufferProofs, FiniteSetTheorems

ManagerArrays ==
  /\ DOMAIN mBuffer = Connections /\ DOMAIN mFilePos = Connections
  /\ DOMAIN mPaused = Connections /\ DOMAIN mStatus = Connections
  /\ DOMAIN mEos = Connections
  /\ DOMAIN resumeFrom = Connections
  /\ DOMAIN transfer = Connections /\ DOMAIN sent = Connections

-----------------------------------------------------------------------------
(***************************************************************************)
(* The variables of the connections are always functions of them.          *)
(***************************************************************************)
LEMMA LoopKeepsArrays ==
  ASSUME ManagerArrays, Loop
  PROVE  ManagerArrays'
  BY DEF Loop, ApplyAdd, Started, ApplyResume, TakeRemoveList, RemoveHandles,
     Removed, PerformReturns, InfoRead, OnConnectOver, InfoRemove, LoopReturns,
     ManagerArrays, connection, curl

LEMMA PerformKeepsArrays ==
  ASSUME ManagerArrays, Perform
  PROVE  ManagerArrays'
  BY DEF Perform, WriteCallback, WritePauses, XferInfo, TransferEnds,
     ManagerArrays, connection

LEMMA ClientKeepsArrays ==
  ASSUME ManagerArrays, Client
  PROVE  ManagerArrays'
<1> USE DEF ManagerArrays, managerVars, connection, curl
<1>1. CASE Open \/ Reconnect
  BY <1>1 DEF Open, Reconnect, NewConnection, SetResume
<1>2. CASE \E offset \in Offsets : Seek(offset)
  BY <1>2 DEF Seek, SeekBehindTheEnd, SetResume, ShortSeek, ShortSeekWaits,
     ShortSeekFails
<1>3. CASE AddToManager \/ SetRunning \/ Opened \/ ReadFails
           \/ \E size \in Sizes : Read(size)
  BY <1>3 DEF AddToManager, SetRunning, Opened, ReadFails, Read
<1>4. CASE FillBuffer
  BY <1>4 DEF FillBuffer, FillLook, Unpause, Resume, FillStatus, Retry, GiveUp,
     Reset
<1>5. CASE Reconnected \/ ReadBuffer \/ ShortSeekEnds
  BY <1>5 DEF Reconnected, Forgets, ReadBuffer, ShortSeekEnds
<1> QED
  BY <1>1, <1>2, <1>3, <1>4, <1>5 DEF Client, InsideCall

-----------------------------------------------------------------------------
(***************************************************************************)
(* The continuation of a paused transfer.                                  *)
(***************************************************************************)
LEMMA LoopKeepsResume ==
  ASSUME ManagerArrays, NoLostResume, Manager
  PROVE  NoLostResume'
<1> USE DEF ManagerArrays, NoLostResume
<1>1. UNCHANGED <<at, conn>>
  BY DEF Manager, call
<1>2. CASE ApplyAdd
  BY <1>1, <1>2 DEF ApplyAdd, Started, connection
<1>3. CASE ApplyResume
  BY <1>1, <1>3 DEF ApplyResume, connection
<1>4. CASE TakeRemoveList \/ RemoveHandles
  BY <1>1, <1>4 DEF TakeRemoveList, ClearCurlOpt, RemoveHandles, Removed,
     connection, curl, lists
<1>5. CASE PerformReturns \/ InfoRead \/ InfoRemove \/ LoopReturns
  BY <1>1, <1>5 DEF PerformReturns, InfoRead, OnConnectOver, InfoRemove,
     Removed, LoopReturns, connection, curl, lists
<1>6. CASE Perform
  <2>1. PICK c \in Connections :
          \/ \E n \in 1 .. CURL_READ_BUFFER_SIZE : WriteCallback(c, n)
          \/ XferInfo(c)
          \/ \E code \in Codes : TransferEnds(c, code)
    BY <1>6 DEF Perform
  <2>2. CASE \E n \in 1 .. CURL_READ_BUFFER_SIZE : WriteCallback(c, n)
    BY <1>1, <2>2 DEF WriteCallback, WritePauses, lists
  <2>3. CASE XferInfo(c)
    BY <1>1, <2>3 DEF XferInfo, lists
  <2>4. CASE \E code \in Codes : TransferEnds(c, code)
    BY <1>1, <2>4 DEF TransferEnds, Codes, connection, lists
  <2> QED
    BY <2>1, <2>2, <2>3, <2>4
<1> QED
  BY <1>2, <1>3, <1>4, <1>5, <1>6 DEF Manager, Loop

LEMMA ClientKeepsResume ==
  ASSUME ManagerArrays, NoLostResume, Client
  PROVE  NoLostResume'
<1> USE DEF ManagerArrays, NoLostResume
<1>1. CASE Unpause
  BY <1>1 DEF Unpause, call, curl, lists
<1>2. CASE Resume
  BY <1>2 DEF Resume, ResumeConnection, connection, curl, call
<1>3. ASSUME UNCHANGED <<transfer, mPaused, cleared, mResumeList>>,
             at # "resume"
      PROVE  NoLostResume'
  BY <1>3
<1>4. CASE Open \/ Reconnect
  BY <1>3, <1>4 DEF Open, Reconnect, NewConnection, RemoveConnection, curl,
     lists
<1>5. CASE \E offset \in Offsets : Seek(offset)
  BY <1>3, <1>5 DEF Seek, SeekBehindTheEnd, ShortSeek, ShortSeekWaits,
     ShortSeekFails, SeekStarts, managerVars, connection, curl, lists
<1>6. CASE AddToManager \/ SetRunning \/ Opened \/ ReadFails
           \/ \E size \in Sizes : Read(size)
  BY <1>3, <1>6 DEF AddToManager, AddConnection, SetRunning, Opened, ReadFails,
     Read, managerVars, connection, curl, lists
<1>7. CASE FillLook \/ FillStatus \/ Retry \/ GiveUp
  BY <1>3, <1>7 DEF FillLook, FillStatus, Retry, GiveUp, managerVars,
     connection, curl, lists
<1>8. CASE Reconnected \/ ReadBuffer \/ ShortSeekEnds
  BY <1>3, <1>8 DEF Reconnected, ReadBuffer, ShortSeekEnds, curl, lists
<1> QED
  BY <1>1, <1>2, <1>4, <1>5, <1>6, <1>7, <1>8 DEF Client, InsideCall, FillBuffer

LEMMA StutterKeepsResume ==
  ASSUME ManagerArrays, NoLostResume, UNCHANGED vars
  PROVE  ManagerArrays' /\ NoLostResume'
  BY DEF ManagerArrays, NoLostResume, vars, managerVars, connection, curl,
     lists, call

(***************************************************************************)
(* A transfer that is paused is known to be, or its continuation is on its *)
(* way to the manager.                                                     *)
(***************************************************************************)
THEOREM ResumeIsNotLost == Spec => []NoLostResume
<1>1. Init => ManagerArrays /\ NoLostResume
  BY DEF Init, ManagerInit, ManagerArrays, NoLostResume
<1>2. ASSUME ManagerArrays, NoLostResume, [Next]_vars
      PROVE  ManagerArrays' /\ NoLostResume'
  <2>1. CASE Client
    BY <1>2, <2>1, ClientKeepsArrays, ClientKeepsResume
  <2>2. CASE Manager
    BY <1>2, <2>2, LoopKeepsArrays, PerformKeepsArrays, LoopKeepsResume
    DEF Manager
  <2>3. CASE UNCHANGED vars
    BY <1>2, <2>3, StutterKeepsResume
  <2> QED
    BY <1>2, <2>1, <2>2, <2>3 DEF Next
<1> QED
  BY <1>1, <1>2, PTL DEF Spec

-----------------------------------------------------------------------------
(***************************************************************************)
(* Type correctness.  A position never becomes negative although a seek    *)
(* takes it back by what it passed: either that much was passed before it, *)
(* or the buffer was emptied and cannot be rewound.  The size a file is    *)
(* found to have is its length, because until then the reader is where the *)
(* transfer was started.                                                   *)
(***************************************************************************)
CallPlaces ==
  /\ at # "out" => mConnection \in Connections /\ conn \in Connections
  /\ at = "out" => passed = 0
  /\ at \in FillPlaces \cup {"out"} => ret = 0
  /\ at \in FillPlaces \cup {"short"} =>
       passed <= mFilePos[conn] \/ mBuffer[conn].mBackCount = 0
  /\ at = "connect" => then = "connect"
  /\ then = "connect" /\ at \in FillPlaces \cup {"connect"} /\ ret = 0 =>
       mFilePos[conn] = resumeFrom[conn]

TypeInv ==
  /\ TypeOK
  /\ \A c \in Connections : Fits(mBuffer[c])
  /\ CallPlaces

LEMMA LoopTypes ==
  ASSUME TypeInv, Loop,
         UNCHANGED <<mConnection, mFileSize, at, call, history>>
  PROVE  TypeInv'
<1> USE DEF TypeInv, TypeOK, ManagerTypeOK, CallPlaces, connection, curl,
            lists, call, history, Codes
<1>1. CASE ApplyAdd
  BY <1>1 DEF ApplyAdd, Started
<1>2. CASE ApplyResume
  BY <1>2 DEF ApplyResume
<1>3. CASE TakeRemoveList
  BY <1>3 DEF TakeRemoveList, ClearCurlOpt
<1>4. CASE RemoveHandles
  BY <1>4 DEF RemoveHandles, Removed
<1>5. CASE PerformReturns
  BY <1>5 DEF PerformReturns
<1>8. CASE LoopReturns
  <2>1. /\ phase' = "add" /\ eofSeen' \in BOOLEAN
        /\ UNCHANGED <<connection, resumeFrom, cleared, locked, referenced, lists,
                       tempList, message, curl, fault>>
    BY <1>8 DEF LoopReturns
  <2> QED
    BY <2>1
<1>6. CASE InfoRead
  <2>1. PICK c \in Connections :
          /\ transfer[c] \in Codes /\ message' = {c}
          /\ eofSeen' = (eofSeen \/ transfer[c] = "OK")
          /\ mEos' = [mEos EXCEPT ![c] = eofSeen']
          /\ mStatus' = [mStatus EXCEPT ![c] = transfer[c]]
          /\ mStillRunning' = [mStillRunning EXCEPT ![c] = FALSE]
    BY <1>6 DEF InfoRead, Over, OnConnectOver
  <2>2. Cardinality(message') = 1
    BY <2>1, FS_Singleton
  <2>3. UNCHANGED <<mBuffer, mFilePos, mPaused, resumeFrom, cleared, locked,
                    referenced, lists, tempList, phase, curl, fault>>
    BY <1>6 DEF InfoRead
  <2>4. eofSeen' \in BOOLEAN
    BY <2>1
  <2>5. mEos' \in [Connections -> BOOLEAN]
        /\ mStillRunning' \in [Connections -> BOOLEAN]
        /\ mStatus' \in [Connections -> Codes]
    BY <2>1, <2>4
  <2> QED
    BY <2>1, <2>2, <2>3, <2>4, <2>5
<1>7. CASE InfoRemove
  <2>1. Cardinality(message') <= 1
    BY <1>7, FS_EmptySet DEF InfoRemove
  <2> QED
    BY <1>7, <2>1 DEF InfoRemove, Removed
<1> QED
  BY <1>1, <1>2, <1>3, <1>4, <1>5, <1>6, <1>7, <1>8 DEF Loop

LEMMA PerformTypes ==
  ASSUME TypeInv, Perform,
         UNCHANGED <<mConnection, mFileSize, at, call, history>>
  PROVE  TypeInv'
<1> USE DEF TypeInv, TypeOK, ManagerTypeOK, CallPlaces, connection, curl,
            lists, thread, call, history, Codes
<1>1. PICK c \in Connections :
        \/ \E n \in 1 .. CURL_READ_BUFFER_SIZE : WriteCallback(c, n)
        \/ XferInfo(c)
        \/ \E code \in Codes : TransferEnds(c, code)
  BY DEF Perform
<1>2. CASE XferInfo(c)
  BY <1>2 DEF XferInfo
<1>3. CASE \E code \in Codes : TransferEnds(c, code)
  BY <1>3, ManagerAssumption DEF TransferEnds
<1>4. ASSUME NEW n \in 1 .. CURL_READ_BUFFER_SIZE, WriteCallback(c, n)
      PROVE  TypeInv'
  <2>1. n \in Nat \ {0}
    BY <1>4, ManagerAssumption
  <2>2. CASE mBuffer' = mBuffer
    <3>1. /\ mPaused' \in [Connections -> BOOLEAN]
          /\ transfer' \in [Connections -> {"none", "running", "paused"} \cup Codes]
          /\ fault' \in {"none", "assert", "freed"}
      BY <1>4 DEF WriteCallback, WritePauses
    <3>2. sent' \in [Connections -> Nat]
      BY <1>4, <2>1 DEF WriteCallback
    <3> HIDE DEF Codes
    <3> QED
      BY <1>4, <2>2, <3>1, <3>2 DEF WriteCallback
  <2>3. CASE mBuffer' # mBuffer
    <3>1. /\ mBuffer' = [mBuffer EXCEPT ![c] = WriteData(@, sent[c], n)]
          /\ sent' = [sent EXCEPT ![c] = @ + n]
          /\ UNCHANGED <<transfer, mPaused, fault>>
      BY <1>4, <2>3 DEF WriteCallback
    <3>2. /\ Fits(WriteData(mBuffer[c], sent[c], n))
          /\ WriteData(mBuffer[c], sent[c], n).mBackCount = mBuffer[c].mBackCount
      <4>1. Fits(mBuffer[c]) /\ sent[c] \in Int
        OBVIOUS
      <4> QED
        BY ONLY <2>1, <4>1, RingOperationsFit
    <3>3. \A d \in Connections : /\ Fits(mBuffer'[d]) /\ mBuffer'[d] \in Ring
                                 /\ mBuffer'[d].mBackCount = mBuffer[d].mBackCount
      BY <3>1, <3>2 DEF Fits
    <3> HIDE DEF Codes
    <3>4. mBuffer' \in [Connections -> Ring] /\ sent' \in [Connections -> Nat]
      BY <2>1, <3>1, <3>3
    <3> QED
      BY <1>4, <3>1, <3>3, <3>4 DEF WriteCallback
  <2> QED
    BY <2>2, <2>3
<1> QED
  BY <1>1, <1>2, <1>3, <1>4

LEMMA FillTypes ==
  ASSUME TypeInv, FillBuffer
  PROVE  TypeInv'
<1> USE DEF TypeInv, TypeOK, ManagerTypeOK, CallPlaces, managerVars, connection,
            curl, lists, thread, call, history, FillPlaces
<1>1. CASE FillLook
  <2>1. /\ at = "fill"
        /\ \/ at' \in {"unpause", "status"} /\ ret' = ret
           \/ at' = then /\ ret' = 0
        /\ UNCHANGED <<managerVars, mConnection, mFileSize, conn, want, then, arg,
                       passed, history>>
    BY <1>1 DEF FillLook, FillReturns
  <2> QED
    BY <2>1
<1>2. CASE Unpause
  BY <1>2 DEF Unpause
<1>3. CASE Resume
  BY <1>3 DEF Resume, ResumeConnection
<1>4. CASE FillStatus
  <2>1. /\ at = "status"
        /\ \/ at' \in {"fill", "retry"} /\ ret' = ret
           \/ at' = then /\ ret' \in {0, -1} /\ (ret' = 0 \/ ret' = -1)
        /\ UNCHANGED <<managerVars, mConnection, mFileSize, conn, want, then, arg,
                       passed, history>>
    BY <1>4 DEF FillStatus, FillReturns, Codes
  <2> QED
    BY <2>1
<1>5. CASE Retry \/ GiveUp
  <2> DEFINE c == conn
  <2>1. c \in Connections /\ Fits(Clear(mBuffer[c]))
        /\ Clear(mBuffer[c]).mBackCount = 0
    <3>1. c \in Connections /\ Fits(mBuffer[c])
      BY <1>5 DEF Retry, GiveUp
    <3> QED
      BY ONLY <3>1, RingOperationsFit
  <2>2. mBuffer' = [mBuffer EXCEPT ![c] = Clear(@)]
    BY <1>5 DEF Retry, GiveUp, Reset
  <2>3. \A d \in Connections : Fits(mBuffer'[d]) /\ mBuffer'[d] \in Ring
    BY <2>1, <2>2 DEF Fits
  <2>4. mBuffer' \in [Connections -> Ring] /\ mBuffer'[c].mBackCount = 0
    BY <2>1, <2>2, <2>3
  <2>5. CASE Retry
    BY <2>1, <2>3, <2>4, <2>5 DEF Retry, Reset, Codes
  <2>6. CASE GiveUp
    BY <2>1, <2>3, <2>4, <2>6 DEF GiveUp, Reset, FillReturns, Codes
  <2> QED
    BY <1>5, <2>5, <2>6
<1> QED
  BY <1>1, <1>2, <1>3, <1>4, <1>5 DEF FillBuffer

LEMMA SeekTypes ==
  ASSUME TypeInv, NEW offset \in Offsets, Seek(offset)
  PROVE  TypeInv'
<1> USE DataSourceAssumption
    DEF TypeInv, TypeOK, ManagerTypeOK, CallPlaces, managerVars, connection,
        curl, lists, thread, call, history, FillPlaces
<1> DEFINE c == mConnection
<1>1. /\ c \in Connections /\ at = "out" /\ offset \in Nat /\ passed = 0
  BY DEF Seek, SeekBehindTheEnd, ShortSeek, ShortSeekWaits, ShortSeekFails,
     SeekStarts
<1>2. CASE SeekBehindTheEnd(offset)
  BY <1>1, <1>2, ManagerAssumption DEF SeekBehindTheEnd, SetResume
<1>3. CASE ShortSeek(offset)
  <2>1. Fits(mBuffer[c]) /\ offset - mFilePos[c] \in Int
    BY <1>1
  <2>5. Fits(SkipBytes(mBuffer[c], offset - mFilePos[c]))
    BY ONLY <2>1, RingOperationsFit
  <2>2. mBuffer' = [mBuffer EXCEPT ![c] = SkipBytes(@, offset - mFilePos[c])]
    BY <1>3 DEF ShortSeek
  <2>3. \A d \in Connections : Fits(mBuffer'[d]) /\ mBuffer'[d] \in Ring
    BY <1>1, <2>5, <2>2 DEF Fits
  <2>4. mBuffer' \in [Connections -> Ring]
    BY <1>1, <2>5, <2>2, <2>3
  <2> QED
    BY <1>1, <1>3, <2>3, <2>4 DEF ShortSeek
<1>4. CASE ShortSeekWaits(offset)
  <2> DEFINE n == mBuffer[c].mFillCount
  <2>1. n \in Nat
    BY <1>1 DEF Ring
  <2>2. Fits(SkipBytes(mBuffer[c], n))
    <3>1. Fits(mBuffer[c]) /\ n \in Int
      BY <1>1, <2>1
    <3> QED
      BY ONLY <3>1, RingOperationsFit
  <2>3. /\ mBuffer' = [mBuffer EXCEPT ![c] = SkipBytes(@, n)]
        /\ mFilePos' = [mFilePos EXCEPT ![c] = @ + n]
        /\ passed' = n /\ conn' = c
    BY <1>4 DEF ShortSeekWaits, ReadableSize
  <2>4. \A d \in Connections : Fits(mBuffer'[d]) /\ mBuffer'[d] \in Ring
    BY <1>1, <2>2, <2>3 DEF Fits
  <2>5. mBuffer' \in [Connections -> Ring]
    BY <1>1, <2>2, <2>3, <2>4
  <2> HIDE DEF n
  <2>6. mFilePos' \in [Connections -> Nat] /\ passed' <= mFilePos'[conn']
        /\ passed' \in Nat
    BY <1>1, <2>1, <2>3
  <2> QED
    BY <1>1, <1>4, <2>3, <2>4, <2>5, <2>6 DEF ShortSeekWaits
<1>5. CASE ShortSeekFails(offset)
  BY <1>1, <1>5 DEF ShortSeekFails
<1> QED
  BY <1>2, <1>3, <1>4, <1>5 DEF Seek

LEMMA ClientTypes ==
  ASSUME TypeInv, Client
  PROVE  TypeInv'
<1> USE DataSourceAssumption
    DEF TypeInv, TypeOK, ManagerTypeOK, CallPlaces, managerVars, connection,
        curl, lists, thread, call, history, FillPlaces, HoldsOn
<1>1. CASE Open
  BY <1>1 DEF Open, NewConnection, SetResume
<1>2. CASE Reconnect
  BY <1>2 DEF Reconnect, NewConnection, SetResume, RemoveConnection
<1>3. CASE \E size \in Sizes : Read(size)
  BY <1>3 DEF Read
<1>4. CASE AddToManager
  BY <1>4 DEF AddToManager, AddConnection
<1>5. CASE SetRunning
  BY <1>5 DEF SetRunning
<1>6. CASE Opened
  <2>1. mFileSize' \in {-1, AsInt(FileLen)}
    <3>1. CASE StartConnectSucceeds /\ mStillRunning[conn]
      <4>1. /\ mFilePos[conn] = resumeFrom[conn] /\ conn \in Connections
            /\ resumeFrom[conn] < FileLen
        BY <1>6, <3>1, ManagerAssumption
        DEF Opened, StartConnectSucceeds, ResponseIsError
      <4>2. CalcFileSize = FileLen
        BY <4>1, ManagerAssumption DEF CalcFileSize
      <4> QED
        BY <1>6, <3>1, <4>2 DEF Opened, GetFileSize
    <3>2. CASE ~(StartConnectSucceeds /\ mStillRunning[conn])
      BY <1>6, <3>2 DEF Opened, GetFileSize
    <3> QED
      BY <3>1, <3>2
  <2> QED
    BY <1>6, <2>1 DEF Opened, Returns
<1>7. CASE ReadFails
  BY <1>7 DEF ReadFails, Returns
<1>8. CASE Reconnected
  <2>1. ASSUME NEW d \in Connections
        PROVE  /\ Fits(mBuffer'[d]) /\ mBuffer'[d] \in Ring
               /\ mFilePos'[d] \in Nat
    <3>1. \/ mBuffer'[d] = mBuffer[d] /\ mFilePos'[d] = mFilePos[d]
          \/ mBuffer'[d] = NewRing /\ mFilePos'[d] = 0
      BY <1>8 DEF Reconnected, Forgets
    <3>2. Fits(mBuffer[d]) /\ Fits(NewRing)
      BY RingOperationsFit
    <3> QED
      BY <3>1, <3>2 DEF Fits
  <2>2. mBuffer' \in [Connections -> Ring] /\ mFilePos' \in [Connections -> Nat]
    BY <1>8, <2>1 DEF Reconnected, Forgets
  <2> QED
    BY <1>8, <2>1, <2>2 DEF Reconnected, Returns
<1>9. CASE ReadBuffer
  <2>1. Taken \in Nat /\ conn \in Connections
    BY <1>9 DEF ReadBuffer, Taken, Least, ReadableSize, Ring
  <2>2. Fits(ReadData(mBuffer[conn], Taken))
    <3>1. Fits(mBuffer[conn])
      BY <2>1
    <3> QED
      BY ONLY <2>1, <3>1, RingOperationsFit
  <2>3. /\ mBuffer' = [mBuffer EXCEPT ![conn] = ReadData(@, Taken)]
        /\ mFilePos' = [mFilePos EXCEPT ![conn] = @ + Taken]
    BY <1>9 DEF ReadBuffer
  <2>4. \A d \in Connections : Fits(mBuffer'[d]) /\ mBuffer'[d] \in Ring
    BY <2>1, <2>2, <2>3 DEF Fits
  <2>5. mBuffer' \in [Connections -> Ring] /\ mFilePos' \in [Connections -> Nat]
    BY <2>1, <2>2, <2>3, <2>4
  <2> QED
    BY <1>9, <2>4, <2>5 DEF ReadBuffer, Returns
<1>10. CASE ShortSeekEnds
  <2> DEFINE c == conn
             delta == arg - mFilePos[c]
             arrives == ret = 0 /\ CanSkip(mBuffer[c], delta)
             n == IF arrives THEN delta ELSE -passed
  <2>1. c \in Connections /\ n \in Int
    BY <1>10 DEF ShortSeekEnds
  <2>2. Fits(SkipBytes(mBuffer[c], n))
    <3>1. Fits(mBuffer[c]) /\ n \in Int
      BY <2>1
    <3> QED
      BY ONLY <3>1, RingOperationsFit
  <2>3. /\ mBuffer' = [mBuffer EXCEPT ![c] = SkipBytes(@, n)]
        /\ mFilePos' = [mFilePos EXCEPT ![c] =
                         IF arrives THEN arg
                         ELSE IF passed = 0 \/ CanSkip(mBuffer[c], -passed)
                              THEN @ - passed ELSE @]
    BY <1>10 DEF ShortSeekEnds
  <2>4. passed = 0 \/ CanSkip(mBuffer[c], -passed) => passed <= mFilePos[c]
    <3>1. passed <= mFilePos[c] \/ mBuffer[c].mBackCount = 0
      BY <1>10 DEF ShortSeekEnds
    <3> QED
      BY <2>1, <3>1 DEF CanSkip
  <2> HIDE DEF n, arrives
  <2>5. \A d \in Connections : Fits(mBuffer'[d]) /\ mBuffer'[d] \in Ring
    BY <2>1, <2>2, <2>3 DEF Fits
  <2>6. mBuffer' \in [Connections -> Ring]
    BY <2>1, <2>2, <2>3, <2>5
  <2>7. mFilePos' \in [Connections -> Nat]
    BY <2>1, <2>3, <2>4
  <2> QED
    BY <1>10, <2>5, <2>6, <2>7 DEF ShortSeekEnds, Returns
<1> QED
  BY <1>1, <1>2, <1>3, <1>4, <1>5, <1>6, <1>7, <1>8, <1>9, <1>10, FillTypes,
     SeekTypes DEF Client, InsideCall

LEMMA TypesAlways == Spec => []TypeInv
<1>1. Init => TypeInv
  <2> SUFFICES ASSUME Init
               PROVE  TypeInv
    OBVIOUS
  <2>1. /\ NewRing \in Ring /\ Fits(NewRing)
    BY RingBufferAssumption DEF NewRing, Ring, Fits, Index
  <2>2. Cardinality(message) <= 1
    BY FS_EmptySet DEF Init, ManagerInit
  <2>3. ManagerTypeOK
    <3>1. /\ mBuffer \in [Connections -> Ring] /\ mFilePos \in [Connections -> Nat]
          /\ resumeFrom \in [Connections -> Nat] /\ sent \in [Connections -> Nat]
      BY <2>1 DEF Init, ManagerInit
    <3>2. {mPaused, mEos, mStillRunning} \subseteq [Connections -> BOOLEAN]
      BY DEF Init, ManagerInit
    <3>3. /\ mStatus \in [Connections -> Codes]
          /\ transfer \in [Connections -> {"none", "running", "paused"} \cup Codes]
          /\ eofSeen \in BOOLEAN
      BY DEF Init, ManagerInit, Codes
    <3>4. /\ {cleared, locked, referenced, mAddList, mResumeList, mRemoveList,
              tempList, message, multi, restarted} \subseteq SUBSET Connections
          /\ troubles \in 0 .. MaxTroubles
      BY ManagerAssumption DEF Init, ManagerInit
    <3> QED
      BY <2>2, <3>1, <3>2, <3>3, <3>4 DEF Init, ManagerInit, ManagerTypeOK
  <2>4. TypeOK
    BY <2>3, DataSourceAssumption DEF Init, TypeOK
  <2>5. \A c \in Connections : Fits(mBuffer[c])
    BY <2>1 DEF Init, ManagerInit
  <2>6. CallPlaces
    BY DEF Init, CallPlaces, FillPlaces
  <2> QED
    BY <2>4, <2>5, <2>6 DEF TypeInv
<1>2. TypeInv /\ [Next]_vars => TypeInv'
  <2> SUFFICES ASSUME TypeInv, [Next]_vars
               PROVE  TypeInv'
    OBVIOUS
  <2>1. CASE Client
    BY <2>1, ClientTypes
  <2>2. CASE Manager
    BY <2>2, LoopTypes, PerformTypes DEF Manager
  <2>3. CASE UNCHANGED vars
    BY <2>3
    DEF TypeInv, TypeOK, ManagerTypeOK, CallPlaces, vars, managerVars,
        connection, curl, lists, thread, call, history
  <2> QED
    BY <2>1, <2>2, <2>3 DEF Next
<1> QED
  BY <1>1, <1>2, PTL DEF Spec

(***************************************************************************)
(* Every variable has its type: a position in the file is never negative,  *)
(* and the size open() finds is the file's length, or unknown.             *)
(***************************************************************************)
THEOREM CurlTypeCorrect == Spec => []TypeOK
<1>1. TypeInv => TypeOK
  BY DEF TypeInv
<1> QED
  BY <1>1, TypesAlways, PTL

-----------------------------------------------------------------------------
(***************************************************************************)
(* Which transfers may go on together.  The client is about one connection *)
(* at a time: the one its call is about, else the one it reads from.  A    *)
(* connection that a seek replaces is on its way out of the multi handle,  *)
(* and the new one has got nothing (Fresh) until it is out, because the    *)
(* manager removes what is removed before it performs what it added.  A    *)
(* connection that failed is nobody's: if it is still on a list, the turn  *)
(* of the manager that would start the next one takes it off.              *)
(***************************************************************************)
Fresh(c) ==
  /\ mBuffer[c].mFillCount = 0 /\ mBuffer[c].mBackCount = 0
  /\ ~mPaused[c] /\ ~mEos[c] /\ mStatus[c] = "OK" /\ c \notin mResumeList

\* A seek's connection is being made.
Replaces == conn # mConnection /\ at # "out"

\* Nothing has reached it yet.
Waits == at \in {"add", "running", "fill", "status"} /\ Fresh(conn)

\* Connections of the past.
Others == {d \in Connections \ unused : d # mConnection /\ ~(at # "out" /\ d = conn)}

Pending == mAddList \cup mResumeList

UnusedAreFresh ==
  /\ unused \subseteq Connections
  /\ mConnection = None => unused = Connections
  /\ \A c \in unused :
       /\ Fresh(c)
       /\ c \notin mRemoveList \cup tempList \cup mAddList \cup multi
       /\ c \notin referenced \cup cleared

CallIsAboutOne ==
  /\ at # "out" => conn \in (Connections \ unused) \cap referenced
  /\ mConnection \in ((Connections \ unused) \cap referenced) \cup {None}
  /\ Replaces => /\ then = "connect" /\ at \in FillPlaces \cup {"connect"}
                 /\ conn \notin mRemoveList \cup tempList \cup cleared

OldLeaves ==
  Replaces =>
    /\ mConnection \notin mAddList
    /\ \/ /\ Waits
          /\ \/ mConnection \in mRemoveList
                  /\ (conn \notin multi \/ phase \in {"resume", "remove"})
             \/ mConnection \in (tempList \cap cleared) \ mRemoveList
                  /\ phase = "temp"
       \/ /\ mConnection \in cleared \ (mRemoveList \cup tempList)
          /\ mConnection \notin multi \ restarted

\* The lists it is on are empty when the next connection performs.
LeavesTheLists(d) ==
  \/ /\ d \in cleared /\ d \notin mAddList
     /\ d \notin multi \ restarted
  \/ /\ d \notin cleared /\ mConnection \in cleared
     /\ \/ mConnection \notin multi \ restarted
        \/ phase = "resume" /\ d \notin mAddList
     /\ Replaces =>
          Waits /\ (conn \notin multi \/ (phase = "resume" /\ d \notin mAddList))

OthersAreGone ==
  /\ \A d \in Others :
       /\ d \notin referenced \cup mRemoveList \cup tempList
       /\ d \in Pending => LeavesTheLists(d)
  /\ \A d, e \in (Others \cap Pending) \cap (Connections \ cleared) : d = e

OwnersInv ==
  UnusedAreFresh /\ CallIsAboutOne /\ OldLeaves /\ OthersAreGone

LEMMA LoopKeepsOwners ==
  ASSUME TypeInv, OwnersInv, Loop,
         UNCHANGED <<mConnection, mFileSize, at, call, history>>
  PROVE  OwnersInv'
<1>1. UNCHANGED <<at, conn, then, unused, mConnection, mBuffer, mFilePos, mPaused,
                  referenced>>
      /\ Replaces' = Replaces /\ Others' = Others
  BY DEF Loop, ApplyAdd, ApplyResume, TakeRemoveList, RemoveHandles,
     PerformReturns, InfoRead, InfoRemove, LoopReturns, connection, call,
     history, Replaces, Others
<1>2. /\ Connections \cap multi \cap unused = {} /\ unused \subseteq Connections
      /\ \A c \in Connections : c \in mAddList \cup mResumeList \cup tempList => c \notin unused
  BY DEF OwnersInv, UnusedAreFresh, Fresh
<1>3. ASSUME mResumeList' \subseteq mResumeList, mEos' = mEos, mStatus' = mStatus
      PROVE  /\ \A c \in Connections : Fresh(c) => Fresh(c)'
             /\ Waits => Waits'
  BY <1>1, <1>3 DEF Fresh, Waits, TypeInv, TypeOK, CallPlaces
<1>4. CASE ApplyAdd
  <2>1. /\ phase = "add" /\ phase' = "resume" /\ mAddList' = {}
        /\ multi' = multi \cup mAddList
        /\ UNCHANGED <<mEos, mStatus, cleared, mResumeList, mRemoveList, tempList,
                       restarted>>
    BY <1>4 DEF ApplyAdd, Started, connection
  <2>2. UnusedAreFresh' /\ CallIsAboutOne'
    BY <1>1, <1>3, <2>1 DEF OwnersInv, UnusedAreFresh, CallIsAboutOne
  <2>3. OldLeaves'
    BY <1>1, <1>3, <2>1 DEF OwnersInv, OldLeaves
  <2>4. OthersAreGone'
    BY <1>1, <1>3, <2>1 DEF OwnersInv, OldLeaves, OthersAreGone, LeavesTheLists, Pending
  <2> QED
    BY <2>2, <2>3, <2>4 DEF OwnersInv
<1>5. CASE ApplyResume
  <2>1. /\ phase = "resume" /\ phase' = "remove" /\ mResumeList' = {}
        /\ multi' = multi \cup mResumeList
        /\ restarted' = restarted \cup (mResumeList \ multi)
        /\ UNCHANGED <<mEos, mStatus, cleared, mAddList, mRemoveList, tempList>>
    BY <1>5 DEF ApplyResume, connection
  <2>2. UnusedAreFresh' /\ CallIsAboutOne'
    BY <1>1, <1>2, <1>3, <2>1 DEF OwnersInv, UnusedAreFresh, CallIsAboutOne, Fresh
  <2>3. OldLeaves'
    BY <1>1, <1>3, <2>1 DEF OwnersInv, OldLeaves, Waits, Fresh
  <2>4. OthersAreGone'
    BY <1>1, <1>3, <2>1 DEF OwnersInv, OldLeaves, OthersAreGone, LeavesTheLists, Pending,
       Waits, Fresh
  <2> QED
    BY <2>2, <2>3, <2>4 DEF OwnersInv
<1>6. CASE TakeRemoveList
  <2>1. /\ phase = "remove" /\ phase' = "temp"
        /\ cleared' = cleared \cup mRemoveList
        /\ tempList' = mRemoveList /\ mRemoveList' = {}
        /\ UNCHANGED <<mEos, mStatus, mAddList, mResumeList, multi, restarted>>
    BY <1>6 DEF TakeRemoveList, ClearCurlOpt, connection, curl
  <2>2. UnusedAreFresh' /\ CallIsAboutOne'
    BY <1>1, <1>3, <2>1 DEF OwnersInv, UnusedAreFresh, CallIsAboutOne
  <2>3. OldLeaves'
    BY <1>1, <1>3, <2>1 DEF OwnersInv, OldLeaves
  <2>4. OthersAreGone'
    BY <1>1, <1>3, <2>1 DEF OwnersInv, OldLeaves, OthersAreGone, LeavesTheLists, Pending
  <2> QED
    BY <2>2, <2>3, <2>4 DEF OwnersInv
<1>7. CASE RemoveHandles
  <2>1. /\ phase = "temp" /\ phase' = "perform"
        /\ multi' = multi \ tempList /\ tempList' = {}
        /\ UNCHANGED <<mEos, mStatus, cleared, mAddList, mResumeList, mRemoveList,
                       restarted>>
    BY <1>7 DEF RemoveHandles, Removed, connection, lists
  <2>2. UnusedAreFresh' /\ CallIsAboutOne'
    BY <1>1, <1>3, <2>1 DEF OwnersInv, UnusedAreFresh, CallIsAboutOne
  <2>3. OldLeaves'
    BY <1>1, <1>3, <2>1 DEF OwnersInv, OldLeaves
  <2>4. OthersAreGone'
    BY <1>1, <1>3, <2>1 DEF OwnersInv, OldLeaves, OthersAreGone, LeavesTheLists, Pending
  <2> QED
    BY <2>2, <2>3, <2>4 DEF OwnersInv
<1>8. CASE PerformReturns \/ InfoRemove \/ LoopReturns
  <2>1. /\ multi' \subseteq multi
        /\ phase \in {"perform", "info"} /\ phase' \in {"info", "add"}
        /\ UNCHANGED <<mEos, mStatus, cleared, mAddList, mResumeList, mRemoveList,
                       tempList, restarted>>
    BY <1>8 DEF PerformReturns, InfoRemove, Removed, LoopReturns, connection,
       lists, curl
  <2>2. UnusedAreFresh' /\ CallIsAboutOne'
    BY <1>1, <1>3, <2>1 DEF OwnersInv, UnusedAreFresh, CallIsAboutOne
  <2>3. OldLeaves'
    BY <1>1, <1>3, <2>1 DEF OwnersInv, OldLeaves
  <2>4. OthersAreGone'
    BY <1>1, <1>3, <2>1 DEF OwnersInv, OldLeaves, OthersAreGone, LeavesTheLists, Pending
  <2> QED
    BY <2>2, <2>3, <2>4 DEF OwnersInv
<1>9. CASE InfoRead
  <2>1. PICK c \in multi :
          \A d \in Connections : d # c => mEos'[d] = mEos[d] /\ mStatus'[d] = mStatus[d]
    BY <1>9 DEF InfoRead, Over, OnConnectOver, TypeInv, TypeOK, ManagerTypeOK
  <2>2. /\ phase = "info"
        /\ UNCHANGED <<cleared, lists, tempList, phase, multi, restarted>>
    BY <1>9 DEF InfoRead, curl
  <2>3. \A d \in Connections \ multi : Fresh(d) => Fresh(d)'
    BY <1>1, <2>1, <2>2 DEF Fresh, lists
  <2>4. Waits /\ conn \notin multi => Waits'
    BY <1>1, <2>3 DEF Waits, TypeInv, TypeOK, CallPlaces
  <2>5. UnusedAreFresh' /\ CallIsAboutOne'
    BY <1>1, <2>2, <2>3 DEF OwnersInv, UnusedAreFresh, CallIsAboutOne, lists
  <2>6. OldLeaves'
    BY <1>1, <2>2, <2>4 DEF OwnersInv, OldLeaves, lists
  <2>7. OthersAreGone'
    BY <1>1, <2>2, <2>4 DEF OwnersInv, OthersAreGone, LeavesTheLists, Pending, lists
  <2> QED
    BY <2>5, <2>6, <2>7 DEF OwnersInv
<1> QED
  BY <1>4, <1>5, <1>6, <1>7, <1>8, <1>9 DEF Loop

LEMMA PerformKeepsOwners ==
  ASSUME TypeInv, OwnersInv, Perform,
         UNCHANGED <<mConnection, mFileSize, at, call, history>>
  PROVE  OwnersInv'
<1>1. UNCHANGED <<at, conn, then, unused, mConnection, mEos, mStatus, cleared,
                  referenced, lists, thread, multi, restarted>>
      /\ Replaces' = Replaces /\ Others' = Others /\ phase = "perform"
  BY DEF Perform, WriteCallback, XferInfo, TransferEnds, Performs, connection,
     thread, call, history, Replaces, Others
<1>2. PICK c \in multi :
        \A d \in Connections : d # c => mBuffer'[d] = mBuffer[d]
                                        /\ mPaused'[d] = mPaused[d]
  BY DEF Perform, WriteCallback, WritePauses, XferInfo, TransferEnds, Performs,
     connection, TypeInv, TypeOK, ManagerTypeOK
<1>3. \A d \in Connections \ multi : Fresh(d) => Fresh(d)'
  BY <1>1, <1>2 DEF Fresh, lists
<1>4. Waits /\ conn \notin multi => Waits'
  BY <1>1, <1>3 DEF Waits, TypeInv, TypeOK, CallPlaces
<1>5. UnusedAreFresh' /\ CallIsAboutOne'
  BY <1>1, <1>3 DEF OwnersInv, UnusedAreFresh, CallIsAboutOne, lists, thread
<1>6. OldLeaves'
  BY <1>1, <1>4 DEF OwnersInv, OldLeaves, lists, thread
<1>7. OthersAreGone'
  BY <1>1, <1>4 DEF OwnersInv, OthersAreGone, LeavesTheLists, Pending, lists,
     thread
<1> QED
  BY <1>5, <1>6, <1>7 DEF OwnersInv

\* A call that is not about a new connection, or about nothing yet.
LEMMA AboutTheOneReadFrom ==
  ASSUME TypeInv, OwnersInv,
         at \in {"out", "read", "short", "reconnect"} \/ conn = mConnection
  PROVE  /\ ~Replaces
         /\ Others = {d \in Connections \ unused : d # mConnection}
         /\ at # "out" => conn = mConnection
  BY DEF OwnersInv, CallIsAboutOne, Replaces, Others, FillPlaces

\* The call goes on or ends with the connection it was about.
LEMMA OwnersWithoutReplacing ==
  ASSUME TypeInv, OwnersInv, ~Replaces,
         at # "out" => conn = mConnection,
         at' # "out" => conn' = mConnection,
         mConnection \in Connections,
         UNCHANGED <<mConnection, unused, cleared, referenced, tempList, multi,
                     restarted, phase>>,
         \A d \in Connections : d # mConnection =>
           /\ mBuffer'[d] = mBuffer[d] /\ mPaused'[d] = mPaused[d]
           /\ mEos'[d] = mEos[d] /\ mStatus'[d] = mStatus[d]
           /\ d \in mAddList' => d \in mAddList
           /\ d \in mResumeList' <=> d \in mResumeList
           /\ d \in mRemoveList' => d \in mRemoveList
  PROVE  OwnersInv'
<1>1. ~Replaces' /\ Others' = Others /\ mConnection \notin unused
  BY DataSourceAssumption DEF Replaces, Others, OwnersInv, CallIsAboutOne
<1>2. \A d \in Connections : d # mConnection => (Fresh(d) => Fresh(d)')
  BY DEF Fresh
<1>3. UnusedAreFresh'
  BY <1>1, <1>2 DEF OwnersInv, UnusedAreFresh
<1>4. CallIsAboutOne' /\ OldLeaves'
  BY <1>1, DataSourceAssumption DEF OwnersInv, CallIsAboutOne, OldLeaves
<1>5. \A d \in Others : d \in Connections /\ d # mConnection
  BY DEF Others
<1>6. \A d \in Others : LeavesTheLists(d) => LeavesTheLists(d)'
  BY <1>1, <1>5 DEF LeavesTheLists
<1>7. OthersAreGone'
  BY <1>1, <1>5, <1>6 DEF OwnersInv, OthersAreGone, Pending
<1> QED
  BY <1>3, <1>4, <1>7 DEF OwnersInv

LEMMA ReaderKeepsOwners ==
  ASSUME TypeInv, OwnersInv,
         \/ \E size \in Sizes : Read(size)
         \/ \E offset \in Offsets : Seek(offset)
         \/ ReadBuffer \/ ReadFails \/ ShortSeekEnds \/ Opened
  PROVE  OwnersInv'
<1> USE DEF managerVars, connection, lists, thread, curl, call, history,
            TypeInv, TypeOK, ManagerTypeOK, CallPlaces
<1>1. CASE \E size \in Sizes : Read(size)
  BY <1>1, AboutTheOneReadFrom, OwnersWithoutReplacing DEF Read
<1>2. CASE \E offset \in Offsets : Seek(offset)
  <2>1. PICK offset \in Offsets : Seek(offset)
    BY <1>2
  <2>2. mConnection \in Connections /\ at = "out"
    BY <2>1 DEF Seek, SeekBehindTheEnd, ShortSeek, ShortSeekWaits,
       ShortSeekFails, SeekStarts
  <2>3. CASE SeekBehindTheEnd(offset)
    BY <2>2, <2>3, AboutTheOneReadFrom, OwnersWithoutReplacing
    DEF SeekBehindTheEnd, SetResume
  <2>4. CASE ShortSeek(offset)
    BY <2>2, <2>4, AboutTheOneReadFrom, OwnersWithoutReplacing DEF ShortSeek
  <2>5. CASE ShortSeekWaits(offset)
    BY <2>2, <2>5, AboutTheOneReadFrom, OwnersWithoutReplacing DEF ShortSeekWaits
  <2>6. CASE ShortSeekFails(offset)
    BY <2>2, <2>6, AboutTheOneReadFrom, OwnersWithoutReplacing DEF ShortSeekFails
  <2> QED
    BY <2>1, <2>3, <2>4, <2>5, <2>6 DEF Seek
<1>3. CASE ReadBuffer
  BY <1>3, AboutTheOneReadFrom, OwnersWithoutReplacing DEF ReadBuffer, Returns
<1>4. CASE ReadFails
  BY <1>4, AboutTheOneReadFrom, OwnersWithoutReplacing DEF ReadFails, Returns
<1>5. CASE ShortSeekEnds
  BY <1>5, AboutTheOneReadFrom, OwnersWithoutReplacing DEF ShortSeekEnds, Returns
<1>6. CASE Opened
  BY <1>6, AboutTheOneReadFrom, OwnersWithoutReplacing DEF Opened, Returns
<1> QED
  BY <1>1, <1>2, <1>3, <1>4, <1>5, <1>6

LEMMA MakingKeepsOwners ==
  ASSUME TypeInv, OwnersInv, Open \/ Reconnect
  PROVE  OwnersInv'
<1> USE DataSourceAssumption
<1>1. CASE Open
  <2>1. unused = Connections /\ Others = {}
    BY <1>1 DEF Open, OwnersInv, UnusedAreFresh, Others
  <2>2. PICK c \in unused :
          /\ unused' = unused \ {c} /\ conn' = c /\ mConnection' = c
          /\ referenced' = {c} /\ at' = "add"
          /\ UNCHANGED <<mBuffer, mPaused, mEos, mStatus, cleared, lists, tempList,
                         multi>>
    BY <1>1 DEF Open, NewConnection, HoldsOn, thread, curl
  <2>3. ~Replaces' /\ Others' = {}
    BY <2>1, <2>2 DEF Replaces, Others
  <2>4. UnusedAreFresh'
    BY <2>1, <2>2 DEF OwnersInv, UnusedAreFresh, Fresh, lists
  <2>5. CallIsAboutOne' /\ OldLeaves' /\ OthersAreGone'
    BY <2>1, <2>2, <2>3 DEF CallIsAboutOne, OldLeaves, OthersAreGone
  <2> QED
    BY <2>4, <2>5 DEF OwnersInv
<1>2. CASE Reconnect
  <2>1. /\ at = "reconnect" /\ ~Replaces /\ conn = mConnection
        /\ mConnection \in Connections \ unused
        /\ Others = {d \in Connections \ unused : d # mConnection}
    BY <1>2, AboutTheOneReadFrom DEF Reconnect, OwnersInv, CallIsAboutOne
  <2>2. PICK c \in unused :
          /\ unused' = unused \ {c} /\ conn' = c /\ mConnection' = mConnection
          /\ referenced' = {mConnection, c} /\ at' = "add" /\ then' = "connect"
          /\ mAddList' = mAddList \ {mConnection}
          /\ mRemoveList' = mRemoveList \cup {mConnection}
          /\ UNCHANGED <<mBuffer, mPaused, mEos, mStatus, cleared, mResumeList,
                         tempList, multi, restarted, phase>>
    BY <1>2 DEF Reconnect, NewConnection, HoldsOn, RemoveConnection, thread, curl
  <2>3. Others' = Others /\ c # mConnection /\ c \notin Others
    BY <2>1, <2>2 DEF Others, OwnersInv, UnusedAreFresh
  <2>4. \A d \in unused : Fresh(d)'
    BY <2>2 DEF OwnersInv, UnusedAreFresh, Fresh
  <2>5. UnusedAreFresh' /\ c \notin multi' /\ c \notin mRemoveList' \cup tempList'
    BY <2>1, <2>2, <2>3, <2>4 DEF OwnersInv, UnusedAreFresh
  <2>6. CallIsAboutOne' /\ Waits'
    BY <2>1, <2>2, <2>4, <2>5 DEF OwnersInv, UnusedAreFresh, CallIsAboutOne,
       Waits, FillPlaces
  <2>7. OldLeaves'
    BY <2>2, <2>5, <2>6 DEF OldLeaves
  <2>8. \A d \in Others : LeavesTheLists(d) => LeavesTheLists(d)'
    BY <2>2, <2>5, <2>6 DEF LeavesTheLists
  <2>9. OthersAreGone'
    BY <2>1, <2>2, <2>3, <2>8 DEF OwnersInv, OthersAreGone, Pending
  <2> QED
    BY <2>5, <2>6, <2>7, <2>9 DEF OwnersInv
<1> QED
  BY <1>1, <1>2

LEMMA AddKeepsOwners ==
  ASSUME TypeInv, OwnersInv, AddToManager \/ SetRunning
  PROVE  OwnersInv'
<1>1. /\ UNCHANGED <<mConnection, unused, conn, then, mBuffer, mPaused, mEos,
                     mStatus, mResumeList, cleared, referenced, tempList, multi,
                     restarted>>
      /\ mRemoveList' \subseteq mRemoveList /\ mAddList' \subseteq mAddList \cup {conn}
      /\ \A d \in Connections : d # conn /\ d \in mRemoveList => d \in mRemoveList'
      /\ phase' = phase \/ phase = "idle"
      /\ at \in {"add", "running"} /\ at' \in {"running", "fill"}
  BY DEF AddToManager, AddConnection, SetRunning, connection, lists, thread,
     curl, call, history
<1>2. conn \in Connections \ unused /\ mConnection \in Connections
  BY <1>1 DEF TypeInv, CallPlaces, OwnersInv, CallIsAboutOne
<1>3. /\ \A d \in Connections : Fresh(d)' <=> Fresh(d)
      /\ Waits' = Waits /\ Replaces' = Replaces /\ Others' = Others
  BY <1>1 DEF Fresh, Waits, Replaces, Others
<1>4. UnusedAreFresh' /\ CallIsAboutOne'
  BY <1>1, <1>2, <1>3 DEF OwnersInv, UnusedAreFresh, CallIsAboutOne, FillPlaces
<1>5. OldLeaves'
  BY <1>1, <1>2, <1>3 DEF OwnersInv, OldLeaves, Replaces
<1>6. \A d \in Others : d # conn /\ d \in Connections
  BY <1>1 DEF Others
<1>7. \A d \in Others : LeavesTheLists(d) => LeavesTheLists(d)'
  BY <1>1, <1>3, <1>6 DEF LeavesTheLists
<1>8. OthersAreGone'
  BY <1>1, <1>3, <1>6, <1>7 DEF OwnersInv, OthersAreGone, Pending
<1> QED
  BY <1>4, <1>5, <1>8 DEF OwnersInv

\* What nothing has reached waits in fillBuffer.
LEMMA FreshConnectionWaits ==
  ASSUME TypeInv, Waits, FillBuffer
  PROVE  at' \in {"fill", "status"} /\ UNCHANGED managerVars
<1>1. conn \in Connections /\ want \in Nat \ {0}
  BY DataSourceAssumption DEF Waits, TypeInv, TypeOK, CallPlaces
<1>2. /\ ~(mBuffer[conn].mFillCount >= want)
      /\ ~(mSize - mBuffer[conn].mFillCount - mBuffer[conn].mBackCount = 0)
  BY <1>1, RingBufferAssumption DEF Waits, Fresh
<1>3. ~Filled
  BY <1>2 DEF Filled, ReadableSize, WriteableSize
<1>4. CASE FillLook
  BY <1>3, <1>4 DEF FillLook, Waits, Fresh, Continues
<1>5. CASE FillStatus
  BY <1>5 DEF FillStatus, Waits, Fresh
<1> QED
  BY <1>4, <1>5 DEF FillBuffer, Unpause, Resume, Retry, GiveUp, Waits

LEMMA FillKeepsOwners ==
  ASSUME TypeInv, OwnersInv, FillBuffer
  PROVE  OwnersInv'
<1>1. /\ UNCHANGED <<mConnection, unused, conn, then, cleared, referenced, tempList,
                     multi, restarted, phase, mAddList, mRemoveList>>
      /\ at \in FillPlaces /\ at' \in FillPlaces \cup {then} /\ at # "out"
      /\ mResumeList \subseteq mResumeList'
      /\ mResumeList' \subseteq mResumeList \cup {conn}
  <2> USE DEF managerVars, lists, thread, curl, call, history, FillPlaces
  <2>1. CASE FillLook
    BY <2>1 DEF FillLook, FillReturns
  <2>2. CASE Unpause \/ Resume
    BY <2>2 DEF Unpause, Resume, ResumeConnection
  <2>3. CASE FillStatus
    BY <2>3 DEF FillStatus, FillReturns, Codes, TypeInv, TypeOK, ManagerTypeOK,
       CallPlaces
  <2>4. CASE Retry \/ GiveUp
    BY <2>4 DEF Retry, GiveUp, FillReturns
  <2> QED
    BY <2>1, <2>2, <2>3, <2>4 DEF FillBuffer
<1>2. \A d \in Connections : d # conn =>
        /\ mBuffer'[d] = mBuffer[d] /\ mPaused'[d] = mPaused[d]
        /\ mEos'[d] = mEos[d] /\ mStatus'[d] = mStatus[d]
  BY DEF FillBuffer, FillLook, Unpause, Resume, FillStatus, Retry, GiveUp, Reset,
     managerVars, connection, TypeInv, TypeOK, ManagerTypeOK
<1>3. /\ conn \in Connections \ unused /\ then \in {"connect", "read", "short"}
      /\ at' # "out"
  BY <1>1 DEF TypeInv, TypeOK, CallPlaces, OwnersInv, CallIsAboutOne, FillPlaces
<1>4. /\ \A d \in Connections : d # conn => (Fresh(d)' <=> Fresh(d))
      /\ Replaces' = Replaces /\ Others' = Others
      /\ \A d \in Others : d # conn /\ d \in Connections
  BY <1>1, <1>2, <1>3 DEF Fresh, Replaces, Others
<1>5. Waits => Waits'
  BY FreshConnectionWaits DEF Waits, Fresh, managerVars, connection, lists,
     FillBuffer, FillLook, Unpause, Resume, FillStatus, Retry, GiveUp
<1>6. UnusedAreFresh' /\ CallIsAboutOne'
  BY <1>1, <1>3, <1>4 DEF OwnersInv, UnusedAreFresh, CallIsAboutOne
<1>7. OldLeaves'
  BY <1>1, <1>4, <1>5 DEF OwnersInv, OldLeaves
<1>8. \A d \in Others : LeavesTheLists(d) => LeavesTheLists(d)'
  BY <1>1, <1>4, <1>5 DEF LeavesTheLists
<1>9. OthersAreGone'
  BY <1>1, <1>4, <1>8 DEF OwnersInv, OthersAreGone, Pending
<1> QED
  BY <1>6, <1>7, <1>9 DEF OwnersInv

LEMMA ReconnectedKeepsOwners ==
  ASSUME TypeInv, OwnersInv, Reconnected
  PROVE  OwnersInv'
<1> DEFINE old == mConnection
           new == conn
<1>1. /\ at = "connect" /\ at' = "out" /\ Replaces /\ ~Waits
      /\ old \in Connections \ unused /\ new \in Connections \ unused /\ old # new
  BY DataSourceAssumption
  DEF Reconnected, Returns, Replaces, Waits, TypeInv, CallPlaces, OwnersInv,
      CallIsAboutOne
<1>2. /\ old \in cleared \ (mRemoveList \cup tempList) /\ old \notin mAddList
      /\ old \notin multi \ restarted
      /\ new \notin mRemoveList \cup tempList \cup cleared
  BY <1>1 DEF OwnersInv, OldLeaves, CallIsAboutOne
<1>3. /\ mConnection' \in {old, new} /\ referenced' = {mConnection'}
      /\ UNCHANGED <<unused, mPaused, mEos, mStatus, cleared, lists, tempList, multi,
                     restarted, phase>>
      /\ \A d \in unused : mBuffer'[d] = mBuffer[d]
  BY <1>1
  DEF Reconnected, HoldsOn, Forgets, lists, thread, curl, history, OwnersInv,
      UnusedAreFresh
<1>4. ~Replaces' /\ Others' = (Others \cup {old, new}) \ {mConnection'}
  BY <1>1, <1>3 DEF Replaces, Others
<1>5. UnusedAreFresh'
  BY <1>1, <1>3, DataSourceAssumption DEF OwnersInv, UnusedAreFresh, Fresh, lists
<1>6. CallIsAboutOne' /\ OldLeaves'
  BY <1>1, <1>3, <1>4 DEF CallIsAboutOne, OldLeaves
<1>7. \A d \in Others : d \in Pending => d \in cleared /\ LeavesTheLists(d)'
  BY <1>1, <1>3, <1>4 DEF OwnersInv, OthersAreGone, LeavesTheLists, lists
<1>8. ASSUME NEW d \in Others'
      PROVE  /\ d \notin referenced' \cup mRemoveList' \cup tempList'
             /\ d \in Pending' => LeavesTheLists(d)'
  <2>1. CASE d \in Others
    BY <1>1, <1>3, <1>4, <1>7, <2>1
    DEF OwnersInv, OthersAreGone, Pending, lists
  <2>2. CASE d = old /\ mConnection' = new
    BY <1>1, <1>2, <1>3, <2>2 DEF LeavesTheLists, lists
  <2>3. CASE d = new /\ mConnection' = old
    BY <1>1, <1>2, <1>3, <1>4, <2>3 DEF LeavesTheLists, lists
  <2> QED
    BY <1>3, <1>4, <1>8, <2>1, <2>2, <2>3
<1>9. \A d, e \in (Others' \cap Pending') \cap (Connections \ cleared') : d = e
  <2>1. \A d \in Others' \cap Pending' : d \in cleared' \/ d = new
    BY <1>2, <1>3, <1>4, <1>7 DEF Pending, lists
  <2> QED
    BY <2>1
<1> QED
  BY <1>5, <1>6, <1>8, <1>9 DEF OwnersInv, OthersAreGone

LEMMA OwnersAlways == Spec => []OwnersInv
<1>1. Init => OwnersInv
  BY RingBufferAssumption
  DEF Init, ManagerInit, NewRing, OwnersInv, UnusedAreFresh, CallIsAboutOne,
      OldLeaves, OthersAreGone, Replaces, Others, Fresh
<1>2. TypeInv /\ OwnersInv /\ [Next]_vars => OwnersInv'
  <2> SUFFICES ASSUME TypeInv, OwnersInv, [Next]_vars
               PROVE  OwnersInv'
    OBVIOUS
  <2>1. CASE Client
    BY <2>1, ReaderKeepsOwners, MakingKeepsOwners, AddKeepsOwners,
       FillKeepsOwners, ReconnectedKeepsOwners DEF Client, InsideCall
  <2>2. CASE Manager
    BY <2>2, LoopKeepsOwners, PerformKeepsOwners DEF Manager
  <2>3. CASE UNCHANGED vars
    BY <2>3
    DEF OwnersInv, UnusedAreFresh, CallIsAboutOne, OldLeaves, OthersAreGone,
        LeavesTheLists, Pending, Waits, Replaces, Others, Fresh, vars,
        managerVars, connection, curl, lists, thread, call, history
  <2> QED
    BY <2>1, <2>2, <2>3 DEF Next
<1> QED
  BY <1>1, <1>2, TypesAlways, PTL DEF Spec

\* A transfer that no late resume has added again goes on alone.
LEMMA OneTransferPerTurn ==
  ASSUME TypeInv, OwnersInv, phase \in {"perform", "info"},
         NEW c \in multi \ restarted, NEW d \in multi \ restarted,
         ~Destroyed(c), ~Destroyed(d)
  PROVE  c = d
<1> SUFFICES ASSUME c # d
             PROVE  FALSE
  OBVIOUS
<1>1. c \in Connections \ unused /\ d \in Connections \ unused
  BY DEF OwnersInv, UnusedAreFresh, TypeInv, TypeOK, ManagerTypeOK
<1>2. ASSUME NEW e \in Others, e \in multi \ restarted, ~Destroyed(e)
      PROVE  /\ e \in Pending \ cleared
             /\ mConnection \notin multi \ restarted
             /\ Replaces => conn \notin multi
  BY <1>2 DEF OwnersInv, OthersAreGone, LeavesTheLists, Pending, Destroyed
<1>3. Replaces => mConnection \notin multi \ restarted \/ conn \notin multi
  BY DEF OwnersInv, OldLeaves
<1>4. CASE c \in Others /\ d \in Others
  BY <1>1, <1>2, <1>4 DEF OwnersInv, OthersAreGone
<1>5. CASE c \notin Others \/ d \notin Others
  BY <1>1, <1>2, <1>3, <1>5 DEF Others, Replaces
<1> QED
  BY <1>4, <1>5

(***************************************************************************)
(* The transfer a seek abandons is off the multi handle before the one     *)
(* that replaces it performs, whenever the lists are applied, unless a     *)
(* late resume has added it again (CurlConnectionManager.cpp:99-101).      *)
(***************************************************************************)
THEOREM TransfersDoNotOverlap == Spec => []OneTransferAtATime
<1>1. TypeInv /\ OwnersInv => OneTransferAtATime
  BY OneTransferPerTurn DEF OneTransferAtATime
<1> QED
  BY <1>1, TypesAlways, OwnersAlways, PTL

-----------------------------------------------------------------------------
(***************************************************************************)
(* The end of a file.  status.eof is carried from one message of a turn to *)
(* the next, so a connection may be told an end that is not its own; it is *)
(* not, as long as no resume has started a transfer again, because then a  *)
(* turn has one message.                                                   *)
(***************************************************************************)
OneIsOver ==
  eofSeen /\ restarted = {} => phase = "info" /\ Over \subseteq message

LEMMA ManagerKeepsOneOver ==
  ASSUME TypeInv, OwnersInv, OneIsOver, Manager
  PROVE  OneIsOver'
<1>1. CASE ApplyAdd \/ ApplyResume \/ TakeRemoveList \/ RemoveHandles
  <2>1. phase # "info" /\ eofSeen' = eofSeen /\ (restarted' = {} => restarted = {})
    BY <1>1 DEF ApplyAdd, ApplyResume, TakeRemoveList, RemoveHandles, curl
  <2> QED
    BY <2>1 DEF OneIsOver
<1>2. CASE PerformReturns \/ Perform
  <2>1. phase = "perform" /\ eofSeen' = eofSeen /\ restarted' = restarted
    BY <1>2 DEF PerformReturns, Perform, WriteCallback, XferInfo, TransferEnds,
       Performs, curl, thread
  <2> QED
    BY <2>1 DEF OneIsOver
<1>3. CASE LoopReturns
  BY <1>3 DEF LoopReturns, OneIsOver
<1>4. CASE InfoRead
  <2>1. PICK c \in Over : message' = {c}
    BY <1>4 DEF InfoRead
  <2>2. /\ phase = "info" /\ phase' = "info" /\ restarted' = restarted
        /\ Over' = Over
    BY <1>4 DEF InfoRead, Over, Destroyed, curl, lists
  <2>3. restarted = {} => \A d \in Over : d = c
    BY <2>2, OneTransferPerTurn DEF Over
  <2> QED
    BY <2>1, <2>2, <2>3 DEF OneIsOver
<1>5. CASE InfoRemove
  <2>1. /\ phase = "info" /\ phase' = "info" /\ restarted' = restarted
        /\ eofSeen' = eofSeen /\ message' = {}
        /\ Over' \subseteq Over \ message
    BY <1>5 DEF InfoRemove, Removed, Over, Destroyed, lists, Codes, TypeInv,
       TypeOK, ManagerTypeOK
  <2> QED
    BY <2>1 DEF OneIsOver
<1> QED
  BY <1>1, <1>2, <1>3, <1>4, <1>5 DEF Manager, Loop

LEMMA ClientKeepsOneOver ==
  ASSUME TypeInv, OwnersInv, OneIsOver, Client
  PROVE  OneIsOver'
<1>1. /\ UNCHANGED <<tempList, eofSeen, message, multi, transfer, restarted>>
      /\ phase' = phase \/ phase = "idle"
  BY DEF Client, Open, Read, Seek, SeekBehindTheEnd, ShortSeek, ShortSeekWaits,
     ShortSeekFails, InsideCall, AddToManager, AddConnection, SetRunning,
     FillBuffer, FillLook, Unpause, Resume, FillStatus, Retry, GiveUp, Opened,
     Reconnected, ReadBuffer, ReadFails, ShortSeekEnds, Reconnect, managerVars,
     thread, curl
<1>2. ASSUME NEW c \in multi, Destroyed(c)
      PROVE  Destroyed(c)'
  <2>1. /\ c \in Connections /\ c \notin unused
        /\ at # "out" => c # conn
        /\ c # mConnection
    BY <1>2, DataSourceAssumption
    DEF OwnersInv, UnusedAreFresh, CallIsAboutOne, Destroyed, TypeInv, TypeOK,
        ManagerTypeOK
  <2>2. referenced' \subseteq referenced \cup unused \cup {mConnection}
                                \cup (IF at = "out" THEN {} ELSE {conn})
    BY DEF Client, Open, Read, Seek, SeekBehindTheEnd, ShortSeek, ShortSeekWaits,
       ShortSeekFails, InsideCall, AddToManager, SetRunning, FillBuffer,
       FillLook, Unpause, Resume, FillStatus, Retry, GiveUp, Opened,
       Reconnected, ReadBuffer, ReadFails, ShortSeekEnds, Reconnect,
       NewConnection, HoldsOn, managerVars
  <2>3. mAddList' \cup mResumeList' \cup mRemoveList'
          \subseteq mAddList \cup mResumeList \cup mRemoveList \cup {mConnection}
                      \cup (IF at = "out" THEN {} ELSE {conn})
    BY DEF Client, Open, Read, Seek, SeekBehindTheEnd, ShortSeek, ShortSeekWaits,
       ShortSeekFails, InsideCall, AddToManager, AddConnection, SetRunning,
       FillBuffer, FillLook, Unpause, Resume, ResumeConnection, FillStatus,
       Retry, GiveUp, Opened, Reconnected, ReadBuffer, ReadFails,
       ShortSeekEnds, Reconnect, RemoveConnection, managerVars, lists
  <2> QED
    BY <1>1, <1>2, <2>1, <2>2, <2>3 DEF Destroyed
<1>3. Over' \subseteq Over
  BY <1>1, <1>2 DEF Over
<1> QED
  BY <1>1, <1>3 DEF OneIsOver

-----------------------------------------------------------------------------
\* The position behind the last byte in the buffer.
BufferEnd(c) == mFilePos[c] + mBuffer[c].mFillCount

\* The connection is on its way into the multi handle.
WillAdd(c) == c \in mAddList \/ (at = "add" /\ conn = c)

\* The connection's transfer is over, as far as the connection has been told.
Settled(c) == transfer[c] = "none" \/ (transfer[c] \in Codes /\ message = {c})

InPlace ==
  /\ message # {} => phase = "info"
  /\ \A c \in Connections : c \in multi => transfer[c] # "none"
  /\ \A c \in Connections : mStatus[c] \in Codes
  /\ \A c \in unused : mStatus[c] = "OK" /\ ~mEos[c] /\ mBuffer[c] = NewRing
  /\ \A c \in unused : transfer[c] = "none"
  /\ \A c \in unused : c \notin mAddList \cup mResumeList
  /\ unused \subseteq Connections
  /\ at # "out" => conn \in Connections \ unused
  /\ mConnection \in (Connections \ unused) \cup {None}
  /\ at = "out" => passed = 0
  /\ then \in {"connect", "read", "short"}
  /\ arg \in Nat

FileAround(c) ==
  /\ mBuffer[c] \in Ring /\ mFilePos[c] \in Int
  /\ Holds(mBuffer[c], mFilePos[c])

\* A connection that was closed and replaced is held by nobody.
Held(c) == c \notin cleared \/ c \in {mConnection, conn}

GoesOnAtTheEnd(c) ==
  Held(c) =>
    /\ transfer[c] \in {"running", "paused"} => sent[c] = BufferEnd(c)
    /\ WillAdd(c) => resumeFrom[c] = BufferEnd(c)

RestartsWhenOver(c) ==
  /\ mStatus[c] # "OK" => Settled(c) /\ ~WillAdd(c)
  /\ WillAdd(c) => Settled(c)
  /\ at = "add" /\ conn = c => c \notin mAddList
  /\ at = "retry" /\ conn = c => mStatus[c] # "OK"

\* What is told the end of the file has all of it.
EndsAtTheEnd(c) ==
  Held(c) =>
    /\ transfer[c] = "OK" /\ message # {c} => BufferEnd(c) >= FileLen
    /\ mEos[c] /\ restarted = {} => BufferEnd(c) >= FileLen

FileInv(c) ==
  /\ FileAround(c) /\ GoesOnAtTheEnd(c) /\ RestartsWhenOver(c)
  /\ EndsAtTheEnd(c)
  /\ conn = c => passed \in Nat

CurlInv ==
  /\ ManagerArrays
  /\ InPlace
  /\ \A c \in Connections \ Astray : FileInv(c)

-----------------------------------------------------------------------------
LEMMA LoopKeepsPlaces ==
  ASSUME ManagerArrays, InPlace, Manager
  PROVE  InPlace'
<1> USE DEF ManagerArrays, InPlace
<1>1. UNCHANGED <<mConnection, at, conn, then, passed, arg, unused>>
  BY DEF Manager, call, history
<1>2. CASE ApplyAdd
  BY <1>1, <1>2 DEF ApplyAdd, Started, connection
<1>3. CASE ApplyResume
  BY <1>1, <1>3 DEF ApplyResume, connection
<1>4. CASE TakeRemoveList
  BY <1>1, <1>4 DEF TakeRemoveList, connection, curl
<1>5. CASE RemoveHandles
  BY <1>1, <1>5 DEF RemoveHandles, Removed, connection, lists
<1>6. CASE PerformReturns \/ LoopReturns
  BY <1>1, <1>6 DEF PerformReturns, LoopReturns, connection, curl, lists
<1>7. CASE InfoRead
  BY <1>1, <1>7 DEF InfoRead, Over, OnConnectOver, connection, curl, lists
<1>8. CASE InfoRemove
  BY <1>1, <1>8 DEF InfoRemove, Removed, connection, lists
<1>9. CASE Perform
  <2>1. PICK c \in Connections :
          \/ \E n \in 1 .. CURL_READ_BUFFER_SIZE : WriteCallback(c, n)
          \/ XferInfo(c)
          \/ \E code \in Codes : TransferEnds(c, code)
    BY <1>9 DEF Perform
  <2>2. CASE \E n \in 1 .. CURL_READ_BUFFER_SIZE : WriteCallback(c, n)
    BY <1>1, <2>2 DEF WriteCallback, WritePauses, lists, thread
  <2>3. CASE XferInfo(c)
    BY <1>1, <2>3 DEF XferInfo, lists, thread
  <2>4. CASE \E code \in Codes : TransferEnds(c, code)
    BY <1>1, <2>4 DEF TransferEnds, Codes, connection, lists, thread
  <2> QED
    BY <2>1, <2>2, <2>3, <2>4
<1> QED
  BY <1>2, <1>3, <1>4, <1>5, <1>6, <1>7, <1>8, <1>9 DEF Manager, Loop

LEMMA ClientKeepsPlaces ==
  ASSUME ManagerArrays, InPlace, Client
  PROVE  InPlace'
<1> USE DataSourceAssumption
    DEF ManagerArrays, InPlace, lists, thread, connection, curl, call, history
<1>1. CASE Open
  BY <1>1 DEF Open, NewConnection, SetResume
<1>2. CASE Reconnect
  BY <1>2 DEF Reconnect, NewConnection, SetResume, RemoveConnection
<1>3. CASE \E size \in Sizes : Read(size)
  BY <1>3 DEF Read, managerVars
<1>4. CASE \E offset \in Offsets : Seek(offset)
  BY <1>4 DEF Seek, SeekBehindTheEnd, ShortSeek, ShortSeekWaits,
     ShortSeekFails, SeekStarts, managerVars
<1>5. CASE AddToManager
  BY <1>5 DEF AddToManager, AddConnection
<1>6. CASE SetRunning
  BY <1>6 DEF SetRunning
<1>7. CASE Opened \/ ReadFails
  BY <1>7 DEF Opened, ReadFails, Returns, managerVars
<1>8. CASE Reconnected
  BY <1>8 DEF Reconnected, Forgets, Returns
<1>9. CASE ReadBuffer
  BY <1>9 DEF ReadBuffer, Returns
<1>10. CASE ShortSeekEnds
  BY <1>10 DEF ShortSeekEnds, Returns
<1>11. CASE FillLook \/ FillStatus
  BY <1>11 DEF FillLook, FillStatus, FillReturns, Codes, managerVars
<1>12. CASE Unpause \/ Resume
  BY <1>12 DEF Unpause, Resume, ResumeConnection
<1>13. CASE Retry \/ GiveUp
  BY <1>13 DEF Retry, GiveUp, Reset, FillReturns, Codes
<1> QED
  BY <1>1, <1>2, <1>3, <1>4, <1>5, <1>6, <1>7, <1>8, <1>9, <1>10, <1>11,
     <1>12, <1>13 DEF Client, InsideCall, FillBuffer

-----------------------------------------------------------------------------
LEMMA PerformKeepsTheFile ==
  ASSUME ManagerArrays, InPlace, NEW c \in Connections, c \notin Astray',
         FileInv(c), Perform,
         UNCHANGED <<mConnection, mFileSize, at, call, history>>
  PROVE  FileInv(c)'
<1>1. UNCHANGED <<mConnection, at, conn, passed, mAddList, resumeFrom, cleared,
                  message, restarted>>
      /\ mStatus' = mStatus /\ mFilePos' = mFilePos /\ mEos' = mEos
  BY DEF Perform, WriteCallback, XferInfo, TransferEnds, connection, lists,
     thread, call
<1>2. PICK d \in Connections :
        \/ \E n \in 1 .. CURL_READ_BUFFER_SIZE : WriteCallback(d, n)
        \/ XferInfo(d)
        \/ \E code \in Codes : TransferEnds(d, code)
  BY DEF Perform
<1>3. WillAdd(c)' = WillAdd(c)
  BY <1>1 DEF WillAdd
<1>4. ASSUME mBuffer'[c] = mBuffer[c], sent'[c] = sent[c],
             transfer'[c] = transfer[c] \/ transfer[c] = "running"
                \/ transfer[c] = "paused",
             transfer'[c] \in {"running", "paused"} =>
               transfer[c] \in {"running", "paused"},
             transfer'[c] = "OK" =>
               \/ transfer[c] = "OK"
               \/ transfer[c] = "running" /\ sent[c] >= FileLen
      PROVE  FileInv(c)'
  <2>1. \/ transfer'[c] = transfer[c]
        \/ mStatus[c] = "OK" /\ ~WillAdd(c)
    BY <1>4 DEF FileInv, RestartsWhenOver, Settled, WillAdd, Codes
  <2>2. FileAround(c)' /\ GoesOnAtTheEnd(c)'
    BY <1>1, <1>3, <1>4 DEF FileInv, FileAround, GoesOnAtTheEnd, BufferEnd, Held
  <2>3. RestartsWhenOver(c)'
    BY <1>1, <1>3, <2>1 DEF FileInv, RestartsWhenOver, Settled
  <2>4. EndsAtTheEnd(c)'
    BY <1>1, <1>4 DEF FileInv, FileAround, GoesOnAtTheEnd, EndsAtTheEnd, BufferEnd,
       Held
  <2> QED
    BY <1>1, <2>2, <2>3, <2>4 DEF FileInv
<1>5. CASE XferInfo(d)
  BY <1>4, <1>5 DEF XferInfo, ManagerArrays
<1>6. CASE \E code \in Codes : TransferEnds(d, code)
  BY <1>4, <1>6 DEF TransferEnds, ManagerArrays, connection, Codes
<1>7. ASSUME NEW n \in 1 .. CURL_READ_BUFFER_SIZE, WriteCallback(d, n)
      PROVE  FileInv(c)'
  <2>1. CASE d # c \/ d \in cleared \/ mPaused[d]
             \/ WriteableSize(mBuffer[d]) < n
    BY <1>4, <1>7, <2>1 DEF WriteCallback, WritePauses, ManagerArrays
  <2>2. CASE d = c /\ d \notin cleared /\ ~mPaused[d]
             /\ ~(WriteableSize(mBuffer[d]) < n)
    <3>1. /\ mBuffer'[c] = WriteData(mBuffer[c], sent[c], n)
          /\ sent'[c] = sent[c] + n
          /\ transfer[c] = "running" /\ transfer' = transfer
      BY <1>7, <2>2 DEF WriteCallback, ManagerArrays
    <3>2. sent[c] = BufferEnd(c) /\ FileAround(c)
      BY <2>2, <3>1 DEF FileInv, GoesOnAtTheEnd, Held
    <3>3. mBuffer[c].mFillCount \in Nat /\ mBuffer[c].mBackCount \in Nat
          /\ n \in Nat
      BY <1>7, <3>2, ManagerAssumption DEF FileAround, Ring
    <3>4. n <= WriteableSize(mBuffer[c])
      BY <2>2, <3>3, RingBufferAssumption DEF WriteableSize
    <3>5. mBuffer'[c] \in Ring /\ Holds(mBuffer'[c], mFilePos[c])
      BY <3>1, <3>2, <3>3, <3>4, WriteDataHolds DEF FileAround, BufferEnd
    <3>6. mBuffer'[c].mFillCount = mBuffer[c].mFillCount + n
      BY <3>1, <3>2, <3>3, <3>4, RingBufferAssumption
      DEF WriteData, WriteableSize, FileAround, Ring
    <3>7. sent'[c] = BufferEnd(c)'
      BY <1>1, <3>1, <3>2, <3>3, <3>6 DEF FileAround, BufferEnd
    <3>8. ~WillAdd(c) /\ mStatus[c] = "OK"
      BY <3>1 DEF FileInv, RestartsWhenOver, Settled, WillAdd, Codes
    <3>9. FileAround(c)' /\ GoesOnAtTheEnd(c)' /\ RestartsWhenOver(c)'
      BY <1>1, <1>3, <3>2, <3>5, <3>7, <3>8
      DEF FileInv, FileAround, GoesOnAtTheEnd, RestartsWhenOver
    <3>10. BufferEnd(c)' >= BufferEnd(c) /\ transfer[c] # "OK"
      BY <1>1, <3>1, <3>2, <3>3, <3>6 DEF FileAround, BufferEnd
    <3>11. EndsAtTheEnd(c)'
      <4>1. BufferEnd(c) \in Int /\ BufferEnd(c)' \in Int /\ FileLen \in Int
        BY <1>1, <3>2, <3>3, <3>6, ManagerAssumption DEF FileAround, BufferEnd
      <4> QED
        BY <1>1, <3>1, <3>10, <4>1 DEF FileInv, EndsAtTheEnd, Held
    <3> QED
      BY <1>1, <3>9, <3>11 DEF FileInv
  <2> QED
    BY <2>1, <2>2
<1> QED
  BY <1>2, <1>5, <1>6, <1>7

LEMMA LoopKeepsTheFile ==
  ASSUME ManagerArrays, InPlace, NEW c \in Connections, c \notin Astray',
         FileInv(c), OneIsOver, Loop,
         UNCHANGED <<mConnection, mFileSize, at, call, history>>
  PROVE  FileInv(c)'
<1>1. UNCHANGED <<mConnection, mBuffer, mFilePos, resumeFrom, at, conn, passed>>
  BY DEF Loop, ApplyAdd, ApplyResume, TakeRemoveList, RemoveHandles,
     PerformReturns, InfoRead, InfoRemove, LoopReturns, connection, call
<1>2. FileAround(c)' /\ BufferEnd(c)' = BufferEnd(c)
  BY <1>1 DEF FileInv, FileAround, BufferEnd
<1>2h. Held(c)' => Held(c)
  BY <1>1 DEF Held, Loop, ApplyAdd, ApplyResume, TakeRemoveList, ClearCurlOpt,
     RemoveHandles, PerformReturns, InfoRead, InfoRemove, LoopReturns
<1> SUFFICES GoesOnAtTheEnd(c)' /\ RestartsWhenOver(c)' /\ EndsAtTheEnd(c)'
  BY <1>1, <1>2 DEF FileInv
<1> USE <1>1, <1>2, <1>2h
    DEF FileInv, GoesOnAtTheEnd, RestartsWhenOver, EndsAtTheEnd, WillAdd, Settled,
        ManagerArrays, InPlace
<1>3. CASE ApplyAdd
  BY <1>3 DEF ApplyAdd, Started, connection, Codes
<1>4. CASE ApplyResume
  <2>1. c \notin mResumeList \ multi
    BY <1>4 DEF ApplyResume, Astray
  <2> QED
    BY <1>4, <2>1 DEF ApplyResume, connection, Codes
<1>5. CASE TakeRemoveList
  BY <1>5 DEF TakeRemoveList, ClearCurlOpt, connection, curl
<1>6. CASE RemoveHandles
  BY <1>6 DEF RemoveHandles, Removed, connection, lists, Codes
<1>7. CASE PerformReturns \/ LoopReturns
  BY <1>7 DEF PerformReturns, LoopReturns, connection, curl, lists
<1>8. CASE InfoRead
  <2>1. PICK d \in Over :
          /\ eofSeen' = (eofSeen \/ transfer[d] = "OK")
          /\ mEos' = [mEos EXCEPT ![d] = eofSeen']
          /\ mStatus' = [mStatus EXCEPT ![d] = transfer[d]]
          /\ message = {} /\ message' = {d}
          /\ UNCHANGED <<cleared, mAddList, transfer, sent, restarted>>
    BY <1>8 DEF InfoRead, OnConnectOver, curl, lists
  <2>2. GoesOnAtTheEnd(c)' /\ RestartsWhenOver(c)'
    BY <2>1 DEF Over
  <2>3. restarted = {} /\ mEos'[c] => mEos[c] \/ (c = d /\ transfer[c] = "OK")
    <3>1. restarted = {} => ~eofSeen
      BY ONLY <2>1, OneIsOver DEF OneIsOver
    <3>2. eofSeen' => eofSeen \/ transfer[d] = "OK"
      BY ONLY <2>1
    <3>3. c # d => mEos'[c] = mEos[c]
      BY <2>1
    <3>4. d = c => mEos'[c] = eofSeen'
      BY <2>1
    <3>5. CASE d = c
      <4>1. eofSeen' => eofSeen \/ transfer[c] = "OK"
        BY ONLY <3>2, <3>5
      <4>2. mEos'[c] = eofSeen'
        BY ONLY <3>4, <3>5
      <4> QED
        BY ONLY <3>1, <3>5, <4>1, <4>2
    <3>6. CASE c # d
      BY <3>3, <3>6
    <3> QED
      BY <3>5, <3>6
  <2>4. EndsAtTheEnd(c)'
    BY <2>1, <2>3
  <2> QED
    BY <2>2, <2>4
<1>9. CASE InfoRemove
  BY <1>9 DEF InfoRemove, Removed, connection, lists, Codes
<1> QED
  BY <1>3, <1>4, <1>5, <1>6, <1>7, <1>8, <1>9 DEF Loop

\* Only a connection that is made becomes held.
LEMMA CallsHoldNoMore ==
  ASSUME NEW c \in Connections,
         \/ \E size \in Sizes : Read(size)
         \/ \E offset \in Offsets : Seek(offset)
         \/ AddToManager \/ SetRunning \/ FillBuffer
         \/ Opened \/ Reconnected \/ ReadBuffer \/ ReadFails \/ ShortSeekEnds
  PROVE  Held(c)' => Held(c)
<1>1. /\ cleared' = cleared /\ mConnection' \in {mConnection, conn}
      /\ conn' \in {conn, mConnection, None}
  BY DEF Read, Seek, SeekBehindTheEnd, ShortSeek, ShortSeekWaits, ShortSeekFails,
     AddToManager, SetRunning, FillBuffer, FillLook, Unpause, Resume, FillStatus,
     Retry, GiveUp, Opened, Reconnected, ReadBuffer, ReadFails, ShortSeekEnds,
     Returns, managerVars, call
<1> QED
  BY <1>1, DataSourceAssumption DEF Held

\* The reader moves by n at its end of the buffer, or not at all.
LEMMA ReaderKeepsTheFile ==
  ASSUME ManagerArrays, InPlace, NEW c \in Connections, FileInv(c),
         NEW n \in Int,
         \/ mBuffer'[c] = mBuffer[c] /\ n = 0
         \/ mBuffer'[c] = ReadData(mBuffer[c], n)
              /\ n >= 0 /\ n <= mBuffer[c].mFillCount
         \/ mBuffer'[c] = SkipBytes(mBuffer[c], n) /\ CanSkip(mBuffer[c], n),
         mFilePos'[c] = mFilePos[c] + n,
         UNCHANGED <<transfer, sent, cleared, resumeFrom, mStatus, mAddList,
                     message, mEos, restarted>>,
         at' \notin {"add", "retry"}, Held(c)' => Held(c),
         conn' = c => passed' \in Nat
  PROVE  FileInv(c)'
<1>1. FileAround(c) /\ mBuffer[c].mFillCount \in Nat
      /\ mBuffer[c].mBackCount \in Nat
  BY DEF FileInv, FileAround, Ring
<1>2. FileAround(c)' /\ mBuffer'[c].mFillCount = mBuffer[c].mFillCount - n
  <2>1. CASE mBuffer'[c] = mBuffer[c] /\ n = 0
    BY <1>1, <2>1 DEF FileAround
  <2>2. CASE mBuffer'[c] = ReadData(mBuffer[c], n) /\ n >= 0
               /\ n <= mBuffer[c].mFillCount
    <3>1. mBuffer'[c].mFillCount = mBuffer[c].mFillCount - n
      BY <1>1, <2>2 DEF ReadData, FileAround, Ring
    <3>2. mBuffer'[c] \in Ring /\ Holds(mBuffer'[c], mFilePos[c] + n)
      BY <1>1, <2>2, ReadDataHolds DEF FileAround
    <3> QED
      BY <1>1, <3>1, <3>2 DEF FileAround
  <2>3. CASE mBuffer'[c] = SkipBytes(mBuffer[c], n) /\ CanSkip(mBuffer[c], n)
    <3>1. mBuffer'[c].mFillCount = mBuffer[c].mFillCount - n
      BY <1>1, <2>3 DEF SkipBytes, FileAround, Ring
    <3>2. mBuffer'[c] \in Ring /\ Holds(mBuffer'[c], mFilePos[c] + n)
      BY <1>1, <2>3, SkipBytesHolds DEF FileAround
    <3> QED
      BY <1>1, <3>1, <3>2 DEF FileAround
  <2> QED
    BY <2>1, <2>2, <2>3
<1>3. BufferEnd(c)' = BufferEnd(c)
  BY <1>1, <1>2 DEF BufferEnd, FileAround
<1>4. WillAdd(c)' => WillAdd(c)
  BY DEF WillAdd
<1>5. GoesOnAtTheEnd(c)' /\ RestartsWhenOver(c)'
  BY <1>3, <1>4
  DEF FileInv, GoesOnAtTheEnd, RestartsWhenOver, WillAdd, Settled
<1>6. EndsAtTheEnd(c)'
  BY <1>3 DEF FileInv, EndsAtTheEnd
<1> QED
  BY <1>2, <1>5, <1>6 DEF FileInv

\* Nothing of the connection changes, and it is not about to be added.
LEMMA OthersKeepTheFile ==
  ASSUME ManagerArrays, InPlace, NEW c \in Connections, FileInv(c),
         mBuffer'[c] = mBuffer[c], mFilePos'[c] = mFilePos[c],
         mStatus'[c] = mStatus[c], resumeFrom'[c] = resumeFrom[c],
         mEos'[c] = mEos[c],
         UNCHANGED <<transfer, sent, cleared, mAddList, message, restarted>>,
         Held(c)' => Held(c),
         conn' = c => /\ at' # "add"
                      /\ at' = "retry" => mStatus[c] # "OK"
                      /\ passed' \in Nat
  PROVE  FileInv(c)'
<1>1. WillAdd(c)' => WillAdd(c)
  BY DEF WillAdd
<1>2. FileAround(c)' /\ GoesOnAtTheEnd(c)'
  BY <1>1 DEF FileInv, FileAround, GoesOnAtTheEnd, BufferEnd
<1>3. RestartsWhenOver(c)'
  BY <1>1 DEF FileInv, RestartsWhenOver, WillAdd, Settled
<1>4. EndsAtTheEnd(c)'
  BY DEF FileInv, EndsAtTheEnd, BufferEnd
<1> QED
  BY <1>2, <1>3, <1>4 DEF FileInv

\* A connection is made, for a transfer that starts where its reader is.
LEMMA NewConnectionHoldsTheFile ==
  ASSUME ManagerArrays, InPlace, ManagerArrays', NEW c \in Connections,
         FileInv(c),
         NEW d \in unused, NEW offset \in Nat, NewConnection(d, offset),
         passed' = 0, mAddList' = mAddList \ {mConnection} \/ mAddList' = mAddList,
         mConnection' \in {mConnection, d},
         UNCHANGED <<mBuffer, mStatus, mEos, transfer, sent, cleared, message,
                     restarted>>
  PROVE  FileInv(c)'
<1>1. CASE c = d
  <2>1. mBuffer'[c] = NewRing /\ mFilePos'[c] = offset /\ offset \in Int
        /\ resumeFrom'[c] = offset
    BY <1>1 DEF InPlace, NewConnection, SetResume, ManagerArrays
  <2>2. FileAround(c)'
    BY <2>1, NewRingHolds DEF FileAround
  <2>3. BufferEnd(c)' = offset
    BY <2>1 DEF BufferEnd, NewRing
  <2>4. GoesOnAtTheEnd(c)'
    BY <1>1, <2>1, <2>3 DEF GoesOnAtTheEnd, InPlace
  <2>5. RestartsWhenOver(c)'
    BY <1>1 DEF RestartsWhenOver, InPlace, Settled, NewConnection
  <2>6. EndsAtTheEnd(c)'
    BY <1>1 DEF EndsAtTheEnd, InPlace
  <2> QED
    BY <2>2, <2>4, <2>5, <2>6 DEF FileInv
<1>2. CASE c # d
  <2>1. /\ mFilePos'[c] = mFilePos[c] /\ resumeFrom'[c] = resumeFrom[c]
        /\ conn' # c /\ (Held(c)' => Held(c))
    BY <1>2 DEF NewConnection, SetResume, ManagerArrays, Held
  <2>2. WillAdd(c)' => WillAdd(c)
    BY <2>1 DEF WillAdd
  <2>3. FileAround(c)' /\ GoesOnAtTheEnd(c)'
    BY <2>1, <2>2 DEF FileInv, FileAround, GoesOnAtTheEnd, BufferEnd
  <2>4. RestartsWhenOver(c)'
    BY <2>1, <2>2 DEF FileInv, RestartsWhenOver, WillAdd, Settled
  <2>5. EndsAtTheEnd(c)'
    BY <2>1 DEF FileInv, EndsAtTheEnd, BufferEnd
  <2> QED
    BY <2>1, <2>3, <2>4, <2>5 DEF FileInv
<1> QED
  BY <1>1, <1>2

LEMMA SeekKeepsTheFile ==
  ASSUME ManagerArrays, InPlace, NEW c \in Connections, c \notin Astray',
         FileInv(c), NEW offset \in Offsets, Seek(offset)
  PROVE  FileInv(c)'
<1> USE DEF ManagerArrays, InPlace
<1>1. FileAround(c) /\ offset \in Nat
  BY DataSourceAssumption DEF FileInv
<1>1h. Held(c)' => Held(c)
  BY CallsHoldNoMore
<1> USE <1>1h
<1>2. CASE SeekBehindTheEnd(offset)
  <2>1. c # mConnection
    BY <1>2 DEF SeekBehindTheEnd, Astray
  <2> QED
    BY <1>2, <2>1, OthersKeepTheFile
    DEF SeekBehindTheEnd, SetResume, lists, thread, call, FileInv,
        RestartsWhenOver
<1>3. CASE ShortSeek(offset)
  <2>1. CASE c # mConnection
    BY <1>3, <2>1, OthersKeepTheFile
    DEF ShortSeek, SeekStarts, lists, thread, curl, call, FileInv
  <2>2. CASE c = mConnection
    BY <1>1, <1>3, <2>2, ReaderKeepsTheFile
    DEF ShortSeek, SeekStarts, lists, thread, curl, call, FileInv, FileAround
  <2> QED
    BY <2>1, <2>2
<1>4. CASE ShortSeekWaits(offset)
  <2>1. CASE c # mConnection
    BY <1>4, <2>1, OthersKeepTheFile
    DEF ShortSeekWaits, SeekStarts, lists, thread, curl
  <2>2. CASE c = mConnection
    <3> DEFINE n == mBuffer[c].mFillCount
    <3>1. n \in Nat
      BY <1>1 DEF FileAround, Ring
    <3>2. /\ mBuffer'[c] = SkipBytes(mBuffer[c], n)
          /\ mFilePos'[c] = mFilePos[c] + n /\ passed' = n
          /\ UNCHANGED <<transfer, sent, cleared, resumeFrom, mStatus, mAddList,
                         message, mEos, restarted>>
          /\ at' = "fill"
      BY <1>4, <2>2 DEF ShortSeekWaits, ReadableSize, lists, thread, curl
    <3>3. CASE n = 0
      <4>1. mBuffer'[c] = mBuffer[c]
        BY <3>2, <3>3 DEF SkipBytes, CanSkip
      <4> QED
        BY <3>1, <3>2, <3>3, <4>1, ReaderKeepsTheFile
    <3>4. CASE n # 0
      <4>1. CanSkip(mBuffer[c], n)
        BY <3>1, <3>4 DEF CanSkip
      <4> QED
        BY <3>1, <3>2, <4>1, ReaderKeepsTheFile
    <3> QED
      BY <3>3, <3>4
  <2> QED
    BY <2>1, <2>2
<1>5. CASE ShortSeekFails(offset)
  BY <1>5, OthersKeepTheFile
  DEF ShortSeekFails, SeekStarts, managerVars, connection, lists, thread, curl
<1> QED
  BY <1>2, <1>3, <1>4, <1>5 DEF Seek

LEMMA FillKeepsTheFile ==
  ASSUME ManagerArrays, InPlace, NEW c \in Connections, c \notin Astray',
         FileInv(c), FillBuffer
  PROVE  FileInv(c)'
<1> USE DEF ManagerArrays, InPlace
<1>1h. Held(c)' => Held(c)
  BY CallsHoldNoMore
<1> USE <1>1h
<1>1. CASE FillLook \/ FillStatus
  BY <1>1, OthersKeepTheFile
  DEF FillLook, FillStatus, FillReturns, FileInv, managerVars, connection,
      lists, thread, curl, Codes
<1>2. CASE Unpause \/ Resume
  BY <1>2, OthersKeepTheFile
  DEF Unpause, Resume, ResumeConnection, FileInv, connection, lists, thread,
      curl, call
<1>3. CASE Retry
  <2>1. CASE c # conn
    BY <1>3, <2>1, OthersKeepTheFile
    DEF Retry, Reset, FileInv, lists, thread, curl, call
  <2>2. CASE c = conn
    <3>1. FileAround(c) /\ Settled(c) /\ ~WillAdd(c)
      BY <1>3, <2>2 DEF Retry, FileInv, RestartsWhenOver
    <3>2. /\ mBuffer'[c] = Clear(mBuffer[c]) /\ mStatus'[c] = "OK"
          /\ ~mEos'[c]
          /\ resumeFrom'[c] = mFilePos[c] /\ mFilePos' = mFilePos
          /\ at' = "add"
          /\ UNCHANGED <<transfer, sent, cleared, mAddList, message, conn,
                         passed>>
      BY <1>3, <2>2 DEF Retry, Reset, lists, thread, curl, call
    <3>3. FileAround(c)' /\ BufferEnd(c)' = mFilePos[c]
      BY <3>1, <3>2, ClearHolds DEF FileAround, BufferEnd, Clear, NewRing
    <3>4. GoesOnAtTheEnd(c)' /\ RestartsWhenOver(c)'
      BY <3>1, <3>2, <3>3
      DEF GoesOnAtTheEnd, RestartsWhenOver, Settled, WillAdd, Codes
    <3>5. EndsAtTheEnd(c)'
      BY <3>1, <3>2 DEF EndsAtTheEnd, Settled
    <3> QED
      BY <3>2, <3>3, <3>4, <3>5 DEF FileInv
  <2> QED
    BY <2>1, <2>2
<1>4. CASE GiveUp
  <2>1. CASE c # conn
    BY <1>4, <2>1, OthersKeepTheFile
    DEF GiveUp, Reset, FillReturns, FileInv, lists, thread, curl
  <2>2. CASE c = conn
    <3>1. FileAround(c) /\ Settled(c) /\ ~WillAdd(c)
      BY <1>4, <2>2 DEF GiveUp, FileInv, RestartsWhenOver
    <3>2. /\ mBuffer'[c] = Clear(mBuffer[c]) /\ mStatus'[c] = "OK"
          /\ ~mEos'[c]
          /\ mFilePos'[c] = 0 /\ at' = then
          /\ UNCHANGED <<transfer, sent, cleared, mAddList, message, conn,
                         passed>>
      BY <1>4, <2>2 DEF GiveUp, Reset, FillReturns, lists, thread, curl
    <3>3. FileAround(c)'
      BY <3>1, <3>2, ClearHolds DEF FileAround
    <3>4. GoesOnAtTheEnd(c)' /\ RestartsWhenOver(c)'
      BY <3>1, <3>2, <3>3
      DEF GoesOnAtTheEnd, RestartsWhenOver, Settled, WillAdd, Codes
    <3>5. EndsAtTheEnd(c)'
      BY <3>1, <3>2 DEF EndsAtTheEnd, Settled
    <3> QED
      BY <3>2, <3>3, <3>4, <3>5 DEF FileInv
  <2> QED
    BY <2>1, <2>2
<1> QED
  BY <1>1, <1>2, <1>3, <1>4 DEF FillBuffer

LEMMA ClientKeepsTheFile ==
  ASSUME ManagerArrays, InPlace, ManagerArrays', NEW c \in Connections,
         c \notin Astray', FileInv(c), Client
  PROVE  FileInv(c)'
<1> USE DEF ManagerArrays, InPlace
<1>1. FileAround(c)
  BY DEF FileInv
<1>2. CASE Open
  BY <1>2, NewConnectionHoldsTheFile
  DEF Open, NewConnection, lists, thread, curl
<1>3. CASE Reconnect
  <2>1. PICK d \in unused : NewConnection(d, arg)
    BY <1>3 DEF Reconnect
  <2>2. /\ passed' = 0 /\ mAddList' = mAddList \ {mConnection}
        /\ UNCHANGED <<mConnection, mBuffer, mStatus, mEos, transfer, sent,
                       cleared, message, restarted>>
    BY <1>3 DEF Reconnect, RemoveConnection, thread, curl
  <2> QED
    BY <2>1, <2>2, NewConnectionHoldsTheFile
<1>4. CASE \E size \in Sizes : Read(size)
  BY <1>4, OthersKeepTheFile, CallsHoldNoMore
  DEF Read, managerVars, connection, lists, thread, curl
<1>5. CASE \E offset \in Offsets : Seek(offset)
  BY <1>5, SeekKeepsTheFile
<1>6. CASE AddToManager
  <2>1. /\ UNCHANGED <<mBuffer, mFilePos, mStatus, mEos, resumeFrom, transfer, sent,
                       cleared, message, restarted, conn, passed>>
        /\ at = "add" /\ at' = "running" /\ mAddList' = mAddList \cup {conn}
    BY <1>6 DEF AddToManager, AddConnection, connection, curl, call
  <2>2. WillAdd(c)' = WillAdd(c)
    BY <2>1 DEF WillAdd
  <2>3. /\ FileAround(c)' /\ GoesOnAtTheEnd(c)' /\ RestartsWhenOver(c)'
        /\ EndsAtTheEnd(c)'
    BY <1>6, <2>1, <2>2, CallsHoldNoMore
    DEF FileInv, FileAround, GoesOnAtTheEnd, BufferEnd, RestartsWhenOver,
        EndsAtTheEnd, Settled
  <2> QED
    BY <2>1, <2>3 DEF FileInv
<1>7. CASE SetRunning
  BY <1>7, OthersKeepTheFile, CallsHoldNoMore
  DEF SetRunning, FileInv, lists, thread, curl, call
<1>8. CASE FillBuffer
  BY <1>8, FillKeepsTheFile
<1>9. CASE Opened \/ ReadFails
  BY <1>9, OthersKeepTheFile, CallsHoldNoMore
  DEF Opened, ReadFails, Returns, managerVars, connection, lists, thread, curl
<1>10. CASE Reconnected
  <2>1. /\ UNCHANGED <<mStatus, mEos, resumeFrom, transfer, sent, cleared, message,
                       mAddList, restarted>>
        /\ at' = "out" /\ passed' = 0
    BY <1>10 DEF Reconnected, Returns, lists, thread, curl
  <2>2. CASE mBuffer'[c] = mBuffer[c] /\ mFilePos'[c] = mFilePos[c]
    BY <1>10, <2>1, <2>2, OthersKeepTheFile, CallsHoldNoMore
  <2>3. CASE ~(mBuffer'[c] = mBuffer[c] /\ mFilePos'[c] = mFilePos[c])
    <3>1. /\ c \in cleared /\ mBuffer'[c] = NewRing /\ mFilePos'[c] = 0
          /\ c = mConnection /\ mConnection' # c /\ conn' = None
      BY <1>10, <2>3 DEF Reconnected, Forgets, Returns
    <3>2. FileAround(c)' /\ ~Held(c)'
      BY <2>1, <3>1, NewRingHolds, DataSourceAssumption DEF FileAround, Held
    <3>4. GoesOnAtTheEnd(c)' /\ EndsAtTheEnd(c)'
      BY <3>2 DEF GoesOnAtTheEnd, EndsAtTheEnd
    <3>3. RestartsWhenOver(c)'
      BY <2>1 DEF FileInv, RestartsWhenOver, Settled, WillAdd
    <3> QED
      BY <2>1, <3>2, <3>3, <3>4 DEF FileInv
  <2> QED
    BY <2>2, <2>3
<1>11. CASE ReadBuffer
  <2>1. CASE c # conn
    BY <1>11, <2>1, OthersKeepTheFile, CallsHoldNoMore
    DEF ReadBuffer, Returns, lists, thread, curl
  <2>2. CASE c = conn
    <3>1. /\ Taken \in Nat /\ Taken <= mBuffer[c].mFillCount
      BY <1>1, <2>2 DEF Taken, Least, ReadableSize, FileAround, Ring
    <3> QED
      BY <1>11, <2>2, <3>1, ReaderKeepsTheFile, CallsHoldNoMore
      DEF ReadBuffer, Returns, lists, thread, curl
  <2> QED
    BY <2>1, <2>2
<1>12. CASE ShortSeekEnds
  <2>1. CASE c # conn
    BY <1>12, <2>1, OthersKeepTheFile, CallsHoldNoMore
    DEF ShortSeekEnds, Returns, lists, thread, curl, call
  <2>2. CASE c = conn
    <3>1h. Held(c)' => Held(c)
      BY <1>12, CallsHoldNoMore
    <3> USE <3>1h
    <3> DEFINE delta == arg - mFilePos[c]
               arrives == ret = 0 /\ CanSkip(mBuffer[c], delta)
    <3>1. delta \in Int /\ passed \in Nat /\ -passed \in Int
      BY <1>1, <2>2 DEF FileInv, FileAround
    <3>2. /\ UNCHANGED <<transfer, sent, cleared, resumeFrom, mStatus, mAddList,
                         message, mEos, restarted>>
          /\ at' \notin {"add", "retry"} /\ passed' \in Nat
      BY <1>12, <3>1 DEF ShortSeekEnds, Returns, lists, thread, curl, call
    <3>3. CASE arrives
      <4>1. /\ mBuffer'[c] = SkipBytes(mBuffer[c], delta)
            /\ mFilePos'[c] = arg
        BY <1>12, <2>2, <3>3 DEF ShortSeekEnds
      <4>2. mFilePos'[c] = mFilePos[c] + delta
        BY <1>1, <4>1 DEF FileAround
      <4> QED
        BY <3>1, <3>2, <3>3, <4>1, <4>2, ReaderKeepsTheFile
    <3>4. CASE ~arrives /\ CanSkip(mBuffer[c], -passed)
      <4>1. /\ mBuffer'[c] = SkipBytes(mBuffer[c], -passed)
            /\ mFilePos'[c] = mFilePos[c] - passed
        BY <1>12, <2>2, <3>4 DEF ShortSeekEnds
      <4>2. mFilePos'[c] = mFilePos[c] + (-passed)
        BY <1>1, <3>1, <4>1 DEF FileAround
      <4> QED
        BY <3>1, <3>2, <3>4, <4>1, <4>2, ReaderKeepsTheFile
    <3>5. CASE ~arrives /\ ~CanSkip(mBuffer[c], -passed)
      <4>1. /\ mBuffer'[c] = mBuffer[c]
            /\ \/ mFilePos'[c] = mFilePos[c]
               \/ passed = 0 /\ mFilePos'[c] = mFilePos[c] - passed
        BY <1>12, <2>2, <3>5 DEF ShortSeekEnds, SkipBytes
      <4>2. mFilePos'[c] = mFilePos[c] + 0
        BY <1>1, <4>1 DEF FileAround
      <4> QED
        BY <3>2, <4>1, <4>2, ReaderKeepsTheFile
    <3> QED
      BY <3>3, <3>4, <3>5
  <2> QED
    BY <2>1, <2>2
<1> QED
  BY <1>2, <1>3, <1>4, <1>5, <1>6, <1>7, <1>8, <1>9, <1>10, <1>11, <1>12
  DEF Client, InsideCall

-----------------------------------------------------------------------------
LEMMA CurlInvInit ==
  ASSUME Init
  PROVE  CurlInv
<1>1. ManagerArrays /\ InPlace
  BY DEF Init, ManagerInit, ManagerArrays, InPlace, Codes
<1>2. ASSUME NEW c \in Connections
      PROVE  FileInv(c)
  BY NewRingHolds
  DEF Init, ManagerInit, FileInv, FileAround, GoesOnAtTheEnd, RestartsWhenOver,
      EndsAtTheEnd, WillAdd, Settled
<1> QED
  BY <1>1, <1>2 DEF CurlInv

LEMMA CurlInvStep ==
  ASSUME CurlInv, OneIsOver, [Next]_vars
  PROVE  CurlInv'
<1>1. ManagerArrays /\ InPlace
  BY DEF CurlInv
<1>2. Astray \subseteq Astray'
  BY DEF Astray, Next, Client, InsideCall, Manager, Loop, ApplyAdd, ApplyResume,
     TakeRemoveList, RemoveHandles, PerformReturns, InfoRead, InfoRemove,
     LoopReturns, Perform, WriteCallback, XferInfo, TransferEnds, Open, Read,
     Seek, SeekBehindTheEnd, ShortSeek, ShortSeekWaits, ShortSeekFails,
     AddToManager, SetRunning, FillBuffer, FillLook, Unpause, Resume,
     FillStatus, Retry, GiveUp, Opened, Reconnected, ReadBuffer, ReadFails,
     ShortSeekEnds, Reconnect, managerVars, curl, history, vars
<1>3. CASE Client
  <2>1. ManagerArrays' /\ InPlace'
    BY <1>1, <1>3, ClientKeepsArrays, ClientKeepsPlaces
  <2>2. ASSUME NEW c \in Connections \ Astray'
        PROVE  FileInv(c)'
    BY <1>1, <1>2, <1>3, <2>1, ClientKeepsTheFile DEF CurlInv
  <2> QED
    BY <2>1, <2>2 DEF CurlInv
<1>4. CASE Manager
  <2>1. ManagerArrays' /\ InPlace'
    BY <1>1, <1>4, LoopKeepsArrays, PerformKeepsArrays, LoopKeepsPlaces
    DEF Manager
  <2>2. ASSUME NEW c \in Connections \ Astray'
        PROVE  FileInv(c)'
    BY <1>1, <1>2, <1>4, PerformKeepsTheFile, LoopKeepsTheFile
    DEF CurlInv, Manager
  <2> QED
    BY <2>1, <2>2 DEF CurlInv
<1>5. CASE UNCHANGED vars
  BY <1>5
  DEF CurlInv, ManagerArrays, InPlace, Astray, FileInv, FileAround,
      GoesOnAtTheEnd, RestartsWhenOver, EndsAtTheEnd, WillAdd, Settled, BufferEnd,
      Held, vars,
      managerVars, connection, lists, thread, curl, call, history
<1> QED
  BY <1>3, <1>4, <1>5 DEF Next

LEMMA OneOverAlways == Spec => []OneIsOver
<1>1. Init => OneIsOver
  BY DEF Init, ManagerInit, OneIsOver
<1>2. TypeInv /\ OwnersInv /\ OneIsOver /\ [Next]_vars => OneIsOver'
  <2> SUFFICES ASSUME TypeInv, OwnersInv, OneIsOver, [Next]_vars
               PROVE  OneIsOver'
    OBVIOUS
  <2>1. CASE UNCHANGED vars
    BY <2>1 DEF OneIsOver, Over, Destroyed, vars, managerVars, lists, thread,
       curl
  <2> QED
    BY <2>1, ManagerKeepsOneOver, ClientKeepsOneOver DEF Next
<1> QED
  BY <1>1, <1>2, TypesAlways, OwnersAlways, PTL DEF Spec

LEMMA CurlInvAlways == Spec => []CurlInv
<1>1. Init => CurlInv
  BY CurlInvInit
<1>2. CurlInv /\ OneIsOver /\ [Next]_vars => CurlInv'
  BY CurlInvStep
<1> QED
  BY <1>1, <1>2, OneOverAlways, PTL DEF Spec

(***************************************************************************)
(* Whatever the order of the callbacks, the reads, the steps back, the     *)
(* errors and the restarts: a buffer holds the file around its reader's    *)
(* position, and its transfer goes on where the buffer ends.               *)
(***************************************************************************)
THEOREM BuffersKeepTheFile == Spec => []BuffersHoldTheFile
<1>1. CurlInv => BuffersHoldTheFile
  BY DEF CurlInv, BuffersHoldTheFile, FileInv, FileAround, GoesOnAtTheEnd,
     BufferEnd, Held
<1> QED
  BY <1>1, CurlInvAlways, PTL

-----------------------------------------------------------------------------
(***************************************************************************)
(* What a read returns.  The size of a file is returned as an int: of one  *)
(* whose length is no int, read() believes to be at the end before it is,  *)
(* so that a read of nothing is the end of the file is stated of a file    *)
(* whose length is.                                                        *)
(***************************************************************************)
AsksForSome ==
  /\ at = "read" => then = "read"
  /\ at \in FillPlaces \cup {"read"} /\ then = "read" => arg \in Nat \ {0}

AtTheEnd(c) == mFilePos[c] >= FileLen

SomeOrTheEnd ==
  at = "read" /\ ret = 0 /\ conn \notin Astray /\ restarted = {} =>
    mBuffer[conn].mFillCount > 0 \/ AtTheEnd(conn)

ReadInv == AsksForSome /\ SomeOrTheEnd

LEMMA LengthIsAnInt ==
  ASSUME FileLen <= IntMax
  PROVE  AsInt(FileLen) = FileLen
<1> USE ManagerAssumption, DataSourceAssumption
<1>1. /\ FileLen + IntMax + 1 \in 0 .. 2 * (IntMax + 1) - 1
      /\ 2 * (IntMax + 1) \in Nat \ {0}
  OBVIOUS
<1>2. (FileLen + IntMax + 1) % (2 * (IntMax + 1)) = FileLen + IntMax + 1
  BY <1>1
<1> QED
  BY <1>2 DEF AsInt

LEMMA ManagerKeepsReads ==
  ASSUME TypeInv, ReadInv, Manager
  PROVE  ReadInv'
<1>1. /\ UNCHANGED <<at, then, arg, ret, conn, mFilePos>>
      /\ Astray \subseteq Astray' /\ (restarted' = {} => restarted = {})
  BY DEF Manager, call, history, Astray, Loop, ApplyAdd, ApplyResume,
     TakeRemoveList, RemoveHandles, PerformReturns, InfoRead, InfoRemove,
     LoopReturns, Perform, WriteCallback, XferInfo, TransferEnds, connection,
     curl
<1>2. ASSUME NEW c \in Connections, mBuffer[c].mFillCount > 0
      PROVE  mBuffer'[c].mFillCount > 0
  <2>1. CASE mBuffer'[c] = mBuffer[c]
    BY <1>2, <2>1
  <2>2. CASE mBuffer'[c] # mBuffer[c]
    <3>1. PICK n \in 1 .. CURL_READ_BUFFER_SIZE :
            mBuffer'[c] = WriteData(mBuffer[c], sent[c], n)
      BY <2>2 DEF Manager, Loop, ApplyAdd, ApplyResume, TakeRemoveList,
         RemoveHandles, PerformReturns, InfoRead, InfoRemove, LoopReturns,
         Perform, WriteCallback, XferInfo, TransferEnds, connection, TypeInv,
         TypeOK, ManagerTypeOK
    <3>2. mBuffer[c] \in Ring /\ n \in Nat /\ mBuffer[c].mFillCount \in Nat
      BY ManagerAssumption DEF TypeInv, TypeOK, ManagerTypeOK, Ring
    <3>3. mBuffer'[c].mFillCount = mBuffer[c].mFillCount
          \/ mBuffer'[c].mFillCount = mBuffer[c].mFillCount + n
      BY <3>1, <3>2 DEF WriteData, Ring
    <3> QED
      BY <1>2, <3>2, <3>3
  <2> QED
    BY <2>1, <2>2
<1>3. at = "read" => conn \in Connections
  BY DEF TypeInv, CallPlaces
<1> QED
  BY <1>1, <1>2, <1>3 DEF ReadInv, AsksForSome, SomeOrTheEnd, AtTheEnd

LEMMA FillEndsWithSome ==
  ASSUME TypeInv, CurlInv, FillBuffer, at' = "read", ret' = 0,
         conn' \notin Astray', restarted' = {}
  PROVE  mBuffer'[conn'].mFillCount > 0 \/ AtTheEnd(conn)'
<1>1. at \in FillPlaces
  BY DEF FillBuffer, FillLook, Unpause, Resume, FillStatus, Retry, GiveUp, FillPlaces
<1>1c. conn \in Connections /\ want \in Nat \ {0}
  BY <1>1, DataSourceAssumption DEF FillPlaces, TypeInv, TypeOK, CallPlaces
<1>1f. Fits(mBuffer[conn])
  BY <1>1c DEF TypeInv
<1>1n. /\ mBuffer[conn].mFillCount \in Nat /\ mBuffer[conn].mBackCount \in Nat
       /\ mBuffer[conn].mBackCount <= mBackSize
  BY <1>1f DEF Fits, Ring
<1>2. CASE FillLook
  <2>1. UNCHANGED <<mBuffer, mFilePos, conn, restarted, strayed>>
        /\ (Filled \/ mEos[conn])
    BY <1>2 DEF FillLook, managerVars, connection, curl, history
  <2>2. CASE Filled
    <3>1. mBuffer[conn].mFillCount > 0
      BY <1>1c, <1>1n, <2>2, RingBufferAssumption, ManagerAssumption
      DEF Filled, ReadableSize, WriteableSize
    <3> QED
      BY <2>1, <3>1
  <2>3. CASE mEos[conn]
    <3>1. FileInv(conn) /\ Held(conn) /\ restarted = {}
      BY <1>1c, <2>1 DEF CurlInv, Astray, Held
    <3>2. BufferEnd(conn) >= FileLen /\ mFilePos[conn] \in Int
      BY <2>3, <3>1 DEF FileInv, EndsAtTheEnd, FileAround
    <3>3. mBuffer[conn].mFillCount > 0 \/ AtTheEnd(conn)
      BY <1>1n, <3>2, ManagerAssumption DEF BufferEnd, AtTheEnd
    <3> QED
      BY <2>1, <3>3 DEF AtTheEnd
  <2> QED
    BY <2>1, <2>2, <2>3
<1>3. CASE FillStatus
  <2>1. mBuffer' = mBuffer /\ conn' = conn
    BY <1>3 DEF FillStatus, managerVars, connection
  <2>2. ret' = IF ReadableSize(mBuffer[conn]) > 0 THEN 0 ELSE -1
    <3>1. mStatus[conn] \in Codes
      BY <1>1c DEF TypeInv, TypeOK, ManagerTypeOK
    <3>2. at' # "fill" /\ at' # "retry"
      OBVIOUS
    <3> QED
      BY <1>3, <3>1, <3>2 DEF FillStatus, FillReturns, Codes
  <2> QED
    BY <2>1, <2>2 DEF ReadableSize
<1>4. ~(Unpause \/ Resume \/ Retry \/ GiveUp)
  BY DEF Unpause, Resume, Retry, GiveUp, FillReturns
<1> QED
  BY <1>2, <1>3, <1>4 DEF FillBuffer

LEMMA ClientKeepsReads ==
  ASSUME FileLen <= IntMax, TypeInv, CurlInv, ReadInv, Client
  PROVE  ReadInv'
<1> USE DataSourceAssumption
<1>1. CASE \E size \in Sizes : Read(size)
  <2>1. PICK size \in Sizes : Read(size)
    BY <1>1
  <2>2. AsksForSome'
    BY <2>1 DEF Read, AsksForSome
  <2>3. at' = "read" => mFilePos'[conn'] >= mFileSize /\ mFileSize > 0
    BY <2>1, ManagerAssumption
    DEF Read, managerVars, connection, TypeInv, TypeOK, ManagerTypeOK, AsInt
  <2>4. mFileSize \in {-1, FileLen}
    BY LengthIsAnInt DEF TypeInv, TypeOK
  <2> QED
    BY <2>2, <2>3, <2>4 DEF ReadInv, SomeOrTheEnd, AtTheEnd
<1>2. CASE FillBuffer
  <2>1. /\ then' = then /\ arg' = arg
        /\ at \in FillPlaces /\ at' \in FillPlaces \cup {then}
    <3> USE DEF managerVars, call, FillPlaces
    <3>1. CASE FillLook
      BY <3>1 DEF FillLook, FillReturns
    <3>2. CASE Unpause \/ Resume
      BY <3>2 DEF Unpause, Resume
    <3>3. CASE FillStatus
      BY <3>3 DEF FillStatus, FillReturns, Codes, TypeInv, TypeOK, ManagerTypeOK,
         CallPlaces
    <3>4. CASE Retry \/ GiveUp
      BY <3>4 DEF Retry, GiveUp, FillReturns
    <3> QED
      BY <1>2, <3>1, <3>2, <3>3, <3>4 DEF FillBuffer
  <2>2. AsksForSome'
    BY <2>1 DEF ReadInv, AsksForSome, FillPlaces
  <2>3. SomeOrTheEnd'
    <3> SUFFICES ASSUME at' = "read", ret' = 0, conn' \notin Astray',
                        restarted' = {}
                 PROVE  mBuffer'[conn'].mFillCount > 0 \/ AtTheEnd(conn)'
      BY DEF SomeOrTheEnd
    <3> QED
      BY <1>2, FillEndsWithSome
  <2> QED
    BY <2>2, <2>3 DEF ReadInv
<1>3. CASE ~((\E size \in Sizes : Read(size)) \/ FillBuffer)
  <2>1. /\ at' # "read"
        /\ \/ at' \in FillPlaces /\ then' = "connect"
           \/ at' \in FillPlaces /\ then' = "short"
           \/ at' \in FillPlaces /\ at \in FillPlaces /\ then' = then /\ arg' = arg
           \/ at' \notin FillPlaces
    <3> USE DEF managerVars, call, FillPlaces, Returns
    <3>1. CASE Open \/ Reconnect
      BY <3>1 DEF Open, Reconnect, NewConnection
    <3>2. CASE \E offset \in Offsets : Seek(offset)
      BY <3>2 DEF Seek, SeekBehindTheEnd, ShortSeek, ShortSeekWaits,
         ShortSeekFails, SeekStarts
    <3>3. CASE AddToManager \/ SetRunning
      BY <3>3 DEF AddToManager, SetRunning
    <3>4. CASE Opened \/ Reconnected \/ ReadBuffer \/ ReadFails
      BY <3>4 DEF Opened, Reconnected, ReadBuffer, ReadFails
    <3>5. CASE ShortSeekEnds
      BY <3>5 DEF ShortSeekEnds
    <3> QED
      BY <1>3, <3>1, <3>2, <3>3, <3>4, <3>5 DEF Client, InsideCall
  <2> QED
    BY <2>1 DEF ReadInv, AsksForSome, SomeOrTheEnd, FillPlaces
<1> QED
  BY <1>1, <1>2, <1>3

(***************************************************************************)
(* What a read returns is the file at the reader's position, and it        *)
(* returns nothing only at the end of the file, of every file whose length *)
(* is an int.                                                              *)
(***************************************************************************)
THEOREM ReadsReturnTheFile == FileLen <= IntMax => (Spec => []ReadsTheFile)
<1> SUFFICES ASSUME FileLen <= IntMax
             PROVE  Spec => []ReadsTheFile
  OBVIOUS
<1>1. Init => ReadInv
  BY DEF Init, ReadInv, AsksForSome, SomeOrTheEnd, FillPlaces
<1>2. TypeInv /\ CurlInv /\ ReadInv /\ [Next]_vars => ReadInv'
  <2> SUFFICES ASSUME TypeInv, CurlInv, ReadInv, [Next]_vars
               PROVE  ReadInv'
    OBVIOUS
  <2>1. CASE UNCHANGED vars
    BY <2>1
    DEF ReadInv, AsksForSome, SomeOrTheEnd, AtTheEnd, Astray, vars, managerVars,
        connection, curl, call, history
  <2> QED
    BY <2>1, ManagerKeepsReads, ClientKeepsReads DEF Next
<1>3. TypeInv /\ CurlInv /\ ReadInv => ReadsTheFile
  <2> SUFFICES ASSUME TypeInv, CurlInv, ReadInv, at = "read", ret = 0,
                      conn \notin Astray
               PROVE  /\ \A i \in 0 .. Taken - 1 :
                           Output(mBuffer[conn], Taken)[i] = mFilePos[conn] + i
                      /\ Taken = 0 /\ restarted = {} => mFilePos[conn] >= FileLen
    BY DEF ReadsTheFile
  <2>1. conn \in Connections /\ FileAround(conn) /\ arg \in Nat \ {0}
    BY DEF TypeInv, CallPlaces, CurlInv, FileInv, ReadInv, AsksForSome
  <2>2. mBuffer[conn].mFillCount \in Nat
    BY <2>1 DEF FileAround, Ring
  <2>3. /\ Taken \in Nat /\ Taken <= mBuffer[conn].mFillCount
        /\ Taken = 0 => mBuffer[conn].mFillCount = 0
    BY <2>1, <2>2 DEF Taken, Least, ReadableSize
  <2>4. Output(mBuffer[conn], Taken) = [i \in 0 .. Taken - 1 |-> mFilePos[conn] + i]
    BY <2>1, <2>3, OutputIsTheStream DEF FileAround
  <2>5. Taken = 0 /\ restarted = {} => mFilePos[conn] >= FileLen
    BY <2>2, <2>3 DEF ReadInv, SomeOrTheEnd, AtTheEnd
  <2> QED
    BY <2>4, <2>5
<1> QED
  BY <1>1, <1>2, <1>3, TypesAlways, CurlInvAlways, PTL DEF Spec
=============================================================================
