--------------------------- MODULE CurlDataSource ---------------------------
(***************************************************************************)
(* A data source over HTTP: one thread, the demuxer's, opens, reads and    *)
(* seeks (framework/data_source/curl/CurlDataSource.cpp) through a         *)
(* connection (CurlConnection.cpp) whose transfer the manager's thread     *)
(* runs.  A call is cut where it takes or releases a lock, and between two *)
(* looks at what the manager's thread writes.                              *)
(*                                                                         *)
(* Left out: the range and the interrupt flag, which nothing sets; the     *)
(* listener, which is null; mNeedReconnect, which is never true.           *)
(***************************************************************************)
EXTENDS CurlConnectionManager, Sequences

CONSTANTS
  Sizes,            \* how many bytes a read may ask for
  Offsets,          \* the positions a seek may ask for
  ShortBufferSize,  \* shortBufferSize of shortSeek
  IntMax            \* the largest int

None == "none"

ASSUME DataSourceAssumption ==
  /\ None \notin Connections
  /\ Sizes \subseteq Nat \ {0}
  /\ Offsets \subseteq Nat
  /\ ShortBufferSize \in Nat \ {0}
  /\ IntMax \in Nat
  /\ mBackSize + ShortBufferSize + CURL_READ_BUFFER_SIZE <= mSize

\* The int that an int64_t is cut to.
AsInt(n) == ((n + IntMax + 1) % (2 * (IntMax + 1))) - (IntMax + 1)

VARIABLES
  mConnection,   \* the connection read from, or None
  mFileSize,     \* as open() learned it, -1: unknown
  at,            \* where the calling thread is
  conn,          \* the connection its call is about
  want,          \* what fillBuffer waits for
  then,          \* what fillBuffer returns to
  ret,           \* what it returned
  arg,           \* the size of the read or the offset of the seek
  passed,        \* the bytes a short seek passed before it waits
  unused,        \* connections not made yet
  strayed,       \* setResume() moved mFilePos and not the buffer
  ended          \* connections closed, or given up by fillBuffer

call == <<conn, want, then, ret, arg, passed>>
history == <<unused, strayed, ended>>
vars == <<managerVars, mConnection, mFileSize, at, call, history>>

FillPlaces == {"add", "running", "fill", "unpause", "resume", "status", "retry"}

TypeOK ==
  /\ ManagerTypeOK
  /\ mConnection \in Connections \cup {None}
  /\ mFileSize \in {-1, AsInt(FileLen)}
  /\ at \in {"out", "connect", "read", "short", "reconnect"} \cup FillPlaces
  /\ conn \in Connections \cup {None}
  /\ want \in {1, ShortBufferSize}
  /\ then \in {"connect", "read", "short"}
  /\ ret \in {0, -1}
  /\ arg \in Nat /\ passed \in Nat
  /\ {unused, strayed, ended} \subseteq SUBSET Connections

Init ==
  /\ ManagerInit
  /\ mConnection = None /\ mFileSize = -1
  /\ at = "out" /\ conn = None
  /\ want = 1 /\ then = "read" /\ ret = 0 /\ arg = 0 /\ passed = 0
  /\ unused = Connections /\ strayed = {} /\ ended = {}

InCall == Alive /\ at # "out"

\* A call returns; what it kept on its stack is gone.
Returns ==
  /\ at' = "out" /\ conn' = None
  /\ want' = 1 /\ then' = "read" /\ ret' = 0 /\ arg' = 0 /\ passed' = 0

\* The connections the data source holds on to.
HoldsOn(kept) == referenced' = kept

-----------------------------------------------------------------------------
\* The position is the reader's next one and the transfer's first one.
SetResume(c, pos) ==
  /\ mFilePos' = [mFilePos EXCEPT ![c] = pos]
  /\ resumeFrom' = [resumeFrom EXCEPT ![c] = pos]

(***************************************************************************)
(* initConnection, setResume and startConnect, up to addToManager.         *)
(***************************************************************************)
NewConnection(c, offset) ==
  /\ unused # {} /\ c = CHOOSE d \in unused : TRUE
  /\ unused' = unused \ {c}
  /\ conn' = c
  /\ SetResume(c, offset)
  /\ at' = "add" /\ want' = 1 /\ then' = "connect"

Open ==
  /\ Alive /\ at = "out"
  /\ mConnection = None
  /\ \E c \in unused :
       /\ NewConnection(c, 0)
       /\ mConnection' = c
       /\ HoldsOn({c})
  /\ UNCHANGED <<mBuffer, mPaused, mEos, mStatus, mStillRunning, cleared,
                 locked, lists, thread, curl, fault, mFileSize, ret, arg,
                 passed, strayed, ended>>

AddToManager ==
  /\ Alive /\ at = "add" /\ at' = "running"
  /\ AddConnection(conn)
  /\ UNCHANGED <<connection, resumeFrom, cleared, locked, referenced, tempList,
                 eofSeen, message, curl, fault, mConnection, mFileSize, call,
                 history>>

SetRunning ==
  /\ Alive /\ at = "running" /\ at' = "fill"
  /\ mStillRunning' = [mStillRunning EXCEPT ![conn] = TRUE]
  /\ UNCHANGED <<mBuffer, mFilePos, mPaused, mEos, mStatus, resumeFrom,
                 cleared, locked, referenced, lists, thread, curl, fault,
                 mConnection, mFileSize, call, history>>

-----------------------------------------------------------------------------
(***************************************************************************)
(* fillBuffer: waits until the buffer has what is wanted or is full.       *)
(***************************************************************************)
FillReturns(value) ==
  /\ at' = then
  /\ ret' = value

Filled ==
  \/ ReadableSize(mBuffer[conn]) >= want
  \/ WriteableSize(mBuffer[conn]) = 0

Continues == mPaused[conn] /\ WriteableSize(mBuffer[conn]) > CURL_READ_BUFFER_SIZE

FillLook ==
  /\ Alive /\ at = "fill"
  /\ IF Filled \/ mEos[conn]
     THEN FillReturns(0)
     ELSE /\ at' = IF Continues THEN "unpause" ELSE "status"
          /\ UNCHANGED ret
  /\ UNCHANGED <<managerVars, mConnection, mFileSize, conn, want, then, arg,
                 passed, history>>

Unpause ==
  /\ Alive /\ at = "unpause" /\ at' = "resume"
  /\ mPaused' = [mPaused EXCEPT ![conn] = FALSE]
  /\ UNCHANGED <<mBuffer, mFilePos, mEos, mStatus, mStillRunning, resumeFrom,
                 cleared, locked, referenced, lists, thread, curl, fault,
                 mConnection, mFileSize, call, history>>

Resume ==
  /\ Alive /\ at = "resume" /\ at' = "status"
  /\ ResumeConnection(conn)
  /\ UNCHANGED <<connection, resumeFrom, cleared, locked, referenced, thread,
                 curl, fault, mConnection, mFileSize, call, history>>

\* Mutant: an error is not reported, even if nothing is left in the buffer.
FillStatusHidesTheError ==
  /\ Alive /\ at = "status"
  /\ CASE mStatus[conn] = "OK" -> at' = "fill" /\ UNCHANGED ret
       [] mStatus[conn] = "RETRY" -> at' = "retry" /\ UNCHANGED ret
       [] mStatus[conn] = "FATAL" -> FillReturns(0)
  /\ UNCHANGED <<managerVars, mConnection, mFileSize, conn, want, then, arg,
                 passed, history>>

\* An error the connection does not retry: what is in the buffer is used up.
FillStatus ==
  /\ Alive /\ at = "status"
  /\ CASE mStatus[conn] = "OK" -> at' = "fill" /\ UNCHANGED ret
       [] mStatus[conn] = "RETRY" -> at' = "retry" /\ UNCHANGED ret
       [] mStatus[conn] = "FATAL" ->
            FillReturns(IF ReadableSize(mBuffer[conn]) > 0 THEN 0 ELSE -1)
  /\ UNCHANGED <<managerVars, mConnection, mFileSize, conn, want, then, arg,
                 passed, history>>

\* reset()
Reset ==
  /\ mBuffer' = [mBuffer EXCEPT ![conn] = Clear(@)]
  /\ mEos' = [mEos EXCEPT ![conn] = FALSE]
  /\ mStatus' = [mStatus EXCEPT ![conn] = "OK"]

\* The buffer is emptied and the transfer started again at mFilePos.
Retry ==
  /\ Alive /\ at = "retry" /\ at' = "add"
  /\ Reset
  /\ resumeFrom' = [resumeFrom EXCEPT ![conn] = mFilePos[conn]]
  /\ UNCHANGED <<mFilePos, mPaused, mStillRunning, cleared, locked, referenced,
                 lists, thread, curl, fault, mConnection, mFileSize, call,
                 history>>

\* After connectTimeoutMs.
GiveUp ==
  /\ Alive /\ at = "retry"
  /\ Reset
  /\ mFilePos' = [mFilePos EXCEPT ![conn] = 0]
  /\ FillReturns(-1)
  /\ ended' = ended \cup {conn}
  /\ UNCHANGED <<mPaused, mStillRunning, resumeFrom, cleared, locked,
                 referenced, lists, thread, curl, fault, mConnection, mFileSize,
                 conn, want, then, arg, passed, unused, strayed>>

FillBuffer ==
  FillLook \/ Unpause \/ Resume \/ FillStatus \/ Retry \/ GiveUp

-----------------------------------------------------------------------------
(***************************************************************************)
(* startConnect comes to its end in open(), or in trySeekByNewConnection.  *)
(* A server that is asked for what is behind the end answers 416.          *)
(***************************************************************************)
ResponseIsError == resumeFrom[conn] >= FileLen

StartConnectSucceeds == ret = 0 /\ ~ResponseIsError

\* The content's length added to mFilePos; no length is no size.
CalcFileSize ==
  LET length == FileLen - resumeFrom[conn]
  IN IF length > 0 THEN mFilePos[conn] + length ELSE -1

\* An int, and only as long as the transfer runs.
GetFileSize == IF mStillRunning[conn] THEN AsInt(CalcFileSize) ELSE -1

\* A connection that failed is kept.
Opened ==
  /\ Alive /\ at = "connect" /\ conn = mConnection
  /\ Returns
  /\ mFileSize' = IF StartConnectSucceeds THEN GetFileSize ELSE mFileSize
  /\ UNCHANGED <<managerVars, mConnection, history>>

\* Nobody looks at the buffer of a connection that was closed and replaced:
\* the model forgets what is in it.
Forgets(gone) ==
  /\ mBuffer' = [c \in Connections |-> IF c \in gone THEN NewRing ELSE mBuffer[c]]
  /\ mFilePos' = [c \in Connections |-> IF c \in gone THEN 0 ELSE mFilePos[c]]

Reconnected ==
  /\ Alive /\ at = "connect" /\ conn # mConnection
  /\ Returns
  /\ IF StartConnectSucceeds
     THEN /\ mConnection' = conn
          /\ Forgets({mConnection} \cap cleared)
     ELSE UNCHANGED <<mConnection, mBuffer, mFilePos>>
  /\ HoldsOn({mConnection'})
  /\ UNCHANGED <<mPaused, mEos, mStatus, mStillRunning, resumeFrom, cleared,
                 locked, lists, thread, curl, fault, mFileSize, history>>

-----------------------------------------------------------------------------
(***************************************************************************)
(* read().  At the end of the file the buffer is not waited for.           *)
(***************************************************************************)
Read(size) ==
  /\ Alive /\ at = "out" /\ mConnection # None
  /\ conn' = mConnection
  /\ arg' = size /\ want' = 1 /\ then' = "read" /\ ret' = 0
  /\ at' = IF mFileSize <= 0 \/ mFilePos[mConnection] < mFileSize
           THEN "fill" ELSE "read"
  /\ UNCHANGED <<managerVars, mConnection, mFileSize, passed, history>>

\* What a read is about to return.
Taken == Least(ReadableSize(mBuffer[conn]), arg)

\* readBuffer, under the connection's mMutex.
ReadBuffer ==
  /\ Alive /\ at = "read" /\ ret = 0
  /\ Returns
  /\ mBuffer' = [mBuffer EXCEPT ![conn] = ReadData(@, Taken)]
  /\ mFilePos' = [mFilePos EXCEPT ![conn] = @ + Taken]
  /\ UNCHANGED <<mPaused, mEos, mStatus, mStillRunning, resumeFrom, cleared,
                 locked, referenced, lists, thread, curl, fault, mConnection,
                 mFileSize, history>>

ReadFails ==
  /\ Alive /\ at = "read" /\ ret < 0
  /\ Returns
  /\ UNCHANGED <<managerVars, mConnection, mFileSize, history>>

-----------------------------------------------------------------------------
(***************************************************************************)
(* seek() to an offset that is not the current one.  Behind the end only   *)
(* mFilePos is set.                                                        *)
(***************************************************************************)
SeekBehindTheEnd(offset) ==
  /\ Alive /\ at = "out" /\ mConnection # None
  /\ mFilePos[mConnection] # offset
  /\ mFileSize > 0 /\ offset >= mFileSize
  /\ troubles < MaxTroubles /\ troubles' = troubles + 1
  /\ SetResume(mConnection, offset)
  /\ strayed' = strayed \cup {mConnection}
  /\ UNCHANGED <<mBuffer, mPaused, mEos, mStatus, mStillRunning, cleared,
                 locked, referenced, lists, thread, multi, transfer, sent,
                 restarted, fault, mConnection, mFileSize, at, call, unused,
                 ended>>

\* Bound: a seek is made only while another connection can be made for it.
SeekStarts(offset) ==
  /\ Alive /\ at = "out" /\ mConnection # None
  /\ unused # {}
  /\ mFilePos[mConnection] # offset
  /\ mFileSize > 0 => offset < mFileSize

\* shortSeek within the buffer, under the connection's mMutex.
ShortSeek(offset) ==
  LET c == mConnection
      delta == offset - mFilePos[c]
  IN /\ SeekStarts(offset)
     /\ CanSkip(mBuffer[c], delta)
     /\ mBuffer' = [mBuffer EXCEPT ![c] = SkipBytes(@, delta)]
     /\ mFilePos' = [mFilePos EXCEPT ![c] = offset]
     /\ UNCHANGED <<mPaused, mEos, mStatus, mStillRunning, resumeFrom, cleared,
                    locked, referenced, lists, thread, curl, fault, mConnection,
                    mFileSize, at, call, unused, strayed, ended>>

\* A little ahead: the buffer is passed over, and more is waited for with the
\* mutex held.
ShortSeekWaits(offset) ==
  LET c == mConnection
      readable == ReadableSize(mBuffer[c])
  IN /\ SeekStarts(offset)
     /\ offset > mFilePos[c] + readable
     /\ offset < mFilePos[c] + ShortBufferSize
     /\ mBuffer' = [mBuffer EXCEPT ![c] = SkipBytes(@, readable)]
     /\ mFilePos' = [mFilePos EXCEPT ![c] = @ + readable]
     /\ passed' = readable
     /\ at' = "fill" /\ want' = ShortBufferSize /\ then' = "short"
     /\ locked' = {c}
     /\ conn' = c /\ arg' = offset
     /\ UNCHANGED <<mPaused, mEos, mStatus, mStillRunning, resumeFrom, cleared,
                    referenced, lists, thread, curl, fault, mConnection,
                    mFileSize, ret, unused, strayed, ended>>

ShortSeekFails(offset) ==
  LET c == mConnection
      delta == offset - mFilePos[c]
  IN /\ SeekStarts(offset)
     /\ ~CanSkip(mBuffer[c], delta)
     /\ delta > 0 => offset >= mFilePos[c] + ShortBufferSize
     /\ at' = "reconnect"
     /\ conn' = c /\ arg' = offset
     /\ UNCHANGED <<managerVars, mConnection, mFileSize, want, then, ret,
                    passed, unused, strayed, ended>>

\* Mutant: the position is taken back whether or not the buffer could be.
ShortSeekRestoresThePosition ==
  LET b == mBuffer[conn]
      delta == arg - mFilePos[conn]
      arrives == ret = 0 /\ CanSkip(b, delta)
  IN /\ Alive /\ at = "short"
     /\ locked' = {}
     /\ IF arrives THEN Returns
        ELSE at' = "reconnect" /\ UNCHANGED call
     /\ mBuffer' = [mBuffer EXCEPT ![conn] =
                      SkipBytes(@, IF arrives THEN delta ELSE -passed)]
     /\ mFilePos' = [mFilePos EXCEPT ![conn] =
                       IF arrives THEN arg ELSE @ - passed]
     /\ UNCHANGED <<mPaused, mEos, mStatus, mStillRunning, resumeFrom, cleared,
                    referenced, lists, thread, curl, fault, mConnection,
                    mFileSize, history>>

\* shortSeek after the wait: on to the offset, or back to where it began if
\* the buffer still can.
ShortSeekEnds ==
  LET b == mBuffer[conn]
      delta == arg - mFilePos[conn]
      arrives == ret = 0 /\ CanSkip(b, delta)
      restores == passed = 0 \/ CanSkip(b, -passed)
  IN /\ Alive /\ at = "short"
     /\ locked' = {}
     /\ IF arrives THEN Returns
        ELSE at' = "reconnect" /\ UNCHANGED call
     /\ mBuffer' = [mBuffer EXCEPT ![conn] =
                      SkipBytes(@, IF arrives THEN delta ELSE -passed)]
     /\ mFilePos' = [mFilePos EXCEPT ![conn] =
                       IF arrives THEN arg ELSE IF restores THEN @ - passed ELSE @]
     /\ UNCHANGED <<mPaused, mEos, mStatus, mStillRunning, resumeFrom, cleared,
                    referenced, lists, thread, curl, fault, mConnection,
                    mFileSize, history>>

\* trySeekByNewConnection: the old connection is closed, and kept until the
\* new one is connected.
Reconnect ==
  /\ Alive /\ at = "reconnect"
  /\ RemoveConnection(mConnection)
  /\ ended' = ended \cup {mConnection}
  /\ \E c \in unused :
       /\ NewConnection(c, arg)
       /\ HoldsOn({mConnection, c})
  /\ ret' = 0 /\ passed' = 0
  /\ UNCHANGED <<mBuffer, mPaused, mEos, mStatus, mStillRunning, cleared,
                 locked, thread, curl, fault, mConnection, mFileSize, arg,
                 strayed>>

Seek(offset) ==
  \/ SeekBehindTheEnd(offset)
  \/ ShortSeek(offset) \/ ShortSeekWaits(offset) \/ ShortSeekFails(offset)

-----------------------------------------------------------------------------
\* What the calling thread does inside a call.
InsideCall ==
  \/ AddToManager \/ SetRunning \/ FillBuffer
  \/ Opened \/ Reconnected \/ ReadBuffer \/ ReadFails
  \/ ShortSeekEnds \/ Reconnect

Client ==
  \/ Open
  \/ \E size \in Sizes : Read(size)
  \/ \E offset \in Offsets : Seek(offset)
  \/ InsideCall

Manager ==
  /\ Loop \/ Perform
  /\ UNCHANGED <<mConnection, mFileSize, at, call, history>>

Next == Client \/ Manager

Spec == Init /\ [][Next]_vars

-----------------------------------------------------------------------------
(***************************************************************************)
(* The calling thread and the manager's thread are scheduled; curl hands   *)
(* out what arrives, and it keeps arriving or the transfer ends (a server  *)
(* that stalls is given lowSpeedTimeMs).  perform is called again and      *)
(* again, so strong fairness for what happens only inside it.              *)
(***************************************************************************)
Fairness ==
  /\ WF_vars(InsideCall)
  /\ WF_vars(Loop /\ Manager)
  /\ SF_vars(Perform /\ Manager)

FairSpec == Spec /\ Fairness

-----------------------------------------------------------------------------
\* The two ways in which a buffer may leave its file: setResume() past the
\* end, and a resume that comes after the end of the transfer.
Astray == strayed \cup restarted

(***************************************************************************)
(* A connection's buffer holds the file around mFilePos, and its transfer  *)
(* goes on where the buffer ends: whatever the order of the callbacks, the *)
(* reads, the steps back, the errors and the restarts.                     *)
(***************************************************************************)
BuffersHoldTheFile ==
  \A c \in Connections \ Astray :
    /\ Holds(mBuffer[c], mFilePos[c])
    /\ transfer[c] \in {"running", "paused"} /\ c \notin cleared =>
         sent[c] = mFilePos[c] + mBuffer[c].mFillCount

(***************************************************************************)
(* What a read returns is the file at the reader's position, and it        *)
(* returns nothing only at the end of the file.                            *)
(***************************************************************************)
ReadsTheFile ==
  at = "read" /\ ret = 0 /\ conn \notin Astray =>
    /\ \A i \in 0 .. Taken - 1 :
         Output(mBuffer[conn], Taken)[i] = mFilePos[conn] + i
    /\ Taken = 0 /\ restarted = {} => mFilePos[conn] >= FileLen

(***************************************************************************)
(* A transfer that is paused is known to be, or its continuation is on its *)
(* way: mPaused is cleared by two threads, and neither loses the resume.   *)
(***************************************************************************)
NoLostResume ==
  \A c \in Connections \ cleared :
    transfer[c] = "paused" =>
      mPaused[c] \/ c \in mResumeList \/ (conn = c /\ at = "resume")

(***************************************************************************)
(* The transfer a seek abandons is off the multi handle before the one     *)
(* that replaces it performs: no bandwidth and no callbacks for it,        *)
(* whatever call comes between two of the lists that applyPending applies. *)
(* Excepted is a transfer that was out already, ended or removed, when its *)
(* late resume was applied: applyPending adds what it continues, even      *)
(* beside the one that replaces it.                                        *)
(***************************************************************************)
OneTransferAtATime ==
  phase = "perform" =>
    \A c, d \in multi \ restarted : Destroyed(c) \/ Destroyed(d) \/ c = d

(***************************************************************************)
(* A call returns, but for two: one that waits with the mutex held, and    *)
(* one that waits for a connection that was closed or given up.            *)
(***************************************************************************)
EveryCallReturns ==
  InCall /\ locked = {} /\ conn \notin ended ~>
    at = "out" \/ ~Alive \/ locked # {} \/ conn \in ended

(***************************************************************************)
(* CurlConnection.cpp:178: if the offset is not past the threshold, "a     *)
(* short wait" and it is reached.                                          *)
(***************************************************************************)
ShortSeekReturns == locked # {} ~> locked = {}
=============================================================================
