----------------------- MODULE CurlConnectionManager -----------------------
(***************************************************************************)
(* The thread that runs the HTTP transfers of a data source                *)
(* (framework/data_source/curl/CurlConnectionManager.cpp), and what its    *)
(* callbacks do to a connection (CurlConnection.cpp): they fill the ring   *)
(* buffer, pause the transfer when it is full and report its end.          *)
(*                                                                         *)
(* The file is a sequence of FileLen bytes, a byte is its position.  curl  *)
(* is external: a transfer starts at the handle's resume position, hands   *)
(* out the bytes from there in order, in pieces of at most                 *)
(* CURL_READ_BUFFER_SIZE, hands a refused piece out again when it is       *)
(* continued, and ends, with an error or after the last byte.              *)
(***************************************************************************)
EXTENDS RingBuffer, FiniteSets

CONSTANTS
  Connections,            \* the connections a data source may make
  FileLen,
  CURL_READ_BUFFER_SIZE,
  MaxTroubles             \* bound: transfers that end with an error and seeks
                          \* behind the end, together

ASSUME ManagerAssumption ==
  /\ IsFiniteSet(Connections)
  /\ FileLen \in Nat
  /\ CURL_READ_BUFFER_SIZE \in Nat \ {0}
  /\ mBackSize + CURL_READ_BUFFER_SIZE < mSize
  /\ MaxTroubles \in Nat

VARIABLES
  \* of each connection
  mBuffer,        \* its ring buffer
  mFilePos,       \* the position of the next byte its reader gets
  mPaused, mEos, mStatus, mStillRunning,
  resumeFrom,     \* CURLOPT_RESUME_FROM_LARGE of its handle
  cleared,        \* clearCurlOpt() has taken the handle's callback data away
  locked,         \* the reader waits with the connection's mMutex held
  referenced,     \* somebody but the lists holds a shared_ptr to it
  \* of the manager
  mAddList, mResumeList, mRemoveList,
  tempList,       \* taken from mRemoveList, to be removed next
  phase,          \* where loop() is, "idle" before the thread is started
  eofSeen,        \* status.eof: a message of this turn was the end of a file
  message,        \* the connections whose end is being reported
  \* of curl
  multi,          \* the connections whose handle is in the multi handle
  transfer,       \* what the handle of a connection does
  sent,           \* the position of the next byte it hands out
  troubles,
  restarted,      \* a transfer that was out of the multi handle, ended or
                  \* removed, was added again by a resume
  fault           \* how the process ended, if it did

connection == <<mBuffer, mFilePos, mPaused, mEos, mStatus, mStillRunning>>
lists == <<mAddList, mResumeList, mRemoveList>>
thread == <<tempList, phase, eofSeen, message>>
curl == <<multi, transfer, sent, troubles, restarted>>
managerVars == <<connection, resumeFrom, cleared, locked, referenced, lists,
                 thread, curl, fault>>

Codes == {"OK", "RETRY", "FATAL"}

ManagerTypeOK ==
  /\ mBuffer \in [Connections -> Ring]
  /\ mFilePos \in [Connections -> Nat]
  /\ {mPaused, mEos, mStillRunning} \subseteq [Connections -> BOOLEAN]
  /\ mStatus \in [Connections -> Codes]
  /\ resumeFrom \in [Connections -> Nat]
  /\ {cleared, locked, referenced, mAddList, mResumeList, mRemoveList,
      tempList, message, multi, restarted} \subseteq SUBSET Connections
  /\ Cardinality(message) <= 1
  /\ phase \in {"idle", "add", "resume", "remove", "temp", "perform", "info"}
  /\ eofSeen \in BOOLEAN
  /\ transfer \in [Connections -> {"none", "running", "paused"} \cup Codes]
  /\ sent \in [Connections -> Nat]
  /\ troubles \in 0 .. MaxTroubles
  /\ fault \in {"none", "assert", "freed"}

ManagerInit ==
  /\ mBuffer = [c \in Connections |-> NewRing]
  /\ mFilePos = [c \in Connections |-> 0]
  /\ mPaused = [c \in Connections |-> FALSE]
  /\ mEos = [c \in Connections |-> FALSE]
  /\ mStatus = [c \in Connections |-> "OK"]
  /\ mStillRunning = [c \in Connections |-> FALSE]
  /\ resumeFrom = [c \in Connections |-> 0]
  /\ cleared = {} /\ locked = {} /\ referenced = {}
  /\ mAddList = {} /\ mResumeList = {} /\ mRemoveList = {}
  /\ tempList = {} /\ phase = "idle" /\ eofSeen = FALSE /\ message = {}
  /\ multi = {}
  /\ transfer = [c \in Connections |-> "none"]
  /\ sent = [c \in Connections |-> 0]
  /\ troubles = 0 /\ restarted = {}
  /\ fault = "none"

Alive == fault = "none"

\* A destroyed connection has taken its handle out of the multi handle.
Destroyed(c) ==
  c \notin referenced \cup mAddList \cup mResumeList \cup mRemoveList \cup tempList

-----------------------------------------------------------------------------
(***************************************************************************)
(* The methods of the manager that its clients call, each under mMutex.    *)
(***************************************************************************)
AddConnection(c) ==
  /\ phase' = IF phase = "idle" THEN "add" ELSE phase
  /\ mRemoveList' = mRemoveList \ {c}
  /\ mAddList' = mAddList \cup {c}
  /\ UNCHANGED mResumeList

RemoveConnection(c) ==
  /\ mAddList' = mAddList \ {c}
  /\ mRemoveList' = mRemoveList \cup {c}
  /\ UNCHANGED mResumeList

\* Mutant: the thread is only woken up.
ResumeConnectionOnlyWakes(c) ==
  UNCHANGED <<mAddList, mRemoveList, mResumeList>>

ResumeConnection(c) ==
  /\ mResumeList' = mResumeList \cup {c}
  /\ UNCHANGED <<mAddList, mRemoveList>>

-----------------------------------------------------------------------------
(***************************************************************************)
(* applyPending: the lists are applied one after the other.  curl ignores  *)
(* a handle that is added twice.                                           *)
(***************************************************************************)
Started(added) ==
  /\ multi' = multi \cup added
  /\ transfer' = [c \in Connections |->
                    IF c \in added \ multi THEN "running" ELSE transfer[c]]
  /\ sent' = [c \in Connections |->
                IF c \in added \ multi THEN resumeFrom[c] ELSE sent[c]]

ApplyAdd ==
  /\ Alive
  /\ phase = "add" /\ phase' = "resume"
  /\ Started(mAddList)
  /\ mAddList' = {}
  /\ UNCHANGED <<connection, resumeFrom, cleared, locked, referenced,
                 mResumeList, mRemoveList, tempList, eofSeen, message,
                 troubles, restarted, fault>>

\* The handle is added, which starts it again if it had ended, and continued.
ApplyResume ==
  /\ Alive
  /\ phase = "resume" /\ phase' = "remove"
  /\ multi' = multi \cup mResumeList
  /\ transfer' = [c \in Connections |->
                    IF c \in mResumeList /\ transfer[c] \in {"none", "paused"}
                    THEN "running" ELSE transfer[c]]
  /\ sent' = [c \in Connections |->
                IF c \in mResumeList \ multi THEN resumeFrom[c] ELSE sent[c]]
  /\ restarted' = restarted \cup (mResumeList \ multi)
  /\ mResumeList' = {}
  /\ UNCHANGED <<connection, resumeFrom, cleared, locked, referenced,
                 mAddList, mRemoveList, tempList, eofSeen, message, troubles,
                 fault>>

\* The callbacks of these find no connection any more.
ClearCurlOpt(removed) == cleared' = cleared \cup removed

TakeRemoveList ==
  /\ Alive
  /\ phase = "remove" /\ phase' = "temp"
  /\ ClearCurlOpt(mRemoveList)
  /\ tempList' = mRemoveList
  /\ mRemoveList' = {}
  /\ UNCHANGED <<connection, resumeFrom, locked, referenced, mAddList,
                 mResumeList, eofSeen, message, curl, fault>>

Removed(gone) ==
  /\ multi' = multi \ gone
  /\ transfer' = [c \in Connections |->
                    IF c \in gone THEN "none" ELSE transfer[c]]
  /\ sent' = [c \in Connections |-> IF c \in gone THEN 0 ELSE sent[c]]

\* Mutant: the callback data is taken away, and the handle left in curl.
RemoveHandlesForgets ==
  /\ Alive
  /\ phase = "temp" /\ phase' = "perform"
  /\ tempList' = {}
  /\ UNCHANGED <<connection, resumeFrom, cleared, locked, referenced, lists,
                 eofSeen, message, curl, fault>>

RemoveHandles ==
  /\ Alive
  /\ phase = "temp" /\ phase' = "perform"
  /\ Removed(tempList)
  /\ tempList' = {}
  /\ UNCHANGED <<connection, resumeFrom, cleared, locked, referenced, lists,
                 eofSeen, message, troubles, restarted, fault>>

-----------------------------------------------------------------------------
(***************************************************************************)
(* curl_multi_perform, which makes the callbacks of any of its transfers.  *)
(***************************************************************************)
Performs(c) ==
  /\ Alive
  /\ phase = "perform"
  /\ c \in multi /\ ~Destroyed(c)

\* Mutant: the piece is refused, but the connection does not know.
WritePausesSilently(c, n) ==
  /\ transfer' = [transfer EXCEPT ![c] = "paused"]
  /\ UNCHANGED mPaused

\* The piece does not fit: the transfer pauses with it.
WritePauses(c, n) ==
  /\ transfer' = [transfer EXCEPT ![c] = "paused"]
  /\ mPaused' = [mPaused EXCEPT ![c] = TRUE]

(***************************************************************************)
(* writeCallback, with n bytes.  It asserts that the transfer is not       *)
(* paused, then takes the connection's mMutex.                             *)
(***************************************************************************)
WriteCallback(c, n) ==
  /\ Performs(c)
  /\ transfer[c] = "running"
  /\ sent[c] + n <= FileLen
  /\ IF c \in cleared
     THEN /\ transfer' = [transfer EXCEPT ![c] = "paused"]
          /\ UNCHANGED <<mBuffer, mPaused, sent, fault>>
     ELSE IF mPaused[c]
     THEN /\ fault' = "assert"
          /\ UNCHANGED <<mBuffer, mPaused, sent, transfer>>
     ELSE /\ c \notin locked
          /\ IF WriteableSize(mBuffer[c]) < n
             THEN /\ WritePauses(c, n)
                  /\ UNCHANGED <<mBuffer, sent>>
             ELSE /\ mBuffer' = [mBuffer EXCEPT ![c] = WriteData(@, sent[c], n)]
                  /\ sent' = [sent EXCEPT ![c] = @ + n]
                  /\ UNCHANGED <<transfer, mPaused>>
          /\ UNCHANGED fault
  /\ UNCHANGED <<mFilePos, mEos, mStatus, mStillRunning, resumeFrom, cleared,
                 locked, referenced, lists, thread, multi, troubles, restarted>>

\* xferinfo, called as the transfer goes on and every second or so: it looks
\* at the buffer without the mutex and continues a paused transfer.
XferInfo(c) ==
  /\ Performs(c)
  /\ transfer[c] \in {"running", "paused"}
  /\ c \notin cleared
  /\ mPaused[c] /\ WriteableSize(mBuffer[c]) > CURL_READ_BUFFER_SIZE
  /\ mPaused' = [mPaused EXCEPT ![c] = FALSE]
  /\ transfer' = [transfer EXCEPT ![c] = "running"]
  /\ UNCHANGED <<mBuffer, mFilePos, mEos, mStatus, mStillRunning, resumeFrom,
                 cleared, locked, referenced, lists, thread, multi, sent,
                 troubles, restarted, fault>>

\* A paused transfer reads nothing, so it does not end.
TransferEnds(c, code) ==
  /\ Performs(c)
  /\ transfer[c] = "running"
  /\ \/ code = "OK" /\ sent[c] >= FileLen /\ UNCHANGED troubles
     \/ code # "OK" /\ troubles < MaxTroubles /\ troubles' = troubles + 1
  /\ transfer' = [transfer EXCEPT ![c] = code]
  /\ UNCHANGED <<connection, resumeFrom, cleared, locked, referenced, lists,
                 thread, multi, sent, restarted, fault>>

PerformReturns ==
  /\ Alive
  /\ phase = "perform" /\ phase' = "info"
  /\ UNCHANGED <<connection, resumeFrom, cleared, locked, referenced, lists,
                 tempList, eofSeen, message, curl, fault>>

-----------------------------------------------------------------------------
(***************************************************************************)
(* The messages of curl_multi_info_read.  status is declared outside the   *)
(* loop that reads them, so an end of file is carried to later messages.   *)
(***************************************************************************)
Over == {c \in multi : transfer[c] \in Codes /\ ~Destroyed(c)}

OnConnectOver(c) ==
  /\ mEos' = [mEos EXCEPT ![c] = eofSeen']
  /\ mStatus' = [mStatus EXCEPT ![c] = transfer[c]]
  /\ mStillRunning' = [mStillRunning EXCEPT ![c] = FALSE]

InfoRead ==
  \E c \in Over :
    /\ Alive
    /\ phase = "info" /\ message = {}
    /\ eofSeen' = (eofSeen \/ transfer[c] = "OK")
    /\ OnConnectOver(c)
    /\ message' = {c}
    /\ UNCHANGED <<mBuffer, mFilePos, mPaused, resumeFrom, cleared, locked,
                   referenced, lists, tempList, phase, curl, fault>>

\* The handle is asked of the connection, which its owner may have destroyed
\* since it was told the end.
InfoRemove ==
  /\ Alive
  /\ phase = "info" /\ message # {}
  /\ Removed(message)
  /\ fault' = IF \E c \in message : Destroyed(c) THEN "freed" ELSE "none"
  /\ message' = {}
  /\ UNCHANGED <<connection, resumeFrom, cleared, locked, referenced, lists,
                 tempList, phase, eofSeen, troubles, restarted>>

LoopReturns ==
  /\ Alive
  /\ phase = "info" /\ message = {} /\ Over = {}
  /\ phase' = "add"
  /\ eofSeen' = FALSE
  /\ UNCHANGED <<connection, resumeFrom, cleared, locked, referenced, lists,
                 tempList, message, curl, fault>>

Loop ==
  \/ ApplyAdd \/ ApplyResume \/ TakeRemoveList \/ RemoveHandles
  \/ PerformReturns \/ InfoRead \/ InfoRemove \/ LoopReturns

Perform ==
  \E c \in Connections :
    \/ \E n \in 1 .. CURL_READ_BUFFER_SIZE : WriteCallback(c, n)
    \/ XferInfo(c)
    \/ \E code \in Codes : TransferEnds(c, code)
=============================================================================
