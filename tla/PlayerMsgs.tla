----------------------------- MODULE PlayerMsgs -----------------------------
(***************************************************************************)
(* The player's front half: the calls of the application become messages,  *)
(* and the player's thread turns them into the player's status             *)
(* (media_player/SnPlayer.cpp, PlayerMsgController.cpp and                 *)
(* PlayerMsgProcessor.cpp).                                                *)
(*                                                                         *)
(* mMsgQueue is protected by the controller's mutex and every method that  *)
(* uses it is one action.  The player's thread takes the whole queue and   *)
(* then works on its copy, so calls of the application come in between.    *)
(* stop(), start(), pause() and seekTo() have empty bodies: no status      *)
(* after PREPARING is reached, and the code never ends the thread before   *)
(* the player is destroyed.                                                *)
(***************************************************************************)
EXTENDS Integers, SequencesExt

CONSTANTS
  Urls,       \* the addresses they set, none of them empty
  MaxCalls    \* bound: calls of setDataSource() and prepare()

\* The url of a message or of the parameters that has none.
NoUrl == ""

ASSUME PlayerMsgsAssumption ==
  /\ NoUrl \notin Urls
  /\ MaxCalls \in Nat

VARIABLES
  mMsgQueue,       \* messages put and not taken
  processQueue,    \* the copy processMsg() works on
  mPlayerMutex,    \* held by a prepare()
  mPlayStatus,
  mParams_url,     \* mParams->url
  mDemuxerService, \* "null", "made", "open" or "started"
  ppc,             \* where the player's thread is, "none" before start()
  app,             \* what is left of the destructor, "alive" before it
  calls,           \* messages put so far: the identity of the last one
  typeOf,          \* history: the type of each message put
  processed,       \* history: the messages distributed, in order
  freed,           \* history: how often the url of a message was deleted
  fault            \* "assert" or "deref" once the code has failed

messages == <<mMsgQueue, calls, typeOf>>
vars == <<mMsgQueue, processQueue, mPlayerMutex, mPlayStatus, mParams_url,
          mDemuxerService, ppc, app, calls, typeOf, processed, freed, fault>>

MsgTypes == {"SET_DATASOURCE", "PREPARE"}

Ids == 1 .. MaxCalls

QueueMsg == [id : Ids, type : MsgTypes, url : Urls \cup {NoUrl}]

Statuses == {"IDLE", "INITIALIZED", "PREPARED_INIT", "PREPARING"}

TypeOK ==
  /\ mMsgQueue \in Seq(QueueMsg)
  /\ processQueue \in Seq(QueueMsg)
  /\ mPlayerMutex \in BOOLEAN
  /\ mPlayStatus \in Statuses
  /\ mParams_url \in Urls \cup {NoUrl}
  /\ mDemuxerService \in {"null", "made", "open", "started"}
  /\ ppc \in {"none", "top", "process", "open", "make", "initOpen", "start",
              "media", "read", "done"}
  /\ app \in {"alive", "thread", "join", "queue", "gone"}
  /\ calls \in 0 .. MaxCalls
  /\ typeOf \in [1 .. calls -> MsgTypes]
  /\ processed \in Seq(Ids)
  /\ freed \in [Ids -> Nat]
  /\ fault \in {"none", "assert", "deref"}

Init ==
  /\ mMsgQueue = <<>> /\ processQueue = <<>>
  /\ mPlayerMutex = FALSE
  /\ mPlayStatus = "IDLE"
  /\ mParams_url = NoUrl
  /\ mDemuxerService = "null"
  /\ ppc = "none"
  /\ app = "alive"
  /\ calls = 0
  /\ typeOf = <<>>
  /\ processed = <<>>
  /\ freed = [i \in Ids |-> 0]
  /\ fault = "none"

-----------------------------------------------------------------------------
(***************************************************************************)
(* PlayerMsgController.                                                    *)
(***************************************************************************)
OfType(type) == {mMsgQueue[i] : i \in {j \in DOMAIN mMsgQueue :
                                         mMsgQueue[j].type = type}}

\* recycleMsg deletes the url of a setDataSource message.
Recycle(msgs) ==
  freed' = [i \in Ids |->
              freed[i] + Cardinality({m \in msgs : /\ m.id = i
                                                   /\ m.type = "SET_DATASOURCE"})]

\* The messages that are not of the type keep their order; the new one is last.
Enqueue(type, url) ==
  /\ \E n \in 0 .. Len(mMsgQueue) : \E from \in [1 .. n -> DOMAIN mMsgQueue] :
       /\ \A i, j \in 1 .. n : i < j => from[i] < from[j]
       /\ ToSet(from) = {i \in DOMAIN mMsgQueue : mMsgQueue[i].type # type}
       /\ mMsgQueue' = Append([i \in 1 .. n |-> mMsgQueue[from[i]]],
                              [id |-> calls + 1, type |-> type, url |-> url])
  /\ calls' = calls + 1
  /\ typeOf' = Append(typeOf, type)

\* Mutant: the replaced messages are erased but not recycled.
PutMsgLeaks(type, url) == Enqueue(type, url) /\ UNCHANGED freed

\* Mutant: the new message takes the place of the one it replaces.
PutMsgInPlace(type, url) ==
  LET msg == [id |-> calls + 1, type |-> type, url |-> url]
  IN /\ mMsgQueue' =
          IF OfType(type) = {} THEN Append(mMsgQueue, msg)
          ELSE [i \in DOMAIN mMsgQueue |->
                  IF mMsgQueue[i].type = type THEN msg ELSE mMsgQueue[i]]
     /\ calls' = calls + 1
     /\ typeOf' = Append(typeOf, type)
     /\ Recycle(OfType(type))

\* Mutant: a new message replaces all the messages of the queue.
PutMsgReplacesAll(type, url) ==
  /\ mMsgQueue' = <<[id |-> calls + 1, type |-> type, url |-> url]>>
  /\ calls' = calls + 1
  /\ typeOf' = Append(typeOf, type)
  /\ Recycle(ToSet(mMsgQueue))

\* Both types of message replace all the queued messages of their type.
PutMsg(type, url) == Enqueue(type, url) /\ Recycle(OfType(type))

-----------------------------------------------------------------------------
(***************************************************************************)
(* The application's calls.                                                *)
(***************************************************************************)
PlayerUnchanged ==
  UNCHANGED <<processQueue, mPlayStatus, mParams_url, mDemuxerService,
              processed, fault>>

CanCall == app = "alive" /\ calls < MaxCalls

SetDataSource(url) ==
  /\ CanCall
  /\ PutMsg("SET_DATASOURCE", url)
  /\ PlayerUnchanged
  /\ UNCHANGED <<mPlayerMutex, ppc, app>>

\* prepare() puts its message, then starts the thread, holding mPlayerMutex.
Prepare ==
  /\ CanCall
  /\ ~mPlayerMutex
  /\ mPlayerMutex' = TRUE
  /\ PutMsg("PREPARE", NoUrl)
  /\ PlayerUnchanged
  /\ UNCHANGED <<ppc, app>>

PrepareStartsThread ==
  /\ mPlayerMutex
  /\ mPlayerMutex' = FALSE
  /\ ppc' = IF ppc = "none" THEN "top" ELSE ppc
  /\ PlayerUnchanged
  /\ UNCHANGED <<messages, freed, app>>

(***************************************************************************)
(* ~SnPlayer() has an empty body: the members are destroyed in the reverse *)
(* order of their declaration, mDemuxerService first, then mPlayerThread,  *)
(* which ends and joins the thread, and mMsgController.                    *)
(***************************************************************************)
DestructorUnchanged ==
  UNCHANGED <<messages, processQueue, mPlayerMutex, mPlayStatus, mParams_url,
              processed, freed, fault>>

DestroyDemuxerService ==
  /\ app = "alive" /\ ~mPlayerMutex
  /\ app' = "thread"
  /\ mDemuxerService' = "null"
  /\ UNCHANGED ppc
  /\ DestructorUnchanged

DestroyThread ==
  /\ app = "thread"
  /\ app' = "join"
  /\ UNCHANGED <<ppc, mDemuxerService>>
  /\ DestructorUnchanged

JoinThread ==
  /\ app = "join"
  /\ ppc \in {"none", "done"}
  /\ app' = "queue"
  /\ UNCHANGED <<ppc, mDemuxerService>>
  /\ DestructorUnchanged

\* The queue is destroyed with the messages in it; ~PlayerMsgController() is
\* empty too.
DestroyMsgController ==
  /\ app = "queue"
  /\ app' = "gone"
  /\ mMsgQueue' = <<>>
  /\ UNCHANGED <<calls, typeOf, processQueue, mPlayerMutex, mPlayStatus,
                 mParams_url, processed, freed, fault, ppc, mDemuxerService>>

Destructor ==
  \/ DestroyDemuxerService \/ DestroyThread \/ JoinThread
  \/ DestroyMsgController

App ==
  \/ \E url \in Urls : SetDataSource(url)
  \/ Prepare \/ PrepareStartsThread
  \/ Destructor

-----------------------------------------------------------------------------
(***************************************************************************)
(* The player's thread: mainService, called in SNThread's loop.            *)
(***************************************************************************)
Alive == fault = "none"

PlayerAt(from, to) ==
  /\ Alive
  /\ ppc = from /\ ppc' = to
  /\ UNCHANGED <<calls, typeOf, mPlayerMutex, app>>

NoMessageMoves == UNCHANGED <<mMsgQueue, processQueue, processed, freed>>

Fail(kind) ==
  /\ fault' = kind
  /\ UNCHANGED <<mPlayStatus, mDemuxerService>>

\* Mutant: the thread is joined before it is told to end.
ThreadEndsAfterJoin == app \in {"queue", "gone"}

\* ~SNThread() has set the status the loop looks at.
ThreadMustEnd == app \in {"join", "queue", "gone"}

LoopEnds ==
  /\ ThreadMustEnd
  /\ PlayerAt("top", "done")
  /\ NoMessageMoves
  /\ UNCHANGED <<mPlayStatus, mParams_url, mDemuxerService, fault>>

\* processMsg takes every message, so it returns 0 only when there is none.
TakeMessages ==
  /\ ~ThreadMustEnd
  /\ mMsgQueue # <<>>
  /\ PlayerAt("top", "process")
  /\ processQueue' = mMsgQueue
  /\ mMsgQueue' = <<>>
  /\ UNCHANGED <<processed, freed, mPlayStatus, mParams_url, mDemuxerService,
                 fault>>

NoMessage ==
  /\ ~ThreadMustEnd
  /\ mMsgQueue = <<>>
  /\ PlayerAt("top", "media")
  /\ NoMessageMoves
  /\ UNCHANGED <<mPlayStatus, mParams_url, mDemuxerService, fault>>

Current == Head(processQueue)

\* Between two messages of the copy; after the last one mainService returns.
MessagesDone ==
  /\ processQueue = <<>>
  /\ PlayerAt("process", "top")
  /\ NoMessageMoves
  /\ UNCHANGED <<mPlayStatus, mParams_url, mDemuxerService, fault>>

\* The message has been distributed: it is recycled and the next one is due.
Distributed ==
  /\ processed' = Append(processed, Current.id)
  /\ processQueue' = Tail(processQueue)
  /\ Recycle({Current})
  /\ UNCHANGED mMsgQueue

\* Mutant: a new source is accepted whatever the status.
ProcessSetDataSourceAlways ==
  /\ processQueue # <<>> /\ Current.type = "SET_DATASOURCE"
  /\ PlayerAt("process", "process")
  /\ mParams_url' = Current.url /\ mPlayStatus' = "INITIALIZED"
  /\ Distributed
  /\ UNCHANGED <<mDemuxerService, fault>>

ProcessSetDataSourceMsg ==
  /\ processQueue # <<>> /\ Current.type = "SET_DATASOURCE"
  /\ PlayerAt("process", "process")
  /\ IF mPlayStatus = "IDLE"
     THEN mParams_url' = Current.url /\ mPlayStatus' = "INITIALIZED"
     ELSE UNCHANGED <<mParams_url, mPlayStatus>>
  /\ Distributed
  /\ UNCHANGED <<mDemuxerService, fault>>

\* Mutant: PREPARING is announced before anything is open.
ProcessPrepareEarly ==
  /\ processQueue # <<>> /\ Current.type = "PREPARE"
  /\ IF mPlayStatus = "INITIALIZED"
     THEN /\ PlayerAt("process", "open")
          /\ mPlayStatus' = "PREPARING"
          /\ NoMessageMoves
     ELSE /\ PlayerAt("process", "process")
          /\ Distributed
          /\ UNCHANGED mPlayStatus
  /\ UNCHANGED <<mParams_url, mDemuxerService, fault>>

ProcessPrepareMsg ==
  /\ processQueue # <<>> /\ Current.type = "PREPARE"
  /\ IF mPlayStatus = "INITIALIZED"
     THEN /\ PlayerAt("process", "open")
          /\ mPlayStatus' = "PREPARED_INIT"
          /\ NoMessageMoves
     ELSE /\ PlayerAt("process", "process")
          /\ Distributed
          /\ UNCHANGED mPlayStatus
  /\ UNCHANGED <<mParams_url, mDemuxerService, fault>>

\* processPrepareMsg returns early: the status stays what it is.
PrepareGivesUp(from) ==
  /\ PlayerAt(from, "process")
  /\ Distributed
  /\ UNCHANGED <<mPlayStatus, mParams_url, mDemuxerService, fault>>

\* openUrl: the data source may not exist or not open.
OpenUrl ==
  \/ PrepareGivesUp("open")
  \/ /\ PlayerAt("open", "make")
     /\ NoMessageMoves
     /\ UNCHANGED <<mPlayStatus, mParams_url, mDemuxerService, fault>>

MakeDemuxerService ==
  /\ PlayerAt("make", "initOpen")
  /\ mDemuxerService' = "made"
  /\ NoMessageMoves
  /\ UNCHANGED <<mPlayStatus, mParams_url, fault>>

\* initOpen may fail; the service is left as it is.
InitOpen ==
  \/ /\ mDemuxerService = "null"
     /\ PlayerAt("initOpen", "done")
     /\ Fail("deref")
     /\ NoMessageMoves
     /\ UNCHANGED mParams_url
  \/ /\ mDemuxerService # "null"
     /\ PrepareGivesUp("initOpen")
  \/ /\ mDemuxerService # "null"
     /\ PlayerAt("initOpen", "start")
     /\ mDemuxerService' = "open"
     /\ NoMessageMoves
     /\ UNCHANGED <<mPlayStatus, mParams_url, fault>>

\* Mutant: PREPARING is skipped.
StartDemuxerIsPrepared ==
  /\ mDemuxerService # "null"
  /\ PlayerAt("start", "process")
  /\ mDemuxerService' = "started"
  /\ mPlayStatus' = "PREPARED"
  /\ Distributed
  /\ UNCHANGED <<mParams_url, fault>>

\* The streams are opened and the read thread is started.
StartDemuxer ==
  \/ /\ mDemuxerService = "null"
     /\ PlayerAt("start", "done")
     /\ Fail("deref")
     /\ NoMessageMoves
     /\ UNCHANGED mParams_url
  \/ /\ mDemuxerService # "null"
     /\ PlayerAt("start", "process")
     /\ mDemuxerService' = "started"
     /\ mPlayStatus' = "PREPARING"
     /\ Distributed
     /\ UNCHANGED <<mParams_url, fault>>

\* processMediaLoop's condition, on the statuses that are reached.
MediaLoop ==
  /\ PlayerAt("media",
       IF mPlayStatus = "PREPARING" /\ mDemuxerService # "null" THEN "read"
       ELSE "top")
  /\ NoMessageMoves
  /\ UNCHANGED <<mPlayStatus, mParams_url, mDemuxerService, fault>>

\* doReadPacket, as far as its use of mDemuxerService goes.
ReadPacket ==
  /\ IF mDemuxerService = "null"
     THEN PlayerAt("read", "done") /\ Fail("assert")
     ELSE /\ PlayerAt("read", "top")
          /\ UNCHANGED <<mPlayStatus, mDemuxerService, fault>>
  /\ NoMessageMoves
  /\ UNCHANGED mParams_url

Player ==
  \/ LoopEnds \/ TakeMessages \/ NoMessage \/ MessagesDone
  \/ ProcessSetDataSourceMsg \/ ProcessPrepareMsg
  \/ OpenUrl \/ MakeDemuxerService \/ InitOpen \/ StartDemuxer
  \/ MediaLoop \/ ReadPacket

Next == App \/ Player

Spec == Init /\ [][Next]_vars

\* The player's thread runs, and a call or a destructor that began goes on.
FairSpec ==
  /\ Spec
  /\ WF_vars(Player)
  /\ WF_vars(PrepareStartsThread)
  /\ WF_vars(DestroyThread \/ JoinThread \/ DestroyMsgController)

-----------------------------------------------------------------------------
IdsOf(msgs) == [i \in DOMAIN msgs |-> msgs[i].id]

Order == processed \o IdsOf(processQueue) \o IdsOf(mMsgQueue)

(***************************************************************************)
(* The messages are processed in the order of the calls, those put while   *)
(* others are processed included, and a message that is in neither queue   *)
(* and was not processed has been replaced by a later one of its type.     *)
(***************************************************************************)
MessagesInOrder ==
  /\ \A i, j \in DOMAIN Order : i < j => Order[i] < Order[j]
  /\ app # "gone" =>
       \A id \in 1 .. calls :
         \/ id \in ToSet(Order)
         \/ \E later \in id + 1 .. calls : typeOf[later] = typeOf[id]

(***************************************************************************)
(* The url of a setDataSource message is owned by one queue or deleted,    *)
(* and deleted once: putMsg copies the pointer into the queue, processMsg  *)
(* copies it into another one.                                             *)
(***************************************************************************)
UrlsFreedOnce ==
  \A id \in 1 .. calls :
    typeOf[id] = "SET_DATASOURCE" /\ app # "gone" =>
      freed[id] = IF id \in ToSet(IdsOf(processQueue \o mMsgQueue)) THEN 0 ELSE 1

(***************************************************************************)
(* The media loop reads from a demuxer that is open and started, and the   *)
(* player is not called PREPARING before it is, as long as it lives.       *)
(***************************************************************************)
ReadsAStartedDemuxer ==
  app = "alive" /\ (mPlayStatus = "PREPARING" \/ ppc = "read")
    => mDemuxerService = "started"

Opening == mPlayStatus \in {"PREPARED_INIT", "PREPARING"}

(***************************************************************************)
(* Once the player has begun to open a source it stays with it: the url is *)
(* not changed under the data source that was opened from it.              *)
(***************************************************************************)
SourceIsKept ==
  [][Opening => mParams_url' = mParams_url /\ Opening']_vars

\* The application has set a source first, and none after a prepare().
SetsFirst ==
  /\ calls > 0 => typeOf[1] = "SET_DATASOURCE"
  /\ \A i, j \in 1 .. calls :
       i < j /\ typeOf[i] = "PREPARE" => typeOf[j] = "PREPARE"

(***************************************************************************)
(* An application that sets its sources before it calls prepare() gets an  *)
(* attempt to open one, whatever the interleaving.                         *)
(***************************************************************************)
PrepareIsAnswered ==
  (SetsFirst /\ "PREPARE" \in ToSet(typeOf))
    ~> (Opening \/ ~SetsFirst \/ app # "alive")

(***************************************************************************)
(* The destructor returns: whatever the player's thread is doing, it gets  *)
(* to the end of its loop.                                                 *)
(***************************************************************************)
DestructorReturns == app = "thread" ~> app = "gone" \/ ~Alive

(***************************************************************************)
(* SnPlayer::readPacket asserts that there is a demuxer service            *)
(* (SnPlayer.cpp:290).                                                     *)
(***************************************************************************)
ReadPacketAssertion == fault # "assert"
=============================================================================
