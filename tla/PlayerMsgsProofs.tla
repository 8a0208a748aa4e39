-------------------------- MODULE PlayerMsgsProofs --------------------------
(***************************************************************************)
(* Theorems about PlayerMsgs, for any set of addresses and any number of   *)
(* calls: the media loop reads only a started demuxer, the player stays    *)
(* with the source it has begun to open, and no message is processed out   *)
(* of its order, lost, or freed twice.                                     *)
(*                                                                         *)
(* The first is inductive once it is known what the status is while        *)
(* processPrepareMsg and the media loop are under way: no other message is *)
(* processed meanwhile, and nothing else changes the status.  The last     *)
(* rest on the copy of the queue: it is empty whenever the next one is     *)
(* taken, and older than all that is put behind it.                        *)
(***************************************************************************)
EXTENDS PlayerMsgs, FiniteSetTheorems, TLAPS

PreparingIsStarted ==
  app = "alive" /\ mPlayStatus = "PREPARING" => mDemuxerService = "started"

StatusOfThePlace ==
  /\ ppc \in {"open", "make", "initOpen", "start"} =>
       mPlayStatus = "PREPARED_INIT"
  /\ ppc = "read" => mPlayStatus = "PREPARING"

PlaceInv == PreparingIsStarted /\ StatusOfThePlace

-----------------------------------------------------------------------------
LEMMA InitHolds == Init => PlaceInv
  BY DEF Init, PlaceInv, PreparingIsStarted, StatusOfThePlace

LEMMA AppKeepsPlaceInv ==
  ASSUME PlaceInv, App
  PROVE  PlaceInv'
<1>1. UNCHANGED mPlayStatus
  BY DEF App, SetDataSource, Prepare, PrepareStartsThread, Destructor,
     DestroyDemuxerService, DestroyThread, JoinThread, DestroyMsgController,
     PlayerUnchanged, DestructorUnchanged
<1>2. ppc' = ppc \/ ppc' = "top"
  BY DEF App, SetDataSource, Prepare, PrepareStartsThread, Destructor,
     DestroyDemuxerService, DestroyThread, JoinThread, DestroyMsgController
<1>3. app' # "alive" \/ (app' = app /\ mDemuxerService' = mDemuxerService)
  <2>1. CASE Destructor
    BY <2>1 DEF Destructor, DestroyDemuxerService, DestroyThread, JoinThread,
       DestroyMsgController
  <2>2. CASE (\E url \in Urls : SetDataSource(url)) \/ Prepare
             \/ PrepareStartsThread
    BY <2>2 DEF SetDataSource, Prepare, PrepareStartsThread, PlayerUnchanged
  <2> QED
    BY <2>1, <2>2 DEF App
<1> QED
  BY <1>1, <1>2, <1>3 DEF PlaceInv, PreparingIsStarted, StatusOfThePlace

LEMMA PlayerKeepsPlaceInv ==
  ASSUME PlaceInv, Player
  PROVE  PlaceInv'
<1> USE DEF PlaceInv, PreparingIsStarted, StatusOfThePlace, PlayerAt
<1>1. CASE LoopEnds \/ TakeMessages \/ NoMessage \/ MessagesDone \/ MediaLoop
  BY <1>1 DEF LoopEnds, TakeMessages, NoMessage, MessagesDone, MediaLoop
<1>2. CASE ProcessSetDataSourceMsg \/ ProcessPrepareMsg
  BY <1>2 DEF ProcessSetDataSourceMsg, ProcessPrepareMsg
<1>3. CASE OpenUrl \/ MakeDemuxerService
  BY <1>3 DEF OpenUrl, MakeDemuxerService, PrepareGivesUp
<1>4. CASE InitOpen
  BY <1>4 DEF InitOpen, PrepareGivesUp, Fail
<1>5. CASE StartDemuxer
  BY <1>5 DEF StartDemuxer, Fail
<1>6. CASE ReadPacket
  BY <1>6 DEF ReadPacket, Fail
<1> QED
  BY <1>1, <1>2, <1>3, <1>4, <1>5, <1>6 DEF Player

LEMMA AlwaysPlaceInv == Spec => []PlaceInv
<1>1. ASSUME PlaceInv, [Next]_vars
      PROVE  PlaceInv'
  <2>1. CASE UNCHANGED vars
    BY <1>1, <2>1 DEF PlaceInv, PreparingIsStarted, StatusOfThePlace, vars
  <2> QED
    BY <1>1, <2>1, AppKeepsPlaceInv, PlayerKeepsPlaceInv DEF Next
<1> QED
  BY InitHolds, <1>1, PTL DEF Spec

(***************************************************************************)
(* For any addresses and any number of calls, the media loop of a living   *)
(* player reads only from a demuxer that is open and started.              *)
(***************************************************************************)
THEOREM PlayerReadsAStartedDemuxer == Spec => []ReadsAStartedDemuxer
<1>1. PlaceInv => ReadsAStartedDemuxer
  BY DEF PlaceInv, PreparingIsStarted, StatusOfThePlace, ReadsAStartedDemuxer
<1> QED
  BY AlwaysPlaceInv, <1>1, PTL

(***************************************************************************)
(* For any addresses and any number of calls, a player that has begun to   *)
(* open a source keeps its url, and never goes back to accepting another.  *)
(***************************************************************************)
THEOREM PlayerKeepsTheSource == Spec => SourceIsKept
<1>1. ASSUME PlaceInv, [Next]_vars
      PROVE  [Opening => mParams_url' = mParams_url /\ Opening']_vars
  <2> SUFFICES ASSUME Next, Opening
               PROVE  mParams_url' = mParams_url /\ Opening'
    BY <1>1
  <2>1. CASE App
    BY <2>1 DEF App, SetDataSource, Prepare, PrepareStartsThread, Destructor,
       DestroyDemuxerService, DestroyThread, JoinThread, DestroyMsgController,
       PlayerUnchanged, DestructorUnchanged, Opening
  <2>2. CASE ProcessSetDataSourceMsg \/ ProcessPrepareMsg
    BY <2>2 DEF ProcessSetDataSourceMsg, ProcessPrepareMsg, Opening
  <2>3. CASE LoopEnds \/ TakeMessages \/ NoMessage \/ MessagesDone \/ MediaLoop
             \/ OpenUrl \/ MakeDemuxerService
    BY <2>3 DEF LoopEnds, TakeMessages, NoMessage, MessagesDone, MediaLoop,
       OpenUrl, MakeDemuxerService, PrepareGivesUp, Opening
  <2>4. CASE InitOpen \/ StartDemuxer \/ ReadPacket
    BY <2>4 DEF InitOpen, StartDemuxer, ReadPacket, PrepareGivesUp, Fail,
       Opening
  <2> QED
    BY <2>1, <2>2, <2>3, <2>4 DEF Next, Player
<1> QED
  BY AlwaysPlaceInv, <1>1, PTL DEF Spec, SourceIsKept
-----------------------------------------------------------------------------
(***************************************************************************)
(* Sequences of messages.                                                  *)
(***************************************************************************)
MsgIds(q) == {q[i].id : i \in DOMAIN q}

Ascends(s) == \A i, j \in DOMAIN s : i < j => s[i] < s[j]

LEMMA IdsOfMessages ==
  ASSUME NEW q \in Seq(QueueMsg)
  PROVE  /\ IdsOf(q) \in Seq(Ids) /\ Len(IdsOf(q)) = Len(q)
         /\ DOMAIN IdsOf(q) = DOMAIN q
         /\ \A i \in DOMAIN q : IdsOf(q)[i] = q[i].id
         /\ ToSet(IdsOf(q)) = MsgIds(q)
<1>1. \A i \in 1 .. Len(q) : q[i].id \in Ids
  <2>1. \A i \in 1 .. Len(q) : q[i] \in QueueMsg
    OBVIOUS
  <2> QED
    BY <2>1 DEF QueueMsg
<1>2. IdsOf(q) \in [1 .. Len(q) -> Ids]
  BY <1>1 DEF IdsOf
<1> QED
  BY <1>2 DEF IdsOf, ToSet, MsgIds

\* What is in two sequences, one behind the other.
LEMMA Concatenation ==
  ASSUME NEW S, NEW s \in Seq(S), NEW t \in Seq(S)
  PROVE  /\ s \o t \in Seq(S)
         /\ ToSet(s \o t) = ToSet(s) \cup ToSet(t)
<1>1. /\ s \o t \in Seq(S) /\ Len(s \o t) = Len(s) + Len(t)
      /\ \A i \in 1 .. Len(s) + Len(t) :
           (s \o t)[i] = IF i <= Len(s) THEN s[i] ELSE t[i - Len(s)]
  OBVIOUS
<1>2. \A i \in 1 .. Len(s) : (s \o t)[i] = s[i]
  BY <1>1
<1>3. \A i \in 1 .. Len(t) :
        Len(s) + i \in 1 .. Len(s) + Len(t) /\ (s \o t)[Len(s) + i] = t[i]
  BY <1>1
<1>4. ToSet(s) \cup ToSet(t) \subseteq ToSet(s \o t)
  <2>1. ASSUME NEW i \in 1 .. Len(s)
        PROVE  s[i] \in ToSet(s \o t)
    BY <1>1, <1>2 DEF ToSet
  <2>2. ASSUME NEW i \in 1 .. Len(t)
        PROVE  t[i] \in ToSet(s \o t)
    BY <1>1, <1>3 DEF ToSet
  <2>3. /\ ToSet(s) = {s[i] : i \in 1 .. Len(s)}
        /\ ToSet(t) = {t[i] : i \in 1 .. Len(t)}
    BY DEF ToSet
  <2> QED
    BY <2>1, <2>2, <2>3
<1>5. ToSet(s \o t) \subseteq ToSet(s) \cup ToSet(t)
  BY <1>1 DEF ToSet
<1> QED
  BY <1>1, <1>4, <1>5

LEMMA AscendingConcatenation ==
  ASSUME NEW s \in Seq(Int), NEW t \in Seq(Int), Ascends(s), Ascends(t),
         \A m \in ToSet(s), n \in ToSet(t) : m < n
  PROVE  Ascends(s \o t)
<1> SUFFICES ASSUME NEW i \in DOMAIN (s \o t), NEW j \in DOMAIN (s \o t), i < j
             PROVE  (s \o t)[i] < (s \o t)[j]
  BY DEF Ascends
<1>1. /\ i \in 1 .. Len(s) + Len(t) /\ j \in 1 .. Len(s) + Len(t)
      /\ (s \o t)[i] = IF i <= Len(s) THEN s[i] ELSE t[i - Len(s)]
      /\ (s \o t)[j] = IF j <= Len(s) THEN s[j] ELSE t[j - Len(s)]
  OBVIOUS
<1>2. CASE j <= Len(s)
  BY <1>1, <1>2 DEF Ascends
<1>3. CASE i > Len(s)
  BY <1>1, <1>3 DEF Ascends
<1>4. CASE i <= Len(s) /\ j > Len(s)
  <2>1. s[i] \in ToSet(s) /\ t[j - Len(s)] \in ToSet(t)
    BY <1>1, <1>4 DEF ToSet
  <2> QED
    BY <1>1, <1>4, <2>1
<1> QED
  BY <1>1, <1>2, <1>3, <1>4

\* Recycling deletes the url of each setDataSource message among them once.
LEMMA RecycleDeletesOnce ==
  ASSUME NEW msgs, Recycle(msgs), freed \in [Ids -> Nat],
         \A m, n \in msgs : m.id = n.id => m = n
  PROVE  /\ freed' \in [Ids -> Nat]
         /\ \A id \in Ids :
              freed'[id] =
                IF \E m \in msgs : m.id = id /\ m.type = "SET_DATASOURCE"
                THEN freed[id] + 1 ELSE freed[id]
<1> DEFINE urls(id) == {m \in msgs : m.id = id /\ m.type = "SET_DATASOURCE"}
<1>1. ASSUME NEW id \in Ids
      PROVE  Cardinality(urls(id)) =
               IF \E m \in msgs : m.id = id /\ m.type = "SET_DATASOURCE"
               THEN 1 ELSE 0
  <2>1. CASE urls(id) = {}
    BY <2>1, FS_EmptySet
  <2>2. CASE urls(id) # {}
    <3>1. PICK m \in msgs : m.id = id /\ m.type = "SET_DATASOURCE"
      BY <2>2
    <3>2. urls(id) = {m}
      BY <3>1
    <3> QED
      BY <3>1, <3>2, FS_Singleton
  <2> QED
    BY <2>1, <2>2
<1>2. freed' = [id \in Ids |-> freed[id] + Cardinality(urls(id))]
  BY DEF Recycle
<1> HIDE DEF urls
<1> QED
  BY <1>1, <1>2

-----------------------------------------------------------------------------
(***************************************************************************)
(* Of the messages, a step does one of five things.                        *)
(***************************************************************************)
\* Where the player's thread is in processMsg(): its copy has a message.
Distributing == ppc \in {"open", "make", "initOpen", "start"}

\* The copy is empty when the next one is taken.
CopyInv ==
  /\ Distributing => processQueue # <<>>
  /\ ppc \in {"none", "top", "media", "read"} => processQueue = <<>>

MessagesStay ==
  UNCHANGED <<mMsgQueue, processQueue, calls, typeOf, processed, freed>>

MessagePut ==
  /\ CanCall
  /\ \E type \in MsgTypes, url \in Urls \cup {NoUrl} : PutMsg(type, url)
  /\ UNCHANGED <<processQueue, processed, app>>

MessagesTaken ==
  /\ processQueue = <<>>
  /\ processQueue' = mMsgQueue /\ mMsgQueue' = <<>>
  /\ UNCHANGED <<calls, typeOf, processed, freed, app>>

MessageDistributed ==
  /\ processQueue # <<>> /\ Distributed
  /\ UNCHANGED <<calls, typeOf, app>>

MessagesGone == DestroyMsgController

LEMMA MessageSteps ==
  ASSUME CopyInv, Next
  PROVE  /\ CopyInv'
         /\ \/ MessagesStay /\ (app = "gone" => app' = "gone")
            \/ MessagePut \/ MessagesTaken \/ MessageDistributed \/ MessagesGone
<1> USE DEF CopyInv, Distributing
<1>1. ASSUME NEW url \in Urls, SetDataSource(url)
      PROVE  CopyInv' /\ MessagePut
  BY <1>1 DEF SetDataSource, MessagePut, PlayerUnchanged, MsgTypes
<1>2. CASE Prepare
  BY <1>2 DEF Prepare, MessagePut, PlayerUnchanged, MsgTypes
<1>3. CASE PrepareStartsThread
  BY <1>3 DEF PrepareStartsThread, PlayerUnchanged, messages, MessagesStay
<1>4. CASE DestroyDemuxerService \/ DestroyThread \/ JoinThread
  BY <1>4 DEF DestroyDemuxerService, DestroyThread, JoinThread,
     DestructorUnchanged, messages, MessagesStay
<1>5. CASE DestroyMsgController
  BY <1>5 DEF DestroyMsgController, MessagesGone
<1> USE DEF PlayerAt
<1>6. CASE LoopEnds \/ NoMessage \/ MessagesDone \/ MediaLoop
  BY <1>6 DEF LoopEnds, NoMessage, MessagesDone, MediaLoop, NoMessageMoves,
     MessagesStay
<1>7. CASE TakeMessages
  BY <1>7 DEF TakeMessages, MessagesTaken
<1>8. CASE ProcessSetDataSourceMsg
  BY <1>8 DEF ProcessSetDataSourceMsg, MessageDistributed
<1>9. CASE ProcessPrepareMsg
  BY <1>9 DEF ProcessPrepareMsg, NoMessageMoves, MessagesStay,
     MessageDistributed
<1>10. CASE OpenUrl \/ MakeDemuxerService
  BY <1>10 DEF OpenUrl, MakeDemuxerService, PrepareGivesUp, NoMessageMoves,
     MessagesStay, MessageDistributed
<1>11. CASE InitOpen
  BY <1>11 DEF InitOpen, PrepareGivesUp, NoMessageMoves, MessagesStay,
     MessageDistributed
<1>12. CASE StartDemuxer
  BY <1>12 DEF StartDemuxer, NoMessageMoves, MessagesStay, MessageDistributed
<1>13. CASE ReadPacket
  BY <1>13 DEF ReadPacket, NoMessageMoves, MessagesStay
<1> QED
  BY <1>1, <1>2, <1>3, <1>4, <1>5, <1>6, <1>7, <1>8, <1>9, <1>10, <1>11, <1>12,
     <1>13 DEF Next, App, Destructor, Player

-----------------------------------------------------------------------------
(***************************************************************************)
(* What the queues hold.                                                   *)
(***************************************************************************)
MessageTypes ==
  /\ mMsgQueue \in Seq(QueueMsg) /\ processQueue \in Seq(QueueMsg)
  /\ calls \in 0 .. MaxCalls
  /\ typeOf \in [1 .. calls -> MsgTypes]
  /\ processed \in Seq(Ids)
  /\ freed \in [Ids -> Nat]

\* A message of the queue is as it was put.
AsPut(m) == m.id \in 1 .. calls /\ typeOf[m.id] = m.type

InOrder ==
  /\ Ascends(IdsOf(mMsgQueue)) /\ Ascends(IdsOf(processQueue))
  /\ Ascends(processed)
  /\ \A m \in ToSet(processed) : m <= calls
  /\ \A i \in DOMAIN mMsgQueue : AsPut(mMsgQueue[i])
  /\ \A i \in DOMAIN processQueue : AsPut(processQueue[i])
  /\ \A m \in ToSet(processed), n \in MsgIds(processQueue) \cup MsgIds(mMsgQueue) :
       m < n
  /\ \A m \in MsgIds(processQueue), n \in MsgIds(mMsgQueue) : m < n

NoneIsLost ==
  app # "gone" =>
    \A id \in 1 .. calls :
      \/ id \in ToSet(processed) \cup MsgIds(processQueue) \cup MsgIds(mMsgQueue)
      \/ \E later \in id + 1 .. calls : typeOf[later] = typeOf[id]

FreedOnce ==
  /\ \A id \in Ids : id > calls => freed[id] = 0
  /\ app # "gone" =>
       \A id \in 1 .. calls :
         typeOf[id] = "SET_DATASOURCE" =>
           freed[id] = IF id \in MsgIds(processQueue) \cup MsgIds(mMsgQueue)
                       THEN 0 ELSE 1

MessageInv == CopyInv /\ MessageTypes /\ InOrder /\ NoneIsLost /\ FreedOnce

-----------------------------------------------------------------------------
\* The ids of a queue tell its messages apart.
LEMMA IdsAreDistinct ==
  ASSUME NEW q \in Seq(QueueMsg), Ascends(IdsOf(q)),
         NEW i \in DOMAIN q, NEW j \in DOMAIN q, q[i].id = q[j].id
  PROVE  i = j
<1>1. i \in 1 .. Len(q) /\ j \in 1 .. Len(q)
  OBVIOUS
<1>2. q[i].id \in Int
  <2>1. q[i] \in QueueMsg
    BY <1>1
  <2> QED
    BY <2>1 DEF QueueMsg, Ids
<1>3. i < j => q[i].id < q[j].id
  BY IdsOfMessages DEF Ascends
<1>4. j < i => q[j].id < q[i].id
  BY IdsOfMessages DEF Ascends
<1> QED
  BY <1>1, <1>2, <1>3, <1>4

\* What putMsg leaves in the queue.
LEMMA EnqueueResult ==
  ASSUME MessageTypes, InOrder, CanCall,
         NEW type \in MsgTypes, NEW url \in Urls \cup {NoUrl}, Enqueue(type, url)
  PROVE  /\ mMsgQueue' \in Seq(QueueMsg)
         /\ Ascends(IdsOf(mMsgQueue)')
         /\ calls + 1 \in MsgIds(mMsgQueue')
         /\ \A i \in DOMAIN mMsgQueue :
              mMsgQueue[i].type # type => mMsgQueue[i].id \in MsgIds(mMsgQueue')
         /\ \A i \in DOMAIN mMsgQueue' :
              \/ mMsgQueue'[i].id = calls + 1 /\ mMsgQueue'[i].type = type
              \/ \E j \in DOMAIN mMsgQueue : /\ mMsgQueue'[i] = mMsgQueue[j]
                                             /\ mMsgQueue[j].type # type
<1>2. calls \in Nat /\ calls + 1 \in Ids
  BY PlayerMsgsAssumption DEF MessageTypes, CanCall, Ids
<1>3. mMsgQueue \in Seq(QueueMsg)
  BY DEF MessageTypes
<1>3d. Len(mMsgQueue) \in Nat /\ DOMAIN mMsgQueue = 1 .. Len(mMsgQueue)
  BY <1>3
<1>3q. \A i \in DOMAIN mMsgQueue : /\ mMsgQueue[i] \in QueueMsg
                                   /\ AsPut(mMsgQueue[i])
  BY <1>3, <1>3d DEF InOrder
<1> DEFINE msg == [id |-> calls + 1, type |-> type, url |-> url]
<1>1n. PICK n \in 0 .. Len(mMsgQueue) : \E from \in [1 .. n -> DOMAIN mMsgQueue] :
         /\ \A i, j \in 1 .. n : i < j => from[i] < from[j]
         /\ ToSet(from) = {i \in DOMAIN mMsgQueue : mMsgQueue[i].type # type}
         /\ mMsgQueue' = Append([i \in 1 .. n |-> mMsgQueue[from[i]]], msg)
  BY DEF Enqueue
<1>1. PICK from \in [1 .. n -> DOMAIN mMsgQueue] :
        /\ \A i, j \in 1 .. n : i < j => from[i] < from[j]
        /\ ToSet(from) = {i \in DOMAIN mMsgQueue : mMsgQueue[i].type # type}
        /\ mMsgQueue' = Append([i \in 1 .. n |-> mMsgQueue[from[i]]], msg)
  BY <1>1n
<1> DEFINE rest == [i \in 1 .. n |-> mMsgQueue[from[i]]]
<1>2m. msg \in QueueMsg
  BY <1>2 DEF QueueMsg
<1> HIDE DEF msg
<1>4. rest \in Seq(QueueMsg) /\ Len(rest) = n /\ n \in Nat
  <2>1. n \in Nat
    BY <1>3d
  <2>2. \A i \in 1 .. n : mMsgQueue[from[i]] \in QueueMsg
    BY <1>3q
  <2> QED
    BY <2>1, <2>2
<1>5. /\ mMsgQueue' \in Seq(QueueMsg) /\ DOMAIN mMsgQueue' = 1 .. n + 1
      /\ mMsgQueue'[n + 1] = msg
      /\ \A i \in 1 .. n : mMsgQueue'[i] = mMsgQueue[from[i]]
  <2>1. \A i \in 1 .. n : rest[i] = mMsgQueue[from[i]]
    OBVIOUS
  <2> HIDE DEF rest
  <2> QED
    BY <1>1, <1>2m, <1>4, <2>1
<1>6. \A i \in 1 .. n : from[i] \in DOMAIN mMsgQueue /\ mMsgQueue[from[i]].type # type
  <2>1. \A i \in 1 .. n : from[i] \in ToSet(from)
    BY DEF ToSet
  <2> QED
    BY <1>1, <2>1
<1>7. ASSUME NEW i \in DOMAIN mMsgQueue, mMsgQueue[i].type # type
      PROVE  mMsgQueue[i].id \in MsgIds(mMsgQueue')
  <2>1. PICK k \in 1 .. n : from[k] = i
    BY <1>1, <1>7 DEF ToSet
  <2>2. k \in DOMAIN mMsgQueue' /\ mMsgQueue'[k] = mMsgQueue[i]
    BY <1>4, <1>5, <2>1
  <2> QED
    BY <2>2 DEF MsgIds
<1>8. calls + 1 \in MsgIds(mMsgQueue')
  BY <1>4, <1>5 DEF MsgIds, msg
<1>9. ASSUME NEW i \in DOMAIN mMsgQueue'
      PROVE  \/ mMsgQueue'[i].id = calls + 1 /\ mMsgQueue'[i].type = type
             \/ \E j \in DOMAIN mMsgQueue : mMsgQueue'[i] = mMsgQueue[j] /\ mMsgQueue[j].type # type
  <2>1. CASE i = n + 1
    BY <1>5, <2>1 DEF msg
  <2>2. CASE i # n + 1
    <3>1. i \in 1 .. n
      BY <1>4, <1>5, <2>2
    <3> QED
      BY <1>5, <1>6, <3>1
  <2> QED
    BY <2>1, <2>2
<1>10. ASSUME NEW i \in DOMAIN mMsgQueue', NEW j \in DOMAIN mMsgQueue', i < j
       PROVE  mMsgQueue'[i].id < mMsgQueue'[j].id
  <2>1. i \in 1 .. n
    BY <1>4, <1>5, <1>10
  <2>2. mMsgQueue'[i] = mMsgQueue[from[i]] /\ from[i] \in DOMAIN mMsgQueue
    BY <1>5, <1>6, <2>1
  <2>3. CASE j = n + 1
    <3>1. AsPut(mMsgQueue[from[i]])
      BY <2>2 DEF InOrder
    <3> QED
      BY <1>2, <1>5, <2>2, <2>3, <3>1 DEF AsPut, msg
  <2>4. CASE j # n + 1
    <3>1. j \in 1 .. n
      BY <1>4, <1>5, <2>4
    <3>2. mMsgQueue'[j] = mMsgQueue[from[j]] /\ from[j] \in DOMAIN mMsgQueue /\ from[i] < from[j]
      BY <1>1, <1>5, <1>6, <1>10, <2>1, <3>1
    <3> QED
      BY <1>3, <2>2, <3>2, IdsOfMessages DEF InOrder, Ascends
  <2> QED
    BY <2>3, <2>4
<1>11. Ascends(IdsOf(mMsgQueue)')
  <2>1. /\ DOMAIN IdsOf(mMsgQueue)' = DOMAIN mMsgQueue'
        /\ \A i \in DOMAIN mMsgQueue' : IdsOf(mMsgQueue)'[i] = mMsgQueue'[i].id
    BY DEF IdsOf
  <2> QED
    BY <1>10, <2>1 DEF Ascends
<1> QED
  BY <1>5, <1>7, <1>8, <1>9, <1>11

\* What processMsg leaves of its copy when it has distributed a message.
LEMMA TailResult ==
  ASSUME NEW q \in Seq(QueueMsg), q # <<>>, Ascends(IdsOf(q))
  PROVE  /\ Head(q) \in QueueMsg /\ Head(q).id \in MsgIds(q)
         /\ Tail(q) \in Seq(QueueMsg) /\ Ascends(IdsOf(Tail(q)))
         /\ \A i \in DOMAIN Tail(q) : \E j \in DOMAIN q : Tail(q)[i] = q[j]
         /\ MsgIds(q) = {Head(q).id} \cup MsgIds(Tail(q))
         /\ \A n \in MsgIds(Tail(q)) : Head(q).id < n
<1>1. /\ Len(q) \in Nat \ {0} /\ DOMAIN q = 1 .. Len(q)
      /\ Head(q) = q[1] /\ 1 \in DOMAIN q
      /\ Tail(q) \in Seq(QueueMsg) /\ DOMAIN Tail(q) = 1 .. Len(q) - 1
      /\ \A i \in 1 .. Len(q) - 1 : Tail(q)[i] = q[i + 1] /\ i + 1 \in DOMAIN q
  OBVIOUS
<1>2. ASSUME NEW i \in DOMAIN q, NEW j \in DOMAIN q, i < j
      PROVE  q[i].id < q[j].id
  BY <1>2, IdsOfMessages DEF Ascends
<1>3. Ascends(IdsOf(Tail(q)))
  <2> SUFFICES ASSUME NEW i \in DOMAIN Tail(q), NEW j \in DOMAIN Tail(q), i < j
               PROVE  Tail(q)[i].id < Tail(q)[j].id
    <3>1. Tail(q) \in Seq(QueueMsg)
      BY <1>1
    <3>2. /\ DOMAIN IdsOf(Tail(q)) = DOMAIN Tail(q)
          /\ \A i \in DOMAIN Tail(q) : IdsOf(Tail(q))[i] = Tail(q)[i].id
      BY <3>1, IdsOfMessages
    <3> QED
      BY <3>2 DEF Ascends
  <2> QED
    BY <1>1, <1>2
<1>4. ASSUME NEW n \in MsgIds(Tail(q))
      PROVE  Head(q).id < n /\ n \in MsgIds(q)
  <2>1. PICK i \in 1 .. Len(q) - 1 : n = Tail(q)[i].id
    BY <1>1 DEF MsgIds
  <2>2. n = q[i + 1].id /\ i + 1 \in DOMAIN q
    BY <1>1, <2>1
  <2> QED
    BY <1>1, <1>2, <2>2 DEF MsgIds
<1>5. ASSUME NEW n \in MsgIds(q), n # Head(q).id
      PROVE  n \in MsgIds(Tail(q))
  <2>1. PICK i \in DOMAIN q : n = q[i].id
    BY DEF MsgIds
  <2>2. i - 1 \in DOMAIN Tail(q) /\ Tail(q)[i - 1] = q[i]
    BY <1>1, <1>5, <2>1
  <2> QED
    BY <2>1, <2>2 DEF MsgIds
<1>6. Head(q).id \in MsgIds(q)
  BY <1>1 DEF MsgIds
<1> QED
  BY <1>1, <1>3, <1>4, <1>5, <1>6

LEMMA AscendingAppend ==
  ASSUME NEW s \in Seq(Int), NEW n \in Int, Ascends(s), \A m \in ToSet(s) : m < n
  PROVE  Ascends(Append(s, n)) /\ ToSet(Append(s, n)) = ToSet(s) \cup {n}
<1>1. /\ Len(s) \in Nat /\ DOMAIN s = 1 .. Len(s)
      /\ DOMAIN Append(s, n) = 1 .. Len(s) + 1
      /\ Append(s, n)[Len(s) + 1] = n
      /\ \A i \in 1 .. Len(s) : Append(s, n)[i] = s[i] /\ s[i] \in Int
  OBVIOUS
<1>2. \A i \in 1 .. Len(s) : s[i] < n
  BY <1>1 DEF ToSet
<1>3. Ascends(Append(s, n))
  BY <1>1, <1>2 DEF Ascends
<1>4. ToSet(Append(s, n)) = ToSet(s) \cup {n}
  <2>1. ToSet(Append(s, n)) = {Append(s, n)[i] : i \in 1 .. Len(s) + 1}
    BY <1>1 DEF ToSet
  <2>2. ToSet(s) = {s[i] : i \in 1 .. Len(s)}
    BY <1>1 DEF ToSet
  <2> QED
    BY <1>1, <2>1, <2>2
<1> QED
  BY <1>3, <1>4

LEMMA IdsAreIntegers ==
  ASSUME NEW s \in Seq(Ids)
  PROVE  s \in Seq(Int)
<1>1. s \in [1 .. Len(s) -> Ids] /\ Len(s) \in Nat
  OBVIOUS
<1>2. s \in [1 .. Len(s) -> Int]
  BY <1>1 DEF Ids
<1> QED
  BY <1>1, <1>2

LEMMA NoMessages ==
  MsgIds(<<>>) = {} /\ Ascends(IdsOf(<<>>)) /\ <<>> \in Seq(QueueMsg)
  BY DEF MsgIds, Ascends, IdsOf

-----------------------------------------------------------------------------
LEMMA PutKeepsMessages ==
  ASSUME MessageInv, MessagePut
  PROVE  MessageTypes' /\ InOrder' /\ NoneIsLost' /\ FreedOnce'
<1> USE DEF MessageInv
<1>1. PICK type \in MsgTypes, url \in Urls \cup {NoUrl} : PutMsg(type, url)
  BY DEF MessagePut
<1>2. /\ Enqueue(type, url) /\ Recycle(OfType(type)) /\ CanCall
      /\ UNCHANGED <<processQueue, processed, app>>
      /\ calls' = calls + 1 /\ typeOf' = Append(typeOf, type)
  BY <1>1 DEF MessagePut, PutMsg, Enqueue
<1>3. /\ mMsgQueue' \in Seq(QueueMsg)
      /\ Ascends(IdsOf(mMsgQueue)')
      /\ calls + 1 \in MsgIds(mMsgQueue')
      /\ \A i \in DOMAIN mMsgQueue :
           mMsgQueue[i].type # type => mMsgQueue[i].id \in MsgIds(mMsgQueue')
      /\ \A i \in DOMAIN mMsgQueue' :
           \/ mMsgQueue'[i].id = calls + 1 /\ mMsgQueue'[i].type = type
           \/ \E j \in DOMAIN mMsgQueue : /\ mMsgQueue'[i] = mMsgQueue[j]
                                          /\ mMsgQueue[j].type # type
  BY <1>2, EnqueueResult
<1>4. calls \in Nat /\ calls' = calls + 1 /\ calls + 1 \in Ids
      /\ calls' \in 0 .. MaxCalls
  BY <1>2, PlayerMsgsAssumption DEF MessageTypes, CanCall, Ids
<1>5. /\ typeOf' \in [1 .. calls' -> MsgTypes] /\ typeOf'[calls + 1] = type
      /\ \A id \in 1 .. calls : typeOf'[id] = typeOf[id]
  <2>1. typeOf \in Seq(MsgTypes) /\ Len(typeOf) = calls
    BY <1>4 DEF MessageTypes
  <2>2. /\ Append(typeOf, type) \in Seq(MsgTypes)
        /\ Len(Append(typeOf, type)) = calls + 1
        /\ Append(typeOf, type)[calls + 1] = type
        /\ \A id \in 1 .. calls : Append(typeOf, type)[id] = typeOf[id]
    BY <1>4, <2>1
  <2>3. Append(typeOf, type) \in [1 .. calls + 1 -> MsgTypes]
    <3>1. \A s \in Seq(MsgTypes) : s \in [1 .. Len(s) -> MsgTypes]
      OBVIOUS
    <3> QED
      BY <2>2, <3>1
  <2> QED
    BY <1>2, <2>2, <2>3
<1>6. /\ freed' \in [Ids -> Nat]
      /\ \A id \in Ids :
           freed'[id] =
             IF \E m \in OfType(type) : m.id = id /\ m.type = "SET_DATASOURCE"
             THEN freed[id] + 1 ELSE freed[id]
  <2>1. \A m, n \in OfType(type) : m.id = n.id => m = n
    <3> SUFFICES ASSUME NEW m \in OfType(type), NEW n \in OfType(type), m.id = n.id
                 PROVE  m = n
      OBVIOUS
    <3>1. PICK i \in DOMAIN mMsgQueue : m = mMsgQueue[i]
      BY DEF OfType
    <3>2. PICK j \in DOMAIN mMsgQueue : n = mMsgQueue[j]
      BY DEF OfType
    <3> QED
      BY <3>1, <3>2, IdsAreDistinct DEF MessageTypes, InOrder
  <2>2. freed \in [Ids -> Nat]
    BY DEF MessageTypes
  <2> QED
    BY <1>2, <2>1, <2>2, RecycleDeletesOnce
<1>7. MessageTypes'
  BY <1>2, <1>3, <1>4, <1>5, <1>6 DEF MessageTypes
\* The ids of the queue are the new one and those of the other type.
<1>8. /\ \A id \in MsgIds(mMsgQueue') : id = calls + 1 \/ id \in MsgIds(mMsgQueue)
      /\ \A id \in MsgIds(mMsgQueue) :
           \/ id \in MsgIds(mMsgQueue')
           \/ id \in 1 .. calls /\ typeOf[id] = type
  <2>1. ASSUME NEW i \in DOMAIN mMsgQueue
        PROVE  \/ mMsgQueue[i].id \in MsgIds(mMsgQueue')
               \/ mMsgQueue[i].id \in 1 .. calls /\ typeOf[mMsgQueue[i].id] = type
    BY <1>3 DEF InOrder, AsPut
  <2> QED
    BY <1>3, <2>1 DEF MsgIds
<1>9. \A i \in DOMAIN mMsgQueue' : AsPut(mMsgQueue[i])'
  <2> SUFFICES ASSUME NEW i \in DOMAIN mMsgQueue'
               PROVE  mMsgQueue'[i].id \in 1 .. calls'
                      /\ typeOf'[mMsgQueue'[i].id] = mMsgQueue'[i].type
    BY DEF AsPut
  <2>1. CASE mMsgQueue'[i].id = calls + 1 /\ mMsgQueue'[i].type = type
    BY <1>4, <1>5, <2>1
  <2>2. CASE \E j \in DOMAIN mMsgQueue : mMsgQueue'[i] = mMsgQueue[j]
    <3>1. AsPut(mMsgQueue'[i])
      BY <2>2 DEF InOrder
    <3> QED
      BY <1>4, <1>5, <3>1 DEF AsPut
  <2> QED
    BY <1>3, <2>1, <2>2
<1>10. \A i \in DOMAIN processQueue' : AsPut(processQueue[i])'
  BY <1>2, <1>4, <1>5 DEF InOrder, AsPut
<1>11. \A id \in MsgIds(processQueue) \cup MsgIds(mMsgQueue) : id \in 1 .. calls
  BY DEF MsgIds, InOrder, AsPut
<1>12. /\ \A m \in ToSet(processed) : m \in Int /\ m < calls + 1
       /\ \A m \in MsgIds(processQueue) : m < calls + 1
  <2>1. \A m \in ToSet(processed) : m \in Ids
    BY DEF MessageTypes, ToSet
  <2> QED
    BY <1>4, <1>11, <2>1 DEF InOrder, Ids
<1>13. InOrder'
  BY <1>2, <1>3, <1>4, <1>8, <1>9, <1>10, <1>12 DEF InOrder
<1>14. NoneIsLost'
  <2> SUFFICES ASSUME app # "gone", NEW id \in 1 .. calls + 1
               PROVE  \/ id \in ToSet(processed) \cup MsgIds(processQueue)
                                \cup MsgIds(mMsgQueue')
                      \/ \E later \in id + 1 .. calls + 1 :
                           typeOf'[later] = typeOf'[id]
    BY <1>2 DEF NoneIsLost
  <2>1. CASE id = calls + 1
    BY <1>3, <2>1
  <2>2. CASE id \in 1 .. calls
    <3>1. CASE \E later \in id + 1 .. calls : typeOf[later] = typeOf[id]
      BY <1>4, <1>5, <2>2, <3>1
    <3>2. CASE typeOf[id] = type
      BY <1>4, <1>5, <2>2, <3>2
    <3> QED
      BY <1>8, <2>2, <3>1, <3>2 DEF NoneIsLost
  <2> QED
    BY <1>4, <2>1, <2>2
<1>15. \A id \in Ids :
         (\E m \in OfType(type) : m.id = id /\ m.type = "SET_DATASOURCE") =>
            /\ id \in MsgIds(mMsgQueue) /\ id \in 1 .. calls
            /\ id \notin MsgIds(mMsgQueue') /\ id \notin MsgIds(processQueue)
  <2> SUFFICES ASSUME NEW m \in OfType(type)
               PROVE  /\ m.id \in MsgIds(mMsgQueue) /\ m.id \in 1 .. calls
                      /\ m.id \notin MsgIds(mMsgQueue')
                      /\ m.id \notin MsgIds(processQueue)
    OBVIOUS
  <2>1. PICK i \in DOMAIN mMsgQueue : m = mMsgQueue[i] /\ m.type = type
    BY DEF OfType
  <2>2. m.id \in MsgIds(mMsgQueue) /\ m.id \in 1 .. calls
    BY <2>1 DEF MsgIds, InOrder, AsPut
  <2>3. m.id \notin MsgIds(mMsgQueue')
    <3> SUFFICES ASSUME NEW j \in DOMAIN mMsgQueue', mMsgQueue'[j].id = m.id
                 PROVE  FALSE
      BY DEF MsgIds
    <3>1. mMsgQueue'[j].id # calls + 1
      BY <1>4, <2>2
    <3>2. PICK k \in DOMAIN mMsgQueue : /\ mMsgQueue'[j] = mMsgQueue[k]
                                        /\ mMsgQueue[k].type # type
      BY <1>3, <3>1
    <3>3. k = i
      BY <2>1, <3>2, IdsAreDistinct DEF MessageTypes, InOrder
    <3> QED
      BY <2>1, <3>2, <3>3
  <2>4. m.id \notin MsgIds(processQueue)
    BY <1>11, <2>2 DEF InOrder
  <2> QED
    BY <2>2, <2>3, <2>4
<1>16. FreedOnce'
  <2>1. ASSUME NEW id \in Ids, id > calls + 1
        PROVE  freed'[id] = 0
    BY <1>4, <1>6, <1>15, <2>1 DEF FreedOnce, Ids
  <2>2. ASSUME app # "gone", NEW id \in 1 .. calls + 1,
               typeOf'[id] = "SET_DATASOURCE"
        PROVE  freed'[id] =
                 IF id \in MsgIds(processQueue) \cup MsgIds(mMsgQueue') THEN 0 ELSE 1
    <3>1. id \in Ids
      BY <1>4, PlayerMsgsAssumption DEF Ids
    <3>2. CASE id = calls + 1
      <4>1. freed[id] = 0
        BY <1>4, <3>1, <3>2 DEF FreedOnce
      <4> QED
        BY <1>3, <1>4, <1>6, <1>15, <3>1, <3>2, <4>1
    <3>3. CASE id \in 1 .. calls
      <4>1. freed[id] = IF id \in MsgIds(processQueue) \cup MsgIds(mMsgQueue)
                        THEN 0 ELSE 1
        BY <1>5, <2>2, <3>3 DEF FreedOnce
      <4>2. CASE \E m \in OfType(type) : m.id = id /\ m.type = "SET_DATASOURCE"
        BY <1>6, <1>15, <3>1, <4>1, <4>2
      <4>3. CASE ~\E m \in OfType(type) : m.id = id /\ m.type = "SET_DATASOURCE"
        <5>1. freed'[id] = freed[id]
          BY <1>6, <3>1, <4>3
        <5>2. id \in MsgIds(mMsgQueue) => id \in MsgIds(mMsgQueue')
          <6> SUFFICES ASSUME NEW i \in DOMAIN mMsgQueue, mMsgQueue[i].id = id
                       PROVE  mMsgQueue[i].type # type
            BY <1>3 DEF MsgIds
          <6>1. mMsgQueue[i].type = "SET_DATASOURCE"
            BY <1>5, <2>2, <3>3 DEF InOrder, AsPut
          <6> QED
            BY <4>3, <6>1 DEF OfType
        <5>3. id \in MsgIds(mMsgQueue') => id \in MsgIds(mMsgQueue)
          BY <1>4, <1>8, <3>3
        <5> QED
          BY <4>1, <5>1, <5>2, <5>3
      <4> QED
        BY <4>2, <4>3
    <3> QED
      BY <1>4, <3>2, <3>3
  <2> QED
    BY <1>2, <2>1, <2>2 DEF FreedOnce
<1> QED
  BY <1>7, <1>13, <1>14, <1>16

LEMMA TakeKeepsMessages ==
  ASSUME MessageInv, MessagesTaken
  PROVE  MessageTypes' /\ InOrder' /\ NoneIsLost' /\ FreedOnce'
<1>1. /\ processQueue = <<>> /\ processQueue' = mMsgQueue /\ mMsgQueue' = <<>>
      /\ UNCHANGED <<calls, typeOf, processed, freed, app>>
  BY DEF MessagesTaken
<1>2. /\ MsgIds(processQueue) = {} /\ MsgIds(mMsgQueue') = {}
      /\ MsgIds(processQueue') = MsgIds(mMsgQueue)
      /\ Ascends(IdsOf(mMsgQueue)') /\ mMsgQueue' \in Seq(QueueMsg)
      /\ IdsOf(processQueue)' = IdsOf(mMsgQueue)
      /\ DOMAIN mMsgQueue' = {}
  BY <1>1, NoMessages DEF IdsOf
<1>3. MessageTypes'
  BY <1>1, <1>2 DEF MessageInv, MessageTypes
<1>4. InOrder'
  BY <1>1, <1>2 DEF MessageInv, InOrder, AsPut
<1>5. NoneIsLost' /\ FreedOnce'
  BY <1>1, <1>2 DEF MessageInv, NoneIsLost, FreedOnce
<1> QED
  BY <1>3, <1>4, <1>5

LEMMA DistributionKeepsMessages ==
  ASSUME MessageInv, MessageDistributed
  PROVE  MessageTypes' /\ InOrder' /\ NoneIsLost' /\ FreedOnce'
<1> DEFINE first == Head(processQueue)
<1>1. /\ processQueue' = Tail(processQueue)
      /\ processed' = Append(processed, first.id) /\ Recycle({first})
      /\ UNCHANGED <<mMsgQueue, calls, typeOf, app>>
  BY DEF MessageDistributed, Distributed, Current
<1>2. /\ first \in QueueMsg /\ first.id \in MsgIds(processQueue)
      /\ processQueue' \in Seq(QueueMsg) /\ Ascends(IdsOf(processQueue)')
      /\ \A i \in DOMAIN processQueue' :
           \E j \in DOMAIN processQueue : processQueue'[i] = processQueue[j]
      /\ MsgIds(processQueue) = {first.id} \cup MsgIds(processQueue')
      /\ \A n \in MsgIds(processQueue') : first.id < n
  <2>1. IdsOf(processQueue)' = IdsOf(Tail(processQueue))
    BY <1>1 DEF IdsOf
  <2>2. /\ processQueue \in Seq(QueueMsg) /\ processQueue # <<>>
        /\ Ascends(IdsOf(processQueue))
    BY DEF MessageInv, MessageTypes, InOrder, MessageDistributed
  <2> QED
    BY <1>1, <2>1, <2>2, TailResult
<1>3. AsPut(first)
  <2>1. PICK j \in DOMAIN processQueue : first = processQueue[j]
    BY DEF MessageDistributed, MessageInv, MessageTypes
  <2> QED
    BY <2>1 DEF MessageInv, InOrder
<1>4. first.id \in Ids /\ first.id \in 1 .. calls /\ typeOf[first.id] = first.type
  BY <1>2, <1>3 DEF QueueMsg, AsPut
<1>5. /\ processed' \in Seq(Ids) /\ Ascends(processed')
      /\ ToSet(processed') = ToSet(processed) \cup {first.id}
  <2>1. processed \in Seq(Ids) /\ Ascends(processed)
    BY DEF MessageInv, MessageTypes, InOrder
  <2>2. processed \in Seq(Int) /\ first.id \in Int
    BY <1>4, <2>1, IdsAreIntegers DEF Ids
  <2>3. \A m \in ToSet(processed) : m < first.id
    BY <1>2 DEF MessageInv, InOrder
  <2> QED
    <3> HIDE DEF first
    <3>1. Append(processed, first.id) \in Seq(Ids)
      BY <1>4, <2>1
    <3>2. /\ Ascends(Append(processed, first.id))
          /\ ToSet(Append(processed, first.id)) = ToSet(processed) \cup {first.id}
      BY <2>1, <2>2, <2>3, AscendingAppend
    <3> QED
      BY <1>1, <3>1, <3>2
<1>6. /\ freed' \in [Ids -> Nat]
      /\ \A id \in Ids :
           freed'[id] = IF id = first.id /\ first.type = "SET_DATASOURCE"
                        THEN freed[id] + 1 ELSE freed[id]
  <2>1. freed \in [Ids -> Nat]
    BY DEF MessageInv, MessageTypes
  <2> HIDE DEF first
  <2>2. /\ freed' \in [Ids -> Nat]
        /\ \A id \in Ids :
             freed'[id] =
               IF \E m \in {first} : m.id = id /\ m.type = "SET_DATASOURCE"
               THEN freed[id] + 1 ELSE freed[id]
    BY <1>1, <2>1, RecycleDeletesOnce
  <2> QED
    BY <2>2
<1> HIDE DEF first
<1>7. MessageTypes'
  BY <1>1, <1>2, <1>5, <1>6 DEF MessageInv, MessageTypes
<1>8. InOrder'
  <2>1. /\ \A i \in DOMAIN mMsgQueue' : AsPut(mMsgQueue[i])'
        /\ \A i \in DOMAIN processQueue' : AsPut(processQueue[i])'
    BY <1>1, <1>2 DEF MessageInv, InOrder, AsPut
  <2>2. Ascends(IdsOf(mMsgQueue)')
    BY <1>1 DEF MessageInv, InOrder, IdsOf
  <2>3. \A m \in ToSet(processed') : m <= calls'
    BY <1>1, <1>4, <1>5 DEF MessageInv, MessageTypes, InOrder
  <2>4. /\ \A m \in ToSet(processed'),
              n \in MsgIds(processQueue') \cup MsgIds(mMsgQueue') : m < n
        /\ \A m \in MsgIds(processQueue'), n \in MsgIds(mMsgQueue') : m < n
    BY <1>1, <1>2, <1>5 DEF MessageInv, InOrder
  <2> QED
    BY <1>2, <1>5, <2>1, <2>2, <2>3, <2>4 DEF InOrder
<1>9. NoneIsLost'
  BY <1>1, <1>2, <1>5 DEF MessageInv, NoneIsLost
<1>10. first.id \notin MsgIds(processQueue') \cup MsgIds(mMsgQueue)
  <2>1. \A n \in MsgIds(processQueue') \cup MsgIds(mMsgQueue) : first.id < n
    BY <1>2 DEF MessageInv, InOrder
  <2> QED
    BY <1>4, <2>1
<1>11. FreedOnce'
  <2>1. ASSUME NEW id \in Ids, id > calls
        PROVE  freed'[id] = 0
    BY <1>4, <1>6, <2>1 DEF MessageInv, MessageTypes, FreedOnce, Ids
  <2>2. ASSUME app # "gone", NEW id \in 1 .. calls, typeOf[id] = "SET_DATASOURCE"
        PROVE  freed'[id] =
                 IF id \in MsgIds(processQueue') \cup MsgIds(mMsgQueue) THEN 0 ELSE 1
    <3>1. freed[id] = IF id \in MsgIds(processQueue) \cup MsgIds(mMsgQueue)
                      THEN 0 ELSE 1
      BY <2>2 DEF MessageInv, FreedOnce
    <3>2. id \in Ids
      BY PlayerMsgsAssumption DEF MessageInv, MessageTypes, Ids
    <3>3. CASE id = first.id
      BY <1>2, <1>4, <1>6, <1>10, <2>2, <3>1, <3>2, <3>3
    <3>4. CASE id # first.id
      BY <1>2, <1>6, <3>1, <3>2, <3>4
    <3> QED
      BY <3>3, <3>4
  <2> QED
    BY <1>1, <2>1, <2>2 DEF FreedOnce
<1> QED
  BY <1>7, <1>8, <1>9, <1>11

LEMMA MessageInvStep ==
  ASSUME MessageInv, [Next]_vars
  PROVE  MessageInv'
<1>1. CASE UNCHANGED vars
  <2> USE <1>1 DEF vars
  <2>1. MessageTypes' /\ CopyInv'
    BY DEF MessageInv, MessageTypes, CopyInv, Distributing
  <2>2. InOrder' /\ NoneIsLost' /\ FreedOnce'
    BY DEF MessageInv, InOrder, AsPut, NoneIsLost, FreedOnce, IdsOf, MsgIds
  <2> QED
    BY <2>1, <2>2 DEF MessageInv
<1>2. CASE Next
  <2>1. /\ CopyInv'
        /\ \/ MessagesStay /\ (app = "gone" => app' = "gone")
           \/ MessagePut \/ MessagesTaken \/ MessageDistributed \/ MessagesGone
    BY <1>2, MessageSteps DEF MessageInv
  <2>2. CASE MessagesStay /\ (app = "gone" => app' = "gone")
    <3> USE <2>2 DEF MessagesStay
    <3>1. MessageTypes'
      BY DEF MessageInv, MessageTypes
    <3>2. InOrder' /\ NoneIsLost' /\ FreedOnce'
      BY DEF MessageInv, InOrder, AsPut, NoneIsLost, FreedOnce, IdsOf, MsgIds
    <3> QED
      BY <2>1, <3>1, <3>2 DEF MessageInv
  <2>3. CASE MessagesGone
    <3>1. /\ mMsgQueue' = <<>> /\ app' = "gone"
          /\ UNCHANGED <<processQueue, calls, typeOf, processed, freed>>
      BY <2>3 DEF MessagesGone, DestroyMsgController
    <3>2. /\ MsgIds(mMsgQueue') = {} /\ DOMAIN mMsgQueue' = {}
          /\ Ascends(IdsOf(mMsgQueue)') /\ mMsgQueue' \in Seq(QueueMsg)
          /\ IdsOf(processQueue)' = IdsOf(processQueue)
      BY <3>1, NoMessages DEF IdsOf
    <3>3. MessageTypes'
      BY <3>1, <3>2 DEF MessageInv, MessageTypes
    <3>4. InOrder'
      BY <3>1, <3>2 DEF MessageInv, InOrder, AsPut
    <3>5. NoneIsLost' /\ FreedOnce'
      BY <3>1 DEF MessageInv, NoneIsLost, FreedOnce
    <3> QED
      BY <2>1, <3>3, <3>4, <3>5 DEF MessageInv
  <2> QED
    BY <2>1, <2>2, <2>3, PutKeepsMessages, TakeKeepsMessages,
       DistributionKeepsMessages DEF MessageInv
<1> QED
  BY <1>1, <1>2

LEMMA AlwaysMessageInv == Spec => []MessageInv
<1>1. Init => MessageInv
  <2> SUFFICES ASSUME Init
               PROVE  MessageInv
    OBVIOUS
  <2> USE DEF Init
  <2>1. MessageTypes /\ CopyInv
    BY PlayerMsgsAssumption
    DEF MessageTypes, CopyInv, Distributing, Ids
  <2>2. InOrder /\ NoneIsLost /\ FreedOnce
    BY NoMessages, PlayerMsgsAssumption
    DEF InOrder, NoneIsLost, FreedOnce, Ascends, AsPut, ToSet, Ids
  <2> QED
    BY <2>1, <2>2 DEF MessageInv
<1>2. MessageInv /\ [Next]_vars => MessageInv'
  BY MessageInvStep
<1> QED
  BY <1>1, <1>2, PTL DEF Spec

-----------------------------------------------------------------------------
(***************************************************************************)
(* For any addresses and any number of calls, the messages are processed   *)
(* in the order of the calls, those put while others are processed         *)
(* included, and none disappears but for a later one of its type.          *)
(***************************************************************************)
THEOREM MessagesStayInOrder == Spec => []MessagesInOrder
<1>1. MessageInv => MessagesInOrder
  <2> SUFFICES ASSUME MessageInv
               PROVE  MessagesInOrder
    OBVIOUS
  <2> DEFINE p == IdsOf(processQueue)
             q == IdsOf(mMsgQueue)
  <2>1. /\ processed \in Seq(Ids) /\ Ascends(processed)
        /\ p \in Seq(Ids) /\ Ascends(p) /\ ToSet(p) = MsgIds(processQueue)
        /\ q \in Seq(Ids) /\ Ascends(q) /\ ToSet(q) = MsgIds(mMsgQueue)
    BY IdsOfMessages DEF MessageInv, MessageTypes, InOrder
  <2>2. /\ \A m \in ToSet(processed), n \in ToSet(p) : m < n
        /\ \A m \in ToSet(processed) \cup ToSet(p), n \in ToSet(q) : m < n
    BY <2>1 DEF MessageInv, InOrder
  <2> HIDE DEF p, q
  <2>4. processed \in Seq(Int) /\ p \in Seq(Int) /\ q \in Seq(Int)
    BY <2>1, IdsAreIntegers
  <2>5. /\ processed \o p \in Seq(Int)
        /\ ToSet(processed \o p) = ToSet(processed) \cup ToSet(p)
    BY <2>4, Concatenation
  <2>6. Ascends(processed \o p)
    BY <2>1, <2>2, <2>4, AscendingConcatenation
  <2>7. ToSet(processed \o p \o q) = ToSet(processed) \cup ToSet(p) \cup ToSet(q)
    <3>1. ToSet((processed \o p) \o q) = ToSet(processed \o p) \cup ToSet(q)
      <4> DEFINE front == processed \o p
      <4>1. front \in Seq(Int)
        BY <2>5
      <4> HIDE DEF front
      <4>2. ToSet(front \o q) = ToSet(front) \cup ToSet(q)
        BY <2>4, <4>1, Concatenation
      <4> QED
        BY <4>2 DEF front
    <3> QED
      BY <2>5, <3>1
  <2>8. Ascends(processed \o p \o q)
    BY <2>1, <2>2, <2>4, <2>5, <2>6, AscendingConcatenation
  <2>9. Order = processed \o p \o q
    BY DEF Order, p, q
  <2> QED
    BY <2>1, <2>7, <2>8, <2>9 DEF MessageInv, NoneIsLost, MessagesInOrder, Ascends
<1> QED
  BY <1>1, AlwaysMessageInv, PTL

(***************************************************************************)
(* For any addresses and any number of calls, the url of a setDataSource   *)
(* message is deleted once, and not before the message has left both       *)
(* queues.                                                                 *)
(***************************************************************************)
THEOREM UrlsAreFreedOnce == Spec => []UrlsFreedOnce
<1>1. MessageInv => UrlsFreedOnce
  <2> SUFFICES ASSUME MessageInv
               PROVE  UrlsFreedOnce
    OBVIOUS
  <2>1. processQueue \in Seq(QueueMsg) /\ mMsgQueue \in Seq(QueueMsg)
    BY DEF MessageInv, MessageTypes
  <2>2. processQueue \o mMsgQueue \in Seq(QueueMsg)
    BY <2>1
  <2>3. MsgIds(processQueue \o mMsgQueue) = MsgIds(processQueue) \cup MsgIds(mMsgQueue)
    <3>1. \A s : MsgIds(s) = {m.id : m \in ToSet(s)}
      BY DEF MsgIds, ToSet
    <3>2. ToSet(processQueue \o mMsgQueue) = ToSet(processQueue) \cup ToSet(mMsgQueue)
      BY <2>1, Concatenation
    <3> QED
      BY <3>1, <3>2
  <2>4. ToSet(IdsOf(processQueue \o mMsgQueue)) =
          MsgIds(processQueue) \cup MsgIds(mMsgQueue)
    BY <2>2, <2>3, IdsOfMessages
  <2> QED
    BY <2>4 DEF MessageInv, FreedOnce, UrlsFreedOnce
<1> QED
  BY <1>1, AlwaysMessageInv, PTL

-----------------------------------------------------------------------------
PlaceTypes ==
  /\ mPlayerMutex \in BOOLEAN
  /\ mPlayStatus \in Statuses
  /\ mParams_url \in Urls \cup {NoUrl}
  /\ mDemuxerService \in {"null", "made", "open", "started"}
  /\ ppc \in {"none", "top", "process", "open", "make", "initOpen", "start",
              "media", "read", "done"}
  /\ app \in {"alive", "thread", "join", "queue", "gone"}
  /\ fault \in {"none", "assert", "deref"}

LEMMA AppKeepsPlaceTypes ==
  ASSUME PlaceTypes, App
  PROVE  PlaceTypes'
<1> USE DEF PlaceTypes
<1>1. CASE (\E url \in Urls : SetDataSource(url)) \/ Prepare
  BY <1>1 DEF SetDataSource, Prepare, PlayerUnchanged
<1>2. CASE PrepareStartsThread
  BY <1>2 DEF PrepareStartsThread, PlayerUnchanged
<1>3. CASE Destructor
  BY <1>3 DEF Destructor, DestroyDemuxerService, DestroyThread, JoinThread,
     DestroyMsgController, DestructorUnchanged
<1> QED
  BY <1>1, <1>2, <1>3 DEF App

LEMMA PlayerKeepsPlaceTypes ==
  ASSUME PlaceTypes, MessageTypes, Player
  PROVE  PlaceTypes'
<1> USE DEF PlaceTypes, PlayerAt
<1>1. CASE LoopEnds \/ TakeMessages \/ NoMessage \/ MessagesDone \/ MediaLoop
  BY <1>1 DEF LoopEnds, TakeMessages, NoMessage, MessagesDone, MediaLoop
<1>2. CASE ProcessSetDataSourceMsg
  <2>1. Current \in QueueMsg
    BY <1>2 DEF ProcessSetDataSourceMsg, Current, MessageTypes
  <2>2. Current.url \in Urls \cup {NoUrl}
    BY <2>1 DEF QueueMsg
  <2> QED
    BY <1>2, <2>2 DEF ProcessSetDataSourceMsg, Statuses
<1>3. CASE ProcessPrepareMsg
  BY <1>3 DEF ProcessPrepareMsg, Statuses
<1>4. CASE OpenUrl \/ MakeDemuxerService
  BY <1>4 DEF OpenUrl, MakeDemuxerService, PrepareGivesUp
<1>5. CASE InitOpen
  BY <1>5 DEF InitOpen, PrepareGivesUp, Fail
<1>6. CASE StartDemuxer
  BY <1>6 DEF StartDemuxer, Fail, Statuses
<1>7. CASE ReadPacket
  BY <1>7 DEF ReadPacket, Fail
<1> QED
  BY <1>1, <1>2, <1>3, <1>4, <1>5, <1>6, <1>7 DEF Player

(***************************************************************************)
(* For any addresses and any number of calls, the queues hold messages and *)
(* the status is one of the four that the code reaches.                    *)
(***************************************************************************)
THEOREM MessagesTypeCorrect == Spec => []TypeOK
<1>1. Init => PlaceTypes
  BY DEF Init, PlaceTypes, Statuses
<1>2. PlaceTypes /\ MessageInv /\ [Next]_vars => PlaceTypes'
  <2> SUFFICES ASSUME PlaceTypes, MessageInv, [Next]_vars
               PROVE  PlaceTypes'
    OBVIOUS
  <2>1. CASE UNCHANGED vars
    BY <2>1 DEF PlaceTypes, vars
  <2> QED
    BY <2>1, AppKeepsPlaceTypes, PlayerKeepsPlaceTypes DEF MessageInv, Next
<1>3. PlaceTypes /\ MessageInv => TypeOK
  BY DEF PlaceTypes, MessageInv, MessageTypes, TypeOK
<1> QED
  BY <1>1, <1>2, <1>3, AlwaysMessageInv, PTL DEF Spec
=============================================================================
