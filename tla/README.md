# SNPlayer in TLA+

TLA+ models of the concurrent core of SNPlayer, a small C++ media player on top
of FFmpeg and curl, with the TLC configurations that check them and the TLAPS
proofs about them. `map` in `PROJECT.json` ties every definition to the lines of
`src/` it models.

## 1. Inventory

| part | state it keeps | operations | talks to |
|---|---|---|---|
| `SnPlayer` (media_player/SnPlayer.cpp) | `mPlayStatus`, `mDemuxerService`, `mParams`, `mBufferIsFull`, `mLowMem`, `mReadEos`, `mVideoPacket`, a main thread | `setDataSource`, `prepare`, `mainService` with the media loop; `start/stop/pause/seekTo` have empty bodies | puts messages, runs the processor and the media loop on its thread |
| `PlayerMsgController` | `mMsgQueue` under a mutex | `putMsg` (replacing queued messages of the same type), `processMsg` | called by the application and by the player's thread |
| `PlayerMsgProcessor` | none of its own | `processSetDataSourceMsg`, `processPrepareMsg` | changes the player's status, creates the data source and the demuxer service |
| `DemuxerService`, `AVFFDemuxer` (framework/demuxer) | FFmpeg context, opened streams, `mPacketQueue`, `mReadEOS`, `mError`, `bPaused`, `mExited`, a read thread | `open`, `openStream`, `closeStream`, `start`, `stop`, `preStop`, `readPacket` | read thread fills the queue, the player's thread empties it |
| `SNThread` (framework/utils) | `mStatus`, `mWaitPaused`, `mTryPause`, two mutexes and a condition | `start`, `pause`, `tryPause`, `stop`, destructor, `runLoop` | under the player, the demuxer, the decoder and the connection manager |
| `BufferController`, `MediaPacketQueue` (media_player) | per stream a `std::list` of packets, an iterator to the next one, two duration counters, a backward limit | `addPacket`, `getPacket`, `clear`, `rewind`, `setMaxBackwardDuration`, the `clearPacket...` and the key frame queries | between `doReadPacket` and the decoder |
| `SNActiveDecoder`, `SNFFDecoder` (framework/codec), behind `DeviceManager` | input and output queues, flags for end of stream, holding and flushing, a decoding thread | `sendPacket`, `getFrame`, `pause`, `flush`, `holdOn`, `close` | pulled by the player through `DeviceManager` |
| `CurlDataSource`, `CurlConnection`, `CurlConnectionManager`, `RingBuffer` (framework/data_source, base) | per connection a ring buffer, positions, status, `mPaused`; in the manager three pending sets and a thread | `open`, `read`, `seek` with reconnects; `startConnect`, `fillBuffer`, `shortSeek` | the manager's thread runs curl, whose callbacks fill the ring buffer the reader empties |
| renders, notifier, parameters, bitstream filters, utilities | - | interfaces without implementation, a thread that is never started, data, FFmpeg calls | - |

How they interact: the application calls `SnPlayer`, which only queues messages.
The player's thread (an `SNThread`) takes them, opens the data source and the
demuxer and starts the demuxer's read thread (another `SNThread`). From then on
its loop moves packets from the demuxer's queue into the playback queues and from
there into the decoder, whose own thread decodes. A data source over HTTP adds a
fourth thread, the manager's. All of them share state under locks that are not
always the same lock.

What is hard: two-flag pausing with a condition variable and a second mutex;
plain fields read by one thread and written by another; stopping a thread that
waits for room only its stopper makes; a message queue that replaces entries
while a copy of it is being processed; an iterator and two counters that have to
describe the same cut of a list through every sequence of calls; a transfer that
pauses itself when a buffer is full and is continued by two threads; destruction
while a thread runs. Nothing is persisted, so there is no crash recovery. The
list of hazards, each at its line, is `hazards` in `PROJECT.json`.

What makes each part correct:

* queue: packets come out once each, in order; trimming what was played never
  reaches what was not; the counters are sums of what they count; no assertion fails.
* thread: a returned `pause()` or `stop()` means the user function is not running;
  no `stop()` is undone; every call returns.
* demuxer: every packet read is delivered once in file order, the queue is bounded,
  `stop()` returns, a reading player gets the whole file and its end.
* messages: processed in call order, each url freed once, only a started demuxer is
  read, the source is not replaced under a playing player, `prepare()` is acted
  upon, the player can be destroyed.
* media loop: video packets reach the decoder once and in order whatever the
  decoder refuses, the buffer is bounded, and neither a full buffer nor low memory
  stops the loop for good.
* decoder: frames come out once and in order, one thread at a time uses the codec,
  a flush leaves nothing old, the codec gets the end last, and the end is reached.
* curl: a read returns the file at the reader's position, across the wrap-around,
  steps back, errors and restarts; no continuation of a paused transfer is lost; the
  transfer a seek abandons is off the multi handle before the next one performs;
  calls return.

## 2. Modules

| module | models | correspondence |
|---|---|---|
| `MediaPacketQueue` | `MediaPacketQueue.cpp` | `mQueue` is a sequence, `mCurrent` a position in it: 1 is `begin()`, `Len + 1` is `end()`, 0 an iterator to an erased element. One action per method, as each holds the queue's recursive mutex (`rewind` and `setMaxBackwardDuration` do not; they are atomic here because one thread uses the queue). The loops are recursive functions over no more turns than the list has elements. `fault` records a failed assertion or a dereference of no element, which ends the process. |
| `PlaybackTape` | the promise of a queue | a tape cut at the cursor into `played` and `pending`, with no iterator and no counters |
| `PlayerPipeline` | the media loop of `SnPlayer.cpp`, `BufferController.cpp`, `DeviceManager.cpp` | extends `MediaPacketQueue`, which is its video queue: every step of the loop that touches the queue is an action of that module. `at` places the player's thread in a turn. The demuxer is a file of numbered video packets and a count of audio packets; of the audio queue only the duration matters. Each look at the memory (`LowMemory`, `EnoughMemory`) may find it low, middling or plenty. The decoder is its two bounded queues; opening it may fail. |
| `SNThread` | `SNThread.cpp` | one step per access that another thread can see; `at`/`op` place the callers in their methods, `wpc` places the inner thread in `runLoop`; `waiting` is the wait set of `mWaitCond`, `notify_one` releases any member of it, and a wait may end without notification. |
| `AVFFDemuxer` | `AVFFDemuxer.cpp` | packets are positions in `Media`; `next` is FFmpeg's place in the file. `readLoop` is cut where it releases a lock or waits; `start` and `stop` are cut between their own assignments and the thread's. `SNThread` is represented by what `SNThread.tla` shows of it: its status, the loop test and joining. |
| `PlayerMsgs` | `SnPlayer.cpp`, `PlayerMsgController.cpp`, `PlayerMsgProcessor.cpp` | `mMsgQueue` and its copy `processQueue`; `processPrepareMsg` is cut at every point where the destructor of the application's thread may come in. The demuxer service is one of null, made, open, started. |
| `SNActiveDecoder` | `SNActiveDecoder.cpp`, `SNFFDecoder.cpp` | packets and frames are numbers in the order of sending; one step per access to a queue or flag the other thread uses. The codec is a queue of `CodecSize` packets that is told to drain; it may refuse a packet or give a damaged frame. The four methods that pause the thread share their first steps and differ in the last (`PauseEnds`, `HoldOnEnds`, `FlushEnds`, `CloseEnds`). The thread keeps as much of `runLoop` as the decoder can tell apart, the lost wakeup of `start()` included. |
| `RingBuffer` | `RingBuffer.cpp` | a buffer is a record of the code's fields, a method an operator on it; a byte is its position in the file. `Holds(b, pos)` says that the buffer's bytes are the file around `pos`. |
| `CurlConnectionManager` | `CurlConnectionManager.cpp` and the callbacks of `CurlConnection.cpp` | `phase` places the manager's thread in `loop()`, one step per lock taken. curl is external: a transfer hands out the file from the resume position in pieces, hands a refused piece out again, and ends with an error or after the last byte. `fault` records the callback's assertion and the use of a destroyed connection. |
| `CurlDataSource` | `CurlDataSource.cpp`, the reader's half of `CurlConnection.cpp` | extends the manager; `at` and `then` place the calling thread in `open`, `read`, `seek` and in `fillBuffer` under them. `locked` is the mutex a short seek keeps while it waits. |
| `MediaPacketQueueProofs`, `PlayerPipelineProofs`, `AVFFDemuxerProofs`, `SNThreadProofs`, `PlayerMsgsProofs`, `SNActiveDecoderProofs`, `RingBufferProofs`, `CurlDataSourceProofs` | - | theorems about the module of the name |
| `MC...` | - | values for the constants |

Left out of the modelled parts: logging, thread names, begin and end callbacks,
packet payloads, the choice between tracks of one type, the interrupt flag of the
demuxer that nothing sets, `PlayerMsgController::clear` and `isContainMsg`, which
nothing calls, and of curl the range, the interrupt, the listener and
`mNeedReconnect`, which nothing sets. Queue queries that only compute a value
(`getDuration`, the key frame queries, `getSize`) appear by the one effect they
can have: the dereference in `QueryFaults`.

Definitions marked "Mutant" in a module are variants of the definition next to
them with a plausible bug. Each property of a passing run has one that breaks it
(`mutants` in `PROJECT.json`); nothing else uses them.

## 3. Runs

| run | question | bounds |
|---|---|---|
| `queue_any` | do counters and order hold under every method in any order, up to a failure of the code? | five dated packets, limits 1 and 3 (from no limit to one and from one to the other, never back to 0: section 4), times 2 and 5, three in the queue: enough to have one played, one current and one behind it, and to trim two at once |
| `queue_clear` | violation: does `clear()` keep the assertion of `getPacket()`? | two in the queue |
| `player_pipeline` | in the player's own use, do the queue's assertions, counters and order hold, are packets lost, repeated or reordered on their way to the decoder, is the buffer bounded, does the loop go on? | four video packets, three of them of two kinds (dated or not, discarded or not, key frame or not), and four audio packets; video, audio or both; a full buffer is 3 long, so that reading stops and starts again; a decoder that takes one packet and gives one frame at a time; one failed opening; the end answered EOS or ERROR |
| `thread_calls` | do a returned pause and a stop hold against `runLoop`, and does every call return? | two callers with three calls each: a start, a pause or tryPause and a stop overlap, and a thread is restarted after a stop |
| `thread_resume` | violation: does `start()` wake a paused thread? | one caller, three calls |
| `demuxer_reads` | is anything lost, repeated or reordered, is the queue bounded, does `stop()` return, is everything delivered? | four packets of two streams, limit 1 (so the queue holds two and the thread blocks with a third), two stops, read and filter errors at any packet, restarts |
| `demuxer_end` | violation: is the end reported? | no faults, no stops |
| `decoder_calls` | are frames lost, repeated, reordered or old, do both threads use the codec, is the end reached? | three packets of three kinds (key, delta, leading), input queue of two, output queue and codec of one, so each of them fills up; two of the optional calls, so that a flush follows a pause, a hold or another flush |
| `msgs_calls` | order, ownership, status, answers and destruction | two urls, four calls: a message replaced, one put while its predecessor is processed, and one after |
| `msgs_assert` | violation: does the assertion of `readPacket` hold? | three calls |
| `curl_calls` | does a read return the file, is a continuation lost, is an abandoned transfer out of curl before the next one performs, do calls return? | a file of six bytes through a buffer of five with one kept for a step back, so it wraps, fills and pauses; pieces of one byte, reads of two; seeks to 2 and to the end; two connections, so one seek replaces the first; one transfer that fails or one seek behind the end |
| `curl_seek` | violation: does a short seek ahead of the buffer return? | as above with reads of one byte and no errors |

`CHECK_DEADLOCK FALSE` everywhere: callers stop calling, files end and a failed
process stops.

What the passing runs show beyond single tests: `stop()`'s store under
`mWaitMutex` closes the window between the inner thread's look at the status and
its wait; the two unlocked stores of PAUSED never undo a stop, because one is
guarded by `mMutex.try_lock` and the other implies a `pause()` that holds
`mMutex`; the packet a stopped read thread holds is pushed beyond the limit
rather than lost, so the queue's real bound is `MAX_QUEUE_SIZE + 1` plus one per
stop; a message that replaces another cannot be overtaken by it; the decoder's
flush is safe although the thread may have been paused by itself just before; the
second look of `needDrop` at a key frame that was answered AGAIN does no harm,
because a queue can be full only after an earlier key frame; the two threads that
clear a connection's `mPaused` never lose the continuation between them; a
retried connection restarts its transfer only after the old one has ended, so the
emptied buffer and the new start agree.

## 4. What the code does not keep

Findings with a counterexample:

* `queue_clear`: `clear()` leaves `mCurrent` on an erased element
  (MediaPacketQueue.cpp:26); the assertion at :81, described at :80, fails.
* `thread_resume`: `start()` on a paused thread changes the status and notifies
  without `mWaitMutex` (SNThread.cpp:89); the thread may sleep on with status
  RUNNING. `EveryCallReturns` therefore excepts the calls that wait for a thread
  stranded like that.
* `demuxer_end`: `readLoop` looks for AGAIN where `readPacketInternal` returns EOS
  (AVFFDemuxer.cpp:194, :282), so the end is answered ERROR and the EOS branch of
  `doReadPacket` is never taken.
* `msgs_assert`: members of `SnPlayer` are destroyed in reverse order, the demuxer
  service before the thread that uses it (SnPlayer.h:131-136).
* `curl_seek`: `shortSeek` waits for bytes with `mMutex` held
  (CurlConnection.cpp:159, :187), which `writeCallback` needs to deliver them
  (:384). The player calls `seek` through FFmpeg, so its demuxer thread stops.
  `EveryCallReturns` excepts this wait.

Disagreements read in the code on the way, without a run of their own because
no line of the repository says otherwise or no code depends on them yet:

* curl: `xferinfo` and `fillBuffer` may both continue one pause
  (CurlConnection.cpp:233-236, :482-485); the second continuation may come when
  the transfer has paused again, whose next callback then fails the assertion at
  :382, or when it has ended, and then starts it again from the old position
  (CurlConnectionManager.cpp:99-101). The model has both steps: an assertion ends
  the process, and the properties are not claimed of a connection in `restarted`;
* curl: a continuation applied that late may also come after the connection's
  removal: `resumeConnection` finds the turn's resume list already applied, the
  seek's removal is still applied in that turn, and the next turn adds the removed
  handle again, beside the one that replaced it. Its callbacks do nothing any more,
  but its transfer is in the multi handle until the connection is destroyed.
  `OneTransferAtATime` is claimed of the transfers not in `restarted`;
* curl: a seek behind the end moves `mFilePos` and not the buffer
  (CurlDataSource.cpp:116-121, asked about by the TODO at :115); the properties
  are not claimed of a connection in `strayed`;
* curl: after the time-out `fillBuffer` sets `mFilePos` to 0 and starts no new
  transfer (CurlConnection.cpp:285-287); a later read waits for ever. Such
  connections are in `ended`, which `EveryCallReturns` excepts;
* curl: the manager uses a connection after telling it its end
  (CurlConnectionManager.cpp:67-68), and its owner may have destroyed it in
  between; the model ends there with the fault "freed";
* curl: `status.eof` is declared outside the loop over the messages
  (CurlConnectionManager.cpp:41-54), so one transfer's end of file is told to the
  next one as well;
* curl: the file's size is an `int`, and unknown if the transfer is already over
  when it is asked for (CurlConnection.cpp:493-496, :528-531);
* media loop: with one stream missing its duration of -1 makes the buffer never
  full (SnPlayer.cpp:219), so the whole file is read; as no audio decoder is set
  up (:503) nothing empties the audio queue; `BufferIsBounded` is claimed of a
  file with both streams, of the shorter of the two buffers. It stops growing at
  the larger of the start duration and the maximum, plus the packet read last,
  plus what the decoder's queue holds;
* media loop: no end is sent to the decoder (the branch at SnPlayer.cpp:402 is
  empty), so it never drains; `mLowMem` is not reset when the memory goes from low
  to plenty without a middling look (:235-236); the decoder counts a packet
  without a duration as a default length;
* `getFrame` looks at the output queue and then at `mDecoderEos`
  (SNActiveDecoder.cpp:245, :249): frames queued in between are hidden behind an
  early EOS, and a client that stops at EOS loses them;
* `holdOn` returns at once while holding (SNActiveDecoder.cpp:281), so holding
  cannot be left and the held packets are never decoded
  (SNActiveDecoder.h:84-85 speaks of decoding them in the foreground);
* a `tryPause()` left over from `prePause()` pauses the decoding thread after a
  later `pause(false)`; `EndIsReached` is not claimed then, nor when `start()`
  loses its notification;
* with a backward duration, `getPacket` hands out a clone that is read back from
  the AVPacket: a forged duration and the timePosition are lost, and `mDuration`
  is not reduced by the forged duration (MediaPacketQueue.h:102 says otherwise);
* a backward duration taken back to 0 while played packets are kept makes the next
  `getPacket` fail its assertion (MediaPacketQueue.cpp:81). A
  `clearPacketBeforeTimePos` in between fails the one in `popFrontPacket`, or, if
  all that was played is discarded packets, which the counters leave out, removes
  one of those and sets the cursor back to the front (:285-290), so that the rest
  of them come out again. No code sets a backward duration; the tape is not claimed
  of such a use;
* `getKeyPacketTimePositionBefore` excludes a key frame at the limit
  (MediaPacketQueue.h:45 says "not exceeding");
  `getFristKeyPacketTimePosition` returns the last key frame (:51 says first);
  `clearPacketBeforeTimePos` stops at the first newer packet (:64 says all);
* the url of a message still queued when the player is destroyed is not deleted;
* a failed open leaves the status PREPARED_INIT, from which nothing leads on; a
  `prepare()` whose source is replaced while both are queued comes to stand before
  it and is dropped.

## 5. Fairness

* `SNThread`: weak fairness of `RunLoop` (the scheduler runs the inner thread and
  the user function returns) and of each caller inside a method. Nobody has to
  make another call. Spurious wakeups occur at any time but finitely often;
  without that a woken waiter could be sent back to sleep forever.
* `AVFFDemuxer`: weak fairness of the read thread, of the player's thread inside
  `start()` and `stop()`, and of a `preStop()` that has begun. `PlayingSpec` adds
  the player that `processPrepareMsg` and `doReadPacket` make: it opens, opens the
  streams, starts once and reads in every turn. Reading is strongly fair: the lock
  it takes is held by the read thread again and again, so that the call is not
  enabled all the time, but it is made in every turn. `EverythingIsDelivered` is
  conditional on no stop.
* `SNActiveDecoder`: weak fairness of the decoding thread, of the client inside a
  method, and of `getFrame`, which `fillVideoFrame` calls in every turn of the
  player's loop. Spurious wakeups happen but are not relied on.
* `PlayerMsgs`: weak fairness of the player's thread, of the second half of
  `prepare()` and of a destructor that has begun. The application never has to call.
* `PlayerPipeline`: weak fairness of the player's thread and of the decoder's, and
  strong fairness of reading a video and an audio packet: a turn that reads finds
  either of them or none, and the demuxer hands out both streams as the file
  interleaves them, so that neither is put off forever. As a turn that finds low
  memory does not read, this also assumes that not every look at the memory finds
  it low; the loop looks only while the buffer is longer than a second
  (SnPlayer.cpp:234). The demuxer's own delivery is `EverythingIsDelivered`.
* `CurlDataSource`: weak fairness of the calling thread inside a call and of the
  manager's loop, strong fairness of what curl does inside `curl_multi_perform`,
  which the loop calls again and again but is not always in: bytes keep arriving
  or the transfer ends, as a server that stalls is cut off by `lowSpeedTimeMs`.

## 6. Proofs

All theorems hold for every value of the constants that satisfies the named
assumptions beside their declarations, which say no more than what the code
relies on (packets with a natural duration, a ring buffer that is larger than
what is kept for a step back and one piece together, ...).

`MediaPacketQueueProofs` has two parts. Of the queue in the player's use
(`PlayerUse`: no backward duration and none of the clear methods; rewind and
queries allowed): `PlayerTypeCorrect` and `PlayerNeverFaults` (no assertion fails,
no bad dereference). `NoFault` is not inductive. The strengthening `PlayerInv` adds
`ForwardOnly` (the limit is 0, the cursor is at the front, and the two counters are
equal): `addPacket` adds the same natural number to both counters and `getPacket`
takes the same one off both, so its assertion holds; a cursor at the front is
`end()` only if the queue is empty, so no query faults.

Of the queue under all its methods in any order, up to a failure: `QueueTypeCorrect`,
`QueueCountsDurations` and the refinement `QueueImplementsTape`. `QueueInv` says that
each counter is the sum of the durations from a place in the list on (`Rest`), and
that the cursor dangles only in an emptied list. Each loop (the trimming in
`getPacket`, `clearPacketBeforeTimePos`, `clearPacketAfterTimePos`) is treated once:
a set of loop states that every turn keeps holds the last state too
(`TurnsStayIn`), and the end of a loop is read off its condition. For the tape the
last state of the trimming is also the first that fits, which is the least number of
packets `PlaybackTape` forgets; the two other loops skip and shorten the tape.
Two hypotheses name what the code does not keep: `NothingForgedIsKept`, as with a
forged duration in a kept packet the counters are wrong
(MediaPacketQueue.cpp:48), and for the tape `LimitIsNotTakenBack` (section 4).
`PlayerUse` implies both, so `PlayerCountsDurations` and `PlayerImplementsTape` are
corollaries, forged durations included. The sums and the loops are recursive
functions; what the proofs need of them by induction is brought down to the least
number that is a counterexample (`LeastNumber`, `InductionOnSets`, both proved from
the well-foundedness of the order of the naturals), so no induction theorem with an
operator parameter is used.

`PlayerPipelineProofs`: `PipelineUsesTheQueue` shows that every behaviour of the
media loop is one of the queue's specification under `PlayerUse`, which carries
the queue's theorems over (`PipelineNeverFaults`, `PipelineImplementsTape`,
`PipelineCountsDurations`).
`PipelineTypeCorrect` and `PipelineKeepsTheOrder` rest on `PipelineInv`: what was
taken, the packet in hand and the queue are numbered through (`InOrder`), and a
turn comes to the sending only with a packet in hand (`SendsAPacket`), without
which a packet the decoder refused could be followed by a second one.
`BufferStaysBounded`: a turn reads while one of the two buffers is below what stops
it, so when a packet is read, one of them was short. `BoundInv` keeps that in the
form "the audio is bounded, or the video is": the audio queue only grows
by reading, and a video packet only moves from the queue to the hand and into the
decoder, where it counts 40 ms or the forged duration it counts in the queue.

`AVFFDemuxerProofs`: `DemuxerTypeCorrect`, `DemuxerQueueBounded`,
`DemuxerKeepsTheOrder`. To the three properties the invariant adds that there is
nothing queued before the thread is started (`EmptyWhileIdle`: `readPacket` then
reads the file itself), that the read thread holds a packet exactly while it is
about to push one (`HoldsAPacket`), and that each `stop()` pays for the one packet
it lets through (`StopsPay`), which makes the bound inductive.

`SNThreadProofs`: `ThreadTypeCorrect`, `ThreadPauses`, `ThreadKeepsStop`,
`ThreadPausesForACaller`, for any number of callers. The invariant has three
layers: a caller inside a method holds `mMutex` (`CallersInv`), so that a pause
asked for keeps its caller waiting there (`PauseInv`), so that what the inner
thread stores while one waits falls between no other caller's steps (`QuietInv`).

`PlayerMsgsProofs`: `PlayerReadsAStartedDemuxer`, `PlayerKeepsTheSource`, from an
invariant that gives the status at each place of the player's thread;
`MessagesTypeCorrect`, `MessagesStayInOrder`, `UrlsAreFreedOnce`. For the last two
every step does one of five things to the messages (nothing, put, take the copy,
distribute the first, destroy; `MessageSteps`), and `putMsg` one thing to its queue
(`EnqueueResult`: those of the type are filtered out, each url of theirs is deleted
once, the new message is the last). The invariant adds to the two properties that
the copy is empty when the next one is taken (`CopyInv`), without which a message
would be overwritten and its url leak, and that the ids in the queues are those of
calls made.

`SNActiveDecoderProofs`: all six safety properties, for every size of the queues and
the codec and any number of packets and calls, in three layers. The control
(`ControlInv`) depends on no packet: a method that has paused the thread finds it
outside `decodeFunc` (`ThreadInv`), held packets end the use of the input queue
(`HoldInv`), and once the thread has seen the end and then an empty queue nothing is
added (`EndInv`). It gives `DecoderTypeCorrect`, `CodecNeverShared` and
`EndBehindThePackets`. The order (`OrderInv`) is stated of the sets of numbers in
each queue: what is in one comes before what is in a later one, and every number is
in one of them or gone. It gives `FramesStayInOrder` and `FlushLeavesNothing`; every
step is one of eleven ways for packets to move (`EveryStepMoves`), so that each is
treated once. Third, `KeyInv` is about the packets the codec was given followed by
those on their way (`Stream`): what `needDrop` remembers in two flags is true of
that sequence, across a refused key frame, a hold and a flush. It gives
`CodecGetsKeyFrameFirst`.

`RingBufferProofs`: every method keeps the stream in place (`NewRingHolds`,
`ClearHolds`, `ReadDataHolds`, `WriteDataHolds`, `SkipBytesHolds`), and what
`readData` copies out is the stream (`OutputIsTheStream`), across the wrap-around
and for every size. The case that matters is `WriteDataHolds`: the bytes written
go neither over those readable nor over those kept for a step back.

`CurlDataSourceProofs`: `CurlTypeCorrect`, `ResumeIsNotLost`, which is inductive
as it stands, and `BuffersKeepTheFile`, for any number of connections, seeks and errors. The latter
uses the ring buffer's theorems at each callback, read, skip and restart. Its
strengthening `CurlInv` says of each connection that a transfer, when it is added,
will start where the buffer ends (`GoesOnAtTheEnd`), that a connection is added
only while its last transfer is over and known to be (`RestartsWhenOver`; else the
old transfer would write into a buffer emptied for the new one), and of the
connections not made yet that they are new (`InPlace`).

`TransfersDoNotOverlap` is about every handle in the multi handle that no late
continuation has added again (`restarted`). It needs to know where the connections of the past may still
be (`OwnersInv`): the one a seek abandons is in the list of those to be removed
before the next one is added, and a turn of the manager that takes the new one up
has taken the old one off; one that a late continuation put back into the lists
belongs to nobody, and the lists let go of it before the next one performs
(`OthersAreGone`). `ReadsReturnTheFile` joins
`BuffersKeepTheFile` with `OutputIsTheStream`, and adds that a read comes back
without bytes only at the end (`SomeOrTheEnd`): only a transfer's own end is told to
it, since at most one is over in a turn while none was restarted (`OneIsOver`;
`status.eof` is shared by the messages of a turn). Its hypothesis `FileLen <= IntMax`
is what the code needs: the size is returned as an int (section 4), and a read that
takes a wrapped size for the file's returns nothing before the end.

Only model-checked: liveness (`EveryCallReturns` of the thread and of the data
source, `StopReturns`, `EverythingIsDelivered`, `EndIsReached`,
`PrepareIsAnswered`, `DestructorReturns`, `EverythingIsDecoded`), as the prover
reasons about neither fairness nor ENABLED. Every safety property of the passing
runs is stated by a theorem.

## 7. Not modelled, and what is left

Not modelled: FFmpeg and curl themselves, renders (interfaces only), the notifier
(its thread is never started), bitstream filters beyond success and failure,
plain data, utilities and vendored queues, the HTTP options and headers of a
connection, of the decoder its destruction without `close()`, which leaves its
thread with a freed codec (SNFFDecoder.cpp:27), and of the data source its
destruction, where `~CurlConnectionManager` cleans up the multi handle
(CurlConnectionManager.cpp:28) and the lists and their mutex, declared after
`mLoopThread` (CurlConnectionManager.h:36-40), are destroyed before that thread is
joined; `components` gives the reason for each.

Left, in this order:

1. The queue's faults in further uses: which orders of calls, with a backward
   duration and the clear methods, keep the assertion of `getPacket()`.
2. `RingBuffer` as an implementation of an abstract stream with a window, and the
   connection's reads as reads of the file, as refinements.
3. An abstract pausable thread that `SNThread` implements and the demuxer and the
   decoder use in place of their inlined copy of it.
