-------------------------- MODULE MCPlayerPipeline --------------------------
(***************************************************************************)
(* A short file for the pipeline: each video packet comes in two kinds,    *)
(* with and without a duration, discarded or not, key frame or not.        *)
(***************************************************************************)
EXTENDS PlayerPipeline

Demuxed(id, duration, discard, key) ==
  [id |-> id, duration |-> duration, avDuration |-> duration,
   discard |-> discard, key |-> key, time |-> id]

File == {Demuxed(1, 2, FALSE, TRUE), Demuxed(1, 0, FALSE, TRUE),
         Demuxed(2, 1, FALSE, FALSE), Demuxed(2, 2, TRUE, FALSE),
         Demuxed(3, 0, FALSE, FALSE), Demuxed(3, 3, FALSE, TRUE),
         Demuxed(4, 3, FALSE, FALSE)}

AnyStreams == {{"video"}, {"audio"}, {"video", "audio"}}

StartDurations == [normal |-> 1, lowMem |-> 0]
=============================================================================
