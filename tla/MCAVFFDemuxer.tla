---------------------------- MODULE MCAVFFDemuxer ----------------------------
(***************************************************************************)
(* Instances of AVFFDemuxer: a short file of two interleaved streams.      *)
(***************************************************************************)
EXTENDS AVFFDemuxer

TwoStreams == <<"video", "audio", "video", "audio">>
=============================================================================
