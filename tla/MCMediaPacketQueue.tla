------------------------- MODULE MCMediaPacketQueue -------------------------
(***************************************************************************)
(* Packets of one stream for MediaPacketQueue: key frames, discarded ones, *)
(* of which one is older than every limit, and times that go back.         *)
(***************************************************************************)
EXTENDS MediaPacketQueue

Demuxed(id, duration, discard, key, time) ==
  [id |-> id, duration |-> duration, avDuration |-> duration,
   discard |-> discard, key |-> key, time |-> time]

KeyFrame  == Demuxed(1, 2, FALSE, TRUE, 0)
BFrame    == Demuxed(2, 1, FALSE, FALSE, 2)
Discarded == Demuxed(3, 2, TRUE, FALSE, 5)
NextKey   == Demuxed(4, 3, FALSE, TRUE, 7)
Skipped   == Demuxed(5, 2, TRUE, FALSE, 1)

DatedPackets == {KeyFrame, BFrame, Discarded, NextKey, Skipped}
=============================================================================
