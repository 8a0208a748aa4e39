-------------------------- MODULE MCSNActiveDecoder --------------------------
(***************************************************************************)
(* Instances of SNActiveDecoder.                                           *)
(***************************************************************************)
EXTENDS SNActiveDecoder
=============================================================================
