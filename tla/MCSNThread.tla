----------------------------- MODULE MCSNThread -----------------------------
(***************************************************************************)
(* Instances of SNThread: one or two callers making a few calls each.      *)
(***************************************************************************)
EXTENDS SNThread

CONSTANTS a, b

UserFuncResults == {0, -1}
=============================================================================
