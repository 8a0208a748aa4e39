---------------------------- MODULE MCPlayerMsgs ----------------------------
(***************************************************************************)
(* Instances of PlayerMsgs: two addresses and a few calls.                 *)
(***************************************************************************)
EXTENDS PlayerMsgs

TwoUrls == {"first", "second"}
=============================================================================
