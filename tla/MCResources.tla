---------------------------- MODULE MCResources ----------------------------
(***************************************************************************)
(* Instances of Resources for TLC.  "read" is an LLM call.                 *)
(***************************************************************************)
EXTENDS Resources

TwoWrites == {"edit", "push"}
OnlyPush == {"push"}
OneCall == {"chat"}
OffOrEverySecond == {0, 2}
=============================================================================
