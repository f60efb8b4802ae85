---------------------------- MODULE MCExecution ----------------------------
(***************************************************************************)
(* Instances of Execution for TLC.  "read" is safe to retry, "pay" is not. *)
(***************************************************************************)
EXTENDS Execution

TwoEffects == {"read", "pay"}
OnlyPay == {"pay"}
OnlyRead == {"read"}
NoEffect == {}
=============================================================================
