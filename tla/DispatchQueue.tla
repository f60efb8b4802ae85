---------------------------- MODULE DispatchQueue ----------------------------
(***************************************************************************)
(* The dispatch queue of one execution (internal/store/postgres/           *)
(* dispatches.go and the per-delivery occurrence counters of steps.go).    *)
(* A dispatch is one queued delivery of the execution to its agent.  A     *)
(* replica claims it under the next attempt number, and the pair           *)
(* <<dispatch, attempt>> is the lease the agent sends back with every      *)
(* write.  Leases fence: an agent whose attempt has been replaced must not *)
(* act on the execution any more.                                          *)
(*                                                                         *)
(* Time is abstracted to nondeterminism.  A lease may expire whenever its  *)
(* row is in flight (a stalled agent cannot be told from a dead one), and  *)
(* a retry delay may end at any moment, so locked_at and next_attempt_at   *)
(* are not part of the state and renewing a lease changes nothing here     *)
(* beyond its fence.                                                       *)
(*                                                                         *)
(* Bounds: dispatches are 1..MaxDispatches, a dispatch is claimed at most  *)
(* ClaimBound times, an effect is submitted at most MaxOccurrence + 1      *)
(* times in one delivery attempt.                                          *)
(***************************************************************************)
EXTENDS Integers

CONSTANTS
  Effects,        \* <kind, target, args> triples the agent may submit
  MaxDispatches,  \* bound: dispatch rows of the execution
  ClaimBound,     \* bound: claims of one dispatch
  MaxOccurrence   \* bound: last occurrence of one effect in one attempt

ASSUME BoundsAssumption ==
  /\ MaxDispatches \in Nat \ {0}
  /\ ClaimBound \in Nat \ {0}
  /\ MaxOccurrence \in Nat

Dispatches == 1..MaxDispatches
Attempts == 1..ClaimBound
Occurrences == 0..MaxOccurrence
Leases == Dispatches \X Attempts
StepIds == Effects \X Occurrences

VARIABLES
  dispatch,    \* status of each dispatch row, "absent" before it is inserted
  attempt,     \* attempt number of each dispatch row, 0 before the first claim
  occurrence   \* next occurrence per dispatch and effect (dispatch_step_counters)

queueVars == <<dispatch, attempt, occurrence>>

QueueTypeOK ==
  /\ dispatch \in [Dispatches -> {"absent", "pending", "in_flight", "failed", "exhausted"}]
  /\ attempt \in [Dispatches -> 0..ClaimBound]
  /\ occurrence \in [Dispatches -> [Effects -> 0..(MaxOccurrence + 1)]]

QueueInit ==
  /\ dispatch = [d \in Dispatches |-> "absent"]
  /\ attempt = [d \in Dispatches |-> 0]
  /\ occurrence = [d \in Dispatches |-> [e \in Effects |-> 0]]

(* A row the queue may still hand out, or that a delivery holds. *)
Live(d) == dispatch[d] \in {"pending", "in_flight", "failed"}

-----------------------------------------------------------------------------
(* renewLease: the fence of every operation that starts or changes work.    *)
(* The row must be in flight under exactly this attempt.                    *)
Owns(l) == dispatch[l[1]] = "in_flight" /\ attempt[l[1]] = l[2]

(* checkLease: the fence of a step outcome.  Only the attempt number must    *)
(* match; the row may have been retired or returned to the queue meanwhile. *)
Holds(l) == attempt[l[1]] = l[2]

(* uuid.NewV7 gives each dispatch a later id than the ones before. *)
IsNewId(d) == dispatch[d] = "absent" /\ \A c \in 1..(d - 1) : dispatch[c] # "absent"

(* releaseDispatchesLocked: every dispatch of the execution is retired. *)
Retired == [d \in Dispatches |-> IF Live(d) THEN "exhausted" ELSE dispatch[d]]

(* enqueueDispatchTx, on the rows left by `rows`. *)
EnqueueOn(rows) ==
  \E d \in Dispatches : IsNewId(d) /\ dispatch' = [rows EXCEPT ![d] = "pending"]

-----------------------------------------------------------------------------
(* Claim: the row is due (time abstracted), takes the next attempt number,  *)
(* and its occurrence counters are cleared.                                 *)
ClaimKeepingCounters(d) ==
  /\ dispatch[d] \in {"pending", "failed"}
  /\ attempt[d] < ClaimBound
  /\ dispatch' = [dispatch EXCEPT ![d] = "in_flight"]
  /\ attempt' = [attempt EXCEPT ![d] = @ + 1]
  /\ UNCHANGED occurrence

ClaimPendingOnly(d) ==
  /\ dispatch[d] = "pending"
  /\ attempt[d] < ClaimBound
  /\ dispatch' = [dispatch EXCEPT ![d] = "in_flight"]
  /\ attempt' = [attempt EXCEPT ![d] = @ + 1]
  /\ occurrence' = [occurrence EXCEPT ![d] = [e \in Effects |-> 0]]

ClaimRow(d) ==
  /\ dispatch[d] \in {"pending", "failed"}
  /\ attempt[d] < ClaimBound
  /\ dispatch' = [dispatch EXCEPT ![d] = "in_flight"]
  /\ attempt' = [attempt EXCEPT ![d] = @ + 1]
  /\ occurrence' = [occurrence EXCEPT ![d] = [e \in Effects |-> 0]]

(* reclaimStalled: an expired lease goes back to the queue, its attempt     *)
(* number unchanged until the next claim.  The guard on ClaimBound is the   *)
(* bound: the last claim the model counts is not taken back.                *)
ReclaimRow(d) ==
  /\ dispatch[d] = "in_flight"
  /\ attempt[d] < ClaimBound
  /\ dispatch' = [dispatch EXCEPT ![d] = "pending"]
  /\ UNCHANGED <<attempt, occurrence>>

(* ackDispatch: only the attempt that holds the row in flight moves it;     *)
(* for any other the update matches no row and the caller ignores that.     *)
AckRow(l, status) ==
  dispatch' = IF Owns(l) THEN [dispatch EXCEPT ![l[1]] = status] ELSE dispatch

(* dispatchOccurrence and ComputeStepID: the step an effect's next          *)
(* submission names under this delivery attempt.                            *)
NextStep(l, e) == <<e, occurrence[l[1]][e]>>

(* advanceDispatchOccurrence: the submission consumed its occurrence. *)
AdvanceOccurrence(l, e) ==
  occurrence' = [occurrence EXCEPT ![l[1]][e] = @ + 1]
=============================================================================
