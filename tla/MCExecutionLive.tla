-------------------------- MODULE MCExecutionLive --------------------------
(***************************************************************************)
(* Two instances of Execution for the liveness run, on the same variables: *)
(* Live has several dispatches of one attempt each, which approvals and    *)
(* subagents between them need; Retry has one dispatch of two attempts and *)
(* a claim beyond them, where a delivery is retried until it is exhausted. *)
(* part, which no step changes, says which one runs.                       *)
(***************************************************************************)
EXTENDS Integers

VARIABLES dispatch, attempt, occurrence, exec, step, approval, child, limited, worker, run, told, part

execVars == <<dispatch, attempt, occurrence, exec, step, approval, child, limited, worker, run, told>>

Pay == {"pay"}

Live == INSTANCE Execution WITH
  Effects <- Pay, AtMostOnce <- Pay, Starters <- Pay, MaxOccurrence <- 0,
  MaxDispatches <- 4, ClaimBound <- 2, MaxAttempts <- 1
Retry == INSTANCE Execution WITH
  Effects <- Pay, AtMostOnce <- Pay, Starters <- Pay, MaxOccurrence <- 0,
  MaxDispatches <- 1, ClaimBound <- 3, MaxAttempts <- 2

Runs(which) == part = which

PartInit ==
  \/ part = "live" /\ Live!Init
  \/ part = "retry" /\ Retry!Init

PartNext ==
  /\ UNCHANGED part
  /\ \/ Runs("live") /\ Live!Next
     \/ Runs("retry") /\ Retry!Next

(* Execution's Fairness, of the instance that runs. *)
LiveFairness ==
  /\ WF_execVars(Runs("live") /\ Live!Start)
  /\ \A d \in Live!Dispatches :
       /\ WF_execVars(Runs("live") /\ Live!Claim(d))
       /\ WF_execVars(Runs("live") /\ Live!Abandoned(d) /\ Live!Reclaim(d))
  /\ \A l \in Live!Leases :
       /\ WF_execVars(Runs("live") /\ Live!Delivers(l))
       /\ WF_execVars(Runs("live") /\ Live!AgentStops(l))
  /\ \A s \in Live!StepIds :
       /\ WF_execVars(Runs("live") /\ Live!ExpireApproval(s))
       /\ WF_execVars(Runs("live") /\ Live!ChildEnds(s))
       /\ WF_execVars(Runs("live") /\ Live!SettleParentStep(s))
       /\ WF_execVars(Runs("live") /\ Live!CancelChild(s))

RetryFairness ==
  /\ WF_execVars(Runs("retry") /\ Retry!Start)
  /\ \A d \in Retry!Dispatches :
       /\ WF_execVars(Runs("retry") /\ Retry!Claim(d))
       /\ WF_execVars(Runs("retry") /\ Retry!Abandoned(d) /\ Retry!Reclaim(d))
  /\ \A l \in Retry!Leases :
       /\ WF_execVars(Runs("retry") /\ Retry!Delivers(l))
       /\ WF_execVars(Runs("retry") /\ Retry!AgentStops(l))
  /\ \A s \in Retry!StepIds :
       /\ WF_execVars(Runs("retry") /\ Retry!ExpireApproval(s))
       /\ WF_execVars(Runs("retry") /\ Retry!ChildEnds(s))
       /\ WF_execVars(Runs("retry") /\ Retry!SettleParentStep(s))
       /\ WF_execVars(Runs("retry") /\ Retry!CancelChild(s))

PartSpec == PartInit /\ [][PartNext]_<<execVars, part>> /\ LiveFairness /\ RetryFairness

(* A running execution comes to rest while it has a dispatch left to resume *)
(* on: crashed replicas, lost deliveries and vanished agents cost attempts. *)
RunningComesToRest == Runs("live") => Live!RunningComesToRest

(* A delivery that is retried until its attempts are used up (Exhaust, more *)
(* claims than DispatchMaxAttempts) brings the execution to rest as well.   *)
RetriesRunOut == Runs("retry") => Retry!RunningComesToRest

(* No approval stays open, and the end of a subagent or of its parent       *)
(* reaches the other.                                                       *)
ApprovalsAreDecided == Runs("live") => Live!ApprovalsAreDecided
SubagentsAreSettled == Runs("live") => Live!SubagentsAreSettled
=============================================================================
