------------------------------ MODULE Execution ------------------------------
(***************************************************************************)
(* One execution of the kernel: its status, its steps and their approvals, *)
(* its dispatches, the replicas that deliver them and the agent runs they  *)
(* start (internal/kernel/step.go, approval.go, suspend.go, subagent.go,   *)
(* dispatch.go, execution.go, lifecycle.go over internal/store/postgres).  *)
(*                                                                         *)
(* Every handler runs under the execution's lock in one transaction        *)
(* (RunLocked and the savepoints RunInTx opens in it), so a handler is one *)
(* action.  What interleaves are the handlers themselves, called by agents *)
(* of any attempt, by approvers, by the sweeps and by delivery workers     *)
(* that hold state they read earlier.                                      *)
(*                                                                         *)
(* Abstractions.  Policy, budget and rate limiter answers are              *)
(* nondeterministic: a new step may be allowed, denied, sent for approval, *)
(* parked or refused.  Wall-clock time is nondeterministic: any approval   *)
(* may be past its timeout, any lease expired, any deadline passed.  A     *)
(* subagent is only live, completed or failed (cancelled counts as         *)
(* failed), and an effect declares the same idempotency mode in every      *)
(* request.  A lost answer needs no state: the agent makes no use of it.   *)
(***************************************************************************)
EXTENDS DispatchQueue

CONSTANTS
  AtMostOnce,   \* the effects submitted with idempotency at_most_once
  Starters,     \* the effects whose steps may start a subagent
  MaxAttempts   \* DispatchMaxAttempts

ASSUME ModeAssumption == AtMostOnce \subseteq Effects /\ Starters \subseteq Effects
ASSUME AttemptsAssumption == MaxAttempts \in Nat \ {0}

VARIABLES
  exec,      \* status of the execution
  step,      \* status of each step row; "indeterminate" is "failed" for that reason
  approval,  \* status of the step's approval row
  child,     \* the subagent execution the step started
  limited,   \* whether the event log holds a step.rate_limited event
  worker,    \* the replica goroutine delivering each lease
  run,       \* the agent run started for each lease
  told       \* history: <<lease, step>> pairs answered "proceed"

recordVars == <<step, approval, child, limited, told>>
agentVars == <<worker, run>>
vars == <<queueVars, exec, recordVars, agentVars>>

ExecStatus == {"pending", "running", "blocked", "completed", "failed", "cancelled"}
TerminalExec == {"completed", "failed", "cancelled"}
FinalStep == {"succeeded", "failed", "indeterminate", "denied", "cancelled"}
StepStatus == {"absent", "awaiting_approval", "allowed", "executing"} \cup FinalStep

TypeOK ==
  /\ QueueTypeOK
  /\ exec \in ExecStatus
  /\ step \in [StepIds -> StepStatus]
  /\ approval \in [StepIds -> {"none", "pending", "granted", "denied", "expired"}]
  /\ child \in [StepIds -> {"none", "live", "completed", "failed"}]
  /\ limited \in BOOLEAN
  /\ worker \in [Leases -> {"idle", "claimed", "posting"}]
  /\ run \in [Leases -> {"none", "running", "gone"}]
  /\ told \in SUBSET (Leases \X StepIds)

Init ==
  /\ QueueInit
  /\ exec = "pending"
  /\ step = [s \in StepIds |-> "absent"]
  /\ approval = [s \in StepIds |-> "none"]
  /\ child = [s \in StepIds |-> "none"]
  /\ limited = FALSE
  /\ worker = [l \in Leases |-> "idle"]
  /\ run = [l \in Leases |-> "none"]
  /\ told = {}

-----------------------------------------------------------------------------
(* upsertStep: a terminal status, once stored, is never overwritten. *)
Upsert(s, status) == [step EXCEPT ![s] = IF @ \in FinalStep THEN @ ELSE status]

(* awaitingSteps, over the step rows `st`: an approval is open, or an       *)
(* executing step started a subagent, whatever that subagent's status.      *)
AwaitingSteps(st) ==
  \E s \in StepIds :
    \/ st[s] = "awaiting_approval"
    \/ st[s] = "executing" /\ child[s] # "none"

(* resumeIfIdleTx, over the step rows the transaction leaves.  The status   *)
(* update fails, and the transaction with it, on a terminal execution.      *)
ResumeWithoutAsking(st) ==
  exec \notin TerminalExec /\ exec' = "running" /\ EnqueueOn(dispatch)

ResumeIfIdle(st) ==
  IF AwaitingSteps(st)
    THEN UNCHANGED <<exec, dispatch>>
    ELSE exec \notin TerminalExec /\ exec' = "running" /\ EnqueueOn(dispatch)

-----------------------------------------------------------------------------
(* Start and delivery *)

(* startExecutionTx *)
Start ==
  /\ exec = "pending"
  /\ exec' = "running"
  /\ EnqueueOn(dispatch)
  /\ UNCHANGED <<attempt, occurrence, recordVars, agentVars>>

(* runDispatches hands a claimed row to a worker goroutine. *)
Claim(d) ==
  /\ ClaimRow(d)
  /\ worker' = [worker EXCEPT ![<<d, attempt[d] + 1>>] = "claimed"]
  /\ UNCHANGED <<exec, recordVars, run>>

(* The lease of a stalled delivery expired: the agent stopped renewing it,  *)
(* or is only slow.  Its worker and its run may still be there.             *)
Reclaim(d) ==
  /\ ReclaimRow(d)
  /\ UNCHANGED <<exec, recordVars, agentVars>>

(* deliver: the execution ended while the worker was on its way. *)
Discard(l) ==
  /\ worker[l] = "claimed"
  /\ exec \in TerminalExec
  /\ AckRow(l, "exhausted")
  /\ worker' = [worker EXCEPT ![l] = "idle"]
  /\ UNCHANGED <<attempt, occurrence, exec, recordVars, run>>

(* failExecution: refused when the execution has ended or the lease is lost. *)
FailUnder(l) ==
  IF exec \notin TerminalExec /\ Owns(l)
    THEN exec' = "failed" /\ dispatch' = Retired
    ELSE UNCHANGED <<exec, dispatch>>

(* deliver: more claims than the dispatch may have, so no further delivery. *)
Exhaust(l) ==
  /\ worker[l] = "claimed"
  /\ exec \notin TerminalExec
  /\ l[2] > MaxAttempts
  /\ FailUnder(l)
  /\ worker' = [worker EXCEPT ![l] = "idle"]
  /\ UNCHANGED <<attempt, occurrence, recordVars, run>>

(* deliver: the webhook is called. *)
Post(l) ==
  /\ worker[l] = "claimed"
  /\ exec \notin TerminalExec
  /\ l[2] <= MaxAttempts
  /\ worker' = [worker EXCEPT ![l] = "posting"]
  /\ UNCHANGED <<queueVars, exec, recordVars, run>>

(* The agent accepts the webhook and starts its handler. *)
AgentRuns(l) ==
  /\ worker[l] = "posting"
  /\ run[l] = "none"
  /\ run' = [run EXCEPT ![l] = "running"]
  /\ UNCHANGED <<queueVars, exec, recordVars, worker>>

(* deliver on OutcomeSuccess: the row stays in flight under the agent. *)
PostOk(l) ==
  /\ worker[l] = "posting"
  /\ run[l] # "none"
  /\ worker' = [worker EXCEPT ![l] = "idle"]
  /\ UNCHANGED <<queueVars, exec, recordVars, run>>

(* deliver on any other outcome.  A call that timed out may have started   *)
(* the agent all the same.                                                 *)
PostFails(l) ==
  /\ worker[l] = "posting"
  /\ IF l[2] >= MaxAttempts
       THEN FailUnder(l)
       ELSE AckRow(l, "failed") /\ UNCHANGED exec
  /\ worker' = [worker EXCEPT ![l] = "idle"]
  /\ UNCHANGED <<attempt, occurrence, recordVars, run>>

(* A replica dies with the delivery in its hands. The attempt guard is the *)
(* bound of ReclaimRow: the last claim the model counts is carried through.*)
ReplicaCrash(l) ==
  /\ worker[l] # "idle"
  /\ l[2] < ClaimBound
  /\ worker' = [worker EXCEPT ![l] = "idle"]
  /\ UNCHANGED <<queueVars, exec, recordVars, run>>

(* The handler returned, threw or its process died. *)
AgentStops(l) ==
  /\ run[l] = "running"
  /\ run' = [run EXCEPT ![l] = "gone"]
  /\ UNCHANGED <<queueVars, exec, recordVars, worker>>

-----------------------------------------------------------------------------
(* SubmitStep.  The preamble: an agent run submits effect e, the execution  *)
(* has not ended and the attempt still owns the dispatch.  A submission     *)
(* that fails these is answered without a change of state.                  *)
Submitting(l, e) ==
  /\ run[l] = "running"
  /\ exec \notin TerminalExec
  /\ Owns(l)
  /\ occurrence[l[1]][e] \in Occurrences

(* The answer "proceed": the agent may now run the effect. *)
Proceed(l, s) == told' = told \cup {<<l, s>>}

(* handleExistingStep on a step with an outcome, or one still waiting: the  *)
(* answer is a replay and only the occurrence is consumed.                  *)
SubmitReplay(l, e) ==
  /\ Submitting(l, e)
  /\ step[NextStep(l, e)] \in
       {"succeeded", "failed", "indeterminate", "denied", "awaiting_approval"}
  /\ AdvanceOccurrence(l, e)
  /\ UNCHANGED <<dispatch, attempt, exec, recordVars, agentVars>>

(* handleExistingStep on an approved step: its body never ran. *)
SubmitStart(l, e) ==
  LET s == NextStep(l, e) IN
  /\ Submitting(l, e)
  /\ step[s] = "allowed"
  /\ step' = Upsert(s, "executing")
  /\ Proceed(l, s)
  /\ AdvanceOccurrence(l, e)
  /\ UNCHANGED <<dispatch, attempt, exec, approval, child, limited, agentVars>>

(* handleExistingStep on an orphan of an earlier attempt whose outcome is   *)
(* unknown and which must not run twice.                                    *)
SubmitOrphan(l, e) ==
  LET s == NextStep(l, e) IN
  /\ Submitting(l, e)
  /\ step[s] = "executing"
  /\ e \in AtMostOnce
  /\ step' = Upsert(s, "indeterminate")
  /\ AdvanceOccurrence(l, e)
  /\ UNCHANGED <<dispatch, attempt, exec, approval, child, limited, told, agentVars>>

(* The statuses handleExistingStep answers with a bare "proceed": a safe    *)
(* orphan, and the default branch.                                          *)
RestartsAnyMode(s) == step[s] \in {"executing", "cancelled"}

RestartsFailed(s) ==
  \/ step[s] \in {"executing", "failed"} /\ s[1] \notin AtMostOnce
  \/ step[s] = "cancelled"

Restarts(s) ==
  \/ step[s] = "executing" /\ s[1] \notin AtMostOnce
  \/ step[s] = "cancelled"

SubmitRestart(l, e) ==
  /\ Submitting(l, e)
  /\ Restarts(NextStep(l, e))
  /\ Proceed(l, NextStep(l, e))
  /\ AdvanceOccurrence(l, e)
  /\ UNCHANGED <<dispatch, attempt, exec, step, approval, child, limited, agentVars>>

(* decideStep on a step not recorded yet. *)
SubmittingNew(l, e) ==
  /\ Submitting(l, e)
  /\ step[NextStep(l, e)] = "absent"
  /\ exec # "blocked"

(* indeterminateRetry: an earlier call of this effect has an unknown outcome. *)
RetryOfSameStep(l, e) ==
  e \in AtMostOnce /\ step[NextStep(l, e)] = "indeterminate"

IndeterminateRetry(l, e) ==
  /\ e \in AtMostOnce
  /\ \E o \in Occurrences : step[<<e, o>>] = "indeterminate"

(* recordStepDecision, DecisionAllow *)
SubmitAllowed(l, e) ==
  LET s == NextStep(l, e) IN
  /\ SubmittingNew(l, e)
  /\ ~ IndeterminateRetry(l, e)
  /\ step' = Upsert(s, "executing")
  /\ Proceed(l, s)
  /\ AdvanceOccurrence(l, e)
  /\ UNCHANGED <<dispatch, attempt, exec, approval, child, limited, agentVars>>

(* recordStepDecision, DecisionDeny: by a policy rule, a budget, or because *)
(* the call repeats one of unknown outcome.                                 *)
SubmitDenied(l, e) ==
  /\ SubmittingNew(l, e)
  /\ step' = Upsert(NextStep(l, e), "denied")
  /\ AdvanceOccurrence(l, e)
  /\ UNCHANGED <<dispatch, attempt, exec, approval, child, limited, told, agentVars>>

(* recordStepDecision, DecisionRequireApproval: the execution blocks and    *)
(* lets its dispatch go.                                                    *)
ApprovalWithoutRelease(l, e) ==
  LET s == NextStep(l, e) IN
  /\ SubmittingNew(l, e)
  /\ ~ IndeterminateRetry(l, e)
  /\ step' = Upsert(s, "awaiting_approval")
  /\ approval' = [approval EXCEPT ![s] = "pending"]
  /\ exec' = "blocked"
  /\ AdvanceOccurrence(l, e)
  /\ UNCHANGED <<dispatch, attempt, child, limited, told, agentVars>>

SubmitForApproval(l, e) ==
  LET s == NextStep(l, e) IN
  /\ SubmittingNew(l, e)
  /\ ~ IndeterminateRetry(l, e)
  /\ step' = Upsert(s, "awaiting_approval")
  /\ approval' = [approval EXCEPT ![s] = "pending"]
  /\ exec' = "blocked"
  /\ dispatch' = Retired
  /\ AdvanceOccurrence(l, e)
  /\ UNCHANGED <<attempt, child, limited, told, agentVars>>

(* refuseRateLimited: only the event is recorded, the agent may ask again. *)
RefusedConsuming(l, e) ==
  /\ SubmittingNew(l, e)
  /\ ~ IndeterminateRetry(l, e)
  /\ limited' = TRUE
  /\ AdvanceOccurrence(l, e)
  /\ UNCHANGED <<dispatch, attempt, exec, step, approval, child, told, agentVars>>

SubmitRefused(l, e) ==
  /\ SubmittingNew(l, e)
  /\ ~ IndeterminateRetry(l, e)
  /\ limited' = TRUE
  /\ UNCHANGED <<queueVars, exec, step, approval, child, told, agentVars>>

(* parkRateLimited: once per execution, the delivery is given up and queued *)
(* again for later.  The execution stays running and no step is recorded.   *)
ParkWithoutQueueing(l, e) ==
  /\ SubmittingNew(l, e)
  /\ ~ IndeterminateRetry(l, e)
  /\ ~ limited
  /\ limited' = TRUE
  /\ dispatch' = Retired
  /\ UNCHANGED <<attempt, occurrence, exec, step, approval, child, told, agentVars>>

SubmitParked(l, e) ==
  /\ SubmittingNew(l, e)
  /\ ~ IndeterminateRetry(l, e)
  /\ ~ limited
  /\ limited' = TRUE
  /\ EnqueueOn(Retired)
  /\ UNCHANGED <<attempt, occurrence, exec, step, approval, child, told, agentVars>>

-----------------------------------------------------------------------------
(* CompleteStep and FailStep.  The agent was told to run the step; the      *)
(* outcome is fenced by checkLease alone, so a result that arrives after    *)
(* the dispatch was let go still counts.                                    *)
Reporting(l, s) ==
  /\ run[l] = "running"
  /\ <<l, s>> \in told
  /\ exec \notin TerminalExec
  /\ step[s] = "executing"
  /\ Holds(l)

Settle(s, outcomes) ==
  /\ \E outcome \in outcomes : step' = Upsert(s, outcome)
  /\ UNCHANGED <<attempt, occurrence, approval, child, limited, told, agentVars>>

ReportStep(l, s) ==
  /\ Reporting(l, s)
  /\ Settle(s, {"succeeded", "failed"})
  /\ UNCHANGED <<dispatch, exec>>

(* Suspend: nothing left to do before a waiting step settles. *)
Suspend(l) ==
  /\ run[l] = "running"
  /\ exec \notin TerminalExec
  /\ Owns(l)
  /\ AwaitingSteps(step)
  /\ exec' = "blocked"
  /\ dispatch' = Retired
  /\ UNCHANGED <<attempt, occurrence, recordVars, agentVars>>

-----------------------------------------------------------------------------
(* Approvals: GrantApproval, DenyApproval and expireApproval *)
Decide(s, verdict, status) ==
  /\ approval[s] = "pending"
  /\ step[s] = "awaiting_approval"
  /\ step' = Upsert(s, status)
  /\ approval' = [approval EXCEPT ![s] = verdict]
  /\ ResumeIfIdle(step')
  /\ UNCHANGED <<attempt, occurrence, child, limited, told, agentVars>>

GrantStoringVerdict(s) == Decide(s, "granted", "granted")

GrantApproval(s) == Decide(s, "granted", "allowed")

DenyApproval(s) == Decide(s, "denied", "denied")

ExpireAllowing(s) == Decide(s, "expired", "allowed")

ExpireWhileRunning(s) == exec = "running" /\ Decide(s, "expired", "denied")

ExpireApproval(s) == Decide(s, "expired", "denied")

-----------------------------------------------------------------------------
(* The end of the execution *)

(* CompleteExecution and FailExecution, called by the agent.  Steps stay as *)
(* they are.                                                                *)
FinishUnfenced(l) ==
  /\ run[l] = "running"
  /\ exec \notin TerminalExec
  /\ Holds(l)
  /\ exec' \in {"completed", "failed"}
  /\ dispatch' = Retired
  /\ UNCHANGED <<attempt, occurrence, recordVars, agentVars>>

FinishExecution(l) ==
  /\ run[l] = "running"
  /\ exec \notin TerminalExec
  /\ Owns(l)
  /\ exec' \in {"completed", "failed"}
  /\ dispatch' = Retired
  /\ UNCHANGED <<attempt, occurrence, recordVars, agentVars>>

(* cancelExecution: by a user, a passed deadline or an ended parent.  Open  *)
(* approvals expire, and what was executing is recorded as cancelled.       *)
CancelApprovalsOnly ==
  /\ exec \notin TerminalExec
  /\ exec' = "cancelled"
  /\ dispatch' = Retired
  /\ approval' = [s \in StepIds |-> IF approval[s] = "pending" THEN "expired" ELSE approval[s]]
  /\ step' = [s \in StepIds |-> IF approval[s] = "pending" THEN "denied" ELSE step[s]]
  /\ UNCHANGED <<attempt, occurrence, child, limited, told, agentVars>>

CancelExecution ==
  /\ exec \notin TerminalExec
  /\ exec' = "cancelled"
  /\ dispatch' = Retired
  /\ approval' = [s \in StepIds |-> IF approval[s] = "pending" THEN "expired" ELSE approval[s]]
  /\ step' = [s \in StepIds |->
       IF approval[s] = "pending" THEN Upsert(s, "denied")[s]
       ELSE IF step[s] = "executing" THEN "cancelled" ELSE step[s]]
  /\ UNCHANGED <<attempt, occurrence, child, limited, told, agentVars>>

-----------------------------------------------------------------------------
(* Subagents *)

(* CreateExecution with spawned_by: checkParentStep and the insert, under   *)
(* the parent's lock.  A step starts at most one subagent.                  *)
Spawn(s) ==
  /\ s[1] \in Starters
  /\ exec \notin TerminalExec
  /\ step[s] = "executing"
  /\ child[s] = "none"
  /\ child' = [child EXCEPT ![s] = "live"]
  /\ UNCHANGED <<queueVars, exec, step, approval, limited, told, agentVars>>

(* The subagent ends by itself. *)
ChildEnds(s) ==
  /\ child[s] = "live"
  /\ \E status \in {"completed", "failed"} : child' = [child EXCEPT ![s] = status]
  /\ UNCHANGED <<queueVars, exec, step, approval, limited, told, agentVars>>

(* settleParentStep, right after the subagent ended or from the sweep when  *)
(* that was lost (SettleSubagents).                                         *)
SettleCompletedOnly(s) ==
  /\ child[s] = "completed"
  /\ exec \notin TerminalExec
  /\ step[s] = "executing"
  /\ Settle(s, {"succeeded"})
  /\ IF exec = "blocked" THEN ResumeIfIdle(step') ELSE UNCHANGED <<exec, dispatch>>

SettleParentStep(s) ==
  /\ child[s] \in {"completed", "failed"}
  /\ exec \notin TerminalExec
  /\ step[s] = "executing"
  /\ Settle(s, {IF child[s] = "completed" THEN "succeeded" ELSE "failed"})
  /\ IF exec = "blocked" THEN ResumeIfIdle(step') ELSE UNCHANGED <<exec, dispatch>>

(* cancelSubagents, right after the parent ended or from the sweep. *)
CancelChild(s) ==
  /\ exec \in TerminalExec
  /\ child[s] = "live"
  /\ child' = [child EXCEPT ![s] = "failed"]
  /\ UNCHANGED <<queueVars, exec, step, approval, limited, told, agentVars>>

-----------------------------------------------------------------------------
Submit(l, e) ==
  \/ SubmitReplay(l, e)
  \/ SubmitStart(l, e)
  \/ SubmitOrphan(l, e)
  \/ SubmitRestart(l, e)
  \/ SubmitAllowed(l, e)
  \/ SubmitDenied(l, e)
  \/ SubmitForApproval(l, e)
  \/ SubmitRefused(l, e)
  \/ SubmitParked(l, e)

Deliver(l) ==
  \/ Discard(l)
  \/ Exhaust(l)
  \/ Post(l)
  \/ AgentRuns(l)
  \/ PostOk(l)
  \/ PostFails(l)
  \/ ReplicaCrash(l)

Agent(l) ==
  \/ \E e \in Effects : Submit(l, e)
  \/ \E s \in StepIds : ReportStep(l, s)
  \/ Suspend(l)
  \/ FinishExecution(l)
  \/ AgentStops(l)

Approver(s) == GrantApproval(s) \/ DenyApproval(s) \/ ExpireApproval(s)

Subagent(s) == Spawn(s) \/ ChildEnds(s) \/ SettleParentStep(s) \/ CancelChild(s)

Next ==
  \/ Start
  \/ \E d \in Dispatches : Claim(d) \/ Reclaim(d)
  \/ \E l \in Leases : Deliver(l) \/ Agent(l)
  \/ \E s \in StepIds : Approver(s) \/ Subagent(s)
  \/ CancelExecution

Spec == Init /\ [][Next]_vars

-----------------------------------------------------------------------------
(* Safety *)

(* A running execution has exactly one dispatch that is queued or in flight, *)
(* and an execution that is not running has none: no two deliveries compete  *)
(* for it, none is left for an execution that must not run, and a running    *)
(* one is never forgotten (releaseDispatchesLocked against every enqueue).   *)
LiveDispatchIffRunning ==
  /\ \A c, d \in Dispatches : Live(c) /\ Live(d) => c = d
  /\ exec = "running" <=> \E d \in Dispatches : Live(d)

(* An approval is open exactly while its step awaits it, one at a time, and  *)
(* the execution is blocked meanwhile (recordStepDecision, Decide's three    *)
(* handlers and cancelExecution keep the three rows together).               *)
ApprovalGate ==
  /\ \A s \in StepIds : approval[s] = "pending" <=> step[s] = "awaiting_approval"
  /\ \A s \in StepIds : approval[s] = "pending" => exec = "blocked"
  /\ \A s, t \in StepIds : approval[s] = "pending" /\ approval[t] = "pending" => s = t

(* The agent is told to run an at_most_once step under one attempt only,     *)
(* however often the dispatch is claimed again (handleExistingStep).         *)
AtMostOnceTold ==
  \A l, m \in Leases, s \in StepIds :
    s[1] \in AtMostOnce /\ <<l, s>> \in told /\ <<m, s>> \in told => l = m

(* A step sent for approval never runs unless the approval was granted: not  *)
(* while it is open, and not after a refusal or a timeout.                   *)
ApprovedBeforeRun ==
  \A l \in Leases, s \in StepIds :
    <<l, s>> \in told => approval[s] \in {"none", "granted"}

(* An attempt reaches a later call of an at_most_once effect only past the   *)
(* earlier ones: each is recorded with an outcome, or was run by this very   *)
(* attempt (Claim clears the occurrence counters, SubmitStep advances them). *)
NoBlindRepeat ==
  \A l \in Leases, s, t \in StepIds :
    /\ s[1] \in AtMostOnce
    /\ s[1] = t[1]
    /\ s[2] < t[2]
    /\ <<l, t>> \in told
    => step[s] \in FinalStep \/ <<l, s>> \in told

(* After an at_most_once call ended in an unknown outcome, an attempt that   *)
(* did not make that call itself repeats the effect only where a human       *)
(* approved the repetition (indeterminateRetry).                             *)
UnknownNeedsApproval ==
  \A l \in Leases, s, t \in StepIds :
    /\ s[1] = t[1]
    /\ s[2] < t[2]
    /\ step[s] = "indeterminate"
    /\ <<l, s>> \notin told
    /\ <<l, t>> \in told
    => approval[t] = "granted"

(* The occurrences of an effect are recorded without a gap, so an attempt    *)
(* that starts counting at zero meets every recorded step (SubmitStep        *)
(* advances the counter only when a step was recorded).                      *)
OccurrencesContiguous ==
  \A s, t \in StepIds :
    s[1] = t[1] /\ s[2] < t[2] /\ step[t] # "absent" => step[s] # "absent"

(* A cancelled execution keeps no step open: nothing still executing that an *)
(* operator would take for work in progress.                                 *)
CancelledIsSettled ==
  exec = "cancelled" =>
    \A s \in StepIds : step[s] \notin {"executing", "awaiting_approval"}

(* What the ledger recorded stays: a step with an outcome keeps it, and no   *)
(* agent is told to run it again (upsertStep, handleExistingStep).           *)
RecordedStays ==
  \A s \in StepIds : step[s] \in FinalStep =>
    /\ step'[s] = step[s]
    /\ \A l \in Leases : <<l, s>> \in told' => <<l, s>> \in told

RecordedNeverRerun == [][RecordedStays]_vars

(* Seen through the status of the execution and of its steps alone, every   *)
(* handler, called by whoever and however late, is a move of the documented *)
(* life cycle.                                                              *)
Abstract == INSTANCE Lifecycle WITH Steps <- StepIds

ImplementsLifecycle == Abstract!Spec

-----------------------------------------------------------------------------
(* The inductive invariant behind the safety properties.  An agent is told  *)
(* to run a step only as it starts, so the step has started; only           *)
(* cancelExecution cancels steps, so the default branch of                  *)
(* handleExistingStep never answers for one; a refused approval leaves its  *)
(* step denied for good.                                                    *)
ToldStarted ==
  \A l \in Leases, s \in StepIds :
    <<l, s>> \in told =>
      step[s] \in {"executing", "succeeded", "failed", "indeterminate", "cancelled"}

CancelledByExecution ==
  \A s \in StepIds : step[s] = "cancelled" => exec = "cancelled"

RefusedIsDenied ==
  \A s \in StepIds : approval[s] \in {"denied", "expired"} => step[s] = "denied"

DispatchInv == LiveDispatchIffRunning /\ ApprovalGate

LedgerInv ==
  /\ ToldStarted
  /\ CancelledByExecution
  /\ RefusedIsDenied
  /\ CancelledIsSettled
  /\ AtMostOnceTold

IndInv == TypeOK /\ DispatchInv /\ LedgerInv

(* What an attempt walks past.  An occurrence counter only passes recorded  *)
(* steps; the owner of the dispatch has passed an at_most_once step only if *)
(* it has an outcome or was handed to this attempt; an outcome is unknown   *)
(* only where the mode asks for it; a step is allowed by a granted approval *)
(* and not otherwise; nothing is recorded before the start.                 *)
CountersRecorded ==
  \A d \in Dispatches, s \in StepIds : s[2] < occurrence[d][s[1]] => step[s] # "absent"

PassedSettled ==
  \A l \in Leases, s \in StepIds :
    Owns(l) /\ s[1] \in AtMostOnce /\ s[2] < occurrence[l[1]][s[1]]
    => step[s] \in FinalStep \/ <<l, s>> \in told

UnknownIsAtMostOnce == \A s \in StepIds : step[s] = "indeterminate" => s[1] \in AtMostOnce

AllowedIsGranted == \A s \in StepIds : step[s] = "allowed" => approval[s] = "granted"

PendingIsEmpty == exec = "pending" => \A s \in StepIds : step[s] = "absent"

RecordInv ==
  /\ CountersRecorded
  /\ OccurrencesContiguous
  /\ PassedSettled
  /\ NoBlindRepeat
  /\ UnknownIsAtMostOnce
  /\ AllowedIsGranted
  /\ UnknownNeedsApproval
  /\ PendingIsEmpty

-----------------------------------------------------------------------------
(* What the documentation says and the code does not keep *)

(* "blocked means the execution is paused waiting on a human approval or a  *)
(* subagent.  It re-enters running once no step is waiting."  An outcome    *)
(* the agent itself reports for the last waiting step (CompleteStep,        *)
(* FailStep) settles the step without the resumption.                       *)
BlockedWaits == exec = "blocked" => AwaitingSteps(step)

(* "Work from an attempt the kernel has replaced, or has returned to the    *)
(* queue, is refused": a step outcome comes from a delivery that is not     *)
(* back in the queue (checkLease compares the attempt number only).         *)
ReturnedWorkRefused ==
  [][\A s \in StepIds :
       step[s] = "executing" /\ step'[s] \in {"succeeded", "failed"} /\ child[s] = "none"
       => \E l \in Leases :
            /\ <<l, s>> \in told
            /\ Holds(l)
            /\ dispatch[l[1]] \in {"in_flight", "exhausted"}]_vars

-----------------------------------------------------------------------------
(* Liveness *)

(* The lease of an in-flight dispatch whose worker and run are both gone is  *)
(* renewed by nobody, so it does expire.                                     *)
Abandoned(d) ==
  /\ dispatch[d] = "in_flight"
  /\ worker[<<d, attempt[d]>>] = "idle"
  /\ run[<<d, attempt[d]>>] # "running"

(* A delivery that is under way goes on, one way or another. *)
Delivers(l) == Discard(l) \/ Exhaust(l) \/ Post(l) \/ PostOk(l) \/ PostFails(l)

(* Dispatch loops and reapers run on every replica for good (RunDispatcher), *)
(* a delivery has a timeout, a handler returns or dies, approvals time out   *)
(* and the sweeps retry settlements.  Nobody need approve, suspend, cancel,  *)
(* crash or answer well.                                                     *)
Fairness ==
  /\ WF_vars(Start)
  /\ \A d \in Dispatches : WF_vars(Claim(d)) /\ WF_vars(Abandoned(d) /\ Reclaim(d))
  /\ \A l \in Leases : WF_vars(Delivers(l)) /\ WF_vars(AgentStops(l))
  /\ \A s \in StepIds :
       /\ WF_vars(ExpireApproval(s))
       /\ WF_vars(ChildEnds(s))
       /\ WF_vars(SettleParentStep(s))
       /\ WF_vars(CancelChild(s))

FairSpec == Spec /\ Fairness

(* A running execution comes to rest: it ends, or blocks on a step.  Crashed *)
(* replicas, lost deliveries and vanished agents only cost attempts.         *)
RunningComesToRest == exec = "running" ~> exec \in TerminalExec \cup {"blocked"}

(* No approval stays open: the timeout decides what nobody else does.        *)
ApprovalsAreDecided ==
  \A s \in StepIds : approval[s] = "pending" ~> approval[s] # "pending"

(* The end of a subagent reaches the parent's step, and the end of a parent  *)
(* reaches its subagents, even where the direct call after the end was lost. *)
SubagentsAreSettled ==
  \A s \in StepIds :
    /\ child[s] \in {"completed", "failed"} ~> step[s] # "executing" \/ exec \in TerminalExec
    /\ exec \in TerminalExec ~> child[s] # "live"
=============================================================================
