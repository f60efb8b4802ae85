--------------------------- MODULE Execution_proofs ---------------------------
(***************************************************************************)
(* Proofs about Execution, for every set of effects, every at_most_once    *)
(* mode and every bound.                                                   *)
(***************************************************************************)
EXTENDS Execution, TLAPS

DispatchStatus == {"absent", "pending", "in_flight", "failed", "exhausted"}

-----------------------------------------------------------------------------
(* The helpers the actions are built from *)

(* releaseDispatchesLocked leaves rows, and none of them live. *)
LEMMA RetiredRows ==
  ASSUME TypeOK
  PROVE  /\ Retired \in [Dispatches -> DispatchStatus]
         /\ \A d \in Dispatches : Retired[d] \notin {"pending", "in_flight", "failed"}
  BY DEF Retired, Live, TypeOK, QueueTypeOK, DispatchStatus

(* enqueueDispatchTx on rows without a live one leaves exactly one. *)
LEMMA EnqueuedRows ==
  ASSUME NEW rows \in [Dispatches -> DispatchStatus],
         EnqueueOn(rows)
  PROVE  /\ dispatch' \in [Dispatches -> DispatchStatus]
         /\ (\A d \in Dispatches : rows[d] \notin {"pending", "in_flight", "failed"})
              => /\ \A c, d \in Dispatches : Live(c)' /\ Live(d)' => c = d
                 /\ \E d \in Dispatches : Live(d)'
  BY DEF EnqueueOn, Live, DispatchStatus

(* upsertStep writes a status where there is no outcome, and nothing else. *)
LEMMA UpsertRow ==
  ASSUME TypeOK, NEW s \in StepIds, NEW status \in StepStatus
  PROVE  /\ Upsert(s, status) \in [StepIds -> StepStatus]
         /\ \A t \in StepIds : t # s => Upsert(s, status)[t] = step[t]
         /\ Upsert(s, status)[s] = IF step[s] \in FinalStep THEN step[s] ELSE status
  BY DEF Upsert, TypeOK

LEMMA UpsertedStep ==
  ASSUME TypeOK, NEW s \in StepIds, NEW status, step' = Upsert(s, status)
  PROVE  /\ \A t \in StepIds : t # s => step'[t] = step[t]
         /\ step'[s] = IF step[s] \in FinalStep THEN step[s] ELSE status
  BY DEF Upsert, TypeOK

LEMMA UpsertAsksNobody ==
  ASSUME TypeOK, NEW s \in StepIds, NEW status, status # "awaiting_approval",
         step' = Upsert(s, status)
  PROVE  /\ step'[s] # "awaiting_approval"
         /\ \A t \in StepIds : t # s => step'[t] = step[t]
  BY UpsertedStep DEF FinalStep

(* ackDispatch writes one status to one row, or nothing. *)
LEMMA AckedRow ==
  ASSUME TypeOK, NEW l \in Leases, NEW status \in DispatchStatus, AckRow(l, status)
  PROVE  dispatch' \in [Dispatches -> DispatchStatus]
  BY DEF AckRow, Owns, TypeOK, QueueTypeOK, DispatchStatus, Leases

(* The step a submission names is a step of the execution. *)
LEMMA NextStepIsStep ==
  ASSUME NEW l \in Leases, NEW e \in Effects, Submitting(l, e)
  PROVE  NextStep(l, e) \in StepIds
  BY DEF Submitting, NextStep, StepIds

(* Submitting consumes one occurrence and keeps the counters in range. *)
LEMMA AdvancedOccurrence ==
  ASSUME TypeOK, NEW l \in Leases, NEW e \in Effects,
         Submitting(l, e), AdvanceOccurrence(l, e)
  PROVE  occurrence' \in [Dispatches -> [Effects -> 0..(MaxOccurrence + 1)]]
  BY BoundsAssumption
     DEF Submitting, AdvanceOccurrence, TypeOK, QueueTypeOK, Leases, Occurrences

-----------------------------------------------------------------------------
(* Type correctness *)

LEMMA TypeInit == Init => TypeOK
<1> SUFFICES ASSUME Init PROVE TypeOK
  OBVIOUS
<1>1. QueueTypeOK
  BY BoundsAssumption DEF Init, QueueInit, QueueTypeOK
<1>2. /\ exec \in ExecStatus
      /\ step \in [StepIds -> StepStatus]
      /\ limited \in BOOLEAN
      /\ told \in SUBSET (Leases \X StepIds)
  BY DEF Init, ExecStatus, StepStatus
<1>3. /\ approval \in [StepIds -> {"none", "pending", "granted", "denied", "expired"}]
      /\ child \in [StepIds -> {"none", "live", "completed", "failed"}]
      /\ worker \in [Leases -> {"idle", "claimed", "posting"}]
      /\ run \in [Leases -> {"none", "running", "gone"}]
  BY DEF Init
<1> QED
  BY <1>1, <1>2, <1>3 DEF TypeOK

LEMMA TypeDelivery ==
  ASSUME TypeOK, NEW l \in Leases, Deliver(l)
  PROVE  TypeOK'
<1> USE DEF TypeOK, QueueTypeOK, recordVars, agentVars, queueVars
<1>1. CASE Discard(l)
  BY <1>1, AckedRow DEF Discard, DispatchStatus
<1>2. ASSUME FailUnder(l)
      PROVE  /\ dispatch' \in [Dispatches -> DispatchStatus]
             /\ exec' \in ExecStatus
  BY <1>2, RetiredRows DEF FailUnder, ExecStatus, DispatchStatus
<1>3. CASE Exhaust(l)
  BY <1>3, <1>2 DEF Exhaust, DispatchStatus
<1>4. CASE Post(l)
  BY <1>4 DEF Post
<1>5. CASE AgentRuns(l)
  BY <1>5 DEF AgentRuns
<1>6. CASE PostOk(l)
  BY <1>6 DEF PostOk
<1>7. CASE PostFails(l)
  <2>1. dispatch' \in [Dispatches -> DispatchStatus] /\ exec' \in ExecStatus
    BY <1>7, <1>2, AckedRow DEF PostFails, DispatchStatus
  <2> QED
    BY <1>7, <2>1 DEF PostFails, DispatchStatus
<1>8. CASE ReplicaCrash(l)
  BY <1>8 DEF ReplicaCrash
<1> QED
  BY <1>1, <1>3, <1>4, <1>5, <1>6, <1>7, <1>8 DEF Deliver

LEMMA TypeSubmit ==
  ASSUME TypeOK, NEW l \in Leases, NEW e \in Effects, Submit(l, e)
  PROVE  TypeOK'
<1> DEFINE s == NextStep(l, e)
<1> USE DEF TypeOK, QueueTypeOK, recordVars, agentVars, queueVars
<1>1. Submitting(l, e) /\ s \in StepIds
  BY NextStepIsStep
     DEF Submit, SubmitReplay, SubmitStart, SubmitOrphan, SubmitRestart, SubmittingNew,
         SubmitAllowed, SubmitDenied, SubmitForApproval, SubmitRefused, SubmitParked
<1>2. \A status \in StepStatus : Upsert(s, status) \in [StepIds -> StepStatus]
  BY <1>1, UpsertRow
<1>3. {"executing", "indeterminate", "denied", "awaiting_approval"} \subseteq StepStatus
  BY DEF StepStatus, FinalStep
<1>4. Proceed(l, s) => told' \in SUBSET (Leases \X StepIds)
  BY <1>1 DEF Proceed
<1>5. CASE SubmitReplay(l, e)
  BY <1>1, <1>5, AdvancedOccurrence DEF SubmitReplay
<1>6. CASE SubmitStart(l, e)
  BY <1>1, <1>2, <1>3, <1>4, <1>6, AdvancedOccurrence DEF SubmitStart
<1>7. CASE SubmitOrphan(l, e)
  BY <1>1, <1>2, <1>3, <1>7, AdvancedOccurrence DEF SubmitOrphan
<1>8. CASE SubmitRestart(l, e)
  BY <1>1, <1>4, <1>8, AdvancedOccurrence DEF SubmitRestart
<1>9. CASE SubmitAllowed(l, e)
  BY <1>1, <1>2, <1>3, <1>4, <1>9, AdvancedOccurrence DEF SubmitAllowed
<1>10. CASE SubmitDenied(l, e)
  BY <1>1, <1>2, <1>3, <1>10, AdvancedOccurrence DEF SubmitDenied
<1>11. CASE SubmitForApproval(l, e)
  BY <1>1, <1>2, <1>3, <1>11, AdvancedOccurrence, RetiredRows
     DEF SubmitForApproval, DispatchStatus, ExecStatus
<1>12. CASE SubmitRefused(l, e)
  BY <1>12 DEF SubmitRefused
<1>13. CASE SubmitParked(l, e)
  BY <1>13, RetiredRows, EnqueuedRows DEF SubmitParked, DispatchStatus
<1> QED
  BY <1>5, <1>6, <1>7, <1>8, <1>9, <1>10, <1>11, <1>12, <1>13 DEF Submit

LEMMA TypeAgent ==
  ASSUME TypeOK, NEW l \in Leases, Agent(l)
  PROVE  TypeOK'
<1> USE DEF TypeOK, QueueTypeOK, recordVars, agentVars, queueVars
<1>1. ASSUME NEW e \in Effects, Submit(l, e)
      PROVE  TypeOK'
  BY <1>1, TypeSubmit
<1>2. ASSUME NEW s \in StepIds, ReportStep(l, s)
      PROVE  TypeOK'
  BY <1>2, UpsertRow DEF ReportStep, Settle, StepStatus, FinalStep
<1>3. CASE Suspend(l)
  BY <1>3, RetiredRows DEF Suspend, DispatchStatus, ExecStatus
<1>4. CASE FinishExecution(l)
  BY <1>4, RetiredRows DEF FinishExecution, DispatchStatus, ExecStatus
<1>5. CASE AgentStops(l)
  BY <1>5 DEF AgentStops
<1> QED
  BY <1>1, <1>2, <1>3, <1>4, <1>5 DEF Agent

LEMMA TypeResume ==
  ASSUME TypeOK, NEW st, ResumeIfIdle(st)
  PROVE  exec' \in ExecStatus /\ dispatch' \in [Dispatches -> DispatchStatus]
  BY EnqueuedRows DEF ResumeIfIdle, TypeOK, QueueTypeOK, DispatchStatus, ExecStatus

LEMMA TypeStepActions ==
  ASSUME TypeOK, NEW s \in StepIds, Approver(s) \/ Subagent(s)
  PROVE  TypeOK'
<1> USE DEF TypeOK, QueueTypeOK, recordVars, agentVars, queueVars
<1>1. ASSUME NEW verdict \in {"granted", "denied", "expired"},
             NEW status \in {"allowed", "denied"},
             Decide(s, verdict, status)
      PROVE  TypeOK'
  <2>1. step' \in [StepIds -> StepStatus]
    BY <1>1, UpsertRow DEF Decide, StepStatus, FinalStep
  <2> QED
    BY <1>1, <2>1, TypeResume DEF Decide, DispatchStatus
<1>2. CASE Approver(s)
  BY <1>2, <1>1 DEF Approver, GrantApproval, DenyApproval, ExpireApproval
<1>3. CASE Spawn(s) \/ ChildEnds(s) \/ CancelChild(s)
  BY <1>3 DEF Spawn, ChildEnds, CancelChild
<1>4. CASE SettleParentStep(s)
  <2>1. step' \in [StepIds -> StepStatus]
    BY <1>4, UpsertRow DEF SettleParentStep, Settle, StepStatus, FinalStep
  <2> QED
    BY <1>4, <2>1, TypeResume DEF SettleParentStep, Settle, DispatchStatus
<1> QED
  BY <1>2, <1>3, <1>4 DEF Subagent

LEMMA TypeNext == TypeOK /\ [Next]_vars => TypeOK'
<1> SUFFICES ASSUME TypeOK, [Next]_vars PROVE TypeOK'
  OBVIOUS
<1> USE DEF TypeOK, QueueTypeOK, recordVars, agentVars, queueVars
<1>1. CASE UNCHANGED vars
  BY <1>1 DEF vars
<1>2. CASE Start
  BY <1>2, EnqueuedRows DEF Start, DispatchStatus, ExecStatus
<1>3. ASSUME NEW d \in Dispatches, Claim(d)
      PROVE  TypeOK'
  <2>1. attempt' \in [Dispatches -> 0..ClaimBound]
    BY <1>3, BoundsAssumption DEF Claim, ClaimRow
  <2>2. occurrence' \in [Dispatches -> [Effects -> 0..(MaxOccurrence + 1)]]
    BY <1>3, BoundsAssumption DEF Claim, ClaimRow
  <2>3. dispatch' \in [Dispatches -> DispatchStatus]
    BY <1>3 DEF Claim, ClaimRow, DispatchStatus
  <2>4. worker' \in [Leases -> {"idle", "claimed", "posting"}]
    BY <1>3 DEF Claim
  <2> QED
    BY <1>3, <2>1, <2>2, <2>3, <2>4 DEF Claim, DispatchStatus
<1>4. ASSUME NEW d \in Dispatches, Reclaim(d)
      PROVE  TypeOK'
  BY <1>4 DEF Reclaim, ReclaimRow
<1>5. CASE CancelExecution
  <2>1. step' \in [StepIds -> StepStatus]
    BY <1>5, UpsertRow DEF CancelExecution, StepStatus, FinalStep
  <2> QED
    BY <1>5, <2>1, RetiredRows DEF CancelExecution, DispatchStatus, ExecStatus
<1> QED
  BY <1>1, <1>2, <1>3, <1>4, <1>5, TypeDelivery, TypeAgent, TypeStepActions DEF Next

(* Every status column holds a status the schema knows, every counter stays *)
(* in its range, and agents are told to run steps of the execution only.    *)
THEOREM TypeCorrect == Spec => []TypeOK
  BY TypeInit, TypeNext, PTL DEF Spec

-----------------------------------------------------------------------------
(* One live dispatch while running, none otherwise; and the approval gate.  *)
(* The two need each other: a granted approval may enqueue a dispatch only  *)
(* because an open approval means blocked, and blocked means no dispatch.   *)

(* renewLease succeeds only while the execution runs. *)
LEMMA OwnerRuns ==
  ASSUME TypeOK, DispatchInv, NEW l \in Leases, Owns(l)
  PROVE  /\ exec = "running"
         /\ \A s \in StepIds : approval[s] # "pending" /\ step[s] # "awaiting_approval"
<1>1. l[1] \in Dispatches /\ Live(l[1])
  BY DEF Owns, Live, Leases
<1>2. exec = "running"
  BY <1>1 DEF DispatchInv, LiveDispatchIffRunning
<1> QED
  BY <1>2 DEF DispatchInv, ApprovalGate

LEMMA ReleasedWhenNotRunning ==
  ASSUME TypeOK, dispatch' = Retired, exec' # "running"
  PROVE  LiveDispatchIffRunning'
  BY RetiredRows DEF LiveDispatchIffRunning, Live

LEMMA QueuedWhenRunning ==
  ASSUME TypeOK, NEW rows \in [Dispatches -> DispatchStatus],
         \A d \in Dispatches : rows[d] \notin {"pending", "in_flight", "failed"},
         EnqueueOn(rows), exec' = "running"
  PROVE  LiveDispatchIffRunning'
  BY EnqueuedRows DEF LiveDispatchIffRunning

LEMMA ResumedDispatch ==
  ASSUME TypeOK, DispatchInv, exec # "running", NEW st, ResumeIfIdle(st)
  PROVE  LiveDispatchIffRunning'
<1>1. dispatch \in [Dispatches -> DispatchStatus]
  BY DEF TypeOK, QueueTypeOK, DispatchStatus
<1>2. \A d \in Dispatches : dispatch[d] \notin {"pending", "in_flight", "failed"}
  BY DEF DispatchInv, LiveDispatchIffRunning, Live
<1>3. CASE UNCHANGED <<exec, dispatch>>
  BY <1>3 DEF DispatchInv, LiveDispatchIffRunning, Live
<1>4. CASE exec' = "running" /\ EnqueueOn(dispatch)
  BY <1>1, <1>2, <1>4, QueuedWhenRunning
<1> QED
  BY <1>3, <1>4 DEF ResumeIfIdle

(* A row that is live before and after, alone among the rows, changes nothing. *)
LEMMA SameLiveRows ==
  ASSUME DispatchInv, UNCHANGED exec,
         \A d \in Dispatches : Live(d)' <=> Live(d)
  PROVE  LiveDispatchIffRunning'
  BY DEF DispatchInv, LiveDispatchIffRunning

LEMMA SameGate ==
  ASSUME DispatchInv, UNCHANGED <<step, approval>>, exec' = exec \/ exec # "blocked"
  PROVE  ApprovalGate'
  BY DEF DispatchInv, ApprovalGate

LEMMA DispatchDelivery ==
  ASSUME TypeOK, DispatchInv, NEW l \in Leases, Deliver(l)
  PROVE  DispatchInv'
<1> USE DEF recordVars
<1>1. ASSUME FailUnder(l)
      PROVE  LiveDispatchIffRunning' /\ (exec' = exec \/ exec # "blocked")
  <2>1. CASE exec \notin TerminalExec /\ Owns(l)
    BY <1>1, <2>1, OwnerRuns, ReleasedWhenNotRunning DEF FailUnder
  <2>2. CASE UNCHANGED <<exec, dispatch>>
    BY <2>2 DEF DispatchInv, LiveDispatchIffRunning, Live
  <2> QED
    BY <1>1, <2>1, <2>2 DEF FailUnder
<1>2. CASE Discard(l)
  <2>1. ~ Owns(l)
    BY <1>2, OwnerRuns DEF Discard, TerminalExec
  <2>2. UNCHANGED <<dispatch, exec, step, approval>>
    BY <1>2, <2>1 DEF Discard, AckRow
  <2> QED
    BY <2>2, SameGate, SameLiveRows DEF DispatchInv, Live
<1>3. CASE Exhaust(l)
  BY <1>1, <1>3, SameGate DEF Exhaust, DispatchInv
<1>4. CASE Post(l) \/ AgentRuns(l) \/ PostOk(l) \/ ReplicaCrash(l)
  <2>1. UNCHANGED <<dispatch, exec, step, approval>>
    BY <1>4 DEF Post, AgentRuns, PostOk, ReplicaCrash, queueVars
  <2> QED
    BY <2>1, SameGate, SameLiveRows DEF DispatchInv, Live
<1>5. CASE PostFails(l)
  <2>1. UNCHANGED <<step, approval>>
    BY <1>5 DEF PostFails
  <2>2. CASE FailUnder(l)
    BY <1>1, <2>1, <2>2, SameGate DEF DispatchInv
  <2>3. CASE AckRow(l, "failed") /\ UNCHANGED exec
    <3>1. \A d \in Dispatches : Live(d)' <=> Live(d)
      BY <2>3 DEF AckRow, Owns, Live, TypeOK, QueueTypeOK, Leases
    <3> QED
      BY <2>1, <2>3, <3>1, SameGate, SameLiveRows DEF DispatchInv
  <2> QED
    BY <1>5, <2>2, <2>3 DEF PostFails
<1> QED
  BY <1>2, <1>3, <1>4, <1>5 DEF Deliver

LEMMA DispatchSubmit ==
  ASSUME TypeOK, DispatchInv, NEW l \in Leases, NEW e \in Effects, Submit(l, e)
  PROVE  DispatchInv'
<1> DEFINE s == NextStep(l, e)
<1>1. Submitting(l, e) /\ s \in StepIds
  BY NextStepIsStep
     DEF Submit, SubmitReplay, SubmitStart, SubmitOrphan, SubmitRestart, SubmittingNew,
         SubmitAllowed, SubmitDenied, SubmitForApproval, SubmitRefused, SubmitParked
<1>2. /\ exec = "running"
      /\ \A t \in StepIds : approval[t] # "pending" /\ step[t] # "awaiting_approval"
  BY <1>1, OwnerRuns DEF Submitting
(* A submission that leaves execution and dispatches alone, and asks nobody. *)
<1>3. ASSUME UNCHANGED <<dispatch, exec, approval>>,
             \/ UNCHANGED step
             \/ \E status \in {"executing", "indeterminate", "denied"} : step' = Upsert(s, status)
      PROVE  DispatchInv'
  <2>1. LiveDispatchIffRunning'
    BY <1>3, SameLiveRows DEF Live
  <2>2. \A t \in StepIds : step'[t] # "awaiting_approval"
    <3>1. CASE UNCHANGED step
      BY <1>2, <3>1
    <3>2. CASE \E status \in {"executing", "indeterminate", "denied"} : step' = Upsert(s, status)
      <4>1. PICK status \in {"executing", "indeterminate", "denied"} : step' = Upsert(s, status)
        BY <3>2
      <4>2. status # "awaiting_approval"
        OBVIOUS
      <4> HIDE DEF s
      <4> QED
        BY <1>1, <1>2, <4>1, <4>2, UpsertAsksNobody
    <3> QED
      BY <1>3, <3>1, <3>2
  <2>3. ApprovalGate'
    BY <1>2, <1>3, <2>2 DEF ApprovalGate
  <2> QED
    BY <2>1, <2>3 DEF DispatchInv
<1>4. CASE SubmitReplay(l, e) \/ SubmitRestart(l, e) \/ SubmitRefused(l, e)
  BY <1>3, <1>4 DEF SubmitReplay, SubmitRestart, SubmitRefused, recordVars, queueVars
<1>5. CASE SubmitStart(l, e) \/ SubmitAllowed(l, e)
  BY <1>3, <1>5 DEF SubmitStart, SubmitAllowed
<1>6. CASE SubmitOrphan(l, e) \/ SubmitDenied(l, e)
  BY <1>3, <1>6 DEF SubmitOrphan, SubmitDenied
<1>7. CASE SubmitForApproval(l, e)
  <2>1. LiveDispatchIffRunning'
    BY <1>7, ReleasedWhenNotRunning DEF SubmitForApproval
  <2>2. /\ step'[s] = "awaiting_approval" /\ approval'[s] = "pending"
        /\ \A t \in StepIds : t # s => step'[t] # "awaiting_approval" /\ approval'[t] # "pending"
        /\ exec' = "blocked"
    <3>1. /\ step' = Upsert(s, "awaiting_approval")
          /\ approval' = [approval EXCEPT ![s] = "pending"]
          /\ exec' = "blocked"
          /\ step[s] = "absent"
      BY <1>7 DEF SubmitForApproval, SubmittingNew
    <3>2. approval \in [StepIds -> {"none", "pending", "granted", "denied", "expired"}]
      BY DEF TypeOK
    <3> HIDE DEF s
    <3> QED
      BY <1>1, <1>2, <3>1, <3>2, UpsertedStep DEF FinalStep
  <2> QED
    BY <2>1, <2>2 DEF DispatchInv, ApprovalGate
<1>8. CASE SubmitParked(l, e)
  <2>1. LiveDispatchIffRunning'
    BY <1>2, <1>8, RetiredRows, QueuedWhenRunning DEF SubmitParked
  <2>2. UNCHANGED <<step, approval, exec>>
    BY <1>8 DEF SubmitParked
  <2> QED
    BY <2>1, <2>2, SameGate DEF DispatchInv
<1> QED
  BY <1>4, <1>5, <1>6, <1>7, <1>8 DEF Submit

LEMMA DispatchAgent ==
  ASSUME TypeOK, DispatchInv, NEW l \in Leases, Agent(l)
  PROVE  DispatchInv'
<1>1. ASSUME NEW e \in Effects, Submit(l, e)
      PROVE  DispatchInv'
  BY <1>1, DispatchSubmit
<1>2. ASSUME NEW s \in StepIds, ReportStep(l, s)
      PROVE  DispatchInv'
  <2>1. UNCHANGED <<dispatch, exec, approval>>
    BY <1>2 DEF ReportStep, Settle
  <2>2. \A t \in StepIds : step'[t] = "awaiting_approval" <=> step[t] = "awaiting_approval"
    <3>1. step[s] = "executing" /\ \E outcome \in {"succeeded", "failed"} : step' = Upsert(s, outcome)
      BY <1>2 DEF ReportStep, Reporting, Settle
    <3>2. PICK outcome \in {"succeeded", "failed"} : step' = Upsert(s, outcome)
      BY <3>1
    <3>3. outcome # "awaiting_approval"
      OBVIOUS
    <3> QED
      BY <3>1, <3>2, <3>3, UpsertAsksNobody
  <2> QED
    BY <2>1, <2>2, SameLiveRows DEF DispatchInv, ApprovalGate, Live
<1>3. CASE Suspend(l) \/ FinishExecution(l)
  <2>1. exec = "running" /\ exec' # "running" /\ UNCHANGED <<step, approval>> /\ dispatch' = Retired
    BY <1>3, OwnerRuns DEF Suspend, FinishExecution, recordVars
  <2> QED
    BY <2>1, ReleasedWhenNotRunning, SameGate DEF DispatchInv
<1>4. CASE AgentStops(l)
  BY <1>4, SameGate, SameLiveRows DEF AgentStops, DispatchInv, Live, recordVars, queueVars
<1> QED
  BY <1>1, <1>2, <1>3, <1>4 DEF Agent

LEMMA DispatchStepActions ==
  ASSUME TypeOK, DispatchInv, NEW s \in StepIds, Approver(s) \/ Subagent(s)
  PROVE  DispatchInv'
<1>1. ASSUME NEW verdict \in {"granted", "denied", "expired"},
             NEW status \in {"allowed", "denied"},
             Decide(s, verdict, status)
      PROVE  DispatchInv'
  <2>1. exec = "blocked" /\ \A t \in StepIds : approval[t] = "pending" <=> t = s
    BY <1>1 DEF Decide, DispatchInv, ApprovalGate
  <2>2. \A t \in StepIds : approval'[t] # "pending" /\ step'[t] # "awaiting_approval"
    <3>1. /\ step' = Upsert(s, status)
          /\ approval' = [approval EXCEPT ![s] = verdict]
      BY <1>1 DEF Decide
    <3>2. \A t \in StepIds : approval[t] = "pending" <=> step[t] = "awaiting_approval"
      BY DEF DispatchInv, ApprovalGate
    <3>3. approval \in [StepIds -> {"none", "pending", "granted", "denied", "expired"}]
      BY DEF TypeOK
    <3>4. status # "awaiting_approval" /\ verdict # "pending"
      BY <1>1
    <3> QED
      BY <2>1, <3>1, <3>2, <3>3, <3>4, UpsertAsksNobody
  <2>3. LiveDispatchIffRunning'
    BY <1>1, <2>1, ResumedDispatch DEF Decide
  <2> QED
    BY <2>2, <2>3 DEF DispatchInv, ApprovalGate
<1>2. CASE Approver(s)
  BY <1>2, <1>1 DEF Approver, GrantApproval, DenyApproval, ExpireApproval
<1>3. CASE Spawn(s) \/ ChildEnds(s) \/ CancelChild(s)
  <2>1. UNCHANGED <<dispatch, exec, step, approval>>
    BY <1>3 DEF Spawn, ChildEnds, CancelChild, queueVars
  <2> QED
    BY <2>1, SameGate, SameLiveRows DEF DispatchInv, Live
<1>4. CASE SettleParentStep(s)
  <2>1. /\ UNCHANGED approval
        /\ \A t \in StepIds : step'[t] = "awaiting_approval" <=> step[t] = "awaiting_approval"
    BY <1>4, UpsertRow DEF SettleParentStep, Settle, StepStatus, FinalStep
  <2>2. CASE exec = "blocked"
    <3>1. ResumeIfIdle(step')
      BY <1>4, <2>2 DEF SettleParentStep
    <3>2. LiveDispatchIffRunning'
      BY <2>2, <3>1, ResumedDispatch
    <3>3. exec' = exec \/ \A t \in StepIds : step'[t] # "awaiting_approval"
      BY <3>1 DEF ResumeIfIdle, AwaitingSteps
    <3> QED
      BY <2>1, <3>2, <3>3 DEF DispatchInv, ApprovalGate
  <2>3. CASE exec # "blocked"
    BY <1>4, <2>1, <2>3, SameLiveRows DEF SettleParentStep, DispatchInv, ApprovalGate, Live
  <2> QED
    BY <2>2, <2>3
<1> QED
  BY <1>2, <1>3, <1>4 DEF Subagent

LEMMA DispatchNext == TypeOK /\ DispatchInv /\ [Next]_vars => DispatchInv'
<1> SUFFICES ASSUME TypeOK, DispatchInv, [Next]_vars PROVE DispatchInv'
  OBVIOUS
<1>1. CASE UNCHANGED vars
  BY <1>1, SameGate, SameLiveRows DEF vars, queueVars, recordVars, DispatchInv, Live
<1>2. CASE Start
  <2>1. LiveDispatchIffRunning'
    BY <1>2, QueuedWhenRunning
       DEF Start, DispatchInv, LiveDispatchIffRunning, Live, TypeOK, QueueTypeOK, DispatchStatus
  <2> QED
    BY <1>2, <2>1, SameGate DEF Start, recordVars, DispatchInv
<1>3. ASSUME NEW d \in Dispatches, Claim(d) \/ Reclaim(d)
      PROVE  DispatchInv'
  <2>1. \A c \in Dispatches : Live(c)' <=> Live(c)
    BY <1>3 DEF Claim, ClaimRow, Reclaim, ReclaimRow, Live, TypeOK, QueueTypeOK
  <2>2. UNCHANGED <<exec, step, approval>>
    BY <1>3 DEF Claim, Reclaim, recordVars
  <2> QED
    BY <2>1, <2>2, SameGate, SameLiveRows DEF DispatchInv
<1>4. CASE CancelExecution
  <2>1. LiveDispatchIffRunning'
    BY <1>4, ReleasedWhenNotRunning DEF CancelExecution
  <2>2. \A t \in StepIds : approval'[t] # "pending" /\ step'[t] # "awaiting_approval"
    <3>1. \A t \in StepIds : approval[t] = "pending" <=> step[t] = "awaiting_approval"
      BY DEF DispatchInv, ApprovalGate
    <3>2. \A t \in StepIds : Upsert(t, "denied")[t] # "awaiting_approval"
      BY DEF Upsert, TypeOK, FinalStep
    <3> QED
      BY <1>4, <3>1, <3>2 DEF CancelExecution
  <2> QED
    BY <2>1, <2>2 DEF DispatchInv, ApprovalGate
<1> QED
  BY <1>1, <1>2, <1>3, <1>4, DispatchDelivery, DispatchAgent, DispatchStepActions DEF Next

LEMMA DispatchInit == Init => DispatchInv
  BY DEF Init, QueueInit, DispatchInv, LiveDispatchIffRunning, ApprovalGate, Live

LEMMA DispatchInvariant == Spec => [](TypeOK /\ DispatchInv)
  BY TypeInit, TypeNext, DispatchInit, DispatchNext, PTL DEF Spec

(* A running execution has exactly one queued or in-flight dispatch, and one *)
(* that is not running has none: replicas, reclaims, approvals, settlements  *)
(* and cancellations can never leave two deliveries or none.                 *)
THEOREM OneLiveDispatch == Spec => []LiveDispatchIffRunning
  BY DispatchInvariant, PTL DEF DispatchInv

(* Approval rows, step rows and the execution's status agree: an approval is *)
(* open exactly while its step waits, alone, in a blocked execution.         *)
THEOREM ApprovalsGate == Spec => []ApprovalGate
  BY DispatchInvariant, PTL DEF DispatchInv

-----------------------------------------------------------------------------
(* The step ledger: what agents were told, and what was recorded.           *)

Started == {"executing", "succeeded", "failed", "indeterminate", "cancelled"}

(* Actions that touch neither the ledger nor the end of the execution. *)
LEMMA SameLedger ==
  ASSUME LedgerInv, UNCHANGED <<step, approval, told>>,
         exec' = exec \/ (exec \notin TerminalExec /\ exec' # "cancelled")
  PROVE  LedgerInv'
<1>1. exec' = "cancelled" <=> exec = "cancelled"
  BY DEF TerminalExec
<1> QED
  BY <1>1 DEF LedgerInv, ToldStarted, CancelledByExecution, RefusedIsDenied,
         CancelledIsSettled, AtMostOnceTold

(* One step moves, of an execution that has not ended and is not cancelled   *)
(* by the move; an agent is told of it at most if it has started.            *)
LEMMA OneStepMoves ==
  ASSUME TypeOK, LedgerInv,
         exec \notin TerminalExec, exec' # "cancelled",
         NEW s \in StepIds, NEW status \in StepStatus \ {"absent", "cancelled"},
         NEW verdict \in {"none", "pending", "granted", "denied", "expired"},
         step[s] \notin FinalStep,
         step' = Upsert(s, status),
         approval' = [approval EXCEPT ![s] = verdict],
         verdict \in {"denied", "expired"} => status = "denied",
         step[s] = "executing" => status \in Started,
         \/ UNCHANGED told
         \/ \E l \in Leases : step[s] # "executing" /\ status \in Started /\ told' = told \cup {<<l, s>>}
  PROVE  LedgerInv'
<1>1. /\ step'[s] = status
      /\ \A t \in StepIds : t # s => step'[t] = step[t]
  BY UpsertedStep
<1>2. /\ approval'[s] = verdict
      /\ \A t \in StepIds : t # s => approval'[t] = approval[t]
  BY DEF TypeOK
<1>3. exec # "cancelled"
  BY DEF TerminalExec
<1>4. /\ CancelledByExecution'
      /\ CancelledIsSettled'
      /\ RefusedIsDenied'
  BY <1>1, <1>2, <1>3
     DEF LedgerInv, CancelledByExecution, CancelledIsSettled, RefusedIsDenied
<1>5. \A l \in Leases : <<l, s>> \in told => step[s] = "executing"
  BY DEF LedgerInv, ToldStarted, FinalStep
<1>6. CASE UNCHANGED told
  BY <1>1, <1>4, <1>5, <1>6 DEF LedgerInv, ToldStarted, AtMostOnceTold, Started
<1>7. ASSUME NEW l \in Leases,
             step[s] # "executing", status \in Started, told' = told \cup {<<l, s>>}
      PROVE  LedgerInv'
  <2>1. \A m \in Leases : <<m, s>> \notin told
    BY <1>5, <1>7
  <2>2. \A m \in Leases, t \in StepIds :
          <<m, t>> \in told' <=> <<m, t>> \in told \/ (m = l /\ t = s)
    BY <1>7
  <2>3. ToldStarted'
    BY <1>1, <1>7, <2>2 DEF LedgerInv, ToldStarted, Started
  <2>4. AtMostOnceTold'
    BY <2>1, <2>2 DEF LedgerInv, AtMostOnceTold
  <2> QED
    BY <1>4, <2>3, <2>4 DEF LedgerInv
<1> QED
  BY <1>6, <1>7

(* A step that is safe to retry is handed out once more. *)
LEMMA SafeStepAgain ==
  ASSUME LedgerInv, UNCHANGED <<exec, step, approval>>,
         NEW l \in Leases, NEW s \in StepIds,
         step[s] = "executing", s[1] \notin AtMostOnce,
         told' = told \cup {<<l, s>>}
  PROVE  LedgerInv'
<1>1. \A m \in Leases, t \in StepIds :
        <<m, t>> \in told' <=> <<m, t>> \in told \/ (m = l /\ t = s)
  OBVIOUS
<1>2. ToldStarted' /\ AtMostOnceTold'
  BY <1>1 DEF LedgerInv, ToldStarted, AtMostOnceTold
<1> QED
  BY <1>2 DEF LedgerInv, CancelledByExecution, CancelledIsSettled, RefusedIsDenied

LEMMA LedgerDelivery ==
  ASSUME TypeOK, LedgerInv, NEW l \in Leases, Deliver(l)
  PROVE  LedgerInv'
<1>1. UNCHANGED <<step, approval, told>>
  BY DEF Deliver, Discard, Exhaust, Post, AgentRuns, PostOk, PostFails, ReplicaCrash, recordVars
<1>2. exec' = exec \/ (exec \notin TerminalExec /\ exec' # "cancelled")
  BY DEF Deliver, Discard, Exhaust, Post, AgentRuns, PostOk, PostFails, ReplicaCrash, FailUnder
<1> QED
  BY <1>1, <1>2, SameLedger

LEMMA LedgerSubmit ==
  ASSUME TypeOK, LedgerInv, NEW l \in Leases, NEW e \in Effects, Submit(l, e)
  PROVE  LedgerInv'
<1> DEFINE s == NextStep(l, e)
<1>1. Submitting(l, e) /\ s \in StepIds
  BY NextStepIsStep
     DEF Submit, SubmitReplay, SubmitStart, SubmitOrphan, SubmitRestart, SubmittingNew,
         SubmitAllowed, SubmitDenied, SubmitForApproval, SubmitRefused, SubmitParked
<1>2. exec \notin TerminalExec /\ exec # "cancelled"
  BY <1>1 DEF Submitting, TerminalExec
<1>3. approval[s] \in {"none", "pending", "granted", "denied", "expired"}
      /\ (UNCHANGED approval => approval' = [approval EXCEPT ![s] = approval[s]])
  BY <1>1 DEF TypeOK
<1>4. step[s] # "denied" => approval[s] \notin {"denied", "expired"}
  BY <1>1 DEF LedgerInv, RefusedIsDenied
<1>5. CASE SubmitReplay(l, e) \/ SubmitRefused(l, e) \/ SubmitParked(l, e)
  BY <1>5, SameLedger DEF SubmitReplay, SubmitRefused, SubmitParked, recordVars
<1>6. CASE SubmitStart(l, e) \/ SubmitAllowed(l, e)
  <2>1. /\ step[s] \in {"absent", "allowed"}
        /\ step' = Upsert(s, "executing")
        /\ told' = told \cup {<<l, s>>}
        /\ UNCHANGED <<exec, approval>>
    BY <1>6 DEF SubmitStart, SubmitAllowed, SubmittingNew, Proceed
  <2> HIDE DEF s
  <2> QED
    BY <1>1, <1>2, <1>3, <1>4, <2>1, OneStepMoves DEF StepStatus, FinalStep, Started
<1>7. CASE SubmitOrphan(l, e)
  <2>1. /\ step[s] = "executing"
        /\ step' = Upsert(s, "indeterminate")
        /\ UNCHANGED <<exec, approval, told>>
    BY <1>7 DEF SubmitOrphan
  <2> HIDE DEF s
  <2> QED
    BY <1>1, <1>2, <1>3, <1>4, <2>1, OneStepMoves DEF StepStatus, FinalStep, Started
<1>8. CASE SubmitRestart(l, e)
  <2>1. step[s] # "cancelled"
    BY <1>1, <1>2 DEF LedgerInv, CancelledByExecution
  <2>2. /\ step[s] = "executing" /\ s[1] \notin AtMostOnce
        /\ told' = told \cup {<<l, s>>}
        /\ UNCHANGED <<exec, step, approval>>
    BY <1>8, <2>1 DEF SubmitRestart, Restarts, Proceed
  <2> HIDE DEF s
  <2> QED
    BY <1>1, <2>2, SafeStepAgain
<1>9. CASE SubmitDenied(l, e)
  <2>1. /\ step[s] = "absent"
        /\ step' = Upsert(s, "denied")
        /\ UNCHANGED <<exec, approval, told>>
    BY <1>9 DEF SubmitDenied, SubmittingNew
  <2> HIDE DEF s
  <2> QED
    BY <1>1, <1>2, <1>3, <1>4, <2>1, OneStepMoves DEF StepStatus, FinalStep, Started
<1>10. CASE SubmitForApproval(l, e)
  <2>1. /\ step[s] = "absent"
        /\ step' = Upsert(s, "awaiting_approval")
        /\ approval' = [approval EXCEPT ![s] = "pending"]
        /\ exec' = "blocked"
        /\ UNCHANGED told
    BY <1>10 DEF SubmitForApproval, SubmittingNew
  <2> HIDE DEF s
  <2> QED
    BY <1>1, <1>2, <2>1, OneStepMoves DEF StepStatus, FinalStep, Started
<1> QED
  BY <1>5, <1>6, <1>7, <1>8, <1>9, <1>10 DEF Submit

(* An outcome for an executing step, from its agent or from its subagent. *)
LEMMA LedgerSettle ==
  ASSUME TypeOK, LedgerInv, NEW s \in StepIds,
         NEW outcomes \in SUBSET {"succeeded", "failed"},
         exec \notin TerminalExec, exec' # "cancelled",
         step[s] = "executing", Settle(s, outcomes)
  PROVE  LedgerInv'
<1>1. PICK outcome \in {"succeeded", "failed"} : step' = Upsert(s, outcome)
  BY DEF Settle
<1>2. UNCHANGED <<approval, told>>
  BY DEF Settle
<1>3. /\ approval[s] \in {"none", "pending", "granted"}
      /\ approval' = [approval EXCEPT ![s] = approval[s]]
  BY <1>2 DEF TypeOK, LedgerInv, RefusedIsDenied
<1> QED
  BY <1>1, <1>2, <1>3, OneStepMoves DEF StepStatus, FinalStep, Started

LEMMA LedgerAgent ==
  ASSUME TypeOK, LedgerInv, NEW l \in Leases, Agent(l)
  PROVE  LedgerInv'
<1>1. ASSUME NEW e \in Effects, Submit(l, e)
      PROVE  LedgerInv'
  BY <1>1, LedgerSubmit
<1>2. ASSUME NEW s \in StepIds, ReportStep(l, s)
      PROVE  LedgerInv'
  BY <1>2, LedgerSettle DEF ReportStep, Reporting, TerminalExec
<1>3. CASE Suspend(l) \/ FinishExecution(l) \/ AgentStops(l)
  BY <1>3, SameLedger DEF Suspend, FinishExecution, AgentStops, recordVars, TerminalExec
<1> QED
  BY <1>1, <1>2, <1>3 DEF Agent

LEMMA LedgerStepActions ==
  ASSUME TypeOK, DispatchInv, LedgerInv, NEW s \in StepIds, Approver(s) \/ Subagent(s)
  PROVE  LedgerInv'
<1>1. \A st : ResumeIfIdle(st) => exec' = exec \/ exec' = "running"
  BY DEF ResumeIfIdle
<1>2. ASSUME NEW verdict \in {"granted", "denied", "expired"},
             NEW status \in {"allowed", "denied"},
             verdict \in {"denied", "expired"} => status = "denied",
             Decide(s, verdict, status)
      PROVE  LedgerInv'
  <2>1. exec = "blocked" /\ step[s] = "awaiting_approval"
    BY <1>2 DEF Decide, DispatchInv, ApprovalGate
  <2>2. exec \notin TerminalExec /\ exec' # "cancelled"
    BY <1>1, <1>2, <2>1 DEF Decide, TerminalExec
  <2>3. /\ step' = Upsert(s, status)
        /\ approval' = [approval EXCEPT ![s] = verdict]
        /\ UNCHANGED told
    BY <1>2 DEF Decide
  <2> QED
    BY <1>2, <2>1, <2>2, <2>3, OneStepMoves DEF StepStatus, FinalStep, Started
<1>3. CASE Approver(s)
  BY <1>3, <1>2 DEF Approver, GrantApproval, DenyApproval, ExpireApproval
<1>4. CASE Spawn(s) \/ ChildEnds(s) \/ CancelChild(s)
  BY <1>4, SameLedger DEF Spawn, ChildEnds, CancelChild
<1>5. CASE SettleParentStep(s)
  <2>1. exec \notin TerminalExec /\ exec' # "cancelled" /\ step[s] = "executing"
    BY <1>1, <1>5 DEF SettleParentStep, TerminalExec
  <2> QED
    BY <1>5, <2>1, LedgerSettle DEF SettleParentStep
<1> QED
  BY <1>3, <1>4, <1>5 DEF Subagent

LEMMA LedgerCancel ==
  ASSUME TypeOK, DispatchInv, LedgerInv, CancelExecution
  PROVE  LedgerInv'
<1>1. /\ exec' = "cancelled" /\ UNCHANGED told
      /\ \A s \in StepIds : approval[s] = "pending" <=> step[s] = "awaiting_approval"
  BY DEF CancelExecution, DispatchInv, ApprovalGate
<1>2. \A s \in StepIds :
        step[s] = "awaiting_approval" => step'[s] = "denied" /\ approval'[s] = "expired"
  <2>1. \A s \in StepIds : step[s] = "awaiting_approval" => Upsert(s, "denied")[s] = "denied"
    BY DEF Upsert, TypeOK, FinalStep
  <2> QED
    BY <1>1, <2>1 DEF CancelExecution
<1>3. \A s \in StepIds :
        step[s] # "awaiting_approval" =>
          /\ approval'[s] = approval[s]
          /\ step'[s] = IF step[s] = "executing" THEN "cancelled" ELSE step[s]
  BY <1>1 DEF CancelExecution
<1>4. CancelledByExecution' /\ CancelledIsSettled'
  BY <1>1, <1>2, <1>3 DEF CancelledByExecution, CancelledIsSettled
<1>5. RefusedIsDenied'
  BY <1>2, <1>3 DEF LedgerInv, RefusedIsDenied
<1>6. ToldStarted'
  BY <1>1, <1>3 DEF LedgerInv, ToldStarted
<1>7. AtMostOnceTold'
  BY <1>1 DEF LedgerInv, AtMostOnceTold
<1> QED
  BY <1>4, <1>5, <1>6, <1>7 DEF LedgerInv

LEMMA LedgerNext == TypeOK /\ DispatchInv /\ LedgerInv /\ [Next]_vars => LedgerInv'
<1> SUFFICES ASSUME TypeOK, DispatchInv, LedgerInv, [Next]_vars PROVE LedgerInv'
  OBVIOUS
<1>1. CASE UNCHANGED vars
  BY <1>1, SameLedger DEF vars, recordVars
<1>2. CASE Start
  BY <1>2, SameLedger DEF Start, recordVars, TerminalExec
<1>3. ASSUME NEW d \in Dispatches, Claim(d) \/ Reclaim(d)
      PROVE  LedgerInv'
  BY <1>3, SameLedger DEF Claim, Reclaim, recordVars
<1> QED
  BY <1>1, <1>2, <1>3, LedgerDelivery, LedgerAgent, LedgerStepActions, LedgerCancel DEF Next

LEMMA LedgerInit == Init => LedgerInv
  BY DEF Init, LedgerInv, ToldStarted, CancelledByExecution, RefusedIsDenied,
         CancelledIsSettled, AtMostOnceTold

(* The inductive invariant holds throughout. *)
THEOREM Invariance == Spec => []IndInv
  BY TypeInit, TypeNext, DispatchInit, DispatchNext, LedgerInit, LedgerNext, PTL DEF Spec, IndInv

(* However often a dispatch is claimed again, an at_most_once step is handed *)
(* to an agent under one attempt only.                                       *)
THEOREM AtMostOnce_Told == Spec => []AtMostOnceTold
  BY Invariance, PTL DEF IndInv, LedgerInv

(* An agent never runs a step whose approval is open, refused or timed out. *)
THEOREM ApprovalBeforeRun == Spec => []ApprovedBeforeRun
<1>1. IndInv => ApprovedBeforeRun
  BY DEF IndInv, TypeOK, DispatchInv, ApprovalGate, LedgerInv, ToldStarted, RefusedIsDenied,
         ApprovedBeforeRun
<1> QED
  BY <1>1, Invariance, PTL

(* Cancelling leaves no step open, and none is opened afterwards. *)
THEOREM CancelSettles == Spec => []CancelledIsSettled
  BY Invariance, PTL DEF IndInv, LedgerInv

-----------------------------------------------------------------------------
(* What is recorded stays recorded. *)

LEMMA UpsertKeepsOutcomes ==
  ASSUME TypeOK, NEW s \in StepIds, NEW status, step' = Upsert(s, status)
  PROVE  \A t \in StepIds : step[t] \in FinalStep => step'[t] = step[t]
  BY UpsertedStep

LEMMA RecordedSubmit ==
  ASSUME IndInv, NEW l \in Leases, NEW e \in Effects, Submit(l, e)
  PROVE  RecordedStays
<1> DEFINE s == NextStep(l, e)
<1>1. Submitting(l, e) /\ s \in StepIds
  BY NextStepIsStep
     DEF Submit, SubmitReplay, SubmitStart, SubmitOrphan, SubmitRestart, SubmittingNew,
         SubmitAllowed, SubmitDenied, SubmitForApproval, SubmitRefused, SubmitParked
<1>2. \A t \in StepIds : step[t] \in FinalStep => step'[t] = step[t]
  <2>1. UNCHANGED step \/ \E status : step' = Upsert(s, status)
    BY DEF Submit, SubmitReplay, SubmitStart, SubmitOrphan, SubmitRestart, SubmitAllowed,
           SubmitDenied, SubmitForApproval, SubmitRefused, SubmitParked, recordVars
  <2> HIDE DEF s
  <2> QED
    BY <1>1, <2>1, UpsertKeepsOutcomes DEF IndInv
<1>3. step[s] # "cancelled"
  BY <1>1 DEF Submitting, TerminalExec, IndInv, LedgerInv, CancelledByExecution
<1>4. UNCHANGED told \/ (step[s] \notin FinalStep /\ told' = told \cup {<<l, s>>})
  BY <1>3
     DEF Submit, SubmitReplay, SubmitStart, SubmitOrphan, SubmitRestart, Restarts, SubmittingNew,
         SubmitAllowed, SubmitDenied, SubmitForApproval, SubmitRefused, SubmitParked,
         Proceed, recordVars, FinalStep
<1> HIDE DEF s
<1> QED
  BY <1>1, <1>2, <1>4 DEF RecordedStays

LEMMA RecordedNext == IndInv /\ [Next]_vars => [RecordedStays]_vars
<1> SUFFICES ASSUME IndInv, Next PROVE RecordedStays
  BY DEF IndInv
<1>1. ASSUME UNCHANGED told,
             UNCHANGED step \/ \E s \in StepIds : \E status : step' = Upsert(s, status)
      PROVE  RecordedStays
  BY <1>1, UpsertKeepsOutcomes DEF IndInv, RecordedStays
<1>2. CASE Start \/ \E d \in Dispatches : Claim(d) \/ Reclaim(d)
  BY <1>1, <1>2 DEF Start, Claim, Reclaim, recordVars
<1>3. ASSUME NEW l \in Leases, Deliver(l) PROVE RecordedStays
  BY <1>1, <1>3
     DEF Deliver, Discard, Exhaust, Post, AgentRuns, PostOk, PostFails, ReplicaCrash, recordVars
<1>4. ASSUME NEW l \in Leases, Agent(l) PROVE RecordedStays
  <2>1. ASSUME NEW s \in StepIds, ReportStep(l, s) PROVE RecordedStays
    BY <1>1, <2>1 DEF ReportStep, Settle
  <2>2. CASE Suspend(l) \/ FinishExecution(l) \/ AgentStops(l)
    BY <1>1, <2>2 DEF Suspend, FinishExecution, AgentStops, recordVars
  <2> QED
    BY <1>4, <2>1, <2>2, RecordedSubmit DEF Agent
<1>5. ASSUME NEW s \in StepIds, Approver(s) \/ Subagent(s) PROVE RecordedStays
  BY <1>1, <1>5
     DEF Approver, GrantApproval, DenyApproval, ExpireApproval, Decide,
         Subagent, Spawn, ChildEnds, SettleParentStep, CancelChild, Settle
<1>6. CASE CancelExecution
  <2>1. \A s \in StepIds : approval[s] = "pending" => step[s] = "awaiting_approval"
    BY DEF IndInv, DispatchInv, ApprovalGate
  <2> QED
    BY <1>6, <2>1 DEF CancelExecution, RecordedStays, FinalStep
<1> QED
  BY <1>2, <1>3, <1>4, <1>5, <1>6 DEF Next

(* A step with an outcome keeps it, and no agent is told to run it again.   *)
THEOREM OutcomesAreFinal == Spec => RecordedNeverRerun
  BY Invariance, RecordedNext, PTL DEF Spec, RecordedNeverRerun

-----------------------------------------------------------------------------
(* What a submission does to the rows and counters, whichever of its answers *)
(* it gets: it concerns the step its occurrence names, which is recorded     *)
(* whenever the occurrence is consumed, and an attempt that keeps the        *)
(* dispatch walks past an at_most_once step with an outcome or with the      *)
(* order to run it.                                                          *)
LEMMA SubmittedStep ==
  ASSUME IndInv, NEW l \in Leases, NEW e \in Effects, Submit(l, e)
  PROVE  LET s == NextStep(l, e) IN
         /\ Submitting(l, e) /\ s \in StepIds /\ exec = "running"
         /\ \A t \in StepIds : t # s => step'[t] = step[t]
         /\ step[s] \in FinalStep => step'[s] = step[s]
         /\ step[s] # "absent" => step'[s] # "absent"
         /\ step'[s] = "allowed" => step[s] = "allowed"
         /\ \/ UNCHANGED occurrence
            \/ AdvanceOccurrence(l, e) /\ step'[s] # "absent"
         /\ \/ UNCHANGED occurrence
            \/ e \notin AtMostOnce
            \/ step'[s] \in FinalStep \/ <<l, s>> \in told'
            \/ \A m \in Leases : ~ Owns(m)'
<1> DEFINE s == NextStep(l, e)
<1>1. Submitting(l, e) /\ s \in StepIds
  BY NextStepIsStep
     DEF Submit, SubmitReplay, SubmitStart, SubmitOrphan, SubmitRestart, SubmittingNew,
         SubmitAllowed, SubmitDenied, SubmitForApproval, SubmitRefused, SubmitParked
<1>2. exec = "running" /\ step[s] # "awaiting_approval" /\ step[s] # "cancelled"
  BY <1>1, OwnerRuns DEF Submitting, IndInv, LedgerInv, CancelledByExecution
<1>3. ASSUME NEW status, step' = Upsert(s, status)
      PROVE  /\ \A t \in StepIds : t # s => step'[t] = step[t]
             /\ step'[s] = IF step[s] \in FinalStep THEN step[s] ELSE status
  <2> HIDE DEF s
  <2> QED
    BY <1>1, <1>3, UpsertedStep DEF IndInv
<1> HIDE DEF s
<1>4. CASE SubmitReplay(l, e)
  BY <1>1, <1>2, <1>4 DEF SubmitReplay, recordVars, FinalStep, s
<1>5. CASE SubmitRefused(l, e) \/ SubmitParked(l, e)
  BY <1>1, <1>2, <1>5 DEF SubmitRefused, SubmitParked, queueVars, s
<1>6. CASE SubmitStart(l, e) \/ SubmitAllowed(l, e)
  <2>1. /\ step[s] \in {"absent", "allowed"}
        /\ step' = Upsert(s, "executing")
        /\ <<l, s>> \in told'
        /\ AdvanceOccurrence(l, e)
    BY <1>6 DEF SubmitStart, SubmitAllowed, SubmittingNew, Proceed, s
  <2> QED
    BY <1>1, <1>2, <1>3, <2>1 DEF FinalStep, s
<1>7. CASE SubmitOrphan(l, e) \/ SubmitDenied(l, e)
  <2>1. /\ step[s] \in {"absent", "executing"}
        /\ \E status \in {"indeterminate", "denied"} : step' = Upsert(s, status)
        /\ AdvanceOccurrence(l, e)
    BY <1>7 DEF SubmitOrphan, SubmitDenied, SubmittingNew, s
  <2> QED
    BY <1>1, <1>2, <1>3, <2>1 DEF FinalStep, s
<1>8. CASE SubmitRestart(l, e)
  <2>1. /\ step[s] = "executing"
        /\ UNCHANGED step
        /\ <<l, s>> \in told'
        /\ AdvanceOccurrence(l, e)
    BY <1>2, <1>8 DEF SubmitRestart, Restarts, Proceed, s
  <2> QED
    BY <1>1, <1>2, <2>1 DEF FinalStep, s
<1>9. CASE SubmitForApproval(l, e)
  <2>1. /\ step[s] = "absent"
        /\ step' = Upsert(s, "awaiting_approval")
        /\ dispatch' = Retired
        /\ AdvanceOccurrence(l, e)
    BY <1>9 DEF SubmitForApproval, SubmittingNew, s
  <2>2. \A m \in Leases : ~ Owns(m)'
    BY <2>1, RetiredRows DEF Owns, Leases, IndInv
  <2> QED
    BY <1>1, <1>2, <1>3, <2>1, <2>2 DEF FinalStep, s
<1> QED
  BY <1>4, <1>5, <1>6, <1>7, <1>8, <1>9 DEF Submit, s

(* Who is told to run which step by a submission, and what an approval has   *)
(* to do with it.                                                            *)
LEMMA SubmittedAnswer ==
  ASSUME IndInv, NEW l \in Leases, NEW e \in Effects, Submit(l, e)
  PROVE  LET s == NextStep(l, e) IN
         /\ \/ UNCHANGED told
            \/ /\ told' = told \cup {<<l, s>>}
               /\ \/ step[s] = "allowed"
                  \/ e \notin AtMostOnce
                  \/ \A t \in StepIds : t[1] = e => step[t] # "indeterminate"
         /\ \/ UNCHANGED approval
            \/ step[s] = "absent" /\ approval' = [approval EXCEPT ![s] = "pending"]
         /\ step'[s] = "indeterminate" /\ step[s] # "indeterminate" =>
              e \in AtMostOnce /\ step[s] = "executing" /\ UNCHANGED told
         /\ \A m \in Leases : Owns(m)' => Owns(m)
<1> DEFINE s == NextStep(l, e)
<1>1. Submitting(l, e) /\ s \in StepIds /\ step[s] # "cancelled"
  BY NextStepIsStep
     DEF Submit, SubmitReplay, SubmitStart, SubmitOrphan, SubmitRestart, SubmittingNew,
         SubmitAllowed, SubmitDenied, SubmitForApproval, SubmitRefused, SubmitParked,
         Submitting, TerminalExec, IndInv, LedgerInv, CancelledByExecution
<1>2. UNCHANGED told \/ told' = told \cup {<<l, s>>}
  BY DEF Submit, SubmitReplay, SubmitStart, SubmitOrphan, SubmitRestart, recordVars, Proceed,
         SubmitAllowed, SubmitDenied, SubmitForApproval, SubmitRefused, SubmitParked
<1>3. \/ UNCHANGED told
      \/ step[s] = "allowed"
      \/ e \notin AtMostOnce
      \/ \A t \in StepIds : t[1] = e => step[t] # "indeterminate"
  <2>1. CASE SubmitAllowed(l, e)
    BY <2>1 DEF SubmitAllowed, IndeterminateRetry, StepIds
  <2>2. CASE SubmitRestart(l, e)
    BY <1>1, <2>2 DEF SubmitRestart, Restarts, NextStep
  <2>3. CASE ~ (SubmitAllowed(l, e) \/ SubmitRestart(l, e))
    BY <2>3 DEF Submit, SubmitReplay, SubmitStart, SubmitOrphan, recordVars,
           SubmitDenied, SubmitForApproval, SubmitRefused, SubmitParked
  <2> QED
    BY <2>1, <2>2, <2>3
<1>4. \/ UNCHANGED approval
      \/ step[s] = "absent" /\ approval' = [approval EXCEPT ![s] = "pending"]
  BY DEF Submit, SubmitReplay, SubmitStart, SubmitOrphan, SubmitRestart, recordVars, SubmittingNew,
         SubmitAllowed, SubmitDenied, SubmitForApproval, SubmitRefused, SubmitParked
<1>5. step'[s] = "indeterminate" /\ step[s] # "indeterminate" =>
        e \in AtMostOnce /\ step[s] = "executing" /\ UNCHANGED told
  <2>1. ASSUME NEW status, step' = Upsert(s, status), status # "indeterminate"
        PROVE  step'[s] = "indeterminate" => step[s] = "indeterminate"
    <3> HIDE DEF s
    <3> QED
      BY <1>1, <2>1, UpsertedStep DEF IndInv
  <2>2. CASE SubmitOrphan(l, e)
    BY <2>2 DEF SubmitOrphan
  <2>3. CASE ~ SubmitOrphan(l, e)
    <3>1. \/ UNCHANGED step
          \/ \E status \in {"executing", "denied", "awaiting_approval"} : step' = Upsert(s, status)
      BY <2>3 DEF Submit, SubmitReplay, SubmitStart, SubmitRestart, recordVars,
           SubmitAllowed, SubmitDenied, SubmitForApproval, SubmitRefused, SubmitParked
    <3> HIDE DEF s
    <3> QED
      BY <2>1, <3>1
  <2> QED
    BY <2>2, <2>3
<1>6. \A m \in Leases : Owns(m)' => Owns(m)
  <2>1. CASE SubmitForApproval(l, e) \/ SubmitParked(l, e)
    <3>1. \A d \in Dispatches : dispatch'[d] # "in_flight"
      BY <2>1, RetiredRows DEF SubmitForApproval, SubmitParked, EnqueueOn, DispatchStatus, IndInv
    <3> QED
      BY <3>1 DEF Owns, Leases
  <2>2. CASE ~ (SubmitForApproval(l, e) \/ SubmitParked(l, e))
    BY <2>2 DEF Submit, SubmitReplay, SubmitStart, SubmitOrphan, SubmitRestart, queueVars,
           SubmitAllowed, SubmitDenied, SubmitRefused, Owns
  <2> QED
    BY <2>1, <2>2
<1> QED
  BY <1>2, <1>3, <1>4, <1>5, <1>6

(* Counters, records and permissions under a submission. *)
LEMMA RecordSubmit ==
  ASSUME IndInv, RecordInv, NEW l \in Leases, NEW e \in Effects, Submit(l, e)
  PROVE  RecordInv'
<1> DEFINE s == NextStep(l, e)
<1>1. /\ Submitting(l, e) /\ s \in StepIds /\ exec = "running"
      /\ \A t \in StepIds : t # s => step'[t] = step[t]
      /\ step[s] \in FinalStep => step'[s] = step[s]
      /\ step[s] # "absent" => step'[s] # "absent"
      /\ step'[s] = "allowed" => step[s] = "allowed"
      /\ \/ UNCHANGED occurrence
         \/ AdvanceOccurrence(l, e) /\ step'[s] # "absent"
      /\ \/ UNCHANGED occurrence
         \/ e \notin AtMostOnce
         \/ step'[s] \in FinalStep \/ <<l, s>> \in told'
         \/ \A m \in Leases : ~ Owns(m)'
  BY SubmittedStep
<1>2. /\ \/ UNCHANGED told
         \/ /\ told' = told \cup {<<l, s>>}
            /\ \/ step[s] = "allowed"
               \/ e \notin AtMostOnce
               \/ \A t \in StepIds : t[1] = e => step[t] # "indeterminate"
      /\ \/ UNCHANGED approval
         \/ step[s] = "absent" /\ approval' = [approval EXCEPT ![s] = "pending"]
      /\ step'[s] = "indeterminate" /\ step[s] # "indeterminate" =>
           e \in AtMostOnce /\ step[s] = "executing" /\ UNCHANGED told
      /\ \A m \in Leases : Owns(m)' => Owns(m)
  BY SubmittedAnswer
<1>3. s[1] = e /\ s[2] = occurrence[l[1]][e] /\ s[2] \in Nat
  BY <1>1 DEF NextStep, StepIds, Occurrences
<1>4. \A d \in Dispatches, t \in StepIds :
        t[2] < occurrence'[d][t[1]] => t[2] < occurrence[d][t[1]] \/ (d = l[1] /\ t = s)
  <2> SUFFICES ASSUME AdvanceOccurrence(l, e), NEW d \in Dispatches, NEW t \in StepIds,
                      t[2] < occurrence'[d][t[1]], ~ (t[2] < occurrence[d][t[1]])
               PROVE  d = l[1] /\ t = s
    BY <1>1
  <2>1. d = l[1] /\ t[1] = e /\ t[2] < occurrence[d][e] + 1
    BY DEF AdvanceOccurrence, IndInv, TypeOK, QueueTypeOK, StepIds, Leases
  <2>2. t[2] \in Nat /\ t = <<t[1], t[2]>>
    BY BoundsAssumption DEF StepIds, Occurrences
  <2>3. occurrence[d][e] \in Nat
    BY BoundsAssumption DEF IndInv, TypeOK, QueueTypeOK
  <2>4. t[2] = occurrence[d][e]
    BY <2>1, <2>2, <2>3
  <2> QED
    BY <2>1, <2>2, <2>4 DEF NextStep
<1>5. l[1] \in Dispatches /\ Owns(l)
  BY <1>1 DEF Leases, Submitting
<1> HIDE DEF s
<1>6. CountersRecorded'
  BY <1>1, <1>4 DEF RecordInv, CountersRecorded
<1>7. \A t \in StepIds : t[1] = e /\ t[2] < s[2] => step[t] # "absent" /\ t # s
  BY <1>3, <1>5 DEF RecordInv, CountersRecorded, StepIds, Occurrences
<1>8. OccurrencesContiguous'
  <2> SUFFICES ASSUME NEW t \in StepIds, NEW u \in StepIds,
                      t[1] = u[1], t[2] < u[2], step'[u] # "absent", step'[t] = "absent"
               PROVE  FALSE
    BY DEF OccurrencesContiguous
  <2>1. step[t] = "absent"
    BY <1>1
  <2>2. u = s
    BY <1>1, <2>1 DEF RecordInv, OccurrencesContiguous
  <2> QED
    BY <1>3, <1>7, <2>1, <2>2
<1>9. PassedSettled'
  <2> SUFFICES ASSUME NEW m \in Leases, NEW t \in StepIds,
                      Owns(m)', t[1] \in AtMostOnce, t[2] < occurrence'[m[1]][t[1]]
               PROVE  step'[t] \in FinalStep \/ <<m, t>> \in told'
    BY DEF PassedSettled
  <2>1. Owns(m) /\ m[1] \in Dispatches
    BY <1>2 DEF Leases
  <2>2. CASE t[2] < occurrence[m[1]][t[1]]
    BY <1>1, <1>2, <2>1, <2>2 DEF RecordInv, PassedSettled
  <2>3. CASE m[1] = l[1] /\ t = s /\ ~ (t[2] < occurrence[m[1]][t[1]])
    <3>1. m = l
      BY <1>5, <2>1, <2>3 DEF Owns, Leases
    <3>2. ~ UNCHANGED occurrence
      BY <2>3
    <3> QED
      BY <1>1, <1>3, <2>3, <3>1, <3>2
  <2> QED
    BY <1>4, <2>1, <2>2, <2>3
<1>10. NoBlindRepeat'
  <2> SUFFICES ASSUME NEW m \in Leases, NEW t \in StepIds, NEW u \in StepIds,
                      t[1] \in AtMostOnce, t[1] = u[1], t[2] < u[2], <<m, u>> \in told'
               PROVE  step'[t] \in FinalStep \/ <<m, t>> \in told'
    BY DEF NoBlindRepeat
  <2>1. step[t] \in FinalStep \/ <<m, t>> \in told
    <3>1. CASE <<m, u>> \in told
      BY <3>1 DEF RecordInv, NoBlindRepeat
    <3>2. CASE m = l /\ u = s
      BY <1>3, <1>5, <3>2 DEF RecordInv, PassedSettled
    <3> QED
      BY <1>2, <3>1, <3>2
  <2> QED
    BY <1>1, <1>2, <2>1
<1>11. UnknownIsAtMostOnce'
  BY <1>1, <1>2, <1>3 DEF RecordInv, UnknownIsAtMostOnce
<1>12. AllowedIsGranted'
  <2> SUFFICES ASSUME NEW t \in StepIds, step'[t] = "allowed"
               PROVE  approval'[t] = "granted"
    BY DEF AllowedIsGranted
  <2>1. step[t] = "allowed" /\ approval[t] = "granted"
    BY <1>1 DEF RecordInv, AllowedIsGranted
  <2> QED
    BY <1>1, <1>2, <2>1 DEF IndInv, TypeOK
<1>13. UnknownNeedsApproval'
  <2> SUFFICES ASSUME NEW m \in Leases, NEW t \in StepIds, NEW u \in StepIds,
                      t[1] = u[1], t[2] < u[2], step'[t] = "indeterminate",
                      <<m, t>> \notin told', <<m, u>> \in told'
               PROVE  approval'[u] = "granted"
    BY DEF UnknownNeedsApproval
  <2>1. <<m, t>> \notin told
    BY <1>2
  <2>2. CASE step[t] # "indeterminate"
    <3>1. t = s /\ e \in AtMostOnce /\ step[t] = "executing" /\ <<m, u>> \in told
      BY <1>1, <1>2, <2>2
    <3> QED
      BY <1>3, <2>1, <3>1 DEF RecordInv, NoBlindRepeat, FinalStep
  <2>3. CASE step[t] = "indeterminate" /\ <<m, u>> \in told
    <3>1. approval[u] = "granted" /\ step[u] # "absent"
      BY <2>1, <2>3 DEF RecordInv, UnknownNeedsApproval, IndInv, LedgerInv, ToldStarted
    <3> QED
      BY <1>1, <1>2, <3>1 DEF IndInv, TypeOK
  <2>4. CASE step[t] = "indeterminate" /\ <<m, u>> \notin told
    <3>1. u = s /\ t[1] = e
      BY <1>2, <1>3, <2>4
    <3>2. e \in AtMostOnce
      BY <2>4, <3>1 DEF RecordInv, UnknownIsAtMostOnce
    <3>3. step[u] = "allowed"
      BY <1>2, <2>4, <3>1, <3>2
    <3>4. approval[u] = "granted"
      BY <3>3 DEF RecordInv, AllowedIsGranted
    <3> QED
      BY <1>2, <3>1, <3>3, <3>4
  <2> QED
    BY <2>2, <2>3, <2>4
<1>14. PendingIsEmpty'
  <2>1. exec' # "pending"
    BY <1>1 DEF Submit, SubmitReplay, SubmitStart, SubmitOrphan, SubmitRestart, queueVars,
           SubmitAllowed, SubmitDenied, SubmitForApproval, SubmitRefused, SubmitParked
  <2> QED
    BY <2>1 DEF PendingIsEmpty
<1> QED
  BY <1>6, <1>8, <1>9, <1>10, <1>11, <1>12, <1>13, <1>14 DEF RecordInv

(* An action that takes no submission: the counters stay, the owner of the  *)
(* dispatch stays or gives it up, nobody is told anything.                  *)
LEMMA RecordElsewhere ==
  ASSUME IndInv, RecordInv, UNCHANGED <<occurrence, told>>,
         \A l \in Leases : Owns(l)' => Owns(l),
         \A s \in StepIds :
           /\ step[s] \in FinalStep => step'[s] = step[s]
           /\ step'[s] = "absent" <=> step[s] = "absent"
           /\ step'[s] = "indeterminate" => step[s] = "indeterminate"
           /\ step'[s] = "allowed" => approval'[s] = "granted"
           /\ approval[s] = "granted" => approval'[s] = "granted",
         exec' # "pending" \/ UNCHANGED <<exec, step>>
  PROVE  RecordInv'
<1>1. CountersRecorded' /\ OccurrencesContiguous'
  BY DEF RecordInv, CountersRecorded, OccurrencesContiguous
<1>2. PassedSettled' /\ NoBlindRepeat'
  BY DEF RecordInv, PassedSettled, NoBlindRepeat
<1>3. UnknownIsAtMostOnce' /\ AllowedIsGranted' /\ UnknownNeedsApproval'
  BY DEF RecordInv, UnknownIsAtMostOnce, AllowedIsGranted, UnknownNeedsApproval
<1>4. PendingIsEmpty'
  BY DEF RecordInv, PendingIsEmpty
<1> QED
  BY <1>1, <1>2, <1>3, <1>4 DEF RecordInv

(* Delivery touches neither steps nor counters.                             *)
LEMMA RecordUntouched ==
  ASSUME IndInv, RecordInv, UNCHANGED <<occurrence, told, step, approval>>,
         \A l \in Leases : Owns(l)' => Owns(l),
         exec' # "pending" \/ UNCHANGED exec
  PROVE  RecordInv'
<1>1. \A s \in StepIds : step[s] = "allowed" => approval[s] = "granted"
  BY DEF RecordInv, AllowedIsGranted
<1> QED
  BY <1>1, RecordElsewhere

(* An executing or awaiting step gets a status other than the ones that only *)
(* a submission writes.                                                      *)
LEMMA RecordSettle ==
  ASSUME IndInv, RecordInv, UNCHANGED <<occurrence, told>>,
         \A l \in Leases : Owns(l)' => Owns(l),
         exec' # "pending",
         NEW s \in StepIds, step[s] \in {"executing", "awaiting_approval"},
         NEW status \in {"succeeded", "failed", "denied", "allowed"},
         step' = Upsert(s, status),
         \A t \in StepIds : t # s => approval'[t] = approval[t],
         status = "allowed" => approval'[s] = "granted",
         approval[s] = "granted" => approval'[s] = "granted"
  PROVE  RecordInv'
<1>1. /\ step'[s] = status
      /\ \A t \in StepIds : t # s => step'[t] = step[t]
  BY UpsertedStep DEF IndInv, FinalStep
<1>2. \A t \in StepIds : step[t] = "allowed" => approval[t] = "granted"
  BY DEF RecordInv, AllowedIsGranted
<1> QED
  BY <1>1, <1>2, RecordElsewhere DEF FinalStep

(* ackDispatch, a retirement and a resumption never make an owner.          *)
LEMMA NoNewOwner ==
  ASSUME IndInv, UNCHANGED attempt,
         \/ \E l \in Leases, status \in {"failed", "exhausted"} : AckRow(l, status)
         \/ dispatch' = Retired
         \/ UNCHANGED dispatch
         \/ EnqueueOn(dispatch)
  PROVE  \A l \in Leases : Owns(l)' => Owns(l)
  BY DEF IndInv, TypeOK, QueueTypeOK, AckRow, Owns, Retired, Live, EnqueueOn, Leases

LEMMA RecordDelivery ==
  ASSUME IndInv, RecordInv, NEW l \in Leases, Deliver(l)
  PROVE  RecordInv'
<1>1. UNCHANGED <<attempt, occurrence, told, step, approval>>
  BY DEF Deliver, Discard, Exhaust, Post, AgentRuns, PostOk, PostFails, ReplicaCrash,
         recordVars, queueVars
<1>2. \/ \E status \in {"failed", "exhausted"} : AckRow(l, status)
      \/ dispatch' = Retired
      \/ UNCHANGED dispatch
  BY DEF Deliver, Discard, Exhaust, Post, AgentRuns, PostOk, PostFails, ReplicaCrash,
         FailUnder, queueVars
<1>3. exec' # "pending" \/ UNCHANGED exec
  BY DEF Deliver, Discard, Exhaust, Post, AgentRuns, PostOk, PostFails, ReplicaCrash, FailUnder
<1> QED
  BY <1>1, <1>2, <1>3, NoNewOwner, RecordUntouched

LEMMA RecordAgent ==
  ASSUME IndInv, RecordInv, NEW l \in Leases, Agent(l)
  PROVE  RecordInv'
<1>1. ASSUME NEW e \in Effects, Submit(l, e)
      PROVE  RecordInv'
  BY <1>1, RecordSubmit
<1>2. ASSUME NEW s \in StepIds, ReportStep(l, s)
      PROVE  RecordInv'
  <2>1. /\ step[s] = "executing"
        /\ UNCHANGED <<attempt, occurrence, told, approval, dispatch, exec>>
        /\ exec # "pending"
    BY <1>2 DEF ReportStep, Reporting, Settle, RecordInv, PendingIsEmpty
  <2>2. PICK status \in {"succeeded", "failed"} : step' = Upsert(s, status)
    BY <1>2 DEF ReportStep, Settle
  <2> QED
    BY <2>1, <2>2, NoNewOwner, RecordSettle
<1>3. CASE Suspend(l) \/ FinishExecution(l)
  <2>1. /\ UNCHANGED <<attempt, occurrence, told, step, approval>>
        /\ dispatch' = Retired
        /\ exec' # "pending"
    BY <1>3 DEF Suspend, FinishExecution, recordVars
  <2> QED
    BY <2>1, NoNewOwner, RecordUntouched
<1>4. CASE AgentStops(l)
  BY <1>4, NoNewOwner, RecordUntouched DEF AgentStops, recordVars, queueVars
<1> QED
  BY <1>1, <1>2, <1>3, <1>4 DEF Agent

LEMMA ResumeMoves ==
  ASSUME IndInv, NEW st, ResumeIfIdle(st)
  PROVE  /\ UNCHANGED dispatch \/ EnqueueOn(dispatch)
         /\ exec' = exec \/ exec' = "running"
  BY DEF ResumeIfIdle

LEMMA RecordStepActions ==
  ASSUME IndInv, RecordInv, NEW s \in StepIds, Approver(s) \/ Subagent(s)
  PROVE  RecordInv'
<1>1. step[s] # "absent" => exec # "pending"
  BY DEF RecordInv, PendingIsEmpty
<1>2. ASSUME NEW verdict \in {"granted", "denied", "expired"},
             NEW status \in {"allowed", "denied"},
             status = "allowed" => verdict = "granted",
             Decide(s, verdict, status)
      PROVE  RecordInv'
  <2>1. /\ step[s] = "awaiting_approval" /\ approval[s] = "pending"
        /\ step' = Upsert(s, status)
        /\ UNCHANGED <<attempt, occurrence, told>>
        /\ ResumeIfIdle(step')
    BY <1>2 DEF Decide
  <2>2. approval'[s] = verdict /\ \A t \in StepIds : t # s => approval'[t] = approval[t]
    BY <1>2 DEF Decide, IndInv, TypeOK
  <2>3. /\ \A l \in Leases : Owns(l)' => Owns(l)
        /\ exec' # "pending"
    BY <1>1, <2>1, ResumeMoves, NoNewOwner
  <2> QED
    BY <1>2, <2>1, <2>2, <2>3, RecordSettle
<1>3. CASE Approver(s)
  BY <1>3, <1>2 DEF Approver, GrantApproval, DenyApproval, ExpireApproval
<1>4. CASE Spawn(s) \/ ChildEnds(s) \/ CancelChild(s)
  BY <1>4, NoNewOwner, RecordUntouched DEF Spawn, ChildEnds, CancelChild, queueVars
<1>5. CASE SettleParentStep(s)
  <2>1. /\ step[s] = "executing"
        /\ UNCHANGED <<attempt, occurrence, told, approval>>
        /\ ResumeIfIdle(step') \/ UNCHANGED <<exec, dispatch>>
    BY <1>5 DEF SettleParentStep, Settle
  <2>2. PICK status \in {"succeeded", "failed"} : step' = Upsert(s, status)
    BY <1>5 DEF SettleParentStep, Settle
  <2>3. /\ \A l \in Leases : Owns(l)' => Owns(l)
        /\ exec' # "pending"
    BY <1>1, <2>1, ResumeMoves, NoNewOwner
  <2> QED
    BY <2>1, <2>2, <2>3, RecordSettle
<1> QED
  BY <1>3, <1>4, <1>5 DEF Subagent

LEMMA RecordCancel ==
  ASSUME IndInv, RecordInv, CancelExecution
  PROVE  RecordInv'
<1>1. /\ UNCHANGED <<attempt, occurrence, told>>
      /\ dispatch' = Retired
      /\ exec' # "pending"
  BY DEF CancelExecution
<1>2. \A s \in StepIds : approval[s] = "pending" <=> step[s] = "awaiting_approval"
  BY DEF IndInv, DispatchInv, ApprovalGate
<1>3. \A s \in StepIds :
        step'[s] = IF step[s] = "awaiting_approval" THEN "denied"
                   ELSE IF step[s] = "executing" THEN "cancelled" ELSE step[s]
  <2>1. \A s \in StepIds : step[s] = "awaiting_approval" => Upsert(s, "denied")[s] = "denied"
    BY DEF Upsert, IndInv, TypeOK, FinalStep
  <2> QED
    BY <1>2, <2>1 DEF CancelExecution
<1>4. \A s \in StepIds : approval[s] # "pending" => approval'[s] = approval[s]
  BY DEF CancelExecution
<1>5. \A s \in StepIds : step[s] = "allowed" => approval[s] = "granted"
  BY DEF RecordInv, AllowedIsGranted
<1> QED
  BY <1>1, <1>3, <1>4, <1>5, NoNewOwner, RecordElsewhere DEF FinalStep

(* A new attempt starts counting at zero, so it has passed nothing.         *)
LEMMA RecordClaim ==
  ASSUME IndInv, RecordInv, NEW d \in Dispatches, Claim(d)
  PROVE  RecordInv'
<1>1. /\ UNCHANGED <<exec, step, approval, told>>
      /\ \A c \in Dispatches, e \in Effects :
           occurrence'[c][e] = IF c = d THEN 0 ELSE occurrence[c][e]
      /\ \A l \in Leases : l[1] # d => (Owns(l)' <=> Owns(l))
  BY DEF Claim, ClaimRow, recordVars, IndInv, TypeOK, QueueTypeOK, Owns, Leases
<1>2. \A c \in Dispatches, s \in StepIds :
        s[2] < occurrence'[c][s[1]] => c # d /\ s[2] < occurrence[c][s[1]]
  BY <1>1, BoundsAssumption DEF StepIds, Occurrences
<1>3. CountersRecorded'
  BY <1>1, <1>2 DEF RecordInv, CountersRecorded
<1>4. PassedSettled'
  BY <1>1, <1>2 DEF RecordInv, PassedSettled, Leases
<1> QED
  BY <1>1, <1>3, <1>4
     DEF RecordInv, OccurrencesContiguous, NoBlindRepeat, UnknownIsAtMostOnce, AllowedIsGranted,
         UnknownNeedsApproval, PendingIsEmpty

LEMMA RecordNext == IndInv /\ RecordInv /\ [Next]_vars => RecordInv'
<1> SUFFICES ASSUME IndInv, RecordInv, [Next]_vars PROVE RecordInv'
  OBVIOUS
<1>1. CASE UNCHANGED vars
  BY <1>1, NoNewOwner, RecordUntouched DEF vars, recordVars, queueVars
<1>2. CASE Start
  BY <1>2, NoNewOwner, RecordUntouched DEF Start, recordVars
<1>3. ASSUME NEW d \in Dispatches, Reclaim(d)
      PROVE  RecordInv'
  <2>1. \A l \in Leases : Owns(l)' => Owns(l)
    BY <1>3 DEF Reclaim, ReclaimRow, Owns, IndInv, TypeOK, QueueTypeOK, Leases
  <2> QED
    BY <1>3, <2>1, RecordUntouched DEF Reclaim, ReclaimRow, recordVars
<1> QED
  BY <1>1, <1>2, <1>3, RecordClaim, RecordDelivery, RecordAgent, RecordStepActions, RecordCancel
     DEF Next

LEMMA RecordInit == Init => RecordInv
<1> SUFFICES ASSUME Init PROVE RecordInv
  OBVIOUS
<1>1. CountersRecorded
  BY BoundsAssumption DEF Init, QueueInit, CountersRecorded, StepIds, Occurrences
<1>2. PassedSettled
  BY DEF Init, QueueInit, PassedSettled, Owns, Leases
<1> QED
  BY <1>1, <1>2
     DEF Init, RecordInv, OccurrencesContiguous, NoBlindRepeat, UnknownIsAtMostOnce,
         AllowedIsGranted, UnknownNeedsApproval, PendingIsEmpty

(* Counters, records and what attempts have walked past stay consistent.    *)
THEOREM RecordInvariance == Spec => []RecordInv
  BY RecordInit, RecordNext, Invariance, PTL DEF Spec

(* No attempt reaches a later call of an at_most_once effect before the      *)
(* earlier ones have an outcome, except the attempt that runs them itself.   *)
THEOREM NoRepeatUnseen == Spec => []NoBlindRepeat
  BY RecordInvariance, PTL DEF RecordInv

(* A call of unknown outcome is repeated by another attempt only where a     *)
(* human approved the repetition.                                            *)
THEOREM UnknownAsksHuman == Spec => []UnknownNeedsApproval
  BY RecordInvariance, PTL DEF RecordInv

(* The occurrences of an effect are recorded without a gap.                  *)
THEOREM NoGapInOccurrences == Spec => []OccurrencesContiguous
  BY RecordInvariance, PTL DEF RecordInv

-----------------------------------------------------------------------------
(* Seen through the status of the execution and of its steps, every handler  *)
(* is a step of Lifecycle or none.                                           *)

LEMMA AbstractUpsert ==
  ASSUME IndInv, NEW s \in StepIds, step[s] \notin FinalStep, NEW status
  PROVE  Upsert(s, status) = [step EXCEPT ![s] = status]
  BY DEF Upsert, IndInv, TypeOK

LEMMA SubmitIsAbstract ==
  ASSUME IndInv, NEW l \in Leases, NEW e \in Effects, Submit(l, e)
  PROVE  [Abstract!Next]_<<exec, step>>
<1> DEFINE s == NextStep(l, e)
<1>1. s \in StepIds /\ exec = "running"
  BY SubmittedStep
<1> HIDE DEF s
<1>2. CASE SubmitReplay(l, e) \/ SubmitRestart(l, e) \/ SubmitRefused(l, e) \/ SubmitParked(l, e)
  BY <1>2 DEF SubmitReplay, SubmitRestart, SubmitRefused, SubmitParked, recordVars
<1>3. CASE SubmitStart(l, e) \/ SubmitAllowed(l, e)
  <2>1. /\ step[s] \in {"absent", "allowed"} /\ UNCHANGED exec
        /\ step' = Upsert(s, "executing")
    BY <1>3 DEF SubmitStart, SubmitAllowed, SubmittingNew, s
  <2>2. step' = [step EXCEPT ![s] = "executing"]
    BY <1>1, <2>1, AbstractUpsert DEF FinalStep
  <2> QED
    BY <1>1, <2>1, <2>2 DEF Abstract!Next, Abstract!StepMoves
<1>4. CASE SubmitDenied(l, e)
  <2>1. /\ step[s] = "absent" /\ UNCHANGED exec
        /\ step' = Upsert(s, "denied")
    BY <1>4 DEF SubmitDenied, SubmittingNew, s
  <2>2. step' = [step EXCEPT ![s] = "denied"]
    BY <1>1, <2>1, AbstractUpsert DEF FinalStep
  <2> QED
    BY <1>1, <2>1, <2>2 DEF Abstract!Next, Abstract!StepMoves
<1>5. CASE SubmitOrphan(l, e)
  <2>1. /\ step[s] = "executing" /\ UNCHANGED exec
        /\ step' = Upsert(s, "indeterminate")
    BY <1>5 DEF SubmitOrphan, s
  <2>2. step' = [step EXCEPT ![s] = "indeterminate"]
    BY <1>1, <2>1, AbstractUpsert DEF FinalStep
  <2> QED
    BY <1>1, <2>1, <2>2 DEF Abstract!Next, Abstract!Settled, Abstract!Outcomes, Abstract!Resumes
<1>6. CASE SubmitForApproval(l, e)
  <2>1. /\ step[s] = "absent" /\ exec' = "blocked"
        /\ step' = Upsert(s, "awaiting_approval")
    BY <1>6 DEF SubmitForApproval, SubmittingNew, s
  <2>2. step' = [step EXCEPT ![s] = "awaiting_approval"]
    BY <1>1, <2>1, AbstractUpsert DEF FinalStep
  <2> QED
    BY <1>1, <2>1, <2>2 DEF Abstract!Next, Abstract!AskApproval
<1> QED
  BY <1>2, <1>3, <1>4, <1>5, <1>6 DEF Submit

(* An outcome, from the agent or from a subagent; only a resumption changes  *)
(* the execution.                                                            *)
LEMMA SettleIsAbstract ==
  ASSUME IndInv, RecordInv, NEW s \in StepIds, NEW outcome \in {"succeeded", "failed"},
         exec \notin TerminalExec, step[s] = "executing", step' = Upsert(s, outcome),
         \/ UNCHANGED exec
         \/ exec = "blocked" /\ ResumeIfIdle(step')
  PROVE  Abstract!Next
<1>1. step' = [step EXCEPT ![s] = outcome]
  BY AbstractUpsert DEF FinalStep
<1>2. exec \in {"running", "blocked"}
  BY DEF RecordInv, PendingIsEmpty, IndInv, TypeOK, ExecStatus, TerminalExec
<1>3. Abstract!Resumes
  BY DEF ResumeIfIdle, AwaitingSteps, Abstract!Resumes
<1> QED
  BY <1>1, <1>2, <1>3 DEF Abstract!Next, Abstract!Settled, Abstract!Outcomes

LEMMA AgentIsAbstract ==
  ASSUME IndInv, RecordInv, NEW l \in Leases, Agent(l)
  PROVE  [Abstract!Next]_<<exec, step>>
<1>1. ASSUME NEW e \in Effects, Submit(l, e)
      PROVE  [Abstract!Next]_<<exec, step>>
  BY <1>1, SubmitIsAbstract
<1>2. ASSUME NEW s \in StepIds, ReportStep(l, s)
      PROVE  Abstract!Next
  BY <1>2, SettleIsAbstract DEF ReportStep, Reporting, Settle
<1>3. CASE Suspend(l)
  <2>1. exec = "running" /\ \A s \in StepIds : step[s] # "awaiting_approval"
    BY <1>3, OwnerRuns DEF Suspend, IndInv
  <2>2. exec' = "blocked" /\ UNCHANGED step /\ \E s \in StepIds : step[s] = "executing"
    BY <1>3, <2>1 DEF Suspend, AwaitingSteps, recordVars
  <2> QED
    BY <2>1, <2>2 DEF Abstract!Next, Abstract!Suspended
<1>4. CASE FinishExecution(l)
  BY <1>4, OwnerRuns DEF FinishExecution, recordVars, Abstract!Next, Abstract!Finish, IndInv
<1>5. CASE AgentStops(l)
  BY <1>5 DEF AgentStops, recordVars
<1> QED
  BY <1>1, <1>2, <1>3, <1>4, <1>5 DEF Agent

LEMMA DeliveryIsAbstract ==
  ASSUME IndInv, NEW l \in Leases, Deliver(l)
  PROVE  [Abstract!Next]_<<exec, step>>
<1>1. UNCHANGED step
  BY DEF Deliver, Discard, Exhaust, Post, AgentRuns, PostOk, PostFails, ReplicaCrash, recordVars
<1>2. UNCHANGED exec \/ (Owns(l) /\ exec' = "failed")
  BY DEF Deliver, Discard, Exhaust, Post, AgentRuns, PostOk, PostFails, ReplicaCrash, FailUnder
<1> QED
  BY <1>1, <1>2, OwnerRuns DEF Abstract!Next, Abstract!Finish, IndInv

LEMMA StepActionIsAbstract ==
  ASSUME IndInv, RecordInv, NEW s \in StepIds, Approver(s) \/ Subagent(s)
  PROVE  [Abstract!Next]_<<exec, step>>
<1>1. ASSUME NEW verdict, NEW status \in {"allowed", "denied"}, Decide(s, verdict, status)
      PROVE  Abstract!Next
  <2>1. step[s] = "awaiting_approval" /\ step' = Upsert(s, status) /\ ResumeIfIdle(step')
    BY <1>1 DEF Decide
  <2>2. step' = [step EXCEPT ![s] = status]
    BY <2>1, AbstractUpsert DEF FinalStep
  <2>3. exec = "blocked"
    BY <1>1 DEF Decide, IndInv, DispatchInv, ApprovalGate
  <2>4. Abstract!Resumes
    BY <2>1, <2>3 DEF ResumeIfIdle, AwaitingSteps, Abstract!Resumes
  <2> QED
    BY <2>1, <2>2, <2>3, <2>4 DEF Abstract!Next, Abstract!Decided
<1>2. CASE Approver(s)
  BY <1>2, <1>1 DEF Approver, GrantApproval, DenyApproval, ExpireApproval
<1>3. CASE Spawn(s) \/ ChildEnds(s) \/ CancelChild(s)
  BY <1>3 DEF Spawn, ChildEnds, CancelChild
<1>4. CASE SettleParentStep(s)
  BY <1>4, SettleIsAbstract DEF SettleParentStep, Settle
<1> QED
  BY <1>2, <1>3, <1>4 DEF Subagent

LEMMA CancelIsAbstract ==
  ASSUME IndInv, CancelExecution
  PROVE  Abstract!Next
<1>1. \A s \in StepIds : approval[s] = "pending" <=> step[s] = "awaiting_approval"
  BY DEF IndInv, DispatchInv, ApprovalGate
<1>2. \A s \in StepIds : step[s] = "awaiting_approval" => Upsert(s, "denied")[s] = "denied"
  BY DEF Upsert, IndInv, TypeOK, FinalStep
<1>3. step' = [s \in StepIds |-> IF step[s] = "awaiting_approval" THEN "denied"
                                 ELSE IF step[s] = "executing" THEN "cancelled" ELSE step[s]]
  BY <1>1, <1>2 DEF CancelExecution
<1> QED
  BY <1>3 DEF CancelExecution, TerminalExec, Abstract!Next, Abstract!Cancel, Abstract!Ended

LEMMA NextIsAbstract ==
  IndInv /\ RecordInv /\ [Next]_vars => [Abstract!Next]_<<exec, step>>
<1> SUFFICES ASSUME IndInv, RecordInv, [Next]_vars PROVE [Abstract!Next]_<<exec, step>>
  OBVIOUS
<1>1. CASE UNCHANGED vars
  BY <1>1 DEF vars, recordVars
<1>2. CASE Start
  BY <1>2 DEF Start, recordVars, Abstract!Next, Abstract!Begin
<1>3. ASSUME NEW d \in Dispatches, Claim(d) \/ Reclaim(d)
      PROVE  UNCHANGED <<exec, step>>
  BY <1>3 DEF Claim, Reclaim, recordVars
<1> QED
  BY <1>1, <1>2, <1>3, DeliveryIsAbstract, AgentIsAbstract, StepActionIsAbstract, CancelIsAbstract
     DEF Next

(* Execution implements the documented life cycle: whoever calls which       *)
(* handler however late, the status of the execution and of its steps moves  *)
(* as the two diagrams say.                                                  *)
THEOREM LifecycleImplemented == Spec => ImplementsLifecycle
<1>1. Init => Abstract!Init
  BY DEF Init, Abstract!Init
<1> QED
  BY <1>1, NextIsAbstract, Invariance, RecordInvariance, PTL
     DEF Spec, ImplementsLifecycle, Abstract!Spec, Abstract!lifecycleVars
=============================================================================
