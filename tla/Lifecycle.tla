------------------------------ MODULE Lifecycle ------------------------------
(***************************************************************************)
(* What an execution promises its readers: the two state diagrams of       *)
(* docs/architecture.mdx, and how they are tied together.  It has no       *)
(* dispatches, leases, workers, agents or subagents; Execution implements  *)
(* it.  The step status "proposed" is only ever an event, so the first     *)
(* status a step row has is the one the decision gave it.                  *)
(***************************************************************************)
CONSTANT Steps

VARIABLES exec, step

lifecycleVars == <<exec, step>>

Ended == {"completed", "failed", "cancelled"}
Outcomes == {"succeeded", "failed", "indeterminate"}

Init ==
  /\ exec = "pending"
  /\ step = [s \in Steps |-> "absent"]

Begin == exec = "pending" /\ exec' = "running" /\ UNCHANGED step

(* A running execution decides, starts and settles steps. *)
StepMoves(s) ==
  /\ exec = "running"
  /\ \/ step[s] = "absent" /\ step' = [step EXCEPT ![s] = "denied"]
     \/ step[s] \in {"absent", "allowed"} /\ step' = [step EXCEPT ![s] = "executing"]
  /\ UNCHANGED exec

AskApproval(s) ==
  /\ exec = "running"
  /\ step[s] = "absent"
  /\ step' = [step EXCEPT ![s] = "awaiting_approval"]
  /\ exec' = "blocked"

(* A blocked execution resumes only when a step it waits for is settled, and *)
(* never while an approval is open.                                          *)
Resumes ==
  \/ UNCHANGED exec
  \/ /\ exec = "blocked"
     /\ exec' = "running"
     /\ \A s \in Steps : step'[s] # "awaiting_approval"

Decided(s) ==
  /\ exec = "blocked"
  /\ step[s] = "awaiting_approval"
  /\ \E status \in {"allowed", "denied"} : step' = [step EXCEPT ![s] = status]
  /\ Resumes

(* An outcome may arrive while the execution is blocked; that it is unknown *)
(* only a redelivered agent can find out.                                   *)
Settled(s) ==
  /\ exec \in {"running", "blocked"}
  /\ step[s] = "executing"
  /\ \E outcome \in Outcomes :
       /\ outcome = "indeterminate" => exec = "running"
       /\ step' = [step EXCEPT ![s] = outcome]
  /\ Resumes

(* An execution suspends only on steps that are under way. *)
Suspended ==
  /\ exec = "running"
  /\ \E s \in Steps : step[s] = "executing"
  /\ exec' = "blocked"
  /\ UNCHANGED step

(* Only a running execution completes or fails; what its steps record stays. *)
Finish == exec = "running" /\ exec' \in {"completed", "failed"} /\ UNCHANGED step

(* Cancelling settles every open step: an approval as refused, a call under  *)
(* way as cancelled.                                                         *)
Cancel ==
  /\ exec \notin Ended
  /\ exec' = "cancelled"
  /\ step' = [s \in Steps |->
       IF step[s] = "awaiting_approval" THEN "denied"
       ELSE IF step[s] = "executing" THEN "cancelled" ELSE step[s]]

Next ==
  \/ Begin \/ Suspended \/ Finish \/ Cancel
  \/ \E s \in Steps : StepMoves(s) \/ AskApproval(s) \/ Decided(s) \/ Settled(s)

Spec == Init /\ [][Next]_lifecycleVars
=============================================================================
