----------------------------- MODULE DeliveryPool -----------------------------
(***************************************************************************)
(* One replica's dispatch coordinator (kernel/dispatch.go runDispatches,   *)
(* store/postgres/dispatches.go ListenDispatches): it claims as many due   *)
(* dispatches as it has idle workers, counts the workers that finish, and  *)
(* sleeps until it is notified or its poll timer fires.                    *)
(***************************************************************************)
EXTENDS Naturals, Sequences, SequencesExt, FiniteSets

CONSTANTS
  Dispatches,
  Concurrency

ASSUME PoolAssumption == Concurrency \in Nat \ {0} /\ IsFiniteSet(Dispatches)

VARIABLES
  due,          \* pending and failed rows by next_attempt_at
  phase,        \* where the coordinator's loop is
  active,       \* workers it believes busy
  delivering,   \* dispatches being delivered
  completed     \* completions not yet received, a channel of Concurrency

poolVars == <<due, phase, active, delivering, completed>>

Queued == ToSet(due)
Down == phase \in {"stopping", "stopped"}

PoolInit ==
  /\ due = <<>>
  /\ phase = "stopped"
  /\ active = 0
  /\ delivering = {}
  /\ completed = 0

RunDispatcher ==
  /\ phase = "stopped"
  /\ phase' = "top"
  /\ UNCHANGED <<due, active, delivering, completed>>

(* The notification only shortens a sleep, and may be lost.                *)
Enqueue(d) ==
  /\ d \notin Queued \cup delivering
  /\ due' = Append(due, d)
  /\ UNCHANGED <<phase, active, delivering, completed>>

(* A failed delivery is due again later, which nobody is told of.          *)
EndDelivery(d) ==
  /\ d \in delivering /\ completed < Concurrency
  /\ delivering' = delivering \ {d}
  /\ completed' = completed + 1
  /\ due' \in {due, Append(due, d)}
  /\ UNCHANGED <<phase, active>>

-----------------------------------------------------------------------------
(* A completion received without counting it.                              *)
ReceiveUncounted == completed > 0 /\ completed' = completed - 1 /\ UNCHANGED active

Receive == completed > 0 /\ completed' = completed - 1 /\ active' = active - 1

AwaitIdle ==
  /\ phase = "top"
  /\ IF active = Concurrency THEN Receive ELSE UNCHANGED <<completed, active>>
  /\ phase' = "drain"
  /\ UNCHANGED <<due, delivering>>

Drain ==
  /\ phase = "drain"
  /\ IF active > 0 /\ completed > 0
     THEN Receive /\ UNCHANGED phase
     ELSE phase' = "claim" /\ UNCHANGED <<completed, active>>
  /\ UNCHANGED <<due, delivering>>

ClaimDue ==
  LET idle == Concurrency - active
      n == IF Len(due) < idle THEN Len(due) ELSE idle
  IN /\ phase = "claim"
     /\ due' = SubSeq(due, n + 1, Len(due))
     /\ delivering' = delivering \cup ToSet(SubSeq(due, 1, n))
     /\ active' = active + n
     /\ phase' = IF n > 0 THEN "top" ELSE "sleep"
     /\ UNCHANGED <<completed>>

ClaimFails ==
  /\ phase = "claim"
  /\ phase' = "backoff"
  /\ UNCHANGED <<due, active, delivering, completed>>

(* By a notification or by the timer.                                      *)
Wake ==
  /\ phase \in {"sleep", "backoff"}
  /\ phase' = "top"
  /\ UNCHANGED <<due, active, delivering, completed>>

Stop ==
  /\ ~Down
  /\ phase' = "stopping"
  /\ UNCHANGED <<due, active, delivering, completed>>

(* The deferred loop receives a completion for every busy worker.          *)
AwaitWorkers ==
  /\ phase = "stopping"
  /\ IF active > 0 THEN Receive /\ UNCHANGED phase
     ELSE phase' = "stopped" /\ UNCHANGED <<completed, active>>
  /\ UNCHANGED <<due, delivering>>

Coordinate == AwaitIdle \/ Drain \/ Wake \/ AwaitWorkers

PoolNext ==
  \/ \E d \in Dispatches : Enqueue(d) \/ EndDelivery(d)
  \/ RunDispatcher \/ Coordinate \/ ClaimDue \/ ClaimFails \/ Stop

(* Timers fire and deliveries end (the webhook call has a timeout); a      *)
(* store that is asked again and again answers some day.                   *)
PoolFairness ==
  /\ WF_poolVars(Coordinate)
  /\ SF_poolVars(ClaimDue)
  /\ \A d \in Dispatches : WF_poolVars(EndDelivery(d))

PoolSpec == PoolInit /\ [][PoolNext]_poolVars /\ PoolFairness

-----------------------------------------------------------------------------
(* Stop returns when the last delivery has ended.                          *)
StoppedIsIdle == phase = "stopped" => delivering = {}

(* A replica that keeps running delivers whatever is due, although         *)
(* notifications are lost and claims fail: the count of busy workers never *)
(* drifts so that it claims nothing.  One that is stopped waits for its    *)
(* deliveries and no longer.                                               *)
QueuedIsDelivered ==
  /\ \A d \in Dispatches : d \in Queued ~> d \in delivering \/ Down
  /\ phase = "stopping" ~> phase = "stopped"
  /\ []StoppedIsIdle
=============================================================================
