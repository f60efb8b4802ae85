------------------------------ MODULE MCWaiting ------------------------------
(***************************************************************************)
(* The parts in which somebody waits, side by side: a behaviour chooses    *)
(* one part and runs it, the others stay as they began.  They share no     *)
(* state, so TLC explores their sum and not their product.                 *)
(***************************************************************************)
EXTENDS Locking, DeliveryPool, LiveStream, TLC

VARIABLE part  \* which one runs, never changed

waitingVars == <<part, lockVars, poolVars, streamVars>>

TwoHomes == "tick" :> "r1" @@ "due" :> "r1" @@ "w3" :> "r2"
TwoLoops == "tick" :> "singletons" @@ "due" :> "deadlines"

WaitingInit ==
  /\ part \in {"locking", "pool", "stream"}
  /\ LockInit
  /\ PoolInit
  /\ StreamInit

WaitingNext ==
  \/ part = "locking" /\ LockNext /\ UNCHANGED <<part, poolVars, streamVars>>
  \/ part = "pool" /\ PoolNext /\ UNCHANGED <<part, lockVars, streamVars>>
  \/ part = "stream" /\ StreamNext /\ UNCHANGED <<part, lockVars, poolVars>>

(* A part that is not chosen owes nothing: in its initial state none of    *)
(* its fair actions is enabled.                                            *)
WaitingSpec ==
  WaitingInit /\ [][WaitingNext]_waitingVars /\ LockFairness /\ PoolFairness /\ StreamFairness
=============================================================================
