------------------------------- MODULE MCShared -------------------------------
(***************************************************************************)
(* The parts that decide and store, side by side: a behaviour chooses one  *)
(* part and runs it, the others stay as they began.  They share no state,  *)
(* so TLC explores their sum and not their product, and each property      *)
(* speaks of one part's variables.                                         *)
(***************************************************************************)
EXTENDS MCPolicy, BundleCache, RateLimiter, EventLog, Chunks, Locking, TLC

VARIABLE part  \* which one runs, never changed

sharedVars == <<part, policyVars, cacheVars, limiterVars, eventVars, chunkVars, lockVars>>

OneOrTwo == {1, 2}
ThreeAtOne == "w1" :> "r1" @@ "tick" :> "r1" @@ "due" :> "r1" @@ "w3" :> "r2"
TwoLoops == "tick" :> "singletons" @@ "due" :> "deadlines"

SharedInit ==
  /\ part \in {"policy", "cache", "limiter", "events", "chunks", "locking"}
  /\ PolicyInit /\ (part # "policy" => bundle = Judged)
  /\ CacheInit /\ (part # "cache" => stored = [a \in Agents |-> NoBundle])
  /\ LimiterInit /\ (part # "limiter" => limiter = "memory")
  /\ EventInit
  /\ ChunkInit
  /\ LockInit

SharedNext ==
  \/ /\ part = "policy" /\ PolicyNext
     /\ UNCHANGED <<part, cacheVars, limiterVars, eventVars, chunkVars, lockVars>>
  \/ /\ part = "cache" /\ CacheNext
     /\ UNCHANGED <<part, policyVars, limiterVars, eventVars, chunkVars, lockVars>>
  \/ /\ part = "limiter" /\ LimiterNext
     /\ UNCHANGED <<part, policyVars, cacheVars, eventVars, chunkVars, lockVars>>
  \/ /\ part = "events" /\ EventNext
     /\ UNCHANGED <<part, policyVars, cacheVars, limiterVars, chunkVars, lockVars>>
  \/ /\ part = "chunks" /\ ChunkNext
     /\ UNCHANGED <<part, policyVars, cacheVars, limiterVars, eventVars, lockVars>>
  \/ /\ part = "locking" /\ LockNext
     /\ UNCHANGED <<part, policyVars, cacheVars, limiterVars, eventVars, chunkVars>>

SharedSpec == SharedInit /\ [][SharedNext]_sharedVars
=============================================================================
