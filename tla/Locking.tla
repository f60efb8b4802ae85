------------------------------- MODULE Locking -------------------------------
(***************************************************************************)
(* RunLocked (store/postgres/unit_of_work.go, keyed_gate.go) and the       *)
(* leader locks of the lifecycle loops (lock.go, lifecycle.go): callers of *)
(* several replicas queue at their replica's gate for the key, wait for a  *)
(* connection of its pool, then for the advisory lock that serializes the  *)
(* replicas.  A caller may be cancelled wherever it waits, and a replica   *)
(* may crash.                                                              *)
(*                                                                         *)
(* A replica runs two loops (singletons, deadlines), each with a leader    *)
(* key of its own: a replica that leads both keeps two connections while   *)
(* the sweeps under them wait for more, without a timeout.                 *)
(*                                                                         *)
(* No function that runs under the lock calls RunLocked: the callers that  *)
(* settle a parent, cancel subagents or signal a queue do so after it.     *)
(***************************************************************************)
EXTENDS Naturals, FiniteSets

CONSTANTS
  Replicas, Callers, Keys,
  Home,         \* the replica of a caller
  LeaderKeys,   \* the leader keys, one per kind of lifecycle loop
  Sweepers,     \* callers that are a lifecycle loop of their replica
  Loop,         \* the leader key of a loop
  PoolSize      \* connections of each replica's pool, without the two that
                \* its listeners keep

Nobody == "nobody"

ASSUME LockingAssumption ==
  /\ IsFiniteSet(Callers) /\ Nobody \notin Callers \cup Keys \cup Replicas
  /\ Home \in [Callers -> Replicas]
  /\ Sweepers \subseteq Callers /\ Loop \in [Sweepers -> LeaderKeys]
  /\ IsFiniteSet(LeaderKeys) /\ PoolSize \in Nat \ {0}

VARIABLES
  gates,        \* per replica and key: the entry of the gate's map, or NoEntry
  entries,      \* entry objects [refs, token]
  calls,        \* per caller [phase, key, entry]
  owner,        \* advisory locks: per key, the caller whose transaction has it
  leader        \* the replica that holds each leader key

lockVars == <<gates, entries, calls, owner, leader>>

NoEntry == 0
NoCall == [phase |-> "idle", key |-> Nobody, entry |-> NoEntry]
EntryIds == 1..Cardinality(Callers)
Fresh == [refs |-> 0, token |-> Nobody]

CallsOf(r) == {w \in Callers : Home[w] = r}
InTransaction(w) == calls[w].phase \in {"lock", "run"}
LedBy(r) == {k \in LeaderKeys : leader[k] = r}
InUse(r) == Cardinality({w \in CallsOf(r) : InTransaction(w)}) + Cardinality(LedBy(r))

LockInit ==
  /\ gates = [r \in Replicas |-> [k \in Keys |-> NoEntry]]
  /\ entries = [i \in EntryIds |-> Fresh]
  /\ calls = [w \in Callers |-> NoCall]
  /\ owner = [k \in Keys |-> Nobody]
  /\ leader = [k \in LeaderKeys |-> Nobody]

(* The gate: an entry is found or made, and counted, under the mutex.      *)
Unused == {i \in EntryIds : entries[i].refs = 0}
Enter(w, k) ==
  LET r == Home[w]
      i == IF gates[r][k] # NoEntry THEN gates[r][k] ELSE CHOOSE j \in Unused : TRUE
      found == IF gates[r][k] # NoEntry THEN entries[i] ELSE Fresh
  IN /\ calls[w] = NoCall /\ (w \in Sweepers => leader[Loop[w]] = r)
     /\ gates' = [gates EXCEPT ![r][k] = i]
     /\ entries' = [entries EXCEPT ![i] = [found EXCEPT !.refs = @ + 1]]
     /\ calls' = [calls EXCEPT ![w] = [phase |-> "gate", key |-> k, entry |-> i]]
     /\ UNCHANGED <<owner, leader>>

TakeToken(w) ==
  /\ calls[w].phase = "gate" /\ entries[calls[w].entry].token = Nobody
  /\ entries' = [entries EXCEPT ![calls[w].entry].token = w]
  /\ calls' = [calls EXCEPT ![w].phase = "pool"]
  /\ UNCHANGED <<gates, owner, leader>>

(* The first caller to leave takes it out.                                 *)
EntryAfterAnyDrop(w) ==
  LET r == Home[w] k == calls[w].key i == calls[w].entry
  IN /\ entries' = [entries EXCEPT ![i].refs = @ - 1]
     /\ gates' = [gates EXCEPT ![r][k] = NoEntry]

(* The last reference takes the entry out of the map.                      *)
EntryAfterDrop(w) ==
  LET r == Home[w] k == calls[w].key i == calls[w].entry
  IN /\ entries' = [entries EXCEPT ![i].refs = @ - 1]
     /\ gates' = [gates EXCEPT ![r][k] = IF entries[i].refs = 1 THEN NoEntry ELSE @]

DropRef(w) ==
  /\ calls[w].phase = "drop"
  /\ EntryAfterDrop(w)
  /\ calls' = [calls EXCEPT ![w] = NoCall]
  /\ UNCHANGED <<owner, leader>>

CancelAtGate(w) ==
  /\ calls[w].phase = "gate"
  /\ EntryAfterDrop(w)
  /\ calls' = [calls EXCEPT ![w] = NoCall]
  /\ UNCHANGED <<owner, leader>>

-----------------------------------------------------------------------------
(* The transaction: begun with a connection, ended by commit or rollback,  *)
(* either of which gives up the advisory lock and the connection.          *)
BeginTx(w) ==
  /\ calls[w].phase = "pool" /\ InUse(Home[w]) < PoolSize
  /\ calls' = [calls EXCEPT ![w].phase = "lock"]
  /\ UNCHANGED <<gates, entries, owner, leader>>

AdvisoryLock(w) ==
  /\ calls[w].phase = "lock" /\ owner[calls[w].key] = Nobody
  /\ owner' = [owner EXCEPT ![calls[w].key] = w]
  /\ calls' = [calls EXCEPT ![w].phase = "run"]
  /\ UNCHANGED <<gates, entries, leader>>

EndTx(w) ==
  /\ calls[w].phase = "run"
  /\ owner' = [owner EXCEPT ![calls[w].key] = Nobody]
  /\ calls' = [calls EXCEPT ![w].phase = "release"]
  /\ UNCHANGED <<gates, entries, leader>>

(* A return that gives up the reference and keeps the token.               *)
AfterCancelKeepingToken == "drop"

(* A caller that gives up still runs its deferred release.                 *)
AfterCancel == "release"

CancelInLine(w) ==
  /\ calls[w].phase \in {"pool", "lock"}
  /\ calls' = [calls EXCEPT ![w].phase = AfterCancel]
  /\ UNCHANGED <<gates, entries, owner, leader>>

ReleaseToken(w) ==
  /\ calls[w].phase = "release"
  /\ entries' = [entries EXCEPT ![calls[w].entry].token = Nobody]
  /\ calls' = [calls EXCEPT ![w].phase = "drop"]
  /\ UNCHANGED <<gates, owner, leader>>

-----------------------------------------------------------------------------
(* withLeaderLock: a tick that finds its leader key taken gives the        *)
(* connection back.                                                        *)
TryAcquire(w) ==
  /\ w \in Sweepers /\ calls[w] = NoCall
  /\ leader[Loop[w]] = Nobody /\ InUse(Home[w]) < PoolSize
  /\ leader' = [leader EXCEPT ![Loop[w]] = Home[w]]
  /\ UNCHANGED <<gates, entries, calls, owner>>

EndSweep(w) ==
  /\ w \in Sweepers /\ calls[w] = NoCall /\ leader[Loop[w]] = Home[w]
  /\ leader' = [leader EXCEPT ![Loop[w]] = Nobody]
  /\ UNCHANGED <<gates, entries, calls, owner>>

(* The server ends the sessions of a replica that is gone.                 *)
CrashReplica(r) ==
  /\ gates' = [gates EXCEPT ![r] = [k \in Keys |-> NoEntry]]
  /\ entries' = [i \in EntryIds |->
       IF \E w \in CallsOf(r) : calls[w].entry = i THEN Fresh ELSE entries[i]]
  /\ calls' = [w \in Callers |-> IF Home[w] = r THEN NoCall ELSE calls[w]]
  /\ owner' = [k \in Keys |-> IF owner[k] \in CallsOf(r) THEN Nobody ELSE owner[k]]
  /\ leader' = [k \in LeaderKeys |-> IF leader[k] = r THEN Nobody ELSE leader[k]]

Proceed(w) ==
  \/ TakeToken(w) \/ BeginTx(w) \/ AdvisoryLock(w) \/ EndTx(w) \/ ReleaseToken(w) \/ DropRef(w)

LockNext ==
  \/ \E w \in Callers :
       \/ \E k \in Keys : Enter(w, k)
       \/ Proceed(w)
       \/ CancelAtGate(w) \/ CancelInLine(w)
       \/ TryAcquire(w) \/ EndSweep(w)
  \/ \E r \in Replicas : CrashReplica(r)

(* A channel, a pool and an advisory lock serve their waiters in order, so *)
(* none is passed over for ever; a locked function and a sweep return.     *)
LockFairness ==
  /\ \A w \in Callers : SF_lockVars(Proceed(w))
  /\ \A w \in Sweepers : SF_lockVars(EndSweep(w))

LockSpec == LockInit /\ [][LockNext]_lockVars /\ LockFairness

-----------------------------------------------------------------------------
(* Waiters for one execution hold no connection: of a replica's callers    *)
(* for a key at most one is past the gate, whoever gives up or leaves      *)
(* while the others wait, and nobody waits at an entry that the map has    *)
(* lost.                                                                   *)
OneConnectionPerKey ==
  /\ \A v, w \in Callers :
       /\ v # w /\ Home[v] = Home[w] /\ calls[v].key = calls[w].key
       => ~(InTransaction(v) /\ InTransaction(w))
  /\ \A w \in Callers : calls[w] # NoCall => gates[Home[w]][calls[w].key] = calls[w].entry

(* Every locked call ends, and so does every sweep, although a replica     *)
(* that leads both loops keeps two connections while each of its sweeps    *)
(* waits for one more: the pool must have more connections than there are  *)
(* leader keys.  buildPool sees to that with 10 or more, unless            *)
(* REBUNO_DB_MAX_CONNS asks for fewer, which nothing checks.               *)
CallersReturn ==
  /\ \A w \in Callers : calls[w] # NoCall ~> calls[w] = NoCall
  /\ \A w \in Sweepers : leader[Loop[w]] = Home[w] ~> leader[Loop[w]] # Home[w]
=============================================================================
