---------------------------- MODULE Waiting_proofs -----------------------------
(***************************************************************************)
(* Proofs about the parts in which somebody waits: Locking, for every set  *)
(* of replicas and keys, every finite set of callers and every size of the *)
(* pools; DeliveryPool, for every number of workers and dispatches;        *)
(* LiveStream, for every set of subscribers and every size of a channel.   *)
(***************************************************************************)
EXTENDS Locking, DeliveryPool, LiveStream, FiniteSetTheorems, SequenceTheorems, TLAPS

CallPhases == {"idle", "gate", "pool", "lock", "run", "release", "drop"}
CallRecords ==
  [phase : CallPhases, key : Keys \cup {Nobody}, entry : EntryIds \cup {NoEntry}]

LockTypeOK ==
  /\ gates \in [Replicas -> [Keys -> EntryIds \cup {NoEntry}]]
  /\ entries \in [EntryIds -> [refs : Nat, token : Callers \cup {Nobody}]]
  /\ calls \in [Callers -> CallRecords]
  /\ owner \in [Keys -> Callers \cup {Nobody}]

(* A caller waits at the entry that the map of its replica has for its key. *)
AtTheirGate ==
  \A w \in Callers :
    /\ calls[w].phase = "idle" => calls[w] = NoCall
    /\ calls[w].phase # "idle" =>
         /\ calls[w].key \in Keys /\ calls[w].entry \in EntryIds
         /\ gates[Home[w]][calls[w].key] = calls[w].entry

Users(i) == {w \in Callers : calls[w].entry = i}
RefsCounted == \A i \in EntryIds : entries[i].refs = Cardinality(Users(i))

(* An entry in the map has a caller, of that replica and for that key.      *)
GatesInUse ==
  \A r \in Replicas, k \in Keys :
    gates[r][k] # NoEntry =>
      \E w \in Users(gates[r][k]) : Home[w] = r /\ calls[w].key = k

EntriesOfOneGate ==
  \A v, w \in Callers :
    calls[v].entry = calls[w].entry /\ calls[v].entry # NoEntry =>
      Home[v] = Home[w] /\ calls[v].key = calls[w].key

(* Past the gate, until it releases it, a caller has the entry's token.     *)
TokenHeld ==
  \A w \in Callers :
    calls[w].phase \in {"pool", "lock", "run", "release"} =>
      entries[calls[w].entry].token = w

(* The locked function runs under the advisory lock of its key.             *)
LockHeld == \A w \in Callers : calls[w].phase = "run" => owner[calls[w].key] = w

GateInv == AtTheirGate /\ RefsCounted /\ GatesInUse /\ EntriesOfOneGate

LockInv == LockTypeOK /\ GateInv /\ TokenHeld /\ LockHeld

(* RunLocked's promise: of all replicas' callers for a key one runs.        *)
OneRunsPerKey ==
  \A v, w \in Callers :
    calls[v].phase = "run" /\ calls[w].phase = "run" /\ calls[v].key = calls[w].key => v = w

-----------------------------------------------------------------------------
LEMMA EntryIdFacts ==
  /\ Cardinality(Callers) \in Nat
  /\ NoEntry \notin EntryIds
  /\ \A i : IsFiniteSet(Users(i)) /\ Cardinality(Users(i)) \in Nat
<1>1. Cardinality(Callers) \in Nat
  BY LockingAssumption, FS_CardinalityType
<1>2. NoEntry \notin EntryIds
  BY <1>1 DEF NoEntry, EntryIds
<1>3. ASSUME NEW i PROVE IsFiniteSet(Users(i)) /\ Cardinality(Users(i)) \in Nat
  <2>1. Users(i) \subseteq Callers
    BY DEF Users
  <2> QED
    BY <2>1, LockingAssumption, FS_Subset, FS_CardinalityType
<1> QED
  BY <1>1, <1>2, <1>3

(* An entry is unused as long as a caller has none: fewer callers than      *)
(* entries are left to use one.                                             *)
LEMMA UnusedEntry ==
  ASSUME LockInv, NEW w \in Callers, calls[w] = NoCall
  PROVE  Unused # {}
<1> SUFFICES ASSUME Unused = {} PROVE FALSE
  OBVIOUS
<1>1. \A i \in EntryIds : Users(i) # {}
  <2> SUFFICES ASSUME NEW i \in EntryIds, Users(i) = {} PROVE FALSE
    OBVIOUS
  <2>1. entries[i].refs = 0
    BY FS_EmptySet DEF LockInv, GateInv, RefsCounted
  <2> QED
    BY <2>1 DEF Unused
<1> DEFINE f == [i \in EntryIds |-> CHOOSE v \in Users(i) : TRUE]
<1>2. \A i \in EntryIds : f[i] \in Callers /\ calls[f[i]].entry = i
  <2> SUFFICES ASSUME NEW i \in EntryIds PROVE f[i] \in Users(i)
    BY DEF Users
  <2> QED
    BY <1>1
<1>3. f \in [EntryIds -> Callers \ {w}]
  <2>1. calls[w].entry = NoEntry
    BY DEF NoCall
  <2>2. \A i \in EntryIds : f[i] # w
    BY <1>2, <2>1, EntryIdFacts
  <2> QED
    BY <1>2, <2>2
<1> HIDE DEF f
<1>4. /\ IsFiniteSet(EntryIds) /\ Cardinality(EntryIds) = Cardinality(Callers)
  <2>1. 1 \in Int /\ Cardinality(Callers) \in Int
    BY EntryIdFacts
  <2>2. /\ IsFiniteSet(1..Cardinality(Callers))
        /\ Cardinality(1..Cardinality(Callers)) =
             IF 1 > Cardinality(Callers) THEN 0 ELSE Cardinality(Callers) - 1 + 1
    BY <2>1, FS_Interval
  <2> QED
    BY <2>2, EntryIdFacts DEF EntryIds
<1>5. /\ IsFiniteSet(Callers \ {w})
      /\ Cardinality(Callers \ {w}) = Cardinality(Callers) - 1
  BY LockingAssumption, FS_RemoveElement
<1>6. Cardinality(Callers \ {w}) < Cardinality(EntryIds)
  BY <1>4, <1>5, EntryIdFacts
<1>7. \E i, j \in EntryIds : i # j /\ f[i] = f[j]
  BY <1>3, <1>4, <1>5, <1>6, FS_PigeonHole
<1> QED
  BY <1>2, <1>7

-----------------------------------------------------------------------------
(* A step that enters and leaves no gate keeps the gates in order.          *)
LEMMA GatesUntouched ==
  ASSUME LockInv, UNCHANGED gates,
         \A w \in Callers :
           /\ calls'[w].key = calls[w].key /\ calls'[w].entry = calls[w].entry
           /\ calls'[w] = calls[w] \/ (calls[w].phase # "idle" /\ calls'[w].phase # "idle"),
         \A i \in EntryIds : entries'[i].refs = entries[i].refs
  PROVE  GateInv'
<1>1. \A i : Users(i)' = Users(i)
  BY DEF Users
<1>2. AtTheirGate'
  BY DEF LockInv, GateInv, AtTheirGate
<1>3. RefsCounted'
  BY <1>1 DEF LockInv, GateInv, RefsCounted
<1>4. GatesInUse'
  BY <1>1 DEF LockInv, GateInv, GatesInUse, Users
<1>5. EntriesOfOneGate'
  BY DEF LockInv, GateInv, EntriesOfOneGate
<1> QED
  BY <1>2, <1>3, <1>4, <1>5 DEF GateInv

(* One caller changes its phase, and at most its own entry's token.         *)
LEMMA PhaseMoves ==
  ASSUME LockInv, NEW w \in Callers, NEW stage \in CallPhases \ {"idle"},
         calls[w].phase # "idle",
         calls' = [calls EXCEPT ![w].phase = stage],
         UNCHANGED gates,
         \/ UNCHANGED entries
         \/ \E t \in Callers \cup {Nobody} :
              entries' = [entries EXCEPT ![calls[w].entry].token = t]
  PROVE  /\ GateInv'
         /\ calls' \in [Callers -> CallRecords]
         /\ entries' \in [EntryIds -> [refs : Nat, token : Callers \cup {Nobody}]]
         /\ calls'[w].phase = stage
         /\ \A v \in Callers :
              /\ calls'[v].key = calls[v].key /\ calls'[v].entry = calls[v].entry
              /\ v # w => calls'[v] = calls[v]
<1>1. calls \in [Callers -> CallRecords]
      /\ entries \in [EntryIds -> [refs : Nat, token : Callers \cup {Nobody}]]
  BY DEF LockInv, LockTypeOK
<1>2. /\ calls' \in [Callers -> CallRecords]
      /\ calls'[w].phase = stage
      /\ \A v \in Callers :
           /\ calls'[v].key = calls[v].key /\ calls'[v].entry = calls[v].entry
           /\ v # w => calls'[v] = calls[v]
  BY <1>1 DEF CallRecords
<1>3. /\ entries' \in [EntryIds -> [refs : Nat, token : Callers \cup {Nobody}]]
      /\ \A i \in EntryIds : entries'[i].refs = entries[i].refs
  <2>1. CASE UNCHANGED entries
    BY <1>1, <2>1
  <2>2. ASSUME NEW t \in Callers \cup {Nobody},
               entries' = [entries EXCEPT ![calls[w].entry].token = t]
        PROVE  /\ entries' \in [EntryIds -> [refs : Nat, token : Callers \cup {Nobody}]]
               /\ \A i \in EntryIds : entries'[i].refs = entries[i].refs
    <3> DEFINE e == calls[w].entry
    <3>1. entries' = [entries EXCEPT ![e] = [entries[e] EXCEPT !.token = t]]
      BY <2>2
    <3> HIDE DEF e
    <3>2. ASSUME NEW i \in EntryIds
          PROVE  entries'[i] = IF i = e THEN [entries[i] EXCEPT !.token = t] ELSE entries[i]
      BY <1>1, <3>1
    <3>3. ASSUME NEW i \in EntryIds
          PROVE  /\ [entries[i] EXCEPT !.token = t]
                      \in [refs : Nat, token : Callers \cup {Nobody}]
                 /\ [entries[i] EXCEPT !.token = t].refs = entries[i].refs
      BY <1>1
    <3>4. \A i \in EntryIds : entries'[i] \in [refs : Nat, token : Callers \cup {Nobody}]
      BY <1>1, <3>2, <3>3
    <3>5. e \in EntryIds
      BY DEF LockInv, GateInv, AtTheirGate, e
    <3>6. entries' \in [EntryIds -> [refs : Nat, token : Callers \cup {Nobody}]]
      BY <1>1, <3>1, <3>3, <3>5
    <3> QED
      BY <3>2, <3>3, <3>6
  <2> QED
    BY <2>1, <2>2
<1>4. GateInv'
  <2>1. \A v \in Callers :
          calls'[v] = calls[v] \/ (calls[v].phase # "idle" /\ calls'[v].phase # "idle")
    <3>1. calls[w].phase # "idle" /\ calls'[w].phase # "idle"
      BY <1>2
    <3> QED
      BY <1>2, <3>1
  <2> QED
    BY <1>2, <1>3, <2>1, GatesUntouched
<1> QED
  BY <1>2, <1>3, <1>4

LEMMA LockInit_Inv == LockInit => LockInv
<1> SUFFICES ASSUME LockInit PROVE LockInv
  OBVIOUS
<1>1. LockTypeOK
  BY DEF LockInit, LockTypeOK, Fresh, NoCall, CallRecords, CallPhases
<1>2. \A w \in Callers : calls[w] = NoCall
  BY DEF LockInit
<1>3. NoCall.phase = "idle" /\ NoCall.entry = NoEntry
  BY DEF NoCall
<1>4. AtTheirGate /\ TokenHeld /\ LockHeld /\ EntriesOfOneGate
  BY <1>2, <1>3 DEF AtTheirGate, TokenHeld, LockHeld, EntriesOfOneGate
<1>5. GatesInUse
  BY DEF LockInit, GatesInUse
<1>6. RefsCounted
  <2> SUFFICES ASSUME NEW i \in EntryIds PROVE entries[i].refs = Cardinality(Users(i))
    BY DEF RefsCounted
  <2>1. Users(i) = {}
    BY <1>2, <1>3, EntryIdFacts DEF Users
  <2>2. entries[i].refs = 0
    BY DEF LockInit, Fresh
  <2> QED
    BY <2>1, <2>2, FS_EmptySet
<1> QED
  BY <1>1, <1>4, <1>5, <1>6 DEF LockInv, GateInv

LEMMA TakeTokenInv ==
  ASSUME LockInv, NEW w \in Callers, TakeToken(w)
  PROVE  LockInv'
<1> DEFINE i == calls[w].entry
<1>1. /\ calls[w].phase = "gate" /\ entries[i].token = Nobody
      /\ entries' = [entries EXCEPT ![i].token = w]
      /\ calls' = [calls EXCEPT ![w].phase = "pool"]
      /\ UNCHANGED <<gates, owner, leader>>
  BY DEF TakeToken
<1>2. "pool" \in CallPhases \ {"idle"}
  BY DEF CallPhases
<1>3. /\ GateInv'
      /\ calls' \in [Callers -> CallRecords]
      /\ entries' \in [EntryIds -> [refs : Nat, token : Callers \cup {Nobody}]]
      /\ calls'[w].phase = "pool"
      /\ \A v \in Callers :
           /\ calls'[v].key = calls[v].key /\ calls'[v].entry = calls[v].entry
           /\ v # w => calls'[v] = calls[v]
  BY <1>1, <1>2, PhaseMoves
<1>4. i \in EntryIds
  BY <1>1 DEF LockInv, GateInv, AtTheirGate
<1>5. /\ entries'[i].token = w
      /\ \A j \in EntryIds : j # i => entries'[j] = entries[j]
  BY <1>1, <1>4 DEF LockInv, LockTypeOK
<1>6. TokenHeld'
  <2> SUFFICES ASSUME NEW v \in Callers,
                      calls'[v].phase \in {"pool", "lock", "run", "release"}
               PROVE  entries'[calls'[v].entry].token = v
    BY DEF TokenHeld
  <2>1. CASE v = w
    BY <1>3, <1>5, <2>1
  <2>2. CASE v # w
    <3>1. calls'[v] = calls[v] /\ entries[calls[v].entry].token = v
      BY <1>3, <2>2 DEF LockInv, TokenHeld
    <3>2. calls[v].entry \in EntryIds
      BY <3>1 DEF LockInv, GateInv, AtTheirGate
    <3>3. calls[v].entry # i
      BY <1>1, <3>1, LockingAssumption
    <3> QED
      BY <1>5, <3>1, <3>2, <3>3
  <2> QED
    BY <2>1, <2>2
<1>7. LockHeld'
  BY <1>1, <1>3 DEF LockInv, LockHeld
<1> QED
  BY <1>1, <1>3, <1>6, <1>7 DEF LockInv, LockTypeOK

(* The pool, the advisory lock, its end and a caller that gives up in line: *)
(* the gates are as they were.                                              *)
LEMMA TransactionInv ==
  ASSUME LockInv, NEW w \in Callers,
         BeginTx(w) \/ AdvisoryLock(w) \/ EndTx(w) \/ CancelInLine(w)
  PROVE  LockInv'
<1>1. PICK stage \in {"lock", "run", "release"} :
        calls' = [calls EXCEPT ![w].phase = stage]
  BY DEF BeginTx, AdvisoryLock, EndTx, CancelInLine, AfterCancel
<1>2. /\ calls[w].phase \in {"pool", "lock", "run"} /\ UNCHANGED <<gates, entries, leader>>
  BY DEF BeginTx, AdvisoryLock, EndTx, CancelInLine
<1>3. stage \in CallPhases \ {"idle"}
  BY DEF CallPhases
<1>4. /\ GateInv'
      /\ calls' \in [Callers -> CallRecords]
      /\ calls'[w].phase = stage
      /\ \A v \in Callers :
           /\ calls'[v].key = calls[v].key /\ calls'[v].entry = calls[v].entry
           /\ v # w => calls'[v] = calls[v]
  BY <1>1, <1>2, <1>3, PhaseMoves
<1>5. TokenHeld'
  BY <1>2, <1>4 DEF LockInv, TokenHeld
<1>6. calls[w].key \in Keys
  BY <1>2 DEF LockInv, GateInv, AtTheirGate
<1>7. owner' \in [Keys -> Callers \cup {Nobody}] /\ LockHeld'
  <2>1. CASE AdvisoryLock(w)
    <3>1. /\ owner[calls[w].key] = Nobody
          /\ owner' = [owner EXCEPT ![calls[w].key] = w]
      BY <2>1 DEF AdvisoryLock
    <3>2. \A v \in Callers : calls[v].phase = "run" => calls[v].key # calls[w].key
      BY <3>1, LockingAssumption DEF LockInv, LockHeld
    <3>3. \A v \in Callers : calls[v].phase = "run" => calls[v].key \in Keys
      BY DEF LockInv, GateInv, AtTheirGate
    <3> QED
      BY <1>4, <1>6, <3>1, <3>2, <3>3 DEF LockInv, LockTypeOK, LockHeld
  <2>2. CASE EndTx(w)
    <3>1. /\ calls[w].phase = "run"
          /\ owner' = [owner EXCEPT ![calls[w].key] = Nobody]
          /\ calls' = [calls EXCEPT ![w].phase = "release"]
      BY <2>2 DEF EndTx
    <3>2. calls'[w].phase = "release"
      BY <3>1 DEF LockInv, LockTypeOK, CallRecords
    <3>3. \A v \in Callers \ {w} : calls[v].phase = "run" => calls[v].key # calls[w].key
      BY <3>1 DEF LockInv, LockHeld
    <3>4. \A v \in Callers : calls[v].phase = "run" => calls[v].key \in Keys
      BY DEF LockInv, GateInv, AtTheirGate
    <3> QED
      BY <1>4, <1>6, <3>1, <3>2, <3>3, <3>4 DEF LockInv, LockTypeOK, LockHeld
  <2>3. CASE BeginTx(w) \/ CancelInLine(w)
    <3>1. UNCHANGED owner /\ calls' \in {[calls EXCEPT ![w].phase = "lock"],
                                         [calls EXCEPT ![w].phase = "release"]}
      BY <2>3 DEF BeginTx, CancelInLine, AfterCancel
    <3>2. calls'[w].phase # "run"
      BY <3>1 DEF LockInv, LockTypeOK, CallRecords
    <3> QED
      BY <1>4, <3>1, <3>2 DEF LockInv, LockTypeOK, LockHeld
  <2> QED
    BY <2>1, <2>2, <2>3
<1> QED
  BY <1>2, <1>4, <1>5, <1>7 DEF LockInv, LockTypeOK

LEMMA ReleaseTokenInv ==
  ASSUME LockInv, NEW w \in Callers, ReleaseToken(w)
  PROVE  LockInv'
<1> DEFINE i == calls[w].entry
<1>1. /\ calls[w].phase = "release"
      /\ entries' = [entries EXCEPT ![i].token = Nobody]
      /\ calls' = [calls EXCEPT ![w].phase = "drop"]
      /\ UNCHANGED <<gates, owner, leader>>
  BY DEF ReleaseToken
<1>2. "drop" \in CallPhases \ {"idle"}
  BY DEF CallPhases
<1>3. /\ GateInv'
      /\ calls' \in [Callers -> CallRecords]
      /\ entries' \in [EntryIds -> [refs : Nat, token : Callers \cup {Nobody}]]
      /\ calls'[w].phase = "drop"
      /\ \A v \in Callers :
           /\ calls'[v].key = calls[v].key /\ calls'[v].entry = calls[v].entry
           /\ v # w => calls'[v] = calls[v]
  BY <1>1, <1>2, PhaseMoves
<1>4. entries[i].token = w /\ i \in EntryIds
  BY <1>1 DEF LockInv, GateInv, AtTheirGate, TokenHeld
<1>5. TokenHeld'
  <2> SUFFICES ASSUME NEW v \in Callers,
                      calls'[v].phase \in {"pool", "lock", "run", "release"}
               PROVE  entries'[calls'[v].entry].token = v
    BY DEF TokenHeld
  <2>1. v # w /\ calls'[v] = calls[v]
    BY <1>3
  <2>2. entries[calls[v].entry].token = v
    BY <2>1 DEF LockInv, TokenHeld
  <2>3. calls[v].entry \in EntryIds
    BY <2>1 DEF LockInv, GateInv, AtTheirGate
  <2>4. calls[v].entry # i
    BY <1>4, <2>1, <2>2
  <2> QED
    BY <1>1, <2>1, <2>2, <2>3, <2>4 DEF LockInv, LockTypeOK
<1>6. LockHeld'
  BY <1>1, <1>3 DEF LockInv, LockHeld
<1> QED
  BY <1>1, <1>3, <1>5, <1>6 DEF LockInv, LockTypeOK

-----------------------------------------------------------------------------
(* What the parts of the invariant say of callers at the same entry.        *)
LEMMA SameGate ==
  ASSUME LockInv, NEW v \in Callers, NEW w \in Callers,
         calls[v].phase # "idle", calls[w].phase # "idle"
  PROVE  calls[v].entry = calls[w].entry <=>
           Home[v] = Home[w] /\ calls[v].key = calls[w].key
<1>1. calls[v].entry \in EntryIds /\ gates[Home[v]][calls[v].key] = calls[v].entry
  BY DEF LockInv, GateInv, AtTheirGate
<1>2. calls[w].entry \in EntryIds /\ gates[Home[w]][calls[w].key] = calls[w].entry
  BY DEF LockInv, GateInv, AtTheirGate
<1> QED
  BY <1>1, <1>2, EntryIdFacts DEF LockInv, GateInv, EntriesOfOneGate

LEMMA NotIdle ==
  ASSUME LockInv, NEW w \in Callers
  PROVE  /\ calls[w] # NoCall <=> calls[w].phase # "idle"
         /\ calls[w].phase = "idle" <=> calls[w].entry = NoEntry
<1>1. NoCall.phase = "idle" /\ NoCall.entry = NoEntry
  BY DEF NoCall
<1> QED
  BY <1>1, EntryIdFacts DEF LockInv, GateInv, AtTheirGate

(* A caller joins the entry of its gate, or an unused one made fresh.       *)
LEMMA EnterInv ==
  ASSUME LockInv, NEW w \in Callers, NEW k \in Keys, Enter(w, k)
  PROVE  LockInv'
<1> DEFINE r == Home[w]
           i == IF gates[r][k] # NoEntry THEN gates[r][k] ELSE CHOOSE j \in Unused : TRUE
           found == IF gates[r][k] # NoEntry THEN entries[i] ELSE Fresh
           joined == [found EXCEPT !.refs = @ + 1]
           call == [phase |-> "gate", key |-> k, entry |-> i]
<1>1. /\ calls[w] = NoCall
      /\ gates' = [gates EXCEPT ![r][k] = i]
      /\ entries' = [entries EXCEPT ![i] = joined]
      /\ calls' = [calls EXCEPT ![w] = call]
      /\ UNCHANGED <<owner, leader>>
  BY DEF Enter
<1>2. r \in Replicas /\ gates[r][k] \in EntryIds \cup {NoEntry}
  BY LockingAssumption DEF LockInv, LockTypeOK
<1>3. i \in EntryIds
  <2>1. CASE gates[r][k] # NoEntry
    BY <1>2, <2>1
  <2>2. CASE gates[r][k] = NoEntry
    BY <1>1, <2>2, UnusedEntry DEF Unused
  <2> QED
    BY <2>1, <2>2
(* Who uses the entry already stands at this gate.                          *)
<1>4. \A v \in Users(i) : v # w /\ Home[v] = r /\ calls[v].key = k
  <2>1. calls[w].entry = NoEntry
    BY <1>1 DEF NoCall
  <2>2. CASE gates[r][k] # NoEntry
    <3>1. PICK u \in Users(i) : Home[u] = r /\ calls[u].key = k
      BY <1>2, <2>2 DEF LockInv, GateInv, GatesInUse
    <3> QED
      BY <1>3, <2>1, <3>1, EntryIdFacts DEF LockInv, GateInv, EntriesOfOneGate, Users
  <2>3. CASE gates[r][k] = NoEntry
    <3>1. i \in Unused
      BY <1>1, <2>3, UnusedEntry
    <3>2. Users(i) = {}
      BY <1>3, <3>1, EntryIdFacts, FS_EmptySet DEF Unused, LockInv, GateInv, RefsCounted
    <3> QED
      BY <3>2
  <2> QED
    BY <2>2, <2>3
<1>5. found \in [refs : Nat, token : Callers \cup {Nobody}] /\ found.refs = Cardinality(Users(i))
  <2>1. entries[i].refs = Cardinality(Users(i))
    BY <1>3 DEF LockInv, GateInv, RefsCounted
  <2>2. CASE gates[r][k] # NoEntry
    BY <1>3, <2>1, <2>2 DEF LockInv, LockTypeOK
  <2>3. CASE gates[r][k] = NoEntry
    <3>1. i \in Unused
      BY <1>1, <2>3, UnusedEntry
    <3> QED
      BY <2>1, <2>3, <3>1 DEF Unused, Fresh
  <2> QED
    BY <2>2, <2>3
<1>6. Users(i) # {} => gates[r][k] # NoEntry
  <2> SUFFICES ASSUME Users(i) # {}, gates[r][k] = NoEntry PROVE FALSE
    OBVIOUS
  <2>1. i \in Unused
    BY <1>1, UnusedEntry
  <2> QED
    BY <1>3, <2>1, EntryIdFacts, FS_EmptySet DEF Unused, LockInv, GateInv, RefsCounted
<1>7. gates[r][k] # NoEntry => i = gates[r][k] /\ found = entries[i]
  OBVIOUS
<1> HIDE DEF i, found, r
<1>8. /\ joined \in [refs : Nat, token : Callers \cup {Nobody}]
      /\ joined.refs = Cardinality(Users(i)) + 1 /\ joined.token = found.token
  BY <1>5
<1>9. /\ call \in CallRecords /\ call.phase = "gate" /\ call.key = k /\ call.entry = i
  BY <1>3 DEF CallRecords, CallPhases
<1> HIDE DEF joined, call
<1>10. /\ calls' \in [Callers -> CallRecords]
       /\ calls'[w] = call
       /\ \A v \in Callers : v # w => calls'[v] = calls[v]
  BY <1>1, <1>9 DEF LockInv, LockTypeOK
<1>11. /\ entries' \in [EntryIds -> [refs : Nat, token : Callers \cup {Nobody}]]
       /\ entries'[i] = joined
       /\ \A j \in EntryIds : j # i => entries'[j] = entries[j]
  BY <1>1, <1>3, <1>8 DEF LockInv, LockTypeOK
<1>12. /\ gates' \in [Replicas -> [Keys -> EntryIds \cup {NoEntry}]]
       /\ gates'[r][k] = i
       /\ \A q \in Replicas, l \in Keys : q # r \/ l # k => gates'[q][l] = gates[q][l]
  BY <1>1, <1>2, <1>3 DEF LockInv, LockTypeOK
<1>13. \A j \in EntryIds :
         w \notin Users(j) /\ Users(j)' = IF j = i THEN Users(j) \cup {w} ELSE Users(j)
  <2>1. calls[w].entry = NoEntry
    BY <1>1 DEF NoCall
  <2> QED
    <3>1. \A v \in Callers : calls'[v].entry = IF v = w THEN i ELSE calls[v].entry
      BY <1>9, <1>10
    <3>2. ASSUME NEW j \in EntryIds
          PROVE  /\ w \notin Users(j)
                 /\ Users(j)' = IF j = i THEN Users(j) \cup {w} ELSE Users(j)
      BY <2>1, <3>1, EntryIdFacts DEF Users
    <3> QED
      BY <3>2
<1>14. AtTheirGate'
  <2> SUFFICES ASSUME NEW v \in Callers
               PROVE  /\ calls'[v].phase = "idle" => calls'[v] = NoCall
                      /\ calls'[v].phase # "idle" =>
                           /\ calls'[v].key \in Keys /\ calls'[v].entry \in EntryIds
                           /\ gates'[Home[v]][calls'[v].key] = calls'[v].entry
    BY DEF AtTheirGate, NoCall
  <2>1. CASE v = w
    BY <1>3, <1>9, <1>10, <1>12, <2>1 DEF r
  <2>2. CASE v # w
    <3>1. calls'[v] = calls[v] /\ (calls[v].phase = "idle" => calls[v] = NoCall)
      BY <1>10, <2>2 DEF LockInv, GateInv, AtTheirGate
    <3>2. CASE calls[v].phase # "idle"
      <4>1. /\ calls[v].key \in Keys /\ calls[v].entry \in EntryIds /\ Home[v] \in Replicas
            /\ gates[Home[v]][calls[v].key] = calls[v].entry
        BY <3>2, LockingAssumption DEF LockInv, GateInv, AtTheirGate
      <4>2. CASE Home[v] = r /\ calls[v].key = k
        <5>1. gates[r][k] = calls[v].entry
          BY <4>1, <4>2
        <5>2. gates[r][k] = i
          BY <1>7, <4>1, <5>1, EntryIdFacts
        <5> QED
          BY <1>12, <3>1, <4>1, <4>2, <5>1, <5>2
      <4>3. CASE ~(Home[v] = r /\ calls[v].key = k)
        BY <1>12, <3>1, <4>1, <4>3
      <4> QED
        BY <4>2, <4>3
    <3> QED
      BY <3>1, <3>2
  <2> QED
    BY <2>1, <2>2
<1>15. RefsCounted'
  <2> SUFFICES ASSUME NEW j \in EntryIds PROVE entries'[j].refs = Cardinality(Users(j)')
    BY DEF RefsCounted
  <2>1. CASE j = i
    <3>1. Cardinality(Users(j) \cup {w}) = Cardinality(Users(j)) + 1
      BY <1>13, EntryIdFacts, FS_AddElement
    <3>2. Users(j)' = Users(j) \cup {w}
      BY <1>13, <2>1
    <3>3. entries'[j].refs = Cardinality(Users(j)) + 1
      BY <1>8, <1>11, <2>1
    <3> QED
      BY <3>1, <3>2, <3>3
  <2>2. CASE j # i
    BY <1>11, <1>13, <2>2 DEF LockInv, GateInv, RefsCounted
  <2> QED
    BY <2>1, <2>2
<1>16. GatesInUse'
  <2> SUFFICES ASSUME NEW q \in Replicas, NEW l \in Keys, gates'[q][l] # NoEntry
               PROVE  \E v \in Callers :
                        calls'[v].entry = gates'[q][l] /\ Home[v] = q /\ calls'[v].key = l
    BY DEF GatesInUse, Users, NoEntry
  <2>1. CASE q = r /\ l = k
    BY <1>9, <1>10, <1>12, <2>1 DEF r
  <2>2. CASE q # r \/ l # k
    <3>1. gates'[q][l] = gates[q][l]
      BY <1>12, <2>2
    <3>2. PICK v \in Users(gates[q][l]) : Home[v] = q /\ calls[v].key = l
      BY <3>1 DEF LockInv, GateInv, GatesInUse
    <3>3. v \in Callers /\ calls[v].entry = gates[q][l] /\ v # w
      BY <1>1, <3>1, <3>2 DEF Users, NoCall
    <3> QED
      BY <1>10, <3>1, <3>2, <3>3
  <2> QED
    BY <2>1, <2>2
<1>17. EntriesOfOneGate'
  <2>1. \A v \in Callers : v # w /\ calls'[v].entry = i => Home[v] = r /\ calls'[v].key = k
    BY <1>4, <1>10 DEF Users
  <2> QED
    BY <1>9, <1>10, <2>1 DEF LockInv, GateInv, EntriesOfOneGate, r
<1>18. TokenHeld'
  <2> SUFFICES ASSUME NEW v \in Callers,
                      calls'[v].phase \in {"pool", "lock", "run", "release"}
               PROVE  entries'[calls'[v].entry].token = v
    BY DEF TokenHeld
  <2>1. v # w /\ calls'[v] = calls[v]
    BY <1>9, <1>10
  <2>2. entries[calls[v].entry].token = v /\ calls[v].entry \in EntryIds
    BY <2>1 DEF LockInv, GateInv, AtTheirGate, TokenHeld
  <2>3. CASE calls[v].entry = i
    <3>1. found = entries[i]
      BY <1>6, <1>7, <2>3 DEF Users
    <3> QED
      BY <1>8, <1>11, <2>1, <2>2, <2>3, <3>1
  <2>4. CASE calls[v].entry # i
    BY <1>11, <2>1, <2>2, <2>4
  <2> QED
    BY <2>3, <2>4
<1>19. LockHeld'
  BY <1>1, <1>9, <1>10 DEF LockInv, LockHeld
<1> QED
  BY <1>1, <1>10, <1>11, <1>12, <1>14, <1>15, <1>16, <1>17, <1>18, <1>19
  DEF LockInv, GateInv, LockTypeOK

(* A caller leaves: only the last one takes the entry out of the map.       *)
LEMMA LeaveInv ==
  ASSUME LockInv, NEW w \in Callers, DropRef(w) \/ CancelAtGate(w)
  PROVE  LockInv'
<1> DEFINE r == Home[w]
           k == calls[w].key
           i == calls[w].entry
<1>1. /\ calls[w].phase \in {"drop", "gate"}
      /\ calls' = [calls EXCEPT ![w] = NoCall]
      /\ entries' = [entries EXCEPT ![i].refs = @ - 1]
      /\ gates' = [gates EXCEPT ![r][k] = IF entries[i].refs = 1 THEN NoEntry ELSE @]
      /\ UNCHANGED <<owner, leader>>
  BY DEF DropRef, CancelAtGate, EntryAfterDrop
<1>2. r \in Replicas /\ k \in Keys /\ i \in EntryIds /\ gates[r][k] = i
  BY <1>1, LockingAssumption DEF LockInv, GateInv, AtTheirGate
<1>3. w \in Users(i) /\ entries[i].refs = Cardinality(Users(i)) /\ entries[i].refs \in Nat
  BY <1>2 DEF Users, LockInv, LockTypeOK, GateInv, RefsCounted
<1>4. /\ Cardinality(Users(i) \ {w}) = entries[i].refs - 1 /\ entries[i].refs - 1 \in Nat
      /\ entries[i].refs = 1 <=> Users(i) \ {w} = {}
  <2>1. /\ IsFiniteSet(Users(i) \ {w})
        /\ Cardinality(Users(i) \ {w}) = Cardinality(Users(i)) - 1
    BY <1>3, EntryIdFacts, FS_RemoveElement
  <2>2. Cardinality(Users(i) \ {w}) \in Nat
    BY <2>1, FS_CardinalityType
  <2>3. Cardinality(Users(i) \ {w}) = 0 <=> Users(i) \ {w} = {}
    BY <2>1, FS_EmptySet
  <2> QED
    BY <1>3, <2>1, <2>2, <2>3
<1>5. /\ NoCall \in CallRecords /\ NoCall.phase = "idle" /\ NoCall.entry = NoEntry
  BY DEF NoCall, CallRecords, CallPhases
<1>6. /\ calls' \in [Callers -> CallRecords]
      /\ calls'[w] = NoCall
      /\ \A v \in Callers : v # w => calls'[v] = calls[v]
  BY <1>1, <1>5 DEF LockInv, LockTypeOK
<1>7. /\ entries' \in [EntryIds -> [refs : Nat, token : Callers \cup {Nobody}]]
      /\ entries'[i].refs = entries[i].refs - 1
      /\ \A j \in EntryIds : entries'[j].token = entries[j].token
      /\ \A j \in EntryIds : j # i => entries'[j] = entries[j]
  BY <1>1, <1>2, <1>4 DEF LockInv, LockTypeOK
<1>8. /\ gates' \in [Replicas -> [Keys -> EntryIds \cup {NoEntry}]]
      /\ gates'[r][k] = IF entries[i].refs = 1 THEN NoEntry ELSE i
      /\ \A q \in Replicas, l \in Keys : q # r \/ l # k => gates'[q][l] = gates[q][l]
  BY <1>1, <1>2 DEF LockInv, LockTypeOK
<1>9. \A j \in EntryIds : Users(j)' = IF j = i THEN Users(j) \ {w} ELSE Users(j)
  <2>1. \A v \in Callers : calls'[v].entry = IF v = w THEN NoEntry ELSE calls[v].entry
    BY <1>5, <1>6
  <2>2. ASSUME NEW j \in EntryIds
        PROVE  Users(j)' = IF j = i THEN Users(j) \ {w} ELSE Users(j)
    BY <2>1, EntryIdFacts DEF Users
  <2> QED
    BY <2>2
<1> HIDE DEF r, k, i
<1>10. AtTheirGate'
  <2> SUFFICES ASSUME NEW v \in Callers
               PROVE  /\ calls'[v].phase = "idle" => calls'[v] = NoCall
                      /\ calls'[v].phase # "idle" =>
                           /\ calls'[v].key \in Keys /\ calls'[v].entry \in EntryIds
                           /\ gates'[Home[v]][calls'[v].key] = calls'[v].entry
    BY DEF AtTheirGate, NoCall
  <2>1. CASE v = w
    BY <1>5, <1>6, <2>1
  <2>2. CASE v # w
    <3>1. calls'[v] = calls[v] /\ (calls[v].phase = "idle" => calls[v] = NoCall)
      BY <1>6, <2>2 DEF LockInv, GateInv, AtTheirGate
    <3>2. CASE calls[v].phase # "idle"
      <4>1. /\ calls[v].key \in Keys /\ calls[v].entry \in EntryIds /\ Home[v] \in Replicas
            /\ gates[Home[v]][calls[v].key] = calls[v].entry
        BY <3>2, LockingAssumption DEF LockInv, GateInv, AtTheirGate
      <4>2. CASE Home[v] = r /\ calls[v].key = k
        <5>1. v \in Users(i) \ {w}
          BY <1>2, <2>2, <4>1, <4>2 DEF Users
        <5> QED
          BY <1>2, <1>4, <1>8, <3>1, <4>1, <4>2, <5>1
      <4>3. CASE ~(Home[v] = r /\ calls[v].key = k)
        BY <1>8, <3>1, <4>1, <4>3
      <4> QED
        BY <4>2, <4>3
    <3> QED
      BY <3>1, <3>2
  <2> QED
    BY <2>1, <2>2
<1>11. RefsCounted'
  <2> SUFFICES ASSUME NEW j \in EntryIds PROVE entries'[j].refs = Cardinality(Users(j)')
    BY DEF RefsCounted
  <2>1. CASE j = i
    <3>1. Users(j)' = Users(j) \ {w}
      BY <1>9, <2>1
    <3>2. entries'[j].refs = Cardinality(Users(j) \ {w})
      BY <1>4, <1>7, <2>1
    <3> QED
      BY <3>1, <3>2
  <2>2. CASE j # i
    BY <1>7, <1>9, <2>2 DEF LockInv, GateInv, RefsCounted
  <2> QED
    BY <2>1, <2>2
<1>12. GatesInUse'
  <2> SUFFICES ASSUME NEW q \in Replicas, NEW l \in Keys, gates'[q][l] # NoEntry
               PROVE  \E v \in Callers :
                        calls'[v].entry = gates'[q][l] /\ Home[v] = q /\ calls'[v].key = l
    BY DEF GatesInUse, Users, NoEntry
  <2>1. CASE q = r /\ l = k
    <3>1. entries[i].refs # 1 /\ gates'[q][l] = i
      BY <1>8, <2>1
    <3>2. PICK v \in Users(i) \ {w} : TRUE
      BY <1>4, <3>1
    <3>3. v \in Callers /\ v # w /\ calls[v].entry = i /\ w \in Callers /\ calls[w].entry = i
      BY <1>3, <3>2 DEF Users
    <3>4. Home[v] = Home[w] /\ calls[v].key = calls[w].key
      BY <1>2, <3>3, EntryIdFacts DEF LockInv, GateInv, EntriesOfOneGate
    <3> QED
      BY <1>6, <2>1, <3>1, <3>3, <3>4 DEF r, k
  <2>2. CASE q # r \/ l # k
    <3>1. gates'[q][l] = gates[q][l]
      BY <1>8, <2>2
    <3>2. PICK v \in Users(gates[q][l]) : Home[v] = q /\ calls[v].key = l
      BY <3>1 DEF LockInv, GateInv, GatesInUse
    <3>3. v \in Callers /\ calls[v].entry = gates[q][l] /\ v # w
      BY <2>2, <3>2 DEF Users, r, k
    <3> QED
      BY <1>6, <3>1, <3>2, <3>3
  <2> QED
    BY <2>1, <2>2
<1>13. EntriesOfOneGate'
  BY <1>5, <1>6 DEF LockInv, GateInv, EntriesOfOneGate
<1>14. TokenHeld'
  <2> SUFFICES ASSUME NEW v \in Callers,
                      calls'[v].phase \in {"pool", "lock", "run", "release"}
               PROVE  entries'[calls'[v].entry].token = v
    BY DEF TokenHeld
  <2>1. v # w /\ calls'[v] = calls[v]
    BY <1>5, <1>6
  <2>2. entries[calls[v].entry].token = v /\ calls[v].entry \in EntryIds
    BY <2>1 DEF LockInv, GateInv, AtTheirGate, TokenHeld
  <2> QED
    BY <1>7, <2>1, <2>2
<1>15. LockHeld'
  BY <1>1, <1>5, <1>6 DEF LockInv, LockHeld
<1> QED
  BY <1>1, <1>6, <1>7, <1>8, <1>10, <1>11, <1>12, <1>13, <1>14, <1>15
  DEF LockInv, GateInv, LockTypeOK

(* A crash empties the gates of one replica; no entry is shared with        *)
(* another.                                                                 *)
LEMMA CrashReplicaInv ==
  ASSUME LockInv, NEW r \in Replicas, CrashReplica(r)
  PROVE  LockInv'
<1>1. /\ gates' = [gates EXCEPT ![r] = [k \in Keys |-> NoEntry]]
      /\ entries' = [i \in EntryIds |->
           IF \E w \in CallsOf(r) : calls[w].entry = i THEN Fresh ELSE entries[i]]
      /\ calls' = [w \in Callers |-> IF Home[w] = r THEN NoCall ELSE calls[w]]
      /\ owner' = [k \in Keys |-> IF owner[k] \in CallsOf(r) THEN Nobody ELSE owner[k]]
  BY DEF CrashReplica
<1>2. NoCall \in CallRecords /\ NoCall.phase = "idle" /\ NoCall.entry = NoEntry
  BY DEF NoCall, CallRecords, CallPhases
<1>3. Fresh \in [refs : Nat, token : Callers \cup {Nobody}] /\ Fresh.refs = 0
  BY DEF Fresh
<1>4. LockTypeOK'
  BY <1>1, <1>2, <1>3 DEF LockInv, LockTypeOK, CallsOf
<1>5. \A w \in Callers : calls'[w] = IF Home[w] = r THEN NoCall ELSE calls[w]
  BY <1>1
<1>6. /\ \A k \in Keys : gates'[r][k] = NoEntry
      /\ \A q \in Replicas, k \in Keys : q # r => gates'[q][k] = gates[q][k]
  BY <1>1 DEF LockInv, LockTypeOK
<1>7. ASSUME NEW i \in EntryIds
      PROVE  \/ entries'[i] = Fresh /\ Users(i)' = {}
             \/ /\ entries'[i] = entries[i] /\ Users(i)' = Users(i)
                /\ \A w \in Users(i) : Home[w] # r
  <2>1. CASE \E w \in CallsOf(r) : calls[w].entry = i
    <3>1. \A v \in Users(i) : Home[v] = r
      BY <2>1, EntryIdFacts DEF Users, CallsOf, LockInv, GateInv, EntriesOfOneGate
    <3> QED
      BY <1>1, <1>2, <1>5, <2>1, <3>1, EntryIdFacts DEF Users
  <2>2. CASE ~\E w \in CallsOf(r) : calls[w].entry = i
    BY <1>1, <1>2, <1>5, <2>2, EntryIdFacts DEF Users, CallsOf
  <2> QED
    BY <2>1, <2>2
<1>8. AtTheirGate'
  <2> SUFFICES ASSUME NEW v \in Callers
               PROVE  /\ calls'[v].phase = "idle" => calls'[v] = NoCall
                      /\ calls'[v].phase # "idle" =>
                           /\ calls'[v].key \in Keys /\ calls'[v].entry \in EntryIds
                           /\ gates'[Home[v]][calls'[v].key] = calls'[v].entry
    BY DEF AtTheirGate, NoCall
  <2>1. CASE Home[v] = r
    BY <1>2, <1>5, <2>1
  <2>2. CASE Home[v] # r
    BY <1>5, <1>6, <2>2, LockingAssumption DEF LockInv, GateInv, AtTheirGate
  <2> QED
    BY <2>1, <2>2
<1>9. RefsCounted'
  BY <1>3, <1>7, FS_EmptySet DEF LockInv, GateInv, RefsCounted
<1>10. GatesInUse'
  <2> SUFFICES ASSUME NEW q \in Replicas, NEW l \in Keys, gates'[q][l] # NoEntry
               PROVE  \E v \in Callers :
                        calls'[v].entry = gates'[q][l] /\ Home[v] = q /\ calls'[v].key = l
    BY DEF GatesInUse, Users, NoEntry
  <2>1. q # r /\ gates'[q][l] = gates[q][l]
    BY <1>6
  <2> QED
    BY <1>5, <2>1 DEF LockInv, GateInv, GatesInUse, Users
<1>11. EntriesOfOneGate'
  BY <1>2, <1>5 DEF LockInv, GateInv, EntriesOfOneGate
<1>12. TokenHeld'
  <2> SUFFICES ASSUME NEW v \in Callers,
                      calls'[v].phase \in {"pool", "lock", "run", "release"}
               PROVE  entries'[calls'[v].entry].token = v
    BY DEF TokenHeld
  <2>1. Home[v] # r /\ calls'[v] = calls[v]
    BY <1>2, <1>5
  <2>2. entries[calls[v].entry].token = v /\ calls[v].entry \in EntryIds
    BY <2>1 DEF LockInv, GateInv, AtTheirGate, TokenHeld
  <2>3. v \in Users(calls[v].entry) /\ v \in Users(calls[v].entry)'
    BY <2>1 DEF Users
  <2> QED
    BY <1>7, <2>1, <2>2, <2>3
<1>13. LockHeld'
  <2> SUFFICES ASSUME NEW v \in Callers, calls'[v].phase = "run"
               PROVE  owner'[calls'[v].key] = v
    BY DEF LockHeld
  <2>1. Home[v] # r /\ calls'[v] = calls[v]
    BY <1>2, <1>5
  <2>2. owner[calls[v].key] = v /\ calls[v].key \in Keys
    BY <2>1 DEF LockInv, GateInv, AtTheirGate, LockHeld
  <2> QED
    BY <1>1, <2>1, <2>2 DEF CallsOf
<1> QED
  BY <1>4, <1>8, <1>9, <1>10, <1>11, <1>12, <1>13 DEF LockInv, GateInv

LEMMA LeaderInv ==
  ASSUME LockInv, UNCHANGED <<gates, entries, calls, owner>>
  PROVE  LockInv'
  BY DEF LockInv, LockTypeOK, GateInv, AtTheirGate, RefsCounted, Users, GatesInUse,
         EntriesOfOneGate, TokenHeld, LockHeld

LEMMA LockNext_Inv == LockInv /\ [LockNext]_lockVars => LockInv'
<1> SUFFICES ASSUME LockInv, [LockNext]_lockVars PROVE LockInv'
  OBVIOUS
<1>1. CASE UNCHANGED lockVars
  BY <1>1, LeaderInv DEF lockVars
<1>2. ASSUME NEW w \in Callers, TryAcquire(w) \/ EndSweep(w) PROVE LockInv'
  BY <1>2, LeaderInv DEF TryAcquire, EndSweep
<1>3. ASSUME NEW w \in Callers, Proceed(w) PROVE LockInv'
  BY <1>3, TakeTokenInv, TransactionInv, ReleaseTokenInv, LeaveInv DEF Proceed
<1> QED
  BY <1>1, <1>2, <1>3, EnterInv, LeaveInv, TransactionInv, CrashReplicaInv DEF LockNext

(* The gates count and find their callers, past the gate a caller has the   *)
(* token and under the lock it owns the key.                                *)
THEOREM LockInvariance == LockSpec => []LockInv
  BY LockInit_Inv, LockNext_Inv, PTL DEF LockSpec

(* Whoever gives up, leaves or crashes: one caller of a replica has a       *)
(* connection for a key, and nobody waits at an entry that the map lost.    *)
THEOREM WaitersHoldNoConnection == LockSpec => []OneConnectionPerKey
<1>1. LockInv => OneConnectionPerKey
  <2> SUFFICES ASSUME LockInv PROVE OneConnectionPerKey
    OBVIOUS
  <2>1. ASSUME NEW v \in Callers, NEW w \in Callers, v # w, Home[v] = Home[w],
               calls[v].key = calls[w].key, InTransaction(v), InTransaction(w)
        PROVE  FALSE
    <3>1. calls[v].phase \in {"lock", "run"} /\ calls[w].phase \in {"lock", "run"}
      BY <2>1 DEF InTransaction
    <3>2. calls[v].entry = calls[w].entry
      BY <2>1, <3>1, SameGate
    <3> QED
      BY <2>1, <3>1, <3>2 DEF LockInv, TokenHeld
  <2>2. ASSUME NEW w \in Callers, calls[w] # NoCall
        PROVE  gates[Home[w]][calls[w].key] = calls[w].entry
    BY <2>2, NotIdle DEF LockInv, GateInv, AtTheirGate
  <2> QED
    BY <2>1, <2>2 DEF OneConnectionPerKey
<1> QED
  BY <1>1, LockInvariance, PTL

(* Of all replicas' callers for a key, at most one runs its function.       *)
THEOREM RunLockedExcludes == LockSpec => []OneRunsPerKey
<1>1. LockInv => OneRunsPerKey
  BY DEF LockInv, LockHeld, OneRunsPerKey
<1> QED
  BY <1>1, LockInvariance, PTL

-----------------------------------------------------------------------------
(* Nobody waits for somebody who is not there: a token's holder is past the *)
(* gate of its entry, an advisory lock's owner runs under it.               *)
HoldersPresent ==
  /\ \A i \in EntryIds :
       entries[i].token # Nobody =>
         /\ calls[entries[i].token].entry = i
         /\ calls[entries[i].token].phase \in {"pool", "lock", "run", "release"}
  /\ \A k \in Keys :
       owner[k] # Nobody => calls[owner[k]].phase = "run" /\ calls[owner[k]].key = k

(* The guard of Proceed.                                                    *)
CanProceed(w) ==
  \/ calls[w].phase = "gate" /\ entries[calls[w].entry].token = Nobody
  \/ calls[w].phase = "pool" /\ InUse(Home[w]) < PoolSize
  \/ calls[w].phase = "lock" /\ owner[calls[w].key] = Nobody
  \/ calls[w].phase \in {"run", "release", "drop"}

(* Callers never all wait for one another, although a leader keeps a        *)
(* connection of its pool for each leader key during the sweeps.            *)
NoneStuck == (\E w \in Callers : calls[w] # NoCall) => \E w \in Callers : CanProceed(w)

LEMMA HoldersInit == LockInit => HoldersPresent
  BY DEF LockInit, HoldersPresent, Fresh

(* What one caller's step leaves to show.                                   *)
LEMMA OneCallerMoves ==
  ASSUME LockInv, HoldersPresent, NEW w \in Callers,
         \A v \in Callers \ {w} : calls'[v] = calls[v],
         \A i \in EntryIds :
           \/ entries'[i].token = Nobody
           \/ /\ entries'[i].token = w
              /\ calls'[w].entry = i
              /\ calls'[w].phase \in {"pool", "lock", "run", "release"}
           \/ entries'[i].token = entries[i].token /\ entries[i].token # w,
         \A k \in Keys :
           \/ owner'[k] = Nobody
           \/ owner'[k] = w /\ calls'[w].key = k /\ calls'[w].phase = "run"
           \/ owner'[k] = owner[k] /\ owner[k] # w
  PROVE  HoldersPresent'
<1>1. ASSUME NEW i \in EntryIds, entries'[i].token # Nobody
      PROVE  /\ calls'[entries'[i].token].entry = i
             /\ calls'[entries'[i].token].phase \in {"pool", "lock", "run", "release"}
  <2>1. entries[i].token \in Callers \cup {Nobody}
    BY DEF LockInv, LockTypeOK
  <2> QED
    BY <1>1, <2>1 DEF HoldersPresent
<1>2. ASSUME NEW k \in Keys, owner'[k] # Nobody
      PROVE  calls'[owner'[k]].phase = "run" /\ calls'[owner'[k]].key = k
  <2>1. owner[k] \in Callers \cup {Nobody}
    BY DEF LockInv, LockTypeOK
  <2> QED
    BY <1>2, <2>1 DEF HoldersPresent
<1> QED
  BY <1>1, <1>2 DEF HoldersPresent

(* A caller that has no token and runs no transaction is nobody's holder.   *)
LEMMA HoldsNothing ==
  ASSUME LockInv, HoldersPresent, NEW w \in Callers,
         calls[w].phase \in {"idle", "gate", "drop"}
  PROVE  /\ \A i \in EntryIds : entries[i].token # w
         /\ \A k \in Keys : owner[k] # w
  BY LockingAssumption DEF HoldersPresent

LEMMA EnterHolders ==
  ASSUME LockInv, HoldersPresent, NEW w \in Callers, NEW k \in Keys, Enter(w, k)
  PROVE  HoldersPresent'
<1> DEFINE r == Home[w]
           i == IF gates[r][k] # NoEntry THEN gates[r][k] ELSE CHOOSE j \in Unused : TRUE
           found == IF gates[r][k] # NoEntry THEN entries[i] ELSE Fresh
           counted == [found EXCEPT !.refs = @ + 1]
<1>1. /\ calls[w] = NoCall
      /\ entries' = [entries EXCEPT ![i] = counted]
      /\ calls' = [calls EXCEPT ![w] = [phase |-> "gate", key |-> k, entry |-> i]]
      /\ UNCHANGED owner
  BY DEF Enter
<1>2. calls[w].phase = "idle"
  BY <1>1 DEF NoCall
<1>3. counted.token = found.token /\ (found = entries[i] \/ found.token = Nobody)
  <2>1. Fresh.token = Nobody
    BY DEF Fresh
  <2>2. CASE gates[r][k] # NoEntry
    <3>1. gates[r][k] \in EntryIds
      BY <2>2, LockingAssumption DEF LockInv, LockTypeOK
    <3>2. entries[i] \in [refs : Nat, token : Callers \cup {Nobody}]
      BY <2>2, <3>1 DEF LockInv, LockTypeOK
    <3> QED
      BY <2>2, <3>2
  <2>3. CASE gates[r][k] = NoEntry
    BY <2>1, <2>3 DEF Fresh
  <2> QED
    BY <2>2, <2>3
<1> HIDE DEF i, counted, found
<1>4. ASSUME NEW j \in EntryIds
      PROVE  entries'[j].token = Nobody \/ entries'[j].token = entries[j].token
  BY <1>1, <1>3 DEF LockInv, LockTypeOK
<1>5. \A v \in Callers \ {w} : calls'[v] = calls[v]
  BY <1>1 DEF LockInv, LockTypeOK
<1> QED
  BY <1>1, <1>2, <1>4, <1>5, HoldsNothing, OneCallerMoves

LEMMA LeaveHolders ==
  ASSUME LockInv, HoldersPresent, NEW w \in Callers, DropRef(w) \/ CancelAtGate(w)
  PROVE  HoldersPresent'
<1> DEFINE i == calls[w].entry
<1>1. /\ calls[w].phase \in {"gate", "drop"}
      /\ entries' = [entries EXCEPT ![i].refs = @ - 1]
      /\ calls' = [calls EXCEPT ![w] = NoCall]
      /\ UNCHANGED owner
  BY DEF DropRef, CancelAtGate, EntryAfterDrop
<1>2. ASSUME NEW j \in EntryIds PROVE entries'[j].token = entries[j].token
  <2>1. entries[j] \in [refs : Nat, token : Callers \cup {Nobody}]
    BY DEF LockInv, LockTypeOK
  <2>2. PICK row : row = [entries[i] EXCEPT !.refs = @ - 1]
    OBVIOUS
  <2>3. entries' = [entries EXCEPT ![i] = row]
    BY <1>1, <2>2
  <2>4. j = i => row.token = entries[j].token
    BY <2>1, <2>2
  <2> HIDE DEF i
  <2> QED
    BY <2>3, <2>4 DEF LockInv, LockTypeOK
<1>3. \A v \in Callers \ {w} : calls'[v] = calls[v]
  BY <1>1 DEF LockInv, LockTypeOK
<1> HIDE DEF i
<1> QED
  BY <1>1, <1>2, <1>3, HoldsNothing, OneCallerMoves

(* Where one caller changes its phase.                                      *)
LEMMA PhaseOf ==
  ASSUME LockInv, NEW w \in Callers, NEW stage, calls' = [calls EXCEPT ![w].phase = stage]
  PROVE  /\ calls'[w].phase = stage
         /\ calls'[w].entry = calls[w].entry /\ calls'[w].key = calls[w].key
         /\ \A v \in Callers \ {w} : calls'[v] = calls[v]
<1>1. calls \in [Callers -> CallRecords]
  BY DEF LockInv, LockTypeOK
<1>2. calls[w] \in CallRecords
  BY <1>1
<1>3. PICK call : call = [calls[w] EXCEPT !.phase = stage]
  OBVIOUS
<1>4. calls' = [calls EXCEPT ![w] = call]
  BY <1>3
<1>5. call.phase = stage /\ call.entry = calls[w].entry /\ call.key = calls[w].key
  BY <1>2, <1>3 DEF CallRecords
<1> QED
  BY <1>1, <1>4, <1>5

(* Where the token of one entry changes.                                    *)
LEMMA TokenOf ==
  ASSUME LockInv, NEW i \in EntryIds, NEW t, entries' = [entries EXCEPT ![i].token = t]
  PROVE  \A j \in EntryIds : entries'[j].token = IF j = i THEN t ELSE entries[j].token
<1>1. entries \in [EntryIds -> [refs : Nat, token : Callers \cup {Nobody}]]
  BY DEF LockInv, LockTypeOK
<1>2. entries[i] \in [refs : Nat, token : Callers \cup {Nobody}]
  BY <1>1
<1>3. PICK row : row = [entries[i] EXCEPT !.token = t]
  OBVIOUS
<1>4. entries' = [entries EXCEPT ![i] = row] /\ row.token = t
  BY <1>2, <1>3
<1> QED
  BY <1>1, <1>4

LEMMA ProceedHolders ==
  ASSUME LockInv, HoldersPresent, NEW w \in Callers,
         TakeToken(w) \/ BeginTx(w) \/ AdvisoryLock(w) \/ EndTx(w) \/ CancelInLine(w)
           \/ ReleaseToken(w)
  PROVE  HoldersPresent'
<1> DEFINE i == calls[w].entry
<1>1. /\ calls[w].phase \in {"gate", "pool", "lock", "run", "release"}
      /\ i \in EntryIds /\ calls[w].key \in Keys
  <2>1. calls[w].phase \in {"gate", "pool", "lock", "run", "release"}
    BY DEF TakeToken, BeginTx, AdvisoryLock, EndTx, CancelInLine, ReleaseToken
  <2> QED
    BY <2>1 DEF LockInv, GateInv, AtTheirGate
<1>2. ASSUME NEW k \in Keys, owner[k] = w PROVE calls[w].phase = "run" /\ calls[w].key = k
  BY <1>2, LockingAssumption DEF HoldersPresent
<1>3. ASSUME NEW j \in EntryIds, entries[j].token = w
      PROVE  j = i /\ calls[w].phase \in {"pool", "lock", "run", "release"}
  BY <1>3, LockingAssumption DEF HoldersPresent
<1>4. CASE TakeToken(w)
  <2>1. /\ calls[w].phase = "gate"
        /\ entries' = [entries EXCEPT ![i].token = w]
        /\ calls' = [calls EXCEPT ![w].phase = "pool"]
        /\ UNCHANGED owner
    BY <1>4 DEF TakeToken
  <2>2. \A j \in EntryIds : entries'[j].token = IF j = i THEN w ELSE entries[j].token
    <3>1. PICK e \in EntryIds : e = i
      BY <1>1
    <3>2. entries' = [entries EXCEPT ![e].token = w]
      BY <2>1, <3>1
    <3>3. \A j \in EntryIds : entries'[j].token = IF j = e THEN w ELSE entries[j].token
      BY <3>2, TokenOf
    <3> QED
      BY <3>1, <3>3
  <2> HIDE DEF i
  <2>3. /\ calls'[w].phase = "pool" /\ calls'[w].entry = i
        /\ \A v \in Callers \ {w} : calls'[v] = calls[v]
    BY <2>1, PhaseOf DEF i
  <2> QED
    BY <1>2, <1>3, <2>1, <2>2, <2>3, OneCallerMoves
<1>5. CASE BeginTx(w) \/ AdvisoryLock(w) \/ EndTx(w) \/ CancelInLine(w)
  <2>1. PICK stage \in {"lock", "run", "release"} : calls' = [calls EXCEPT ![w].phase = stage]
    BY <1>5 DEF BeginTx, AdvisoryLock, EndTx, CancelInLine, AfterCancel
  <2>2. UNCHANGED entries
    BY <1>5 DEF BeginTx, AdvisoryLock, EndTx, CancelInLine
  <2>3. /\ calls'[w].phase = stage /\ calls'[w].entry = i /\ calls'[w].key = calls[w].key
        /\ \A v \in Callers \ {w} : calls'[v] = calls[v]
    BY <2>1, PhaseOf
  <2>4. ASSUME NEW j \in EntryIds
        PROVE  \/ /\ entries'[j].token = w
                  /\ calls'[w].entry = j
                  /\ calls'[w].phase \in {"pool", "lock", "run", "release"}
               \/ entries'[j].token = entries[j].token /\ entries[j].token # w
    BY <1>3, <2>2, <2>3
  <2>5. ASSUME NEW k \in Keys
        PROVE  \/ owner'[k] = Nobody
               \/ owner'[k] = w /\ calls'[w].key = k /\ calls'[w].phase = "run"
               \/ owner'[k] = owner[k] /\ owner[k] # w
    <3>1. CASE BeginTx(w) \/ CancelInLine(w)
      <4>1. calls[w].phase \in {"pool", "lock"} /\ UNCHANGED owner
        BY <3>1 DEF BeginTx, CancelInLine
      <4> QED
        BY <1>2, <4>1
    <3>2. CASE AdvisoryLock(w)
      <4>1. /\ calls[w].phase = "lock" /\ owner' = [owner EXCEPT ![calls[w].key] = w]
            /\ calls' = [calls EXCEPT ![w].phase = "run"]
        BY <3>2 DEF AdvisoryLock
      <4>2. calls'[w].phase = "run"
        BY <4>1, PhaseOf
      <4> QED
        BY <1>1, <1>2, <2>3, <4>1, <4>2 DEF LockInv, LockTypeOK
    <3>3. CASE EndTx(w)
      <4>1. owner' = [owner EXCEPT ![calls[w].key] = Nobody]
        BY <3>3 DEF EndTx
      <4> QED
        BY <1>1, <1>2, <4>1 DEF LockInv, LockTypeOK
    <3> QED
      BY <1>5, <3>1, <3>2, <3>3
  <2> QED
    BY <2>3, <2>4, <2>5, OneCallerMoves
<1>6. CASE ReleaseToken(w)
  <2>1. /\ calls[w].phase = "release"
        /\ entries' = [entries EXCEPT ![i].token = Nobody]
        /\ calls' = [calls EXCEPT ![w].phase = "drop"]
        /\ UNCHANGED owner
    BY <1>6 DEF ReleaseToken
  <2>2. \A j \in EntryIds : entries'[j].token = IF j = i THEN Nobody ELSE entries[j].token
    <3>1. PICK e \in EntryIds : e = i
      BY <1>1
    <3>2. entries' = [entries EXCEPT ![e].token = Nobody]
      BY <2>1, <3>1
    <3>3. \A j \in EntryIds : entries'[j].token = IF j = e THEN Nobody ELSE entries[j].token
      BY <3>2, TokenOf
    <3> QED
      BY <3>1, <3>3
  <2> HIDE DEF i
  <2>3. \A v \in Callers \ {w} : calls'[v] = calls[v]
    BY <2>1, PhaseOf
  <2> QED
    BY <1>2, <1>3, <2>1, <2>2, <2>3, OneCallerMoves
<1> QED
  BY <1>4, <1>5, <1>6

LEMMA CrashHolders ==
  ASSUME LockInv, HoldersPresent, NEW r \in Replicas, CrashReplica(r)
  PROVE  HoldersPresent'
<1>1. /\ entries' = [i \in EntryIds |->
           IF \E w \in CallsOf(r) : calls[w].entry = i THEN Fresh ELSE entries[i]]
      /\ calls' = [w \in Callers |-> IF Home[w] = r THEN NoCall ELSE calls[w]]
      /\ owner' = [k \in Keys |-> IF owner[k] \in CallsOf(r) THEN Nobody ELSE owner[k]]
  BY DEF CrashReplica
<1>2. ASSUME NEW v \in Callers, v \notin CallsOf(r) PROVE calls'[v] = calls[v]
  BY <1>1, <1>2 DEF CallsOf
<1>3. ASSUME NEW i \in EntryIds, entries'[i].token # Nobody
      PROVE  /\ calls'[entries'[i].token].entry = i
             /\ calls'[entries'[i].token].phase \in {"pool", "lock", "run", "release"}
  <2>1. Fresh.token = Nobody
    BY DEF Fresh
  <2>2. /\ entries'[i] = entries[i]
        /\ \A w \in CallsOf(r) : calls[w].entry # i
    BY <1>1, <1>3, <2>1
  <2>3. entries[i].token \in Callers
    BY <1>3, <2>2 DEF LockInv, LockTypeOK
  <2>4. calls[entries[i].token].entry = i
        /\ calls[entries[i].token].phase \in {"pool", "lock", "run", "release"}
    BY <1>3, <2>2 DEF HoldersPresent
  <2> QED
    BY <1>2, <2>2, <2>3, <2>4
<1>4. ASSUME NEW k \in Keys, owner'[k] # Nobody
      PROVE  calls'[owner'[k]].phase = "run" /\ calls'[owner'[k]].key = k
  <2>1. owner'[k] = owner[k] /\ owner[k] \notin CallsOf(r)
    BY <1>1, <1>4
  <2>2. owner[k] \in Callers
    BY <1>4, <2>1 DEF LockInv, LockTypeOK
  <2> QED
    BY <1>2, <1>4, <2>1, <2>2 DEF HoldersPresent
<1> QED
  BY <1>3, <1>4 DEF HoldersPresent

LEMMA LockNext_Holders ==
  LockInv /\ HoldersPresent /\ [LockNext]_lockVars => HoldersPresent'
<1> SUFFICES ASSUME LockInv, HoldersPresent, [LockNext]_lockVars PROVE HoldersPresent'
  OBVIOUS
<1>1. CASE UNCHANGED <<gates, entries, calls, owner>>
  BY <1>1 DEF HoldersPresent
<1>2. ASSUME NEW w \in Callers, TryAcquire(w) \/ EndSweep(w) PROVE HoldersPresent'
  BY <1>1, <1>2 DEF TryAcquire, EndSweep
<1>3. ASSUME NEW w \in Callers, Proceed(w) PROVE HoldersPresent'
  BY <1>3, ProceedHolders, LeaveHolders DEF Proceed
<1> QED
  BY <1>1, <1>2, <1>3, EnterHolders, LeaveHolders, ProceedHolders, CrashHolders
  DEF LockNext, lockVars

(* A replica that leads every loop has a connection left for a sweep.       *)
PoolExceedsLoops == PoolSize > Cardinality(LeaderKeys)

(* Nobody holds a connection of a pool in which nobody is in a transaction, *)
(* but for the leader, which holds at most one for each leader key.         *)
LEMMA PoolHasRoom ==
  ASSUME PoolExceedsLoops, NEW r, \A w \in CallsOf(r) : ~InTransaction(w)
  PROVE  InUse(r) < PoolSize
<1>1. {w \in CallsOf(r) : InTransaction(w)} = {}
  OBVIOUS
<1>2. Cardinality({w \in CallsOf(r) : InTransaction(w)}) = 0
  BY <1>1, FS_EmptySet
<1>3. /\ Cardinality(LedBy(r)) \in Nat /\ Cardinality(LeaderKeys) \in Nat
      /\ Cardinality(LedBy(r)) <= Cardinality(LeaderKeys)
  <2>1. LedBy(r) \subseteq LeaderKeys
    BY DEF LedBy
  <2> QED
    BY <2>1, LockingAssumption, FS_Subset, FS_CardinalityType
<1> QED
  BY <1>2, <1>3, LockingAssumption DEF InUse, PoolExceedsLoops

(* While anybody is in a locked call, somebody can take its next step, even *)
(* where one replica leads all its loops at once, if its pool has more      *)
(* connections than there are leader keys.  With fewer the sweeps can wait  *)
(* for ever for the connections that the loops above them keep.             *)
THEOREM NobodyStuck == PoolExceedsLoops /\ LockSpec => []NoneStuck
<1> SUFFICES ASSUME PoolExceedsLoops PROVE LockSpec => []NoneStuck
  OBVIOUS
<1>1. LockInv /\ HoldersPresent => NoneStuck
  <2> SUFFICES ASSUME LockInv, HoldersPresent, NEW w \in Callers, calls[w] # NoCall,
                      \A v \in Callers : ~CanProceed(v)
               PROVE  FALSE
    BY DEF NoneStuck
  <2>1. \A v \in Callers : calls[v].phase \in {"idle", "gate", "pool", "lock"}
    BY DEF CanProceed, LockInv, LockTypeOK, CallRecords, CallPhases
  <2>2. ASSUME NEW v \in Callers PROVE calls[v].phase # "lock"
    <3> SUFFICES ASSUME calls[v].phase = "lock" PROVE FALSE
      OBVIOUS
    <3>1. calls[v].key \in Keys
      BY DEF LockInv, GateInv, AtTheirGate
    <3>2. owner[calls[v].key] \in Callers
      BY <3>1 DEF CanProceed, LockInv, LockTypeOK
    <3>3. calls[owner[calls[v].key]].phase = "run"
      BY <3>1, <3>2, LockingAssumption DEF HoldersPresent
    <3> QED
      BY <2>1, <3>2, <3>3
  <2>3. ASSUME NEW v \in Callers PROVE calls[v].phase # "pool"
    BY <2>1, <2>2, PoolHasRoom DEF CanProceed, InTransaction, CallsOf
  <2>4. calls[w].phase = "gate"
    BY <2>1, <2>2, <2>3 DEF LockInv, GateInv, AtTheirGate
  <2>5. calls[w].entry \in EntryIds
    BY <2>4 DEF LockInv, GateInv, AtTheirGate
  <2>6. entries[calls[w].entry].token \in Callers
    BY <2>4, <2>5 DEF CanProceed, LockInv, LockTypeOK
  <2>7. calls[entries[calls[w].entry].token].phase \in {"pool", "lock", "run", "release"}
    BY <2>5, <2>6, LockingAssumption DEF HoldersPresent
  <2> QED
    BY <2>1, <2>2, <2>3, <2>6, <2>7
<1> QED
  BY <1>1, LockInvariance, HoldersInit, LockNext_Holders, PTL DEF LockSpec

-----------------------------------------------------------------------------
(* DeliveryPool: the coordinator's count is of the deliveries under way and *)
(* the completions it has not received.                                     *)
LoopPhases == {"top", "drain", "claim", "sleep", "backoff", "stopping", "stopped"}

PoolTypeOK ==
  /\ due \in Seq(Dispatches)
  /\ phase \in LoopPhases
  /\ active \in 0..Concurrency
  /\ delivering \in SUBSET Dispatches
  /\ completed \in Nat

WorkersCounted == active = Cardinality(delivering) + completed

(* A dispatch is due once, and not while it is being delivered.             *)
DueOnce ==
  /\ \A i, j \in 1..Len(due) : due[i] = due[j] => i = j
  /\ \A i \in 1..Len(due) : due[i] \notin delivering

StoppedCountsNone == phase = "stopped" => active = 0

PoolInv == PoolTypeOK /\ WorkersCounted /\ DueOnce /\ StoppedCountsNone

(* No more deliveries than workers, and a worker that has ended is never    *)
(* held up by its completion: the channel has room for it.                  *)
WorkersBounded ==
  /\ Cardinality(delivering) <= Concurrency
  /\ delivering # {} => completed < Concurrency

LEMMA DeliveringFinite ==
  ASSUME PoolInv
  PROVE  /\ IsFiniteSet(delivering) /\ Cardinality(delivering) \in Nat
         /\ \A d \in delivering :
              Cardinality(delivering \ {d}) = Cardinality(delivering) - 1
  BY PoolAssumption, FS_Subset, FS_CardinalityType, FS_RemoveElement DEF PoolInv, PoolTypeOK

LEMMA PoolInit_Inv == PoolInit => PoolInv
<1> SUFFICES ASSUME PoolInit PROVE PoolInv
  OBVIOUS
<1>1. PoolTypeOK
  BY PoolAssumption DEF PoolInit, PoolTypeOK, LoopPhases
<1>2. Cardinality({}) = 0
  BY FS_EmptySet
<1> QED
  BY <1>1, <1>2 DEF PoolInit, PoolInv, WorkersCounted, DueOnce, StoppedCountsNone

(* A dispatch that joins the queue is due once more than before.            *)
LEMMA AppendDue ==
  ASSUME PoolInv, NEW d \in Dispatches, d \notin Queued,
         due' = Append(due, d), delivering' \subseteq delivering, d \notin delivering'
  PROVE  due' \in Seq(Dispatches) /\ DueOnce'
<1>1. due \in Seq(Dispatches) /\ Len(due) \in Nat /\ DOMAIN due = 1..Len(due)
  BY LenProperties DEF PoolInv, PoolTypeOK
<1>2. /\ due' \in Seq(Dispatches) /\ Len(due') = Len(due) + 1
      /\ \A i \in 1..Len(due) : due'[i] = due[i]
      /\ due'[Len(due) + 1] = d
  BY <1>1, AppendProperties
<1>3. \A i \in 1..Len(due) : due[i] # d
  BY <1>1 DEF Queued, ToSet
<1>4. \A i, j \in 1..Len(due) : due[i] = due[j] => i = j
  BY DEF PoolInv, DueOnce
<1>5. \A i \in 1..Len(due) : due[i] \notin delivering
  BY DEF PoolInv, DueOnce
<1>6. \A i \in 1..Len(due') : i \in 1..Len(due) \/ i = Len(due) + 1
  BY <1>1, <1>2
<1>7. ASSUME NEW i \in 1..Len(due'), NEW j \in 1..Len(due'), due'[i] = due'[j] PROVE i = j
  <2>1. CASE i \in 1..Len(due) /\ j \in 1..Len(due)
    BY <1>2, <1>4, <1>7, <2>1
  <2>2. CASE ~(i \in 1..Len(due) /\ j \in 1..Len(due))
    BY <1>2, <1>3, <1>6, <1>7, <2>2
  <2> QED
    BY <2>1, <2>2
<1>8. ASSUME NEW i \in 1..Len(due') PROVE due'[i] \notin delivering'
  BY <1>2, <1>5, <1>6
<1> QED
  BY <1>2, <1>7, <1>8 DEF DueOnce

LEMMA EnqueueInv ==
  ASSUME PoolInv, NEW d \in Dispatches, Enqueue(d)
  PROVE  PoolInv'
<1>1. /\ d \notin Queued /\ d \notin delivering
      /\ due' = Append(due, d) /\ UNCHANGED <<phase, active, delivering, completed>>
  BY DEF Enqueue
<1>2. due' \in Seq(Dispatches) /\ DueOnce'
  BY <1>1, AppendDue
<1> QED
  BY <1>1, <1>2 DEF PoolInv, PoolTypeOK, WorkersCounted, StoppedCountsNone

LEMMA EndDeliveryInv ==
  ASSUME PoolInv, NEW d \in Dispatches, EndDelivery(d)
  PROVE  PoolInv'
<1>1. /\ d \in delivering /\ delivering' = delivering \ {d}
      /\ completed' = completed + 1 /\ due' \in {due, Append(due, d)}
      /\ UNCHANGED <<phase, active>>
  BY DEF EndDelivery
<1>2. due' \in Seq(Dispatches) /\ DueOnce'
  <2>1. CASE due' = due
    BY <1>1, <2>1 DEF PoolInv, PoolTypeOK, DueOnce
  <2>2. CASE due' = Append(due, d)
    <3>1. d \notin Queued
      <4>1. DOMAIN due = 1..Len(due)
        BY LenProperties DEF PoolInv, PoolTypeOK
      <4> QED
        BY <1>1, <4>1 DEF Queued, ToSet, PoolInv, DueOnce
    <3> QED
      BY <1>1, <2>2, <3>1, AppendDue
  <2> QED
    BY <1>1, <2>1, <2>2
<1>3. WorkersCounted' /\ completed' \in Nat
  BY <1>1, DeliveringFinite DEF PoolInv, PoolTypeOK, WorkersCounted
<1> QED
  BY <1>1, <1>2, <1>3 DEF PoolInv, PoolTypeOK, StoppedCountsNone

(* The loop's steps other than a claim receive a completion or nothing.     *)
LEMMA LoopInv ==
  ASSUME PoolInv, UNCHANGED <<due, delivering>>, phase' \in LoopPhases,
         \/ Receive
         \/ UNCHANGED <<active, completed>>,
         phase' = "stopped" => active' = 0
  PROVE  PoolInv'
<1>1. /\ active' \in 0..Concurrency /\ completed' \in Nat
      /\ active' = Cardinality(delivering) + completed'
  <2>1. CASE UNCHANGED <<active, completed>>
    BY <2>1 DEF PoolInv, PoolTypeOK, WorkersCounted
  <2>2. CASE Receive
    BY <2>2, DeliveringFinite, PoolAssumption
    DEF Receive, PoolInv, PoolTypeOK, WorkersCounted
  <2> QED
    BY <2>1, <2>2
<1> QED
  BY <1>1 DEF PoolInv, PoolTypeOK, WorkersCounted, DueOnce, StoppedCountsNone

(* As many dispatches as it takes from a queue without repeats.             *)
LEMMA PrefixCount ==
  ASSUME DueOnce, NEW n \in Nat, \A i \in 1..n : i \in 1..Len(due)
  PROVE  /\ IsFiniteSet({due[i] : i \in 1..n})
         /\ Cardinality({due[i] : i \in 1..n}) = n
<1> DEFINE taken == {due[i] : i \in 1..n}
           f == [i \in 1..n |-> due[i]]
<1>1. f \in Bijection(1..n, taken)
  BY DEF DueOnce, Bijection, Injection, Surjection, IsInjective
<1>2. ExistsBijection(1..n, taken)
  BY <1>1 DEF ExistsBijection
<1> HIDE DEF f, taken
<1>3. IsFiniteSet(taken) /\ Cardinality(taken) = n
  BY <1>2, FS_CountingElements, FS_NatBijection
<1> QED
  BY <1>3 DEF taken

LEMMA ClaimDueInv ==
  ASSUME PoolInv, ClaimDue
  PROVE  PoolInv'
<1>1. /\ due \in Seq(Dispatches) /\ Len(due) \in Nat
      /\ \A i \in 1..Len(due) : due[i] \in Dispatches
  BY LenProperties, ElementOfSeq DEF PoolInv, PoolTypeOK
<1>2. active \in 0..Concurrency /\ active \in Nat /\ Concurrency \in Nat
  BY PoolAssumption DEF PoolInv, PoolTypeOK
<1>3. PICK n : n = IF Len(due) < Concurrency - active THEN Len(due) ELSE Concurrency - active
  OBVIOUS
<1>4. n \in Nat /\ n <= Len(due) /\ active + n <= Concurrency
  BY <1>1, <1>2, <1>3
<1>5. /\ due' = SubSeq(due, n + 1, Len(due))
      /\ delivering' = delivering \cup ToSet(SubSeq(due, 1, n))
      /\ active' = active + n /\ phase' = (IF n > 0 THEN "top" ELSE "sleep")
      /\ completed' = completed
  BY <1>3 DEF ClaimDue
<1> DEFINE taken == {due[i] : i \in 1..n}
<1>6. ToSet(SubSeq(due, 1, n)) = taken
  <2>1. \A i \in 1..n : due[i] \in Dispatches
    BY <1>1, <1>4
  <2>2. /\ SubSeq(due, 1, n) \in Seq(Dispatches)
        /\ Len(SubSeq(due, 1, n)) = n
        /\ \A i \in 1..n : SubSeq(due, 1, n)[i] = due[i]
    BY <1>4, <2>1, SubSeqProperties
  <2>3. DOMAIN SubSeq(due, 1, n) = 1..n
    BY <2>2, LenProperties
  <2> QED
    BY <2>2, <2>3 DEF ToSet
<1>7. IsFiniteSet(taken) /\ Cardinality(taken) = n
  <2>1. DueOnce /\ \A i \in 1..n : i \in 1..Len(due)
    BY <1>1, <1>4 DEF PoolInv
  <2> QED
    BY <1>4, <2>1, PrefixCount
<1>8. taken \cap delivering = {} /\ taken \subseteq Dispatches
  BY <1>1, <1>4 DEF PoolInv, DueOnce
<1> HIDE DEF taken
<1>9. WorkersCounted'
  <2>1. Cardinality(delivering') = Cardinality(delivering) + n
    <3>1. IsFiniteSet(delivering) /\ Cardinality(delivering) \in Nat
      BY DeliveringFinite
    <3>2. Cardinality(delivering \cup taken)
            = Cardinality(delivering) + Cardinality(taken) - Cardinality(delivering \cap taken)
      BY <1>7, <3>1, FS_Union
    <3>3. delivering \cap taken = {}
      BY <1>8
    <3>4. Cardinality(delivering \cap taken) = 0
      BY <3>3, FS_EmptySet
    <3>5. delivering' = delivering \cup taken
      BY <1>5, <1>6
    <3> QED
      BY <1>4, <1>7, <3>1, <3>2, <3>4, <3>5
  <2>2. Cardinality(delivering) \in Nat /\ completed \in Nat
    BY DeliveringFinite DEF PoolInv, PoolTypeOK
  <2> QED
    BY <1>2, <1>4, <1>5, <2>1, <2>2 DEF PoolInv, WorkersCounted
<1>10. /\ due' \in Seq(Dispatches) /\ Len(due') = Len(due) - n
       /\ \A i \in 1..Len(due') : n + i \in 1..Len(due) /\ due'[i] = due[n + i]
  <2>1. \A i \in (n + 1)..Len(due) : due[i] \in Dispatches
    BY <1>1, <1>4
  <2>2. n + 1 \in Int /\ Len(due) \in Int
    BY <1>1, <1>4
  <2>3. /\ due' \in Seq(Dispatches)
        /\ Len(due') = IF n + 1 <= Len(due) THEN Len(due) - (n + 1) + 1 ELSE 0
        /\ \A i \in 1..(Len(due) - (n + 1) + 1) : due'[i] = due[(n + 1) + i - 1]
    BY <1>5, <2>1, <2>2, SubSeqProperties
  <2>4. Len(due') = Len(due) - n
    BY <1>1, <1>4, <2>3
  <2>5. \A i \in 1..Len(due') : /\ n + i \in 1..Len(due) /\ (n + 1) + i - 1 = n + i
                                 /\ i \in 1..(Len(due) - (n + 1) + 1)
    BY <1>1, <1>4, <2>4
  <2> QED
    BY <2>3, <2>4, <2>5
<1>11. DueOnce'
  <2>1. ASSUME NEW i \in 1..Len(due'), NEW j \in 1..Len(due'), due'[i] = due'[j] PROVE i = j
    <3>1. n + i = n + j
      BY <1>10, <2>1 DEF PoolInv, DueOnce
    <3> QED
      BY <1>1, <1>4, <1>10, <3>1
  <2>2. ASSUME NEW i \in 1..Len(due') PROVE due'[i] \notin delivering'
    <3>1. n + i \in 1..Len(due) /\ due'[i] = due[n + i]
      BY <1>10
    <3>2. due[n + i] \notin delivering
      BY <3>1 DEF PoolInv, DueOnce
    <3>3. due[n + i] \notin taken
      <4>1. \A j \in 1..n : j \in 1..Len(due) /\ j # n + i
        BY <1>1, <1>4, <1>10
      <4> QED
        BY <3>1, <4>1 DEF taken, PoolInv, DueOnce
    <3> QED
      BY <1>5, <1>6, <3>1, <3>2, <3>3
  <2> QED
    BY <2>1, <2>2 DEF DueOnce
<1>12. PoolTypeOK' /\ StoppedCountsNone'
  BY <1>2, <1>4, <1>5, <1>6, <1>8, <1>10
  DEF PoolInv, PoolTypeOK, LoopPhases, StoppedCountsNone
<1> QED
  BY <1>9, <1>11, <1>12 DEF PoolInv

LEMMA PoolNext_Inv == PoolInv /\ [PoolNext]_poolVars => PoolInv'
<1> SUFFICES ASSUME PoolInv, [PoolNext]_poolVars PROVE PoolInv'
  OBVIOUS
<1>1. CASE UNCHANGED poolVars
  BY <1>1 DEF poolVars, PoolInv, PoolTypeOK, WorkersCounted, DueOnce, StoppedCountsNone
<1>2. CASE RunDispatcher \/ ClaimFails \/ Wake \/ Stop
  BY <1>2, LoopInv DEF RunDispatcher, ClaimFails, Wake, Stop, LoopPhases
<1>3. CASE AwaitIdle \/ Drain
  BY <1>3, LoopInv DEF AwaitIdle, Drain, LoopPhases
<1>4. CASE AwaitWorkers
  <2>1. CASE active > 0
    BY <1>4, <2>1, LoopInv DEF AwaitWorkers, LoopPhases
  <2>2. CASE ~(active > 0)
    <3>1. active = 0
      BY <2>2, PoolAssumption DEF PoolInv, PoolTypeOK
    <3> QED
      BY <1>4, <2>2, <3>1, LoopInv DEF AwaitWorkers, LoopPhases
  <2> QED
    BY <2>1, <2>2
<1> QED
  BY <1>1, <1>2, <1>3, <1>4, EnqueueInv, EndDeliveryInv, ClaimDueInv DEF PoolNext, Coordinate

(* The count of busy workers is what it says, whatever fails or is lost.    *)
THEOREM PoolInvariance == PoolSpec => []PoolInv
  BY PoolInit_Inv, PoolNext_Inv, PTL DEF PoolSpec

(* A replica never delivers more than its workers can, and none of them is  *)
(* left waiting to say that it has ended.                                   *)
THEOREM WorkersAreBounded == PoolSpec => []WorkersBounded
<1>1. PoolInv => WorkersBounded
  <2> SUFFICES ASSUME PoolInv PROVE WorkersBounded
    OBVIOUS
  <2>1. Cardinality(delivering) <= Concurrency /\ completed <= Concurrency
    BY DeliveringFinite, PoolAssumption DEF PoolInv, PoolTypeOK, WorkersCounted
  <2>2. delivering # {} => Cardinality(delivering) # 0
    BY DeliveringFinite, FS_EmptySet
  <2>3. delivering # {} => completed < Concurrency
    BY <2>2, DeliveringFinite, PoolAssumption DEF PoolInv, PoolTypeOK, WorkersCounted
  <2> QED
    BY <2>1, <2>3 DEF WorkersBounded
<1> QED
  BY <1>1, PoolInvariance, PTL

(* A coordinator that has stopped left no delivery behind.                  *)
THEOREM StoppedDeliversNothing == PoolSpec => []StoppedIsIdle
<1>1. PoolInv => StoppedIsIdle
  <2> SUFFICES ASSUME PoolInv, phase = "stopped" PROVE delivering = {}
    BY DEF StoppedIsIdle
  <2>1. Cardinality(delivering) = 0
    BY DeliveringFinite DEF PoolInv, PoolTypeOK, WorkersCounted, StoppedCountsNone
  <2> QED
    BY <2>1, DeliveringFinite, FS_EmptySet
<1> QED
  BY <1>1, PoolInvariance, PTL

-----------------------------------------------------------------------------
(* LiveStream: the last delta that a subscriber may have been sent.         *)
Passed(s) == IF MutexFree \/ s \in visiting THEN handed ELSE handed + 1

StreamTypeOK ==
  /\ published \in Nat /\ handed \in Nat
  /\ inbox \in [Subscribers -> Seq(Nat)]
  /\ MutexFree \/ visiting \in SUBSET Subscribers

(* The hub is not ahead of the publisher.                                   *)
HandedPublished == handed <= published /\ (~MutexFree => handed < published)

NothingAhead ==
  \A s \in Subscribers : \A i \in 1..Len(inbox[s]) : inbox[s][i] <= Passed(s)

InOrder(q) == \A i, j \in 1..Len(q) : i < j => q[i] < q[j]

StreamInv ==
  /\ StreamTypeOK /\ HandedPublished /\ NothingAhead
  /\ \A s \in Subscribers : InOrder(inbox[s]) /\ Len(inbox[s]) <= Buffer

(* A subscriber that does not read costs at most a channel, and is sent     *)
(* nothing that was not published.                                          *)
ChannelsBounded ==
  \A s \in Subscribers :
    /\ Len(inbox[s]) <= Buffer
    /\ \A i \in DOMAIN inbox[s] : inbox[s][i] <= published

LEMMA InboxFacts ==
  ASSUME StreamInv, NEW s \in Subscribers
  PROVE  /\ inbox[s] \in Seq(Nat) /\ Len(inbox[s]) \in Nat
         /\ DOMAIN inbox[s] = 1..Len(inbox[s])
         /\ \A i \in 1..Len(inbox[s]) : inbox[s][i] \in Nat
  BY LenProperties, ElementOfSeq DEF StreamInv, StreamTypeOK

LEMMA StreamInit_Inv == StreamInit => StreamInv
  BY StreamAssumption
  DEF StreamInit, StreamInv, StreamTypeOK, HandedPublished, NothingAhead, InOrder, MutexFree

(* The channels are as they were, and the hub is as far or further.         *)
LEMMA ChannelsUntouched ==
  ASSUME StreamInv, UNCHANGED inbox, StreamTypeOK', HandedPublished',
         \A s \in Subscribers : Passed(s) <= Passed(s)'
  PROVE  StreamInv'
<1>1. NothingAhead'
  <2> SUFFICES ASSUME NEW s \in Subscribers, NEW i \in 1..Len(inbox[s])
               PROVE  inbox[s][i] <= Passed(s)'
    BY DEF NothingAhead
  <2>1. inbox[s][i] \in Nat /\ inbox[s][i] <= Passed(s)
    BY InboxFacts DEF StreamInv, NothingAhead
  <2>2. Passed(s) \in Nat /\ Passed(s)' \in Nat
    <3>1. handed \in Nat /\ handed' \in Nat
      BY DEF StreamInv, StreamTypeOK
    <3>2. Passed(s) \in {handed, handed + 1} /\ Passed(s)' \in {handed', handed' + 1}
      BY Zenon DEF Passed
    <3> QED
      BY <3>1, <3>2
  <2> QED
    BY <2>1, <2>2
<1> QED
  BY <1>1 DEF StreamInv, InOrder

(* One subscriber's channel is another.                                     *)
LEMMA OneChannel ==
  ASSUME StreamInv, UNCHANGED <<published, handed>>, NEW s \in Subscribers, NEW q \in Seq(Nat),
         inbox' = [inbox EXCEPT ![s] = q],
         InOrder(q), Len(q) <= Buffer, \A i \in 1..Len(q) : q[i] <= Passed(s)',
         \A t \in Subscribers \ {s} : Passed(t)' = Passed(t),
         visiting' = visiting \/ (~MutexFree /\ visiting' = visiting \ {s})
  PROVE  StreamInv'
<1>1. /\ inbox'[s] = q
      /\ \A t \in Subscribers \ {s} : inbox'[t] = inbox[t]
      /\ inbox' \in [Subscribers -> Seq(Nat)]
  BY DEF StreamInv, StreamTypeOK
<1>2. StreamTypeOK' /\ HandedPublished'
  BY <1>1 DEF StreamInv, StreamTypeOK, HandedPublished, MutexFree
<1>3. NothingAhead'
  <2> SUFFICES ASSUME NEW t \in Subscribers, NEW i \in 1..Len(inbox'[t])
               PROVE  inbox'[t][i] <= Passed(t)'
    BY DEF NothingAhead
  <2> QED
    BY <1>1 DEF StreamInv, NothingAhead
<1>4. \A t \in Subscribers : InOrder(inbox'[t]) /\ Len(inbox'[t]) <= Buffer
  BY <1>1 DEF StreamInv
<1> QED
  BY <1>2, <1>3, <1>4 DEF StreamInv, InOrder

LEMMA VisitInv ==
  ASSUME StreamInv, NEW s \in Subscribers, Visit(s)
  PROVE  StreamInv'
<1>1. /\ ~MutexFree /\ s \in visiting /\ visiting \in SUBSET Subscribers
      /\ visiting' = visiting \ {s} /\ UNCHANGED <<published, handed>>
  BY DEF Visit, StreamInv, StreamTypeOK
<1>2. ~MutexFree'
  BY <1>1, StreamAssumption DEF MutexFree, NotDelivering
<1>3. Passed(s)' = handed + 1 /\ Passed(s) = handed /\ handed \in Nat
  BY <1>1, <1>2 DEF Passed, StreamInv, StreamTypeOK
<1>4. \A t \in Subscribers \ {s} : Passed(t)' = Passed(t)
  BY <1>1, <1>2 DEF Passed
<1>5. \A i \in 1..Len(inbox[s]) : inbox[s][i] \in Nat /\ inbox[s][i] <= handed
  BY <1>3, InboxFacts DEF StreamInv, NothingAhead
<1>6. CASE Len(inbox[s]) < Buffer
  <2>1. PICK q : q = Append(inbox[s], handed + 1)
    OBVIOUS
  <2>2. inbox' = [inbox EXCEPT ![s] = q]
    BY <1>6, <2>1 DEF Visit, Send
  <2>3. /\ q \in Seq(Nat) /\ Len(q) = Len(inbox[s]) + 1 /\ q[Len(inbox[s]) + 1] = handed + 1
        /\ \A i \in 1..Len(inbox[s]) : q[i] = inbox[s][i]
    BY <1>3, <2>1, InboxFacts, AppendProperties
  <2>4. Len(inbox[s]) \in Nat /\ Len(q) <= Buffer
    BY <1>6, <2>3, InboxFacts, StreamAssumption
  <2>5. \A i \in 1..Len(q) : i \in 1..Len(inbox[s]) \/ i = Len(inbox[s]) + 1
    BY <2>3, <2>4
  <2>6. ASSUME NEW i \in 1..Len(q) PROVE q[i] <= Passed(s)'
    <3>1. CASE i \in 1..Len(inbox[s])
      <4>1. q[i] \in Nat /\ q[i] <= handed
        BY <1>5, <2>3, <3>1
      <4> QED
        BY <1>3, <4>1
    <3>2. CASE i = Len(inbox[s]) + 1
      BY <1>3, <2>3, <3>2
    <3> QED
      BY <2>5, <3>1, <3>2
  <2>7. InOrder(q)
    <3> SUFFICES ASSUME NEW i \in 1..Len(q), NEW j \in 1..Len(q), i < j PROVE q[i] < q[j]
      BY DEF InOrder
    <3>1. i \in 1..Len(inbox[s])
      BY <2>3, <2>4
    <3>2. CASE j \in 1..Len(inbox[s])
      BY <2>3, <3>1, <3>2 DEF StreamInv, InOrder
    <3>3. CASE j = Len(inbox[s]) + 1
      BY <1>3, <1>5, <2>3, <3>1, <3>3
    <3> QED
      BY <2>5, <3>2, <3>3
  <2> QED
    BY <1>1, <1>4, <2>2, <2>3, <2>4, <2>6, <2>7, OneChannel
<1>7. CASE ~(Len(inbox[s]) < Buffer)
  <2>1. UNCHANGED inbox
    BY <1>7 DEF Visit, Send
  <2>2. \A t \in Subscribers : Passed(t) <= Passed(t)'
    BY <1>3, <1>4 DEF Passed, StreamInv, StreamTypeOK
  <2>3. StreamTypeOK' /\ HandedPublished'
    BY <1>1, <2>1 DEF StreamInv, StreamTypeOK, HandedPublished
  <2> QED
    BY <2>1, <2>2, <2>3, ChannelsUntouched
<1> QED
  BY <1>6, <1>7

LEMMA ReadInv ==
  ASSUME StreamInv, NEW s \in Subscribers, Read(s)
  PROVE  StreamInv'
<1>1. PICK q : q = Tail(inbox[s])
  OBVIOUS
<1>2. /\ inbox[s] # <<>> /\ inbox' = [inbox EXCEPT ![s] = q]
      /\ UNCHANGED <<published, handed, visiting>>
  BY <1>1 DEF Read
<1>3. \A t \in Subscribers : Passed(t)' = Passed(t)
  BY <1>2 DEF Passed, MutexFree
<1>4. /\ q \in Seq(Nat) /\ Len(q) = Len(inbox[s]) - 1 /\ Len(q) \in Nat
      /\ \A i \in 1..Len(q) : q[i] = inbox[s][i + 1]
  BY <1>1, <1>2, InboxFacts, HeadTailProperties, LenProperties
<1>5. Len(inbox[s]) \in Nat /\ Len(inbox[s]) <= Buffer /\ Buffer \in Nat
  BY InboxFacts, StreamAssumption DEF StreamInv
<1>6. \A i \in 1..Len(q) : i + 1 \in 1..Len(inbox[s])
  BY <1>4, <1>5
<1>7. \A i \in 1..Len(q) : q[i] <= Passed(s)'
  BY <1>3, <1>4, <1>6 DEF StreamInv, NothingAhead
<1>8. InOrder(q) /\ Len(q) <= Buffer
  <2>1. ASSUME NEW i \in 1..Len(q), NEW j \in 1..Len(q), i < j PROVE q[i] < q[j]
    <3>1. i + 1 < j + 1
      BY <1>4, <2>1
    <3> QED
      BY <1>4, <1>6, <3>1 DEF StreamInv, InOrder
  <2> QED
    BY <1>4, <1>5, <2>1 DEF InOrder
<1> QED
  BY <1>2, <1>3, <1>4, <1>7, <1>8, OneChannel

LEMMA StreamNext_Inv == StreamInv /\ [StreamNext]_streamVars => StreamInv'
<1> SUFFICES ASSUME StreamInv, [StreamNext]_streamVars PROVE StreamInv'
  OBVIOUS
<1>1. handed \in Nat /\ published \in Nat
  BY DEF StreamInv, StreamTypeOK
<1>2. ASSUME UNCHANGED <<handed, inbox, visiting>>, published' \in {published, published + 1}
      PROVE  StreamInv'
  <2>1. StreamTypeOK' /\ HandedPublished'
    BY <1>1, <1>2 DEF StreamInv, StreamTypeOK, HandedPublished, MutexFree
  <2>2. \A s \in Subscribers : Passed(s) <= Passed(s)'
    BY <1>1, <1>2 DEF Passed, MutexFree
  <2> QED
    BY <1>2, <2>1, <2>2, ChannelsUntouched
<1>3. CASE UNCHANGED streamVars \/ Publish
           \/ \E s \in Subscribers : Subscribe(s) \/ Leave(s) \/ Cancel(s)
  BY <1>2, <1>3 DEF streamVars, Publish, Subscribe, Leave, Cancel
<1>4. CASE Lose \/ BeginDelivery \/ FinishDelivery
  <2>1. ~MutexFree \/ handed < published
    BY <1>4 DEF Lose, BeginDelivery, FinishDelivery, MutexFree, NotDelivering
  <2>2. handed < published
    BY <2>1 DEF StreamInv, HandedPublished
  <2>3. UNCHANGED <<published, inbox>> /\ handed' \in {handed, handed + 1}
    BY <1>4 DEF Lose, BeginDelivery, FinishDelivery
  <2>4. MutexFree' \/ visiting' \in SUBSET Subscribers
    <3>1. CASE Lose
      BY <3>1 DEF Lose, MutexFree
    <3>2. CASE BeginDelivery
      BY <3>2 DEF BeginDelivery, Subscribed
    <3>3. CASE FinishDelivery
      BY <3>3 DEF FinishDelivery, MutexFree
    <3> QED
      BY <1>4, <3>1, <3>2, <3>3
  <2>5. handed' = handed + 1 => MutexFree'
    BY <1>1, <1>4 DEF Lose, BeginDelivery, FinishDelivery, MutexFree
  <2>6. StreamTypeOK' /\ HandedPublished'
    BY <1>1, <2>2, <2>3, <2>4, <2>5 DEF StreamInv, StreamTypeOK, HandedPublished
  <2>7. \A s \in Subscribers : Passed(s) <= Passed(s)'
    BY <1>1, <1>4 DEF Passed, Lose, BeginDelivery, FinishDelivery, MutexFree, NotDelivering
  <2> QED
    BY <2>3, <2>6, <2>7, ChannelsUntouched
<1> QED
  BY <1>3, <1>4, VisitInv, ReadInv DEF StreamNext, Listener

(* What is in a channel, and how far the hub and its subscribers are.       *)
THEOREM StreamInvariance == StreamSpec => []StreamInv
  BY StreamInit_Inv, StreamNext_Inv, PTL DEF StreamSpec

(* Deltas reach a subscriber in the order of publication, each once.        *)
THEOREM DeltasInOrder == StreamSpec => []ChannelsInOrder
<1>1. StreamInv => ChannelsInOrder
  BY InboxFacts DEF StreamInv, InOrder, ChannelsInOrder
<1> QED
  BY <1>1, StreamInvariance, PTL

(* Slow readers cost a bounded buffer each.                                 *)
THEOREM BuffersBounded == StreamSpec => []ChannelsBounded
<1>1. StreamInv => ChannelsBounded
  <2> SUFFICES ASSUME StreamInv, NEW s \in Subscribers
               PROVE  /\ Len(inbox[s]) <= Buffer
                      /\ \A i \in DOMAIN inbox[s] : inbox[s][i] <= published
    BY DEF ChannelsBounded
  <2>1. Passed(s) \in Nat /\ Passed(s) <= published /\ published \in Nat
    BY DEF StreamInv, StreamTypeOK, HandedPublished, Passed
  <2>2. \A i \in 1..Len(inbox[s]) : inbox[s][i] \in Nat /\ inbox[s][i] <= Passed(s)
    BY InboxFacts DEF StreamInv, NothingAhead
  <2> QED
    BY <2>1, <2>2, InboxFacts DEF StreamInv
<1> QED
  BY <1>1, StreamInvariance, PTL
=============================================================================
