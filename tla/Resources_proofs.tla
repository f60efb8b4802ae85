---------------------------- MODULE Resources_proofs ----------------------------
(***************************************************************************)
(* Proofs about Resources, for every finite set of affecting steps, every  *)
(* set of other steps and schedules, and every bound.                      *)
(***************************************************************************)
EXTENDS Resources, FiniteSetTheorems, SequenceTheorems, WellFoundedInduction, TLAPS

EventRecords ==
  [type : EventTypes, step : Steps \cup {NoStep}, generation : Nat, ref : Refs]
Checkpoints(n) ==
  [covered : 1..n, generation : Nat, ref : Refs, invalidated : 0..n]
Ran == {"succeeded", "failed"}
AtWork == {"running", "captured"}

-----------------------------------------------------------------------------
(* The inductive invariant of the counts and the boundaries                *)

RowsTyped ==
  /\ log \in Seq(EventRecords) /\ Len(log) \in Nat \ {0}
  /\ step \in [Steps -> Final \cup {"absent", "executing"}]
  /\ row \in [registered : 0..Len(log), generation : Nat, count : Nat,
              every : Intervals \cup {0}, reuse : BOOLEAN, bound : BOOLEAN, ref : Refs]
  /\ \A c \in checkpoints : c \in Checkpoints(Len(log)) /\ row.registered \in 1..c.covered

(* The status of a step is its outcome in the log. *)
OutcomesLogged ==
  \A i \in 1..Len(log) :
    log[i].type \in Final => log[i].step \in Steps /\ step[log[i].step] = log[i].type

(* Checkpoints: one per boundary, before the event that records it; starts *)
(* end all open coverage at once, so that coverage ends in the order it    *)
(* begins.                                                                 *)
Orderly(cs, n) ==
  /\ \A c \in cs : c.covered < n
  /\ \A c, d \in cs : c.covered = d.covered => c = d
  /\ \A c, d \in cs :
       c.covered <= d.covered /\ d.invalidated # 0 =>
         c.invalidated # 0 /\ c.invalidated <= d.invalidated

(* No checkpoint is open while a step writes. *)
ClosedWhileWriting == Writing(step) => \A c \in checkpoints : c.invalidated # 0

(* Affecting steps start after the resource is registered. *)
RegisteredFirst ==
  /\ row.registered = 0 => row = NoRow
  /\ \A s \in Affecting : step[s] = "executing" => row.registered > 0
  /\ \A i \in 1..Len(log) :
       log[i].type \in Ran /\ log[i].step \in Affecting => row.registered \in 1..i

RowsInv ==
  /\ RowsTyped /\ OutcomesLogged
  /\ Orderly(checkpoints, Len(log)) /\ ClosedWhileWriting
  /\ CountIsSettledSteps
  /\ RegisteredFirst

AgentsTyped ==
  /\ world \in Refs
  /\ lease \in Runs /\ lease \in heard /\ heard \subseteq 1..lease
  /\ agent \in [Runs -> [at : {"none", "starting", "creating", "idle", "running", "captured"},
                         step : Affecting \cup {NoStep}, generation : Nat,
                         due : BOOLEAN, ref : Refs]]
  /\ sent \in [by : 0..MaxAttempts, generation : Nat, ref : Refs]
  /\ forks \in 0..MaxForks
  /\ turns \in 0..MaxTurns
  /\ overtaken \in BOOLEAN

(* The agent that holds the lease captures by the schedule it was told, as  *)
(* long as no outcome came from an attempt before it.                       *)
Scheduled ==
  ~overtaken /\ agent[lease].at \in AtWork =>
    (agent[lease].due <=> row.every > 0 /\ (row.count + 1) % row.every = 0)

AgentsInv ==
  /\ AgentsTyped
  /\ \A r \in Runs :
       /\ agent[r].at \notin {"none", "starting"} => row.registered > 0
       /\ agent[r].at \in AtWork => agent[r].step \in Affecting
  /\ Scheduled

(* A late outcome is an outcome. *)
StraysSettled == strays \subseteq {s \in Affecting : step[s] \in Ran}

CountInv == RowsInv /\ AgentsInv /\ StraysSettled
-----------------------------------------------------------------------------
(* Least and greatest elements, and ranks                                  *)

(* A set of naturals that is not empty has a least element. *)
LEMMA Smallest ==
  ASSUME NEW K \in SUBSET Nat, K # {}
  PROVE  \E m \in K : \A j \in K : m <= j
<1>1. IsWellFoundedOn({ss \in Nat \X Nat : ss[1] < ss[2]}, Nat)
  BY NatLessThanWellFounded DEF OpToRel
<1>2. PICK m \in K : \A j \in K : ~ (<<j, m>> \in {ss \in Nat \X Nat : ss[1] < ss[2]})
  BY <1>1, WFMin
<1>3. \A j \in K : ~(j < m)
  BY <1>2
<1> QED BY <1>3

(* A bounded one has a greatest element, too. *)
LEMMA Largest ==
  ASSUME NEW n \in Nat, NEW K \in SUBSET (0..n), K # {}
  PROVE  \E m \in K : \A j \in K : j <= m
<1> DEFINE T == {n - k : k \in K}
<1>1. T \in SUBSET Nat
  <2>1. \A k \in K : n - k \in Nat BY K \in SUBSET (0..n)
  <2> QED BY <2>1
<1>2. T # {}
  <2>1. PICK k \in K : TRUE OBVIOUS
  <2>2. n - k \in T OBVIOUS
  <2> QED BY <2>2
<1> HIDE DEF T
<1>3. PICK t \in T : \A j \in T : t <= j BY <1>1, <1>2, Smallest
<1>4. PICK m \in K : t = n - m BY <1>3 DEF T
<1>5. ASSUME NEW j \in K PROVE j <= m
  <2>1. n - j \in T BY DEF T
  <2>2. t <= n - j BY <2>1, <1>3
  <2> QED BY <2>2, <1>4
<1> QED BY <1>5

(* How many elements of C are at most s: grows by one at each of them, and *)
(* takes every value in between.                                           *)
Rank(C, n, s) == Cardinality({i \in 1..n : i <= s /\ i \in C})

(* Ranks grow with the boundary, at each member of C strictly. *)
LEMMA RankGrows ==
  ASSUME NEW n \in Nat, NEW C
  PROVE  /\ \A s \in Int : Rank(C, n, s) \in Nat
         /\ \A s, t \in Int : s <= t => Rank(C, n, s) <= Rank(C, n, t)
         /\ \A s \in Int, i \in 1..n : i \in C /\ s < i => Rank(C, n, s) < Rank(C, n, i)
<1> DEFINE Upto(s) == {i \in 1..n : i <= s /\ i \in C}
<1>1. ASSUME NEW s \in Int PROVE IsFiniteSet(Upto(s)) /\ Cardinality(Upto(s)) \in Nat
  <2>1. IsFiniteSet(1..n) BY FS_Interval
  <2>2. Upto(s) \in SUBSET (1..n) OBVIOUS
  <2>3. IsFiniteSet(Upto(s)) BY <2>1, <2>2, FS_Subset
  <2> QED BY <2>3, FS_CardinalityType
<1>2. ASSUME NEW s \in Int, NEW t \in Int, s <= t
      PROVE  Cardinality(Upto(s)) <= Cardinality(Upto(t))
  <2>1. Upto(s) \in SUBSET Upto(t) BY <1>2
  <2> QED BY <2>1, <1>1, FS_Subset
<1>3. ASSUME NEW s \in Int, NEW i \in 1..n, i \in C, s < i
      PROVE  Cardinality(Upto(s)) < Cardinality(Upto(i))
  <2>1. Upto(s) \in SUBSET Upto(i) BY <1>3
  <2>2. i \in Upto(i) /\ i \notin Upto(s) BY <1>3
  <2>3. Upto(s) # Upto(i) BY <2>2
  <2>4. Cardinality(Upto(s)) <= Cardinality(Upto(i)) BY <1>2, <1>3
  <2>5. Cardinality(Upto(i)) # Cardinality(Upto(s)) BY <2>1, <2>3, <1>1, FS_Subset
  <2> HIDE DEF Upto
  <2> QED BY <2>4, <2>5, <1>1
<1> QED BY <1>1, <1>2, <1>3 DEF Rank

(* Every rank is that of a member of C. *)
LEMMA RankOnto ==
  ASSUME NEW n \in Nat, NEW C, NEW k \in 1..Rank(C, n, n)
  PROVE  \E i \in 1..n : i \in C /\ Rank(C, n, i) = k
<1> DEFINE Reaches == {s \in 0..n : Rank(C, n, s) >= k}
<1>1. \A s \in Int : Rank(C, n, s) \in Nat BY RankGrows
<1>2. n \in Reaches BY <1>1
<1>3. PICK i \in Reaches : \A j \in Reaches : i <= j
  <2>1. Reaches \in SUBSET Nat OBVIOUS
  <2> HIDE DEF Reaches
  <2> QED BY <1>2, <2>1, Smallest
<1>4. i \in 0..n /\ Rank(C, n, i) >= k BY <1>3
<1>5. Rank(C, n, 0) = 0
  <2>1. {j \in 1..n : j <= 0 /\ j \in C} = {} OBVIOUS
  <2> QED BY <2>1, FS_EmptySet DEF Rank
<1>6. i # 0 BY <1>4, <1>5
<1>7. Rank(C, n, i - 1) < k
  <2>1. i - 1 \in 0..n BY <1>4, <1>6
  <2>2. i - 1 \notin Reaches BY <1>3, <1>4
  <2>3. Rank(C, n, i - 1) \in Nat BY <1>1, <2>1
  <2> QED BY <2>1, <2>2, <2>3
<1>8. Rank(C, n, i) = IF i \in C THEN Rank(C, n, i - 1) + 1 ELSE Rank(C, n, i - 1)
  <2> DEFINE Before == {j \in 1..n : j <= i - 1 /\ j \in C}
  <2>1. IsFiniteSet(Before)
    <3>1. IsFiniteSet(1..n) /\ Before \in SUBSET (1..n) BY FS_Interval
    <3> QED BY <3>1, FS_Subset
  <2>2. i \notin Before BY <1>4
  <2>3. CASE i \in C
    <3>1. {j \in 1..n : j <= i /\ j \in C} = Before \cup {i} BY <2>3, <1>4, <1>6
    <3> HIDE DEF Before
    <3>2. Cardinality(Before \cup {i}) = Cardinality(Before) + 1
      BY <2>1, <2>2, FS_AddElement
    <3> QED BY <3>1, <3>2, <2>3 DEF Rank, Before
  <2>4. CASE i \notin C
    <3>1. {j \in 1..n : j <= i /\ j \in C} = Before
      <4>1. ASSUME NEW j \in 1..n, j \in C PROVE j <= i <=> j <= i - 1
        BY <4>1, <2>4, <1>4
      <4> QED BY <4>1
    <3> QED BY <3>1, <2>4 DEF Rank
  <2> QED BY <2>3, <2>4
<1>9. i \in C /\ Rank(C, n, i) = k
  <2>1. Rank(C, n, i - 1) \in Nat /\ Rank(C, n, i) \in Nat BY <1>1, <1>4
  <2> HIDE DEF Reaches
  <2> QED BY <2>1, <1>4, <1>7, <1>8
<1> QED BY <1>4, <1>6, <1>9

-----------------------------------------------------------------------------
(* What a fork copies                                                      *)

Opening(at) == <<Note("opened")>> \o CopiedEvents(at)

(* The events the handlers write are events. *)
LEMMA NoteTyped ==
  /\ \A type \in EventTypes : Note(type) \in EventRecords
  /\ \A type \in EventTypes, s \in Steps \cup {NoStep}, g \in Nat, ref \in Refs :
       Event(type, s, g, ref) \in EventRecords
BY DEF Note, Event, EventRecords, Refs

(* Boundaries keep their order, and distinct copied events stay distinct. *)
LEMMA MapSeqGrows ==
  ASSUME NEW at \in Nat
  PROVE  /\ \A s \in Int : MapSeq(s, at) \in Nat \ {0}
         /\ \A s, t \in Int : s <= t => MapSeq(s, at) <= MapSeq(t, at)
         /\ \A s \in Int, i \in 1..at :
              IsCopied(i, at) /\ s < i => MapSeq(s, at) < MapSeq(i, at)
         /\ \A k \in 2..MapSeq(at, at) : \E i \in 1..at : IsCopied(i, at) /\ MapSeq(i, at) = k
<1> DEFINE C == {i \in 1..at : IsCopied(i, at)}
<1>1. \A s : MapSeq(s, at) = 1 + Rank(C, at, s)
  <2>1. TAKE s
  <2>2. {i \in 1..at : i <= s /\ i \in C} = {i \in 1..at : i <= s /\ IsCopied(i, at)}
    OBVIOUS
  <2> QED BY <2>2 DEF MapSeq, Rank
<1>2. \A i \in 1..at : i \in C <=> IsCopied(i, at) OBVIOUS
<1> HIDE DEF C
<1>3. /\ \A s \in Int : Rank(C, at, s) \in Nat
      /\ \A s, t \in Int : s <= t => Rank(C, at, s) <= Rank(C, at, t)
      /\ \A s \in Int, i \in 1..at : i \in C /\ s < i => Rank(C, at, s) < Rank(C, at, i)
  BY RankGrows
<1>4. ASSUME NEW k \in 2..MapSeq(at, at)
      PROVE  \E i \in 1..at : IsCopied(i, at) /\ MapSeq(i, at) = k
  <2>1. k - 1 \in 1..Rank(C, at, at) BY <1>1, <1>3
  <2>2. PICK i \in 1..at : i \in C /\ Rank(C, at, i) = k - 1 BY <2>1, RankOnto
  <2> QED BY <2>2, <1>1, <1>2
<1>5. \A s \in Int : MapSeq(s, at) \in Nat \ {0} BY <1>1, <1>3
<1>6. \A s, t \in Int : s <= t => MapSeq(s, at) <= MapSeq(t, at) BY <1>1, <1>3
<1>7. \A s \in Int, i \in 1..at : IsCopied(i, at) /\ s < i => MapSeq(s, at) < MapSeq(i, at)
  BY <1>1, <1>2, <1>3
<1> QED BY <1>4, <1>5, <1>6, <1>7

(* The copied events, in order, from the second on. *)
LEMMA OpeningOfFork ==
  ASSUME log \in Seq(EventRecords), NEW at \in 1..Len(log)
  PROVE  /\ Opening(at) \in Seq(EventRecords)
         /\ Len(Opening(at)) = MapSeq(at, at)
         /\ Opening(at)[1] = Note("opened")
         /\ \A k \in 2..MapSeq(at, at) :
              \E i \in 1..at : /\ IsCopied(i, at) /\ MapSeq(i, at) = k
                               /\ Opening(at)[k] = log[i]
         /\ \A i \in 1..at : IsCopied(i, at) => /\ MapSeq(i, at) \in 2..MapSeq(at, at)
                                                /\ Opening(at)[MapSeq(i, at)] = log[i]
<1> DEFINE m == MapSeq(at, at)
<1>0. at \in Nat /\ \A i \in 1..at : i \in Int BY LenProperties
<1>1. /\ \A s \in Int : MapSeq(s, at) \in Nat \ {0}
      /\ \A s, t \in Int : s <= t => MapSeq(s, at) <= MapSeq(t, at)
      /\ \A s \in Int, i \in 1..at :
           IsCopied(i, at) /\ s < i => MapSeq(s, at) < MapSeq(i, at)
      /\ \A k \in 2..m : \E i \in 1..at : IsCopied(i, at) /\ MapSeq(i, at) = k
  BY <1>0, MapSeqGrows
<1>2. m \in Nat \ {0} BY <1>0, <1>1
<1>3. \A i, j \in 1..at :
        IsCopied(i, at) /\ IsCopied(j, at) /\ MapSeq(i, at) = MapSeq(j, at) => i = j
  <2>1. SUFFICES ASSUME NEW i \in 1..at, NEW j \in 1..at, i < j, IsCopied(j, at)
                 PROVE  MapSeq(i, at) # MapSeq(j, at)
    BY <1>0
  <2> QED BY <2>1, <1>0, <1>1
<1>4. ASSUME NEW k \in 1..m-1
      PROVE  \E i \in 1..at : /\ IsCopied(i, at) /\ MapSeq(i, at) = k + 1
                              /\ CopiedEvents(at)[k] = log[i]
  <2>1. k + 1 \in 2..m BY <1>2
  <2>2. \E i \in 1..at : IsCopied(i, at) /\ MapSeq(i, at) = k + 1 BY <2>1, <1>1
  <2> DEFINE w == CHOOSE i \in 1..at : IsCopied(i, at) /\ MapSeq(i, at) = k + 1
  <2>3. w \in 1..at /\ IsCopied(w, at) /\ MapSeq(w, at) = k + 1 BY <2>2
  <2>4. CopiedEvents(at)[k] = log[w] BY DEF CopiedEvents
  <2> HIDE DEF w
  <2> QED BY <2>3, <2>4
<1>5. /\ CopiedEvents(at) \in Seq(EventRecords)
      /\ Len(CopiedEvents(at)) = m - 1
  <2>1. m - 1 \in Nat BY <1>2
  <2>2. \A k \in 1..m-1 : CopiedEvents(at)[k] \in EventRecords
    <3>1. TAKE k \in 1..m-1
    <3>2. PICK i \in 1..at : CopiedEvents(at)[k] = log[i] BY <1>4
    <3>3. i \in 1..Len(log) BY LenProperties
    <3> QED BY <3>2, <3>3, ElementOfSeq
  <2>3. DOMAIN CopiedEvents(at) = 1..m-1 BY DEF CopiedEvents
  <2>4. CopiedEvents(at) = [k \in 1..m-1 |-> CopiedEvents(at)[k]] BY DEF CopiedEvents
  <2>5. CopiedEvents(at) \in [1..m-1 -> EventRecords] BY <2>2, <2>4
  <2> HIDE DEF m
  <2>6. CopiedEvents(at) \in Seq(EventRecords) BY <2>1, <2>5, SeqDef
  <2>7. /\ DOMAIN CopiedEvents(at) = 1..Len(CopiedEvents(at))
        /\ Len(CopiedEvents(at)) \in Nat
    BY <2>6, LenProperties
  <2> QED BY <2>1, <2>3, <2>6, <2>7
<1>6. <<Note("opened")>> \in Seq(EventRecords) /\ Len(<<Note("opened")>>) = 1
  BY NoteTyped DEF EventTypes
<1>7. /\ Opening(at) \in Seq(EventRecords)
      /\ Len(Opening(at)) = 1 + (m - 1)
      /\ \A k \in 1..1 + (m - 1) :
           Opening(at)[k] = IF k <= 1 THEN <<Note("opened")>>[k] ELSE CopiedEvents(at)[k - 1]
  <2> HIDE DEF m
  <2> QED BY <1>5, <1>6, ConcatProperties DEF Opening
<1>8. ASSUME NEW k \in 2..m
      PROVE  \E i \in 1..at : /\ IsCopied(i, at) /\ MapSeq(i, at) = k
                              /\ Opening(at)[k] = log[i]
  <2> HIDE DEF m
  <2>1. k - 1 \in 1..m-1 /\ (k - 1) + 1 = k BY <1>2
  <2>2. Opening(at)[k] = CopiedEvents(at)[k - 1] BY <1>2, <1>7
  <2>3. PICK i \in 1..at : /\ IsCopied(i, at) /\ MapSeq(i, at) = (k - 1) + 1
                           /\ CopiedEvents(at)[k - 1] = log[i]
    BY <2>1, <1>4
  <2> QED BY <2>1, <2>2, <2>3
<1>9. ASSUME NEW i \in 1..at, IsCopied(i, at)
      PROVE  MapSeq(i, at) \in 2..m /\ Opening(at)[MapSeq(i, at)] = log[i]
  <2>1. 0 \in Int /\ 0 < i /\ i \in Int /\ i <= at BY <1>0
  <2>2. MapSeq(0, at) < MapSeq(i, at) /\ MapSeq(i, at) <= m BY <2>1, <1>0, <1>1, <1>9
  <2>3. MapSeq(i, at) \in 2..m BY <2>1, <2>2, <1>1
  <2>4. PICK j \in 1..at : /\ IsCopied(j, at) /\ MapSeq(j, at) = MapSeq(i, at)
                           /\ Opening(at)[MapSeq(i, at)] = log[j]
    BY <2>3, <1>8
  <2> QED BY <2>3, <2>4, <1>3, <1>9
<1>10. Opening(at)[1] = Note("opened") /\ Len(Opening(at)) = m BY <1>2, <1>7
<1> QED BY <1>7, <1>8, <1>9, <1>10

(* The generation of a prefix is a number: the newest mark exists. *)
LEMMA GenerationTyped ==
  ASSUME log \in Seq(EventRecords), NEW at \in 1..Len(log)
  PROVE  GenerationAt(at) \in Nat
<1> DEFINE marks == {i \in 1..at : \/ log[i].type = "initialized"
                                   \/ log[i].type = "executing" /\ log[i].generation > 0}
<1>1. CASE marks = {}
  BY <1>1 DEF GenerationAt
<1>2. CASE marks # {}
  <2>1. at \in Nat BY LenProperties
  <2>2. \E i \in marks : \A j \in marks : j <= i
    <3>1. marks \in SUBSET (0..at) BY <2>1
    <3> HIDE DEF marks
    <3> QED BY <1>2, <2>1, <3>1, Largest
  <2> DEFINE w == CHOOSE i \in marks : \A j \in marks : j <= i
  <2>3. w \in marks
    <3> HIDE DEF marks
    <3> QED BY <2>2
  <2>4. GenerationAt(at) = log[w].generation BY <1>2 DEF GenerationAt
  <2>5. w \in 1..Len(log) BY <2>3, LenProperties
  <2> HIDE DEF w, marks
  <2>6. log[w] \in EventRecords BY <2>5, ElementOfSeq
  <2> QED BY <2>4, <2>6 DEF EventRecords
<1> QED BY <1>1, <1>2

-----------------------------------------------------------------------------
(* Steps and captures                                                      *)

(* A capture recorded at the end of `events` leaves the checkpoints in     *)
(* order, and none open while a step writes.                               *)
LEMMA CapturesRecorded ==
  ASSUME RowsTyped, Orderly(checkpoints, Len(log)),
         NEW covered \in Nat, NEW events \in Seq(EventRecords), NEW st, NEW captures,
         covered = Len(events), covered >= Len(log),
         \A c \in captures : c.generation \in Nat /\ c.ref \in Refs,
         \A c, d \in captures : c = d,
         Writing(st) => \A c \in checkpoints : c.invalidated # 0,
         RecordCaptures(captures, covered, events, st)
  PROVE  /\ log' \in Seq(EventRecords) /\ Len(log') \in Nat \ {0} /\ Len(log') >= covered
         /\ \A i \in 1..covered : log'[i] = events[i]
         /\ \A i \in 1..Len(log') :
              i > covered => log'[i] \in {Note("checkpointed"), Note("checkpoint_failed")}
         /\ \A c \in checkpoints' : c \in Checkpoints(Len(log')) /\ row.registered \in 1..c.covered
         /\ Orderly(checkpoints', Len(log'))
         /\ Writing(st) => \A c \in checkpoints' : c.invalidated # 0
<1> DEFINE accepted == {c \in captures : row.registered > 0 /\ Acceptable(c, st)}
           verdict == IF accepted = {} THEN "checkpoint_failed" ELSE "checkpointed"
           tail == IF captures = {} THEN <<>> ELSE <<Note(verdict)>>
<1>1. /\ checkpoints' = checkpoints \cup {Checkpoint(c, covered) : c \in accepted}
      /\ log' = events \o tail
  BY DEF RecordCaptures
<1>2. /\ Len(log) \in Nat \ {0}
      /\ row.registered \in 0..Len(log)
      /\ \A c \in checkpoints : c \in Checkpoints(Len(log)) /\ row.registered \in 1..c.covered
  BY DEF RowsTyped
<1>3. /\ tail \in Seq(EventRecords)
      /\ Len(tail) = IF captures = {} THEN 0 ELSE 1
      /\ captures # {} => tail[1] = Note(verdict)
  <2>1. Note(verdict) \in EventRecords BY NoteTyped DEF EventTypes
  <2> HIDE DEF verdict
  <2> QED BY <2>1
<1>4. /\ log' \in Seq(EventRecords)
      /\ Len(log') = covered + Len(tail)
      /\ \A i \in 1..covered + Len(tail) :
           log'[i] = IF i <= covered THEN events[i] ELSE tail[i - covered]
  <2> HIDE DEF tail
  <2> QED BY <1>1, <1>3, ConcatProperties
<1>5. \A i \in 1..covered : log'[i] = events[i]
  <2>1. Len(tail) \in Nat BY <1>3
  <2> HIDE DEF tail
  <2> QED BY <1>4, <2>1
<1>6. ASSUME NEW i \in 1..Len(log'), i > covered
      PROVE  log'[i] \in {Note("checkpointed"), Note("checkpoint_failed")}
  <2>1. captures # {} /\ i = covered + 1 BY <1>3, <1>4, <1>6
  <2>2. log'[i] = Note(verdict)
    <3> HIDE DEF tail, verdict
    <3> QED BY <2>1, <1>3, <1>4, <1>6
  <2> QED BY <2>2
<1>7. Len(log') = IF captures = {} THEN covered ELSE covered + 1
  <2> HIDE DEF tail
  <2> QED BY <1>3, <1>4
<1>8. ASSUME NEW c \in accepted
      PROVE  /\ captures # {} /\ row.registered > 0 /\ ~Writing(st)
             /\ Checkpoint(c, covered) \in Checkpoints(Len(log'))
             /\ Checkpoint(c, covered).covered = covered
             /\ Checkpoint(c, covered).invalidated = 0
             /\ row.registered \in 1..covered
  BY <1>2, <1>7 DEF Acceptable, Checkpoint, Checkpoints
<1>9. ASSUME NEW c \in checkpoints
      PROVE  /\ c \in Checkpoints(Len(log')) /\ row.registered \in 1..c.covered
             /\ c.covered < Len(log) /\ c.covered \in Nat /\ c.invalidated \in Nat
  BY <1>2, <1>7 DEF Checkpoints, Orderly
<1>10. \A c \in checkpoints' :
         \/ c \in checkpoints
         \/ captures # {} /\ \E a \in accepted : c = Checkpoint(a, covered)
  <2> HIDE DEF accepted
  <2> QED BY <1>1, <1>8
<1>11. \A c \in checkpoints' : c \in Checkpoints(Len(log')) /\ row.registered \in 1..c.covered
  BY <1>8, <1>9, <1>10
<1>12. Orderly(checkpoints', Len(log'))
  <2>1. \A c \in checkpoints' : c.covered < Len(log')
    BY <1>7, <1>8, <1>9, <1>10, <1>2
  <2>2. \A a, b \in accepted : a = b OBVIOUS
  <2>3. \A a \in accepted : Checkpoint(a, covered).covered = covered
                            /\ Checkpoint(a, covered).invalidated = 0
    BY <1>8
  <2> HIDE DEF accepted
  <2>4. ASSUME NEW c \in checkpoints', NEW d \in checkpoints', c.covered = d.covered
        PROVE  c = d
    BY <1>2, <1>9, <1>10, <2>2, <2>3, <2>4 DEF Orderly
  <2>5. ASSUME NEW c \in checkpoints', NEW d \in checkpoints',
               c.covered <= d.covered, d.invalidated # 0
        PROVE  c.invalidated # 0 /\ c.invalidated <= d.invalidated
    <3>1. d \in checkpoints BY <1>10, <2>3, <2>5
    <3>2. c \in checkpoints BY <1>2, <1>9, <1>10, <2>3, <2>5, <3>1
    <3> QED BY <3>1, <3>2, <2>5 DEF Orderly
  <2> QED BY <2>1, <2>4, <2>5 DEF Orderly
<1>13. ASSUME Writing(st) PROVE \A c \in checkpoints' : c.invalidated # 0
  BY <1>8, <1>10, <1>13
<1>14. Len(log') \in Nat \ {0} /\ Len(log') >= covered BY <1>2, <1>7
<1> HIDE DEF accepted, verdict, tail
<1> QED BY <1>4, <1>5, <1>6, <1>11, <1>12, <1>13, <1>14

(* The count of affecting steps with an outcome: one more when one settles, *)
(* the same when any other step changes between the remaining statuses.    *)
LEMMA OneMoreSettled ==
  ASSUME StepsAssumption, NEW old \in [Steps -> Final \cup {"absent", "executing"}],
         NEW s \in Steps, old[s] \notin Ran, NEW status
  PROVE  LET new == [old EXCEPT ![s] = status] IN
         Cardinality({t \in Affecting : new[t] \in Ran}) =
           IF s \in Affecting /\ status \in Ran
             THEN Cardinality({t \in Affecting : old[t] \in Ran}) + 1
             ELSE Cardinality({t \in Affecting : old[t] \in Ran})
<1> DEFINE before == {t \in Affecting : old[t] \in Ran}
           new == [old EXCEPT ![s] = status]
           after == {t \in Affecting : new[t] \in Ran}
<1>1. \A t \in Affecting : new[t] = IF t = s THEN status ELSE old[t] BY DEF Steps
<1>2. IsFiniteSet(before)
  <2>1. before \in SUBSET Affecting OBVIOUS
  <2> HIDE DEF before
  <2> QED BY <2>1, FS_Subset, StepsAssumption DEF StepsAssumption
<1>3. CASE s \in Affecting /\ status \in Ran
  <2>1. after = before \cup {s} BY <1>1, <1>3
  <2>2. s \notin before OBVIOUS
  <2> HIDE DEF before, after
  <2>3. Cardinality(before \cup {s}) = Cardinality(before) + 1
    BY <1>2, <2>2, FS_AddElement
  <2> QED BY <1>3, <2>1, <2>3 DEF before, after
<1>4. CASE ~(s \in Affecting /\ status \in Ran)
  <2>1. after = before BY <1>1, <1>4
  <2> QED BY <1>4, <2>1
<1> QED BY <1>3, <1>4

(* The event of a start ends all coverage at once. *)
LEMMA InvalidateOrdered ==
  ASSUME RowsTyped, Orderly(checkpoints, Len(log)), NEW seq, seq = Len(log) + 1
  PROVE  /\ \A c \in Invalidate(seq) : /\ c \in Checkpoints(seq) /\ c.invalidated # 0
                                       /\ row.registered \in 1..c.covered
         /\ Orderly(Invalidate(seq), seq)
<1>1. ASSUME NEW c \in Invalidate(seq)
      PROVE  \E d \in checkpoints :
               /\ c = [d EXCEPT !.invalidated = IF @ = 0 THEN seq ELSE @]
               /\ c.covered = d.covered
               /\ c.invalidated = IF d.invalidated = 0 THEN seq ELSE d.invalidated
               /\ c \in Checkpoints(seq)
               /\ d.covered < Len(log) /\ d.covered \in Nat /\ d.invalidated \in 0..Len(log)
  <2>1. PICK d \in checkpoints : c = [d EXCEPT !.invalidated = IF @ = 0 THEN seq ELSE @]
    BY DEF Invalidate
  <2>2. d \in Checkpoints(Len(log)) /\ Len(log) \in Nat BY DEF RowsTyped
  <2>3. d.covered < Len(log) BY DEF Orderly
  <2> QED BY <2>1, <2>2, <2>3 DEF Checkpoints
<1>2. Len(log) \in Nat \ {0} BY DEF RowsTyped
<1>3. \A d \in checkpoints : row.registered \in 1..d.covered BY DEF RowsTyped
<1>4. \A c \in Invalidate(seq) : /\ c \in Checkpoints(seq) /\ c.invalidated # 0
                                 /\ row.registered \in 1..c.covered
  BY <1>1, <1>2, <1>3
<1>5. ASSUME NEW c \in Invalidate(seq), NEW d \in Invalidate(seq), c.covered = d.covered
      PROVE  c = d
  BY <1>1, <1>5 DEF Orderly
<1>6. ASSUME NEW c \in Invalidate(seq), NEW d \in Invalidate(seq),
             c.covered <= d.covered, d.invalidated # 0
      PROVE  c.invalidated # 0 /\ c.invalidated <= d.invalidated
  <2>1. PICK x \in checkpoints : /\ c.covered = x.covered
                                 /\ c.invalidated = IF x.invalidated = 0 THEN seq
                                                    ELSE x.invalidated
                                 /\ x.invalidated \in 0..Len(log)
    BY <1>1
  <2>2. PICK y \in checkpoints : /\ d.covered = y.covered
                                 /\ d.invalidated = IF y.invalidated = 0 THEN seq
                                                    ELSE y.invalidated
                                 /\ y.invalidated \in 0..Len(log)
    BY <1>1
  <2>3. y.invalidated # 0 => x.invalidated # 0 /\ x.invalidated <= y.invalidated
    BY <2>1, <2>2, <1>6 DEF Orderly
  <2> QED BY <2>1, <2>2, <2>3, <1>2
<1>7. \A c \in Invalidate(seq) : c.covered < seq BY <1>1, <1>2
<1> QED BY <1>4, <1>5, <1>6, <1>7 DEF Orderly

(* startStep keeps the invariant, the schedule and the registration. *)
LEMMA StartKeepsRows ==
  ASSUME RowsInv, NEW s \in Steps, step[s] \in {"absent", "executing"},
         s \in Affecting => row.registered > 0, StartStep(s)
  PROVE  /\ RowsInv'
         /\ row'.registered = row.registered
         /\ row'.count = row.count /\ row'.every = row.every
         /\ row'.generation \in Nat
<1> USE DEF RowsInv
<1>0. StepsAssumption BY StepsAssumption
<1>1. /\ log \in Seq(EventRecords) /\ Len(log) \in Nat \ {0}
      /\ step \in [Steps -> Final \cup {"absent", "executing"}]
      /\ row.generation \in Nat /\ row.registered \in 0..Len(log)
  BY DEF RowsTyped
<1>2. step' = [step EXCEPT ![s] = "executing"] BY DEF StartStep
<1>3. /\ step' \in [Steps -> Final \cup {"absent", "executing"}]
      /\ \A t \in Steps : step'[t] = IF t = s THEN "executing" ELSE step[t]
  BY <1>1, <1>2
<1>4. row'.registered = row.registered /\ row'.count = row.count /\ row'.every = row.every
      /\ row'.generation \in Nat
      /\ row' \in [registered : 0..Len(log), generation : Nat, count : Nat,
                   every : Intervals \cup {0}, reuse : BOOLEAN, bound : BOOLEAN, ref : Refs]
      /\ (row.registered = 0 => row' = row)
  <2>1. row \in [registered : 0..Len(log), generation : Nat, count : Nat,
                 every : Intervals \cup {0}, reuse : BOOLEAN, bound : BOOLEAN, ref : Refs]
    BY DEF RowsTyped
  <2>2. CASE Touches(s)
    <3>1. row' = [row EXCEPT !.generation = @ + 1] BY <2>2 DEF StartStep
    <3>2. row.registered # 0 BY <2>2 DEF Touches
    <3> QED BY <2>1, <3>1, <3>2
  <2>3. CASE ~Touches(s)
    <3>1. row' = row BY <2>3 DEF StartStep
    <3> QED BY <2>1, <3>1
  <2> QED BY <2>2, <2>3
<1>5. log' = log \/ \E g \in Nat : log' = Append(log, Event("executing", s, g, {}))
  BY <1>1 DEF StartStep
<1>6. /\ log' \in Seq(EventRecords)
      /\ Len(log') \in Nat \ {0} /\ Len(log') >= Len(log)
      /\ \A i \in 1..Len(log) : log'[i] = log[i]
      /\ \A i \in 1..Len(log') : i > Len(log) => log'[i].type = "executing"
      /\ Touches(s) => Len(log') = Len(log) + 1
  <2>1. ASSUME log' = log
        PROVE  Len(log') = Len(log) /\ ~Touches(s)
    <3>1. ~Touches(s)
      <4>1. ASSUME NEW e \in EventRecords PROVE Append(log, e) # log
        BY <1>1, <4>1, AppendProperties
      <4>2. Event("executing", s, row.generation + 1, {}) \in EventRecords
        BY <1>1, NoteTyped, row.generation + 1 \in Nat DEF EventTypes, Refs
      <4> QED BY <4>1, <4>2, <2>1 DEF StartStep
    <3> QED BY <2>1, <3>1
  <2>2. ASSUME NEW g \in Nat, log' = Append(log, Event("executing", s, g, {}))
        PROVE  /\ Len(log') = Len(log) + 1 /\ log'[Len(log) + 1].type = "executing"
               /\ log' \in Seq(EventRecords) /\ \A i \in 1..Len(log) : log'[i] = log[i]
    <3>1. Event("executing", s, g, {}) \in EventRecords BY NoteTyped DEF EventTypes, Refs
    <3>2. Event("executing", s, g, {}).type = "executing" BY DEF Event
    <3> QED BY <1>1, <2>2, <3>1, <3>2, AppendProperties
  <2>3. CASE log' = log
    BY <2>1, <2>3, <1>1
  <2>4. CASE \E g \in Nat : log' = Append(log, Event("executing", s, g, {}))
    BY <2>2, <2>4, <1>1
  <2> QED BY <2>3, <2>4, <1>5
<1>7. /\ \A c \in checkpoints' : c \in Checkpoints(Len(log')) /\ row.registered \in 1..c.covered
      /\ Orderly(checkpoints', Len(log'))
  <2>1. CASE Touches(s)
    <3>1. checkpoints' = Invalidate(Len(log) + 1) BY <2>1 DEF StartStep
    <3> QED BY <3>1, <1>6, <2>1, InvalidateOrdered
  <2>2. CASE ~Touches(s)
    <3>1. checkpoints' = checkpoints BY <2>2 DEF StartStep
    <3>2. \A c \in checkpoints : c \in Checkpoints(Len(log)) /\ row.registered \in 1..c.covered
      BY DEF RowsTyped
    <3>3. \A c \in checkpoints : c \in Checkpoints(Len(log')) BY <3>2, <1>6, <1>1 DEF Checkpoints
    <3>4. \A c \in checkpoints : c.covered < Len(log')
      BY <3>2, <1>6, <1>1 DEF Orderly, Checkpoints
    <3> QED BY <3>1, <3>2, <3>3, <3>4 DEF Orderly
  <2> QED BY <2>1, <2>2
<1>8. ClosedWhileWriting'
  <2>1. CASE s \in Affecting
    <3>1. Touches(s) BY <2>1, <1>1 DEF Touches
    <3>2. checkpoints' = Invalidate(Len(log) + 1) BY <3>1 DEF StartStep
    <3>3. \A c \in checkpoints' : c.invalidated # 0 BY <3>2, InvalidateOrdered
    <3> QED BY <3>3 DEF ClosedWhileWriting
  <2>2. CASE s \notin Affecting
    <3>1. Writing(step') => Writing(step) BY <2>2, <1>3 DEF Writing, Steps
    <3>2. ASSUME Writing(step) PROVE \A c \in checkpoints' : c.invalidated # 0
      <4>1. CASE Touches(s)
        <5>1. checkpoints' = Invalidate(Len(log) + 1) BY <4>1 DEF StartStep
        <5> QED BY <5>1, InvalidateOrdered
      <4>2. CASE ~Touches(s)
        BY <4>2, <3>2 DEF StartStep, ClosedWhileWriting
      <4> QED BY <4>1, <4>2
    <3> QED BY <3>1, <3>2 DEF ClosedWhileWriting
  <2> QED BY <2>1, <2>2
<1>9. RowsTyped'
  <2>1. row' \in [registered : 0..Len(log'), generation : Nat, count : Nat,
              every : Intervals \cup {0}, reuse : BOOLEAN, bound : BOOLEAN, ref : Refs]
    BY <1>4, <1>6, <1>1
  <2> QED BY <2>1, <1>3, <1>4, <1>6, <1>7 DEF RowsTyped
<1>10. OutcomesLogged'
  <2>1. SUFFICES ASSUME NEW i \in 1..Len(log'), log'[i].type \in Final
                 PROVE  log'[i].step \in Steps /\ step'[log'[i].step] = log'[i].type
    BY DEF OutcomesLogged
  <2>2. i \in 1..Len(log) /\ log'[i] = log[i] BY <2>1, <1>6, <1>1 DEF Final
  <2>3. log[i].step \in Steps /\ step[log[i].step] = log[i].type
    BY <2>1, <2>2 DEF OutcomesLogged
  <2>4. log[i].step # s BY <2>1, <2>2, <2>3 DEF Final
  <2> QED BY <2>2, <2>3, <2>4, <1>3
<1>11. CountIsSettledSteps'
  <2>1. Cardinality({t \in Affecting : step'[t] \in Ran})
          = Cardinality({t \in Affecting : step[t] \in Ran})
    <3>1. step[s] \notin Ran /\ "executing" \notin Ran BY DEF Ran
    <3> QED BY <3>1, <1>0, <1>1, <1>2, OneMoreSettled
  <2> QED BY <2>1, <1>4 DEF CountIsSettledSteps, Ran
<1>12. RegisteredFirst'
  <2>1. row'.registered = 0 => row' = NoRow BY <1>4 DEF RegisteredFirst
  <2>2. \A t \in Affecting : step'[t] = "executing" => row'.registered > 0
    BY <1>3, <1>4 DEF RegisteredFirst, Steps
  <2>3. ASSUME NEW i \in 1..Len(log'), log'[i].type \in Ran, log'[i].step \in Affecting
        PROVE  row'.registered \in 1..i
    <3>1. i \in 1..Len(log) /\ log'[i] = log[i] BY <2>3, <1>6, <1>1 DEF Ran
    <3> QED BY <2>3, <3>1, <1>4 DEF RegisteredFirst
  <2> QED BY <2>1, <2>2, <2>3 DEF RegisteredFirst
<1> QED BY <1>4, <1>7, <1>8, <1>9, <1>10, <1>11, <1>12

(* settleStep keeps the invariant: the outcome, its count and its capture. *)
LEMMA SettleKeepsRows ==
  ASSUME RowsInv, NEW s \in Steps, step[s] = "executing", NEW outcome \in Ran,
         NEW captures, \A c \in captures : c.generation \in Nat /\ c.ref \in Refs,
         \A c, d \in captures : c = d,
         Settle(s, outcome, captures)
  PROVE  RowsInv' /\ row' = Settled(s)
<1> USE DEF RowsInv
<1>0. StepsAssumption BY StepsAssumption
<1>1. /\ log \in Seq(EventRecords) /\ Len(log) \in Nat \ {0}
      /\ step \in [Steps -> Final \cup {"absent", "executing"}]
      /\ row \in [registered : 0..Len(log), generation : Nat, count : Nat,
                  every : Intervals \cup {0}, reuse : BOOLEAN, bound : BOOLEAN, ref : Refs]
  BY DEF RowsTyped
<1>2. step' = [step EXCEPT ![s] = outcome] /\ row' = Settled(s) BY DEF Settle
<1>3. /\ step' \in [Steps -> Final \cup {"absent", "executing"}]
      /\ \A t \in Steps : step'[t] = IF t = s THEN outcome ELSE step[t]
  BY <1>1, <1>2 DEF Ran, Final
<1>4. /\ row'.registered = row.registered
      /\ row'.count = IF s \in Affecting THEN row.count + 1 ELSE row.count
      /\ row' \in [registered : 0..Len(log), generation : Nat, count : Nat,
                   every : Intervals \cup {0}, reuse : BOOLEAN, bound : BOOLEAN, ref : Refs]
      /\ (row.registered = 0 => row' = row)
  <2>1. row' = [row EXCEPT !.count = IF s \in Affecting THEN @ + 1 ELSE @] BY <1>2 DEF Settled
  <2>2. row.registered = 0 => s \notin Affecting BY DEF RegisteredFirst
  <2>3. row.count \in Nat BY <1>1
  <2>4. CASE s \in Affecting BY <2>1, <2>2, <2>3, <2>4, <1>1
  <2>5. CASE s \notin Affecting BY <2>1, <2>5, <1>1
  <2> QED BY <2>4, <2>5
<1> DEFINE e == Event(outcome, s, 0, {})
           events == Append(log, e)
           n == Len(log) + 1
<1>5. e \in EventRecords /\ e.type = outcome /\ e.step = s
  <2>1. outcome \in EventTypes /\ s \in Steps \cup {NoStep} /\ {} \in Refs
    BY DEF EventTypes, Final, Ran, Refs
  <2> QED BY <2>1 DEF Event, EventRecords
<1>6. /\ events \in Seq(EventRecords) /\ Len(events) = n
      /\ \A i \in 1..Len(log) : events[i] = log[i]
      /\ events[n] = e
  <2> HIDE DEF e
  <2> QED BY <1>1, <1>5, AppendProperties
<1>7. n \in Nat /\ n >= Len(log) BY <1>1
<1>8. PICK st : st = step' OBVIOUS
<1>9. RecordCaptures(captures, n, events, st) BY <1>8 DEF Settle
<1>10. Writing(st) => \A c \in checkpoints : c.invalidated # 0
  <2>1. Writing(st) => Writing(step)
    BY <1>3, <1>8 DEF Writing, Ran, Steps
  <2> QED BY <2>1 DEF ClosedWhileWriting
<1> HIDE DEF e, events
<1>11. /\ log' \in Seq(EventRecords) /\ Len(log') \in Nat \ {0} /\ Len(log') >= n
       /\ \A i \in 1..n : log'[i] = events[i]
       /\ \A i \in 1..Len(log') :
            i > n => log'[i] \in {Note("checkpointed"), Note("checkpoint_failed")}
       /\ \A c \in checkpoints' : c \in Checkpoints(Len(log')) /\ row.registered \in 1..c.covered
       /\ Orderly(checkpoints', Len(log'))
       /\ Writing(st) => \A c \in checkpoints' : c.invalidated # 0
  BY <1>6, <1>7, <1>9, <1>10, CapturesRecorded
<1>12. \A i \in 1..Len(log') :
         \/ i \in 1..Len(log) /\ log'[i] = log[i]
         \/ i = n /\ log'[i] = e
         \/ log'[i].type \notin Final
  <2>1. TAKE i \in 1..Len(log')
  <2>2. CASE i \in 1..Len(log) BY <2>2, <1>6, <1>7, <1>11, <1>1
  <2>3. CASE i = n BY <2>3, <1>6, <1>7, <1>11, <1>1
  <2>4. CASE i > n
    <3>1. log'[i] \in {Note("checkpointed"), Note("checkpoint_failed")} BY <2>4, <1>11
    <3> QED BY <3>1 DEF Note, Event, Final
  <2> QED BY <2>2, <2>3, <2>4, <1>1, <1>11
<1>13. RowsTyped'
  <2>1. row' \in [registered : 0..Len(log'), generation : Nat, count : Nat,
              every : Intervals \cup {0}, reuse : BOOLEAN, bound : BOOLEAN, ref : Refs]
    BY <1>4, <1>7, <1>11, <1>1
  <2> QED BY <2>1, <1>3, <1>4, <1>11 DEF RowsTyped
<1>14. OutcomesLogged'
  <2>1. SUFFICES ASSUME NEW i \in 1..Len(log'), log'[i].type \in Final
                 PROVE  log'[i].step \in Steps /\ step'[log'[i].step] = log'[i].type
    BY DEF OutcomesLogged
  <2>2. CASE i \in 1..Len(log) /\ log'[i] = log[i]
    <3>1. log[i].step \in Steps /\ step[log[i].step] = log[i].type
      BY <2>1, <2>2 DEF OutcomesLogged
    <3>2. log[i].step # s BY <2>1, <2>2, <3>1 DEF Final
    <3> QED BY <2>2, <3>1, <3>2, <1>3
  <2>3. CASE log'[i] = e
    BY <2>3, <1>3, <1>5
  <2> QED BY <2>1, <2>2, <2>3, <1>12
<1>15. ClosedWhileWriting' BY <1>8, <1>11 DEF ClosedWhileWriting
<1>16. CountIsSettledSteps'
  <2>1. step[s] \notin Ran BY DEF Ran
  <2>2. Cardinality({t \in Affecting : step'[t] \in Ran}) =
          IF s \in Affecting THEN Cardinality({t \in Affecting : step[t] \in Ran}) + 1
          ELSE Cardinality({t \in Affecting : step[t] \in Ran})
    BY <2>1, <1>0, <1>1, <1>2, OneMoreSettled
  <2> QED BY <2>2, <1>4 DEF CountIsSettledSteps, Ran
<1>17. RegisteredFirst'
  <2>1. row'.registered = 0 => row' = NoRow BY <1>4 DEF RegisteredFirst
  <2>2. \A t \in Affecting : step'[t] = "executing" => row'.registered > 0
    BY <1>3, <1>4 DEF RegisteredFirst, Steps, Ran
  <2>3. ASSUME NEW i \in 1..Len(log'), log'[i].type \in Ran, log'[i].step \in Affecting
        PROVE  row'.registered \in 1..i
    <3>1. CASE i \in 1..Len(log) /\ log'[i] = log[i]
      BY <2>3, <3>1, <1>4 DEF RegisteredFirst
    <3>2. CASE i = n /\ log'[i] = e
      <4>1. row.registered > 0 BY <2>3, <3>2, <1>5 DEF RegisteredFirst
      <4> QED BY <4>1, <3>2, <1>1, <1>4
    <3> QED BY <2>3, <3>1, <3>2, <1>12 DEF Ran, Final
  <2> QED BY <2>1, <2>2, <2>3 DEF RegisteredFirst
<1> QED BY <1>2, <1>11, <1>13, <1>14, <1>15, <1>16, <1>17

(* Events other than outcomes keep it, a change of the row too that keeps   *)
(* its registration and count.                                              *)
LEMMA NoteKeepsRows ==
  ASSUME RowsInv, UNCHANGED <<step, checkpoints>>,
         NEW note \in {<<>>} \cup {<<Note(type)>> : type \in EventTypes \ Final},
         log' = log \o note,
         row' \in [registered : 0..Len(log'), generation : Nat, count : Nat,
                   every : Intervals \cup {0}, reuse : BOOLEAN, bound : BOOLEAN, ref : Refs],
         row'.registered = row.registered \/ row.registered = 0,
         row'.registered > 0,
         row'.count = row.count
  PROVE  RowsInv'
<1> USE DEF RowsInv
<1>1. /\ log \in Seq(EventRecords) /\ Len(log) \in Nat \ {0}
      /\ step \in [Steps -> Final \cup {"absent", "executing"}]
      /\ row \in [registered : 0..Len(log), generation : Nat, count : Nat,
                  every : Intervals \cup {0}, reuse : BOOLEAN, bound : BOOLEAN, ref : Refs]
      /\ \A c \in checkpoints : c \in Checkpoints(Len(log)) /\ row.registered \in 1..c.covered
  BY DEF RowsTyped
<1>2. note \in Seq(EventRecords) /\ Len(note) \in {0, 1}
      /\ (Len(note) = 1 => note[1].type \notin Final)
  <2>1. CASE note = <<>> BY <2>1
  <2>2. ASSUME NEW type \in EventTypes \ Final, note = <<Note(type)>>
        PROVE  <<Note(type)>> \in Seq(EventRecords) /\ Len(note) = 1 /\ note[1].type \notin Final
    <3>1. Note(type) \in EventRecords BY NoteTyped
    <3>2. Note(type).type \notin Final BY DEF Note, Event
    <3> QED BY <2>2, <3>1, <3>2
  <2> QED BY <2>1, <2>2
<1>3. /\ log' \in Seq(EventRecords) /\ Len(log') \in Nat \ {0} /\ Len(log') >= Len(log)
      /\ \A i \in 1..Len(log) : log'[i] = log[i]
      /\ \A i \in 1..Len(log') : i > Len(log) => log'[i].type \notin Final
  <2>1. /\ log' \in Seq(EventRecords) /\ Len(log') = Len(log) + Len(note)
        /\ \A i \in 1..Len(log) + Len(note) :
             log'[i] = IF i <= Len(log) THEN log[i] ELSE note[i - Len(log)]
    BY <1>1, <1>2, ConcatProperties
  <2>2. ASSUME NEW i \in 1..Len(log'), i > Len(log) PROVE log'[i].type \notin Final
    <3>1. Len(note) = 1 /\ i - Len(log) = 1 BY <2>1, <2>2, <1>1, <1>2
    <3>2. log'[i] = note[1] BY <2>1, <2>2, <3>1, <1>1
    <3> QED BY <3>1, <3>2, <1>2
  <2> QED BY <2>1, <2>2, <1>1, <1>2
<1>4. row.registered = 0 => checkpoints = {} BY <1>1
<1>5. \A c \in checkpoints : c \in Checkpoints(Len(log')) /\ row'.registered \in 1..c.covered
  <2>1. \A c \in checkpoints : c \in Checkpoints(Len(log')) BY <1>1, <1>3 DEF Checkpoints
  <2> QED BY <2>1, <1>1, <1>4
<1>6. RowsTyped' BY <1>1, <1>3, <1>5 DEF RowsTyped
<1>7. OutcomesLogged'
  <2>1. \A i \in 1..Len(log') : log'[i].type \in Final => i \in 1..Len(log) /\ log'[i] = log[i]
    BY <1>1, <1>3
  <2> QED BY <2>1 DEF OutcomesLogged
<1>8. Orderly(checkpoints', Len(log'))
  <2>1. \A c \in checkpoints : c.covered \in Nat BY <1>1 DEF Checkpoints
  <2> QED BY <2>1, <1>1, <1>3 DEF Orderly
<1>9. ClosedWhileWriting' BY DEF ClosedWhileWriting, Writing
<1>10. CountIsSettledSteps' BY DEF CountIsSettledSteps
<1>11. RegisteredFirst'
  <2>1. ASSUME NEW i \in 1..Len(log'), log'[i].type \in Ran, log'[i].step \in Affecting
        PROVE  row'.registered \in 1..i
    <3>1. i \in 1..Len(log) /\ log'[i] = log[i] BY <2>1, <1>1, <1>3 DEF Ran, Final
    <3> QED BY <3>1, <2>1 DEF RegisteredFirst
  <2> QED BY <2>1 DEF RegisteredFirst
<1> QED BY <1>6, <1>7, <1>8, <1>9, <1>10, <1>11

(* A denial is an outcome that is not counted. *)
LEMMA DenyKeepsRows ==
  ASSUME RowsInv, NEW s \in Steps, Deny(s)
  PROVE  RowsInv'
<1> USE DEF RowsInv
<1>0. StepsAssumption BY StepsAssumption
<1> DEFINE e == Event("denied", s, 0, {})
<1>1. /\ step[s] = "absent" /\ step' = [step EXCEPT ![s] = "denied"]
      /\ log' = Append(log, e)
      /\ row' = row /\ checkpoints' = checkpoints
  BY DEF Deny
<1>2. /\ log \in Seq(EventRecords) /\ Len(log) \in Nat \ {0}
      /\ step \in [Steps -> Final \cup {"absent", "executing"}]
      /\ \A c \in checkpoints : c \in Checkpoints(Len(log)) /\ row.registered \in 1..c.covered
  BY DEF RowsTyped
<1>3. e \in EventRecords /\ e.type = "denied" /\ e.step = s
  <2>1. "denied" \in EventTypes /\ s \in Steps \cup {NoStep} /\ {} \in Refs
    BY DEF EventTypes, Final, Refs
  <2> QED BY <2>1 DEF Event, EventRecords
<1> HIDE DEF e
<1>4. /\ log' \in Seq(EventRecords) /\ Len(log') = Len(log) + 1
      /\ \A i \in 1..Len(log) : log'[i] = log[i]
      /\ log'[Len(log) + 1] = e
  BY <1>1, <1>2, <1>3, AppendProperties
<1>5. /\ step' \in [Steps -> Final \cup {"absent", "executing"}]
      /\ \A t \in Steps : step'[t] = IF t = s THEN "denied" ELSE step[t]
  BY <1>1, <1>2 DEF Final
<1>6. \A i \in 1..Len(log') :
        \/ i \in 1..Len(log) /\ log'[i] = log[i]
        \/ i = Len(log) + 1 /\ log'[i] = e
  <2>1. TAKE i \in 1..Len(log')
  <2>2. i \in 1..Len(log) \/ i = Len(log) + 1 BY <1>2, <1>4
  <2> QED BY <2>2, <1>4
<1>7. RowsTyped'
  <2>1. row \in [registered : 0..Len(log), generation : Nat, count : Nat,
              every : Intervals \cup {0}, reuse : BOOLEAN, bound : BOOLEAN, ref : Refs]
    BY DEF RowsTyped
  <2>2. row' \in [registered : 0..Len(log'), generation : Nat, count : Nat,
              every : Intervals \cup {0}, reuse : BOOLEAN, bound : BOOLEAN, ref : Refs]
    BY <2>1, <1>1, <1>2, <1>4
  <2>3. \A c \in checkpoints : c \in Checkpoints(Len(log')) BY <1>2, <1>4 DEF Checkpoints
  <2> QED BY <2>2, <2>3, <1>1, <1>2, <1>4, <1>5 DEF RowsTyped
<1>8. OutcomesLogged'
  <2>1. SUFFICES ASSUME NEW i \in 1..Len(log'), log'[i].type \in Final
                 PROVE  log'[i].step \in Steps /\ step'[log'[i].step] = log'[i].type
    BY DEF OutcomesLogged
  <2>2. CASE i \in 1..Len(log) /\ log'[i] = log[i]
    <3>1. log[i].step \in Steps /\ step[log[i].step] = log[i].type
      BY <2>1, <2>2 DEF OutcomesLogged
    <3>2. log[i].step # s BY <2>1, <2>2, <3>1, <1>1 DEF Final
    <3> QED BY <2>2, <3>1, <3>2, <1>5
  <2>3. CASE log'[i] = e BY <2>3, <1>3, <1>5
  <2> QED BY <2>2, <2>3, <1>6
<1>9. Orderly(checkpoints', Len(log'))
  <2>1. \A c \in checkpoints : c.covered \in Nat BY <1>2 DEF Checkpoints
  <2> QED BY <2>1, <1>1, <1>2, <1>4 DEF Orderly
<1>10. ClosedWhileWriting' BY <1>1, <1>5 DEF ClosedWhileWriting, Writing, Steps
<1>11. CountIsSettledSteps'
  <2>1. step[s] \notin Ran /\ "denied" \notin Ran BY <1>1 DEF Ran
  <2>2. Cardinality({t \in Affecting : step'[t] \in Ran}) =
          Cardinality({t \in Affecting : step[t] \in Ran})
    BY <2>1, <1>0, <1>1, <1>2, OneMoreSettled
  <2> QED BY <2>2, <1>1 DEF CountIsSettledSteps, Ran
<1>12. RegisteredFirst'
  <2>1. ASSUME NEW i \in 1..Len(log'), log'[i].type \in Ran, log'[i].step \in Affecting
        PROVE  row.registered \in 1..i
    <3>1. i \in 1..Len(log) /\ log'[i] = log[i] BY <2>1, <1>3, <1>6 DEF Ran
    <3> QED BY <3>1, <2>1 DEF RegisteredFirst
  <2>2. \A t \in Affecting : step'[t] = "executing" => row.registered > 0
    BY <1>5 DEF RegisteredFirst, Steps
  <2> QED BY <2>1, <2>2, <1>1 DEF RegisteredFirst
<1> QED BY <1>7, <1>8, <1>9, <1>10, <1>11, <1>12

(* A publication adds at most the checkpoint of the latest event. *)
LEMMA PublishKeepsRows ==
  ASSUME RowsInv, sent \in [by : 0..MaxAttempts, generation : Nat, ref : Refs], Publish
  PROVE  RowsInv'
<1> USE DEF RowsInv
<1>1. /\ log \in Seq(EventRecords) /\ Len(log) \in Nat \ {0}
      /\ row \in [registered : 0..Len(log), generation : Nat, count : Nat,
                  every : Intervals \cup {0}, reuse : BOOLEAN, bound : BOOLEAN, ref : Refs]
  BY DEF RowsTyped
<1>2. RecordCaptures({sent}, Len(log), log, step) /\ step' = step /\ row' = row
  BY DEF Publish
<1>3. \A c \in {sent} : c.generation \in Nat /\ c.ref \in Refs OBVIOUS
<1>4. \A c, d \in {sent} : c = d OBVIOUS
<1>5. Writing(step) => \A c \in checkpoints : c.invalidated # 0 BY DEF ClosedWhileWriting
<1>6. Len(log) \in Nat /\ Len(log) >= Len(log) BY <1>1
<1>7. /\ log' \in Seq(EventRecords) /\ Len(log') \in Nat \ {0} /\ Len(log') >= Len(log)
      /\ \A i \in 1..Len(log) : log'[i] = log[i]
      /\ \A i \in 1..Len(log') :
           i > Len(log) => log'[i] \in {Note("checkpointed"), Note("checkpoint_failed")}
      /\ \A c \in checkpoints' : c \in Checkpoints(Len(log')) /\ row.registered \in 1..c.covered
      /\ Orderly(checkpoints', Len(log'))
      /\ Writing(step) => \A c \in checkpoints' : c.invalidated # 0
  BY <1>1, <1>2, <1>3, <1>4, <1>5, <1>6, CapturesRecorded
<1>8. \A i \in 1..Len(log') : log'[i].type \in Final => i \in 1..Len(log) /\ log'[i] = log[i]
  BY <1>1, <1>7 DEF Note, Event, Final
<1>9. RowsTyped'
  <2>1. row' \in [registered : 0..Len(log'), generation : Nat, count : Nat,
              every : Intervals \cup {0}, reuse : BOOLEAN, bound : BOOLEAN, ref : Refs]
    BY <1>1, <1>2, <1>7
  <2> QED BY <2>1, <1>2, <1>7 DEF RowsTyped
<1>10. OutcomesLogged' BY <1>2, <1>8 DEF OutcomesLogged
<1>11. ClosedWhileWriting' BY <1>2, <1>7 DEF ClosedWhileWriting, Writing
<1>12. CountIsSettledSteps' BY <1>2 DEF CountIsSettledSteps
<1>13. RegisteredFirst'
  <2>1. \A i \in 1..Len(log') : log'[i].type \in Ran => i \in 1..Len(log) /\ log'[i] = log[i]
    BY <1>8 DEF Ran, Final
  <2> QED BY <2>1, <1>2 DEF RegisteredFirst
<1> QED BY <1>7, <1>9, <1>10, <1>11, <1>12, <1>13

(* One checkpoint per boundary: there are finitely many. *)
LEMMA FinitelyMany ==
  ASSUME NEW n \in Nat, NEW cs, \A c \in cs : c.covered \in 1..n,
         \A c, d \in cs : c.covered = d.covered => c = d
  PROVE  IsFiniteSet(cs) /\ Cardinality(cs) \in Nat
<1> DEFINE f == [c \in cs |-> c.covered]
<1>1. f \in Injection(cs, 1..n) BY DEF Injection, IsInjective
<1>2. IsFiniteSet(1..n) BY FS_Interval
<1>3. IsFiniteSet(cs)
  <2> HIDE DEF f
  <2> QED BY <1>1, <1>2, FS_Injection
<1> QED BY <1>3, FS_CardinalityType

(* The newest checkpoint of a selection exists. *)
LEMMA NewestIsOne ==
  ASSUME RowsTyped, NEW cs \in SUBSET checkpoints, cs # {}
  PROVE  Newest(cs) \in cs /\ \A d \in cs : d.covered <= Newest(cs).covered
<1>1. Len(log) \in Nat /\ \A c \in cs : c.covered \in 1..Len(log)
  BY DEF RowsTyped, Checkpoints
<1> DEFINE K == {c.covered : c \in cs}
<1>2. \E m \in K : \A j \in K : j <= m
  <2>1. K # {} OBVIOUS
  <2>2. K \in SUBSET (0..Len(log)) BY <1>1
  <2> HIDE DEF K
  <2> QED BY <1>1, <2>1, <2>2, Largest
<1>3. \E c \in cs : \A d \in cs : d.covered <= c.covered BY <1>2
<1> QED BY <1>3 DEF Newest

(* What is selected is a reference. *)
LEMMA SelectTyped ==
  ASSUME RowsTyped, NEW seq
  PROVE  Select(seq).ref \in Refs /\ Select(seq).covered \in BOOLEAN
<1> DEFINE earlier == {c \in checkpoints : c.covered <= seq}
           covering == {c \in checkpoints : Covers(c, seq)}
<1>1. \A c \in checkpoints : c.ref \in Refs BY DEF RowsTyped, Checkpoints
<1>2. earlier \in SUBSET checkpoints /\ covering \in SUBSET checkpoints OBVIOUS
<1>3. covering # {} => Newest(covering) \in checkpoints
  <2> HIDE DEF covering
  <2> QED BY <1>2, NewestIsOne
<1>4. earlier # {} => Newest(earlier) \in checkpoints
  <2> HIDE DEF earlier
  <2> QED BY <1>2, NewestIsOne
<1>5. {} \in Refs BY DEF Refs
<1>6. CASE covering # {}
  <2>1. Select(seq) = [ref |-> Newest(covering).ref, covered |-> TRUE]
    BY <1>6 DEF Select, SelectFrom
  <2> HIDE DEF covering
  <2> QED BY <2>1, <1>1, <1>3, <1>6
<1>7. CASE covering = {} /\ earlier # {}
  <2>1. Select(seq) = [ref |-> Newest(earlier).ref, covered |-> FALSE]
    BY <1>7 DEF Select, SelectFrom
  <2> HIDE DEF earlier, covering
  <2> QED BY <2>1, <1>1, <1>4, <1>7
<1>8. CASE covering = {} /\ earlier = {}
  <2>1. Select(seq) = [ref |-> {}, covered |-> FALSE]
    BY <1>8 DEF Select, SelectFrom
  <2> QED BY <2>1, <1>5
<1> QED BY <1>6, <1>7, <1>8

(* The checkpoints of a fork: in the numbering of its log, in order. *)
LEMMA CopiedCheckpointsOrdered ==
  ASSUME RowsTyped, Orderly(checkpoints, Len(log)), NEW at \in 1..Len(log),
         row.registered \in 1..at
  PROVE  /\ \A c \in CopiedCheckpoints(at) :
              /\ c \in Checkpoints(MapSeq(at, at))
              /\ MapSeq(row.registered, at) \in 1..c.covered
         /\ \A c, d \in CopiedCheckpoints(at) : c.covered = d.covered => c = d
         /\ \A c, d \in CopiedCheckpoints(at) :
              c.covered <= d.covered /\ d.invalidated # 0 =>
                c.invalidated # 0 /\ c.invalidated <= d.invalidated
<1>1. /\ Len(log) \in Nat /\ at \in Nat
      /\ \A c \in checkpoints : c \in Checkpoints(Len(log)) /\ row.registered \in 1..c.covered
  BY DEF RowsTyped
<1>2. /\ \A s \in Int : MapSeq(s, at) \in Nat \ {0}
      /\ \A s, t \in Int : s <= t => MapSeq(s, at) <= MapSeq(t, at)
  BY <1>1, MapSeqGrows
<1> DEFINE Kept == {d \in PrefixCheckpoints(at) :
                      \A e \in PrefixCheckpoints(at) :
                        MapSeq(e.covered, at) = MapSeq(d.covered, at) => e.covered <= d.covered}
<1>3. CopiedCheckpoints(at) = {MapCheckpoint(c, at) : c \in Kept} BY DEF CopiedCheckpoints
<1>4. ASSUME NEW c \in Kept
      PROVE  /\ c \in checkpoints /\ c.covered \in 1..at /\ c.invalidated \in 0..Len(log)
             /\ c.covered \in Int /\ c.invalidated \in Int /\ c.covered <= at
             /\ c.generation \in Nat /\ c.ref \in Refs
             /\ row.registered \in 1..c.covered
             /\ MapCheckpoint(c, at) =
                  [covered |-> MapCheckpoint(c, at).covered, generation |-> c.generation,
                   ref |-> c.ref, invalidated |-> MapCheckpoint(c, at).invalidated]
             /\ MapCheckpoint(c, at).covered = MapSeq(c.covered, at)
             /\ c.invalidated = 0 \/ c.invalidated > at => MapCheckpoint(c, at).invalidated = 0
             /\ c.invalidated # 0 /\ c.invalidated <= at =>
                  MapCheckpoint(c, at).invalidated = MapSeq(c.invalidated, at)
  <2>1. c \in checkpoints /\ c.covered <= at BY DEF PrefixCheckpoints
  <2>2. /\ c \in [covered : 1..Len(log), generation : Nat, ref : Refs, invalidated : 0..Len(log)]
        /\ row.registered \in 1..c.covered
    BY <2>1, <1>1 DEF Checkpoints
  <2> HIDE DEF Kept
  <2>3. c.covered \in 1..at /\ c.covered \in Int /\ c.invalidated \in Int
    BY <2>1, <2>2, <1>1
  <2>4. PICK x : x = MapSeq(c.covered, at) OBVIOUS
  <2>5. PICK y : y = IF c.invalidated = 0 \/ c.invalidated > at THEN 0
                     ELSE MapSeq(c.invalidated, at)
    OBVIOUS
  <2>6. MapCheckpoint(c, at) = [c EXCEPT !.covered = x, !.invalidated = y]
    BY <2>4, <2>5, Zenon DEF MapCheckpoint
  <2>7. /\ MapCheckpoint(c, at) = [covered |-> x, generation |-> c.generation, ref |-> c.ref,
                                   invalidated |-> y]
        /\ MapCheckpoint(c, at).covered = x /\ MapCheckpoint(c, at).invalidated = y
    BY <2>2, <2>6
  <2>8. c.invalidated = 0 \/ c.invalidated > at => y = 0 BY <2>5
  <2>9. c.invalidated # 0 /\ c.invalidated <= at => y = MapSeq(c.invalidated, at)
    BY <2>3, <2>5, <1>1
  <2> QED BY <2>1, <2>2, <2>3, <2>4, <2>7, <2>8, <2>9
<1>5. \A c, d \in Kept : MapSeq(c.covered, at) = MapSeq(d.covered, at) => c = d
  <2>1. SUFFICES ASSUME NEW c \in Kept, NEW d \in Kept,
                        MapSeq(c.covered, at) = MapSeq(d.covered, at)
                 PROVE  c = d
    OBVIOUS
  <2>2. c.covered <= d.covered /\ d.covered <= c.covered BY <2>1
  <2>3. c.covered = d.covered BY <2>2, <1>4
  <2> HIDE DEF Kept
  <2> QED BY <2>3, <1>4 DEF Orderly
<1> HIDE DEF Kept
<1>6. ASSUME NEW c \in Kept
      PROVE  /\ MapCheckpoint(c, at) \in Checkpoints(MapSeq(at, at))
             /\ MapSeq(row.registered, at) \in 1..MapCheckpoint(c, at).covered
  <2>1. MapSeq(c.covered, at) \in 1..MapSeq(at, at) BY <1>1, <1>2, <1>4
  <2>2. MapSeq(row.registered, at) \in 1..MapSeq(c.covered, at) BY <1>1, <1>2, <1>4
  <2>3. MapCheckpoint(c, at).invalidated \in 0..MapSeq(at, at)
    <3>1. CASE c.invalidated = 0 \/ c.invalidated > at BY <3>1, <1>1, <1>2, <1>4
    <3>2. CASE ~(c.invalidated = 0 \/ c.invalidated > at) BY <3>2, <1>1, <1>2, <1>4
    <3> QED BY <3>1, <3>2
  <2> QED BY <2>1, <2>2, <2>3, <1>4 DEF Checkpoints
<1>7. ASSUME NEW c \in Kept, NEW d \in Kept,
             MapCheckpoint(c, at).covered <= MapCheckpoint(d, at).covered,
             MapCheckpoint(d, at).invalidated # 0
      PROVE  /\ MapCheckpoint(c, at).invalidated # 0
             /\ MapCheckpoint(c, at).invalidated <= MapCheckpoint(d, at).invalidated
  <2>1. c.covered <= d.covered
    <3>1. SUFFICES ASSUME c.covered > d.covered PROVE FALSE BY <1>4
    <3>2. MapSeq(d.covered, at) <= MapSeq(c.covered, at) BY <3>1, <1>2, <1>4
    <3>3. MapSeq(d.covered, at) = MapSeq(c.covered, at)
      BY <3>2, <1>2, <1>4, <1>7
    <3> QED BY <3>1, <3>3, <1>4, <1>5
  <2>2. d.invalidated # 0 /\ d.invalidated <= at BY <1>4, <1>7
  <2>3. c.invalidated # 0 /\ c.invalidated <= d.invalidated
    BY <2>1, <2>2, <1>4 DEF Orderly
  <2>4. MapCheckpoint(c, at).invalidated = MapSeq(c.invalidated, at)
        /\ MapCheckpoint(d, at).invalidated = MapSeq(d.invalidated, at)
    BY <2>2, <2>3, <1>1, <1>4
  <2>5. MapSeq(c.invalidated, at) <= MapSeq(d.invalidated, at)
        /\ MapSeq(c.invalidated, at) \in Nat \ {0}
    BY <2>3, <1>2, <1>4
  <2> QED BY <2>4, <2>5
<1>8. \A c, d \in Kept : MapCheckpoint(c, at).covered = MapCheckpoint(d, at).covered => c = d
  BY <1>4, <1>5
<1> QED BY <1>3, <1>6, <1>7, <1>8

(* The log of a fork: what it copies, the restoration, and one event for   *)
(* each copied checkpoint.                                                 *)
ForkLog(at, mark, k) == (Opening(at) \o <<mark>>) \o [i \in 1..k |-> Note("checkpointed")]

(* The parts of a fork's log: what it copies, the restoration, the notes. *)
LEMMA LogOfFork ==
  ASSUME log \in Seq(EventRecords), NEW at \in 1..Len(log),
         NEW mark \in EventRecords, NEW k \in Nat
  PROVE  /\ ForkLog(at, mark, k) \in Seq(EventRecords)
         /\ Len(ForkLog(at, mark, k)) = MapSeq(at, at) + 1 + k
         /\ MapSeq(at, at) \in Nat \ {0}
         /\ \A i \in 1..MapSeq(at, at) : ForkLog(at, mark, k)[i] = Opening(at)[i]
         /\ ForkLog(at, mark, k)[MapSeq(at, at) + 1] = mark
         /\ \A i \in MapSeq(at, at) + 2 .. MapSeq(at, at) + 1 + k :
              ForkLog(at, mark, k)[i] = Note("checkpointed")
<1> DEFINE m == MapSeq(at, at)
           notes == [i \in 1..k |-> Note("checkpointed")]
           single == <<mark>>
           marked == Opening(at) \o single
<1>1. Opening(at) \in Seq(EventRecords) /\ Len(Opening(at)) = m BY OpeningOfFork
<1>2. m \in Nat \ {0} /\ at \in Nat
  <2>1. at \in Nat /\ at \in Int BY LenProperties
  <2> QED BY <2>1, MapSeqGrows
<1>3. /\ notes \in Seq(EventRecords) /\ Len(notes) = k
      /\ \A i \in 1..k : notes[i] = Note("checkpointed")
  <2>1. Note("checkpointed") \in EventRecords BY NoteTyped DEF EventTypes, Final
  <2>2. notes \in [1..k -> EventRecords] BY <2>1
  <2>3. notes \in Seq(EventRecords) BY <2>2, SeqDef
  <2>4. DOMAIN notes = 1..k OBVIOUS
  <2> HIDE DEF notes
  <2>5. Len(notes) = k
    <3>1. DOMAIN notes = 1..Len(notes) /\ Len(notes) \in Nat BY <2>3, LenProperties
    <3> QED BY <2>4, <3>1
  <2> QED BY <2>3, <2>5 DEF notes
<1>4. single \in Seq(EventRecords) /\ Len(single) = 1 /\ single[1] = mark OBVIOUS
<1> HIDE DEF notes, m, single
<1>5. /\ marked \in Seq(EventRecords) /\ Len(marked) = m + 1
      /\ \A i \in 1..m + 1 : marked[i] = IF i <= m THEN Opening(at)[i] ELSE single[i - m]
  <2>1. /\ marked \in Seq(EventRecords) /\ Len(marked) = Len(Opening(at)) + Len(single)
        /\ \A i \in 1..Len(Opening(at)) + Len(single) :
             marked[i] = IF i <= Len(Opening(at)) THEN Opening(at)[i]
                         ELSE single[i - Len(Opening(at))]
    BY <1>1, <1>4, ConcatProperties
  <2> QED BY <2>1, <1>1, <1>4
<1>6. ForkLog(at, mark, k) = marked \o notes BY DEF ForkLog, notes, single
<1> HIDE DEF marked
<1>7. /\ marked \o notes \in Seq(EventRecords) /\ Len(marked \o notes) = m + 1 + k
      /\ \A i \in 1..m + 1 + k :
           (marked \o notes)[i] = IF i <= m + 1 THEN marked[i] ELSE notes[i - (m + 1)]
  <2>1. /\ marked \o notes \in Seq(EventRecords)
        /\ Len(marked \o notes) = Len(marked) + Len(notes)
        /\ \A i \in 1..Len(marked) + Len(notes) :
             (marked \o notes)[i] = IF i <= Len(marked) THEN marked[i]
                                    ELSE notes[i - Len(marked)]
    BY <1>3, <1>5, ConcatProperties
  <2> QED BY <2>1, <1>3, <1>5
<1>8. \A i \in 1..m : ForkLog(at, mark, k)[i] = Opening(at)[i]
  BY <1>2, <1>5, <1>6, <1>7
<1>9. ForkLog(at, mark, k)[m + 1] = mark
  <2>1. m + 1 \in 1..m + 1 /\ (m + 1) - m = 1 /\ ~(m + 1 <= m) BY <1>2
  <2>2. m + 1 \in 1..m + 1 + k BY <1>2
  <2>3. (marked \o notes)[m + 1] = marked[m + 1] BY <2>1, <2>2, <1>7
  <2>4. marked[m + 1] = single[1] BY <2>1, <1>5
  <2> QED BY <2>3, <2>4, <1>4, <1>6
<1>10. \A i \in m + 2 .. m + 1 + k : ForkLog(at, mark, k)[i] = Note("checkpointed")
  <2>1. TAKE i \in m + 2 .. m + 1 + k
  <2>2. i \in 1..m + 1 + k /\ ~(i <= m + 1) /\ i - (m + 1) \in 1..k BY <1>2
  <2> QED BY <2>2, <1>3, <1>6, <1>7
<1> QED BY <1>2, <1>6, <1>7, <1>8, <1>9, <1>10 DEF m

(* Forking at an event keeps the invariant: what is copied is in order, and *)
(* the steps with an outcome by then are those of the copied log.           *)
LEMMA ForkKeepsRows ==
  ASSUME RowsInv, NEW at \in 1..Len(log), Fork(at)
  PROVE  RowsInv'
<1>0. StepsAssumption BY StepsAssumption
<1> DEFINE m == MapSeq(at, at)
<1>20. \A mk \in EventRecords, kk \in Nat :
         /\ ForkLog(at, mk, kk) \in Seq(EventRecords)
         /\ Len(ForkLog(at, mk, kk)) = m + 1 + kk
         /\ \A i \in 1..m : ForkLog(at, mk, kk)[i] = Opening(at)[i]
         /\ ForkLog(at, mk, kk)[m + 1] = mk
         /\ \A i \in m + 2 .. m + 1 + kk : ForkLog(at, mk, kk)[i] = Note("checkpointed")
  <2>1. log \in Seq(EventRecords) BY DEF RowsInv, RowsTyped
  <2>2. TAKE mk \in EventRecords, kk \in Nat
  <2>3. ForkLog(at, mk, kk) \in Seq(EventRecords) BY <2>1, LogOfFork
  <2>4. Len(ForkLog(at, mk, kk)) = m + 1 + kk BY <2>1, LogOfFork
  <2>5. \A i \in 1..m : ForkLog(at, mk, kk)[i] = Opening(at)[i] BY <2>1, LogOfFork
  <2>6. ForkLog(at, mk, kk)[m + 1] = mk BY <2>1, LogOfFork
  <2>7. \A i \in m + 2 .. m + 1 + kk : ForkLog(at, mk, kk)[i] = Note("checkpointed")
    BY <2>1, LogOfFork
  <2> QED BY <2>3, <2>4, <2>5, <2>6, <2>7
<1> USE DEF RowsInv
<1> DEFINE copied == OutcomesIn(at)
<1>1. /\ log \in Seq(EventRecords) /\ Len(log) \in Nat \ {0} /\ at \in Nat
      /\ step \in [Steps -> Final \cup {"absent", "executing"}]
      /\ row \in [registered : 0..Len(log), generation : Nat, count : Nat,
                  every : Intervals \cup {0}, reuse : BOOLEAN, bound : BOOLEAN, ref : Refs]
  BY DEF RowsTyped
<1>2. /\ \A s \in Int : MapSeq(s, at) \in Nat \ {0}
      /\ \A s, t \in Int : s <= t => MapSeq(s, at) <= MapSeq(t, at)
  BY <1>1, MapSeqGrows
<1>3. /\ Opening(at) \in Seq(EventRecords) /\ Len(Opening(at)) = m
      /\ Opening(at)[1] = Note("opened")
      /\ \A k \in 2..m : \E i \in 1..at : /\ IsCopied(i, at) /\ MapSeq(i, at) = k
                                          /\ Opening(at)[k] = log[i]
  BY <1>1, OpeningOfFork
<1>4. m \in Nat \ {0} BY <1>1, <1>2
<1>5. \A s \in copied : s \in Steps /\ step[s] \in Final
  BY <1>1 DEF OutcomesIn, OutcomesLogged
<1>6. step' = [s \in Steps |-> IF s \in copied THEN step[s] ELSE "absent"]
  BY DEF Fork, NewExecution
<1>7. /\ step' \in [Steps -> Final \cup {"absent", "executing"}]
      /\ \A s \in Steps : step'[s] = IF s \in copied THEN step[s] ELSE "absent"
      /\ \A s \in Steps : step'[s] # "executing"
  BY <1>5, <1>6 DEF Final
<1>8. ~Writing(step') BY <1>7 DEF Writing, Steps
<1>9. \A k \in 1..m : Opening(at)[k].type \in Final =>
        \E i \in 1..at : /\ MapSeq(i, at) = k /\ Opening(at)[k] = log[i]
                         /\ log[i].step \in copied
  <2>1. SUFFICES ASSUME NEW k \in 1..m, Opening(at)[k].type \in Final
                 PROVE  \E i \in 1..at : /\ MapSeq(i, at) = k /\ Opening(at)[k] = log[i]
                                         /\ log[i].step \in copied
    OBVIOUS
  <2>2. k # 1 BY <2>1, <1>3 DEF Note, Event, Final
  <2>3. k \in 2..m BY <2>2, <1>4
  <2>4. PICK i \in 1..at : MapSeq(i, at) = k /\ Opening(at)[k] = log[i] BY <2>3, <1>3
  <2>5. log[i].step \in copied BY <2>1, <2>4 DEF OutcomesIn
  <2> QED BY <2>4, <2>5
<1>10. \A k \in 1..m : Opening(at)[k].type \in Final =>
         /\ Opening(at)[k].step \in Steps
         /\ step'[Opening(at)[k].step] = Opening(at)[k].type
  <2>1. SUFFICES ASSUME NEW k \in 1..m, Opening(at)[k].type \in Final
                 PROVE  /\ Opening(at)[k].step \in Steps
                        /\ step'[Opening(at)[k].step] = Opening(at)[k].type
    OBVIOUS
  <2>2. PICK i \in 1..at : Opening(at)[k] = log[i] /\ log[i].step \in copied BY <2>1, <1>9
  <2>3. i \in 1..Len(log) BY <1>1
  <2>4. log[i].step \in Steps /\ step[log[i].step] = log[i].type
    BY <2>1, <2>2, <2>3 DEF OutcomesLogged
  <2> QED BY <2>2, <2>4, <1>7
<1> DEFINE settled == {s \in Affecting : step'[s] \in Ran}
<1>11. \A s \in Affecting : step'[s] \in Ran <=> s \in copied /\ step[s] # "denied"
  BY <1>5, <1>7 DEF Ran, Final, Steps
<1>12. ASSUME row.registered \in 1..at, row' = CopiedRow(at, copied),
              checkpoints' = CopiedCheckpoints(at),
              log' = (Opening(at) \o <<Event("initialized", NoStep, row'.generation, row'.ref)>>)
                     \o [i \in 1..Cardinality(checkpoints') |-> Note("checkpointed")]
       PROVE  RowsInv'
  <2>1. /\ \A c \in checkpoints' : c \in Checkpoints(m) /\ MapSeq(row.registered, at) \in 1..c.covered
        /\ \A c, d \in checkpoints' : c.covered = d.covered => c = d
        /\ \A c, d \in checkpoints' :
             c.covered <= d.covered /\ d.invalidated # 0 =>
               c.invalidated # 0 /\ c.invalidated <= d.invalidated
    BY <1>12, CopiedCheckpointsOrdered
  <2>2. PICK k : k = Cardinality(checkpoints') OBVIOUS
  <2>3. k \in Nat
    <3>1. \A c \in checkpoints' : c.covered \in 1..m BY <2>1 DEF Checkpoints
    <3> QED BY <3>1, <2>1, <2>2, <1>4, FinitelyMany
  <2>4. PICK ref : ref = Select(at).ref OBVIOUS
  <2>5. PICK g : g = GenerationAt(at) + (IF Select(at).covered THEN 0 ELSE 1) OBVIOUS
  <2>6. PICK count : count = Cardinality({s \in copied \cap Affecting : step[s] # "denied"})
    OBVIOUS
  <2>7. PICK reg : reg = MapSeq(row.registered, at) OBVIOUS
  <2>8. row' = [row EXCEPT !.registered = reg, !.generation = g, !.count = count,
                           !.bound = FALSE, !.ref = ref]
    BY <1>12, <2>4, <2>5, <2>6, <2>7, Zenon DEF CopiedRow
  <2>9. ref \in Refs BY <2>4, SelectTyped
  <2>10. g \in Nat
    <3>1. GenerationAt(at) \in Nat BY <1>1, GenerationTyped
    <3> QED BY <3>1, <2>5
  <2>11. count \in Nat /\ count = Cardinality(settled)
    <3>1. {s \in copied \cap Affecting : step[s] # "denied"} = settled BY <1>11
    <3>2. IsFiniteSet(settled)
      <4>1. settled \in SUBSET Affecting OBVIOUS
      <4> HIDE DEF settled
      <4> QED BY <4>1, <1>0, FS_Subset DEF StepsAssumption
    <3> HIDE DEF settled
    <3> QED BY <3>1, <3>2, <2>6, FS_CardinalityType
  <2>12. reg \in 1..m
    <3>1. row.registered \in Int /\ row.registered <= at BY <1>1, <1>12
    <3> QED BY <3>1, <2>7, <1>1, <1>2
  <2> DEFINE mark == Event("initialized", NoStep, g, ref)
  <2>13. row'.registered = reg /\ row'.generation = g /\ row'.count = count /\ row'.ref = ref
         /\ row' \in [registered : 0..m, generation : Nat, count : Nat,
                 every : Intervals \cup {0}, reuse : BOOLEAN, bound : BOOLEAN, ref : Refs]
    <3>1. reg \in 0..m /\ g \in Nat /\ count \in Nat /\ ref \in Refs
      BY <2>9, <2>10, <2>11, <2>12, <1>4
    <3>2. row \in [registered : 0..Len(log), generation : Nat, count : Nat,
                   every : Intervals \cup {0}, reuse : BOOLEAN, bound : BOOLEAN, ref : Refs]
      BY <1>1
    <3> HIDE DEF m
    <3> QED BY <2>8, <3>1, <3>2
  <2>14. mark \in EventRecords /\ mark.type = "initialized"
    <3>1. "initialized" \in EventTypes BY DEF EventTypes
    <3> QED BY <3>1, <2>9, <2>10, NoteTyped DEF Event
  <2> HIDE DEF mark
  <2>15. log' = ForkLog(at, mark, k)
    <3>1. Event("initialized", NoStep, row'.generation, row'.ref) = mark BY <2>13 DEF mark
    <3> QED BY <3>1, <1>12, <2>2 DEF ForkLog
  <2>16. /\ log' \in Seq(EventRecords) /\ Len(log') = m + 1 + k
         /\ \A i \in 1..m : log'[i] = Opening(at)[i]
         /\ log'[m + 1] = mark
         /\ \A i \in m + 2 .. m + 1 + k : log'[i] = Note("checkpointed")
    <3>1. /\ ForkLog(at, mark, k) \in Seq(EventRecords)
          /\ Len(ForkLog(at, mark, k)) = m + 1 + k
          /\ \A i \in 1..m : ForkLog(at, mark, k)[i] = Opening(at)[i]
          /\ ForkLog(at, mark, k)[m + 1] = mark
          /\ \A i \in m + 2 .. m + 1 + k : ForkLog(at, mark, k)[i] = Note("checkpointed")
      <4> HIDE DEF m
      <4> QED BY <1>20, <2>3, <2>14
    <3> HIDE DEF m
    <3> QED BY <2>15, <3>1
  <2>17. \A i \in 1..Len(log') :
           log'[i].type \in Final => i \in 1..m /\ log'[i] = Opening(at)[i]
    <3>1. TAKE i \in 1..Len(log')
    <3>2. CASE i \in 1..m BY <3>2, <2>16
    <3>3. CASE i = m + 1 BY <3>3, <2>14, <2>16 DEF Final
    <3>4. CASE i \in m + 2 .. m + 1 + k BY <3>4, <2>16 DEF Note, Event, Final
    <3> QED BY <3>2, <3>3, <3>4, <2>3, <2>16, <1>4
  <2>18. RowsTyped'
    <3>1. row' \in [registered : 0..Len(log'), generation : Nat, count : Nat,
              every : Intervals \cup {0}, reuse : BOOLEAN, bound : BOOLEAN, ref : Refs]
      BY <2>3, <2>13, <2>16, <1>4
    <3>2. \A c \in checkpoints' : c \in Checkpoints(Len(log'))
      BY <2>1, <2>3, <2>16, <1>4 DEF Checkpoints
    <3>3. Len(log') \in Nat \ {0} BY <2>3, <2>16, <1>4
    <3> QED BY <3>1, <3>2, <3>3, <2>1, <2>7, <2>13, <2>16, <1>7 DEF RowsTyped
  <2>19. OutcomesLogged' BY <2>17, <1>10 DEF OutcomesLogged
  <2>20. Orderly(checkpoints', Len(log'))
    <3>1. \A c \in checkpoints' : c.covered \in 1..m BY <2>1 DEF Checkpoints
    <3>2. \A c \in checkpoints' : c.covered < Len(log') BY <3>1, <2>3, <2>16, <1>4
    <3> QED BY <3>2, <2>1 DEF Orderly
  <2>21. ClosedWhileWriting' BY <1>8 DEF ClosedWhileWriting, Writing
  <2>22. CountIsSettledSteps' BY <2>11, <2>13 DEF CountIsSettledSteps, Ran
  <2>23. RegisteredFirst'
    <3>1. ASSUME NEW k1 \in 1..Len(log'), log'[k1].type \in Ran, log'[k1].step \in Affecting
          PROVE  row'.registered \in 1..k1
      <4>1. k1 \in 1..m /\ log'[k1] = Opening(at)[k1] BY <3>1, <2>17 DEF Ran, Final
      <4>2. PICK i \in 1..at : MapSeq(i, at) = k1 /\ Opening(at)[k1] = log[i]
        BY <4>1, <3>1, <1>9 DEF Ran, Final
      <4>3. row.registered \in 1..i BY <3>1, <4>1, <4>2, <1>1 DEF RegisteredFirst
      <4>4. reg <= MapSeq(i, at) BY <4>3, <2>7, <1>1, <1>2
      <4> QED BY <4>2, <4>4, <2>12, <2>13
    <3>2. row'.registered # 0 BY <2>12, <2>13
    <3> QED BY <3>1, <3>2, <1>7 DEF RegisteredFirst, Steps
  <2> QED BY <2>18, <2>19, <2>20, <2>21, <2>22, <2>23
<1>13. ASSUME row.registered \notin 1..at, row' = NoRow, checkpoints' = {}, log' = Opening(at)
       PROVE  RowsInv'
  <2>1. row'.registered = 0 /\ row'.count = 0 BY <1>13 DEF NoRow
  <2>2. \A k \in 1..Len(log') :
          ~(log'[k].type \in Ran /\ log'[k].step \in Affecting)
    <3>1. SUFFICES ASSUME NEW k \in 1..Len(log'), log'[k].type \in Ran, log'[k].step \in Affecting
                   PROVE  FALSE
      OBVIOUS
    <3>2. PICK i \in 1..at : Opening(at)[k] = log[i]
      BY <3>1, <1>3, <1>9, <1>13 DEF Ran, Final
    <3>3. i \in 1..Len(log) /\ row.registered \in 1..i
      BY <3>1, <3>2, <1>1, <1>13 DEF RegisteredFirst
    <3> QED BY <3>3, <1>1, <1>13
  <2>3. settled = {}
    <3>1. SUFFICES ASSUME NEW s \in Affecting, step'[s] \in Ran PROVE FALSE OBVIOUS
    <3>2. s \in copied /\ step[s] \in Ran BY <3>1, <1>7 DEF Ran, Steps
    <3>3. PICK i \in 1..at : log[i].type \in Final /\ log[i].step = s
      BY <3>2 DEF OutcomesIn
    <3>4. i \in 1..Len(log) BY <1>1
    <3>5. log[i].type \in Ran /\ log[i].step \in Affecting
      BY <3>1, <3>2, <3>3, <3>4 DEF OutcomesLogged
    <3>6. row.registered \in 1..i BY <3>4, <3>5 DEF RegisteredFirst
    <3> QED BY <3>6, <1>1, <1>13
  <2>4. CountIsSettledSteps'
    <3>1. Cardinality({s \in Affecting : step'[s] \in {"succeeded", "failed"}}) = 0
      BY <2>3, FS_EmptySet DEF Ran
    <3> QED BY <3>1, <2>1 DEF CountIsSettledSteps
  <2>5. RowsTyped'
    <3>1. row' \in [registered : 0..Len(log'), generation : Nat, count : Nat,
              every : Intervals \cup {0}, reuse : BOOLEAN, bound : BOOLEAN, ref : Refs]
      BY <1>3, <1>4, <1>13 DEF NoRow, Refs
    <3> QED BY <3>1, <1>3, <1>4, <1>7, <1>13 DEF RowsTyped
  <2>6. OutcomesLogged' BY <1>3, <1>10, <1>13 DEF OutcomesLogged
  <2>7. Orderly(checkpoints', Len(log')) /\ ClosedWhileWriting'
    BY <1>13 DEF Orderly, ClosedWhileWriting
  <2>8. RegisteredFirst' BY <2>2, <1>7, <1>13 DEF RegisteredFirst, Steps
  <2> QED BY <2>4, <2>5, <2>6, <2>7, <2>8
<1> HIDE DEF settled
<1> QED
  <2>1. Opening(at) = <<Note("opened")>> \o CopiedEvents(at) BY DEF Opening
  <2>2. \/ /\ row.registered \in 1..at /\ row' = CopiedRow(at, copied)
           /\ checkpoints' = CopiedCheckpoints(at)
           /\ log' = (Opening(at) \o <<Event("initialized", NoStep, row'.generation, row'.ref)>>)
                     \o [i \in 1..Cardinality(checkpoints') |-> Note("checkpointed")]
        \/ row.registered \notin 1..at /\ row' = NoRow /\ checkpoints' = {} /\ log' = Opening(at)
    BY <2>1 DEF Fork
  <2> QED BY <2>2, <1>12, <1>13

(* A turn of the session starts with the registration alone. *)
LEMMA TurnKeepsRows ==
  ASSUME RowsInv, Turn
  PROVE  RowsInv' /\ row'.registered > 0
<1> USE DEF RowsInv
<1> DEFINE bound == IF row.bound THEN <<Note("bound")>> ELSE <<>>
           two == <<Note("opened"), Note("registered")>>
<1>1. /\ row \in [registered : 0..Len(log), generation : Nat, count : Nat,
                  every : Intervals \cup {0}, reuse : BOOLEAN, bound : BOOLEAN, ref : Refs]
      /\ row' = [row EXCEPT !.registered = 2, !.generation = 0, !.count = 0, !.ref = {}]
      /\ step' = [s \in Steps |-> "absent"]
      /\ checkpoints' = {} /\ log' = two \o bound
  BY DEF RowsTyped, Turn, NewExecution
<1>2. \A type \in {"opened", "registered", "bound"} :
        Note(type) \in EventRecords /\ Note(type).type \notin Final
  <2>1. \A type \in {"opened", "registered", "bound"} : Note(type) \in EventRecords
    BY NoteTyped DEF EventTypes
  <2> QED BY <2>1 DEF Note, Event, Final
<1>3. /\ two \in Seq(EventRecords) /\ Len(two) = 2
      /\ two[1].type \notin Final /\ two[2].type \notin Final
  <2>1. Note("opened") \in EventRecords /\ Note("registered") \in EventRecords BY <1>2
  <2> QED BY <2>1, <1>2
<1>4. /\ bound \in Seq(EventRecords) /\ Len(bound) \in {0, 1}
      /\ \A i \in 1..Len(bound) : bound[i].type \notin Final
  <2>1. Note("bound") \in EventRecords /\ Note("bound").type \notin Final BY <1>2
  <2> QED BY <2>1
<1> HIDE DEF bound, two
<1>5. /\ log' \in Seq(EventRecords) /\ Len(log') \in 2..3
      /\ \A i \in 1..Len(log') : log'[i].type \notin Final
  <2>1. /\ two \o bound \in Seq(EventRecords) /\ Len(two \o bound) = Len(two) + Len(bound)
        /\ \A i \in 1..Len(two) + Len(bound) :
             (two \o bound)[i] = IF i <= Len(two) THEN two[i] ELSE bound[i - Len(two)]
    BY <1>3, <1>4, ConcatProperties
  <2>2. ASSUME NEW i \in 1..Len(two) + Len(bound) PROVE (two \o bound)[i].type \notin Final
    <3>1. CASE i = 1 \/ i = 2 BY <3>1, <2>1, <1>3
    <3>2. CASE i > 2
      <4>1. i - 2 \in 1..Len(bound) BY <3>2, <1>3, <1>4
      <4>2. (two \o bound)[i] = bound[i - 2] BY <3>2, <2>1, <1>3
      <4> QED BY <4>1, <4>2, <1>4
    <3> QED BY <3>1, <3>2, <1>3, <1>4
  <2> QED BY <2>1, <2>2, <1>1, <1>3, <1>4
<1>6. /\ row'.registered = 2 /\ row'.count = 0
      /\ row' \in [registered : 0..2, generation : Nat, count : Nat,
                   every : Intervals \cup {0}, reuse : BOOLEAN, bound : BOOLEAN, ref : Refs]
  <2>1. {} \in Refs BY DEF Refs
  <2>2. row \in [registered : 0..Len(log), generation : Nat, count : Nat,
                 every : Intervals \cup {0}, reuse : BOOLEAN, bound : BOOLEAN, ref : Refs]
    BY <1>1
  <2>3. row' = [row EXCEPT !.registered = 2, !.generation = 0, !.count = 0, !.ref = {}]
    BY <1>1
  <2>4. /\ row' = [registered |-> 2, generation |-> 0, count |-> 0, every |-> row.every,
                   reuse |-> row.reuse, bound |-> row.bound, ref |-> {}]
        /\ row.every \in Intervals \cup {0} /\ row.reuse \in BOOLEAN /\ row.bound \in BOOLEAN
    BY <2>2, <2>3
  <2> QED BY <2>1, <2>4
<1>7. step' \in [Steps -> Final \cup {"absent", "executing"}]
      /\ \A s \in Steps : step'[s] = "absent"
  BY <1>1
<1>8. RowsTyped'
  <2>1. row' \in [registered : 0..Len(log'), generation : Nat, count : Nat,
              every : Intervals \cup {0}, reuse : BOOLEAN, bound : BOOLEAN, ref : Refs]
    BY <1>5, <1>6
  <2> QED BY <2>1, <1>1, <1>5, <1>7 DEF RowsTyped
<1>9. CountIsSettledSteps'
  <2>1. {s \in Affecting : step'[s] \in {"succeeded", "failed"}} = {} BY <1>7 DEF Steps
  <2> QED BY <2>1, <1>6, FS_EmptySet DEF CountIsSettledSteps
<1>10. OutcomesLogged' BY <1>5 DEF OutcomesLogged
<1>11. Orderly(checkpoints', Len(log')) /\ ClosedWhileWriting'
  BY <1>1 DEF Orderly, ClosedWhileWriting
<1>12. RegisteredFirst' BY <1>5, <1>6, <1>7 DEF RegisteredFirst, Ran, Final, Steps
<1> QED BY <1>6, <1>8, <1>9, <1>10, <1>11, <1>12

-----------------------------------------------------------------------------
(* The invariant                                                           *)

(* The first execution has one event and nothing of the resource. *)
LEMMA InitSatisfies == Init => CountInv
<1> SUFFICES ASSUME Init PROVE CountInv OBVIOUS
<1> USE DEF Init
<1>1. Note("opened") \in EventRecords /\ Note("opened").type = "opened"
  BY NoteTyped DEF EventTypes, Note, Event
<1>2. log \in Seq(EventRecords) /\ Len(log) = 1 /\ log[1].type = "opened" BY <1>1
<1>3. RowsTyped BY <1>2 DEF RowsTyped, NoRow, Refs
<1>4. OutcomesLogged /\ RegisteredFirst
  BY <1>2 DEF OutcomesLogged, RegisteredFirst, Final, Ran, Steps
<1>5. Orderly(checkpoints, Len(log)) /\ ClosedWhileWriting
  BY DEF Orderly, ClosedWhileWriting
<1>6. CountIsSettledSteps
  <2>1. {s \in Affecting : step[s] \in {"succeeded", "failed"}} = {} BY DEF Steps
  <2> QED BY <2>1, FS_EmptySet DEF CountIsSettledSteps, NoRow
<1>7. AgentsInv
  <2>1. agent \in [Runs -> [at : {"none", "starting", "creating", "idle", "running", "captured"},
                            step : Affecting \cup {NoStep}, generation : Nat,
                            due : BOOLEAN, ref : Refs]]
        /\ \A r \in Runs : agent[r].at \in {"none", "starting"}
    BY DEF Launched, NoAgent, Refs
  <2>2. 1 \in Runs BY BoundsAssumption DEF BoundsAssumption, Runs
  <2>3. MaxAttempts \in Nat /\ MaxForks \in Nat /\ MaxTurns \in Nat
    BY BoundsAssumption DEF BoundsAssumption
  <2>4. AgentsTyped
    <3>1. lease \in heard /\ heard \subseteq 1..lease OBVIOUS
    <3>2. sent \in [by : 0..MaxAttempts, generation : Nat, ref : Refs]
      BY <2>3 DEF NothingSent, Refs
    <3>3. world \in Refs /\ lease \in Runs /\ overtaken \in BOOLEAN BY <2>2 DEF Refs
    <3>4. forks \in 0..MaxForks /\ turns \in 0..MaxTurns BY <2>3
    <3> HIDE DEF Init
    <3> QED BY <2>1, <3>1, <3>2, <3>3, <3>4 DEF AgentsTyped
  <2>5. Scheduled BY <2>1, <2>2 DEF Scheduled, AtWork
  <2> QED BY <2>1, <2>4, <2>5 DEF AgentsInv, AtWork
<1>8. StraysSettled BY DEF StraysSettled
<1> QED BY <1>3, <1>4, <1>5, <1>6, <1>7, <1>8 DEF CountInv, RowsInv

(* The agents part, for the steps that leave it alone or nearly so. *)
LEMMA LaunchedFresh ==
  /\ Launched \in [Runs -> [at : {"none", "starting", "creating", "idle", "running", "captured"},
                            step : Affecting \cup {NoStep}, generation : Nat,
                            due : BOOLEAN, ref : Refs]]
  /\ \A r \in Runs : Launched[r].at \in {"none", "starting"}
BY DEF Launched, NoAgent, Refs

(* A new execution starts with a fresh agent under the first lease. *)
LEMMA NewExecutionKeepsAgents ==
  ASSUME AgentsInv, NEW status, NewExecution(status), world' = {},
         forks' \in 0..MaxForks, turns' \in 0..MaxTurns
  PROVE  AgentsInv'
<1>1. /\ lease' = 1 /\ heard' = {1} /\ agent' = Launched /\ sent' = NothingSent
      /\ overtaken' = FALSE
  BY DEF NewExecution
<1>2. 1 \in Runs /\ MaxAttempts \in Nat
  BY BoundsAssumption DEF BoundsAssumption, Runs
<1>3. AgentsTyped'
  <2>1. lease' \in heard' /\ heard' \subseteq 1..lease' BY <1>1
  <2>2. sent' \in [by : 0..MaxAttempts, generation : Nat, ref : Refs]
    BY <1>1, <1>2 DEF NothingSent, Refs
  <2> QED BY <1>1, <1>2, <2>1, <2>2, LaunchedFresh DEF AgentsTyped, Refs
<1>4. \A r \in Runs : agent'[r].at \in {"none", "starting"} BY <1>1, LaunchedFresh
<1> QED BY <1>1, <1>2, <1>3, <1>4 DEF AgentsInv, Scheduled, AtWork

(* What a step of the agent may do to the row it works on. *)
LEMMA AgentsFollow ==
  ASSUME AgentsInv, RowsTyped, NEW r \in Runs,
         UNCHANGED <<lease, heard, forks, turns>>, world' \in Refs,
         sent' \in [by : 0..MaxAttempts, generation : Nat, ref : Refs],
         row.registered > 0 => row'.registered > 0,
         NEW a \in [at : {"none", "starting", "creating", "idle", "running", "captured"},
                    step : Affecting \cup {NoStep}, generation : Nat, due : BOOLEAN, ref : Refs],
         agent' = [agent EXCEPT ![r] = a],
         a.at \notin {"none", "starting"} => row'.registered > 0,
         a.at \in AtWork => a.step \in Affecting,
         overtaken' \in BOOLEAN,
         lease = r /\ ~overtaken' /\ a.at \in AtWork =>
           (a.due <=> row'.every > 0 /\ (row'.count + 1) % row'.every = 0),
         lease # r => overtaken' \/ (overtaken' = overtaken /\ row' = row)
  PROVE  AgentsInv'
<1>1. /\ agent' \in [Runs -> [at : {"none", "starting", "creating", "idle", "running", "captured"},
                              step : Affecting \cup {NoStep}, generation : Nat,
                              due : BOOLEAN, ref : Refs]]
      /\ \A q \in Runs : agent'[q] = IF q = r THEN a ELSE agent[q]
  BY DEF AgentsInv, AgentsTyped
<1>2. AgentsTyped' BY <1>1 DEF AgentsInv, AgentsTyped
<1>3. \A q \in Runs : /\ agent'[q].at \notin {"none", "starting"} => row'.registered > 0
                      /\ agent'[q].at \in AtWork => agent'[q].step \in Affecting
  BY <1>1 DEF AgentsInv
<1>4. Scheduled'
  <2>1. CASE lease = r
    <3>1. lease' = r /\ agent'[r] = a BY <2>1, <1>1
    <3> QED BY <2>1, <3>1 DEF Scheduled
  <2>2. CASE lease # r
    <3>1. lease' = lease /\ agent'[lease] = agent[lease]
      BY <2>2, <1>1 DEF AgentsInv, AgentsTyped
    <3> QED BY <2>2, <3>1 DEF AgentsInv, Scheduled
  <2> QED BY <2>1, <2>2
<1> QED BY <1>2, <1>3, <1>4 DEF AgentsInv

(* Late outcomes are left as they are, and so are the steps they belong to. *)
LEMMA StraysStay ==
  ASSUME StraysSettled, strays' = strays,
         \A s \in Affecting : step[s] \in Ran => step'[s] = step[s]
  PROVE  StraysSettled'
BY DEF StraysSettled

(* RegisterResource *)
LEMMA RegisterKeeps ==
  ASSUME CountInv, NEW r \in Runs, Register(r)
  PROVE  CountInv'
<1> USE DEF CountInv
<1>1. /\ RowsInv /\ RowsTyped /\ log \in Seq(EventRecords) /\ Len(log) \in Nat \ {0}
      /\ row \in [registered : 0..Len(log), generation : Nat, count : Nat,
                  every : Intervals \cup {0}, reuse : BOOLEAN, bound : BOOLEAN, ref : Refs]
      /\ row.registered = 0 => row = NoRow
  BY DEF RowsInv, RowsTyped, RegisteredFirst
<1>2. /\ lease = r /\ agent[r].at = "starting"
      /\ agent' = [agent EXCEPT ![r].at = IF row'.bound THEN "idle" ELSE "creating",
                                ![r].generation = row'.generation]
      /\ UNCHANGED <<step, checkpoints, world, lease, heard, sent, forks, turns, strays, overtaken>>
  BY DEF Register, Holds, leaseVars, strayVars
<1>3. PICK every \in Intervals, reuse \in BOOLEAN :
        \/ /\ row.registered = 0
           /\ row' = [NoRow EXCEPT !.registered = Len(log) + 1, !.every = every, !.reuse = reuse]
           /\ log' = Append(log, Note("registered"))
        \/ /\ row.registered > 0
           /\ reuse = row.reuse
           /\ row' = [row EXCEPT !.every = IF @ = 0 THEN every ELSE @]
           /\ log' = IF row.every = 0 /\ every > 0 THEN Append(log, Note("registered")) ELSE log
  BY DEF Register
<1> DEFINE noted == <<Note("registered")>>
<1>4. /\ Note("registered") \in EventRecords /\ "registered" \in EventTypes \ Final
      /\ noted \in {<<>>} \cup {<<Note(type)>> : type \in EventTypes \ Final}
  BY NoteTyped DEF EventTypes, Final
<1>5. /\ Append(log, Note("registered")) = log \o noted /\ log = log \o <<>>
      /\ Len(Append(log, Note("registered"))) = Len(log) + 1
  BY <1>1, <1>4, AppendIsConcat, ConcatEmptySeq, AppendProperties
<1> HIDE DEF noted
<1>6. /\ \E note \in {<<>>} \cup {<<Note(type)>> : type \in EventTypes \ Final} : log' = log \o note
      /\ row' \in [registered : 0..Len(log'), generation : Nat, count : Nat,
                   every : Intervals \cup {0}, reuse : BOOLEAN, bound : BOOLEAN, ref : Refs]
      /\ row'.registered = row.registered \/ row.registered = 0
      /\ row'.registered > 0 /\ row'.count = row.count
  <2>1. CASE /\ row.registered = 0
             /\ row' = [NoRow EXCEPT !.registered = Len(log) + 1, !.every = every, !.reuse = reuse]
             /\ log' = Append(log, Note("registered"))
    <3>1. /\ row'.registered = Len(log) + 1 /\ row'.count = 0 /\ row.count = 0
          /\ row' = [registered |-> Len(log) + 1, generation |-> 0, count |-> 0, every |-> every,
                     reuse |-> reuse, bound |-> FALSE, ref |-> {}]
      <4>1. row' = [NoRow EXCEPT !.registered = Len(log) + 1, !.every = every, !.reuse = reuse]
            /\ row = NoRow
        BY <2>1, <1>1
      <4> QED BY <4>1 DEF NoRow
    <3>2. Len(log') = Len(log) + 1 BY <2>1, <1>5
    <3>3. {} \in Refs BY DEF Refs
    <3>4. row' \in [registered : 0..Len(log'), generation : Nat, count : Nat,
                   every : Intervals \cup {0}, reuse : BOOLEAN, bound : BOOLEAN, ref : Refs]
      BY <3>1, <3>2, <3>3, <1>1
    <3>5. row'.registered > 0 BY <3>1, <1>1
    <3>6. log' = log \o noted BY <2>1, <1>5
    <3> QED BY <3>1, <3>4, <3>5, <3>6, <2>1, <1>4
  <2>2. CASE /\ row.registered > 0
             /\ row' = [row EXCEPT !.every = IF @ = 0 THEN every ELSE @]
             /\ log' = IF row.every = 0 /\ every > 0 THEN Append(log, Note("registered")) ELSE log
    <3>1. PICK new : new = IF row.every = 0 THEN every ELSE row.every OBVIOUS
    <3>2. row' = [row EXCEPT !.every = new] BY <2>2, <3>1, Zenon
    <3>3. new \in Intervals \cup {0} BY <3>1, <1>1
    <3>4. Len(log') \in Nat /\ Len(log') >= Len(log) BY <2>2, <1>1, <1>5
    <3>5. row' \in [registered : 0..Len(log'), generation : Nat, count : Nat,
                   every : Intervals \cup {0}, reuse : BOOLEAN, bound : BOOLEAN, ref : Refs]
      BY <3>2, <3>3, <3>4, <1>1
    <3>6. row'.registered = row.registered /\ row'.count = row.count BY <3>2, <1>1
    <3> QED BY <3>5, <3>6, <2>2, <1>4, <1>5
  <2> QED BY <2>1, <2>2, <1>3
<1>7. RowsInv' BY <1>1, <1>2, <1>6, NoteKeepsRows
<1>8. AgentsInv'
  <2>1. PICK where : where = IF row'.bound THEN "idle" ELSE "creating" OBVIOUS
  <2>2. PICK a : a = [agent[r] EXCEPT !.at = where, !.generation = row'.generation] OBVIOUS
  <2>3. agent' = [agent EXCEPT ![r] = a]
    <3>1. agent' = [agent EXCEPT ![r].at = where, ![r].generation = row'.generation]
      BY <1>2, <2>1, Zenon
    <3>2. agent \in [Runs -> [at : {"none", "starting", "creating", "idle", "running", "captured"},
                         step : Affecting \cup {NoStep}, generation : Nat,
                         due : BOOLEAN, ref : Refs]]
      BY DEF AgentsInv, AgentsTyped
    <3> QED BY <3>1, <3>2, <2>2
  <2>4. /\ a \in [at : {"none", "starting", "creating", "idle", "running", "captured"},
                  step : Affecting \cup {NoStep}, generation : Nat, due : BOOLEAN, ref : Refs]
        /\ a.at \notin AtWork
    <3>1. agent[r] \in [at : {"none", "starting", "creating", "idle", "running", "captured"},
                  step : Affecting \cup {NoStep}, generation : Nat, due : BOOLEAN, ref : Refs]
      BY DEF AgentsInv, AgentsTyped
    <3>2. row'.generation \in Nat BY <1>6
    <3> QED BY <2>1, <2>2, <3>1, <3>2 DEF AtWork
  <2>5. world' \in Refs /\ sent' \in [by : 0..MaxAttempts, generation : Nat, ref : Refs]
    BY <1>2 DEF AgentsInv, AgentsTyped
  <2>6. AgentsInv /\ RowsTyped /\ UNCHANGED <<lease, heard, forks, turns>> /\ lease = r
        /\ row'.registered > 0 /\ overtaken' \in BOOLEAN
    BY <1>1, <1>2, <1>6 DEF AgentsInv, AgentsTyped
  <2>7. a.at \in AtWork => /\ a.step \in Affecting
                           /\ a.due <=> row'.every > 0 /\ (row'.count + 1) % row'.every = 0
    BY <2>4
  <2> QED BY <2>3, <2>4, <2>5, <2>6, <2>7, AgentsFollow
<1>9. StraysSettled' BY <1>2, StraysStay
<1> QED BY <1>7, <1>8, <1>9

AgentRecords == [at : {"none", "starting", "creating", "idle", "running", "captured"},
                 step : Affecting \cup {NoStep}, generation : Nat, due : BOOLEAN, ref : Refs]

(* BindResource *)
LEMMA BindKeeps ==
  ASSUME CountInv, NEW r \in Runs, Bind(r)
  PROVE  CountInv'
<1> USE DEF CountInv
<1>1. /\ RowsInv /\ RowsTyped /\ log \in Seq(EventRecords) /\ Len(log) \in Nat \ {0}
      /\ row \in [registered : 0..Len(log), generation : Nat, count : Nat,
                  every : Intervals \cup {0}, reuse : BOOLEAN, bound : BOOLEAN, ref : Refs]
      /\ AgentsInv /\ agent[r] \in AgentRecords
      /\ agent \in [Runs -> AgentRecords]
  BY DEF RowsInv, RowsTyped, AgentsInv, AgentsTyped, AgentRecords
<1>2. /\ lease = r /\ agent[r].at = "creating"
      /\ row' = [row EXCEPT !.bound = TRUE]
      /\ log' = Append(log, Note("bound"))
      /\ world' = row.ref
      /\ agent' = [agent EXCEPT ![r].at = "idle"]
      /\ UNCHANGED <<step, checkpoints, lease, heard, sent, forks, turns, strays, overtaken>>
  BY DEF Bind, Holds, leaseVars, strayVars
<1>3. row.registered > 0 BY <1>2 DEF AgentsInv
<1> DEFINE noted == <<Note("bound")>>
<1>4. /\ Note("bound") \in EventRecords
      /\ noted \in {<<>>} \cup {<<Note(type)>> : type \in EventTypes \ Final}
  <2>1. "bound" \in EventTypes \ Final BY DEF EventTypes, Final
  <2> QED BY <2>1, NoteTyped
<1>5. /\ Append(log, Note("bound")) = log \o noted
      /\ Len(Append(log, Note("bound"))) = Len(log) + 1
  BY <1>1, <1>4, AppendIsConcat, AppendProperties
<1> HIDE DEF noted
<1>6. /\ row' \in [registered : 0..Len(log'), generation : Nat, count : Nat,
                   every : Intervals \cup {0}, reuse : BOOLEAN, bound : BOOLEAN, ref : Refs]
      /\ row'.registered = row.registered /\ row'.count = row.count
  <2>1. Len(log') = Len(log) + 1 BY <1>2, <1>5
  <2>2. row' = [row EXCEPT !.bound = TRUE] BY <1>2
  <2>3. row.registered \in 0..Len(log') BY <2>1, <1>1
  <2> QED BY <2>2, <2>3, <1>1
<1>7. log' = log \o noted /\ UNCHANGED <<step, checkpoints>> BY <1>2, <1>5
<1>8. RowsInv' BY <1>1, <1>3, <1>4, <1>6, <1>7, NoteKeepsRows
<1>9. PICK a : a = [agent[r] EXCEPT !.at = "idle"] OBVIOUS
<1>10. a \in AgentRecords /\ a.at \notin AtWork BY <1>1, <1>9 DEF AgentRecords, AtWork
<1>11. agent' = [agent EXCEPT ![r] = a] BY <1>1, <1>2, <1>9 DEF AgentRecords
<1>12. /\ world' \in Refs /\ sent' \in [by : 0..MaxAttempts, generation : Nat, ref : Refs]
       /\ UNCHANGED <<lease, heard, forks, turns>> /\ row'.registered > 0
       /\ overtaken' \in BOOLEAN
  BY <1>1, <1>2, <1>3, <1>6 DEF AgentsInv, AgentsTyped
<1>13. a.at \in AtWork => /\ a.step \in Affecting
                          /\ a.due <=> row'.every > 0 /\ (row'.count + 1) % row'.every = 0
  BY <1>10
<1>14. AgentsInv'
  <2>1. AgentsInv /\ RowsTyped /\ lease = r BY <1>1, <1>2
  <2> QED BY <2>1, <1>10, <1>11, <1>12, <1>13, AgentsFollow DEF AgentRecords
<1>15. StraysSettled' BY <1>2, StraysStay
<1> QED BY <1>8, <1>14, <1>15

(* SubmitStep, whatever comes of it. *)
LEMMA SubmitKeeps ==
  ASSUME CountInv, NEW r \in Runs, NEW s \in Affecting, Submit(r, s)
  PROVE  CountInv'
<1> USE DEF CountInv
<1>1. /\ RowsInv /\ RowsTyped /\ AgentsInv
      /\ agent \in [Runs -> AgentRecords] /\ s \in Steps
      /\ world \in Refs /\ sent \in [by : 0..MaxAttempts, generation : Nat, ref : Refs]
  BY DEF RowsInv, AgentsInv, AgentsTyped, AgentRecords, Steps
<1>2. /\ lease = r /\ agent[r].at = "idle"
      /\ UNCHANGED <<world, lease, heard, sent, forks, turns, strays>> /\ overtaken' = FALSE
      /\ Proceed(r, s) \/ Deny(s) \/ FailOrphan(s)
  BY DEF Submit, leaseVars
<1>3. row.registered > 0 BY <1>2 DEF AgentsInv
<1>4. ASSUME Proceed(r, s) PROVE CountInv'
  <2>1. /\ step[s] \in {"absent", "executing"} /\ StartStep(s)
        /\ agent' = [agent EXCEPT ![r] = [at |-> "running", step |-> s, due |-> Due(s),
                                          ref |-> {}, generation |-> row'.generation]]
    BY <1>4 DEF Proceed
  <2>2. /\ RowsInv' /\ row'.registered = row.registered
        /\ row'.count = row.count /\ row'.every = row.every /\ row'.generation \in Nat
    BY <1>1, <1>3, <2>1, StartKeepsRows
  <2>3. PICK due \in BOOLEAN : due <=> Due(s) BY DEF Due
  <2>4. PICK a : a = [at |-> "running", step |-> s, due |-> due,
                      ref |-> {}, generation |-> row'.generation]
    OBVIOUS
  <2>5. due = Due(s) BY <2>3 DEF Due
  <2>6. agent' = [agent EXCEPT ![r] = a] BY <2>1, <2>4, <2>5, Zenon
  <2>7. a \in AgentRecords /\ a.step = s /\ a.due = due /\ a.at = "running"
    <3>1. {} \in Refs BY DEF Refs
    <3> QED BY <3>1, <2>2, <2>4 DEF AgentRecords
  <2>8. a.due <=> row'.every > 0 /\ (row'.count + 1) % row'.every = 0
    BY <2>2, <2>3, <2>7 DEF Due
  <2>9. /\ world' \in Refs /\ sent' \in [by : 0..MaxAttempts, generation : Nat, ref : Refs]
        /\ UNCHANGED <<lease, heard, forks, turns>> /\ row'.registered > 0
        /\ overtaken' \in BOOLEAN
    BY <1>1, <1>2, <1>3, <2>2
  <2>10. AgentsInv' BY <1>1, <1>2, <2>6, <2>7, <2>8, <2>9, AgentsFollow DEF AgentRecords
  <2>11. step' = [step EXCEPT ![s] = "executing"] BY <2>1 DEF StartStep
  <2>12. StraysSettled' BY <1>1, <1>2, <2>1, <2>11, StraysStay DEF Ran, RowsTyped
  <2> QED BY <2>2, <2>10, <2>12
<1>5. ASSUME agent' = agent, RowsInv', row'.registered = row.registered,
             step[s] \notin Ran, NEW outcome, step' = [step EXCEPT ![s] = outcome]
      PROVE  CountInv'
  <2>1. Scheduled' BY <1>2, <1>5 DEF Scheduled, AtWork
  <2>2. AgentsTyped' BY <1>2, <1>5 DEF AgentsInv, AgentsTyped
  <2>3. \A q \in Runs : /\ agent'[q].at \notin {"none", "starting"} => row'.registered > 0
                        /\ agent'[q].at \in AtWork => agent'[q].step \in Affecting
    BY <1>5 DEF AgentsInv
  <2>4. StraysSettled' BY <1>1, <1>2, <1>5, StraysStay DEF RowsTyped
  <2> QED BY <2>1, <2>2, <2>3, <2>4, <1>5 DEF AgentsInv
<1>6. ASSUME Deny(s) PROVE CountInv'
  <2>1. /\ agent' = agent /\ row' = row
        /\ step[s] \notin Ran /\ step' = [step EXCEPT ![s] = "denied"]
    BY <1>6 DEF Deny, Ran
  <2>2. RowsInv' BY <1>1, <1>6, DenyKeepsRows
  <2> QED BY <2>1, <2>2, <1>5
<1>7. ASSUME FailOrphan(s) PROVE CountInv'
  <2>1. step[s] = "executing" /\ agent' = agent /\ Settle(s, "failed", {})
    BY <1>7 DEF FailOrphan
  <2>2. RowsInv' /\ row' = Settled(s)
    BY <1>1, <2>1, "failed" \in Ran, SettleKeepsRows DEF Ran
  <2>3. row'.registered = row.registered BY <2>2 DEF Settled, RowsInv, RowsTyped
  <2>4. step[s] \notin Ran /\ step' = [step EXCEPT ![s] = "failed"] BY <2>1 DEF Settle, Ran
  <2> QED BY <2>1, <2>2, <2>3, <2>4, <1>5
<1> QED BY <1>2, <1>4, <1>6, <1>7

(* The calls beside: an LLM call and the agent's generation. *)
LEMMA SubmitOtherKeeps ==
  ASSUME CountInv, NEW r \in Runs, NEW s \in Others, SubmitOther(r, s)
  PROVE  CountInv'
<1> USE DEF CountInv
<1>1. /\ RowsInv /\ RowsTyped /\ AgentsInv
      /\ agent \in [Runs -> AgentRecords] /\ s \in Steps /\ s \notin Affecting
      /\ world \in Refs /\ sent \in [by : 0..MaxAttempts, generation : Nat, ref : Refs]
  BY StepsAssumption DEF RowsInv, AgentsInv, AgentsTyped, AgentRecords, Steps, StepsAssumption
<1>2. PICK told \in BOOLEAN : told <=> agent[r].at = "idle" /\ Touches(s) OBVIOUS
<1>3. /\ lease = r /\ step[s] \in {"absent", "executing"} /\ StartStep(s)
      /\ UNCHANGED <<world, lease, heard, sent, forks, turns, strays, overtaken>>
      /\ agent' = [agent EXCEPT ![r].generation =
                     IF agent[r].at = "idle" /\ Touches(s) THEN row'.generation ELSE @]
  BY DEF SubmitOther, leaseVars, strayVars
<1>4. /\ RowsInv' /\ row'.registered = row.registered
      /\ row'.count = row.count /\ row'.every = row.every /\ row'.generation \in Nat
  BY <1>1, <1>3, StartKeepsRows
<1>5. PICK g : g = IF agent[r].at = "idle" /\ Touches(s) THEN row'.generation
                   ELSE agent[r].generation
  OBVIOUS
<1>6. PICK a : a = [agent[r] EXCEPT !.generation = g] OBVIOUS
<1>7. agent' = [agent EXCEPT ![r] = a]
  <2>1. agent' = [agent EXCEPT ![r].generation = g] BY <1>3, <1>5, Zenon
  <2> QED BY <2>1, <1>1, <1>6 DEF AgentRecords
<1>8. /\ a \in AgentRecords /\ a.at = agent[r].at /\ a.due = agent[r].due
      /\ a.step = agent[r].step
  <2>1. agent[r] \in AgentRecords BY <1>1
  <2>2. g \in Nat BY <2>1, <1>4, <1>5 DEF AgentRecords
  <2> QED BY <2>1, <2>2, <1>6 DEF AgentRecords
<1>9. a.at \in AtWork => a.step \in Affecting BY <1>8 DEF AgentsInv
<1>10. ~overtaken' /\ a.at \in AtWork => (a.due <=> row'.every > 0 /\ (row'.count + 1) % row'.every = 0)
  BY <1>3, <1>4, <1>8 DEF AgentsInv, Scheduled
<1>11. a.at \notin {"none", "starting"} => row'.registered > 0
  BY <1>4, <1>8 DEF AgentsInv
<1>12. /\ world' \in Refs /\ sent' \in [by : 0..MaxAttempts, generation : Nat, ref : Refs]
       /\ UNCHANGED <<lease, heard, forks, turns>> /\ (row.registered > 0 => row'.registered > 0)
       /\ overtaken' \in BOOLEAN
  BY <1>1, <1>3, <1>4 DEF AgentsInv, AgentsTyped
<1>13. AgentsInv'
  BY <1>1, <1>3, <1>7, <1>8, <1>9, <1>10, <1>11, <1>12, AgentsFollow DEF AgentRecords
<1>14. StraysSettled'
  <2>1. step' = [step EXCEPT ![s] = "executing"] BY <1>3 DEF StartStep
  <2> QED BY <1>1, <1>3, <2>1, StraysStay DEF RowsTyped
<1> QED BY <1>4, <1>13, <1>14

(* The report of an outcome: the affecting step is counted, and the agent   *)
(* was to capture exactly when the schedule says so.                        *)
LEMMA ReportKeeps ==
  ASSUME CountInv, NEW r \in Runs, Report(r)
  PROVE  /\ CountInv'
         /\ Holds(r) /\ ~overtaken =>
              (agent[r].due <=> row.every > 0 /\ row'.count % row.every = 0)
<1> USE DEF CountInv
<1>1. /\ RowsInv /\ RowsTyped /\ AgentsInv
      /\ agent \in [Runs -> AgentRecords] /\ agent[r] \in AgentRecords
      /\ world \in Refs /\ sent \in [by : 0..MaxAttempts, generation : Nat, ref : Refs]
  BY DEF RowsInv, AgentsInv, AgentsTyped, AgentRecords
<1> DEFINE s == agent[r].step
           taken == IF agent[r].at = "captured"
                      THEN {[generation |-> agent[r].generation, ref |-> agent[r].ref]} ELSE {}
<1>2. /\ agent[r].at \in AtWork /\ step[s] = "executing"
      /\ agent' = [agent EXCEPT ![r].at = "idle", ![r].step = NoStep, ![r].due = FALSE,
                                ![r].ref = {}]
      /\ UNCHANGED <<world, lease, heard, sent, forks, turns>>
      /\ strays' \subseteq strays \cup {s} /\ overtaken' = (overtaken \/ lease # r)
  BY DEF Report, Reporting, Holds, AtWork, leaseVars
<1>3. PICK outcome \in Ran : Settle(s, outcome, taken) BY DEF Report, Ran
<1>4. s \in Affecting /\ s \in Steps BY <1>2 DEF AgentsInv, Steps
<1>5. /\ \A c \in taken : c.generation \in Nat /\ c.ref \in Refs
      /\ \A c, d \in taken : c = d
  BY <1>1 DEF AgentRecords
<1> HIDE DEF taken
<1>6. RowsInv' /\ row' = Settled(s)
  <2> HIDE DEF s
  <2> QED BY <1>1, <1>2, <1>3, <1>4, <1>5, SettleKeepsRows
<1>7. row'.registered = row.registered /\ row'.every = row.every /\ row'.count = row.count + 1
  BY <1>4, <1>6 DEF Settled, RowsTyped, RowsInv
<1>8. Holds(r) /\ ~overtaken => (agent[r].due <=> row.every > 0 /\ row'.count % row.every = 0)
  BY <1>2, <1>7 DEF AgentsInv, Scheduled, Holds
<1>9. PICK a : a = [agent[r] EXCEPT !.at = "idle", !.step = NoStep, !.due = FALSE, !.ref = {}]
  OBVIOUS
<1>10. a \in AgentRecords /\ a.at = "idle"
  <2>1. {} \in Refs BY DEF Refs
  <2> QED BY <2>1, <1>1, <1>9 DEF AgentRecords
<1>11. agent' = [agent EXCEPT ![r] = a] BY <1>1, <1>2, <1>9 DEF AgentRecords
<1>12. row.registered > 0 BY <1>2 DEF AgentsInv, AtWork
<1>13. /\ world' \in Refs /\ sent' \in [by : 0..MaxAttempts, generation : Nat, ref : Refs]
       /\ UNCHANGED <<lease, heard, forks, turns>> /\ row'.registered > 0 /\ a.at \notin AtWork
       /\ overtaken' \in BOOLEAN /\ (lease # r => overtaken')
  BY <1>1, <1>2, <1>7, <1>10, <1>12 DEF AtWork, AgentsInv, AgentsTyped
<1>14. a.at \in AtWork => /\ a.step \in Affecting
                          /\ a.due <=> row'.every > 0 /\ (row'.count + 1) % row'.every = 0
  BY <1>13
<1>15. AgentsInv'
  <2>1. AgentsInv /\ RowsTyped BY <1>1
  <2> HIDE DEF s
  <2> QED BY <2>1, <1>10, <1>11, <1>13, <1>14, AgentsFollow DEF AgentRecords
<1>16. StraysSettled'
  <2>1. step' = [step EXCEPT ![s] = outcome] BY <1>3 DEF Settle
  <2>2. step'[s] = outcome /\ \A t \in Affecting : t # s => step'[t] = step[t]
    BY <2>1, <1>1, <1>4 DEF RowsTyped, Steps
  <2> HIDE DEF s
  <2> QED BY <1>2, <1>3, <1>4, <2>2 DEF StraysSettled
<1> QED BY <1>6, <1>8, <1>15, <1>16

(* Steps that leave the rows alone. *)
LEMMA ExternalKeeps ==
  ASSUME CountInv, NEW r \in Runs, Capture(r) \/ Write(r) \/ CaptureDue(r)
  PROVE  CountInv'
<1> USE DEF CountInv
<1>1. /\ AgentsInv /\ agent \in [Runs -> AgentRecords] /\ agent[r] \in AgentRecords
      /\ world \in Refs /\ sent \in [by : 0..MaxAttempts, generation : Nat, ref : Refs]
      /\ r \in 0..MaxAttempts
  BY BoundsAssumption DEF AgentsInv, AgentsTyped, AgentRecords, Runs, BoundsAssumption
<1>2. UNCHANGED <<execVars, lease, heard, forks, turns, strays, overtaken>>
  BY DEF Capture, Write, CaptureDue, leaseVars, strayVars
<1>3. RowsInv' /\ row' = row /\ StraysSettled'
  BY <1>2 DEF StraysSettled, RowsInv, RowsTyped, OutcomesLogged, ClosedWhileWriting, Writing,
              CountIsSettledSteps, RegisteredFirst, execVars
<1>4. CASE Capture(r)
  <2>1. agent' = agent /\ world' = world
        /\ sent' = [by |-> r, generation |-> agent[r].generation, ref |-> world]
    BY <1>4 DEF Capture
  <2>2. sent' \in [by : 0..MaxAttempts, generation : Nat, ref : Refs]
    BY <2>1, <1>1 DEF AgentRecords
  <2>3. AgentsTyped' BY <2>1, <2>2, <1>2 DEF AgentsInv, AgentsTyped
  <2> QED BY <2>1, <2>3, <1>2, <1>3 DEF AgentsInv, Scheduled
<1>5. CASE Write(r)
  <2>1. agent' = agent /\ world' = world \cup {agent[r].step} /\ sent' = sent
        /\ agent[r].at \in AtWork
    BY <1>5 DEF Write, AtWork
  <2>2. agent[r].step \in Affecting BY <2>1 DEF AgentsInv
  <2>3. world' \in Refs BY <2>1, <2>2, <1>1 DEF Refs
  <2>4. AgentsTyped' BY <2>1, <2>3, <1>2 DEF AgentsInv, AgentsTyped
  <2> QED BY <2>1, <2>4, <1>2, <1>3 DEF AgentsInv, Scheduled
<1>6. CASE CaptureDue(r)
  <2>1. /\ agent[r].at = "running" /\ world' = world /\ sent' = sent
        /\ agent' = [agent EXCEPT ![r].at = "captured", ![r].ref = world]
    BY <1>6 DEF CaptureDue
  <2>2. PICK a : a = [agent[r] EXCEPT !.at = "captured", !.ref = world] OBVIOUS
  <2>3. a \in AgentRecords /\ a.at = "captured" /\ a.due = agent[r].due /\ a.step = agent[r].step
    BY <2>2, <1>1 DEF AgentRecords
  <2>4. agent' = [agent EXCEPT ![r] = a] BY <2>1, <2>2, <1>1 DEF AgentRecords
  <2>5. /\ a.step \in Affecting /\ row'.registered > 0
        /\ lease = r /\ ~overtaken' =>
             (a.due <=> row'.every > 0 /\ (row'.count + 1) % row'.every = 0)
    BY <2>1, <2>3, <1>2, <1>3 DEF AgentsInv, Scheduled, AtWork
  <2>6. /\ world' \in Refs /\ sent' \in [by : 0..MaxAttempts, generation : Nat, ref : Refs]
        /\ UNCHANGED <<lease, heard, forks, turns>> /\ RowsTyped
        /\ overtaken' \in BOOLEAN /\ overtaken' = overtaken
    BY <2>1, <1>1, <1>2 DEF RowsInv, AgentsInv, AgentsTyped
  <2>7. AgentsInv' BY <2>3, <2>4, <2>5, <2>6, <1>1, <1>3, AgentsFollow DEF AgentRecords
  <2> QED BY <2>7, <1>3
<1> QED BY <1>4, <1>5, <1>6

(* Steps beside the agents: they keep its schedule and its registration. *)
LEMMA AgentsUntouched ==
  ASSUME AgentsInv, UNCHANGED <<world, lease, heard, agent, sent, forks, turns, overtaken>>,
         row'.registered = row.registered, row'.count = row.count, row'.every = row.every
  PROVE  AgentsInv'
<1>1. AgentsTyped' BY DEF AgentsInv, AgentsTyped
<1>2. Scheduled' BY DEF AgentsInv, Scheduled
<1> QED BY <1>1, <1>2 DEF AgentsInv

(* What happens beside the agent: publish requests, outcomes of LLM calls. *)
LEMMA BesideKeeps ==
  ASSUME CountInv, Publish \/ \E s \in Others : ReportOther(s)
  PROVE  CountInv'
<1> USE DEF CountInv
<1>1. RowsInv /\ AgentsInv /\ sent \in [by : 0..MaxAttempts, generation : Nat, ref : Refs]
  BY DEF AgentsInv, AgentsTyped
<1>2. CASE Publish
  <2>1. RowsInv' BY <1>1, <1>2, PublishKeepsRows
  <2>2. /\ row' = row /\ step' = step
        /\ UNCHANGED <<world, lease, heard, agent, sent, forks, turns, strays, overtaken>>
    BY <1>2 DEF Publish, leaseVars, strayVars
  <2>3. AgentsInv' BY <2>2, <1>1, AgentsUntouched
  <2>4. StraysSettled' BY <2>2, StraysStay
  <2> QED BY <2>1, <2>3, <2>4
<1>3. ASSUME NEW s \in Others, ReportOther(s) PROVE CountInv'
  <2>1. /\ s \in Steps /\ s \notin Affecting /\ step[s] = "executing"
        /\ UNCHANGED <<world, lease, heard, agent, sent, forks, turns, strays, overtaken>>
    BY <1>3, StepsAssumption DEF ReportOther, Steps, StepsAssumption, leaseVars, strayVars
  <2>2. PICK outcome \in Ran : Settle(s, outcome, {}) BY <1>3 DEF ReportOther, Ran
  <2>3. RowsInv' /\ row' = Settled(s) BY <1>1, <2>1, <2>2, SettleKeepsRows
  <2>4. row' = row BY <2>1, <2>3 DEF Settled, RowsInv, RowsTyped
  <2>5. AgentsInv' BY <2>1, <2>4, <1>1, AgentsUntouched
  <2>6. StraysSettled'
    <3>1. step' = [step EXCEPT ![s] = outcome] BY <2>2 DEF Settle
    <3> QED BY <1>1, <2>1, <3>1, StraysStay DEF RowsInv, RowsTyped
  <2> QED BY <2>3, <2>5, <2>6
<1> QED BY <1>2, <1>3

(* A new lease starts a fresh agent. *)
LEMMA RedispatchKeeps ==
  ASSUME CountInv, Redispatch
  PROVE  CountInv'
<1> USE DEF CountInv
<1>1. /\ AgentsInv /\ agent \in [Runs -> AgentRecords] /\ lease \in Runs
  BY DEF AgentsInv, AgentsTyped, AgentRecords
<1>2. /\ lease < MaxAttempts /\ lease' = lease + 1
      /\ agent' = [agent EXCEPT ![lease + 1].at = "starting"]
      /\ UNCHANGED <<execVars, world, sent, forks, turns, strays, overtaken>>
      /\ heard' \subseteq heard \cup {lease, lease + 1} /\ lease + 1 \in heard'
  BY DEF Redispatch, strayVars
<1>3. RowsInv' /\ row' = row /\ StraysSettled'
  BY <1>2 DEF StraysSettled, RowsInv, RowsTyped, OutcomesLogged, ClosedWhileWriting, Writing,
              CountIsSettledSteps, RegisteredFirst, execVars
<1>4. lease' \in Runs
  BY <1>1, <1>2, BoundsAssumption DEF Runs, BoundsAssumption
<1>5. /\ agent' \in [Runs -> AgentRecords]
      /\ agent'[lease'].at = "starting"
      /\ \A q \in Runs : q # lease' => agent'[q] = agent[q]
  BY <1>1, <1>2, <1>4 DEF AgentRecords
<1>6. AgentsTyped'
  <2>1. lease' \in heard' /\ heard' \subseteq 1..lease'
    <3>1. lease \in Int /\ heard \subseteq 1..lease /\ lease >= 1
      BY <1>1, BoundsAssumption DEF AgentsInv, AgentsTyped, Runs, BoundsAssumption
    <3> QED BY <3>1, <1>2
  <2> QED BY <2>1, <1>2, <1>4, <1>5 DEF AgentsInv, AgentsTyped, AgentRecords
<1>7. Scheduled' BY <1>5 DEF Scheduled, AtWork
<1>8. \A q \in Runs : /\ agent'[q].at \notin {"none", "starting"} => row'.registered > 0
                      /\ agent'[q].at \in AtWork => agent'[q].step \in Affecting
  <2>1. TAKE q \in Runs
  <2>2. CASE q = lease' BY <2>2, <1>5 DEF AtWork
  <2>3. CASE q # lease' BY <2>3, <1>3, <1>5 DEF AgentsInv
  <2> QED BY <2>2, <2>3
<1> QED BY <1>3, <1>6, <1>7, <1>8 DEF AgentsInv

(* Forks and turns *)
LEMMA NewExecutionKeeps ==
  ASSUME CountInv, Turn \/ \E at \in 1..Len(log) : Fork(at)
  PROVE  CountInv'
<1> USE DEF CountInv
<1>1. AgentsInv /\ RowsInv /\ forks \in 0..MaxForks /\ turns \in 0..MaxTurns
      /\ MaxForks \in Nat /\ MaxTurns \in Nat
  BY BoundsAssumption DEF AgentsInv, AgentsTyped, BoundsAssumption
<1>2. CASE Turn
  <2>1. /\ NewExecution([s \in Steps |-> "absent"]) /\ world' = {}
        /\ turns < MaxTurns /\ turns' = turns + 1 /\ forks' = forks
    BY <1>2 DEF Turn
  <2>2. forks' \in 0..MaxForks /\ turns' \in 0..MaxTurns BY <2>1, <1>1
  <2>3. AgentsInv' BY <2>1, <2>2, <1>1, NewExecutionKeepsAgents
  <2>4. StraysSettled' BY <1>2 DEF Turn, StraysSettled
  <2> QED BY <2>3, <2>4, <1>1, <1>2, TurnKeepsRows
<1>3. ASSUME NEW at \in 1..Len(log), Fork(at) PROVE CountInv'
  <2>1. PICK status : NewExecution(status) BY <1>3 DEF Fork
  <2>2. world' = {} /\ forks < MaxForks /\ forks' = forks + 1 /\ turns' = turns
    BY <1>3 DEF Fork
  <2>3. forks' \in 0..MaxForks /\ turns' \in 0..MaxTurns BY <2>2, <1>1
  <2>4. AgentsInv' BY <2>1, <2>2, <2>3, <1>1, NewExecutionKeepsAgents
  <2>5. StraysSettled'
    <3>1. /\ step' = [s \in Steps |-> IF s \in OutcomesIn(at) THEN step[s] ELSE "absent"]
          /\ strays' = strays \cap OutcomesIn(at)
      BY <1>3 DEF Fork, NewExecution
    <3> QED BY <3>1 DEF StraysSettled, Steps
  <2> QED BY <2>4, <2>5, <1>1, <1>3, ForkKeepsRows
<1> QED BY <1>2, <1>3

(* Every step keeps the counts and the boundaries. *)
LEMMA NextKeepsCounts == CountInv /\ [Next]_vars => CountInv'
<1> SUFFICES ASSUME CountInv, [Next]_vars PROVE CountInv' OBVIOUS
<1>1. CASE UNCHANGED vars
  BY <1>1 DEF CountInv, RowsInv, RowsTyped, OutcomesLogged, ClosedWhileWriting, Writing,
              CountIsSettledSteps, RegisteredFirst, AgentsInv, AgentsTyped, Scheduled, StraysSettled,
              vars, leaseVars, strayVars
<1>2. CASE \E r \in Runs :
             Register(r) \/ Bind(r) \/ Capture(r) \/ Write(r) \/ CaptureDue(r) \/ Report(r)
  BY <1>2, RegisterKeeps, BindKeeps, ExternalKeeps, ReportKeeps
<1>3. CASE \E r \in Runs, s \in Affecting : Submit(r, s)
  BY <1>3, SubmitKeeps
<1>4. CASE \E r \in Runs, s \in Others : SubmitOther(r, s)
  BY <1>4, SubmitOtherKeeps
<1>5. CASE Publish \/ \E s \in Others : ReportOther(s)
  BY <1>5, BesideKeeps
<1>6. CASE Redispatch
  BY <1>6, RedispatchKeeps
<1>7. CASE Turn \/ \E at \in 1..Len(log) : Fork(at)
  BY <1>7, NewExecutionKeeps
<1> QED BY <1>1, <1>2, <1>3, <1>4, <1>5, <1>6, <1>7 DEF Next

(* The invariant of the rows and the agents, of every reachable state. *)
THEOREM CountInvariance == Spec => []CountInv
BY InitSatisfies, NextKeepsCounts, PTL DEF Spec

(* Every row, event, checkpoint and agent has its type; in particular no    *)
(* checkpoint is covered from before the registration.                      *)
THEOREM TypeCorrect == Spec => []TypeOK
<1>1. CountInv => TypeOK
  <2> SUFFICES ASSUME CountInv PROVE TypeOK OBVIOUS
  <2>1. \A i \in 1..Len(log) : log[i] \in EventRecords
    BY ElementOfSeq DEF CountInv, RowsInv, RowsTyped
  <2> QED BY <2>1 DEF CountInv, RowsInv, RowsTyped, AgentsInv, AgentsTyped, StraysSettled, Ran, TypeOK,
                      Checkpoints, EventRecords
<1> QED BY <1>1, CountInvariance, PTL

(* However captures, starts, forks and turns interleave, the primary key of *)
(* resource_checkpoints holds: an outcome or a fork never fails on it.      *)
THEOREM OnePerBoundary == Spec => []OneCheckpointPerBoundary
<1>1. CountInv => OneCheckpointPerBoundary
  BY DEF CountInv, RowsInv, Orderly, OneCheckpointPerBoundary
<1> QED BY <1>1, CountInvariance, PTL

(* The count of the row is the number of affecting steps with an outcome,   *)
(* across restarts, orphans, forks of forks and turns.                      *)
THEOREM CountIsRight == Spec => []CountIsSettledSteps
<1>1. CountInv => CountIsSettledSteps BY DEF CountInv, RowsInv
<1> QED BY <1>1, CountInvariance, PTL

(* The agent that holds the lease captures with the outcome that brings the *)
(* count to a multiple of N, and with no other, for every number of         *)
(* attempts, forks and turns, as long as no attempt before it was heard     *)
(* since its step began.                                                    *)
THEOREM ScheduleKept == Spec => CapturesOnSchedule
<1> DEFINE OnSchedule ==
      \A r \in Runs :
        Holds(r) /\ ~overtaken /\ Report(r) =>
          (agent[r].due <=> row.every > 0 /\ row'.count % row.every = 0)
<1>1. CountInv /\ [Next]_vars => [OnSchedule]_vars
  BY ReportKeeps
<1> QED BY <1>1, CountInvariance, PTL DEF Spec, CapturesOnSchedule

-----------------------------------------------------------------------------
(* What a boundary stands for, and the invariant of the captures           *)

(* The effect of s is present after the n-th event: some event brings it,  *)
(* an outcome or a restoration, and nothing is restored after that.        *)
Brings(e, outcomes, s) ==
  \/ e.type = "initialized" /\ s \in e.ref
  \/ e.type \in outcomes /\ e.step = s
Has(l, n, outcomes, s) ==
  \E i \in 1..n : Brings(l[i], outcomes, s) /\ \A j \in i+1..n : l[j].type # "initialized"

(* An event after the n-th, up to n2, is such an outcome of s. *)
Gains(l, n, n2, outcomes, s) == \E i \in n+1..n2 : l[i].type \in outcomes /\ l[i].step = s

Done(l, n, s) == Has(l, n, {"succeeded"}, s)
Tried(l, n, s) == Has(l, n, Ran, s)

(* A reference captured at the n-th event, late outcomes aside. *)
Matches(l, n, ref, late) ==
  /\ \A s \in Affecting \ late : Done(l, n, s) => s \in ref
  /\ \A s \in ref : Tried(l, n, s)

NewestCovering(cs, seq, c) ==
  c \in cs /\ Covers(c, seq) /\ \A d \in cs : Covers(d, seq) => d.covered <= c.covered

(* What is restored or captured comes from steps that ended before. *)
Ends(l, n, s) == \E i \in 1..n : l[i].type \in Ran /\ l[i].step = s
EffectsEnded(l, cs) ==
  /\ \A i \in 1..Len(l) : l[i].type = "initialized" => \A s \in l[i].ref : Ends(l, i, s)
  /\ \A c \in cs : \A s \in c.ref : Ends(l, c.covered, s)

CoverageOK(l, cs, late) ==
  /\ EffectsEnded(l, cs)
  /\ \A seq \in 1..Len(l) : \A c \in cs :
       NewestCovering(cs, seq, c) => Matches(l, seq, c.ref, late)

(* The bound environment holds what succeeded and nothing that was not     *)
(* tried; an agent creates it from a reference that does.                  *)
WorldFollows ==
  /\ \A i \in 1..Len(log) : log[i].type = "initialized" => row.registered \in 1..i
  /\ ~row.bound => /\ world = {}
                   /\ \A s \in Affecting : Tried(log, Len(log), s) => s \in row.ref
  /\ \A s \in row.ref : Tried(log, Len(log), s)
  /\ \A s \in world : Tried(log, Len(log), s) \/ step[s] = "executing"
  /\ row.bound => \A s \in Affecting : Done(log, Len(log), s) => s \in world

(* A reference taken under the current generation holds what has succeeded. *)
Current(generation, ref) ==
  generation = row.generation =>
    \A s \in Affecting \ strays : Done(log, Len(log), s) => s \in ref

AgentFollows(a) ==
  /\ a.at \in AtWork \cup {"idle"} => row.bound
  /\ a.generation <= row.generation
  /\ a.at \in AtWork => step[a.step] = "executing" \/ Tried(log, Len(log), a.step)
  /\ a.at = "captured" => a.ref \subseteq world /\ Current(a.generation, a.ref)

RequestFollows ==
  /\ sent.ref \subseteq world
  /\ sent.generation <= row.generation
  /\ sent.by # 0 => Current(sent.generation, sent.ref)

(* The start of a step leaves what was taken before it behind. *)
LeaseFollows ==
  agent[lease].at \in AtWork =>
    /\ sent.generation < row.generation
    /\ \A r \in Runs \ {lease} : agent[r].generation < row.generation

CoverInv ==
  /\ CountInv
  /\ WorldFollows
  /\ \A r \in Runs : AgentFollows(agent[r])
  /\ RequestFollows
  /\ LeaseFollows
  /\ CoverageOK(log, checkpoints, strays)
-----------------------------------------------------------------------------
(* Later events add the effects they bring. *)
LEMMA HasGrows ==
  ASSUME NEW l, NEW l2, NEW n \in Nat, NEW n2 \in Nat, n <= n2,
         \A i \in 1..n : l2[i] = l[i],
         \A i \in n+1..n2 : l2[i].type # "initialized",
         NEW outcomes, NEW s
  PROVE  Has(l2, n2, outcomes, s) <=>
           Has(l, n, outcomes, s) \/ Gains(l2, n, n2, outcomes, s)
<1>1. ASSUME Has(l2, n2, outcomes, s)
      PROVE  Has(l, n, outcomes, s) \/ Gains(l2, n, n2, outcomes, s)
  <2>1. PICK i \in 1..n2 : /\ Brings(l2[i], outcomes, s)
                           /\ \A j \in i+1..n2 : l2[j].type # "initialized"
    BY <1>1 DEF Has
  <2>2. CASE i \in 1..n
    <3>1. \A j \in i+1..n : l[j].type # "initialized"
      <4>1. TAKE j \in i+1..n
      <4>2. j \in 1..n /\ j \in i+1..n2 BY <2>2
      <4> QED BY <4>2, <2>1
    <3>2. Brings(l[i], outcomes, s) BY <2>1, <2>2
    <3> QED BY <3>1, <3>2, <2>2 DEF Has
  <2>3. CASE i \notin 1..n
    <3>1. i \in n+1..n2 BY <2>3
    <3>2. l2[i].type \in outcomes /\ l2[i].step = s BY <3>1, <2>1 DEF Brings
    <3> QED BY <3>1, <3>2 DEF Gains
  <2> QED BY <2>2, <2>3
<1>2. ASSUME Has(l, n, outcomes, s) PROVE Has(l2, n2, outcomes, s)
  <2>1. PICK i \in 1..n : /\ Brings(l[i], outcomes, s)
                          /\ \A j \in i+1..n : l[j].type # "initialized"
    BY <1>2 DEF Has
  <2>2. \A j \in i+1..n2 : l2[j].type # "initialized"
    <3>1. TAKE j \in i+1..n2
    <3>2. CASE j \in 1..n BY <3>2, <2>1
    <3>3. CASE j \notin 1..n
      <4>1. j \in n+1..n2 BY <3>3
      <4> QED BY <4>1
    <3> QED BY <3>2, <3>3
  <2>3. i \in 1..n2 /\ Brings(l2[i], outcomes, s) BY <2>1
  <2> QED BY <2>2, <2>3 DEF Has
<1>3. ASSUME NEW i \in n+1..n2, l2[i].type \in outcomes, l2[i].step = s
      PROVE  Has(l2, n2, outcomes, s)
  <2>1. i \in 1..n2 /\ \A j \in i+1..n2 : j \in n+1..n2 OBVIOUS
  <2>2. Brings(l2[i], outcomes, s) BY <1>3 DEF Brings
  <2> QED BY <2>1, <2>2 DEF Has
<1> QED BY <1>1, <1>2, <1>3 DEF Gains

(* A restoration replaces what was there. *)
LEMMA HasRestored ==
  ASSUME NEW l, NEW b \in Nat \ {0}, NEW n \in Nat, b <= n, NEW outcomes, NEW s,
         l[b].type = "initialized", "initialized" \notin outcomes,
         \A i \in b+1..n : l[i].type # "initialized" /\ l[i].type \notin outcomes
  PROVE  Has(l, n, outcomes, s) <=> s \in l[b].ref
<1>1. ASSUME Has(l, n, outcomes, s) PROVE s \in l[b].ref
  <2>1. PICK i \in 1..n : /\ Brings(l[i], outcomes, s)
                          /\ \A j \in i+1..n : l[j].type # "initialized"
    BY <1>1 DEF Has
  <2>2. ~(i < b)
    <3>1. SUFFICES ASSUME i < b PROVE FALSE OBVIOUS
    <3>2. b \in i+1..n BY <3>1
    <3> QED BY <3>2, <2>1
  <2>3. ~(i > b)
    <3>1. SUFFICES ASSUME i > b PROVE FALSE OBVIOUS
    <3>2. i \in b+1..n BY <3>1
    <3> QED BY <3>2, <2>1 DEF Brings
  <2>4. i = b BY <2>2, <2>3
  <2> QED BY <2>1, <2>4 DEF Brings
<1>2. ASSUME s \in l[b].ref PROVE Has(l, n, outcomes, s)
  <2>1. b \in 1..n OBVIOUS
  <2>2. Brings(l[b], outcomes, s) BY <1>2 DEF Brings
  <2> QED BY <2>1, <2>2 DEF Has
<1> QED BY <1>1, <1>2

(* What the properties call the effects with an outcome by `seq`. *)
LEMMA OutcomesAreEffects ==
  ASSUME log \in Seq(EventRecords), NEW seq \in 1..Len(log),
         NEW outcomes, "initialized" \notin outcomes, NEW s
  PROVE  s \in WithOutcome(seq, outcomes) <=> Has(log, seq, outcomes, s)
<1>0. seq \in Nat BY LenProperties
<1> DEFINE marks == {i \in 1..seq : log[i].type = "initialized"}
           last == CHOOSE i \in marks : \A j \in marks : j <= i
           since(n) == {log[i].step : i \in {j \in n + 1 .. seq : log[j].type \in outcomes}}
<1>1. CASE marks = {}
  <2>1. Restored(seq) = [at |-> 0, ref |-> {}] BY <1>1 DEF Restored
  <2>2. WithOutcome(seq, outcomes) = since(0) BY <2>1 DEF WithOutcome
  <2>3. \A i \in 1..seq : log[i].type # "initialized" BY <1>1
  <2>4. Has(log, seq, outcomes, s) <=> \E i \in 1..seq : log[i].type \in outcomes /\ log[i].step = s
    <3>1. \A i \in 1..seq : \A j \in i+1..seq : j \in 1..seq BY <1>0
    <3>2. \A i \in 1..seq : \A j \in i+1..seq : log[j].type # "initialized" BY <3>1, <2>3
    <3> QED BY <2>3, <3>2 DEF Has, Brings
  <2>5. 0 + 1 = 1 OBVIOUS
  <2> HIDE DEF marks, last
  <2> QED BY <2>2, <2>4, <2>5
<1>2. CASE marks # {}
  <2>1. marks \in SUBSET (0..seq) BY <1>0
  <2> HIDE DEF marks
  <2>2. \E i \in marks : \A j \in marks : j <= i BY <1>0, <1>2, <2>1, Largest
  <2>3. last \in marks /\ \A j \in marks : j <= last BY <2>2
  <2>4. Restored(seq) = [at |-> last, ref |-> log[last].ref] BY <1>2 DEF Restored, marks
  <2>5. WithOutcome(seq, outcomes) = log[last].ref \cup since(last) BY <2>4 DEF WithOutcome
  <2> HIDE DEF last
  <2>6. PICK b : b = last OBVIOUS
  <2>7. b \in 1..seq /\ log[b].type = "initialized" BY <2>3, <2>6 DEF marks
  <2>8. \A i \in b+1..seq : log[i].type # "initialized"
    <3>1. SUFFICES ASSUME NEW i \in b+1..seq, log[i].type = "initialized" PROVE FALSE OBVIOUS
    <3>2. i \in marks BY <3>1, <2>7, <1>0 DEF marks
    <3> QED BY <3>2, <2>3, <2>6, <2>7, <1>0
  <2>9. Has(log, b, outcomes, s) <=> s \in log[b].ref
    <3>1. b \in Nat \ {0} /\ b <= b /\ \A i \in b+1..b : FALSE BY <2>7, <1>0
    <3> QED BY <3>1, <2>7, HasRestored
  <2>10. Has(log, seq, outcomes, s) <=>
           Has(log, b, outcomes, s) \/ Gains(log, b, seq, outcomes, s)
    <3>1. b \in Nat /\ b <= seq BY <2>7, <1>0
    <3> QED BY <3>1, <2>8, <1>0, HasGrows
  <2> QED BY <2>5, <2>6, <2>9, <2>10 DEF Gains
<1> QED BY <1>1, <1>2

(* What has succeeded was tried. *)
LEMMA DoneIsTried ==
  ASSUME NEW l, NEW n, NEW s, Done(l, n, s)
  PROVE  Tried(l, n, s)
BY DEF Done, Tried, Has, Brings, Ran

(* A reference that matches a boundary matches later ones, until an        *)
(* affecting step succeeds.                                                *)
LEMMA MatchesGrows ==
  ASSUME NEW l, NEW l2, NEW n \in Nat, NEW n2 \in Nat, n <= n2,
         \A i \in 1..n : l2[i] = l[i],
         \A i \in n+1..n2 : /\ l2[i].type # "initialized"
                            /\ ~(l2[i].type = "succeeded" /\ l2[i].step \in Affecting),
         NEW ref, NEW late, Matches(l, n, ref, late)
  PROVE  Matches(l2, n2, ref, late)
<1>0. \A i \in n+1..n2 : l2[i].type # "initialized" OBVIOUS
<1>1. ASSUME NEW s \in Affecting \ late, Done(l2, n2, s) PROVE s \in ref
  <2>1. Has(l2, n2, {"succeeded"}, s) <=>
          Has(l, n, {"succeeded"}, s) \/ Gains(l2, n, n2, {"succeeded"}, s)
    BY <1>0, HasGrows
  <2>2. ~Gains(l2, n, n2, {"succeeded"}, s) BY <1>1 DEF Gains
  <2> QED BY <2>1, <2>2, <1>1 DEF Matches, Done
<1>2. ASSUME NEW s \in ref PROVE Tried(l2, n2, s)
  <2>1. Tried(l, n, s) BY DEF Matches
  <2>2. Has(l, n, Ran, s) => Has(l2, n2, Ran, s) BY <1>0, HasGrows
  <2> QED BY <2>1, <2>2 DEF Tried
<1> QED BY <1>1, <1>2 DEF Matches

(* More late outcomes ask for less. *)
LEMMA CoverageWeaker ==
  ASSUME NEW l, NEW cs, NEW late, NEW later, late \subseteq later, CoverageOK(l, cs, late)
  PROVE  CoverageOK(l, cs, later)
BY DEF CoverageOK, Matches

(* An effect of the log, restored or not, comes from a step that ended. *)
LEMMA TriedEnds ==
  ASSUME NEW l, NEW n \in Nat,
         \A i \in 1..n : l[i].type = "initialized" => \A s \in l[i].ref : Ends(l, i, s),
         NEW s, Tried(l, n, s)
  PROVE  Ends(l, n, s)
<1>1. PICK i \in 1..n : Brings(l[i], Ran, s) BY DEF Tried, Has
<1>2. CASE l[i].type = "initialized" /\ s \in l[i].ref
  <2>1. PICK j \in 1..i : l[j].type \in Ran /\ l[j].step = s BY <1>2 DEF Ends
  <2>2. j \in 1..n BY <2>1
  <2> QED BY <2>1, <2>2 DEF Ends
<1>3. CASE l[i].type \in Ran /\ l[i].step = s BY <1>3 DEF Ends
<1> QED BY <1>1, <1>2, <1>3 DEF Brings

(* The steps that ended by an event, in a longer log. *)
LEMMA EndsKept ==
  ASSUME NEW l, NEW l2, NEW n \in Nat, \A i \in 1..n : l2[i] = l[i],
         NEW k \in Int, k <= n, NEW s, Ends(l, k, s)
  PROVE  Ends(l2, k, s)
<1>1. PICK i \in 1..k : l[i].type \in Ran /\ l[i].step = s BY DEF Ends
<1>2. i \in 1..n BY <1>1
<1> QED BY <1>1, <1>2 DEF Ends

-----------------------------------------------------------------------------
(* Coverage as the log grows                                               *)

(* A prefix of the log stands for what it stood for. *)
LEMMA MatchesPrefix ==
  ASSUME NEW l, NEW l2, NEW n \in Nat, \A i \in 1..n : l2[i] = l[i],
         NEW ref, NEW late, Matches(l, n, ref, late)
  PROVE  Matches(l2, n, ref, late)
<1>1. \A i \in n+1..n : FALSE OBVIOUS
<1>2. \A i \in n+1..n : /\ l2[i].type # "initialized"
                         /\ ~(l2[i].type = "succeeded" /\ l2[i].step \in Affecting)
  BY <1>1
<1>3. n <= n OBVIOUS
<1> QED BY <1>2, <1>3, MatchesGrows

(* Coverage is kept as events are added, of which none is a success of an   *)
(* affecting step while a checkpoint is open, and with them checkpoints     *)
(* that match what they cover.                                              *)
LEMMA CoverageKept ==
  ASSUME RowsTyped, NEW late, CoverageOK(log, checkpoints, late),
         NEW l2, NEW n2 \in Nat, n2 = Len(l2), Len(log) <= n2,
         \A i \in 1..Len(log) : l2[i] = log[i],
         \A i \in Len(log)+1..n2 : l2[i].type # "initialized",
         (\E c \in checkpoints : c.invalidated = 0) =>
            \A i \in Len(log)+1..n2 : ~(l2[i].type = "succeeded" /\ l2[i].step \in Affecting),
         NEW k \in Nat, NEW added, NEW cs2, cs2 \subseteq checkpoints \cup added,
         checkpoints \subseteq cs2,
         \A c \in added : /\ c.covered = k /\ k <= n2
                          /\ \A seq \in k..n2 : Matches(l2, seq, c.ref, late)
  PROVE  CoverageOK(l2, cs2, late)
<1>1. /\ Len(log) \in Nat
      /\ \A c \in checkpoints : c.covered \in 1..Len(log) /\ c.invalidated \in 0..Len(log)
  BY DEF RowsTyped, Checkpoints
<1>6. ASSUME NEW i \in 1..n2, l2[i].type = "initialized", NEW s \in l2[i].ref
      PROVE  Ends(l2, i, s)
  <2>1. i \in 1..Len(log)
    <3>1. i \in Len(log)+1..n2 => FALSE BY <1>6
    <3> QED BY <3>1, <1>1
  <2>2. Ends(log, i, s) BY <2>1, <1>6 DEF CoverageOK, EffectsEnded
  <2>3. i \in Int /\ i <= Len(log) BY <2>1
  <2> QED BY <2>2, <2>3, <1>1, EndsKept
<1>7. ASSUME NEW c \in cs2, NEW s \in c.ref PROVE Ends(l2, c.covered, s)
  <2>1. CASE c \in checkpoints
    <3>1. Ends(log, c.covered, s) BY <2>1 DEF CoverageOK, EffectsEnded
    <3>2. c.covered \in Int /\ c.covered <= Len(log) BY <2>1, <1>1
    <3> QED BY <3>1, <3>2, <1>1, EndsKept
  <2>2. CASE c \in added
    <3>1. c.covered = k /\ k <= n2 /\ k \in k..n2 BY <2>2
    <3>2. Tried(l2, k, s) BY <2>2, <3>1 DEF Matches
    <3>3. \A i \in 1..k : l2[i].type = "initialized" => \A e \in l2[i].ref : Ends(l2, i, e)
      BY <3>1, <1>6
    <3> QED BY <3>1, <3>2, <3>3, TriedEnds
  <2> QED BY <2>1, <2>2
<1>2. SUFFICES ASSUME NEW seq \in 1..n2, NEW c \in cs2, NewestCovering(cs2, seq, c)
               PROVE  Matches(l2, seq, c.ref, late)
  BY <1>6, <1>7 DEF CoverageOK, EffectsEnded
<1>3. CASE c \in added
  <2>1. k <= seq BY <1>2, <1>3 DEF NewestCovering, Covers
  <2>2. seq \in k..n2 BY <2>1
  <2> QED BY <2>2, <1>3
<1>4. CASE c \in checkpoints /\ seq <= Len(log)
  <2>1. NewestCovering(checkpoints, seq, c) BY <1>2, <1>4 DEF NewestCovering
  <2>2. seq \in 1..Len(log) BY <1>1, <1>4
  <2>3. Matches(log, seq, c.ref, late) BY <2>1, <2>2, <1>4 DEF CoverageOK
  <2>4. seq \in Nat /\ \A i \in 1..seq : l2[i] = log[i] BY <2>2, <1>1
  <2> QED BY <2>3, <2>4, MatchesPrefix
<1>5. CASE c \in checkpoints /\ seq > Len(log)
  <2>1. c.invalidated = 0 BY <1>1, <1>2, <1>5 DEF NewestCovering, Covers
  <2>2. NewestCovering(checkpoints, Len(log), c)
    <3>1. Covers(c, Len(log)) BY <2>1, <1>1, <1>5 DEF Covers
    <3>2. ASSUME NEW d \in checkpoints, Covers(d, Len(log)) PROVE d.covered <= c.covered
      <4>1. d.invalidated = 0 BY <3>2, <1>1 DEF Covers
      <4>2. Covers(d, seq) BY <4>1, <1>1, <1>5 DEF Covers
      <4> QED BY <4>2, <1>2 DEF NewestCovering
    <3> QED BY <3>1, <3>2, <1>5 DEF NewestCovering
  <2>3. Len(log) \in 1..Len(log)
    <3>1. c.covered \in 1..Len(log) BY <1>1, <1>5
    <3> QED BY <3>1, <1>1
  <2>4. Matches(log, Len(log), c.ref, late) BY <2>2, <2>3, <1>5 DEF CoverageOK
  <2>5. \A i \in Len(log)+1..seq : /\ l2[i].type # "initialized"
                                   /\ ~(l2[i].type = "succeeded" /\ l2[i].step \in Affecting)
    <3>1. \A i \in Len(log)+1..seq : i \in Len(log)+1..n2 BY <1>1
    <3> QED BY <3>1, <2>1, <1>5
  <2>6. seq \in Nat /\ Len(log) <= seq BY <1>5, <1>1
  <2> QED BY <2>4, <2>5, <2>6, <1>1, MatchesGrows
<1> QED BY <1>1, <1>2, <1>3, <1>4, <1>5

(* The start that ends all coverage keeps what was covered before it. *)
LEMMA CoverageEnded ==
  ASSUME RowsTyped, NEW late, CoverageOK(log, checkpoints, late),
         NEW l2, Len(l2) = Len(log) + 1,
         \A i \in 1..Len(log) : l2[i] = log[i], l2[Len(log) + 1].type # "initialized"
  PROVE  CoverageOK(l2, Invalidate(Len(log) + 1), late)
<1> DEFINE n == Len(log) + 1
<1>1. /\ Len(log) \in Nat
      /\ \A c \in checkpoints : c \in Checkpoints(Len(log)) /\ c.invalidated \in 0..Len(log)
  BY DEF RowsTyped, Checkpoints
<1>2. ASSUME NEW d \in checkpoints
      PROVE  LET c == [d EXCEPT !.invalidated = IF @ = 0 THEN n ELSE @] IN
             /\ c.covered = d.covered /\ c.ref = d.ref
             /\ c.invalidated = IF d.invalidated = 0 THEN n ELSE d.invalidated
             /\ c \in Invalidate(n)
  BY <1>1 DEF Checkpoints, Invalidate
<1>9. ASSUME NEW i \in 1..n, l2[i].type = "initialized", NEW s \in l2[i].ref
      PROVE  Ends(l2, i, s)
  <2>1. i \in 1..Len(log) BY <1>1, <1>9
  <2>2. Ends(log, i, s) BY <2>1, <1>9 DEF CoverageOK, EffectsEnded
  <2>3. i \in Int /\ i <= Len(log) BY <2>1
  <2> QED BY <2>2, <2>3, <1>1, EndsKept
<1>10. ASSUME NEW c \in Invalidate(n)
       PROVE  \E d \in checkpoints :
                /\ c.covered = d.covered /\ c.ref = d.ref
                /\ c.invalidated = IF d.invalidated = 0 THEN n ELSE d.invalidated
  <2>1. PICK d \in checkpoints : c = [d EXCEPT !.invalidated = IF @ = 0 THEN n ELSE @]
    BY DEF Invalidate
  <2> QED BY <2>1, <1>2
<1>11. ASSUME NEW c \in Invalidate(n), NEW s \in c.ref PROVE Ends(l2, c.covered, s)
  <2>1. PICK d \in checkpoints : c.covered = d.covered /\ c.ref = d.ref BY <1>10
  <2>2. Ends(log, d.covered, s) BY <2>1 DEF CoverageOK, EffectsEnded
  <2>3. d.covered \in Int /\ d.covered <= Len(log) BY <1>1 DEF Checkpoints
  <2> QED BY <2>1, <2>2, <2>3, <1>1, EndsKept
<1>3. SUFFICES ASSUME NEW seq \in 1..n, NEW c \in Invalidate(n),
                      NewestCovering(Invalidate(n), seq, c)
               PROVE  Matches(l2, seq, c.ref, late)
  BY <1>9, <1>11 DEF CoverageOK, EffectsEnded
<1>4. PICK d \in checkpoints : /\ c.covered = d.covered /\ c.ref = d.ref
                               /\ c.invalidated = IF d.invalidated = 0 THEN n ELSE d.invalidated
  BY <1>3, <1>10
<1>5. seq \in 1..Len(log) BY <1>1, <1>3, <1>4 DEF NewestCovering, Covers
<1>6. NewestCovering(checkpoints, seq, d)
  <2>1. Covers(d, seq) BY <1>1, <1>3, <1>4, <1>5 DEF NewestCovering, Covers
  <2>2. ASSUME NEW e \in checkpoints, Covers(e, seq) PROVE e.covered <= d.covered
    <3>1. PICK f \in Invalidate(n) :
            /\ f.covered = e.covered
            /\ f.invalidated = IF e.invalidated = 0 THEN n ELSE e.invalidated
      BY <1>2
    <3>2. Covers(f, seq) BY <2>2, <3>1, <1>1, <1>5 DEF Covers
    <3> QED BY <3>1, <3>2, <1>3, <1>4 DEF NewestCovering
  <2> QED BY <2>1, <2>2 DEF NewestCovering
<1>7. Matches(log, seq, c.ref, late) BY <1>4, <1>5, <1>6 DEF CoverageOK
<1>8. seq \in Nat /\ \A i \in 1..seq : l2[i] = log[i] BY <1>1, <1>5
<1> QED BY <1>7, <1>8, MatchesPrefix

-----------------------------------------------------------------------------
(* What a fork selects                                                     *)

(* The last event of the prefix whose boundary in the fork is at most n. *)
Source(at, n, x) == x \in 0..at /\ \A y \in 0..at : MapSeq(y, at) <= n <=> y <= x

(* Every boundary of the fork has a source, the fork point if it is late. *)
LEMMA SourceExists ==
  ASSUME NEW at \in Nat, NEW n \in Nat \ {0}
  PROVE  /\ \E x : Source(at, n, x)
         /\ n >= MapSeq(at, at) => Source(at, n, at)
<1>1. /\ \A s \in Int : MapSeq(s, at) \in Nat \ {0}
      /\ \A s, t \in Int : s <= t => MapSeq(s, at) <= MapSeq(t, at)
  BY MapSeqGrows
<1> DEFINE K == {y \in 0..at : MapSeq(y, at) <= n}
<1>2. MapSeq(0, at) = 1
  <2>1. {i \in 1..at : i <= 0 /\ IsCopied(i, at)} = {} OBVIOUS
  <2>2. Cardinality({i \in 1..at : i <= 0 /\ IsCopied(i, at)}) = 0 BY <2>1, FS_EmptySet
  <2> QED BY <2>2 DEF MapSeq
<1>3. 0 \in K BY <1>2
<1>4. K \in SUBSET (0..at) OBVIOUS
<1>5. PICK x \in K : \A j \in K : j <= x
  <2> HIDE DEF K
  <2> QED BY <1>3, <1>4, Largest
<1>6. Source(at, n, x)
  <2>1. x \in 0..at /\ MapSeq(x, at) <= n BY <1>5
  <2>2. ASSUME NEW y \in 0..at PROVE MapSeq(y, at) <= n <=> y <= x
    <3>1. MapSeq(y, at) <= n => y <= x BY <1>5
    <3>2. y <= x => MapSeq(y, at) <= MapSeq(x, at) BY <2>1, <1>1
    <3>3. MapSeq(y, at) \in Nat /\ MapSeq(x, at) \in Nat BY <2>1, <1>1
    <3> QED BY <3>1, <3>2, <3>3, <2>1
  <2> QED BY <2>1, <2>2 DEF Source
<1>7. ASSUME n >= MapSeq(at, at) PROVE Source(at, n, at)
  <2>1. ASSUME NEW y \in 0..at PROVE MapSeq(y, at) <= n /\ y <= at
    <3>1. MapSeq(y, at) <= MapSeq(at, at) /\ MapSeq(y, at) \in Nat /\ MapSeq(at, at) \in Nat
      BY <1>1
    <3> QED BY <3>1, <1>7
  <2> QED BY <2>1 DEF Source
<1> QED BY <1>6, <1>7

(* A boundary of what a fork copies stands for the effects its source      *)
(* boundary stands for.                                                    *)
LEMMA ForkHas ==
  ASSUME log \in Seq(EventRecords), NEW at \in 1..Len(log), NEW n \in 1..MapSeq(at, at),
         NEW x, Source(at, n, x), NEW outcomes \in SUBSET Final, NEW s
  PROVE  Has(Opening(at), n, outcomes, s) <=> Has(log, x, outcomes, s)
<1>0. at \in Nat /\ x \in 0..at BY LenProperties DEF Source
<1> DEFINE m == MapSeq(at, at)
<1>1. /\ Opening(at)[1] = Note("opened")
      /\ \A k \in 2..m : \E i \in 1..at : /\ IsCopied(i, at) /\ MapSeq(i, at) = k
                                          /\ Opening(at)[k] = log[i]
      /\ \A i \in 1..at : IsCopied(i, at) => /\ MapSeq(i, at) \in 2..m
                                             /\ Opening(at)[MapSeq(i, at)] = log[i]
  BY OpeningOfFork
<1>2. /\ \A i \in Int : MapSeq(i, at) \in Nat \ {0}
      /\ \A i, j \in Int : i <= j => MapSeq(i, at) <= MapSeq(j, at)
      /\ \A i \in Int, j \in 1..at : IsCopied(j, at) /\ i < j => MapSeq(i, at) < MapSeq(j, at)
  BY <1>0, MapSeqGrows
<1>3. m \in Nat \ {0} BY <1>0, <1>2
<1>4. \A i \in 1..at : MapSeq(i, at) <= n <=> i <= x BY <1>0 DEF Source
<1>5. \A i \in 1..at : Brings(log[i], outcomes, s) => IsCopied(i, at)
  BY DEF Brings, IsCopied, OutcomesIn
<1>6. \A i \in 1..at : log[i].type = "initialized" => IsCopied(i, at) BY DEF IsCopied
<1> HIDE DEF m
<1>7. ASSUME Has(Opening(at), n, outcomes, s) PROVE Has(log, x, outcomes, s)
  <2>1. PICK k \in 1..n : /\ Brings(Opening(at)[k], outcomes, s)
                          /\ \A j \in k+1..n : Opening(at)[j].type # "initialized"
    BY <1>7 DEF Has
  <2>2. k # 1 BY <1>1, <2>1 DEF Brings, Note, Event, Final
  <2>3. k \in 2..m BY <2>1, <2>2, <1>3 DEF m
  <2>4. PICK i \in 1..at : /\ IsCopied(i, at) /\ MapSeq(i, at) = k
                           /\ Opening(at)[k] = log[i]
    BY <2>3, <1>1
  <2>5. MapSeq(i, at) <= n BY <2>1, <2>4
  <2>6. i \in 1..x BY <2>4, <2>5, <1>0, <1>4
  <2>7. ASSUME NEW j \in i+1..x, log[j].type = "initialized" PROVE FALSE
    <3>1. j \in 1..at /\ i < j /\ j <= x BY <2>4, <1>0
    <3>2. IsCopied(j, at) BY <2>7, <3>1, <1>6
    <3>3. MapSeq(j, at) \in 2..m /\ Opening(at)[MapSeq(j, at)] = log[j] BY <3>1, <3>2, <1>1
    <3>4. k < MapSeq(j, at) BY <2>4, <3>1, <3>2, <1>2
    <3>5. MapSeq(j, at) <= n BY <3>1, <1>4
    <3>6. MapSeq(j, at) \in k+1..n BY <3>3, <3>4, <3>5
    <3> QED BY <3>3, <3>6, <2>1, <2>7
  <2> QED BY <2>1, <2>4, <2>6, <2>7 DEF Has
<1>8. ASSUME Has(log, x, outcomes, s) PROVE Has(Opening(at), n, outcomes, s)
  <2>1. PICK i \in 1..x : /\ Brings(log[i], outcomes, s)
                          /\ \A j \in i+1..x : log[j].type # "initialized"
    BY <1>8 DEF Has
  <2>2. i \in 1..at /\ i <= x BY <1>0
  <2>3. IsCopied(i, at) BY <2>1, <2>2, <1>5
  <2>4. MapSeq(i, at) \in 2..m /\ Opening(at)[MapSeq(i, at)] = log[i] BY <2>2, <2>3, <1>1
  <2>5. MapSeq(i, at) <= n BY <2>2, <1>4
  <2>6. MapSeq(i, at) \in 1..n BY <2>4, <2>5
  <2>7. ASSUME NEW k \in MapSeq(i, at)+1..n, Opening(at)[k].type = "initialized" PROVE FALSE
    <3>1. k \in 2..m BY <2>4, <1>3 DEF m
    <3>2. PICK j \in 1..at : MapSeq(j, at) = k /\ Opening(at)[k] = log[j] BY <3>1, <1>1
    <3>3. ~(j <= i)
      <4>1. SUFFICES ASSUME j <= i PROVE FALSE OBVIOUS
      <4>2. MapSeq(j, at) <= MapSeq(i, at) BY <4>1, <2>2, <1>2
      <4> QED BY <4>2, <3>2, <2>4
    <3>4. MapSeq(j, at) <= n BY <3>1, <3>2
    <3>5. j <= x BY <3>4, <1>4
    <3>6. j \in i+1..x BY <3>3, <3>5, <1>0
    <3> QED BY <3>2, <3>6, <2>1, <2>7
  <2>8. Brings(Opening(at)[MapSeq(i, at)], outcomes, s) BY <2>1, <2>4
  <2> QED BY <2>6, <2>7, <2>8 DEF Has
<1> QED BY <1>7, <1>8

(* The newest of checkpoints with bounded boundaries exists. *)
LEMMA NewestExists ==
  ASSUME NEW n \in Nat, NEW cs, cs # {}, \A c \in cs : c.covered \in 1..n
  PROVE  Newest(cs) \in cs /\ \A d \in cs : d.covered <= Newest(cs).covered
<1> DEFINE K == {c.covered : c \in cs}
<1>1. \E m \in K : \A j \in K : j <= m
  <2>1. K # {} OBVIOUS
  <2>2. K \in SUBSET (0..n) OBVIOUS
  <2> HIDE DEF K
  <2> QED BY <2>1, <2>2, Largest
<1>2. \E c \in cs : \A d \in cs : d.covered <= c.covered BY <1>1
<1> QED BY <1>2 DEF Newest

(* Each copied checkpoint stands for one of the source, the newest of its   *)
(* boundary, and each of the prefix has one that stands for it.             *)
LEMMA CopiedStandFor ==
  ASSUME RowsTyped, Orderly(checkpoints, Len(log)), NEW at \in 1..Len(log),
         NEW n \in Nat, NEW x, Source(at, n, x)
  PROVE  /\ \A c \in CopiedCheckpoints(at) : \E d \in checkpoints :
              /\ d.ref = c.ref /\ d.covered <= at
              /\ c.covered \in 1..MapSeq(at, at)
              /\ c.covered <= n <=> d.covered <= x
              /\ Covers(c, n) <=> Covers(d, x)
              /\ \A e \in checkpoints :
                   e.covered <= at /\ MapSeq(e.covered, at) <= c.covered => e.covered <= d.covered
         /\ \A d \in checkpoints : d.covered <= x =>
              \E c \in CopiedCheckpoints(at) :
                /\ c.covered = MapSeq(d.covered, at) /\ c.covered <= n
                /\ Covers(d, x) => Covers(c, n)
<1>1. /\ Len(log) \in Nat /\ at \in Nat /\ x \in 0..at
      /\ \A c \in checkpoints : c \in Checkpoints(Len(log))
  BY DEF RowsTyped, Source
<1>2. /\ \A s \in Int : MapSeq(s, at) \in Nat \ {0}
      /\ \A s, t \in Int : s <= t => MapSeq(s, at) <= MapSeq(t, at)
  BY <1>1, MapSeqGrows
<1>3. \A y \in 0..at : MapSeq(y, at) <= n <=> y <= x BY DEF Source
<1> DEFINE Prefix == PrefixCheckpoints(at)
           Kept == {d \in Prefix :
                      \A e \in Prefix :
                        MapSeq(e.covered, at) = MapSeq(d.covered, at) => e.covered <= d.covered}
<1>4. CopiedCheckpoints(at) = {MapCheckpoint(c, at) : c \in Kept} BY DEF CopiedCheckpoints
<1>5. \A d \in checkpoints : d \in Prefix <=> d.covered <= at BY DEF PrefixCheckpoints
<1>6. Prefix \subseteq checkpoints BY DEF PrefixCheckpoints
<1> HIDE DEF Prefix
<1>7. ASSUME NEW d \in Prefix
      PROVE  /\ d \in checkpoints /\ d.covered \in 1..at /\ d.invalidated \in 0..Len(log)
             /\ MapCheckpoint(d, at).covered = MapSeq(d.covered, at)
             /\ MapCheckpoint(d, at).ref = d.ref
             /\ MapSeq(d.covered, at) \in 1..MapSeq(at, at)
             /\ MapCheckpoint(d, at).covered <= n <=> d.covered <= x
             /\ Covers(MapCheckpoint(d, at), n) <=> Covers(d, x)
  <2>1. /\ d \in [covered : 1..Len(log), generation : Nat, ref : Refs, invalidated : 0..Len(log)]
        /\ d \in checkpoints /\ d.covered <= at
    BY <1>1, <1>5, <1>6 DEF Checkpoints
  <2>2. d.covered \in 1..at /\ d.invalidated \in 0..Len(log) BY <2>1, <1>1
  <2>3. PICK a : a = MapSeq(d.covered, at) OBVIOUS
  <2>4. PICK b : b = IF d.invalidated = 0 \/ d.invalidated > at THEN 0
                     ELSE MapSeq(d.invalidated, at)
    OBVIOUS
  <2>5. MapCheckpoint(d, at) = [d EXCEPT !.covered = a, !.invalidated = b]
    BY <2>3, <2>4, Zenon DEF MapCheckpoint
  <2>6. /\ MapCheckpoint(d, at).covered = a /\ MapCheckpoint(d, at).ref = d.ref
        /\ MapCheckpoint(d, at).invalidated = b
    BY <2>1, <2>5
  <2>7. MapSeq(d.covered, at) \in 1..MapSeq(at, at)
    <3>1. d.covered \in Int /\ at \in Int /\ d.covered <= at BY <2>2, <1>1
    <3>2. MapSeq(d.covered, at) \in Nat \ {0} /\ MapSeq(at, at) \in Nat \ {0} BY <3>1, <1>2
    <3>3. MapSeq(d.covered, at) <= MapSeq(at, at) BY <3>1, <1>2
    <3> QED BY <3>2, <3>3
  <2>8. MapCheckpoint(d, at).covered <= n <=> d.covered <= x BY <2>2, <2>3, <2>6, <1>3, <1>1
  <2>9. Covers(MapCheckpoint(d, at), n) <=> Covers(d, x)
    <3>1. CASE d.invalidated = 0 \/ d.invalidated > at
      <4>1. b = 0 BY <3>1, <2>4
      <4>2. d.invalidated = 0 \/ x < d.invalidated BY <3>1, <2>2, <1>1
      <4> QED BY <4>1, <4>2, <2>6, <2>8 DEF Covers
    <3>2. CASE ~(d.invalidated = 0 \/ d.invalidated > at)
      <4>1. b = MapSeq(d.invalidated, at) BY <3>2, <2>4
      <4>2. d.invalidated \in 0..at /\ d.invalidated # 0 BY <3>2, <2>2, <1>1
      <4>3. b \in Nat \ {0}
        <5>1. d.invalidated \in Int BY <4>2, <1>1
        <5> QED BY <5>1, <4>1, <1>2
      <4>4. b <= n <=> d.invalidated <= x BY <4>1, <4>2, <1>3
      <4>5. n < b <=> x < d.invalidated BY <4>2, <4>3, <4>4, <1>1
      <4> QED BY <4>2, <4>3, <4>5, <2>6, <2>8 DEF Covers
    <3> QED BY <3>1, <3>2
  <2> QED BY <2>1, <2>2, <2>3, <2>6, <2>7, <2>8, <2>9
<1>8. ASSUME NEW c \in CopiedCheckpoints(at)
      PROVE  \E d \in checkpoints :
              /\ d.ref = c.ref /\ d.covered <= at
              /\ c.covered \in 1..MapSeq(at, at)
              /\ c.covered <= n <=> d.covered <= x
              /\ Covers(c, n) <=> Covers(d, x)
              /\ \A e \in checkpoints :
                   e.covered <= at /\ MapSeq(e.covered, at) <= c.covered => e.covered <= d.covered
  <2>1. PICK d \in Kept : c = MapCheckpoint(d, at) BY <1>4
  <2>2. d \in Prefix OBVIOUS
  <2>3. ASSUME NEW e \in checkpoints, e.covered <= at, MapSeq(e.covered, at) <= c.covered
        PROVE  e.covered <= d.covered
    <3>1. e \in Prefix BY <2>3, <1>5
    <3>2. CASE MapSeq(e.covered, at) = MapSeq(d.covered, at) BY <3>1, <3>2
    <3>3. CASE MapSeq(e.covered, at) # MapSeq(d.covered, at)
      <4>1. e.covered \in Int /\ d.covered \in Int BY <3>1, <2>2, <1>7
      <4>2. MapSeq(e.covered, at) <= MapSeq(d.covered, at) BY <2>1, <2>2, <2>3, <1>7
      <4>3. d.covered <= e.covered => MapSeq(d.covered, at) <= MapSeq(e.covered, at)
        BY <4>1, <1>2
      <4>4. MapSeq(e.covered, at) \in Nat /\ MapSeq(d.covered, at) \in Nat BY <4>1, <1>2
      <4> HIDE DEF Kept
      <4> QED BY <4>1, <4>2, <4>3, <4>4, <3>3
    <3> QED BY <3>2, <3>3
  <2> HIDE DEF Kept
  <2>4. d.covered <= at BY <2>2, <1>7, <1>1
  <2> QED BY <2>1, <2>2, <2>3, <2>4, <1>7
<1>9. ASSUME NEW d \in checkpoints, d.covered <= x
      PROVE  \E c \in CopiedCheckpoints(at) :
                /\ c.covered = MapSeq(d.covered, at) /\ c.covered <= n
                /\ Covers(d, x) => Covers(c, n)
  <2>1. d \in Prefix
    <3>1. d.covered \in Int BY <1>1 DEF Checkpoints
    <3> QED BY <3>1, <1>1, <1>5, <1>9
  <2> DEFINE Same == {e \in Prefix : MapSeq(e.covered, at) = MapSeq(d.covered, at)}
  <2>2. Same \in SUBSET checkpoints /\ d \in Same /\ Same \subseteq Prefix BY <2>1, <1>6
  <2>3. PICK e \in Same : \A f \in Same : f.covered <= e.covered
    <3> HIDE DEF Same
    <3> QED BY <2>2, NewestIsOne
  <2>4. e \in Prefix /\ MapSeq(e.covered, at) = MapSeq(d.covered, at) BY <2>3
  <2>5. e \in Kept BY <2>3, <2>4
  <2>6. d.covered <= e.covered BY <2>2, <2>3
  <2> HIDE DEF Same, Kept
  <2>7. MapCheckpoint(e, at) \in CopiedCheckpoints(at) BY <2>5, <1>4
  <2>8. MapCheckpoint(e, at).covered = MapSeq(d.covered, at)
        /\ MapCheckpoint(e, at).covered <= n
    <3>1. MapSeq(d.covered, at) <= n BY <2>1, <1>7, <1>9
    <3> QED BY <3>1, <2>4, <1>7
  <2>9. Covers(d, x) => Covers(MapCheckpoint(e, at), n)
    <3>1. SUFFICES ASSUME Covers(d, x) PROVE Covers(e, x) BY <2>4, <1>7
    <3>2. e.covered <= x BY <2>4, <2>8, <1>7
    <3>3. e.invalidated # 0 => d.invalidated # 0 /\ d.invalidated <= e.invalidated
      BY <2>4, <2>6, <1>7 DEF Orderly
    <3>4. e.invalidated \in Nat /\ d.invalidated \in Nat BY <2>1, <2>4, <1>7, <1>1
    <3> QED BY <3>1, <3>2, <3>3, <3>4, <1>1 DEF Covers
  <2> QED BY <2>7, <2>8, <2>9
<1> QED BY <1>8, <1>9

(* The newest copied checkpoint that covers a boundary of the fork stands  *)
(* for the newest that covers its source.                                  *)
LEMMA NewestCopied ==
  ASSUME RowsTyped, Orderly(checkpoints, Len(log)), NEW at \in 1..Len(log),
         NEW n \in Nat, NEW x, Source(at, n, x),
         NEW c, NewestCovering(CopiedCheckpoints(at), n, c)
  PROVE  \E d \in checkpoints : NewestCovering(checkpoints, x, d) /\ d.ref = c.ref
<1>1. PICK d \in checkpoints :
        /\ d.ref = c.ref
        /\ Covers(c, n) <=> Covers(d, x)
        /\ \A e \in checkpoints :
             e.covered <= at /\ MapSeq(e.covered, at) <= c.covered => e.covered <= d.covered
  BY CopiedStandFor DEF NewestCovering
<1>2. \A e \in checkpoints : e.covered <= x =>
        \E f \in CopiedCheckpoints(at) : /\ f.covered = MapSeq(e.covered, at)
                                         /\ Covers(e, x) => Covers(f, n)
  BY CopiedStandFor
<1>3. ASSUME NEW e \in checkpoints, Covers(e, x) PROVE e.covered <= d.covered
  <2>1. e.covered <= x BY <1>3 DEF Covers
  <2>2. PICK f \in CopiedCheckpoints(at) : f.covered = MapSeq(e.covered, at) /\ Covers(f, n)
    BY <2>1, <1>2, <1>3
  <2>3. MapSeq(e.covered, at) <= c.covered BY <2>2 DEF NewestCovering
  <2>4. e.covered <= at
    <3>1. x \in 0..at /\ at \in Nat /\ e.covered \in Nat
      BY LenProperties DEF Source, RowsTyped, Checkpoints
    <3> QED BY <3>1, <2>1
  <2> QED BY <2>3, <2>4, <1>1
<1>4. Covers(d, x) BY <1>1 DEF NewestCovering
<1> QED BY <1>1, <1>3, <1>4 DEF NewestCovering

NewestEarlier(cs, seq, c) ==
  c \in cs /\ c.covered <= seq /\ \A d \in cs : d.covered <= seq => d.covered <= c.covered

(* What a selection is, without the choice. *)
LEMMA SelectionIs ==
  ASSUME NEW n \in Nat, NEW cs, \A c \in cs : c.covered \in 1..n, NEW seq
  PROVE  /\ (\E c \in cs : Covers(c, seq)) =>
              \E c \in cs : /\ NewestCovering(cs, seq, c)
                            /\ SelectFrom(cs, seq) = [ref |-> c.ref, covered |-> TRUE]
         /\ (\A c \in cs : ~Covers(c, seq)) /\ (\E c \in cs : c.covered <= seq) =>
              \E c \in cs : /\ NewestEarlier(cs, seq, c)
                            /\ SelectFrom(cs, seq) = [ref |-> c.ref, covered |-> FALSE]
         /\ (\A c \in cs : ~(c.covered <= seq)) =>
              SelectFrom(cs, seq) = [ref |-> {}, covered |-> FALSE]
<1> DEFINE earlier == {c \in cs : c.covered <= seq}
           covering == {c \in cs : Covers(c, seq)}
<1>1. ASSUME covering # {}
      PROVE  \E c \in cs : /\ NewestCovering(cs, seq, c)
                           /\ SelectFrom(cs, seq) = [ref |-> c.ref, covered |-> TRUE]
  <2>1. SelectFrom(cs, seq) = [ref |-> Newest(covering).ref, covered |-> TRUE]
    BY <1>1 DEF SelectFrom
  <2>2. Newest(covering) \in covering /\ \A d \in covering : d.covered <= Newest(covering).covered
    <3>1. \A c \in covering : c.covered \in 1..n OBVIOUS
    <3> HIDE DEF covering
    <3> QED BY <3>1, <1>1, NewestExists
  <2>3. PICK c : c = Newest(covering) OBVIOUS
  <2> QED BY <2>1, <2>2, <2>3 DEF NewestCovering
<1>2. ASSUME covering = {}, earlier # {}
      PROVE  \E c \in cs : /\ NewestEarlier(cs, seq, c)
                           /\ SelectFrom(cs, seq) = [ref |-> c.ref, covered |-> FALSE]
  <2>1. SelectFrom(cs, seq) = [ref |-> Newest(earlier).ref, covered |-> FALSE]
    BY <1>2 DEF SelectFrom
  <2>2. Newest(earlier) \in earlier /\ \A d \in earlier : d.covered <= Newest(earlier).covered
    <3>1. \A c \in earlier : c.covered \in 1..n OBVIOUS
    <3> HIDE DEF earlier
    <3> QED BY <3>1, <1>2, NewestExists
  <2>3. PICK c : c = Newest(earlier) OBVIOUS
  <2> QED BY <2>1, <2>2, <2>3 DEF NewestEarlier
<1>3. ASSUME earlier = {}
      PROVE  SelectFrom(cs, seq) = [ref |-> {}, covered |-> FALSE]
  <2>1. covering = {} BY <1>3 DEF Covers
  <2> QED BY <2>1, <1>3 DEF SelectFrom
<1> QED BY <1>1, <1>2, <1>3

(* A fork selects at a boundary what its source selects at the source of it. *)
LEMMA ForkSelects ==
  ASSUME RowsTyped, Orderly(checkpoints, Len(log)), NEW at \in 1..Len(log),
         NEW n \in Nat, NEW x, Source(at, n, x)
  PROVE  SelectFrom(CopiedCheckpoints(at), n) = Select(x)
<1>1. /\ Len(log) \in Nat /\ at \in Nat /\ x \in 0..at
      /\ \A c \in checkpoints : c.covered \in 1..Len(log)
      /\ \A c, d \in checkpoints : c.covered = d.covered => c = d
  BY DEF RowsTyped, Checkpoints, Source, Orderly
<1>2. \A c \in CopiedCheckpoints(at) : \E d \in checkpoints :
        /\ d.ref = c.ref /\ d.covered <= at
        /\ c.covered \in 1..MapSeq(at, at)
        /\ c.covered <= n <=> d.covered <= x
        /\ Covers(c, n) <=> Covers(d, x)
        /\ \A e \in checkpoints :
             e.covered <= at /\ MapSeq(e.covered, at) <= c.covered => e.covered <= d.covered
  BY CopiedStandFor
<1>3. \A d \in checkpoints : d.covered <= x =>
        \E c \in CopiedCheckpoints(at) : /\ c.covered = MapSeq(d.covered, at) /\ c.covered <= n
                                         /\ Covers(d, x) => Covers(c, n)
  BY CopiedStandFor
<1>4. MapSeq(at, at) \in Nat BY <1>1, MapSeqGrows
<1>5. \A c \in CopiedCheckpoints(at) : c.covered \in 1..MapSeq(at, at) BY <1>2
<1>6. (\E c \in CopiedCheckpoints(at) : Covers(c, n)) <=> (\E d \in checkpoints : Covers(d, x))
  BY <1>2, <1>3 DEF Covers
<1>7. CASE \E d \in checkpoints : Covers(d, x)
  <2>1. PICK c \in CopiedCheckpoints(at) :
          /\ NewestCovering(CopiedCheckpoints(at), n, c)
          /\ SelectFrom(CopiedCheckpoints(at), n) = [ref |-> c.ref, covered |-> TRUE]
    BY <1>4, <1>5, <1>6, <1>7, SelectionIs
  <2>2. PICK d \in checkpoints :
          /\ NewestCovering(checkpoints, x, d)
          /\ SelectFrom(checkpoints, x) = [ref |-> d.ref, covered |-> TRUE]
    BY <1>1, <1>7, SelectionIs
  <2>3. PICK e \in checkpoints : NewestCovering(checkpoints, x, e) /\ e.ref = c.ref
    BY <2>1, NewestCopied
  <2>4. e.covered <= d.covered /\ d.covered <= e.covered BY <2>2, <2>3 DEF NewestCovering
  <2>5. e = d BY <2>4, <1>1
  <2> QED BY <2>1, <2>2, <2>3, <2>5 DEF Select
<1>8. CASE (\A d \in checkpoints : ~Covers(d, x)) /\ (\E d \in checkpoints : d.covered <= x)
  <2>1. \A c \in CopiedCheckpoints(at) : ~Covers(c, n) BY <1>6, <1>8
  <2>2. \E c \in CopiedCheckpoints(at) : c.covered <= n BY <1>3, <1>8
  <2>3. PICK c \in CopiedCheckpoints(at) :
          /\ NewestEarlier(CopiedCheckpoints(at), n, c)
          /\ SelectFrom(CopiedCheckpoints(at), n) = [ref |-> c.ref, covered |-> FALSE]
    BY <1>4, <1>5, <2>1, <2>2, SelectionIs
  <2>4. PICK d \in checkpoints :
          /\ NewestEarlier(checkpoints, x, d)
          /\ SelectFrom(checkpoints, x) = [ref |-> d.ref, covered |-> FALSE]
    BY <1>1, <1>8, SelectionIs
  <2>5. PICK e \in checkpoints :
          /\ e.ref = c.ref /\ e.covered <= x
          /\ \A f \in checkpoints :
               f.covered <= at /\ MapSeq(f.covered, at) <= c.covered => f.covered <= e.covered
    BY <2>3, <1>2 DEF NewestEarlier
  <2>6. d.covered <= e.covered
    <3>1. d.covered <= x /\ d.covered <= at BY <2>4, <1>1 DEF NewestEarlier
    <3>2. PICK f \in CopiedCheckpoints(at) : f.covered = MapSeq(d.covered, at) /\ f.covered <= n
      BY <3>1, <1>3
    <3>3. f.covered <= c.covered BY <3>2, <2>3 DEF NewestEarlier
    <3> QED BY <3>1, <3>2, <3>3, <2>5
  <2>7. e.covered <= d.covered BY <2>4, <2>5 DEF NewestEarlier
  <2>8. e = d BY <2>6, <2>7, <1>1
  <2> QED BY <2>3, <2>4, <2>5, <2>8 DEF Select
<1>9. CASE \A d \in checkpoints : ~(d.covered <= x)
  <2>1. \A c \in CopiedCheckpoints(at) : ~(c.covered <= n) BY <1>2, <1>9
  <2>2. SelectFrom(CopiedCheckpoints(at), n) = [ref |-> {}, covered |-> FALSE]
    BY <1>4, <1>5, <2>1, SelectionIs
  <2>3. SelectFrom(checkpoints, x) = [ref |-> {}, covered |-> FALSE]
    BY <1>1, <1>9, SelectionIs
  <2> QED BY <2>2, <2>3 DEF Select
<1> QED BY <1>7, <1>8, <1>9 DEF Covers

(* The log of a fork with the resource, its checkpoints and its row. *)
LEMMA ForkedResource ==
  ASSUME RowsInv, NEW at \in 1..Len(log), Fork(at), row.registered \in 1..at
  PROVE  /\ checkpoints' = CopiedCheckpoints(at)
         /\ row'.ref = Select(at).ref /\ ~row'.bound
         /\ row'.registered = MapSeq(row.registered, at)
         /\ MapSeq(at, at) \in Nat \ {0} /\ Len(log') \in Nat
         /\ Len(log') > MapSeq(at, at)
         /\ \A i \in 1..MapSeq(at, at) : log'[i] = Opening(at)[i]
         /\ log'[MapSeq(at, at) + 1].type = "initialized"
         /\ log'[MapSeq(at, at) + 1].ref = row'.ref
         /\ \A i \in MapSeq(at, at) + 2 .. Len(log') : log'[i] = Note("checkpointed")
<1> DEFINE m == MapSeq(at, at)
<1>1. RowsTyped /\ Orderly(checkpoints, Len(log)) /\ log \in Seq(EventRecords) /\ at \in Nat
  BY DEF RowsInv, RowsTyped
<1>2. /\ row' = CopiedRow(at, OutcomesIn(at)) /\ checkpoints' = CopiedCheckpoints(at)
      /\ log' = (Opening(at) \o <<Event("initialized", NoStep, row'.generation, row'.ref)>>)
                \o [i \in 1..Cardinality(checkpoints') |-> Note("checkpointed")]
  BY DEF Fork, Opening
<1>3. m \in Nat \ {0} BY <1>1, MapSeqGrows
<1>4. PICK k : k = Cardinality(checkpoints') OBVIOUS
<1>5. k \in Nat
  <2>1. /\ \A c \in checkpoints' : c \in Checkpoints(m)
        /\ \A c, d \in checkpoints' : c.covered = d.covered => c = d
    BY <1>1, <1>2, CopiedCheckpointsOrdered
  <2>2. \A c \in checkpoints' : c.covered \in 1..m BY <2>1 DEF Checkpoints
  <2> QED BY <2>1, <2>2, <1>3, <1>4, FinitelyMany
<1>6. row' \in [registered : 0..Len(log'), generation : Nat, count : Nat,
                every : Intervals \cup {0}, reuse : BOOLEAN, bound : BOOLEAN, ref : Refs]
  BY ForkKeepsRows DEF RowsInv, RowsTyped
<1>7. PICK mark : mark = Event("initialized", NoStep, row'.generation, row'.ref) OBVIOUS
<1>8. mark \in EventRecords /\ mark.type = "initialized" /\ mark.ref = row'.ref
  <2>1. "initialized" \in EventTypes BY DEF EventTypes
  <2> QED BY <2>1, <1>6, <1>7, NoteTyped DEF Event
<1>9. log' = ForkLog(at, mark, k) BY <1>2, <1>4, <1>7 DEF ForkLog
<1>10. /\ Len(ForkLog(at, mark, k)) = MapSeq(at, at) + 1 + k
       /\ \A i \in 1..MapSeq(at, at) : ForkLog(at, mark, k)[i] = Opening(at)[i]
       /\ ForkLog(at, mark, k)[MapSeq(at, at) + 1] = mark
       /\ \A i \in MapSeq(at, at) + 2 .. MapSeq(at, at) + 1 + k :
            ForkLog(at, mark, k)[i] = Note("checkpointed")
  <2>1. log \in Seq(EventRecords) BY <1>1
  <2>2. Len(ForkLog(at, mark, k)) = MapSeq(at, at) + 1 + k BY <2>1, <1>5, <1>8, LogOfFork
  <2>3. \A i \in 1..MapSeq(at, at) : ForkLog(at, mark, k)[i] = Opening(at)[i]
    BY <2>1, <1>5, <1>8, LogOfFork
  <2>4. ForkLog(at, mark, k)[MapSeq(at, at) + 1] = mark
    <3>1. mark \in EventRecords /\ k \in Nat BY <1>5, <1>8
    <3> HIDE DEF m
    <3> QED BY <3>1, <2>1, LogOfFork
  <2>5. \A i \in MapSeq(at, at) + 2 .. MapSeq(at, at) + 1 + k :
          ForkLog(at, mark, k)[i] = Note("checkpointed")
    BY <2>1, <1>5, <1>8, LogOfFork
  <2> QED BY <2>2, <2>3, <2>4, <2>5
<1>11. row'.ref = Select(at).ref /\ ~row'.bound /\ row'.registered = MapSeq(row.registered, at)
  <2>1. PICK ref, g, count, reg :
          row' = [row EXCEPT !.registered = reg, !.generation = g, !.count = count,
                             !.bound = FALSE, !.ref = ref]
          /\ ref = Select(at).ref /\ reg = MapSeq(row.registered, at)
    BY <1>2, Zenon DEF CopiedRow
  <2> QED BY <2>1, <1>1 DEF RowsTyped
<1>12. Len(log') = m + 1 + k BY <1>9, <1>10
<1>13. Len(log') \in Nat /\ Len(log') > m BY <1>12, <1>3, <1>5
<1>14. \A i \in m + 2 .. Len(log') : log'[i] = Note("checkpointed") BY <1>9, <1>10, <1>12
<1>15. /\ \A i \in 1..m : log'[i] = Opening(at)[i]
       /\ log'[m + 1] = mark
  BY <1>9, <1>10
<1> QED BY <1>2, <1>3, <1>8, <1>11, <1>13, <1>14, <1>15

(* A fork of a fork that did nothing selects what the fork selected, and    *)
(* the agent of the fork restores exactly that.                             *)
THEOREM CoverageCarried == Spec => ForkKeepsCoverage
<1> DEFINE Carried ==
      \A at \in 1..Len(log) :
        Fork(at) /\ row.registered \in 1..at =>
          /\ SelectFrom(checkpoints', Len(log')) = Select(at)
          /\ row'.ref = Select(at).ref
<1>1. CountInv => Carried
  <2>1. SUFFICES ASSUME CountInv, NEW at \in 1..Len(log), Fork(at), row.registered \in 1..at
                 PROVE  /\ SelectFrom(checkpoints', Len(log')) = Select(at)
                        /\ row'.ref = Select(at).ref
    OBVIOUS
  <2>2. RowsInv /\ RowsTyped /\ Orderly(checkpoints, Len(log)) /\ at \in Nat
    <3>1. RowsInv /\ RowsTyped /\ Orderly(checkpoints, Len(log)) BY <2>1 DEF CountInv, RowsInv
    <3>2. Len(log) \in Nat BY <3>1 DEF RowsTyped
    <3> QED BY <3>1, <3>2
  <2>3. /\ checkpoints' = CopiedCheckpoints(at) /\ row'.ref = Select(at).ref
        /\ MapSeq(at, at) \in Nat \ {0} /\ Len(log') \in Nat /\ Len(log') > MapSeq(at, at)
    BY <2>1, <2>2, ForkedResource
  <2>4. PICK n : n = Len(log') OBVIOUS
  <2>5. n \in Nat \ {0} /\ n >= MapSeq(at, at) BY <2>3, <2>4
  <2>6. Source(at, n, at) BY <2>2, <2>5, SourceExists
  <2>7. SelectFrom(CopiedCheckpoints(at), n) = Select(at)
    BY <2>2, <2>5, <2>6, ForkSelects
  <2> QED BY <2>3, <2>4, <2>7
<1>2. CountInv => [Carried]_vars BY <1>1
<1> QED BY <1>2, CountInvariance, PTL DEF ForkKeepsCoverage

-----------------------------------------------------------------------------
(* Steps of one execution                                                  *)

(* The log grows, and restores nothing. *)
LogGrows ==
  /\ log' \in Seq(EventRecords) /\ Len(log') \in Nat /\ Len(log) <= Len(log')
  /\ \A i \in 1..Len(log) : log'[i] = log[i]
  /\ \A i \in Len(log)+1..Len(log') : log'[i].type # "initialized"

Growth ==
  /\ LogGrows
  /\ row'.generation \in Nat /\ row.generation <= row'.generation
  /\ row.bound => row'.bound
  /\ world \subseteq world'
  /\ \A s \in Affecting : step[s] = "executing" =>
       step'[s] = "executing" \/ Gains(log', Len(log), Len(log'), Ran, s)

(* No success but late ones. *)
NoSuccess ==
  \A s \in Affecting \ strays' : ~Gains(log', Len(log), Len(log'), {"succeeded"}, s)
NoOutcome == \A s \in Affecting : ~Gains(log', Len(log), Len(log'), Ran, s)

(* The effects of the log are the earlier ones and those just gained. *)
LEMMA EffectsGrow ==
  ASSUME RowsTyped, LogGrows
  PROVE  \A s : /\ Tried(log', Len(log'), s) <=>
                     Tried(log, Len(log), s) \/ Gains(log', Len(log), Len(log'), Ran, s)
                /\ Done(log', Len(log'), s) <=>
                     Done(log, Len(log), s) \/ Gains(log', Len(log), Len(log'), {"succeeded"}, s)
<1>1. /\ Len(log) \in Nat /\ Len(log') \in Nat /\ Len(log) <= Len(log')
      /\ \A i \in 1..Len(log) : log'[i] = log[i]
      /\ \A i \in Len(log)+1..Len(log') : log'[i].type # "initialized"
  BY DEF RowsTyped, LogGrows
<1>2. TAKE s
<1>3. Has(log', Len(log'), Ran, s) <=>
        Has(log, Len(log), Ran, s) \/ Gains(log', Len(log), Len(log'), Ran, s)
  BY <1>1, HasGrows
<1>4. Has(log', Len(log'), {"succeeded"}, s) <=>
        Has(log, Len(log), {"succeeded"}, s) \/ Gains(log', Len(log), Len(log'), {"succeeded"}, s)
  BY <1>1, HasGrows
<1> QED BY <1>3, <1>4 DEF Tried, Done

(* An unchanged agent, request or lease, whatever the others do. *)
LEMMA AgentStays ==
  ASSUME RowsTyped, Growth, NEW r \in Runs, AgentsInv, AgentFollows(agent[r]),
         agent'[r] = agent[r], strays \subseteq strays',
         NoSuccess \/ agent[r].generation < row.generation
  PROVE  AgentFollows(agent[r])'
<1>1. \A s : Tried(log, Len(log), s) => Tried(log', Len(log'), s)
  BY EffectsGrow DEF Growth
<1>2. \A s : Gains(log', Len(log), Len(log'), Ran, s) => Tried(log', Len(log'), s)
  BY EffectsGrow DEF Growth
<1>3. PICK a : a = agent[r] OBVIOUS
<1>4. /\ a.at \in AtWork => a.step \in Affecting
      /\ a.generation \in Nat /\ row.generation \in Nat
  BY <1>3 DEF AgentsInv, AgentsTyped, RowsTyped
<1>5. /\ a.at \in AtWork \cup {"idle"} => row'.bound
      /\ a.generation <= row'.generation
      /\ a.at = "captured" => a.ref \subseteq world'
  BY <1>3, <1>4 DEF AgentFollows, Growth
<1>6. a.at \in AtWork => step'[a.step] = "executing" \/ Tried(log', Len(log'), a.step)
  BY <1>1, <1>2, <1>3, <1>4 DEF AgentFollows, Growth
<1>7. ASSUME a.at = "captured", a.generation = row'.generation,
             NEW s \in Affecting \ strays', Done(log', Len(log'), s)
      PROVE  s \in a.ref
  <2>1. a.generation = row.generation BY <1>3, <1>4, <1>7 DEF AgentFollows, Growth
  <2>2. NoSuccess BY <2>1, <1>3, <1>4
  <2>3. Done(log, Len(log), s) BY <2>2, <1>7, EffectsGrow DEF Growth, NoSuccess
  <2> QED BY <2>1, <2>3, <1>3, <1>7 DEF AgentFollows, Current
<1> QED BY <1>3, <1>5, <1>6, <1>7 DEF AgentFollows, Current

(* An unchanged request stays current while nothing succeeds, or is stale. *)
LEMMA RequestStays ==
  ASSUME RowsTyped, AgentsTyped, Growth, RequestFollows, sent' = sent,
         strays \subseteq strays',
         NoSuccess \/ sent.generation < row.generation
  PROVE  RequestFollows'
<1>1. sent.generation \in Nat /\ row.generation \in Nat /\ row'.generation \in Nat
  BY DEF AgentsTyped, RowsTyped, Growth
<1>2. sent.ref \subseteq world' /\ sent.generation <= row'.generation
  BY <1>1 DEF RequestFollows, Growth
<1>3. ASSUME sent.by # 0, sent.generation = row'.generation,
             NEW s \in Affecting \ strays', Done(log', Len(log'), s)
      PROVE  s \in sent.ref
  <2>1. sent.generation = row.generation BY <1>1, <1>3 DEF RequestFollows, Growth
  <2>2. NoSuccess BY <2>1, <1>1
  <2>3. Done(log, Len(log), s) BY <2>2, <1>3, EffectsGrow DEF Growth, NoSuccess
  <2> QED BY <2>1, <2>3, <1>3 DEF RequestFollows, Current
<1> QED BY <1>2, <1>3 DEF RequestFollows, Current

(* What the holder of the lease left behind stays there, while it works. *)
LEMMA LeaseStays ==
  ASSUME RowsTyped, AgentsTyped, Growth, LeaseFollows, sent' = sent, lease' = lease,
         \A r \in Runs : agent'[r].generation = agent[r].generation,
         agent'[lease].at \in AtWork => agent[lease].at \in AtWork
  PROVE  LeaseFollows'
<1>1. /\ sent.generation \in Nat /\ row.generation \in Nat /\ row'.generation \in Nat
      /\ \A r \in Runs : agent[r].generation \in Nat
      /\ row.generation <= row'.generation
  BY DEF AgentsTyped, RowsTyped, Growth
<1> QED BY <1>1 DEF LeaseFollows

(* Restorations come after the registration. *)
LEMMA RestorationsStay ==
  ASSUME RowsTyped, LogGrows, WorldFollows,
         row.registered > 0 => row'.registered = row.registered,
         NEW i \in 1..Len(log'), log'[i].type = "initialized"
  PROVE  row'.registered \in 1..i
<1>1. Len(log') \in Nat /\ \A j \in Len(log)+1..Len(log') : log'[j].type # "initialized"
  BY DEF LogGrows
<1>2. i \in 1..Len(log)
  <2>1. Len(log) \in Nat BY DEF RowsTyped
  <2> QED BY <1>1, <2>1
<1>3. log'[i] = log[i] BY <1>2 DEF LogGrows
<1>4. row.registered \in 1..i BY <1>2, <1>3 DEF WorldFollows
<1> QED BY <1>4

(* The environment, while no affecting step comes to an outcome. *)
LEMMA WorldStays ==
  ASSUME RowsTyped, Growth, WorldFollows, world \in Refs, NoOutcome,
         row'.bound = row.bound, row'.ref = row.ref, world' = world,
         row.registered > 0 => row'.registered = row.registered
  PROVE  WorldFollows'
<1>1. /\ Len(log) \in Nat /\ row.registered \in Nat
      /\ row.ref \subseteq Affecting /\ world \subseteq Affecting
  BY DEF RowsTyped, Refs
<1>2. \A s \in Affecting : Tried(log', Len(log'), s) <=> Tried(log, Len(log), s)
  BY EffectsGrow DEF Growth, NoOutcome
<1>3. \A s \in Affecting : Done(log', Len(log'), s) => Done(log, Len(log), s)
  <2>1. \A s \in Affecting : ~Gains(log', Len(log), Len(log'), {"succeeded"}, s)
    BY DEF NoOutcome, Gains, Ran
  <2> QED BY <2>1, EffectsGrow DEF Growth
<1>4. \A i \in 1..Len(log') : log'[i].type = "initialized" => row'.registered \in 1..i
  BY RestorationsStay DEF Growth
<1>5. /\ ~row'.bound => /\ world' = {}
                        /\ \A s \in Affecting : Tried(log', Len(log'), s) => s \in row'.ref
      /\ \A s \in row'.ref : Tried(log', Len(log'), s)
      /\ row'.bound => \A s \in Affecting : Done(log', Len(log'), s) => s \in world'
  BY <1>1, <1>2, <1>3 DEF WorldFollows
<1>6. \A s \in world' : Tried(log', Len(log'), s) \/ step'[s] = "executing"
  BY <1>1, <1>2 DEF WorldFollows, Growth, NoOutcome
<1> QED BY <1>4, <1>5, <1>6 DEF WorldFollows

(* The environment, when an affecting step comes to an outcome. *)
LEMMA WorldAfterOutcome ==
  ASSUME RowsTyped, Growth, WorldFollows, world \in Refs, row.bound,
         row'.bound = row.bound, row'.ref = row.ref, world' = world,
         row'.registered = row.registered,
         \A s \in Affecting :
           Gains(log', Len(log), Len(log'), {"succeeded"}, s) => s \in world
  PROVE  WorldFollows'
<1>1. world \subseteq Affecting BY DEF Refs
<1>2. \A s : /\ Tried(log', Len(log'), s) <=>
                  Tried(log, Len(log), s) \/ Gains(log', Len(log), Len(log'), Ran, s)
             /\ Done(log', Len(log'), s) <=>
                  \/ Done(log, Len(log), s)
                  \/ Gains(log', Len(log), Len(log'), {"succeeded"}, s)
  BY EffectsGrow DEF Growth
<1>3. \A i \in 1..Len(log') : log'[i].type = "initialized" => row'.registered \in 1..i
  BY RestorationsStay DEF Growth
<1>4. \A s \in row'.ref : Tried(log', Len(log'), s) BY <1>2 DEF WorldFollows
<1>5. \A s \in world' : Tried(log', Len(log'), s) \/ step'[s] = "executing"
  BY <1>1, <1>2 DEF WorldFollows, Growth
<1>6. \A s \in Affecting : Done(log', Len(log'), s) => s \in world'
  BY <1>2 DEF WorldFollows
<1> QED BY <1>3, <1>4, <1>5, <1>6 DEF WorldFollows

(* A capture that holds what its boundary stands for, recorded with events  *)
(* of which none is a success while a checkpoint is open, keeps coverage.   *)
LEMMA CapturesCover ==
  ASSUME RowsTyped, Orderly(checkpoints, Len(log)), NEW late,
         CoverageOK(log, checkpoints, late),
         NEW covered \in Nat, NEW events \in Seq(EventRecords), NEW st, NEW captures,
         covered = Len(events), covered >= Len(log),
         \A c \in captures : c.generation \in Nat /\ c.ref \in Refs,
         \A c, d \in captures : c = d,
         Writing(st) => \A c \in checkpoints : c.invalidated # 0,
         RecordCaptures(captures, covered, events, st),
         \A i \in 1..Len(log) : events[i] = log[i],
         \A i \in Len(log)+1..covered : events[i].type # "initialized",
         (\E c \in checkpoints : c.invalidated = 0) =>
            \A i \in Len(log)+1..covered :
              ~(events[i].type = "succeeded" /\ events[i].step \in Affecting),
         \A c \in captures : Acceptable(c, st) => Matches(events, covered, c.ref, late)
  PROVE  /\ LogGrows /\ Len(log') >= covered
         /\ \A i \in 1..covered : log'[i] = events[i]
         /\ \A i \in covered+1..Len(log') : log'[i].type \notin Final
         /\ CoverageOK(log', checkpoints', late)
<1>1. /\ log' \in Seq(EventRecords) /\ Len(log') \in Nat \ {0} /\ Len(log') >= covered
      /\ \A i \in 1..covered : log'[i] = events[i]
      /\ \A i \in 1..Len(log') :
           i > covered => log'[i] \in {Note("checkpointed"), Note("checkpoint_failed")}
  BY CapturesRecorded
<1>2. Len(log) \in Nat BY DEF RowsTyped
<1>3. \A i \in covered+1..Len(log') : /\ log'[i].type \notin Final
                                      /\ log'[i].type # "initialized"
  <2>1. TAKE i \in covered+1..Len(log')
  <2>2. log'[i] \in {Note("checkpointed"), Note("checkpoint_failed")} BY <1>1
  <2> QED BY <2>2 DEF Note, Event, Final
<1>4. LogGrows
  <2>1. \A i \in 1..Len(log) : i \in 1..covered BY <1>2
  <2>2. \A i \in Len(log)+1..Len(log') : log'[i].type # "initialized"
    <3>1. TAKE i \in Len(log)+1..Len(log')
    <3>2. CASE i \in 1..covered
      <4>1. i \in Len(log)+1..covered BY <3>2, <1>2
      <4> QED BY <4>1, <3>2, <1>1
    <3>3. CASE i \notin 1..covered
      <4>1. i \in covered+1..Len(log') BY <3>3, <1>1, <1>2
      <4> QED BY <4>1, <1>3
    <3> QED BY <3>2, <3>3
  <2>3. Len(log) <= Len(log') BY <1>1, <1>2
  <2>4. \A i \in 1..Len(log) : log'[i] = log[i] BY <2>1, <1>1
  <2> QED BY <1>1, <2>2, <2>3, <2>4 DEF LogGrows
<1>5. CoverageOK(log', checkpoints', late)
  <2> DEFINE accepted == {c \in captures : row.registered > 0 /\ Acceptable(c, st)}
             added == {Checkpoint(c, covered) : c \in accepted}
  <2>1. checkpoints' = checkpoints \cup added BY DEF RecordCaptures
  <2>2. ASSUME NEW c \in added
        PROVE  c.covered = covered /\ \A seq \in covered..Len(log') : Matches(log', seq, c.ref, late)
    <3>1. PICK a \in accepted : c = Checkpoint(a, covered) OBVIOUS
    <3>2. c.covered = covered /\ c.ref = a.ref BY <3>1 DEF Checkpoint
    <3>3. Matches(events, covered, a.ref, late) OBVIOUS
    <3>4. ASSUME NEW seq \in covered..Len(log') PROVE Matches(log', seq, a.ref, late)
      <4>1. seq \in Nat /\ covered <= seq OBVIOUS
      <4>2. \A i \in covered+1..seq : /\ log'[i].type # "initialized"
                                      /\ ~(log'[i].type = "succeeded" /\ log'[i].step \in Affecting)
        <5>1. \A i \in covered+1..seq : i \in covered+1..Len(log') BY <1>1
        <5> QED BY <5>1, <1>3 DEF Final
      <4> QED BY <4>1, <4>2, <3>3, <1>1, MatchesGrows
    <3> QED BY <3>2, <3>4
  <2>3. ASSUME \E c \in checkpoints : c.invalidated = 0,
               NEW i \in Len(log)+1..Len(log')
        PROVE  ~(log'[i].type = "succeeded" /\ log'[i].step \in Affecting)
    <3>2. CASE i \in 1..covered
      <4>1. i \in Len(log)+1..covered BY <3>2, <1>2
      <4> QED BY <4>1, <3>2, <1>1, <2>3
    <3>3. CASE i \notin 1..covered
      <4>1. i \in covered+1..Len(log') BY <3>3, <1>1, <1>2
      <4> QED BY <4>1, <1>3 DEF Final
    <3> QED BY <3>2, <3>3
  <2> HIDE DEF added
  <2>4. /\ Len(log) <= Len(log') /\ Len(log') \in Nat
        /\ \A i \in 1..Len(log) : log'[i] = log[i]
        /\ \A i \in Len(log)+1..Len(log') : log'[i].type # "initialized"
    BY <1>4 DEF LogGrows
  <2>5. checkpoints' \subseteq checkpoints \cup added /\ checkpoints \subseteq checkpoints'
    BY <2>1
  <2>6. (\E c \in checkpoints : c.invalidated = 0) =>
           \A i \in Len(log)+1..Len(log') :
             ~(log'[i].type = "succeeded" /\ log'[i].step \in Affecting)
    BY <2>3
  <2>7. \A c \in added : /\ c.covered = covered /\ covered <= Len(log')
                         /\ \A seq \in covered..Len(log') : Matches(log', seq, c.ref, late)
    BY <2>2, <1>1
  <2> QED BY <2>4, <2>5, <2>6, <2>7, CoverageKept
<1> QED BY <1>1, <1>3, <1>4, <1>5

(* Events that record nothing of the checkpoints. *)
LEMMA CoverageUntouched ==
  ASSUME RowsTyped, NEW late, CoverageOK(log, checkpoints, late), LogGrows, NoOutcome,
         checkpoints' = checkpoints
  PROVE  CoverageOK(log', checkpoints', late)
<1>1. /\ Len(log) <= Len(log') /\ Len(log') \in Nat /\ Len(log) \in Nat
      /\ \A i \in 1..Len(log) : log'[i] = log[i]
      /\ \A i \in Len(log)+1..Len(log') : log'[i].type # "initialized"
  BY DEF LogGrows, RowsTyped
<1>2. \A i \in Len(log)+1..Len(log') : ~(log'[i].type = "succeeded" /\ log'[i].step \in Affecting)
  BY DEF NoOutcome, Gains, Ran
<1>3. PICK added : added = {} OBVIOUS
<1>4. checkpoints' \subseteq checkpoints \cup added /\ checkpoints \subseteq checkpoints'
      /\ \A c \in added : FALSE
  BY <1>3
<1> QED BY <1>1, <1>2, <1>4, CoverageKept

(* One event that is no restoration and no outcome. *)
LEMMA OneMoreEvent ==
  ASSUME RowsTyped, NEW e \in EventRecords, log' = Append(log, e), e.type # "initialized"
  PROVE  /\ LogGrows /\ Len(log') = Len(log) + 1 /\ log'[Len(log) + 1] = e
         /\ \A outcomes, s : Gains(log', Len(log), Len(log'), outcomes, s) <=>
                               e.type \in outcomes /\ e.step = s
<1>1. log \in Seq(EventRecords) /\ Len(log) \in Nat BY DEF RowsTyped
<1>2. /\ log' \in Seq(EventRecords) /\ Len(log') = Len(log) + 1
      /\ \A i \in 1..Len(log) : log'[i] = log[i]
      /\ log'[Len(log) + 1] = e
  BY <1>1, AppendProperties
<1>3. \A i : i \in Len(log)+1..Len(log') <=> i = Len(log) + 1 BY <1>1, <1>2
<1>4. LogGrows BY <1>1, <1>2, <1>3 DEF LogGrows
<1>5. \A outcomes, s : Gains(log', Len(log), Len(log'), outcomes, s) <=>
                         e.type \in outcomes /\ e.step = s
  BY <1>2, <1>3 DEF Gains
<1> QED BY <1>2, <1>4, <1>5

(* No event, no effect. *)
LEMMA NothingNew ==
  ASSUME RowsTyped, log' = log
  PROVE  LogGrows /\ \A outcomes, s : ~Gains(log', Len(log), Len(log'), outcomes, s)
<1>1. log \in Seq(EventRecords) /\ Len(log) \in Nat BY DEF RowsTyped
<1>2. \A i \in Len(log)+1..Len(log') : FALSE BY <1>1
<1> QED BY <1>1, <1>2 DEF LogGrows, Gains

(* startStep: the generation of a touching step is new, and no checkpoint  *)
(* covers its event.                                                       *)
LEMMA StartEffects ==
  ASSUME RowsInv, NEW late, CoverageOK(log, checkpoints, late), NEW s \in Steps, step[s] \in {"absent", "executing"},
         s \in Affecting => row.registered > 0, StartStep(s), world' = world
  PROVE  /\ Growth /\ NoOutcome
         /\ CoverageOK(log', checkpoints', late)
         /\ row'.bound = row.bound /\ row'.ref = row.ref /\ row'.registered = row.registered
         /\ Touches(s) => row'.generation = row.generation + 1
         /\ ~Touches(s) => row' = row
         /\ step'[s] = "executing"
<1>1. /\ RowsTyped /\ Len(log) \in Nat /\ step \in [Steps -> Final \cup {"absent", "executing"}]
      /\ row \in [registered : 0..Len(log), generation : Nat, count : Nat,
                  every : Intervals \cup {0}, reuse : BOOLEAN, bound : BOOLEAN, ref : Refs]
  BY DEF RowsInv, RowsTyped
<1>2. step' = [step EXCEPT ![s] = "executing"] BY DEF StartStep
<1>3. \A t \in Steps : step'[t] = IF t = s THEN "executing" ELSE step[t] BY <1>1, <1>2
<1>4. /\ row'.bound = row.bound /\ row'.ref = row.ref /\ row'.registered = row.registered
      /\ row'.generation \in Nat /\ row.generation <= row'.generation
      /\ Touches(s) => row'.generation = row.generation + 1
      /\ ~Touches(s) => row' = row
  <2>1. CASE Touches(s)
    <3>1. row' = [row EXCEPT !.generation = @ + 1] BY <2>1 DEF StartStep
    <3> QED BY <3>1, <2>1, <1>1
  <2>2. CASE ~Touches(s)
    <3>1. row' = row BY <2>2 DEF StartStep
    <3> QED BY <3>1, <2>2, <1>1
  <2> QED BY <2>1, <2>2
<1>5. ASSUME NEW g \in Nat
      PROVE  Event("executing", s, g, {}) \in EventRecords
             /\ Event("executing", s, g, {}).type = "executing"
  BY NoteTyped DEF Event, EventTypes, Refs
<1>6. \/ log' = log /\ ~Touches(s)
      \/ \E g \in Nat : log' = Append(log, Event("executing", s, g, {}))
  <2>1. row.generation + 1 \in Nat /\ 0 \in Nat BY <1>1
  <2>2. CASE Touches(s)
    <3>1. log' = Append(log, Event("executing", s, row.generation + 1, {})) BY <2>2 DEF StartStep
    <3> QED BY <2>1, <3>1
  <2>3. CASE ~Touches(s)
    <3>1. log' = log \/ log' = Append(log, Event("executing", s, 0, {})) BY <2>3 DEF StartStep
    <3> QED BY <2>1, <2>3, <3>1
  <2> QED BY <2>2, <2>3
<1>7. /\ LogGrows
      /\ \A t : ~Gains(log', Len(log), Len(log'), Ran, t)
      /\ \A t : ~Gains(log', Len(log), Len(log'), {"succeeded"}, t)
      /\ Touches(s) => Len(log') = Len(log) + 1 /\ log'[Len(log) + 1].type = "executing"
  <2>1. CASE log' = log /\ ~Touches(s) BY <2>1, <1>1, NothingNew
  <2>2. ASSUME NEW g \in Nat, log' = Append(log, Event("executing", s, g, {}))
        PROVE  /\ LogGrows /\ Len(log') = Len(log) + 1
               /\ log'[Len(log) + 1].type = "executing"
               /\ \A t : ~Gains(log', Len(log), Len(log'), Ran, t)
               /\ \A t : ~Gains(log', Len(log), Len(log'), {"succeeded"}, t)
    <3>1. PICK e \in EventRecords : log' = Append(log, e) /\ e.type = "executing" BY <1>5, <2>2
    <3>2. LogGrows /\ Len(log') = Len(log) + 1 /\ log'[Len(log) + 1] = e
      BY <3>1, <1>1, OneMoreEvent
    <3>3. \A outcomes, t : Gains(log', Len(log), Len(log'), outcomes, t) <=>
                             e.type \in outcomes /\ e.step = t
      BY <3>1, <1>1, OneMoreEvent
    <3> QED BY <3>1, <3>2, <3>3 DEF Ran
  <2> QED BY <2>1, <2>2, <1>6
<1>8. NoOutcome /\ NoSuccess BY <1>7 DEF NoOutcome, NoSuccess
<1>9. Growth BY <1>3, <1>4, <1>7 DEF Growth, Steps
<1>10. CoverageOK(log', checkpoints', late)
  <2>1. CASE Touches(s)
    <3>1. checkpoints' = Invalidate(Len(log) + 1) BY <2>1 DEF StartStep
    <3>2. /\ Len(log') = Len(log) + 1 /\ \A i \in 1..Len(log) : log'[i] = log[i]
          /\ log'[Len(log) + 1].type # "initialized"
      BY <2>1, <1>7 DEF LogGrows
    <3> QED BY <3>1, <3>2, <1>1, CoverageEnded
  <2>2. CASE ~Touches(s)
    <3>1. checkpoints' = checkpoints BY <2>2 DEF StartStep
    <3> QED BY <3>1, <1>1, <1>7, <1>8, CoverageUntouched
  <2> QED BY <2>1, <2>2
<1> QED BY <1>1, <1>3, <1>4, <1>8, <1>9, <1>10

(* settleStep: the outcome is the only one, and its capture holds it. *)
LEMMA SettleEffects ==
  ASSUME RowsInv, NEW late, CoverageOK(log, checkpoints, late), NEW s \in Steps, step[s] = "executing",
         NEW outcome \in Ran, NEW captures,
         \A c \in captures : c.generation \in Nat /\ c.ref \in Refs,
         \A c, d \in captures : c = d,
         Settle(s, outcome, captures), world' = world,
         \A c \in captures : Acceptable(c, step') =>
           /\ \A t \in Affecting \ late :
                Done(log, Len(log), t) \/ (t = s /\ outcome = "succeeded") => t \in c.ref
           /\ \A t \in c.ref : Tried(log, Len(log), t) \/ t = s
  PROVE  /\ Growth
         /\ \A t : Gains(log', Len(log), Len(log'), Ran, t) <=> t = s
         /\ \A t : Gains(log', Len(log), Len(log'), {"succeeded"}, t) <=>
                     t = s /\ outcome = "succeeded"
         /\ CoverageOK(log', checkpoints', late)
         /\ row'.bound = row.bound /\ row'.ref = row.ref /\ row'.registered = row.registered
         /\ row'.generation = row.generation
         /\ \A t \in Steps : step'[t] = IF t = s THEN outcome ELSE step[t]
<1>1. /\ RowsTyped /\ log \in Seq(EventRecords) /\ Len(log) \in Nat
      /\ Orderly(checkpoints, Len(log))
      /\ step \in [Steps -> Final \cup {"absent", "executing"}]
      /\ row \in [registered : 0..Len(log), generation : Nat, count : Nat,
                  every : Intervals \cup {0}, reuse : BOOLEAN, bound : BOOLEAN, ref : Refs]
  BY DEF RowsInv, RowsTyped
<1>2. step' = [step EXCEPT ![s] = outcome] /\ row' = Settled(s) BY DEF Settle
<1>3. \A t \in Steps : step'[t] = IF t = s THEN outcome ELSE step[t] BY <1>1, <1>2
<1>4. /\ row'.bound = row.bound /\ row'.ref = row.ref /\ row'.registered = row.registered
      /\ row'.generation = row.generation
  BY <1>1, <1>2 DEF Settled
<1> DEFINE e == Event(outcome, s, 0, {})
           events == Append(log, e)
           n == Len(log) + 1
<1>5. e \in EventRecords /\ e.type = outcome /\ e.step = s /\ e.type # "initialized"
  <2>1. outcome \in EventTypes /\ s \in Steps \cup {NoStep} /\ {} \in Refs
    BY DEF EventTypes, Final, Ran, Refs
  <2> QED BY <2>1 DEF Event, EventRecords, Ran
<1>6. /\ events \in Seq(EventRecords) /\ Len(events) = n
      /\ \A i \in 1..Len(log) : events[i] = log[i]
      /\ events[n] = e
  <2> HIDE DEF e
  <2> QED BY <1>1, <1>5, AppendProperties
<1>7. PICK st : st = step' OBVIOUS
<1>8. RecordCaptures(captures, n, events, st) BY <1>7 DEF Settle
<1>9. Writing(st) => Writing(step) BY <1>3, <1>7 DEF Writing, Ran, Steps
<1>10. Writing(st) => \A c \in checkpoints : c.invalidated # 0
  BY <1>9 DEF RowsInv, ClosedWhileWriting
<1> HIDE DEF e, events
<1>11. n \in Nat /\ n >= Len(log) BY <1>1
<1>12. \A i : i \in Len(log)+1..n <=> i = n BY <1>1
<1>13. \A i \in Len(log)+1..n : events[i].type # "initialized" BY <1>5, <1>6, <1>12
<1>14. (\E c \in checkpoints : c.invalidated = 0) =>
          \A i \in Len(log)+1..n : ~(events[i].type = "succeeded" /\ events[i].step \in Affecting)
  <2>1. SUFFICES ASSUME s \in Affecting, \E c \in checkpoints : c.invalidated = 0 PROVE FALSE
    BY <1>5, <1>6, <1>12
  <2>2. Writing(step) BY <2>1 DEF Writing
  <2> QED BY <2>1, <2>2 DEF RowsInv, ClosedWhileWriting
<1>15. \A outcomes, t : Gains(events, Len(log), n, outcomes, t) <=> outcome \in outcomes /\ t = s
  BY <1>5, <1>6, <1>12 DEF Gains
<1>16. ASSUME NEW c \in captures, Acceptable(c, st) PROVE Matches(events, n, c.ref, late)
  <2>1. /\ \A t \in Affecting \ late :
             Done(log, Len(log), t) \/ (t = s /\ outcome = "succeeded") => t \in c.ref
        /\ \A t \in c.ref : Tried(log, Len(log), t) \/ t = s
    BY <1>7, <1>16
  <2>2. ASSUME NEW t
        PROVE  /\ Has(events, n, {"succeeded"}, t) <=>
                    \/ Has(log, Len(log), {"succeeded"}, t)
                    \/ Gains(events, Len(log), n, {"succeeded"}, t)
               /\ Has(events, n, Ran, t) <=>
                    Has(log, Len(log), Ran, t) \/ Gains(events, Len(log), n, Ran, t)
    <3> HIDE DEF n
    <3>1. Has(events, n, {"succeeded"}, t) <=>
            \/ Has(log, Len(log), {"succeeded"}, t)
            \/ Gains(events, Len(log), n, {"succeeded"}, t)
      BY <1>1, <1>6, <1>11, <1>13, HasGrows
    <3>2. Has(events, n, Ran, t) <=>
            Has(log, Len(log), Ran, t) \/ Gains(events, Len(log), n, Ran, t)
      BY <1>1, <1>6, <1>11, <1>13, HasGrows
    <3> QED BY <3>1, <3>2
  <2>4. \A t : Done(events, n, t) => Done(log, Len(log), t) \/ (t = s /\ outcome = "succeeded")
    BY <2>2, <1>15 DEF Done
  <2>5. \A t : Tried(log, Len(log), t) \/ t = s => Tried(events, n, t)
    BY <2>2, <1>15 DEF Tried
  <2> QED BY <2>1, <2>4, <2>5 DEF Matches
<1>17. /\ LogGrows /\ Len(log') >= n
       /\ \A i \in 1..n : log'[i] = events[i]
       /\ \A i \in n+1..Len(log') : log'[i].type \notin Final
       /\ CoverageOK(log', checkpoints', late)
  BY <1>1, <1>6, <1>8, <1>10, <1>11, <1>13, <1>14, <1>16, CapturesCover
<1>18. ASSUME NEW outcomes \in SUBSET Final, NEW t
       PROVE  Gains(log', Len(log), Len(log'), outcomes, t) <=> outcome \in outcomes /\ t = s
  <2>1. Len(log') \in Nat BY <1>17 DEF LogGrows
  <2>2. n \in Len(log)+1..Len(log') BY <2>1, <1>1, <1>17
  <2>3. log'[n] = e BY <1>6, <1>11, <1>17
  <2>4. \A i \in Len(log)+1..Len(log') : i = n \/ i \in n+1..Len(log') BY <2>1, <1>1
  <2>5. \A i \in n+1..Len(log') : log'[i].type \notin outcomes BY <1>17
  <2> HIDE DEF n
  <2> QED BY <2>2, <2>3, <2>4, <2>5, <1>5 DEF Gains
<1>19. \A t : Gains(log', Len(log), Len(log'), Ran, t) <=> t = s
  <2>1. Ran \in SUBSET Final BY DEF Ran, Final
  <2> QED BY <2>1, <1>18
<1>20. \A t : Gains(log', Len(log), Len(log'), {"succeeded"}, t) <=> t = s /\ outcome = "succeeded"
  <2>1. {"succeeded"} \in SUBSET Final BY DEF Final
  <2>2. PICK outcomes : outcomes = {"succeeded"} OBVIOUS
  <2>3. \A t : Gains(log', Len(log), Len(log'), outcomes, t) <=> outcome \in outcomes /\ t = s
    BY <2>1, <2>2, <1>18
  <2>4. outcome \in outcomes <=> outcome = "succeeded" BY <2>2
  <2> QED BY <2>2, <2>3, <2>4
<1>21. Growth
  <2>1. row'.generation \in Nat /\ row.generation <= row'.generation BY <1>1, <1>4
  <2> QED BY <2>1, <1>3, <1>4, <1>17, <1>19 DEF Growth, Steps
<1> QED BY <1>3, <1>4, <1>17, <1>19, <1>20, <1>21

(* The parts of the invariant. *)
LEMMA CoverParts ==
  ASSUME CoverInv
  PROVE  /\ CountInv /\ RowsInv /\ RowsTyped /\ AgentsInv /\ AgentsTyped
         /\ WorldFollows /\ (\A r \in Runs : AgentFollows(agent[r]))
         /\ RequestFollows /\ LeaseFollows /\ CoverageOK(log, checkpoints, strays)
BY DEF CoverInv, CountInv, RowsInv, AgentsInv

(* What is left to show where no affecting step comes to an outcome and    *)
(* neither the environment nor the request changes.                        *)
LEMMA CoverStays ==
  ASSUME CoverInv, CountInv', Growth, NoOutcome,
         row'.bound = row.bound, row'.ref = row.ref,
         row.registered > 0 => row'.registered = row.registered,
         world' = world, sent' = sent, strays' = strays,
         CoverageOK(log', checkpoints', strays'),
         \A r \in Runs : agent'[r] = agent[r] \/ AgentFollows(agent[r])',
         (lease' = lease /\ \A r \in Runs : agent'[r] = agent[r]) \/ LeaseFollows'
  PROVE  CoverInv'
<1>1. /\ RowsTyped /\ AgentsInv /\ AgentsTyped /\ WorldFollows /\ RequestFollows /\ LeaseFollows
      /\ \A r \in Runs : AgentFollows(agent[r])
  BY CoverParts
<1>2. NoSuccess BY DEF NoOutcome, NoSuccess, Gains, Ran
<1>3. WorldFollows' BY <1>1, WorldStays DEF AgentsTyped
<1>4. \A r \in Runs : AgentFollows(agent[r])' BY <1>1, <1>2, AgentStays
<1>5. RequestFollows' BY <1>1, <1>2, RequestStays
<1>6. LeaseFollows'
  <2>1. lease \in Runs BY <1>1 DEF AgentsTyped
  <2> QED BY <1>1, <2>1, LeaseStays
<1> QED BY <1>3, <1>4, <1>5, <1>6 DEF CoverInv

(* An agent that runs no step has captured nothing. *)
LEMMA NoneAtWork ==
  ASSUME agent'[lease'].at \notin AtWork
  PROVE  LeaseFollows'
BY DEF LeaseFollows, AtWork

(* RegisterResource: the agent learns the current generation. *)
LEMMA RegisterCovers ==
  ASSUME CoverInv, NEW r \in Runs, Register(r)
  PROVE  CoverInv'
<1>1. CountInv /\ RowsInv /\ RowsTyped /\ AgentsTyped /\ CoverageOK(log, checkpoints, strays) BY CoverParts
<1>2. CountInv' BY <1>1, RegisterKeeps
<1>3. /\ Len(log) \in Nat
      /\ row \in [registered : 0..Len(log), generation : Nat, count : Nat,
                  every : Intervals \cup {0}, reuse : BOOLEAN, bound : BOOLEAN, ref : Refs]
      /\ row.registered = 0 => row = NoRow
  BY <1>1 DEF RowsTyped, RowsInv, RegisteredFirst
<1>4. /\ lease = r
      /\ agent' = [agent EXCEPT ![r].at = IF row'.bound THEN "idle" ELSE "creating",
                                ![r].generation = row'.generation]
      /\ UNCHANGED <<step, checkpoints, world, lease, sent, forks, turns, strays>>
  BY DEF Register, Holds, leaseVars, strayVars
<1>5. PICK every \in Intervals, reuse \in BOOLEAN :
        \/ /\ row.registered = 0
           /\ row' = [NoRow EXCEPT !.registered = Len(log) + 1, !.every = every, !.reuse = reuse]
           /\ log' = Append(log, Note("registered"))
        \/ /\ row.registered > 0
           /\ row' = [row EXCEPT !.every = IF @ = 0 THEN every ELSE @]
           /\ log' = IF row.every = 0 /\ every > 0 THEN Append(log, Note("registered")) ELSE log
  BY DEF Register
<1>6. /\ row'.bound = row.bound /\ row'.ref = row.ref /\ row'.generation = row.generation
      /\ row.registered > 0 => row'.registered = row.registered
  <2>1. CASE row.registered = 0
    <3>1. row = NoRow /\ row' = [NoRow EXCEPT !.registered = Len(log) + 1, !.every = every,
                                              !.reuse = reuse]
      BY <2>1, <1>3, <1>5
    <3>2. /\ row'.bound = NoRow.bound /\ row'.ref = NoRow.ref
          /\ row'.generation = NoRow.generation
      BY <3>1 DEF NoRow
    <3> QED BY <3>1, <3>2, <2>1
  <2>2. CASE row.registered > 0
    <3>1. row' = [row EXCEPT !.every = IF @ = 0 THEN every ELSE @] BY <2>2, <1>3, <1>5
    <3> QED BY <3>1, <1>3
  <2> QED BY <2>1, <2>2, <1>3
<1>7. /\ LogGrows
      /\ \A s : /\ ~Gains(log', Len(log), Len(log'), Ran, s)
                /\ ~Gains(log', Len(log), Len(log'), {"succeeded"}, s)
  <2>1. PICK e : e = Note("registered") OBVIOUS
  <2>2. e \in EventRecords /\ e.type = "registered" BY <2>1, NoteTyped DEF Note, Event, EventTypes
  <2>3. log' = log \/ log' = Append(log, e) BY <2>1, <1>5
  <2>4. CASE log' = log BY <2>4, <1>1, NothingNew
  <2>5. CASE log' = Append(log, e)
    <3>1. LogGrows /\ \A outcomes, s : Gains(log', Len(log), Len(log'), outcomes, s) <=>
                                         e.type \in outcomes /\ e.step = s
      BY <2>2, <2>5, <1>1, OneMoreEvent
    <3> QED BY <3>1, <2>2 DEF Ran
  <2> QED BY <2>3, <2>4, <2>5
<1>8. NoOutcome /\ NoSuccess BY <1>7 DEF NoOutcome, NoSuccess
<1>9. Growth BY <1>3, <1>4, <1>6, <1>7 DEF Growth
<1>10. CoverageOK(log', checkpoints', strays')
  BY <1>1, <1>4, <1>7, <1>8, CoverageUntouched
<1>11. PICK at : at = IF row'.bound THEN "idle" ELSE "creating" OBVIOUS
<1>12. /\ agent'[r].at = at /\ agent'[r].generation = row'.generation
       /\ \A q \in Runs : q # r => agent'[q] = agent[q]
  <2>1. agent' = [agent EXCEPT ![r].at = at, ![r].generation = row'.generation]
    BY <1>4, <1>11, Zenon
  <2>2. agent \in [Runs -> AgentRecords] BY <1>1 DEF AgentsTyped, AgentRecords
  <2> QED BY <2>1, <2>2 DEF AgentRecords
<1>13. AgentFollows(agent[r])'
  <2>1. at \notin AtWork /\ (at = "idle" => row'.bound) /\ at # "captured" BY <1>11 DEF AtWork
  <2>2. row'.generation <= row'.generation BY <1>3, <1>6
  <2> QED BY <2>1, <2>2, <1>12 DEF AgentFollows
<1>14. LeaseFollows'
  <2>1. agent'[lease'].at \notin AtWork BY <1>4, <1>11, <1>12 DEF AtWork
  <2> QED BY <2>1, NoneAtWork
<1>15. \A q \in Runs : agent'[q] = agent[q] \/ AgentFollows(agent[q])' BY <1>12, <1>13
<1>16. world' = world /\ sent' = sent /\ strays' = strays BY <1>4
<1> QED BY <1>2, <1>6, <1>8, <1>9, <1>10, <1>14, <1>15, <1>16, CoverStays

(* BindResource: the environment was created from the reference of the row. *)
LEMMA BindCovers ==
  ASSUME CoverInv, NEW r \in Runs, Bind(r)
  PROVE  CoverInv'
<1>1. /\ CountInv /\ RowsInv /\ RowsTyped /\ AgentsInv /\ AgentsTyped
      /\ WorldFollows /\ RequestFollows
      /\ (\A q \in Runs : AgentFollows(agent[q])) /\ CoverageOK(log, checkpoints, strays)
  BY CoverParts
<1>2. CountInv' BY <1>1, BindKeeps
<1>3. /\ Len(log) \in Nat
      /\ row \in [registered : 0..Len(log), generation : Nat, count : Nat,
                  every : Intervals \cup {0}, reuse : BOOLEAN, bound : BOOLEAN, ref : Refs]
      /\ agent \in [Runs -> AgentRecords]
  BY <1>1 DEF RowsTyped, AgentsTyped, AgentRecords
<1>4. /\ lease = r /\ ~row.bound
      /\ row' = [row EXCEPT !.bound = TRUE]
      /\ log' = Append(log, Note("bound"))
      /\ world' = row.ref
      /\ agent' = [agent EXCEPT ![r].at = "idle"]
      /\ UNCHANGED <<step, checkpoints, lease, sent, forks, turns, strays>>
  BY DEF Bind, Holds, leaseVars, strayVars
<1>5. /\ row'.bound /\ row'.ref = row.ref /\ row'.generation = row.generation
      /\ row'.registered = row.registered
  BY <1>3, <1>4
<1>6. /\ LogGrows
      /\ \A s : /\ ~Gains(log', Len(log), Len(log'), Ran, s)
                /\ ~Gains(log', Len(log), Len(log'), {"succeeded"}, s)
  <2>1. PICK e : e = Note("bound") OBVIOUS
  <2>2. e \in EventRecords /\ e.type = "bound" BY <2>1, NoteTyped DEF Note, Event, EventTypes
  <2>3. log' = Append(log, e) BY <2>1, <1>4
  <2>4. LogGrows /\ \A outcomes, s : Gains(log', Len(log), Len(log'), outcomes, s) <=>
                                         e.type \in outcomes /\ e.step = s
    BY <2>2, <2>3, <1>1, OneMoreEvent
  <2> QED BY <2>2, <2>4 DEF Ran
<1>7. NoSuccess /\ NoOutcome BY <1>6 DEF NoSuccess, NoOutcome
<1>8. world = {} BY <1>1, <1>4 DEF WorldFollows
<1>9. Growth BY <1>3, <1>4, <1>5, <1>6, <1>8 DEF Growth
<1>10. CoverageOK(log', checkpoints', strays') BY <1>1, <1>4, <1>6, <1>7, CoverageUntouched
<1>11. \A s : /\ Tried(log', Len(log'), s) <=> Tried(log, Len(log), s)
              /\ Done(log', Len(log'), s) <=> Done(log, Len(log), s)
  BY <1>1, <1>6, EffectsGrow
<1>12. WorldFollows'
  <2>1. \A i \in 1..Len(log') : log'[i].type = "initialized" => row'.registered \in 1..i
    BY <1>1, <1>5, <1>6, RestorationsStay
  <2>2. \A s \in row'.ref : Tried(log', Len(log'), s) BY <1>1, <1>5, <1>11 DEF WorldFollows
  <2>3. \A s \in world' : Tried(log', Len(log'), s) BY <1>1, <1>4, <1>11 DEF WorldFollows
  <2>4. \A s \in Affecting : Done(log', Len(log'), s) => s \in world'
    BY <1>1, <1>4, <1>11, DoneIsTried DEF WorldFollows
  <2> QED BY <2>1, <2>2, <2>3, <2>4, <1>5 DEF WorldFollows
<1>13. /\ agent'[r].at = "idle" /\ agent'[r].generation = agent[r].generation
       /\ \A q \in Runs : q # r => agent'[q] = agent[q]
  BY <1>3, <1>4 DEF AgentRecords
<1>14. \A q \in Runs : AgentFollows(agent[q])'
  <2>1. TAKE q \in Runs
  <2>2. CASE q = r
    <3>1. agent[r].generation <= row'.generation BY <1>1, <1>5 DEF AgentFollows
    <3> QED BY <3>1, <2>2, <1>5, <1>13 DEF AgentFollows, AtWork
  <2>3. CASE q # r BY <2>3, <1>1, <1>4, <1>7, <1>9, <1>13, AgentStays
  <2> QED BY <2>2, <2>3
<1>15. RequestFollows' BY <1>1, <1>4, <1>7, <1>9, RequestStays
<1>16. LeaseFollows'
  <2>1. agent'[lease'].at \notin AtWork BY <1>4, <1>13 DEF AtWork
  <2> QED BY <2>1, NoneAtWork
<1> QED BY <1>2, <1>10, <1>12, <1>14, <1>15, <1>16 DEF CoverInv

(* PublishCheckpoints: a request of the holder of the lease, under the     *)
(* current generation and with no step writing, holds what its boundary    *)
(* stands for.                                                             *)
LEMMA PublishCovers ==
  ASSUME CoverInv, Publish
  PROVE  CoverInv'
<1>1. /\ CountInv /\ RowsInv /\ RowsTyped /\ AgentsInv /\ AgentsTyped
      /\ WorldFollows /\ RequestFollows
      /\ Orderly(checkpoints, Len(log)) /\ ClosedWhileWriting /\ CoverageOK(log, checkpoints, strays)
  BY CoverParts DEF RowsInv
<1>2. CountInv' BY <1>1, BesideKeeps
<1>3. /\ sent.by = lease /\ RecordCaptures({sent}, Len(log), log, step)
      /\ UNCHANGED <<step, row, world, lease, agent, sent, forks, turns, strays>>
  BY DEF Publish, Holds, leaseVars, strayVars
<1>4. /\ log \in Seq(EventRecords) /\ Len(log) \in Nat /\ row.generation \in Nat
      /\ sent \in [by : 0..MaxAttempts, generation : Nat, ref : Refs] /\ lease \in Runs
  BY <1>1 DEF RowsTyped, AgentsTyped
<1>5. ASSUME Acceptable(sent, step) PROVE Matches(log, Len(log), sent.ref, strays)
  <2>1. sent.generation = row.generation /\ ~Writing(step) BY <1>5 DEF Acceptable
  <2>2. sent.by # 0 BY <1>3, <1>4 DEF Runs
  <2>3. \A s \in Affecting \ strays : Done(log, Len(log), s) => s \in sent.ref
    BY <2>1, <2>2, <1>1 DEF RequestFollows, Current
  <2>4. ASSUME NEW s \in sent.ref PROVE Tried(log, Len(log), s)
    <3>1. s \in world /\ s \in Affecting BY <1>1, <1>4 DEF RequestFollows, Refs
    <3>2. step[s] # "executing" BY <3>1, <2>1 DEF Writing
    <3> QED BY <3>1, <3>2, <1>1 DEF WorldFollows
  <2> QED BY <2>3, <2>4 DEF Matches
<1>6. \A i \in Len(log)+1..Len(log) : FALSE BY <1>4
<1>7. /\ LogGrows /\ \A i \in Len(log)+1..Len(log') : log'[i].type \notin Final
      /\ CoverageOK(log', checkpoints', strays)
  <2>1. /\ \A c \in {sent} : c.generation \in Nat /\ c.ref \in Refs
        /\ \A c, d \in {sent} : c = d
        /\ \A c \in {sent} : Acceptable(c, step) => Matches(log, Len(log), c.ref, strays)
    BY <1>4, <1>5
  <2>2. Writing(step) => \A c \in checkpoints : c.invalidated # 0
    BY <1>1 DEF ClosedWhileWriting
  <2>3. Len(log) >= Len(log) BY <1>4
  <2>4. PICK captures : captures = {sent} OBVIOUS
  <2>5. /\ \A c \in captures : c.generation \in Nat /\ c.ref \in Refs
        /\ \A c, d \in captures : c = d
        /\ \A c \in captures : Acceptable(c, step) => Matches(log, Len(log), c.ref, strays)
        /\ RecordCaptures(captures, Len(log), log, step)
    BY <2>1, <2>4, <1>3
  <2> QED BY <2>2, <2>3, <2>5, <1>1, <1>4, <1>6, CapturesCover
<1>8. NoOutcome BY <1>7 DEF NoOutcome, Gains, Ran, Final
<1>9. Growth BY <1>3, <1>4, <1>7 DEF Growth
<1>10. /\ row'.bound = row.bound /\ row'.ref = row.ref
       /\ row.registered > 0 => row'.registered = row.registered
       /\ world' = world /\ sent' = sent /\ \A q \in Runs : agent'[q] = agent[q]
       /\ lease' = lease /\ strays' = strays
  BY <1>3
<1> QED BY <1>2, <1>7, <1>8, <1>9, <1>10, CoverStays

(* SubmitStep: a start makes the generation new, so that no request taken   *)
(* before it is current; a denial and the failure of an orphan are no       *)
(* success.                                                                *)
LEMMA SubmitCovers ==
  ASSUME CoverInv, NEW r \in Runs, NEW s \in Affecting, Submit(r, s)
  PROVE  CoverInv'
<1>1. /\ CountInv /\ RowsInv /\ RowsTyped /\ AgentsInv /\ AgentsTyped
      /\ WorldFollows /\ RequestFollows /\ LeaseFollows
      /\ (\A q \in Runs : AgentFollows(agent[q])) /\ CoverageOK(log, checkpoints, strays)
  BY CoverParts
<1>2. CountInv' BY <1>1, SubmitKeeps
<1>3. /\ lease = r /\ agent[r].at = "idle" /\ UNCHANGED <<world, lease, sent, forks, turns, strays>>
      /\ Proceed(r, s) \/ Deny(s) \/ FailOrphan(s)
  BY DEF Submit, leaseVars
<1>4. row.registered > 0 /\ row.bound /\ s \in Steps
  BY <1>1, <1>3 DEF AgentsInv, AgentFollows, Steps
<1>5. /\ Len(log) \in Nat /\ row.generation \in Nat /\ sent.generation \in Nat
      /\ agent \in [Runs -> AgentRecords]
      /\ step \in [Steps -> Final \cup {"absent", "executing"}]
  BY <1>1 DEF RowsTyped, AgentsTyped, AgentRecords
<1>6. ASSUME Proceed(r, s) PROVE CoverInv'
  <2>1. /\ step[s] \in {"absent", "executing"} /\ StartStep(s)
        /\ agent' = [agent EXCEPT ![r] = [at |-> "running", step |-> s, due |-> Due(s),
                                          ref |-> {}, generation |-> row'.generation]]
    BY <1>6 DEF Proceed
  <2>2. Touches(s) BY <1>4 DEF Touches
  <2>3. /\ Growth /\ NoOutcome
        /\ CoverageOK(log', checkpoints', strays)
        /\ row'.bound = row.bound /\ row'.ref = row.ref /\ row'.registered = row.registered
        /\ row'.generation = row.generation + 1
        /\ step'[s] = "executing"
    BY <1>1, <1>3, <1>4, <2>1, <2>2, StartEffects
  <2>4. /\ agent'[r].at = "running" /\ agent'[r].step = s /\ agent'[r].generation = row'.generation
        /\ \A q \in Runs : q # r => agent'[q] = agent[q]
    BY <2>1, <1>5
  <2>5. AgentFollows(agent[r])'
    <3>1. row'.generation <= row'.generation BY <2>3, <1>5
    <3> QED BY <3>1, <2>3, <2>4, <1>4 DEF AgentFollows
  <2>6. LeaseFollows'
    <3>1. sent'.generation < row'.generation BY <1>1, <1>3, <1>5, <2>3 DEF RequestFollows
    <3>2. ASSUME NEW q \in Runs \ {lease} PROVE agent'[q].generation < row'.generation
      <4>1. agent'[q] = agent[q] /\ agent[q] \in AgentRecords BY <1>3, <1>5, <2>4
      <4>2. agent[q].generation \in Nat /\ agent[q].generation <= row.generation
        BY <1>1, <4>1 DEF AgentFollows, AgentRecords
      <4> QED BY <4>1, <4>2, <2>3, <1>5
    <3> QED BY <3>1, <3>2, <1>3 DEF LeaseFollows
  <2>7. \A q \in Runs : agent'[q] = agent[q] \/ AgentFollows(agent[q])' BY <2>4, <2>5
  <2>8. world' = world /\ sent' = sent /\ strays' = strays BY <1>3
  <2> QED BY <1>2, <2>3, <2>6, <2>7, <2>8, CoverStays
<1>7. ASSUME Deny(s) PROVE CoverInv'
  <2>1. /\ step[s] = "absent" /\ step' = [step EXCEPT ![s] = "denied"]
        /\ log' = Append(log, Event("denied", s, 0, {}))
        /\ UNCHANGED <<row, checkpoints, agent>>
    BY <1>7 DEF Deny
  <2>2. PICK e : e = Event("denied", s, 0, {}) OBVIOUS
  <2>3. e \in EventRecords /\ e.type = "denied"
    BY <2>2, <1>4, NoteTyped DEF Event, EventTypes, Final, Refs
  <2>4. LogGrows /\ \A outcomes, t : Gains(log', Len(log), Len(log'), outcomes, t) <=>
                                       e.type \in outcomes /\ e.step = t
    BY <2>1, <2>2, <2>3, <1>1, OneMoreEvent
  <2>5. NoOutcome /\ NoSuccess BY <2>3, <2>4 DEF NoOutcome, NoSuccess, Ran
  <2>6. CoverageOK(log', checkpoints', strays) BY <1>1, <2>1, <2>4, <2>5, CoverageUntouched
  <2>7. \A t \in Steps : step[t] = "executing" => step'[t] = "executing" BY <2>1, <1>5
  <2>8. Growth BY <2>1, <2>4, <2>7, <1>3, <1>5 DEF Growth, Steps
  <2>9. /\ row'.bound = row.bound /\ row'.ref = row.ref
        /\ row.registered > 0 => row'.registered = row.registered
        /\ world' = world /\ sent' = sent /\ \A q \in Runs : agent'[q] = agent[q]
        /\ lease' = lease /\ strays' = strays
    BY <1>3, <2>1
  <2> QED BY <1>2, <2>5, <2>6, <2>8, <2>9, CoverStays
<1>8. ASSUME FailOrphan(s) PROVE CoverInv'
  <2>1. step[s] = "executing" /\ agent' = agent /\ Settle(s, "failed", {})
    BY <1>8 DEF FailOrphan
  <2>2. PICK outcome : outcome = "failed" OBVIOUS
  <2>3. PICK captures : captures = {} OBVIOUS
  <2>4. outcome \in Ran /\ Settle(s, outcome, captures) /\ world' = world
        /\ \A c \in captures : FALSE
    BY <2>1, <2>2, <2>3, <1>3 DEF Ran
  <2>5. /\ Growth
        /\ \A t : Gains(log', Len(log), Len(log'), {"succeeded"}, t) <=>
                     t = s /\ outcome = "succeeded"
        /\ CoverageOK(log', checkpoints', strays)
        /\ row'.bound = row.bound /\ row'.ref = row.ref /\ row'.registered = row.registered
    BY <1>1, <1>4, <2>1, <2>4, SettleEffects
  <2>6. NoSuccess BY <2>2, <2>5 DEF NoSuccess
  <2>7. \A t \in Affecting : ~Gains(log', Len(log), Len(log'), {"succeeded"}, t)
    BY <2>2, <2>5
  <2>8. WorldFollows' BY <1>1, <1>4, <2>4, <2>5, <2>7, WorldAfterOutcome DEF AgentsTyped
  <2>10. /\ sent' = sent /\ lease' = lease /\ agent' = agent /\ strays' = strays
         /\ lease \in Runs
    BY <1>1, <1>3, <2>1 DEF AgentsTyped
  <2>9. \A q \in Runs : AgentFollows(agent[q])' BY <1>1, <2>5, <2>6, <2>10, AgentStays
  <2>11. RequestFollows' BY <1>1, <2>5, <2>6, <2>10, RequestStays
  <2>12. LeaseFollows' BY <1>1, <2>5, <2>10, LeaseStays
  <2> QED BY <1>2, <2>5, <2>8, <2>9, <2>10, <2>11, <2>12 DEF CoverInv
<1> QED BY <1>3, <1>6, <1>7, <1>8

(* An LLM call may take the generation of the resource, not its effects. *)
LEMMA SubmitOtherCovers ==
  ASSUME CoverInv, NEW r \in Runs, NEW s \in Others, SubmitOther(r, s)
  PROVE  CoverInv'
<1>1. /\ CountInv /\ RowsInv /\ RowsTyped /\ AgentsInv /\ AgentsTyped
      /\ LeaseFollows
      /\ (\A q \in Runs : AgentFollows(agent[q])) /\ CoverageOK(log, checkpoints, strays)
  BY CoverParts
<1>2. CountInv' BY <1>1, SubmitOtherKeeps
<1>3. s \in Steps /\ s \notin Affecting BY StepsAssumption DEF Steps, StepsAssumption
<1>4. /\ lease = r /\ step[s] \in {"absent", "executing"} /\ StartStep(s)
      /\ UNCHANGED <<world, lease, sent, forks, turns, strays>>
      /\ agent' = [agent EXCEPT ![r].generation =
                     IF agent[r].at = "idle" /\ Touches(s) THEN row'.generation ELSE @]
  BY DEF SubmitOther, leaseVars, strayVars
<1>5. /\ row.generation \in Nat /\ agent \in [Runs -> AgentRecords]
  BY <1>1 DEF RowsTyped, AgentsTyped, AgentRecords
<1>6. /\ Growth /\ NoOutcome
      /\ CoverageOK(log', checkpoints', strays)
      /\ row'.bound = row.bound /\ row'.ref = row.ref /\ row'.registered = row.registered
  BY <1>1, <1>3, <1>4, StartEffects
<1>7. row'.generation \in Nat BY <1>6 DEF Growth
<1>8. /\ \A q \in Runs : q # r => agent'[q] = agent[q]
      /\ ~(agent[r].at = "idle" /\ Touches(s)) => agent'[r] = agent[r]
      /\ agent[r].at = "idle" /\ Touches(s) =>
           agent'[r].at = "idle" /\ agent'[r].generation = row'.generation
  <2>1. PICK g : g = IF agent[r].at = "idle" /\ Touches(s) THEN row'.generation
                     ELSE agent[r].generation
    OBVIOUS
  <2>2. agent' = [agent EXCEPT ![r].generation = g] BY <1>4, <2>1, Zenon
  <2>3. /\ \A q \in Runs : q # r => agent'[q] = agent[q]
        /\ agent'[r] = [agent[r] EXCEPT !.generation = g]
    BY <2>2, <1>5
  <2>4. agent[r] \in AgentRecords BY <1>5
  <2>5. agent'[r].at = agent[r].at /\ agent'[r].generation = g
        /\ (g = agent[r].generation => agent'[r] = agent[r])
    BY <2>3, <2>4 DEF AgentRecords
  <2> QED BY <2>1, <2>3, <2>5
<1>9. agent'[r] = agent[r] \/ (AgentFollows(agent[r])' /\ LeaseFollows')
  <2>1. SUFFICES ASSUME agent[r].at = "idle", agent'[r].at = "idle",
                        agent'[r].generation = row'.generation
                 PROVE  AgentFollows(agent[r])' /\ LeaseFollows'
    BY <1>8
  <2>2. row'.bound BY <2>1, <1>1, <1>6 DEF AgentFollows
  <2>3. row'.generation <= row'.generation BY <1>7
  <2>4. AgentFollows(agent[r])' BY <2>1, <2>2, <2>3 DEF AgentFollows, AtWork
  <2>5. agent'[lease'].at \notin AtWork BY <2>1, <1>4 DEF AtWork
  <2> QED BY <2>4, <2>5, NoneAtWork
<1>10. /\ \A q \in Runs : agent'[q] = agent[q] \/ AgentFollows(agent[q])'
       /\ (lease' = lease /\ \A q \in Runs : agent'[q] = agent[q]) \/ LeaseFollows'
  BY <1>4, <1>8, <1>9
<1>11. world' = world /\ sent' = sent /\ strays' = strays BY <1>4
<1> QED BY <1>2, <1>6, <1>10, <1>11, CoverStays

(* The outcome of an LLM call *)
LEMMA ReportOtherCovers ==
  ASSUME CoverInv, NEW s \in Others, ReportOther(s)
  PROVE  CoverInv'
<1>1. CountInv /\ RowsInv /\ CoverageOK(log, checkpoints, strays) BY CoverParts
<1>2. CountInv' BY <1>1, BesideKeeps
<1>3. s \in Steps /\ s \notin Affecting BY StepsAssumption DEF Steps, StepsAssumption
<1>4. step[s] = "executing" /\ UNCHANGED <<world, lease, agent, sent, forks, turns, strays>>
  BY DEF ReportOther, leaseVars, strayVars
<1>5. PICK outcome \in Ran : Settle(s, outcome, {}) BY DEF ReportOther, Ran
<1>6. PICK captures : captures = {} OBVIOUS
<1>7. Settle(s, outcome, captures) /\ \A c \in captures : FALSE BY <1>5, <1>6
<1>8. /\ Growth
      /\ \A t : Gains(log', Len(log), Len(log'), Ran, t) <=> t = s
      /\ CoverageOK(log', checkpoints', strays)
      /\ row'.bound = row.bound /\ row'.ref = row.ref /\ row'.registered = row.registered
  BY <1>1, <1>3, <1>4, <1>7, SettleEffects
<1>9. NoOutcome BY <1>3, <1>8 DEF NoOutcome
<1>10. /\ world' = world /\ sent' = sent /\ \A q \in Runs : agent'[q] = agent[q]
       /\ lease' = lease /\ strays' = strays
  BY <1>4
<1> QED BY <1>2, <1>8, <1>9, <1>10, CoverStays

(* A report: what the attempt captured holds all that has succeeded, this   *)
(* step included, and nothing that has not ended.  That of the holder of    *)
(* the lease leaves all older captures behind; any other is a late one.     *)
LEMMA ReportCovers ==
  ASSUME CoverInv, NEW r \in Runs, Report(r)
  PROVE  CoverInv'
<1>1. /\ CountInv /\ RowsInv /\ RowsTyped /\ AgentsInv /\ AgentsTyped
      /\ WorldFollows /\ RequestFollows /\ LeaseFollows
      /\ (\A q \in Runs : AgentFollows(agent[q])) /\ CoverageOK(log, checkpoints, strays)
  BY CoverParts
<1>2. CountInv' BY <1>1, ReportKeeps
<1>3. PICK s : s = agent[r].step OBVIOUS
<1>4. PICK taken : taken = IF agent[r].at = "captured"
                             THEN {[generation |-> agent[r].generation, ref |-> agent[r].ref]}
                             ELSE {}
  OBVIOUS
<1>5. /\ agent[r].at \in AtWork /\ step[s] = "executing"
      /\ agent' = [agent EXCEPT ![r].at = "idle", ![r].step = NoStep, ![r].due = FALSE,
                                ![r].ref = {}]
      /\ UNCHANGED <<world, lease, sent, forks, turns>>
      /\ strays \subseteq strays' /\ (lease # r => s \in strays')
  BY <1>3 DEF Report, Reporting, Holds, AtWork, leaseVars
<1>6. PICK outcome \in Ran :
        /\ outcome = "succeeded" =>
             s \in IF agent[r].at = "captured" THEN agent[r].ref ELSE world
        /\ Settle(s, outcome, taken)
  BY <1>3, <1>4 DEF Report, Ran
<1>7. /\ agent \in [Runs -> AgentRecords] /\ agent[r] \in AgentRecords
      /\ row.generation \in Nat /\ world \subseteq Affecting
      /\ step \in [Steps -> Final \cup {"absent", "executing"}]
  BY <1>1 DEF RowsTyped, AgentsTyped, AgentRecords, Refs
<1>8. s \in Affecting /\ s \in Steps BY <1>1, <1>3, <1>5 DEF AgentsInv, Steps
<1>9. row.bound BY <1>1, <1>5 DEF AgentFollows
<1>10. outcome = "succeeded" => s \in world BY <1>1, <1>6 DEF AgentFollows
<1>11. /\ \A c \in taken : /\ agent[r].at = "captured"
                           /\ c.generation = agent[r].generation /\ c.ref = agent[r].ref
       /\ \A c, d \in taken : c = d
  BY <1>4
<1>12. \A t \in Steps : t # s => step'[t] = step[t]
  <2>1. step' = [step EXCEPT ![s] = outcome] BY <1>6 DEF Settle
  <2> QED BY <2>1, <1>7
<1>13. ASSUME NEW c \in taken, Acceptable(c, step')
       PROVE  /\ \A t \in Affecting \ strays' :
                   Done(log, Len(log), t) \/ (t = s /\ outcome = "succeeded") => t \in c.ref
              /\ \A t \in c.ref : Tried(log, Len(log), t) \/ t = s
  <2>1. /\ agent[r].at = "captured" /\ c.ref = agent[r].ref
        /\ agent[r].generation = row.generation /\ ~Writing(step')
    BY <1>11, <1>13 DEF Acceptable
  <2>2. \A t \in Affecting \ strays' : Done(log, Len(log), t) => t \in c.ref
    BY <2>1, <1>1, <1>5 DEF AgentFollows, Current
  <2>3. outcome = "succeeded" => s \in c.ref BY <2>1, <1>6
  <2>4. ASSUME NEW t \in c.ref, t # s PROVE Tried(log, Len(log), t)
    <3>1. t \in world /\ t \in Affecting BY <2>1, <1>1, <1>7 DEF AgentFollows
    <3>2. step[t] # "executing" BY <2>1, <2>4, <3>1, <1>12 DEF Writing, Steps
    <3> QED BY <3>1, <3>2, <1>1 DEF WorldFollows
  <2> QED BY <2>2, <2>3, <2>4
<1>14. world' = world /\ \A c \in taken : c.generation \in Nat /\ c.ref \in Refs
  BY <1>5, <1>7, <1>11 DEF AgentRecords
<1>22. CoverageOK(log, checkpoints, strays') BY <1>1, <1>5, CoverageWeaker
<1>15. /\ Growth
       /\ \A t : Gains(log', Len(log), Len(log'), {"succeeded"}, t) <=>
                   t = s /\ outcome = "succeeded"
       /\ CoverageOK(log', checkpoints', strays')
       /\ row'.bound = row.bound /\ row'.ref = row.ref /\ row'.registered = row.registered
  BY <1>1, <1>5, <1>6, <1>8, <1>11, <1>13, <1>14, <1>22, SettleEffects
<1>16. \A t \in Affecting : Gains(log', Len(log), Len(log'), {"succeeded"}, t) => t \in world
  BY <1>10, <1>15
<1>17. WorldFollows' BY <1>1, <1>9, <1>14, <1>15, <1>16, WorldAfterOutcome DEF AgentsTyped
<1>18. /\ agent'[r].at = "idle" /\ agent'[r].generation = agent[r].generation
       /\ \A q \in Runs : q # r => agent'[q] = agent[q]
  BY <1>5, <1>7 DEF AgentRecords
<1>23. /\ NoSuccess \/ sent.generation < row.generation
       /\ \A q \in Runs : q # r => NoSuccess \/ agent[q].generation < row.generation
  <2>1. CASE lease = r BY <2>1, <1>1, <1>5 DEF LeaseFollows
  <2>2. CASE lease # r
    <3>1. NoSuccess BY <2>2, <1>5, <1>15 DEF NoSuccess
    <3> QED BY <3>1
  <2> QED BY <2>1, <2>2
<1>19. ASSUME NEW q \in Runs PROVE AgentFollows(agent[q])'
  <2>1. CASE q = r
    <3>1. agent[r].generation <= row'.generation
      BY <1>1, <1>7, <1>15 DEF AgentFollows, Growth, AgentRecords
    <3> QED BY <3>1, <2>1, <1>9, <1>15, <1>18 DEF AgentFollows, AtWork
  <2>2. CASE q # r BY <2>2, <1>1, <1>5, <1>15, <1>18, <1>23, AgentStays
  <2> QED BY <2>1, <2>2
<1>20. RequestFollows'
  <2>1. sent' = sent BY <1>5
  <2> QED BY <2>1, <1>1, <1>5, <1>15, <1>23, RequestStays
<1>21. LeaseFollows'
  <2>1. sent' = sent /\ lease' = lease /\ lease \in Runs BY <1>1, <1>5 DEF AgentsTyped
  <2>2. \A q \in Runs : agent'[q].generation = agent[q].generation BY <1>18
  <2>3. agent'[lease].at \in AtWork => agent[lease].at \in AtWork
    BY <2>1, <1>18 DEF AtWork
  <2> QED BY <2>1, <2>2, <2>3, <1>1, <1>15, LeaseStays
<1> QED BY <1>2, <1>15, <1>17, <1>19, <1>20, <1>21 DEF CoverInv

(* Steps outside the store: a request taken now is of all that succeeded,  *)
(* and a body brings its step alone.                                       *)
LEMMA ExternalCovers ==
  ASSUME CoverInv, NEW r \in Runs, Capture(r) \/ Write(r) \/ CaptureDue(r)
  PROVE  CoverInv'
<1>1. /\ CountInv /\ RowsInv /\ RowsTyped /\ AgentsInv /\ AgentsTyped
      /\ WorldFollows /\ RequestFollows /\ LeaseFollows
      /\ (\A q \in Runs : AgentFollows(agent[q])) /\ CoverageOK(log, checkpoints, strays)
  BY CoverParts
<1>2. CountInv' BY <1>1, ExternalKeeps
<1>3. UNCHANGED <<execVars, lease, forks, turns, strays>>
  BY DEF Capture, Write, CaptureDue, leaseVars, strayVars
<1>4. /\ log' = log /\ step' = step /\ row' = row /\ checkpoints' = checkpoints
      /\ lease' = lease /\ strays' = strays /\ strays \subseteq strays'
  BY <1>3 DEF execVars
<1>5. /\ agent \in [Runs -> AgentRecords] /\ agent[r] \in AgentRecords
      /\ row.generation \in Nat /\ world \in Refs
  BY <1>1 DEF RowsTyped, AgentsTyped, AgentRecords
<1>6. LogGrows /\ \A outcomes, s : ~Gains(log', Len(log), Len(log'), outcomes, s)
  BY <1>1, <1>4, NothingNew
<1>7. NoOutcome /\ NoSuccess BY <1>6 DEF NoOutcome, NoSuccess
<1>8. world \subseteq world' => Growth BY <1>4, <1>5, <1>6 DEF Growth
<1>9. CoverageOK(log', checkpoints', strays') BY <1>1, <1>4
<1>10. CASE Capture(r)
  <2>1. /\ lease = r /\ agent[r].at = "idle" /\ agent' = agent /\ world' = world
        /\ sent' = [by |-> r, generation |-> agent[r].generation, ref |-> world]
    BY <1>10 DEF Capture
  <2>2. Growth BY <2>1, <1>8
  <2>3. WorldFollows' BY <2>1, <1>1, <1>4 DEF WorldFollows
  <2>4. \A q \in Runs : AgentFollows(agent[q])' BY <2>1, <2>2, <1>1, <1>4, <1>7, AgentStays
  <2>5. row.bound /\ agent[r].generation <= row.generation BY <2>1, <1>1 DEF AgentFollows
  <2>6. \A s \in Affecting : Done(log, Len(log), s) => s \in world
    BY <2>5, <1>1 DEF WorldFollows
  <2>7. RequestFollows'
    <3>1. sent'.ref = world /\ sent'.generation = agent[r].generation BY <2>1
    <3> QED BY <3>1, <2>1, <2>5, <2>6, <1>4 DEF RequestFollows, Current
  <2>8. LeaseFollows'
    <3>1. agent'[lease'].at \notin AtWork BY <2>1, <1>4 DEF AtWork
    <3> QED BY <3>1, NoneAtWork
  <2> QED BY <2>3, <2>4, <2>7, <2>8, <1>2, <1>9 DEF CoverInv
<1>11. CASE Write(r)
  <2>1. /\ agent[r].at = "running" /\ agent' = agent /\ sent' = sent
        /\ world' = world \cup {agent[r].step}
    BY <1>11 DEF Write
  <2>2. Growth BY <2>1, <1>8
  <2>3. /\ row.bound
        /\ step[agent[r].step] = "executing" \/ Tried(log, Len(log), agent[r].step)
    BY <2>1, <1>1 DEF AgentFollows, AtWork
  <2>4. WorldFollows' BY <2>1, <2>3, <1>1, <1>4 DEF WorldFollows
  <2>5. \A q \in Runs : AgentFollows(agent[q])' BY <2>1, <2>2, <1>1, <1>4, <1>7, AgentStays
  <2>6. RequestFollows' BY <2>1, <2>2, <1>1, <1>4, <1>7, RequestStays
  <2>7. LeaseFollows' BY <2>1, <2>2, <1>1, <1>4, LeaseStays
  <2> QED BY <2>4, <2>5, <2>6, <2>7, <1>2, <1>9 DEF CoverInv
<1>12. CASE CaptureDue(r)
  <2>1. /\ agent[r].at = "running" /\ world' = world /\ sent' = sent
        /\ agent' = [agent EXCEPT ![r].at = "captured", ![r].ref = world]
    BY <1>12 DEF CaptureDue
  <2>2. Growth BY <2>1, <1>8
  <2>3. /\ agent'[r].at = "captured" /\ agent'[r].ref = world /\ agent'[r].step = agent[r].step
        /\ agent'[r].generation = agent[r].generation
        /\ \A q \in Runs : q # r => agent'[q] = agent[q]
    BY <2>1, <1>5 DEF AgentRecords
  <2>4. /\ row.bound /\ agent[r].generation <= row.generation
        /\ step[agent[r].step] = "executing" \/ Tried(log, Len(log), agent[r].step)
    BY <2>1, <1>1 DEF AgentFollows, AtWork
  <2>6. \A s \in Affecting : Done(log, Len(log), s) => s \in world
    BY <2>4, <1>1 DEF WorldFollows
  <2>5. AgentFollows(agent[r])'
    BY <2>1, <2>3, <2>4, <2>6, <1>4 DEF AgentFollows, Current, AtWork
  <2>7. /\ \A q \in Runs : agent'[q].generation = agent[q].generation
        /\ agent'[lease].at \in AtWork => agent[lease].at \in AtWork
    <3>1. lease \in Runs BY <1>1 DEF AgentsTyped
    <3> QED BY <2>1, <2>3, <3>1 DEF AtWork
  <2>8. LeaseFollows' BY <2>1, <2>2, <2>7, <1>1, <1>4, LeaseStays
  <2>9. \A q \in Runs : agent'[q] = agent[q] \/ AgentFollows(agent[q])' BY <2>3, <2>5
  <2> QED BY <2>1, <2>2, <2>8, <2>9, <1>2, <1>4, <1>7, <1>9, CoverStays
<1> QED BY <1>10, <1>11, <1>12

(* A new lease: the agent it starts has neither bound nor captured. *)
LEMMA RedispatchCovers ==
  ASSUME CoverInv, Redispatch
  PROVE  CoverInv'
<1>1. /\ CountInv /\ RowsTyped /\ AgentsTyped
      /\ (\A q \in Runs : AgentFollows(agent[q])) /\ CoverageOK(log, checkpoints, strays)
  BY CoverParts
<1>2. CountInv' BY <1>1, RedispatchKeeps
<1>3. /\ lease < MaxAttempts /\ lease' = lease + 1
      /\ agent' = [agent EXCEPT ![lease + 1].at = "starting"]
      /\ log' = log /\ step' = step /\ row' = row /\ checkpoints' = checkpoints
      /\ world' = world /\ sent' = sent /\ strays' = strays
  BY DEF Redispatch, execVars, strayVars
<1>4. /\ agent \in [Runs -> AgentRecords] /\ lease \in Runs /\ row.generation \in Nat
  BY <1>1 DEF RowsTyped, AgentsTyped, AgentRecords
<1>5. lease' \in Runs BY <1>3, <1>4, BoundsAssumption DEF Runs, BoundsAssumption
<1>6. LogGrows /\ \A outcomes, s : ~Gains(log', Len(log), Len(log'), outcomes, s)
  BY <1>1, <1>3, NothingNew
<1>7. NoOutcome BY <1>6 DEF NoOutcome
<1>8. Growth BY <1>3, <1>4, <1>6 DEF Growth
<1>9. CoverageOK(log', checkpoints', strays') BY <1>1, <1>3
<1>10. /\ agent'[lease'].at = "starting" /\ agent'[lease'].generation = agent[lease'].generation
       /\ \A q \in Runs : q # lease' => agent'[q] = agent[q]
  BY <1>3, <1>4, <1>5 DEF AgentRecords
<1>11. ASSUME NEW q \in Runs PROVE agent'[q] = agent[q] \/ AgentFollows(agent[q])'
  <2>1. CASE q = lease'
    <3>1. agent[q].generation <= row.generation BY <1>1 DEF AgentFollows
    <3> QED BY <3>1, <2>1, <1>3, <1>10 DEF AgentFollows, AtWork
  <2>2. CASE q # lease' BY <2>2, <1>10
  <2> QED BY <2>1, <2>2
<1>12. LeaseFollows'
  <2>1. agent'[lease'].at \notin AtWork BY <1>10 DEF AtWork
  <2> QED BY <2>1, NoneAtWork
<1> QED BY <1>2, <1>3, <1>7, <1>8, <1>9, <1>11, <1>12, CoverStays

(* A new execution starts with its first agent and without requests. *)
LEMMA NewExecutionCovers ==
  ASSUME CountInv', NEW status, NewExecution(status), world' = {}
  PROVE  /\ \A r \in Runs : AgentFollows(agent[r])'
         /\ RequestFollows' /\ LeaseFollows'
<1>1. step' = status /\ lease' = 1 /\ agent' = Launched /\ sent' = NothingSent
  BY DEF NewExecution
<1>2. row'.generation \in Nat BY DEF CountInv, RowsInv, RowsTyped
<1>3. 1 \in Runs BY BoundsAssumption DEF Runs, BoundsAssumption
<1>4. \A r \in Runs : /\ agent'[r].at \in {"none", "starting"} /\ agent'[r].generation = 0
  BY <1>1 DEF Launched, NoAgent
<1>5. \A r \in Runs : AgentFollows(agent[r])'
  BY <1>2, <1>4 DEF AgentFollows, AtWork
<1>6. RequestFollows' BY <1>1, <1>2 DEF RequestFollows, NothingSent
<1>7. LeaseFollows'
  <2>1. agent'[lease'].at \notin AtWork BY <1>1, <1>3, <1>4 DEF AtWork
  <2> QED BY <2>1, NoneAtWork
<1> QED BY <1>5, <1>6, <1>7

(* A turn counts its own effects from none. *)
LEMMA TurnCovers ==
  ASSUME CoverInv, Turn
  PROVE  CoverInv'
<1>1. CountInv /\ RowsTyped BY CoverParts
<1>2. CountInv' BY <1>1, NewExecutionKeeps
<1>3. /\ NewExecution([s \in Steps |-> "absent"]) /\ world' = {} /\ checkpoints' = {}
      /\ row' = [row EXCEPT !.registered = 2, !.generation = 0, !.count = 0, !.ref = {}]
  BY DEF Turn
<1>4. /\ \A r \in Runs : AgentFollows(agent[r])'
      /\ RequestFollows' /\ LeaseFollows'
  <2>1. PICK status : NewExecution(status) BY <1>3
  <2> QED BY <2>1, <1>2, <1>3, NewExecutionCovers
<1>5. row'.ref = {} BY <1>1, <1>3 DEF RowsTyped
<1>6. \A i \in 1..Len(log') : log'[i].type \in {"opened", "registered", "bound"}
  <2>1. \A type : Note(type).type = type BY DEF Note, Event
  <2>2. PICK a, b, c : /\ a.type = "opened" /\ b.type = "registered" /\ c.type = "bound"
                       /\ log' = <<a, b>> \o (IF row.bound THEN <<c>> ELSE <<>>)
    BY <2>1 DEF Turn
  <2>3. CASE row.bound
    <3>1. log' = <<a, b>> \o <<c>> BY <2>2, <2>3
    <3>2. PICK S : S = {a, b, c} OBVIOUS
    <3>3. <<a, b>> \in Seq(S) /\ <<c>> \in Seq(S) BY <3>2
    <3>4. log' \in Seq(S) BY <3>1, <3>3, ConcatProperties
    <3>5. \A i \in 1..Len(log') : log'[i] \in S BY <3>4, ElementOfSeq
    <3> QED BY <2>2, <3>2, <3>5
  <2>4. CASE ~row.bound
    <3>1. log' = <<a, b>> BY <2>2, <2>4
    <3> QED BY <2>2, <3>1
  <2> QED BY <2>3, <2>4
<1>7. \A outcomes \in SUBSET Final : \A s : ~Has(log', Len(log'), outcomes, s)
  BY <1>6 DEF Has, Brings, Final
<1>8. \A s : ~Tried(log', Len(log'), s) /\ ~Done(log', Len(log'), s)
  <2>1. Ran \in SUBSET Final /\ {"succeeded"} \in SUBSET Final BY DEF Ran, Final
  <2> QED BY <2>1, <1>7 DEF Tried, Done
<1>9. WorldFollows' BY <1>3, <1>5, <1>6, <1>8 DEF WorldFollows
<1>10. CoverageOK(log', checkpoints', strays') BY <1>3, <1>6 DEF CoverageOK, EffectsEnded
<1> QED BY <1>2, <1>4, <1>9, <1>10 DEF CoverInv

(* After its restoration a fork holds what it restored, and nothing else. *)
LEMMA RestoredEffects ==
  ASSUME RowsInv, NEW at \in 1..Len(log), Fork(at), row.registered \in 1..at,
         NEW n \in MapSeq(at, at) + 1 .. Len(log'), NEW s
  PROVE  /\ Done(log', n, s) <=> s \in row'.ref
         /\ Tried(log', n, s) <=> s \in row'.ref
<1>1. /\ MapSeq(at, at) \in Nat \ {0} /\ Len(log') \in Nat
      /\ log'[MapSeq(at, at) + 1].type = "initialized"
      /\ log'[MapSeq(at, at) + 1].ref = row'.ref
      /\ \A i \in MapSeq(at, at) + 2 .. Len(log') : log'[i] = Note("checkpointed")
  BY ForkedResource
<1>2. PICK b, l : b = MapSeq(at, at) + 1 /\ l = log' OBVIOUS
<1>3. b \in Nat \ {0} /\ n \in Nat /\ b <= n /\ l[b].type = "initialized" /\ l[b].ref = row'.ref
  BY <1>1, <1>2
<1>4. \A i \in b+1..n : l[i].type = "checkpointed"
  <2>1. SUFFICES ASSUME NEW i \in b+1..n PROVE l[i].type = "checkpointed" OBVIOUS
  <2>2. i \in MapSeq(at, at) + 2 .. Len(log') BY <1>1, <1>2
  <2> QED BY <2>2, <1>1, <1>2 DEF Note, Event
<1>5. ASSUME NEW outcomes \in SUBSET Final PROVE Has(l, n, outcomes, s) <=> s \in l[b].ref
  <2>1. "initialized" \notin outcomes /\ "checkpointed" \notin outcomes BY DEF Final
  <2>2. \A i \in b+1..n : l[i].type # "initialized" /\ l[i].type \notin outcomes
    BY <2>1, <1>4
  <2> QED BY <2>1, <2>2, <1>3, HasRestored
<1>6. Ran \in SUBSET Final /\ {"succeeded"} \in SUBSET Final BY DEF Ran, Final
<1>7. Has(l, n, {"succeeded"}, s) <=> s \in l[b].ref BY <1>5, <1>6
<1>8. Has(l, n, Ran, s) <=> s \in l[b].ref BY <1>5, <1>6
<1> QED BY <1>2, <1>3, <1>7, <1>8 DEF Done, Tried

(* A copied boundary stands for the effects its source stands for. *)
LEMMA CopiedMatches ==
  ASSUME RowsTyped, NEW at \in 1..Len(log), NEW n \in 1..MapSeq(at, at), NEW x, Source(at, n, x),
         NEW ref, NEW late, Matches(log, x, ref, late)
  PROVE  Matches(Opening(at), n, ref, late)
<1>1. log \in Seq(EventRecords) BY DEF RowsTyped
<1>2. Ran \in SUBSET Final /\ {"succeeded"} \in SUBSET Final BY DEF Ran, Final
<1>3. \A outcomes \in SUBSET Final : \A s : Has(Opening(at), n, outcomes, s) <=> Has(log, x, outcomes, s)
  <2>1. TAKE outcomes \in SUBSET Final
  <2>2. TAKE s
  <2> QED BY <1>1, ForkHas
<1>4. \A s : Has(Opening(at), n, Ran, s) <=> Has(log, x, Ran, s) BY <1>2, <1>3
<1>5. \A s : Has(Opening(at), n, {"succeeded"}, s) <=> Has(log, x, {"succeeded"}, s)
  BY <1>2, <1>3
<1> QED BY <1>4, <1>5 DEF Matches, Done, Tried

(* The steps that ended in the prefix end in the copy, at their boundary.   *)
LEMMA CopiedEnds ==
  ASSUME log \in Seq(EventRecords), NEW at \in 1..Len(log), NEW y \in Int, y <= at,
         NEW s, Ends(log, y, s), NEW n \in Int, MapSeq(y, at) <= n
  PROVE  Ends(Opening(at), n, s)
<1>1. PICK i \in 1..y : log[i].type \in Ran /\ log[i].step = s BY DEF Ends
<1>2. at \in Nat /\ i \in 1..at /\ i \in Int BY <1>1
<1>3. log[i].type \in Final BY <1>1 DEF Ran, Final
<1>4. log[i].step \in OutcomesIn(at) BY <1>2, <1>3 DEF OutcomesIn
<1>5. IsCopied(i, at) BY <1>4 DEF IsCopied
<1>6. MapSeq(i, at) \in 2..MapSeq(at, at) /\ Opening(at)[MapSeq(i, at)] = log[i]
  BY <1>2, <1>5, OpeningOfFork
<1>7. MapSeq(i, at) <= MapSeq(y, at) /\ MapSeq(y, at) \in Nat
  <2>1. /\ \A a \in Int : MapSeq(a, at) \in Nat \ {0}
        /\ \A a, b \in Int : a <= b => MapSeq(a, at) <= MapSeq(b, at)
    BY <1>2, MapSeqGrows
  <2>2. i <= y BY <1>1
  <2> QED BY <2>1, <2>2, <1>2
<1>8. MapSeq(i, at) \in 1..n BY <1>6, <1>7
<1> QED BY <1>1, <1>6, <1>8 DEF Ends

(* What a fork restores and what its checkpoints hold came from steps that  *)
(* ended before the fork point, and it copies those.                        *)
LEMMA ForkEnded ==
  ASSUME RowsInv, EffectsEnded(log, checkpoints),
         NEW at \in 1..Len(log), Fork(at), row.registered \in 1..at
  PROVE  EffectsEnded(log', checkpoints')
<1> DEFINE m == MapSeq(at, at)
<1>1. /\ RowsTyped /\ Orderly(checkpoints, Len(log)) /\ Len(log) \in Nat
      /\ log \in Seq(EventRecords) /\ at \in Nat
      /\ \A c \in checkpoints : c.covered \in 1..Len(log)
  BY DEF RowsInv, RowsTyped, Checkpoints
<1>2. /\ checkpoints' = CopiedCheckpoints(at) /\ row'.ref = Select(at).ref
      /\ m \in Nat \ {0} /\ Len(log') \in Nat /\ Len(log') > m
      /\ \A i \in 1..m : log'[i] = Opening(at)[i]
      /\ log'[m + 1].ref = row'.ref
      /\ \A i \in m + 2 .. Len(log') : log'[i] = Note("checkpointed")
  BY ForkedResource
<1> HIDE DEF m
<1>3. ASSUME NEW c \in CopiedCheckpoints(at), NEW s \in c.ref PROVE Ends(log', c.covered, s)
  <2>1. c.covered \in 1..m
    <3>1. c \in Checkpoints(MapSeq(at, at)) BY <1>1, CopiedCheckpointsOrdered
    <3> QED BY <3>1 DEF Checkpoints, m
  <2>2. PICK n : n = c.covered OBVIOUS
  <2>3. n \in Nat \ {0} /\ n <= m /\ n \in Int BY <2>1, <2>2, <1>2
  <2>4. PICK x : Source(at, n, x) BY <2>3, <1>1, SourceExists
  <2>5. PICK d \in checkpoints : d.ref = c.ref /\ d.covered <= at /\ (c.covered <= n <=> d.covered <= x)
    BY <1>1, <2>3, <2>4, CopiedStandFor
  <2>6. d.covered \in 0..at /\ d.covered <= x /\ d.covered \in Int BY <2>2, <2>3, <2>5, <1>1
  <2>7. MapSeq(d.covered, at) <= n BY <2>4, <2>6 DEF Source
  <2>8. Ends(log, d.covered, s) BY <2>5 DEF EffectsEnded
  <2>9. Ends(Opening(at), n, s) BY <2>3, <2>5, <2>6, <2>7, <2>8, <1>1, CopiedEnds
  <2> QED BY <2>2, <2>3, <2>9, <1>2, EndsKept
<1>4. ASSUME NEW s \in Select(at).ref PROVE Ends(log', m + 1, s)
  <2>1. PICK c \in checkpoints : c.covered <= at /\ s \in c.ref
    <3>1. CASE \E c \in checkpoints : Covers(c, at)
      <4>1. PICK c \in checkpoints :
              /\ NewestCovering(checkpoints, at, c)
              /\ SelectFrom(checkpoints, at) = [ref |-> c.ref, covered |-> TRUE]
        BY <3>1, <1>1, SelectionIs
      <4> QED BY <4>1, <1>4 DEF Select, NewestCovering, Covers
    <3>2. CASE (\A c \in checkpoints : ~Covers(c, at)) /\ \E c \in checkpoints : c.covered <= at
      <4>1. PICK c \in checkpoints :
              /\ NewestEarlier(checkpoints, at, c)
              /\ SelectFrom(checkpoints, at) = [ref |-> c.ref, covered |-> FALSE]
        BY <3>2, <1>1, SelectionIs
      <4> QED BY <4>1, <1>4 DEF Select, NewestEarlier
    <3>3. CASE \A c \in checkpoints : ~(c.covered <= at)
      <4>1. SelectFrom(checkpoints, at) = [ref |-> {}, covered |-> FALSE]
        BY <3>3, <1>1, SelectionIs
      <4> QED BY <4>1, <1>4 DEF Select
    <3> QED BY <3>1, <3>2, <3>3
  <2>2. Ends(log, c.covered, s) BY <2>1 DEF EffectsEnded
  <2>3. c.covered \in Int BY <1>1
  <2>4. MapSeq(c.covered, at) <= MapSeq(at, at)
    <3>1. \A a, b \in Int : a <= b => MapSeq(a, at) <= MapSeq(b, at) BY <1>1, MapSeqGrows
    <3>2. at \in Int BY <1>1
    <3> QED BY <3>1, <3>2, <2>1, <2>3
  <2>5. m \in Int /\ MapSeq(c.covered, at) <= m BY <2>4, <1>2 DEF m
  <2>6. Ends(Opening(at), m, s) BY <2>1, <2>2, <2>3, <2>5, <1>1, CopiedEnds
  <2>7. PICK i \in 1..m : Opening(at)[i].type \in Ran /\ Opening(at)[i].step = s
    BY <2>6 DEF Ends
  <2>8. i \in 1..m+1 /\ log'[i] = Opening(at)[i] BY <2>7, <1>2
  <2> QED BY <2>7, <2>8 DEF Ends
<1>5. ASSUME NEW i \in 1..Len(log'), log'[i].type = "initialized", NEW s \in log'[i].ref
      PROVE  Ends(log', i, s)
  <2>1. CASE i = 1
    <3>1. Opening(at)[1] = Note("opened") BY <1>1, OpeningOfFork
    <3>2. 1 \in 1..m BY <1>2
    <3>3. log'[1] = Note("opened") BY <3>1, <3>2, <1>2
    <3> QED BY <3>3, <2>1, <1>5 DEF Note, Event
  <2>2. CASE i \in 2..m
    <3>1. PICK j \in 1..at : MapSeq(j, at) = i /\ Opening(at)[i] = log[j]
      BY <2>2, <1>1, OpeningOfFork DEF m
    <3>2. log'[i] = log[j] BY <3>1, <2>2, <1>2
    <3>3. j \in 1..Len(log) /\ j \in Int /\ j <= at BY <1>1
    <3>4. Ends(log, j, s) BY <3>2, <3>3, <1>5 DEF EffectsEnded
    <3>5. i \in Int /\ i <= m /\ MapSeq(j, at) <= i BY <2>2, <3>1, <1>2
    <3>6. Ends(Opening(at), i, s) BY <3>3, <3>4, <3>5, <1>1, CopiedEnds
    <3> QED BY <3>5, <3>6, <1>2, EndsKept
  <2>3. CASE i = m + 1 BY <2>3, <1>2, <1>4, <1>5
  <2>4. CASE i \in m + 2 .. Len(log') BY <2>4, <1>2, <1>5 DEF Note, Event
  <2> QED BY <2>1, <2>2, <2>3, <2>4, <1>2
<1> QED BY <1>2, <1>3, <1>5 DEF EffectsEnded

(* Up to the fork point the fork is covered as its source is; after it, by  *)
(* what it restored, where the fork point was covered.                      *)
LEMMA ForkCoverage ==
  ASSUME RowsInv, CoverageOK(log, checkpoints, strays),
         NEW at \in 1..Len(log), Fork(at), row.registered \in 1..at
  PROVE  CoverageOK(log', checkpoints', strays')
<1> DEFINE m == MapSeq(at, at)
<1>1. /\ RowsTyped /\ Orderly(checkpoints, Len(log)) /\ Len(log) \in Nat
      /\ log \in Seq(EventRecords) /\ at \in Nat
  BY DEF RowsInv, RowsTyped
<1>2. /\ checkpoints' = CopiedCheckpoints(at) /\ row'.ref = Select(at).ref
      /\ m \in Nat \ {0} /\ Len(log') \in Nat
      /\ \A i \in 1..m : log'[i] = Opening(at)[i]
  BY ForkedResource
<1>3. /\ \A c \in CopiedCheckpoints(at) : c \in Checkpoints(m)
      /\ \A c, d \in CopiedCheckpoints(at) : c.covered = d.covered => c = d
  BY <1>1, CopiedCheckpointsOrdered
<1>4. SUFFICES ASSUME NEW seq \in 1..Len(log'), NEW c \in CopiedCheckpoints(at),
                      NewestCovering(CopiedCheckpoints(at), seq, c)
               PROVE  Matches(log', seq, c.ref, strays')
  <2>1. EffectsEnded(log', checkpoints') BY ForkEnded DEF CoverageOK
  <2> QED BY <2>1, <1>2 DEF CoverageOK
<1>5. seq \in Nat \ {0} BY <1>2
<1>6. CASE seq <= m
  <2>1. PICK x : Source(at, seq, x) BY <1>1, <1>5, SourceExists
  <2>2. PICK d \in checkpoints : NewestCovering(checkpoints, x, d) /\ d.ref = c.ref
    BY <1>1, <1>4, <1>5, <2>1, NewestCopied
  <2>3. x \in 1..Len(log)
    <3>1. d.covered \in 1..Len(log) /\ d.covered <= x
      BY <1>1, <2>2 DEF RowsTyped, Checkpoints, NewestCovering, Covers
    <3>2. x \in 0..at BY <2>1 DEF Source
    <3> QED BY <3>1, <3>2, <1>1
  <2>8. Matches(log, x, c.ref, strays) BY <2>2, <2>3 DEF CoverageOK
  <2>9. ASSUME NEW s, Done(log, x, s) PROVE s \in OutcomesIn(at)
    <3>1. x \in Nat /\ x <= at /\ x <= Len(log) BY <2>1, <2>3, <1>1 DEF Source
    <3>2. Tried(log, x, s) BY <2>9, DoneIsTried
    <3>3. \A i \in 1..x : log[i].type = "initialized" => \A e \in log[i].ref : Ends(log, i, e)
      BY <3>1, <1>1 DEF CoverageOK, EffectsEnded
    <3>4. Ends(log, x, s) BY <3>1, <3>2, <3>3, TriedEnds
    <3>5. PICK i \in 1..x : log[i].type \in Ran /\ log[i].step = s BY <3>4 DEF Ends
    <3>6. i \in 1..at /\ log[i].type \in Final BY <3>1, <3>5, <1>1 DEF Ran, Final
    <3> QED BY <3>5, <3>6 DEF OutcomesIn
  <2>10. strays' = strays \cap OutcomesIn(at) BY DEF Fork
  <2>4. Matches(log, x, c.ref, strays') BY <2>8, <2>9, <2>10 DEF Matches
  <2>5. seq \in 1..MapSeq(at, at) BY <1>5, <1>6, <1>2
  <2>6. Matches(Opening(at), seq, c.ref, strays') BY <1>1, <2>1, <2>4, <2>5, CopiedMatches
  <2>7. \A i \in 1..seq : log'[i] = Opening(at)[i] BY <1>2, <1>5, <1>6
  <2> QED BY <2>6, <2>7, <1>5, MatchesPrefix
<1>7. CASE seq > m
  <2>1. Source(at, seq, at) BY <1>1, <1>2, <1>5, <1>7, SourceExists
  <2>2. SelectFrom(CopiedCheckpoints(at), seq) = Select(at) BY <1>1, <1>5, <2>1, ForkSelects
  <2>3. PICK e \in CopiedCheckpoints(at) :
          /\ NewestCovering(CopiedCheckpoints(at), seq, e)
          /\ SelectFrom(CopiedCheckpoints(at), seq) = [ref |-> e.ref, covered |-> TRUE]
    <3>1. \A d \in CopiedCheckpoints(at) : d.covered \in 1..m BY <1>3 DEF Checkpoints
    <3>2. \E d \in CopiedCheckpoints(at) : Covers(d, seq) BY <1>4 DEF NewestCovering
    <3> HIDE DEF m
    <3> QED BY <3>1, <3>2, <1>2, SelectionIs
  <2>4. e = c
    <3>1. e.covered \in Int /\ c.covered \in Int BY <1>3 DEF Checkpoints
    <3>2. e.covered <= c.covered /\ c.covered <= e.covered BY <2>3, <1>4 DEF NewestCovering
    <3> QED BY <3>1, <3>2, <1>3
  <2>5. c.ref = row'.ref
    <3>1. Select(at) = [ref |-> c.ref, covered |-> TRUE] BY <2>2, <2>3, <2>4
    <3>2. Select(at).ref = c.ref BY <3>1
    <3>3. row'.ref = Select(at).ref BY <1>2
    <3> QED BY <3>2, <3>3
  <2>6. seq \in MapSeq(at, at) + 1 .. Len(log') BY <1>7, <1>2
  <2>7. \A s : /\ Done(log', seq, s) <=> s \in row'.ref
               /\ Tried(log', seq, s) <=> s \in row'.ref
    BY <2>6, RestoredEffects
  <2> QED BY <2>5, <2>7 DEF Matches
<1> QED BY <1>5, <1>6, <1>7, <1>2

(* The environment of a fork that restores: none is bound yet, and the     *)
(* reference of its row is what it stands for.                             *)
LEMMA ForkWorld ==
  ASSUME RowsInv, WorldFollows, NEW at \in 1..Len(log), Fork(at), row.registered \in 1..at
  PROVE  WorldFollows'
<1> DEFINE m == MapSeq(at, at)
<1>1. /\ row'.registered = MapSeq(row.registered, at) /\ ~row'.bound
      /\ m \in Nat \ {0} /\ Len(log') \in Nat /\ Len(log') > m
      /\ \A i \in 1..m : log'[i] = Opening(at)[i]
      /\ \A i \in m + 2 .. Len(log') : log'[i] = Note("checkpointed")
  BY ForkedResource
<1>2. log \in Seq(EventRecords) /\ at \in Nat /\ Len(log) \in Nat BY DEF RowsInv, RowsTyped
<1>3. world' = {} BY DEF Fork
<1>4. /\ row'.registered \in Nat \ {0} /\ row'.registered <= m
      /\ \A s, t \in Int : s <= t => MapSeq(s, at) <= MapSeq(t, at)
  <2>1. row.registered \in Int /\ at \in Int /\ row.registered <= at BY <1>2
  <2>2. /\ \A s \in Int : MapSeq(s, at) \in Nat \ {0}
        /\ \A s, t \in Int : s <= t => MapSeq(s, at) <= MapSeq(t, at)
    BY <1>2, MapSeqGrows
  <2>3. MapSeq(row.registered, at) \in Nat \ {0} BY <2>1, <2>2
  <2>4. MapSeq(row.registered, at) <= MapSeq(at, at) BY <2>1, <2>2
  <2> QED BY <2>2, <2>3, <2>4, <1>1
<1>5. ASSUME NEW i \in 1..Len(log'), log'[i].type = "initialized"
      PROVE  row'.registered \in 1..i
  <2>1. CASE i = 1
    <3>1. log'[1] = Note("opened") BY <1>1, <1>2, OpeningOfFork
    <3> QED BY <3>1, <2>1, <1>5 DEF Note, Event
  <2>2. CASE i \in 2..m
    <3>1. PICK j \in 1..at : MapSeq(j, at) = i /\ Opening(at)[i] = log[j]
      BY <2>2, <1>2, OpeningOfFork
    <3>2. log[j].type = "initialized" BY <3>1, <2>2, <1>1, <1>5
    <3>3. j \in 1..Len(log) BY <1>2
    <3>4. row.registered \in 1..j BY <3>2, <3>3 DEF WorldFollows
    <3>5. row.registered \in Int /\ j \in Int /\ row.registered <= j BY <3>4, <1>2
    <3>6. MapSeq(row.registered, at) <= MapSeq(j, at) BY <3>5, <1>4
    <3> HIDE DEF m
    <3> QED BY <3>1, <3>6, <1>1, <1>4
  <2>3. CASE i > m
    <3> HIDE DEF m
    <3> QED BY <2>3, <1>1, <1>4
  <2> HIDE DEF m
  <2> QED BY <2>1, <2>2, <2>3, <1>1
<1>6. Len(log') \in MapSeq(at, at) + 1 .. Len(log') BY <1>1
<1>7. \A s : Tried(log', Len(log'), s) <=> s \in row'.ref BY <1>6, RestoredEffects
<1> QED BY <1>1, <1>3, <1>5, <1>7 DEF WorldFollows

(* A fork before the registration has nothing of the resource.             *)
LEMMA ForkBefore ==
  ASSUME RowsInv, WorldFollows, NEW at \in 1..Len(log), Fork(at), row.registered \notin 1..at
  PROVE  WorldFollows' /\ CoverageOK(log', checkpoints', strays')
<1> DEFINE m == MapSeq(at, at)
<1>1. /\ log \in Seq(EventRecords) /\ at \in Nat /\ Len(log) \in Nat
      /\ row.registered \in 0..Len(log)
  BY DEF RowsInv, RowsTyped
<1>2. /\ row' = NoRow /\ checkpoints' = {} /\ log' = Opening(at) /\ world' = {}
  BY DEF Fork, Opening
<1>3. Len(log') = m BY <1>1, <1>2, OpeningOfFork
<1>4. m \in Nat \ {0} BY <1>1, MapSeqGrows
<1>5. \A i \in 1..at : log[i].type # "initialized"
  <2>1. SUFFICES ASSUME NEW i \in 1..at, log[i].type = "initialized" PROVE FALSE OBVIOUS
  <2>2. i \in 1..Len(log) BY <1>1
  <2>3. row.registered \in 1..i BY <2>1, <2>2 DEF WorldFollows
  <2> QED BY <2>3, <1>1
<1>6. \A s \in Affecting : ~Tried(log', Len(log'), s)
  <2>1. SUFFICES ASSUME NEW s \in Affecting, Tried(log', Len(log'), s) PROVE FALSE OBVIOUS
  <2>2. Source(at, m, at)
    <3>1. MapSeq(at, at) \in Nat \ {0} /\ MapSeq(at, at) >= MapSeq(at, at) BY <1>4
    <3> QED BY <3>1, <1>1, SourceExists
  <2>3. Has(Opening(at), m, Ran, s) BY <2>1, <1>2, <1>3 DEF Tried
  <2>4. Has(log, at, Ran, s)
    <3>1. Ran \in SUBSET Final BY DEF Ran, Final
    <3>2. MapSeq(at, at) \in 1..MapSeq(at, at) BY <1>4
    <3> QED BY <3>1, <3>2, <2>2, <2>3, <1>1, ForkHas
  <2>5. PICK i \in 1..at : Brings(log[i], Ran, s) BY <2>4 DEF Has
  <2>6. i \in 1..Len(log) /\ log[i].type \in Ran /\ log[i].step = s
    BY <2>5, <1>1, <1>5 DEF Brings
  <2>7. row.registered \in 1..i BY <2>6 DEF RowsInv, RegisteredFirst
  <2> QED BY <2>7, <1>1
<1>7. ASSUME NEW i \in 1..Len(log') PROVE log'[i].type # "initialized"
  <2>1. CASE i = 1
    <3>1. log'[1] = Note("opened") BY <1>1, <1>2, OpeningOfFork
    <3> QED BY <3>1, <2>1 DEF Note, Event
  <2>2. CASE i # 1
    <3>1. i \in 2..m BY <2>2, <1>3, <1>4
    <3>2. PICK j \in 1..at : Opening(at)[i] = log[j] BY <3>1, <1>1, OpeningOfFork
    <3> QED BY <3>2, <1>2, <1>5
  <2> QED BY <2>1, <2>2
<1>8. row'.ref = {} /\ ~row'.bound BY <1>2 DEF NoRow
<1> QED BY <1>2, <1>6, <1>7, <1>8 DEF WorldFollows, CoverageOK, EffectsEnded

(* ForkExecution: the fork follows whatever its fork point was.            *)
LEMMA ForkCovers ==
  ASSUME CoverInv, NEW at \in 1..Len(log), Fork(at)
  PROVE  CoverInv'
<1>1. CountInv /\ RowsInv /\ WorldFollows /\ CoverageOK(log, checkpoints, strays) BY CoverParts
<1>2. CountInv' BY <1>1, NewExecutionKeeps
<1>3. /\ \A r \in Runs : AgentFollows(agent[r])'
      /\ RequestFollows' /\ LeaseFollows'
  <2>1. (\E status : NewExecution(status)) /\ world' = {} BY DEF Fork
  <2>2. PICK status : NewExecution(status) BY <2>1
  <2> QED BY <2>1, <2>2, <1>2, NewExecutionCovers
<1>4. WorldFollows' /\ CoverageOK(log', checkpoints', strays')
  <2>1. CASE row.registered \in 1..at BY <2>1, <1>1, ForkWorld, ForkCoverage
  <2>2. CASE row.registered \notin 1..at BY <2>2, <1>1, ForkBefore
  <2> QED BY <2>1, <2>2
<1> QED BY <1>2, <1>3, <1>4 DEF CoverInv

-----------------------------------------------------------------------------
(* Covered fork points                                                     *)

(* At first there is neither a resource nor an effect. *)
LEMMA InitCovers == Init => CoverInv
<1> SUFFICES ASSUME Init PROVE CoverInv OBVIOUS
<1>1. CountInv BY InitSatisfies
<1>2. /\ log = <<Note("opened")>> /\ row = NoRow /\ checkpoints = {} /\ world = {}
      /\ lease = 1 /\ agent = Launched /\ sent = NothingSent
  BY DEF Init
<1>3. Len(log) = 1 /\ log[1].type = "opened" BY <1>2 DEF Note, Event
<1>4. \A s : ~Tried(log, Len(log), s) /\ ~Done(log, Len(log), s)
  <2>1. \A outcomes \in SUBSET Final : \A s : ~Has(log, Len(log), outcomes, s)
    BY <1>3 DEF Has, Brings, Final
  <2>2. Ran \in SUBSET Final /\ {"succeeded"} \in SUBSET Final BY DEF Ran, Final
  <2> QED BY <2>1, <2>2 DEF Tried, Done
<1>5. row.ref = {} /\ ~row.bound /\ row.generation = 0 BY <1>2 DEF NoRow
<1>6. WorldFollows BY <1>2, <1>3, <1>4, <1>5 DEF WorldFollows
<1>7. 1 \in Runs BY BoundsAssumption DEF Runs, BoundsAssumption
<1>8. \A r \in Runs : agent[r].at \in {"none", "starting"} /\ agent[r].generation = 0
  BY <1>2 DEF Launched, NoAgent
<1>9. \A r \in Runs : AgentFollows(agent[r]) BY <1>5, <1>8 DEF AgentFollows, AtWork
<1>10. RequestFollows BY <1>2, <1>5 DEF RequestFollows, NothingSent
<1>11. LeaseFollows BY <1>2, <1>7, <1>8 DEF LeaseFollows, AtWork
<1>12. CoverageOK(log, checkpoints, strays) BY <1>2, <1>3 DEF CoverageOK, EffectsEnded
<1> QED BY <1>1, <1>6, <1>9, <1>10, <1>11, <1>12 DEF CoverInv

(* Every step keeps the invariant of the captures. *)
LEMMA NextKeepsCoverage == CoverInv /\ [Next]_vars => CoverInv'
<1> SUFFICES ASSUME CoverInv, [Next]_vars PROVE CoverInv' OBVIOUS
<1>1. CASE UNCHANGED vars
  <2>1. CountInv' BY <1>1, NextKeepsCounts, CoverParts
  <2>2. /\ log' = log /\ step' = step /\ row' = row /\ checkpoints' = checkpoints
        /\ world' = world /\ lease' = lease /\ agent' = agent /\ sent' = sent /\ strays' = strays
    BY <1>1 DEF vars, leaseVars, strayVars
  <2>3. WorldFollows' BY <2>2, CoverParts DEF WorldFollows
  <2>4. \A r \in Runs : AgentFollows(agent[r])' BY <2>2, CoverParts DEF AgentFollows, Current
  <2>5. RequestFollows' BY <2>2, CoverParts DEF RequestFollows, Current
  <2>6. LeaseFollows' BY <2>2, CoverParts DEF LeaseFollows
  <2>7. CoverageOK(log', checkpoints', strays') BY <2>2, CoverParts
  <2> QED BY <2>1, <2>3, <2>4, <2>5, <2>6, <2>7 DEF CoverInv
<1>2. CASE \E r \in Runs :
             Register(r) \/ Bind(r) \/ Capture(r) \/ Write(r) \/ CaptureDue(r) \/ Report(r)
  BY <1>2, RegisterCovers, BindCovers, ExternalCovers, ReportCovers
<1>3. CASE \E r \in Runs, s \in Affecting : Submit(r, s)
  BY <1>3, SubmitCovers
<1>4. CASE \E r \in Runs, s \in Others : SubmitOther(r, s)
  BY <1>4, SubmitOtherCovers
<1>5. CASE Publish \/ \E s \in Others : ReportOther(s)
  BY <1>5, PublishCovers, ReportOtherCovers
<1>6. CASE Redispatch
  BY <1>6, RedispatchCovers
<1>7. CASE Turn \/ \E at \in 1..Len(log) : Fork(at)
  BY <1>7, TurnCovers, ForkCovers
<1> QED BY <1>1, <1>2, <1>3, <1>4, <1>5, <1>6, <1>7 DEF Next

(* In every reachable state the environment, the requests on their way, the *)
(* agents and all boundaries are what the log says.                         *)
THEOREM CoverInvariance == Spec => []CoverInv
BY InitCovers, NextKeepsCoverage, PTL DEF Spec

(* A fork point called covered is: what it selects holds every affecting    *)
(* step that had succeeded, and none without an outcome, where the outcome  *)
(* of an attempt heard after it had lost the lease may be missing.          *)
THEOREM CoveredMeansComplete == Spec => []CoveredForkMatches
<1>1. CoverInv => CoveredForkMatches
  <2>1. SUFFICES ASSUME CoverInv, NEW seq \in 1..Len(log), Select(seq).covered
                 PROVE  /\ (WithOutcome(seq, {"succeeded"}) \cap Affecting) \ strays \subseteq Select(seq).ref
                        /\ Select(seq).ref \subseteq WithOutcome(seq, {"succeeded", "failed"})
    BY DEF CoveredForkMatches
  <2>2. RowsTyped /\ CoverageOK(log, checkpoints, strays) BY <2>1, CoverParts
  <2>3. /\ log \in Seq(EventRecords) /\ Len(log) \in Nat
        /\ \A c \in checkpoints : c.covered \in 1..Len(log)
    BY <2>2 DEF RowsTyped, Checkpoints
  <2>4. PICK c \in checkpoints : NewestCovering(checkpoints, seq, c) /\ Select(seq).ref = c.ref
    <3>1. CASE \E c \in checkpoints : Covers(c, seq)
      <4>1. PICK c \in checkpoints :
              /\ NewestCovering(checkpoints, seq, c)
              /\ SelectFrom(checkpoints, seq) = [ref |-> c.ref, covered |-> TRUE]
        BY <3>1, <2>3, SelectionIs
      <4> QED BY <4>1 DEF Select
    <3>2. CASE \A c \in checkpoints : ~Covers(c, seq)
      <4>1. SelectFrom(checkpoints, seq).covered = FALSE
        <5>1. CASE \E c \in checkpoints : c.covered <= seq
          <6>1. PICK c \in checkpoints :
                  SelectFrom(checkpoints, seq) = [ref |-> c.ref, covered |-> FALSE]
            BY <5>1, <3>2, <2>3, SelectionIs
          <6> QED BY <6>1
        <5>2. CASE \A c \in checkpoints : ~(c.covered <= seq)
          <6>1. SelectFrom(checkpoints, seq) = [ref |-> {}, covered |-> FALSE]
            BY <5>2, <2>3, SelectionIs
          <6> QED BY <6>1
        <5> QED BY <5>1, <5>2
      <4> QED BY <4>1, <2>1 DEF Select
    <3> QED BY <3>1, <3>2
  <2>5. Matches(log, seq, c.ref, strays) BY <2>2, <2>4 DEF CoverageOK
  <2>6. ASSUME NEW s PROVE s \in WithOutcome(seq, {"succeeded"}) <=> Done(log, seq, s)
    <3>1. PICK outcomes : outcomes = {"succeeded"} OBVIOUS
    <3>2. "initialized" \notin outcomes BY <3>1
    <3>3. s \in WithOutcome(seq, outcomes) <=> Has(log, seq, outcomes, s)
      BY <3>2, <2>3, OutcomesAreEffects
    <3> QED BY <3>1, <3>3 DEF Done
  <2>7. ASSUME NEW s PROVE s \in WithOutcome(seq, {"succeeded", "failed"}) <=> Tried(log, seq, s)
    <3>1. "initialized" \notin Ran BY DEF Ran
    <3>2. s \in WithOutcome(seq, Ran) <=> Has(log, seq, Ran, s)
      BY <3>1, <2>3, OutcomesAreEffects
    <3> QED BY <3>2 DEF Tried, Ran
  <2> QED BY <2>4, <2>5, <2>6, <2>7 DEF Matches
<1> QED BY <1>1, CoverInvariance, PTL

=============================================================================
