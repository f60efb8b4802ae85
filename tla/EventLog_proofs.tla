---------------------------- MODULE EventLog_proofs ----------------------------
(***************************************************************************)
(* Proofs about EventLog, for every set of writers, every batch and page   *)
(* size and every bound.                                                   *)
(***************************************************************************)
EXTENDS EventLog, FiniteSetTheorems, TLAPS

Phases == {"idle", "locked", "numbered", "written"}

EventTypeOK ==
  /\ committed \in SUBSET Nat
  /\ appending \in [Writers -> [phase : Phases, batch : SUBSET Nat, rows : SUBSET Nat]]
  /\ page \in [after : Nat, got : SUBSET Nat]

(* A transaction's rows follow the committed ones, and the numbers it has   *)
(* read follow both, `last` being the highest committed number.             *)
Follows(w, last) ==
  \E top \in Nat :
    /\ top >= last
    /\ appending[w].rows = last + 1 .. top
    /\ appending[w].phase = "numbered" => \E end \in Nat : appending[w].batch = top + 1 .. end

(* The inductive invariant: the committed numbers are an initial segment,   *)
(* one writer at a time holds the execution's row, and only what it holds   *)
(* has uncommitted rows; the reader has everything up to where it stands.   *)
EventInv ==
  /\ EventTypeOK
  /\ \A v, w \in Writers : v \in Open /\ w \in Open => v = w
  /\ \A w \in Writers : w \notin Open => appending[w] = NotWriting
  /\ \E last \in Nat :
       /\ committed = 1..last
       /\ \A w \in Writers : Follows(w, last)
       /\ page.after <= last
       /\ page.got = 1..page.after

-----------------------------------------------------------------------------
(* The latest number of an initial segment is its end, 0 for none.          *)
LEMMA MaxOfInterval ==
  ASSUME NEW a \in Int, NEW b \in Int, a <= b
  PROVE  Max(a..b) = b
<1>1. b \in a..b /\ \A y \in a..b : b >= y
  OBVIOUS
<1>2. \A x \in a..b : (\A y \in a..b : x >= y) => x = b
  OBVIOUS
<1> QED
  BY <1>1, <1>2 DEF Max

LEMMA LatestOfSegment ==
  ASSUME NEW n \in Nat
  PROVE  Latest(1..n) = n
<1>1. CASE n = 0
  BY <1>1 DEF Latest
<1>2. CASE n > 0
  BY <1>2, MaxOfInterval DEF Latest
<1> QED
  BY <1>1, <1>2

LEMMA IntervalSize ==
  ASSUME NEW a \in Int, NEW b \in Int, a <= b + 1
  PROVE  Cardinality(a..b) = b - a + 1
<1>1. Cardinality(a..b) = IF a > b THEN 0 ELSE b - a + 1
  BY FS_Interval
<1> QED
  BY <1>1

LEMMA EventInit_Inv == EventInit => EventInv
<1> SUFFICES ASSUME EventInit PROVE EventInv
  OBVIOUS
<1>1. EventTypeOK
  BY DEF EventInit, EventTypeOK, NotWriting, Phases
<1>2. Open = {}
  BY DEF EventInit, Open, NotWriting
<1>3. /\ committed = 1..0
      /\ \A w \in Writers : Follows(w, 0)
      /\ page.after <= 0
      /\ page.got = 1..page.after
  <2>1. {} = 0 + 1 .. 0 /\ {} = 1..0
    OBVIOUS
  <2>2. \A w \in Writers : appending[w] = NotWriting
    BY DEF EventInit
  <2>3. \A w \in Writers : appending[w].rows = {} /\ appending[w].phase = "idle"
    BY <2>2 DEF NotWriting
  <2> QED
    <3>1. \A w \in Writers : Follows(w, 0)
      <4> SUFFICES ASSUME NEW w \in Writers PROVE Follows(w, 0)
        OBVIOUS
      <4>1. /\ 0 \in Nat /\ 0 >= 0
            /\ appending[w].rows = 0 + 1 .. 0
            /\ appending[w].phase # "numbered"
        BY <2>1, <2>3
      <4> QED
        BY <4>1 DEF Follows
    <3>2. committed = {} /\ page = [after |-> 0, got |-> {}]
      BY DEF EventInit
    <3> QED
      BY <2>1, <3>1, <3>2
<1> QED
  BY <1>1, <1>2, <1>3 DEF EventInv, EventInit

(* Only the holder of the row moves: the rest of the invariant follows.     *)
LEMMA HolderMoves ==
  ASSUME EventInv, NEW w \in Writers, NEW row,
         row \in [phase : Phases, batch : SUBSET Nat, rows : SUBSET Nat],
         appending' = [appending EXCEPT ![w] = row],
         RowIsFree(w),
         row.phase = "idle" => row = NotWriting
  PROVE  /\ appending' \in [Writers -> [phase : Phases, batch : SUBSET Nat, rows : SUBSET Nat]]
         /\ \A u, v \in Writers : u \in Open' /\ v \in Open' => u = v
         /\ \A v \in Writers : v \notin Open' => appending'[v] = NotWriting
         /\ \A v \in Writers : v # w => appending[v] = NotWriting /\ appending'[v] = NotWriting
         /\ appending'[w] = row
<1>1. \A v \in Writers : appending'[v] = IF v = w THEN row ELSE appending[v]
  BY DEF EventInv, EventTypeOK
<1>2. \A v \in Writers : v # w => appending[v] = NotWriting
  BY DEF EventInv, RowIsFree
<1>3. \A v \in Writers : v \in Open' => v = w
  BY <1>1, <1>2 DEF Open, NotWriting
<1>4. row.phase = "idle" \/ w \in Open'
  BY <1>1 DEF Open, Phases
<1> QED
  BY <1>1, <1>2, <1>3, <1>4 DEF EventInv, EventTypeOK

(* A writer with nothing open follows any number.                           *)
LEMMA IdleFollows ==
  ASSUME NEW w \in Writers, NEW last \in Nat, appending'[w] = NotWriting
  PROVE  Follows(w, last)'
<1>1. /\ last >= last
      /\ appending'[w].rows = last + 1 .. last
      /\ appending'[w].phase # "numbered"
  BY DEF NotWriting
<1> QED
  BY <1>1 DEF Follows

LEMMA HolderOnly ==
  ASSUME EventInv, NEW w \in Writers, w \in Open
  PROVE  RowIsFree(w)
  BY DEF EventInv, RowIsFree, Open

LEMMA LockRowInv ==
  ASSUME EventInv, NEW w \in Writers, LockRow(w)
  PROVE  EventInv'
<1> DEFINE row == [appending[w] EXCEPT !.phase = "locked"]
<1>1. /\ row \in [phase : Phases, batch : SUBSET Nat, rows : SUBSET Nat]
      /\ row.phase = "locked" /\ row.rows = appending[w].rows
  BY DEF EventInv, EventTypeOK, Phases
<1>2. appending' = [appending EXCEPT ![w] = row] /\ RowIsFree(w) /\ UNCHANGED <<committed, page>>
  BY DEF LockRow, EventInv, EventTypeOK
<1> HIDE DEF row
<1>3. /\ appending' \in [Writers -> [phase : Phases, batch : SUBSET Nat, rows : SUBSET Nat]]
      /\ \A u, v \in Writers : u \in Open' /\ v \in Open' => u = v
      /\ \A v \in Writers : v \notin Open' => appending'[v] = NotWriting
      /\ \A v \in Writers : v # w => appending[v] = NotWriting /\ appending'[v] = NotWriting
      /\ appending'[w] = row
  BY <1>1, <1>2, HolderMoves
<1>4. PICK last \in Nat :
        /\ committed = 1..last
        /\ \A v \in Writers : Follows(v, last)
        /\ page.after <= last
        /\ page.got = 1..page.after
  BY DEF EventInv
<1>5. \A v \in Writers : Follows(v, last)'
  BY <1>1, <1>3, <1>4, IdleFollows DEF Follows
<1> QED
  BY <1>2, <1>3, <1>4, <1>5 DEF EventInv, EventTypeOK

LEMMA ReadMaxInv ==
  ASSUME EventInv, NEW w \in Writers, NEW n \in BatchSizes, ReadMax(w, n)
  PROVE  EventInv'
<1> DEFINE start == Latest(committed \cup appending[w].rows)
           row == [appending[w] EXCEPT !.phase = "numbered", !.batch = start + 1 .. start + n]
<1>1. PICK last \in Nat :
        /\ committed = 1..last
        /\ \A v \in Writers : Follows(v, last)
        /\ page.after <= last
        /\ page.got = 1..page.after
  BY DEF EventInv
<1>2. PICK top \in Nat : top >= last /\ appending[w].rows = last + 1 .. top
  BY <1>1 DEF Follows
<1>3. start = top
  <2>1. committed \cup appending[w].rows = 1..top
    BY <1>1, <1>2
  <2> QED
    BY <2>1, LatestOfSegment
<1>4. n \in Nat
  BY EventLogAssumption
<1>5. /\ row \in [phase : Phases, batch : SUBSET Nat, rows : SUBSET Nat]
      /\ row.phase = "numbered" /\ row.rows = appending[w].rows
      /\ row.batch = top + 1 .. top + n
  <2>1. appending[w] \in [phase : Phases, batch : SUBSET Nat, rows : SUBSET Nat]
    BY DEF EventInv, EventTypeOK
  <2>2. top + 1 .. top + n \in SUBSET Nat /\ "numbered" \in Phases
    BY <1>4 DEF Phases
  <2> QED
    BY <1>3, <2>1, <2>2
<1>6. appending' = [appending EXCEPT ![w] = row] /\ UNCHANGED <<committed, page>>
  BY DEF ReadMax, EventInv, EventTypeOK
<1>7. RowIsFree(w)
  BY HolderOnly DEF ReadMax, Open
<1> HIDE DEF row, start
<1>8. /\ appending' \in [Writers -> [phase : Phases, batch : SUBSET Nat, rows : SUBSET Nat]]
      /\ \A u, v \in Writers : u \in Open' /\ v \in Open' => u = v
      /\ \A v \in Writers : v \notin Open' => appending'[v] = NotWriting
      /\ \A v \in Writers : v # w => appending[v] = NotWriting /\ appending'[v] = NotWriting
      /\ appending'[w] = row
  BY <1>5, <1>6, <1>7, HolderMoves
<1>9. \A v \in Writers : Follows(v, last)'
  <2>1. Follows(w, last)'
    BY <1>2, <1>4, <1>5, <1>8 DEF Follows
  <2> QED
    BY <1>8, <2>1, IdleFollows
<1> QED
  BY <1>1, <1>6, <1>8, <1>9 DEF EventInv, EventTypeOK

(* The numbers that were read under the lock are still free at the insert.  *)
LEMMA InsertBatchInv ==
  ASSUME EventInv, NEW w \in Writers, InsertBatch(w)
  PROVE  EventInv'
<1> DEFINE row == [phase |-> "written", batch |-> {},
                   rows |-> appending[w].rows \cup appending[w].batch]
<1>1. PICK last \in Nat :
        /\ committed = 1..last
        /\ \A v \in Writers : Follows(v, last)
        /\ page.after <= last
        /\ page.got = 1..page.after
  BY DEF EventInv
<1>2. PICK top \in Nat :
        /\ top >= last
        /\ appending[w].rows = last + 1 .. top
        /\ \E end \in Nat : appending[w].batch = top + 1 .. end
  BY <1>1 DEF Follows, InsertBatch
<1>3. PICK end \in Nat : appending[w].batch = top + 1 .. end
  BY <1>2
<1>4. appending[w].batch \cap committed = {}
  BY <1>1, <1>2, <1>3
<1>5. appending' = [appending EXCEPT ![w] = row] /\ UNCHANGED <<committed, page>>
  BY <1>4 DEF InsertBatch, EventInv, EventTypeOK
<1>6. row \in [phase : Phases, batch : SUBSET Nat, rows : SUBSET Nat]
  BY DEF EventInv, EventTypeOK, Phases
<1>7. RowIsFree(w)
  BY HolderOnly DEF InsertBatch, Open
<1>8. \E t \in Nat : t >= last /\ row.rows = last + 1 .. t
  <2>1. CASE end >= top
    BY <1>2, <1>3, <2>1
  <2>2. CASE end < top
    BY <1>2, <1>3, <2>2
  <2> QED
    BY <2>1, <2>2
<1> HIDE DEF row
<1>9. /\ appending' \in [Writers -> [phase : Phases, batch : SUBSET Nat, rows : SUBSET Nat]]
      /\ \A u, v \in Writers : u \in Open' /\ v \in Open' => u = v
      /\ \A v \in Writers : v \notin Open' => appending'[v] = NotWriting
      /\ \A v \in Writers : v # w => appending[v] = NotWriting /\ appending'[v] = NotWriting
      /\ appending'[w] = row
  BY <1>5, <1>6, <1>7, HolderMoves DEF row
<1>10. \A v \in Writers : Follows(v, last)'
  <2>1. Follows(w, last)'
    BY <1>8, <1>9 DEF Follows, row
  <2> QED
    BY <1>9, <2>1, IdleFollows
<1> QED
  BY <1>1, <1>5, <1>9, <1>10 DEF EventInv, EventTypeOK

(* Commit and rollback give the row up; a commit extends the segment.       *)
LEMMA EndWriteInv ==
  ASSUME EventInv, NEW w \in Writers, CommitEvents(w) \/ RollbackEvents(w)
  PROVE  EventInv'
<1>1. PICK last \in Nat :
        /\ committed = 1..last
        /\ \A v \in Writers : Follows(v, last)
        /\ page.after <= last
        /\ page.got = 1..page.after
  BY DEF EventInv
<1>2. PICK top \in Nat : top >= last /\ appending[w].rows = last + 1 .. top
  BY <1>1 DEF Follows
<1>3. appending' = [appending EXCEPT ![w] = NotWriting] /\ UNCHANGED page
  BY DEF CommitEvents, RollbackEvents
<1>4. RowIsFree(w)
  BY HolderOnly DEF CommitEvents, RollbackEvents, Open
<1>5. NotWriting \in [phase : Phases, batch : SUBSET Nat, rows : SUBSET Nat]
  BY DEF NotWriting, Phases
<1>6. /\ appending' \in [Writers -> [phase : Phases, batch : SUBSET Nat, rows : SUBSET Nat]]
      /\ \A u, v \in Writers : u \in Open' /\ v \in Open' => u = v
      /\ \A v \in Writers : v \notin Open' => appending'[v] = NotWriting
      /\ \A v \in Writers : appending'[v] = NotWriting
  BY <1>3, <1>4, <1>5, HolderMoves
<1>7. committed' = 1..last \/ committed' = 1..top
  <2>1. 1..last \cup (last + 1 .. top) = 1..top
    BY <1>2
  <2>2. CASE CommitEvents(w)
    BY <1>1, <1>2, <2>1, <2>2 DEF CommitEvents
  <2>3. CASE RollbackEvents(w)
    BY <1>1, <2>3 DEF RollbackEvents
  <2> QED
    BY <2>2, <2>3
<1>8. PICK n \in Nat : n >= last /\ committed' = 1..n
  BY <1>2, <1>7
<1>9. \A v \in Writers : Follows(v, n)'
  BY <1>6, IdleFollows
<1>10. EventTypeOK'
  BY <1>3, <1>6, <1>8 DEF EventInv, EventTypeOK
<1>11. page'.after <= n /\ page'.got = 1..page'.after
  BY <1>1, <1>3, <1>8 DEF EventInv, EventTypeOK
<1> QED
  BY <1>6, <1>8, <1>9, <1>10, <1>11 DEF EventInv

(* A page is the next numbers after the last one seen, and not empty.       *)
LEMMA GetEventsInv ==
  ASSUME EventInv, GetEvents
  PROVE  EventInv'
<1> DEFINE rest == {s \in committed : s > page.after}
           next == {s \in rest : Cardinality({t \in rest : t < s}) < PageSize}
<1>1. PICK last \in Nat :
        /\ committed = 1..last
        /\ \A v \in Writers : Follows(v, last)
        /\ page.after <= last
        /\ page.got = 1..page.after
  BY DEF EventInv
<1>2. page.after \in Nat /\ PageSize \in Nat /\ PageSize >= 1
  BY EventLogAssumption DEF EventInv, EventTypeOK
<1>3. rest = page.after + 1 .. last
  BY <1>1, <1>2
<1>4. ASSUME NEW s \in rest
      PROVE  Cardinality({t \in rest : t < s}) = s - 1 - page.after
  <2>1. {t \in rest : t < s} = page.after + 1 .. s - 1
    BY <1>2, <1>3
  <2>2. s \in Int /\ page.after + 1 \in Int /\ s - 1 \in Int /\ page.after + 1 <= s
    BY <1>2, <1>3
  <2>3. Cardinality(page.after + 1 .. s - 1) = (s - 1) - (page.after + 1) + 1
    BY <2>2, <1>2, IntervalSize
  <2> QED
    <3>1. (s - 1) - (page.after + 1) + 1 = s - 1 - page.after
      BY <2>2, <1>2
    <3>2. Cardinality({t \in rest : t < s}) = Cardinality(page.after + 1 .. s - 1)
      BY <2>1, Zenon
    <3> QED
      BY <2>3, <3>1, <3>2, Zenon
<1>5. next = {s \in rest : s - 1 - page.after < PageSize}
  BY <1>4
<1>6. last > page.after
  BY <1>1, <1>2, <1>3 DEF GetEvents
<1>7. PICK end \in Nat : end > page.after /\ end <= last /\ next = page.after + 1 .. end
  <2>1. CASE last <= page.after + PageSize
    <3>1. next = page.after + 1 .. last
      BY <1>2, <1>3, <1>5, <2>1
    <3> QED
      BY <1>6, <3>1
  <2>2. CASE last > page.after + PageSize
    <3>1. next = page.after + 1 .. page.after + PageSize
      BY <1>2, <1>3, <1>5, <2>2
    <3> QED
      BY <1>2, <2>2, <3>1
  <2> QED
    BY <1>2, <2>1, <2>2
<1>8. page' = [after |-> end, got |-> 1..end]
  <2>1. Max(next) = end
    <3>1. Max(page.after + 1 .. end) = end
      BY <1>2, <1>7, MaxOfInterval
    <3> HIDE DEF next
    <3> QED
      BY <1>7, <3>1
  <2>2. page.got \cup next = 1..end
    <3>1. page.got = 1..page.after /\ next = page.after + 1 .. end /\ end \in Nat
      BY <1>1, <1>2, <1>7
    <3>2. 1..page.after \cup (page.after + 1 .. end) = 1..end
      BY <1>2, <1>7
    <3> HIDE DEF next
    <3> QED
      BY <3>1, <3>2
  <2> QED
    BY <2>1, <2>2 DEF GetEvents
<1>9. UNCHANGED <<committed, appending>>
  BY DEF GetEvents
<1>10. /\ \A u, v \in Writers : u \in Open' /\ v \in Open' => u = v
       /\ \A v \in Writers : v \notin Open' => appending'[v] = NotWriting
       /\ \A v \in Writers : Follows(v, last)'
  BY <1>1, <1>9 DEF EventInv, Open, Follows
<1>11. EventTypeOK'
  BY <1>8, <1>9 DEF EventInv, EventTypeOK
<1> QED
  BY <1>1, <1>7, <1>8, <1>9, <1>10, <1>11 DEF EventInv

LEMMA EventNext_Inv == EventInv /\ [EventNext]_eventVars => EventInv'
<1> SUFFICES ASSUME EventInv, [EventNext]_eventVars PROVE EventInv'
  OBVIOUS
<1>1. CASE UNCHANGED eventVars
  BY <1>1 DEF eventVars, EventInv, EventTypeOK, Open, Follows
<1> QED
  BY <1>1, LockRowInv, ReadMaxInv, InsertBatchInv, EndWriteInv, GetEventsInv DEF EventNext

THEOREM EventInvariance == EventSpec => []EventInv
  BY EventInit_Inv, EventNext_Inv, PTL DEF EventSpec

(* Whoever appends and however large batches and pages are: a reader that    *)
(* asks for what follows the last event it saw misses none, and no append    *)
(* fails because another took its number.                                    *)
THEOREM NothingMissed == EventSpec => []ReadersMissNothing
<1>1. EventInv => ReadersMissNothing
  <2> SUFFICES ASSUME EventInv PROVE ReadersMissNothing
    OBVIOUS
  <2>1. PICK last \in Nat :
          committed = 1..last /\ page.after <= last /\ page.got = 1..page.after
    BY DEF EventInv
  <2>2. Cardinality(committed) = last
    BY <2>1, IntervalSize
  <2>3. page.got = {s \in committed : s <= page.after}
    BY <2>1 DEF EventInv, EventTypeOK
  <2>4. \A w \in Writers : appending[w].phase # "duplicate key"
    BY DEF EventInv, EventTypeOK, Phases
  <2> QED
    BY <2>1, <2>2, <2>3, <2>4 DEF ReadersMissNothing
<1> QED
  BY <1>1, EventInvariance, PTL
=============================================================================
