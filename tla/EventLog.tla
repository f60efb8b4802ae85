------------------------------ MODULE EventLog -------------------------------
(***************************************************************************)
(* The events of one execution (store/postgres/events.go): transactions    *)
(* append batches at MAX(event_seq) + 1 while a reader pages through the   *)
(* log by the last sequence number it saw.  Statements see what is         *)
(* committed and what their own transaction wrote.                         *)
(***************************************************************************)
EXTENDS Naturals, FiniteSets, FiniteSetsExt

CONSTANTS
  Writers,
  BatchSizes,
  PageSize,     \* events per page
  MaxEvents     \* bound: events written

ASSUME EventLogAssumption ==
  /\ BatchSizes \subseteq Nat \ {0} /\ PageSize \in Nat \ {0} /\ MaxEvents \in Nat

VARIABLES
  committed,    \* sequence numbers of the committed events
  appending,    \* per writer: [phase, batch, rows], rows not yet committed
  page          \* the reader: [after, got]

eventVars == <<committed, appending, page>>

NotWriting == [phase |-> "idle", batch |-> {}, rows |-> {}]
Latest(seqs) == IF seqs = {} THEN 0 ELSE Max(seqs)
Open == {w \in Writers : appending[w].phase \in {"locked", "numbered", "written"}}

EventInit ==
  /\ committed = {}
  /\ appending = [w \in Writers |-> NotWriting]
  /\ page = [after |-> 0, got |-> {}]

(* A plain SELECT.                                                         *)
RowIsRead(w) == TRUE

(* SELECT ... FOR UPDATE of the execution's row: one appender at a time.   *)
RowIsFree(w) == Open \subseteq {w}

LockRow(w) ==
  /\ appending[w].phase \in {"idle", "written"} /\ RowIsFree(w)
  /\ appending' = [appending EXCEPT ![w].phase = "locked"]
  /\ UNCHANGED <<committed, page>>

(* The row is locked while the batch's numbers are read, and kept.         *)
ReadMax(w, n) ==
  LET start == Latest(committed \cup appending[w].rows)
  IN /\ appending[w].phase = "locked" /\ start + n <= MaxEvents
     /\ appending' = [appending EXCEPT ![w].phase = "numbered", ![w].batch = start + 1 .. start + n]
     /\ UNCHANGED <<committed, page>>

(* A number that another open transaction inserted is waited for, a        *)
(* committed one is the primary key's violation.                           *)
InsertBatch(w) ==
  LET batch == appending[w].batch
  IN /\ appending[w].phase = "numbered"
     /\ \A v \in Writers \ {w} : appending[v].rows \cap batch = {}
     /\ appending' = [appending EXCEPT ![w] =
          IF batch \cap committed = {}
          THEN [phase |-> "written", batch |-> {}, rows |-> @.rows \cup batch]
          ELSE [NotWriting EXCEPT !.phase = "duplicate key"]]
     /\ UNCHANGED <<committed, page>>

CommitEvents(w) ==
  /\ appending[w].phase = "written"
  /\ committed' = committed \cup appending[w].rows
  /\ appending' = [appending EXCEPT ![w] = NotWriting]
  /\ UNCHANGED page

RollbackEvents(w) ==
  /\ w \in Open
  /\ appending' = [appending EXCEPT ![w] = NotWriting]
  /\ UNCHANGED <<committed, page>>

GetEvents ==
  LET rest == {s \in committed : s > page.after}
      next == {s \in rest : Cardinality({t \in rest : t < s}) < PageSize}
  IN /\ rest # {}
     /\ page' = [after |-> Max(next), got |-> page.got \cup next]
     /\ UNCHANGED <<committed, appending>>

EventNext ==
  \/ \E w \in Writers :
       LockRow(w) \/ InsertBatch(w) \/ CommitEvents(w) \/ RollbackEvents(w)
       \/ \E n \in BatchSizes : ReadMax(w, n)
  \/ GetEvents

EventSpec == EventInit /\ [][EventNext]_eventVars

-----------------------------------------------------------------------------
(* A reader that asks for what follows the last event it saw gets every    *)
(* event: none is committed later with a smaller number, none is skipped,  *)
(* and no append fails because another took its number.                    *)
ReadersMissNothing ==
  /\ committed = 1..Cardinality(committed)
  /\ page.got = {s \in committed : s <= page.after}
  /\ \A w \in Writers : appending[w].phase # "duplicate key"
=============================================================================
