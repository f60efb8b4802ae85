--------------------------- MODULE Session_proofs ---------------------------
(***************************************************************************)
(* Proofs about Session, for any number of executions, sessions, agents,   *)
(* concurrent admissions and requests.                                     *)
(***************************************************************************)
EXTENDS Session, TLAPS

(* An admission under way holds a waiting row of its session, alone.        *)
RowsHeld ==
  /\ \A a \in Admitters : txn[a] # Idle =>
       /\ txn[a].at \in {"picked", "headed"}
       /\ txn[a].exec \in Executions
       /\ status[txn[a].exec] = "pending"
       /\ session[txn[a].exec] \in Sessions
  /\ \A a, b \in Admitters :
       txn[a] # Idle /\ txn[b] # Idle /\ txn[a].exec = txn[b].exec => a = b

(* What admissions and requests read earlier is still true, or the foreign  *)
(* key will refuse what relies on it.                                       *)
HeadStands(a) ==
  LET h == txn[a].head IN
  status[h] = "deleted" \/ (status[h] = "completed" /\ agent[h] = agent[txn[a].exec])

RequestStands(r) ==
  LET p == request[r].parent IN
  status[p] = "deleted" \/ (status[p] = "completed" /\ agent[p] = request[r].agent)

ReadsStand ==
  /\ \A a \in Admitters : txn[a] # Idle /\ txn[a].head # None => HeadStands(a)
  /\ \A r \in Requests : request[r].parent # None => RequestStands(r)

(* An admission leaves a parent that is set as it is. *)
ParentKept ==
  \A a \in Admitters :
    txn[a].at = "headed" /\ parent[txn[a].exec] # None => txn[a].head = parent[txn[a].exec]

(* Only executions with a session wait. *)
WaitersHaveSession ==
  \A x \in Executions : status[x] = "pending" => session[x] \in Sessions

(* Only rows in the table have a parent. *)
OnlyRowsRefer == \A x \in Executions : parent[x] # None => status[x] \in Stored

(* The rows retention found have ended, and so has every row of their        *)
(* sessions that it saw.                                                     *)
SweepStands ==
  /\ \A x \in sweep.found : status[x] \in Terminal
  /\ \A x \in sweep.saw : status[x] \in Stored
  /\ \A x \in sweep.found, y \in sweep.saw :
       session[x] = session[y] /\ session[x] # NoSession => y \in sweep.found

IndInv ==
  /\ SessionTypeOK
  /\ SweepStands
  /\ OnlyRowsRefer
  /\ OneActive
  /\ WaitersHaveSession
  /\ RowsHeld
  /\ FirstComeFirstServed
  /\ ParentCompleted
  /\ ReadsStand
  /\ ParentKept

-----------------------------------------------------------------------------
(* Type correctness *)

LEMMA TypeInit == Init => SessionTypeOK
  BY SessionBoundsAssumption
     DEF Init, SessionTypeOK, NoSweep, Idle, Transactions, NoRequest, BranchRequests, None

(* The insert of an execution and what may stand beside it. *)
LEMMA TypeInsert ==
  ASSUME SessionTypeOK, NEW x \in Executions, NEW s \in Sessions \cup {NoSession},
         NEW g \in Agents \cup {None}, NEW p \in Executions \cup {None},
         NEW f \in Executions \cup {None}, Insert(x, s, g, p, f)
  PROVE  /\ status' \in [Executions -> {"absent", "deleted"} \cup Stored]
         /\ session' \in [Executions -> Sessions \cup {NoSession}]
         /\ agent' \in [Executions -> Agents \cup {None}]
         /\ parent' \in [Executions -> Executions \cup {None}]
         /\ forkedFrom' \in [Executions -> Executions \cup {None}]
         /\ unseen' \in [Admitters -> SUBSET Executions]
  BY DEF Insert, SessionTypeOK, Stored, Active, Terminal

LEMMA TypeCreation == SessionTypeOK /\ Creation => SessionTypeOK'
<1> SUFFICES ASSUME SessionTypeOK, Creation PROVE SessionTypeOK'
  OBVIOUS
<1>1. ASSUME NEW x \in Executions, NEW s \in Sessions \cup {NoSession}, NEW g \in Agents,
             Create(x, s, g)
      PROVE  SessionTypeOK'
  <2>1. Insert(x, s, g, None, None)
    BY <1>1 DEF Create
  <2> QED
    BY <1>1, <2>1, TypeInsert DEF Create, SessionTypeOK
<1>2. ASSUME NEW r \in Requests, NEW s \in Sessions \cup {NoSession}, NEW x \in Executions,
             CheckBranch(r, s, x) \/ CheckFork(r, s, x)
      PROVE  SessionTypeOK'
  BY <1>2 DEF CheckBranch, CheckFork, SessionTypeOK, BranchRequests, rowVars, None
<1>3. ASSUME NEW r \in Requests, NEW x \in Executions, InsertBranch(r, x)
      PROVE  SessionTypeOK'
  <2>1. request[r] \in BranchRequests
    BY DEF SessionTypeOK
  <2>2. Insert(x, request[r].session, request[r].agent, request[r].parent, request[r].forkedFrom)
    BY <1>3 DEF InsertBranch
  <2>3. NoRequest \in BranchRequests
    BY DEF NoRequest, BranchRequests
  <2> QED
    BY <1>3, <2>1, <2>2, <2>3, TypeInsert DEF InsertBranch, SessionTypeOK, BranchRequests
<1>4. ASSUME NEW r \in Requests, RefuseBranch(r) PROVE SessionTypeOK'
  <2>1. NoRequest \in BranchRequests
    BY DEF NoRequest, BranchRequests
  <2> QED
    BY <1>4, <2>1 DEF RefuseBranch, SessionTypeOK, rowVars
<1> QED
  BY <1>1, <1>2, <1>3, <1>4 DEF Creation

LEMMA TypeAdmission ==
  ASSUME SessionTypeOK, NEW a \in Admitters, Admission(a)
  PROVE  SessionTypeOK'
<1>1. Idle \in Transactions
  BY DEF Idle, Transactions
<1>2. txn[a] \in Transactions
  BY DEF SessionTypeOK
<1>3. ASSUME NEW s \in Sessions, Pick(a, s) PROVE SessionTypeOK'
  <2>1. PICK x \in Executions :
          txn' = [txn EXCEPT ![a] = [at |-> "picked", exec |-> x, head |-> None]]
    BY <1>3 DEF Pick
  <2>2. [at |-> "picked", exec |-> x, head |-> None] \in Transactions
    BY DEF SessionTypeOK, Transactions
  <2> QED
    BY <1>3, <2>1, <2>2 DEF Pick, SessionTypeOK, rowVars
<1>4. CASE ReadHead(a)
  <2>1. PICK h \in Executions \cup {None} :
          txn' = [txn EXCEPT ![a] = [at |-> "headed", exec |-> txn[a].exec, head |-> h]]
    BY <1>4 DEF ReadHead
  <2>2. [at |-> "headed", exec |-> txn[a].exec, head |-> h] \in Transactions
    BY <1>2 DEF Transactions
  <2> QED
    BY <1>4, <2>1, <2>2 DEF ReadHead, SessionTypeOK, rowVars
<1>5. CASE Admit(a)
  <2>1. txn[a].head \in Executions \cup {None}
    BY <1>2 DEF Transactions
  <2> QED
    BY <1>1, <1>5, <2>1 DEF Admit, SessionTypeOK, Stored, Active
<1>6. CASE Rollback(a)
  BY <1>1, <1>6 DEF Rollback, SessionTypeOK, rowVars
<1>7. CASE LoseAdmission(a)
  BY <1>1, <1>7, SessionBoundsAssumption DEF LoseAdmission, SessionTypeOK, rowVars
<1> QED
  BY <1>3, <1>4, <1>5, <1>6, <1>7 DEF Admission

LEMMA TypeRetention ==
  SessionTypeOK /\ (Delete \/ \E c \in Executions : FindExpired(c)) => SessionTypeOK'
<1> SUFFICES ASSUME SessionTypeOK, Delete \/ \E c \in Executions : FindExpired(c)
             PROVE  SessionTypeOK'
  OBVIOUS
<1>1. CASE Delete
  BY <1>1 DEF Delete, NoSweep, SessionTypeOK
<1>2. ASSUME NEW c \in Executions, FindExpired(c) PROVE SessionTypeOK'
  <2> DEFINE D == {x \in Aged(c) : session[x] # NoSession => Rows(session[x]) \subseteq Aged(c)}
  <2>1. Find(D)
    BY <1>2 DEF FindExpired
  <2>2. 1..c \subseteq Executions
    BY SessionBoundsAssumption DEF Executions
  <2>3. D \subseteq Executions
    BY <2>2 DEF Aged
  <2> HIDE DEF D
  <2>4. InTable \subseteq Executions
    BY DEF InTable
  <2> QED
    BY <2>1, <2>3, <2>4 DEF Find, SessionTypeOK, rowVars
<1> QED
  BY <1>1, <1>2

LEMMA TypeNext == SessionTypeOK /\ [Next]_vars => SessionTypeOK'
<1> SUFFICES ASSUME SessionTypeOK, [Next]_vars PROVE SessionTypeOK'
  OBVIOUS
<1>1. CASE UNCHANGED vars
  BY <1>1 DEF vars, rowVars, SessionTypeOK
<1>2. ASSUME NEW x \in Executions, Life(x) PROVE SessionTypeOK'
  BY <1>2 DEF Life, Block, Resume, Complete, Fail, Cancel, SetStatus, DeadlinePasses,
              SessionTypeOK, Stored, Active, Terminal, rowVars
<1> QED
  BY <1>1, <1>2, TypeCreation, TypeAdmission, TypeRetention DEF Next

(* Every variable of Session stays within its type. *)
THEOREM SessionTypeCorrect == Spec => []SessionTypeOK
  BY TypeInit, TypeNext, PTL DEF Spec

-----------------------------------------------------------------------------
(* The ways the rows change, which is all that most invariants depend on.   *)

Inserts ==
  \E x \in Executions, s \in Sessions \cup {NoSession}, g \in Agents \cup {None},
     p, f \in Executions \cup {None} : Insert(x, s, g, p, f) /\ UNCHANGED <<txn, late>>

SetsStatus ==
  \E x \in Executions :
    /\ \/ status[x] \in Active
       \/ status[x] = "pending" /\ ~Locked(x) /\ status' = [status EXCEPT ![x] = "cancelled"]
    /\ \E st \in Active \cup Terminal : SetStatus(x, st)

LEMMA RowChanges ==
  SessionTypeOK /\ Next =>
    \/ UNCHANGED rowVars
    \/ Inserts
    \/ SetsStatus
    \/ \E a \in Admitters : Admit(a)
    \/ Delete
<1> SUFFICES ASSUME SessionTypeOK, Next
             PROVE  \/ UNCHANGED rowVars \/ Inserts \/ SetsStatus
                    \/ \E a \in Admitters : Admit(a)
                    \/ Delete
  OBVIOUS
<1>1. ASSUME NEW x \in Executions, NEW s \in Sessions \cup {NoSession}, NEW g \in Agents,
             Create(x, s, g)
      PROVE  Inserts
  BY <1>1 DEF Create, Inserts
<1>2. ASSUME NEW r \in Requests, NEW x \in Executions, InsertBranch(r, x) PROVE Inserts
  <2>1. request[r] \in BranchRequests
    BY DEF SessionTypeOK
  <2> QED
    BY <1>2, <2>1 DEF InsertBranch, Inserts, BranchRequests
<1>3. ASSUME NEW x \in Executions, Life(x) PROVE UNCHANGED rowVars \/ SetsStatus
  BY <1>3 DEF Life, Block, Resume, Complete, Fail, Cancel, DeadlinePasses, SetsStatus,
              SetStatus, Active, Terminal
<1> QED
  BY <1>1, <1>2, <1>3
     DEF Next, Creation, CheckBranch, CheckFork, RefuseBranch,
         Admission, Pick, ReadHead, Rollback, LoseAdmission, FindExpired, Find

(* What an insert leaves alone: every row but its own, which was absent.     *)
LEMMA InsertedRow ==
  ASSUME SessionTypeOK, NEW x \in Executions, NEW s, NEW g, NEW p, NEW f, Insert(x, s, g, p, f)
  PROVE  /\ status[x] = "absent" /\ status'[x] \in {"pending", "running"}
         /\ status'[x] = "pending" => s # NoSession
         /\ status'[x] = "running" => s = NoSession
         /\ session'[x] = s /\ agent'[x] = g /\ parent'[x] = p
         /\ \A y \in Executions \ {x} :
              /\ status'[y] = status[y] /\ session'[y] = session[y]
              /\ agent'[y] = agent[y] /\ parent'[y] = parent[y]
  BY DEF Insert, SessionTypeOK

(* What retention leaves alone: every row that has not ended. *)
LEMMA DeletedRows ==
  ASSUME SessionTypeOK, SweepStands, Delete
  PROVE  \A x \in Executions :
           \/ status[x] \in Terminal /\ status'[x] = "deleted" /\ parent'[x] = None
           \/ /\ status'[x] = status[x] /\ session'[x] = session[x] /\ agent'[x] = agent[x]
              /\ \/ /\ parent'[x] = parent[x]
                    /\ parent[x] # None =>
                         status'[parent[x]] = status[parent[x]] /\ agent'[parent[x]] = agent[parent[x]]
                 \/ parent'[x] = None /\ status'[parent[x]] = "deleted" /\ ~Locked(x)
  BY DEF Delete, SweepStands, SessionTypeOK, None

-----------------------------------------------------------------------------
(* One turn at a time *)

LEMMA OneActiveNext == SessionTypeOK /\ SweepStands /\ OneActive /\ [Next]_vars => OneActive'
<1> SUFFICES ASSUME SessionTypeOK, SweepStands, OneActive, Next \/ UNCHANGED vars PROVE OneActive'
  OBVIOUS
<1>1. CASE UNCHANGED rowVars
  BY <1>1 DEF OneActive, rowVars
<1>2. CASE Inserts
  <2>1. PICK x \in Executions, s \in Sessions \cup {NoSession}, g \in Agents \cup {None},
               p, f \in Executions \cup {None} :
            Insert(x, s, g, p, f)
    BY <1>2 DEF Inserts
  <2> QED
    BY <2>1, InsertedRow DEF OneActive, Active
<1>3. CASE SetsStatus
  BY <1>3 DEF SetsStatus, SetStatus, OneActive, Active, Terminal, SessionTypeOK
<1>4. ASSUME NEW a \in Admitters, Admit(a) PROVE OneActive'
  BY <1>4 DEF Admit, Admissible, SessionTaken, OneActive, Active, SessionTypeOK
<1>5. ASSUME Delete PROVE OneActive'
  BY <1>5, DeletedRows DEF OneActive, Active
<1> QED
  BY <1>1, <1>2, <1>3, <1>4, <1>5, RowChanges DEF vars

-----------------------------------------------------------------------------
(* The rows admissions hold *)

LEMMA WaitersHaveSessionNext ==
  SessionTypeOK /\ SweepStands /\ WaitersHaveSession /\ [Next]_vars => WaitersHaveSession'
<1> SUFFICES ASSUME SessionTypeOK, SweepStands, WaitersHaveSession, Next \/ UNCHANGED vars
             PROVE  WaitersHaveSession'
  OBVIOUS
<1>1. CASE UNCHANGED rowVars
  BY <1>1 DEF WaitersHaveSession, rowVars
<1>2. CASE Inserts
  <2>1. PICK x \in Executions, s \in Sessions \cup {NoSession}, g \in Agents \cup {None},
               p, f \in Executions \cup {None} :
            Insert(x, s, g, p, f)
    BY <1>2 DEF Inserts
  <2> QED
    BY <2>1, InsertedRow DEF WaitersHaveSession
<1>3. CASE SetsStatus
  BY <1>3 DEF SetsStatus, SetStatus, WaitersHaveSession, Active, Terminal, SessionTypeOK
<1>4. ASSUME NEW a \in Admitters, Admit(a) PROVE WaitersHaveSession'
  BY <1>4 DEF Admit, WaitersHaveSession, SessionTypeOK
<1>5. ASSUME Delete PROVE WaitersHaveSession'
  BY <1>5, DeletedRows DEF WaitersHaveSession
<1> QED
  BY <1>1, <1>2, <1>3, <1>4, <1>5, RowChanges DEF vars

(* The transactions between two states of an admission. *)
LEMMA TxnChanges ==
  ASSUME SessionTypeOK, NEW a \in Admitters, Admission(a)
  PROVE  /\ \A b \in Admitters \ {a} : txn'[b] = txn[b]
         /\ \/ /\ txn[a] = Idle /\ txn'[a].at = "picked" /\ txn'[a].head = None
               /\ \E s \in Sessions : Oldest(txn'[a].exec, s)
               /\ txn'[a].exec \in Executions /\ ~Locked(txn'[a].exec)
               /\ UNCHANGED <<rowVars, late, unseen>>
            \/ /\ txn[a].at = "picked" /\ txn'[a].at = "headed"
               /\ txn'[a].exec = txn[a].exec
               /\ UNCHANGED <<rowVars, late, unseen>>
            \/ /\ txn'[a] = Idle
               /\ \A b \in Admitters \ {a} : unseen'[b] = unseen[b]
               /\ UNCHANGED session
               /\ UNCHANGED <<rowVars, late>> \/ Admit(a)
  BY DEF Admission, Pick, ReadHead, Admit, Rollback, LoseAdmission, SessionTypeOK, rowVars

LEMMA RowsHeldNext == SessionTypeOK /\ SweepStands /\ WaitersHaveSession /\ RowsHeld /\ [Next]_vars => RowsHeld'
<1> SUFFICES ASSUME SessionTypeOK, SweepStands, WaitersHaveSession, RowsHeld, Next \/ UNCHANGED vars
             PROVE  RowsHeld'
  OBVIOUS
<1> USE DEF RowsHeld
<1>1. CASE UNCHANGED <<rowVars, txn>>
  BY <1>1 DEF rowVars
<1>2. CASE Inserts
  <2>1. PICK x \in Executions, s \in Sessions \cup {NoSession}, g \in Agents \cup {None},
               p, f \in Executions \cup {None} :
            Insert(x, s, g, p, f) /\ UNCHANGED txn
    BY <1>2 DEF Inserts
  <2> QED
    BY <2>1, InsertedRow
<1>3. CASE SetsStatus
  BY <1>3 DEF SetsStatus, SetStatus, Active, Locked, SessionTypeOK
<1>4. ASSUME NEW a \in Admitters, Admission(a) PROVE RowsHeld'
  <2>1. CASE Admit(a)
    <3>1. txn[a] # Idle /\ txn'[a] = Idle /\ \A b \in Admitters \ {a} : txn'[b] = txn[b]
      BY <2>1 DEF Admit, Idle, SessionTypeOK
    <3>2. \A y \in Executions \ {txn[a].exec} : status'[y] = status[y] /\ session'[y] = session[y]
      BY <2>1 DEF Admit, SessionTypeOK
    <3> QED
      BY <3>1, <3>2
  <2>2. CASE UNCHANGED rowVars
    <3>1. Idle.exec \notin Executions
      BY DEF Idle, None, Executions
    <3> QED
      BY <1>4, <2>2, <3>1, TxnChanges DEF rowVars, Locked, Oldest, Waiting, Admit, Idle
  <2> QED
    BY <1>4, <2>1, <2>2, TxnChanges DEF rowVars
<1>5. ASSUME Delete PROVE RowsHeld'
  <2>1. UNCHANGED txn
    BY <1>5 DEF Delete
  <2> QED
    BY <1>5, <2>1, DeletedRows DEF Terminal
<1>6. UNCHANGED txn \/ \E a \in Admitters : Admission(a)
  BY DEF Next, vars, Creation, Create, CheckBranch, CheckFork, InsertBranch, RefuseBranch,
         Life, Block, Resume, Complete, Fail, Cancel, SetStatus, DeadlinePasses,
         FindExpired, Find, Delete
<1> QED
  BY <1>1, <1>2, <1>3, <1>4, <1>5, <1>6, RowChanges DEF vars, Admission

-----------------------------------------------------------------------------
(* First come, first served *)

LEMMA FirstComeAdmission ==
  ASSUME SessionTypeOK, RowsHeld, FirstComeFirstServed, NEW a \in Admitters, Admission(a)
  PROVE  FirstComeFirstServed'
<1> USE DEF FirstComeFirstServed, Waiting
<1> SUFFICES ASSUME NEW b \in Admitters, NEW y \in Executions,
                    txn'[b] # Idle, Waiting(y, session[txn[b].exec])', y < txn'[b].exec
             PROVE  y \in unseen'[b]
  OBVIOUS
<1>1. ASSUME b # a PROVE y \in unseen'[b]
  <2>1. txn'[b] = txn[b] /\ unseen'[b] = unseen[b]
    BY <1>1, TxnChanges
  <2>2. session' = session
    BY TxnChanges DEF rowVars
  <2>3. status[y] = "pending" /\ y \notin late
    BY TxnChanges DEF rowVars, Admit, SessionTypeOK
  <2> QED
    BY <2>1, <2>2, <2>3
<1>2. ASSUME b = a PROVE y \in unseen'[b]
  <2>1. UNCHANGED <<rowVars, late, unseen>>
    BY <1>2, TxnChanges
  <2>2. CASE txn[a] = Idle
    <3>1. PICK s \in Sessions : Oldest(txn'[a].exec, s)
      BY <2>2, <1>2, TxnChanges DEF Idle
    <3>2. txn'[a].exec \in Executions /\ session[txn'[a].exec] = s
      BY <2>2, <1>2, <3>1, TxnChanges DEF Idle, Oldest
    <3>3. txn'[a].exec <= y
      BY <1>2, <2>1, <3>1, <3>2 DEF Oldest, rowVars
    <3> QED
      BY <1>2, <3>2, <3>3 DEF Executions
  <2>3. CASE txn[a] # Idle
    <3>1. txn'[a].exec = txn[a].exec
      BY <2>3, <1>2, TxnChanges
    <3> QED
      BY <1>2, <2>1, <2>3, <3>1 DEF rowVars
  <2> QED
    BY <2>2, <2>3
<1> QED
  BY <1>1, <1>2

LEMMA FirstComeNext ==
  SessionTypeOK /\ SweepStands /\ RowsHeld /\ RowsHeld' /\ FirstComeFirstServed /\ [Next]_vars
    => FirstComeFirstServed'
<1> SUFFICES ASSUME SessionTypeOK, SweepStands, RowsHeld, RowsHeld', FirstComeFirstServed,
                    Next \/ UNCHANGED vars
             PROVE  FirstComeFirstServed'
  OBVIOUS
<1> USE DEF FirstComeFirstServed, Waiting
<1>1. ASSUME UNCHANGED <<txn, unseen>>,
             \A y \in Executions : status'[y] = "pending" =>
               /\ status[y] = "pending" /\ session'[y] = session[y]
               /\ y \notin late' => y \notin late
      PROVE  FirstComeFirstServed'
  BY <1>1 DEF RowsHeld
<1>2. CASE Inserts
  <2>1. PICK x \in Executions, s \in Sessions \cup {NoSession}, g \in Agents \cup {None},
               p, f \in Executions \cup {None} :
            Insert(x, s, g, p, f) /\ UNCHANGED <<txn, late>>
    BY <1>2 DEF Inserts
  <2>2. \A a \in Admitters : txn[a] # Idle => unseen'[a] = unseen[a] \cup {x}
    BY <2>1 DEF Insert
  <2> QED
    BY <2>1, <2>2, InsertedRow DEF RowsHeld
<1>3. ASSUME NEW x \in Executions, Life(x) PROVE FirstComeFirstServed'
  BY <1>1, <1>3 DEF Life, Block, Resume, Complete, Fail, Cancel, SetStatus, DeadlinePasses,
                    rowVars, SessionTypeOK
<1>4. ASSUME Delete PROVE FirstComeFirstServed'
  <2>1. UNCHANGED <<txn, unseen, late>>
    BY <1>4 DEF Delete
  <2> QED
    BY <1>1, <1>4, <2>1, DeletedRows
<1>5. CASE UNCHANGED <<rowVars, txn, late, unseen>>
  BY <1>1, <1>5 DEF rowVars
<1>6. ASSUME Creation PROVE Inserts \/ UNCHANGED <<rowVars, txn, late, unseen>>
  <2>1. \A r \in Requests : request[r] \in BranchRequests
    BY DEF SessionTypeOK
  <2> QED
    BY <1>6, <2>1 DEF Creation, Create, CheckBranch, CheckFork, InsertBranch, RefuseBranch,
                      Inserts, BranchRequests
<1> QED
  BY <1>2, <1>3, <1>4, <1>5, <1>6, FirstComeAdmission DEF Next, FindExpired, Find, vars

-----------------------------------------------------------------------------
(* Parents, and what was read of them *)

(* A row that completed stays as it is until retention deletes it for good. *)
LEMMA CompletedStands ==
  ASSUME SessionTypeOK, SweepStands, RowsHeld, Next, NEW p \in Executions
  PROVE  /\ status[p] = "completed" =>
              \/ status'[p] = "completed" /\ agent'[p] = agent[p] /\ session'[p] = session[p]
              \/ status'[p] = "deleted" /\ Delete
         /\ status[p] = "deleted" => status'[p] = "deleted"
<1> DEFINE Goal == /\ status[p] = "completed" =>
                        \/ /\ status'[p] = "completed" /\ agent'[p] = agent[p]
                           /\ session'[p] = session[p]
                        \/ status'[p] = "deleted" /\ Delete
                   /\ status[p] = "deleted" => status'[p] = "deleted"
<1>1. CASE UNCHANGED rowVars
  BY <1>1 DEF rowVars
<1>2. CASE Inserts
  BY <1>2, InsertedRow DEF Inserts
<1>3. CASE SetsStatus
  BY <1>3 DEF SetsStatus, SetStatus, Active, SessionTypeOK
<1>4. ASSUME NEW a \in Admitters, Admit(a) PROVE Goal
  BY <1>4 DEF Admit, RowsHeld, Idle, SessionTypeOK
<1>5. ASSUME Delete PROVE Goal
  BY <1>5, DeletedRows DEF Terminal
<1> QED
  BY <1>1, <1>2, <1>3, <1>4, <1>5, RowChanges

(* What an insert names as its parent has completed, for the same agent. *)
LEMMA InsertedParent ==
  ASSUME SessionTypeOK, ReadsStand, Creation
  PROVE  \/ UNCHANGED rowVars
         \/ \E x \in Executions, s \in Sessions \cup {NoSession}, g \in Agents \cup {None},
               p, f \in Executions \cup {None} :
              /\ Insert(x, s, g, p, f)
              /\ p # None => status[p] = "completed" /\ agent[p] = g
<1> DEFINE Goal == \E x \in Executions, s \in Sessions \cup {NoSession},
                      g \in Agents \cup {None}, p, f \in Executions \cup {None} :
                     /\ Insert(x, s, g, p, f)
                     /\ p # None => status[p] = "completed" /\ agent[p] = g
<1>1. ASSUME NEW x \in Executions, NEW s \in Sessions \cup {NoSession}, NEW g \in Agents,
             Create(x, s, g)
      PROVE  Goal
  BY <1>1 DEF Create
<1>2. ASSUME NEW r \in Requests, NEW x \in Executions, InsertBranch(r, x) PROVE Goal
  <2> DEFINE q == request[r]
  <2>1. /\ q.session \in Sessions \cup {NoSession} /\ q.agent \in Agents \cup {None}
        /\ q.parent \in Executions \cup {None} /\ q.forkedFrom \in Executions \cup {None}
    BY DEF SessionTypeOK, BranchRequests
  <2>2. Insert(x, q.session, q.agent, q.parent, q.forkedFrom)
    BY <1>2 DEF InsertBranch
  <2>3. q.parent # None => status[q.parent] \in Stored
    BY <1>2 DEF InsertBranch, ForeignKeysHold
  <2>4. q.parent # None => status[q.parent] = "completed" /\ agent[q.parent] = q.agent
    BY <2>3 DEF ReadsStand, RequestStands, Stored, Active, Terminal
  <2> HIDE DEF q
  <2> QED
    BY <2>1, <2>2, <2>4
<1>3. ASSUME NEW r \in Requests, RefuseBranch(r) PROVE UNCHANGED rowVars
  BY <1>3 DEF RefuseBranch
<1> QED
  BY <1>1, <1>2, <1>3 DEF Creation, CheckBranch, CheckFork

LEMMA ParentCompletedNext ==
  SessionTypeOK /\ SweepStands /\ RowsHeld /\ ParentCompleted /\ ReadsStand /\ [Next]_vars => ParentCompleted'
<1> SUFFICES ASSUME SessionTypeOK, SweepStands, RowsHeld, ParentCompleted, ReadsStand, Next \/ UNCHANGED vars
             PROVE  ParentCompleted'
  OBVIOUS
<1>1. CASE UNCHANGED rowVars
  BY <1>1 DEF ParentCompleted, rowVars
<1>2. CASE Creation
  <2>1. CASE UNCHANGED rowVars
    BY <1>1, <2>1
  <2>2. ASSUME NEW x \in Executions, NEW s \in Sessions \cup {NoSession},
               NEW g \in Agents \cup {None}, NEW p \in Executions \cup {None},
               NEW f \in Executions \cup {None}, Insert(x, s, g, p, f),
               p # None => status[p] = "completed" /\ agent[p] = g
        PROVE  ParentCompleted'
    BY <2>2, InsertedRow DEF ParentCompleted, SessionTypeOK
  <2> QED
    BY <1>2, <2>1, <2>2, InsertedParent
<1>3. ASSUME NEW x \in Executions, Life(x) PROVE ParentCompleted'
  BY <1>3 DEF Life, Block, Resume, Complete, Fail, Cancel, SetStatus, DeadlinePasses, rowVars,
              Active, ParentCompleted, SessionTypeOK
<1>4. ASSUME NEW a \in Admitters, Admit(a) PROVE ParentCompleted'
  <2>1. txn[a].exec \in Executions /\ status[txn[a].exec] = "pending"
    BY <1>4 DEF Admit, RowsHeld, Idle
  <2>2. txn[a].head \in Executions \cup {None}
    BY DEF SessionTypeOK, Transactions
  <2>3. txn[a].head # None => HeadStands(a)
    BY <1>4 DEF Admit, ReadsStand, Idle
  <2> QED
    BY <1>4, <2>1, <2>2, <2>3
       DEF Admit, Admissible, ForeignKeysHold, Stored, Active, Terminal,
           HeadStands, ParentCompleted, SessionTypeOK
<1>5. ASSUME Delete PROVE ParentCompleted'
  BY <1>5, DeletedRows DEF ParentCompleted, None, SessionTypeOK
<1>6. ASSUME NEW a \in Admitters, Admission(a) PROVE UNCHANGED rowVars \/ Admit(a)
  BY <1>6 DEF Admission, Pick, ReadHead, Rollback, LoseAdmission
<1> QED
  BY <1>1, <1>2, <1>3, <1>4, <1>5, <1>6 DEF Next, FindExpired, Find, vars

LEMMA HeadsStandNext ==
  ASSUME SessionTypeOK, SweepStands, RowsHeld, ParentCompleted, ReadsStand, Next,
         NEW a \in Admitters, txn'[a] # Idle, txn'[a].head # None
  PROVE  HeadStands(a)'
<1>1. CASE txn'[a] = txn[a]
  <2> DEFINE x == txn[a].exec
             h == txn[a].head
  <2>1. x \in Executions /\ status[x] = "pending" /\ h \in Executions
    BY <1>1 DEF RowsHeld, SessionTypeOK, Transactions
  <2>2. HeadStands(a)
    BY <1>1 DEF ReadsStand
  <2>3. agent'[x] = agent[x]
    <3>1. CASE UNCHANGED rowVars
      BY <3>1 DEF rowVars
    <3>2. CASE Inserts
      BY <2>1, <3>2, InsertedRow DEF Inserts
    <3>3. CASE SetsStatus
      BY <3>3 DEF SetsStatus, SetStatus
    <3>4. ASSUME NEW b \in Admitters, Admit(b) PROVE agent'[x] = agent[x]
      BY <3>4 DEF Admit
    <3>5. CASE Delete
      BY <2>1, <3>5, DeletedRows DEF Terminal
    <3> QED
      BY <3>1, <3>2, <3>3, <3>4, <3>5, RowChanges
  <2>4. CASE status[h] = "deleted"
    BY <1>1, <2>1, <2>4, CompletedStands DEF HeadStands
  <2>5. CASE status[h] = "completed" /\ agent[h] = agent[x]
    BY <1>1, <2>1, <2>3, <2>5, CompletedStands DEF HeadStands
  <2> QED
    BY <2>2, <2>4, <2>5 DEF HeadStands
<1>2. ASSUME NEW b \in Admitters, Admission(b), txn'[a] # txn[a] PROVE HeadStands(a)'
  <2>1. b = a /\ ReadHead(a)
    BY <1>2 DEF Admission, Pick, ReadHead, Admit, Rollback, LoseAdmission, SessionTypeOK
  <2> DEFINE x == txn[a].exec
  <2>2. PICK h \in Executions \cup {None} :
          /\ IF ContinuesHead(x) THEN HeadIn(Completed(session[x], agent[x]), h) ELSE h = parent[x]
          /\ txn' = [txn EXCEPT ![a] = [at |-> "headed", exec |-> x, head |-> h]]
          /\ UNCHANGED rowVars
    BY <2>1 DEF ReadHead
  <2>3. txn'[a].exec = x /\ txn'[a].head = h /\ h # None
    BY <2>2 DEF SessionTypeOK
  <2>4. x \in Executions
    BY <2>1 DEF ReadHead, RowsHeld, Idle
  <2>5. CASE ContinuesHead(x)
    <3>1. h \in Completed(session[x], agent[x])
      BY <2>2, <2>3, <2>5 DEF HeadIn
    <3> QED
      BY <2>2, <2>3, <3>1 DEF Completed, HeadStands, rowVars
  <2>6. CASE ~ContinuesHead(x)
    BY <2>2, <2>3, <2>4, <2>6 DEF ParentCompleted, HeadStands, rowVars
  <2> QED
    BY <2>5, <2>6
<1>3. UNCHANGED txn \/ \E b \in Admitters : Admission(b)
  BY DEF Next, Creation, Create, CheckBranch, CheckFork, InsertBranch, RefuseBranch,
         Life, Block, Resume, Complete, Fail, Cancel, SetStatus, DeadlinePasses,
         FindExpired, Find, Delete
<1> QED
  BY <1>1, <1>2, <1>3

LEMMA RequestsStandNext ==
  ASSUME SessionTypeOK, SweepStands, RowsHeld, ParentCompleted, ReadsStand, Next,
         NEW r \in Requests, request'[r].parent # None
  PROVE  RequestStands(r)'
<1>1. CASE request'[r] = request[r]
  <2>1. request[r].parent \in Executions
    BY <1>1 DEF SessionTypeOK, BranchRequests
  <2>2. RequestStands(r)
    BY <1>1 DEF ReadsStand
  <2> QED
    BY <1>1, <2>1, <2>2, CompletedStands DEF RequestStands
<1>2. ASSUME request'[r] # request[r] PROVE RequestStands(r)'
  <2>1. Creation
    BY <1>2 DEF Next, Life, Block, Resume, Complete, Fail, Cancel, SetStatus, DeadlinePasses,
                FindExpired, Find, Delete, Admission, Pick, ReadHead, Admit, Rollback,
                LoseAdmission
  <2>2. PICK s \in Sessions \cup {NoSession}, x \in Executions :
          CheckBranch(r, s, x) \/ CheckFork(r, s, x)
    BY <1>2, <2>1 DEF Creation, Create, CheckBranch, CheckFork, InsertBranch, RefuseBranch,
                      NoRequest, SessionTypeOK
  <2> QED
    BY <2>2 DEF CheckBranch, CheckFork, ParentCompleted, RequestStands, rowVars, SessionTypeOK
<1> QED
  BY <1>1, <1>2

LEMMA ReadsStandNext ==
  SessionTypeOK /\ SweepStands /\ RowsHeld /\ ParentCompleted /\ ReadsStand /\ [Next]_vars => ReadsStand'
<1> SUFFICES ASSUME SessionTypeOK, SweepStands, RowsHeld, ParentCompleted, ReadsStand, [Next]_vars
             PROVE  ReadsStand'
  OBVIOUS
<1>1. CASE UNCHANGED vars
  BY <1>1 DEF vars, rowVars, ReadsStand, HeadStands, RequestStands
<1>2. CASE Next
  BY <1>2, HeadsStandNext, RequestsStandNext DEF ReadsStand
<1> QED
  BY <1>1, <1>2

LEMMA ParentKeptNext == SessionTypeOK /\ SweepStands /\ RowsHeld /\ ParentKept /\ [Next]_vars => ParentKept'
<1> SUFFICES ASSUME SessionTypeOK, SweepStands, RowsHeld, ParentKept, Next \/ UNCHANGED vars,
                    NEW a \in Admitters, txn'[a].at = "headed",
                    parent'[txn'[a].exec] # None
             PROVE  txn'[a].head = parent'[txn'[a].exec]
  BY DEF ParentKept
<1>1. CASE txn'[a] = txn[a]
  <2>1. txn[a] # Idle
    BY <1>1 DEF Idle
  <2>2. txn[a].exec \in Executions /\ status[txn[a].exec] = "pending" /\ Locked(txn[a].exec)
    BY <2>1 DEF RowsHeld, Locked
  <2>3. CASE UNCHANGED rowVars
    BY <1>1, <2>3 DEF ParentKept, rowVars
  <2>4. CASE Inserts
    BY <1>1, <2>2, <2>4, InsertedRow DEF Inserts, ParentKept
  <2>5. CASE SetsStatus
    BY <1>1, <2>5 DEF SetsStatus, SetStatus, ParentKept
  <2>6. ASSUME NEW b \in Admitters, Admit(b) PROVE txn'[a].head = parent'[txn'[a].exec]
    <3>1. txn[b] # Idle /\ txn'[b] = Idle
      BY <2>6 DEF Admit, Idle, SessionTypeOK
    <3>2. txn[b].exec # txn[a].exec
      BY <1>1, <2>1, <3>1 DEF RowsHeld
    <3> QED
      BY <1>1, <2>2, <2>6, <3>2 DEF Admit, ParentKept, SessionTypeOK
  <2>7. ASSUME Delete PROVE txn'[a].head = parent'[txn'[a].exec]
    BY <1>1, <2>2, <2>7, DeletedRows DEF ParentKept, Terminal
  <2> QED
    BY <2>3, <2>4, <2>5, <2>6, <2>7, RowChanges DEF vars
<1>2. ASSUME NEW b \in Admitters, Admission(b), txn'[a] # txn[a]
      PROVE  txn'[a].head = parent'[txn'[a].exec]
  <2>1. b = a /\ ReadHead(a)
    BY <1>2 DEF Admission, Pick, ReadHead, Admit, Rollback, LoseAdmission, Idle, SessionTypeOK
  <2> QED
    BY <2>1 DEF ReadHead, ContinuesHead, rowVars, SessionTypeOK
<1>3. UNCHANGED txn \/ \E b \in Admitters : Admission(b)
  BY DEF Next, vars, Creation, Create, CheckBranch, CheckFork, InsertBranch, RefuseBranch,
         Life, Block, Resume, Complete, Fail, Cancel, SetStatus, DeadlinePasses,
         FindExpired, Find, Delete
<1> QED
  BY <1>1, <1>2, <1>3

LEMMA OnlyRowsReferNext == SessionTypeOK /\ SweepStands /\ OnlyRowsRefer /\ [Next]_vars => OnlyRowsRefer'
<1> SUFFICES ASSUME SessionTypeOK, SweepStands, OnlyRowsRefer, Next \/ UNCHANGED vars PROVE OnlyRowsRefer'
  OBVIOUS
<1> USE DEF OnlyRowsRefer, Stored, Active, Terminal
<1>1. CASE UNCHANGED rowVars
  BY <1>1 DEF rowVars
<1>2. CASE Inserts
  BY <1>2, InsertedRow DEF Inserts
<1>3. CASE SetsStatus
  BY <1>3 DEF SetsStatus, SetStatus, SessionTypeOK
<1>4. ASSUME NEW a \in Admitters, Admit(a) PROVE OnlyRowsRefer'
  BY <1>4 DEF Admit, SessionTypeOK
<1>5. ASSUME Delete PROVE OnlyRowsRefer'
  BY <1>5, DeletedRows
<1> QED
  BY <1>1, <1>2, <1>3, <1>4, <1>5, RowChanges DEF vars

-----------------------------------------------------------------------------
(* Retention *)

LEMMA SweepStandsNext == SessionTypeOK /\ SweepStands /\ RowsHeld /\ [Next]_vars => SweepStands'
<1> SUFFICES ASSUME SessionTypeOK, SweepStands, RowsHeld, Next \/ UNCHANGED vars
             PROVE  SweepStands'
  OBVIOUS
<1> USE DEF SweepStands
<1>1. ASSUME UNCHANGED sweep,
             \A x \in Executions : status[x] \in Stored =>
               /\ status'[x] \in Stored /\ session'[x] = session[x]
               /\ status[x] \in Terminal => status'[x] = status[x]
      PROVE  SweepStands'
  BY <1>1 DEF SessionTypeOK, Stored
<1>2. CASE UNCHANGED <<rowVars, sweep>>
  BY <1>2 DEF rowVars
<1>3. ASSUME Inserts, UNCHANGED sweep PROVE SweepStands'
  BY <1>1, <1>3, InsertedRow DEF Inserts, Stored, Active, Terminal
<1>4. ASSUME SetsStatus, UNCHANGED sweep PROVE SweepStands'
  BY <1>1, <1>4 DEF SetsStatus, SetStatus, Stored, Active, Terminal, SessionTypeOK
<1>5. ASSUME NEW a \in Admitters, Admit(a) PROVE SweepStands'
  BY <1>1, <1>5 DEF Admit, RowsHeld, Idle, Stored, Active, Terminal, SessionTypeOK
<1>6. CASE Delete
  BY <1>6 DEF Delete, NoSweep
<1>7. ASSUME NEW c \in Executions, FindExpired(c) PROVE SweepStands'
  <2> DEFINE D == {x \in Aged(c) : session[x] # NoSession => Rows(session[x]) \subseteq Aged(c)}
  <2>1. Find(D)
    BY <1>7 DEF FindExpired
  <2>2. \A x \in D : status[x] \in Terminal
    BY DEF Aged
  <2>3. \A x \in D, y \in InTable :
          session[x] = session[y] /\ session[x] # NoSession => y \in D
    BY DEF InTable, Rows
  <2> HIDE DEF D
  <2> QED
    BY <2>1, <2>2, <2>3 DEF Find, InTable, rowVars
<1>8. UNCHANGED sweep \/ Delete \/ \E c \in Executions : FindExpired(c)
  BY DEF Next, vars, Creation, Create, CheckBranch, CheckFork, InsertBranch, RefuseBranch,
         Life, Block, Resume, Complete, Fail, Cancel, SetStatus, DeadlinePasses,
         Admission, Pick, ReadHead, Admit, Rollback, LoseAdmission
<1> QED
  BY <1>2, <1>3, <1>4, <1>5, <1>6, <1>7, <1>8, RowChanges DEF vars

-----------------------------------------------------------------------------
(* The invariant and what follows from it *)

(* Admissions hold their rows, what they and the requests read still stands, *)
(* and the queue, the session and the parents are in order.                  *)
THEOREM SessionInvariance == Spec => []IndInv
<1>1. Init => IndInv
  <2> SUFFICES ASSUME Init PROVE IndInv
    OBVIOUS
  <2> QED
    BY TypeInit
       DEF Init, IndInv, SweepStands, NoSweep, OnlyRowsRefer, OneActive, Active, WaitersHaveSession, RowsHeld, FirstComeFirstServed,
           ParentCompleted, ReadsStand, ParentKept, Idle, NoRequest, None
<1>2. IndInv /\ [Next]_vars => IndInv'
  BY TypeNext, SweepStandsNext, OnlyRowsReferNext, OneActiveNext, WaitersHaveSessionNext, RowsHeldNext, FirstComeNext,
     ParentCompletedNext, ReadsStandNext, ParentKeptNext
     DEF IndInv
<1> QED
  BY <1>1, <1>2, PTL DEF Spec

(* No two executions of a session are running or blocked at the same time.  *)
THEOREM OneTurnAtATime == Spec => []OneActive
  BY SessionInvariance, PTL DEF IndInv

(* A younger execution is only admitted ahead of an older one whose row came *)
(* in after the younger one's was picked.                                    *)
THEOREM FirstCome == Spec => []FirstComeFirstServed
  BY SessionInvariance, PTL DEF IndInv

(* Every parent is a completed execution of the same agent.                  *)
THEOREM ParentsHaveCompleted == Spec => []ParentCompleted
  BY SessionInvariance, PTL DEF IndInv

(* From its start an execution continues the same parent until it or the     *)
(* parent is deleted.                                                        *)
THEOREM ParentsAreFixed == Spec => ParentFixed
<1> DEFINE Kept == \A x \in Executions :
                     status[x] \in Active \cup Terminal /\ parent'[x] # parent[x]
                     => status'[x] = "deleted" \/ status'[parent[x]] = "deleted"
<1>1. IndInv /\ [Next]_vars => [Kept]_vars
  <2> SUFFICES ASSUME IndInv, Next PROVE Kept
    OBVIOUS
  <2>1. SessionTypeOK /\ SweepStands /\ RowsHeld
    BY DEF IndInv
  <2>2. CASE UNCHANGED rowVars
    BY <2>2 DEF rowVars
  <2>3. CASE Inserts
    BY <2>1, <2>3, InsertedRow DEF Inserts, Active, Terminal
  <2>4. CASE SetsStatus
    BY <2>4 DEF SetsStatus, SetStatus
  <2>5. ASSUME NEW a \in Admitters, Admit(a) PROVE Kept
    BY <2>1, <2>5 DEF Admit, RowsHeld, Idle, Active, Terminal, SessionTypeOK
  <2>6. ASSUME Delete PROVE Kept
    BY <2>1, <2>6, DeletedRows
  <2> QED
    BY <2>1, <2>2, <2>3, <2>4, <2>5, <2>6, RowChanges
<1> QED
  BY <1>1, SessionInvariance, PTL DEF Spec, ParentFixed

(* What retention saw of a session it keeps or deletes as one: an execution   *)
(* loses a parent of its own session only if it came in after the snapshot.   *)
THEOREM SeenSessionsStayWhole == Spec => OnlyNewcomersLoseParents
<1> DEFINE Whole == \A x \in Executions : LosesOwnParent(x) => x \notin sweep.saw
<1>1. IndInv /\ [Next]_vars => [Whole]_vars
  <2> SUFFICES ASSUME IndInv, Next, NEW x \in Executions, LosesOwnParent(x), x \in sweep.saw
               PROVE  FALSE
    OBVIOUS
  <2>1. /\ SessionTypeOK /\ SweepStands /\ RowsHeld /\ status[x] \in Stored
        /\ parent[x] # None /\ parent'[x] = None
        /\ session[x] = session[parent[x]] /\ session[x] # NoSession
        /\ status'[x] # "deleted"
    BY DEF IndInv, OnlyRowsRefer, LosesOwnParent
  <2>2. CASE UNCHANGED rowVars
    BY <2>1, <2>2 DEF rowVars
  <2>3. CASE Inserts
    BY <2>1, <2>3, InsertedRow DEF Inserts, Stored, Active, Terminal
  <2>4. CASE SetsStatus
    BY <2>1, <2>4 DEF SetsStatus, SetStatus
  <2>5. ASSUME NEW a \in Admitters, Admit(a) PROVE FALSE
    BY <2>1, <2>5 DEF Admit, IndInv, ParentKept, SessionTypeOK
  <2>6. CASE Delete
    <3>1. parent[x] \in sweep.found /\ x \notin sweep.found
      BY <2>1, <2>6 DEF Delete, SessionTypeOK
    <3> QED
      BY <2>1, <3>1 DEF SweepStands
  <2> QED
    BY <2>1, <2>2, <2>3, <2>4, <2>5, <2>6, RowChanges
<1> QED
  BY <1>1, SessionInvariance, PTL DEF Spec, OnlyNewcomersLoseParents
=============================================================================
