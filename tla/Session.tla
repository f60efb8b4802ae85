------------------------------ MODULE Session ------------------------------
(***************************************************************************)
(* Sessions: the queue of executions that wait for their session, the      *)
(* transactions that admit them, the chain of parents they continue, and   *)
(* the retention that deletes them (internal/kernel/execution.go, fork.go, *)
(* internal/store/postgres/executions.go, migrations 002, 003, 004).       *)
(*                                                                         *)
(* Admission does not run under the execution's lock.  It is one           *)
(* READ COMMITTED transaction of three statements that matter, so it is    *)
(* three actions: Pick locks the oldest waiting row, ReadHead reads the    *)
(* session's head, Admit makes the row running, which the unique index     *)
(* over active rows allows or refuses.  Retention is one statement, but it *)
(* judges the rows by the snapshot it takes first and deletes them later:  *)
(* two actions, FindExpired and Delete.  Everything else is one action per *)
(* statement or transaction.  The leader lock leaves one retention at a    *)
(* time.                                                                   *)
(*                                                                         *)
(* Abstractions.  An execution's number is its UUIDv7: numbers grow with   *)
(* creation time, but the rows may reach the table in another order.  What *)
(* a running execution does is in Execution; here it blocks, resumes and   *)
(* ends at will.  Authorization and input validation are left out.         *)
(***************************************************************************)
EXTENDS Naturals

CONSTANTS
  Sessions,       \* the session names in use
  NoSession,      \* the session of an execution created without one
  Agents,
  Admitters,      \* the goroutines that may be admitting at the same time
  Requests,       \* the requests that create an execution in a new session
  MaxExecutions,  \* bound on the executions ever created
  MaxFaults       \* bound on the admissions lost to an error or a crash

ASSUME NoSessionAssumption == NoSession \notin Sessions
ASSUME SessionBoundsAssumption == MaxExecutions \in Nat /\ MaxFaults \in Nat

Executions == 1..MaxExecutions
None == 0      \* no execution, no agent

VARIABLES
  status,     \* status of each row; "absent" before its insert, "deleted" by retention
  session,    \* its session
  agent,      \* its agent
  parent,     \* parent_execution_id
  forkedFrom, \* forked_from
  late,       \* the waiting rows whose deadline has passed
  txn,        \* what each admission transaction has read and locked so far
  request,    \* what each request to create in a new session has read so far
  sweep,      \* the retention under way: the rows it found to delete, and
              \* (history) the rows of the snapshot it judged them by
  faults,     \* counts the lost admissions, for the bound
  unseen      \* history: the rows inserted since each open admission picked its own

rowVars == <<status, session, agent, parent, forkedFrom>>
vars == <<rowVars, late, txn, request, sweep, faults, unseen>>

Terminal == {"completed", "failed", "cancelled"}
Active == {"running", "blocked"}
Stored == {"pending"} \cup Active \cup Terminal

Transactions ==
  [at : {"idle", "picked", "headed"}, exec : Executions \cup {None},
   head : Executions \cup {None}]
Idle == [at |-> "idle", exec |-> None, head |-> None]

BranchRequests ==
  [session : Sessions \cup {NoSession}, agent : Agents \cup {None},
   parent : Executions \cup {None}, forkedFrom : Executions \cup {None}]
NoRequest ==
  [session |-> NoSession, agent |-> None, parent |-> None, forkedFrom |-> None]

NoSweep == [found |-> {}, saw |-> {}]

SessionTypeOK ==
  /\ status \in [Executions -> {"absent", "deleted"} \cup Stored]
  /\ session \in [Executions -> Sessions \cup {NoSession}]
  /\ agent \in [Executions -> Agents \cup {None}]
  /\ parent \in [Executions -> Executions \cup {None}]
  /\ forkedFrom \in [Executions -> Executions \cup {None}]
  /\ late \subseteq Executions
  /\ txn \in [Admitters -> Transactions]
  /\ request \in [Requests -> BranchRequests]
  /\ sweep \in [found : SUBSET Executions, saw : SUBSET Executions]
  /\ faults \in 0..MaxFaults
  /\ unseen \in [Admitters -> SUBSET Executions]

Init ==
  /\ status = [x \in Executions |-> "absent"]
  /\ session = [x \in Executions |-> NoSession]
  /\ agent = [x \in Executions |-> None]
  /\ parent = [x \in Executions |-> None]
  /\ forkedFrom = [x \in Executions |-> None]
  /\ late = {}
  /\ txn = [a \in Admitters |-> Idle]
  /\ request = [r \in Requests |-> NoRequest]
  /\ sweep = NoSweep
  /\ faults = 0
  /\ unseen = [a \in Admitters |-> {}]

Rows(s) == {x \in Executions : status[x] \in Stored /\ session[x] = s}

(* The row lock NextPendingInSession takes (FOR UPDATE). *)
Locked(x) == \E a \in Admitters : txn[a].exec = x

-----------------------------------------------------------------------------
(* Creation *)

(* createExecution (the insert).  Without a session the execution starts in *)
(* the same transaction; otherwise it waits to be admitted.                 *)
Insert(x, s, g, p, f) ==
  /\ status[x] = "absent"
  /\ status' = [status EXCEPT ![x] = IF s = NoSession THEN "running" ELSE "pending"]
  /\ session' = [session EXCEPT ![x] = s]
  /\ agent' = [agent EXCEPT ![x] = g]
  /\ parent' = [parent EXCEPT ![x] = p]
  /\ forkedFrom' = [forkedFrom EXCEPT ![x] = f]
  /\ unseen' = [a \in Admitters |->
                  IF txn[a] = Idle THEN {} ELSE unseen[a] \cup {x}]

(* CreateExecution without a parent: any session, in use or not. *)
Create(x, s, g) ==
  /\ Insert(x, s, g, None, None)
  /\ UNCHANGED <<late, txn, request, sweep, faults>>

(* CreateExecution with parent_execution_id reads the parent and the        *)
(* session's rows (requireNewSession) before the transaction that inserts.  *)
CheckBranch(r, s, x) ==
  /\ request[r] = NoRequest
  /\ status[x] = "completed"
  /\ s = NoSession \/ Rows(s) = {}
  /\ request' = [request EXCEPT ![r] =
       [session |-> s, agent |-> agent[x], parent |-> x, forkedFrom |-> None]]
  /\ UNCHANGED <<rowVars, late, txn, sweep, faults, unseen>>

(* ForkExecution: the fork has its source's parent. *)
CheckFork(r, s, x) ==
  /\ request[r] = NoRequest
  /\ status[x] \in Stored
  /\ s = NoSession \/ Rows(s) = {}
  /\ request' = [request EXCEPT ![r] =
       [session |-> s, agent |-> agent[x], parent |-> parent[x], forkedFrom |-> x]]
  /\ UNCHANGED <<rowVars, late, txn, sweep, faults, unseen>>

(* The foreign keys of parent_execution_id and forked_from. *)
ForeignKeysHold(p, f) == \A y \in {p, f} \ {None} : status[y] \in Stored

InsertBranch(r, x) ==
  LET q == request[r] IN
  /\ q # NoRequest
  /\ ForeignKeysHold(q.parent, q.forkedFrom)
  /\ Insert(x, q.session, q.agent, q.parent, q.forkedFrom)
  /\ request' = [request EXCEPT ![r] = NoRequest]
  /\ UNCHANGED <<late, txn, sweep, faults>>

(* Retention was faster: a foreign key refuses the insert. *)
RefuseBranch(r) ==
  /\ request[r] # NoRequest
  /\ ~ForeignKeysHold(request[r].parent, request[r].forkedFrom)
  /\ request' = [request EXCEPT ![r] = NoRequest]
  /\ UNCHANGED <<rowVars, late, txn, sweep, faults, unseen>>

-----------------------------------------------------------------------------
(* Admission: after a creation, after an end, or from the sweep over idle   *)
(* sessions (admitNext)                                                     *)

Waiting(x, s) == status[x] = "pending" /\ session[x] = s /\ x \notin late

Oldest(x, s) == Waiting(x, s) /\ \A y \in Executions : Waiting(y, s) => x <= y

PickSkipLocked(a, s) ==
  /\ txn[a] = Idle
  /\ \E x \in Executions :
       /\ Waiting(x, s) /\ ~Locked(x)
       /\ \A y \in Executions : Waiting(y, s) /\ ~Locked(y) => x <= y
       /\ txn' = [txn EXCEPT ![a] = [at |-> "picked", exec |-> x, head |-> None]]
  /\ UNCHANGED <<rowVars, late, request, sweep, faults, unseen>>

PickUnlocked(a, s) ==
  /\ txn[a] = Idle
  /\ \E x \in Executions :
       /\ Oldest(x, s)
       /\ txn' = [txn EXCEPT ![a] = [at |-> "picked", exec |-> x, head |-> None]]
  /\ UNCHANGED <<rowVars, late, request, sweep, faults, unseen>>

(* NextPendingInSession: a row another admission holds is waited for. *)
Pick(a, s) ==
  /\ txn[a] = Idle
  /\ \E x \in Executions :
       /\ Oldest(x, s) /\ ~Locked(x)
       /\ txn' = [txn EXCEPT ![a] = [at |-> "picked", exec |-> x, head |-> None]]
  /\ UNCHANGED <<rowVars, late, request, sweep, faults, unseen>>

Completed(s, g) ==
  {y \in Executions : status[y] = "completed" /\ session[y] = s /\ agent[y] = g}

EndedTurns(s, g) ==
  {y \in Executions : status[y] \in Terminal /\ session[y] = s /\ agent[y] = g}

HeadIn(turns, h) ==
  IF turns = {} THEN h = None ELSE h \in turns /\ \A y \in turns : y <= h

(* An execution that names no parent and is not a fork continues the head.  *)
ContinuesHead(x) == parent[x] = None /\ forkedFrom[x] = None

ReadHeadOfAnyEnd(a) ==
  LET x == txn[a].exec IN
  /\ txn[a].at = "picked"
  /\ \E h \in Executions \cup {None} :
       /\ IF ContinuesHead(x) THEN HeadIn(EndedTurns(session[x], agent[x]), h) ELSE h = parent[x]
       /\ txn' = [txn EXCEPT ![a] = [at |-> "headed", exec |-> x, head |-> h]]
  /\ UNCHANGED <<rowVars, late, request, sweep, faults, unseen>>

(* SessionHead, skipped for an execution that has a parent or is a fork. *)
ReadHead(a) ==
  LET x == txn[a].exec IN
  /\ txn[a].at = "picked"
  /\ \E h \in Executions \cup {None} :
       /\ IF ContinuesHead(x) THEN HeadIn(Completed(session[x], agent[x]), h) ELSE h = parent[x]
       /\ txn' = [txn EXCEPT ![a] = [at |-> "headed", exec |-> x, head |-> h]]
  /\ UNCHANGED <<rowVars, late, request, sweep, faults, unseen>>

RunningElsewhere(x) ==
  \E y \in Executions \ {x} : session[y] = session[x] /\ status[y] = "running"

HeldByWaiting(x) ==
  \E y \in Executions \ {x} : session[y] = session[x] /\ status[y] \in Active \cup {"pending"}

(* executions_one_active_per_session, for a row about to become active. *)
SessionTaken(x) ==
  \E y \in Executions \ {x} : session[y] = session[x] /\ status[y] \in Active

(* SetExecutionParent's foreign key wants the head that was read; the status *)
(* update refuses only a row that has ended.                                 *)
Admissible(a) ==
  LET x == txn[a].exec IN
  status[x] \notin Terminal /\ ~SessionTaken(x) /\ ForeignKeysHold(txn[a].head, None)

(* startExecutionTx: SetExecutionParent and UpdateExecutionStatus.           *)
Admit(a) ==
  LET x == txn[a].exec IN
  /\ txn[a].at = "headed"
  /\ Admissible(a)
  /\ status' = [status EXCEPT ![x] = "running"]
  /\ parent' = [parent EXCEPT ![x] = txn[a].head]
  /\ txn' = [txn EXCEPT ![a] = Idle]
  /\ unseen' = [unseen EXCEPT ![a] = {}]
  /\ late' = late \ {x}
  /\ UNCHANGED <<session, agent, forkedFrom, request, sweep, faults>>

(* The unique index refuses (ErrConflict), the row has ended                 *)
(* (ErrExecutionTerminal), or retention took the head and the foreign key    *)
(* refuses: the transaction is rolled back.                                  *)
Rollback(a) ==
  /\ txn[a].at = "headed"
  /\ ~Admissible(a)
  /\ txn' = [txn EXCEPT ![a] = Idle]
  /\ unseen' = [unseen EXCEPT ![a] = {}]
  /\ UNCHANGED <<rowVars, late, request, sweep, faults>>

LoseWithoutRollback(a) ==
  /\ txn[a] # Idle
  /\ faults < MaxFaults
  /\ faults' = faults + 1
  /\ txn' = [txn EXCEPT ![a] = [Idle EXCEPT !.at = "lost"]]
  /\ UNCHANGED <<rowVars, late, request, sweep, unseen>>

(* The admission is lost to an error or a crash of its replica. *)
LoseAdmission(a) ==
  /\ txn[a] # Idle
  /\ faults < MaxFaults
  /\ faults' = faults + 1
  /\ txn' = [txn EXCEPT ![a] = Idle]
  /\ unseen' = [unseen EXCEPT ![a] = {}]
  /\ UNCHANGED <<rowVars, late, request, sweep>>

-----------------------------------------------------------------------------
(* The rest of an execution's life, as far as its session sees it *)

SetStatus(x, st) ==
  /\ status' = [status EXCEPT ![x] = st]
  /\ late' = late \ {x}
  /\ UNCHANGED <<session, agent, parent, forkedFrom, txn, request, sweep, faults, unseen>>

Block(x) == status[x] = "running" /\ SetStatus(x, "blocked")
Resume(x) == status[x] = "blocked" /\ SetStatus(x, "running")
Complete(x) == status[x] = "running" /\ SetStatus(x, "completed")
Fail(x) == status[x] = "running" /\ SetStatus(x, "failed")

(* cancelExecution: by a client, the deadline sweep or a parent that ended.  *)
(* It waits for an admission that holds the row.                             *)
Cancel(x) ==
  /\ status[x] \in {"pending"} \cup Active
  /\ ~Locked(x)
  /\ SetStatus(x, "cancelled")

(* The deadline of a waiting execution passes. *)
DeadlinePasses(x) ==
  /\ status[x] = "pending"
  /\ late' = late \cup {x}
  /\ UNCHANGED <<rowVars, txn, request, sweep, faults, unseen>>

-----------------------------------------------------------------------------
(* Retention *)

InTable == {x \in Executions : status[x] \in Stored}

(* The cutoff falls after execution c.                                      *)
Aged(c) == {x \in 1..c : status[x] \in Terminal}

Find(D) ==
  /\ sweep = NoSweep /\ D # {}
  /\ sweep' = [found |-> D, saw |-> InTable]
  /\ UNCHANGED <<rowVars, late, txn, request, faults, unseen>>

FindByAgeOnly(c) == Find(Aged(c))

(* deleteExecutionsCreatedBefore, its snapshot: a session is kept while any *)
(* execution of it is newer or has not ended.                               *)
FindExpired(c) ==
  Find({x \in Aged(c) : session[x] # NoSession => Rows(session[x]) \subseteq Aged(c)})

(* The rows found are dropped, whatever their sessions hold by now.  ON     *)
(* DELETE SET NULL clears the references to them, late ones included, so    *)
(* the deletion waits for an admission that holds a row it must clear.      *)
Delete ==
  LET D == sweep.found IN
  /\ D # {}
  /\ \A x \in Executions : Locked(x) => {parent[x], forkedFrom[x]} \cap D = {}
  /\ status' = [x \in Executions |-> IF x \in D THEN "deleted" ELSE status[x]]
  /\ session' = [x \in Executions |-> IF x \in D THEN NoSession ELSE session[x]]
  /\ agent' = [x \in Executions |-> IF x \in D THEN None ELSE agent[x]]
  /\ parent' = [x \in Executions |-> IF {x, parent[x]} \cap D # {} THEN None ELSE parent[x]]
  /\ forkedFrom' =
       [x \in Executions |-> IF {x, forkedFrom[x]} \cap D # {} THEN None ELSE forkedFrom[x]]
  /\ sweep' = NoSweep
  /\ UNCHANGED <<late, txn, request, faults, unseen>>

-----------------------------------------------------------------------------
Creation ==
  \/ \E x \in Executions, s \in Sessions \cup {NoSession}, g \in Agents : Create(x, s, g)
  \/ \E r \in Requests, s \in Sessions \cup {NoSession}, x \in Executions :
       CheckBranch(r, s, x) \/ CheckFork(r, s, x)
  \/ \E r \in Requests, x \in Executions : InsertBranch(r, x)
  \/ \E r \in Requests : RefuseBranch(r)

Admission(a) ==
  \/ \E s \in Sessions : Pick(a, s)
  \/ ReadHead(a)
  \/ Admit(a)
  \/ Rollback(a)
  \/ LoseAdmission(a)

Life(x) ==
  \/ Block(x)
  \/ Resume(x)
  \/ Complete(x)
  \/ Fail(x)
  \/ Cancel(x)
  \/ DeadlinePasses(x)

Next ==
  \/ Creation
  \/ \E a \in Admitters : Admission(a)
  \/ \E x \in Executions : Life(x)
  \/ \E c \in Executions : FindExpired(c)
  \/ Delete

Spec == Init /\ [][Next]_vars

-----------------------------------------------------------------------------
(* Safety *)

(* "Executions in a session run one at a time", blocked ones included, with  *)
(* any number of admissions under way in any number of replicas.             *)
OneActive ==
  \A x, y \in Executions :
    /\ status[x] \in Active /\ status[y] \in Active
    /\ session[x] = session[y] /\ session[x] # NoSession
    => x = y

(* "A failed or cancelled execution never becomes a parent", and nor does    *)
(* one of another agent or one that is still running.                        *)
ParentCompleted ==
  \A x \in Executions :
    parent[x] # None => status[parent[x]] = "completed" /\ agent[parent[x]] = agent[x]

(* The conversation an execution continues is settled when it starts: what   *)
(* PreviousState returns to its handler, on this delivery or a later one,    *)
(* is not replaced by another execution's state.                             *)
ParentFixed ==
  [][\A x \in Executions :
       status[x] \in Active \cup Terminal /\ parent'[x] # parent[x]
       => status'[x] = "deleted" \/ status'[parent[x]] = "deleted"]_vars

(* First come, first served: nobody is being admitted ahead of an older      *)
(* execution that waits, unless the older one's row came in only since.      *)
FirstComeFirstServed ==
  \A a \in Admitters, y \in Executions :
    txn[a] # Idle /\ Waiting(y, session[txn[a].exec]) /\ y < txn[a].exec => y \in unseen[a]

LosesOwnParent(x) ==
  /\ parent[x] # None /\ parent'[x] = None
  /\ session[x] = session[parent[x]] /\ session[x] # NoSession
  /\ status'[x] # "deleted"

(* Retention leaves a conversation as whole as it saw it: an execution loses *)
(* a parent from its own session only if its row came in after the           *)
(* retention's snapshot, whatever has started, ended or been queued since.   *)
OnlyNewcomersLoseParents ==
  [][\A x \in Executions : LosesOwnParent(x) => x \notin sweep.saw]_vars

-----------------------------------------------------------------------------
(* What the documentation says and the code does not keep *)

(* "When an execution in a session starts, its parent becomes the agent's    *)
(* most recently created completed execution in that session."               *)
ContinuesLatest ==
  [][\A x \in Executions :
       /\ status[x] = "pending" /\ status'[x] = "running" /\ ContinuesHead(x)
       => HeadIn(Completed(session[x], agent[x]), parent'[x])]_vars

(* "Retention deletes a session's executions only once every execution in    *)
(* the session is terminal and older than the retention cutoff, so a         *)
(* retained execution's parent stays readable."                              *)
SessionKeepsParents == [][\A x \in Executions : ~LosesOwnParent(x)]_vars

-----------------------------------------------------------------------------
(* Liveness *)

SessionIdle(s) == \A x \in Executions : session[x] = s => status[x] \notin Active

(* The sweeps run on every replica for good: AdmitQueued picks from a session *)
(* that is idle, CancelExpiredExecutions ends what waited past its deadline.  *)
(* A transaction comes to its end.                                            *)
Fairness ==
  /\ \A a \in Admitters :
       /\ \A s \in Sessions : WF_vars(SessionIdle(s) /\ Pick(a, s))
       /\ WF_vars(ReadHead(a))
       /\ WF_vars(Admit(a) \/ Rollback(a))
  /\ \A x \in Executions : WF_vars(x \in late /\ Cancel(x))

FairSpec == Spec /\ Fairness

(* As long as executions that hold their session end, or pass it on, every   *)
(* execution waiting in it gets its turn or is cancelled: no admission lost  *)
(* to a conflict, an error or a crash leaves the queue stuck.                *)
QueueMoves ==
  (\A x \in Executions : []<>(status[x] \notin Active))
  => \A x \in Executions : status[x] = "pending" ~> status[x] # "pending"
=============================================================================
