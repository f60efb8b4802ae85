# Rebuno kernel: formal models

TLA+ models of the kernel of Rebuno (`src/`, Go), TLC runs that check them on
small instances, and theorems about them checked by TLAPS.

Rebuno runs agents durably. An *execution* is one job of an agent. The kernel
delivers it to the agent's webhook, records every tool call the agent wants to
make as a *step*, decides by policy whether it may run, and after a crash
delivers the execution again: recorded steps are replayed, not repeated. State
is in Postgres; any number of kernel replicas run side by side.

1. [Inventory](#1-inventory)
2. [Modules](#2-modules)
3. [Runs](#3-runs)
4. [Proofs](#4-proofs)
5. [Where code and documentation differ](#5-where-code-and-documentation-differ)
6. [Plan](#6-plan)
7. [Not modelled](#7-not-modelled)

Paths are relative to `src/`; `pg/` stands for `internal/store/postgres/`.

## 1. Inventory

### Execution kernel (`internal/kernel`: step.go, approval.go, suspend.go, execution.go, dispatch.go)

*State*: the execution row (status `pending`, `running`, `blocked`,
`completed`, `failed`, `cancelled`), its step rows, its approval rows.
*Operations*: SubmitStep, CompleteStep, FailStep, GrantApproval, DenyApproval,
Suspend, RenewLease, CompleteExecution, FailExecution, CancelExecution and the
timeouts. *Interaction*: agents call over HTTP with the lease of their delivery,
approvers without one, sweeps from every replica. Each handler runs under the
execution's lock in one transaction. *Hard*: agents of several attempts are
alive at once, and each call is made with what its caller knew some time ago.
*Correct when*: nothing runs without its approval, a call that must not be
repeated is not, a recorded outcome is final, and the execution is neither
stranded nor delivered twice at once.

### Dispatch queue (`pg/dispatches.go`, `pg/steps.go`)

*State*: dispatch rows (status, attempt number, lease time) and, per delivery
attempt and effect, the next occurrence number. *Operations*: enqueue, claim,
acknowledge, retire, renew (the strict fence), check (the weak fence), reclaim.
*Hard*: a reclaim cannot tell a dead agent from a slow one. *Correct when*: a
running execution has exactly one live dispatch, and step ids come out the same
on every attempt.

### Subagents (`internal/kernel/subagent.go`)

*State*: `spawned_by` of an execution. *Operations*: create under a parent's
executing step, settle that step when the subagent ends, cancel subagents when
the parent ends; both follow the end in a separate transaction and are retried
by a sweep. *Hard*: a lost follow-up; executions that wait for one another's
session. *Correct when*: every end reaches the other side.

### Sessions (`internal/kernel/execution.go`, `fork.go`, `pg/executions.go`)

*State*: `session_id`, `parent_execution_id`, `forked_from`, status and
deadline of the execution rows. *Operations*: create, branch, fork, admit the
next execution, retain. *Hard*: admission is not under the execution's lock; it
is a READ COMMITTED transaction of several statements, guarded by a row lock and
a partial unique index. *Correct when*: one execution of a session is active at
a time, they come in order, each continues a completed one, and no session
sticks.

### Webhook delivery (`internal/kernel/dispatch.go`, `internal/dispatcher`)

*State*: a worker pool per replica, the outcome of each HTTP call.
*Operations*: claim as many rows as workers are idle, sign and post, classify
the answer, back off. *Hard*: a call that times out may still have started the
agent; the backoff grows exponentially. *Correct when*: attempts are bounded and
a retry never comes sooner or later than configured.

### Lifecycle sweeps and leader lock (`internal/lifecycle`, `internal/kernel/lifecycle.go`, `pg/lock.go`)

*State*: two loops per replica (singletons, deadlines), each with a session-level
advisory lock of its own that keeps a connection of the pool while the tick's
sweeps run. *Operations*: expire approvals, cancel past deadline, settle and cancel
subagents, admit waiting executions, delete expired data. *Hard*: a sweep runs on a
list it read earlier; losing the connection loses the lock silently; a sweep waits
without a timeout for connections of the pool that its own lock is taken from.
*Correct when*: one failing sweep does not keep the others from running
(`errors.Join`), one leader runs retention, and no tick waits for ever.

### Resources and checkpoints (`internal/kernel/resource.go`, `pg/resources.go`)

*State*: per execution and resource name a generation, a binding, a count of
settled steps, and checkpoints with the interval of event numbers each covers.
*Operations*: register, bind, publish, start and settle of the steps that touch
the resource, inherit in the next turn, copy into a fork. *Hard*: publishing
races with steps that write the resource and with a newer generation; a restart
of a step ends coverage that its first start had ended already. *Correct when*:
a checkpoint said to cover a boundary holds exactly what had happened by it.

### Forks (`internal/kernel/fork.go`)

*State*: a new execution with copied steps, events and resources. *Hard*: the
source goes on meanwhile. *Correct when*: the copy is a prefix of the source's
history that is closed under what its steps refer to, and restores what its
source said it would.

### Per-execution locking (`pg/keyed_gate.go`, `pg/lock.go`, `pg/unit_of_work.go`)

*State*: reference-counted gate per key in front of a Postgres advisory lock;
savepoints of nested transactions. *Correct when*: two handlers of one
execution never overlap, no waiter is lost, and no more than one connection per
key and replica waits on the database.

### Event log (`pg/events.go`)

*State*: per execution an append-only sequence. *Hard*: some appends are outside
the execution's lock. *Correct when*: numbers have no gaps or duplicates, and are
committed in their order, so that a reader can follow by number.

### Policy engine and judge (`internal/policy`)

*State*: a cache of compiled bundles. *Operations*: match rules in order, count
history, combine with the judge's verdict. *Correct when*: the first matching
rule decides, a missing policy denies, a new bundle takes effect at once.

### Rate limiter and budgets (`internal/ratelimit`, `internal/usage`, `pg/ratelimit.go`)

*State*: token buckets, usage counters. *Hard*: replicas read their clocks before
they queue for the row; steps roll back after they took a token; the bucket is
deleted when it is old, by the cutoff of ended executions. *Correct when*: no more
than burst plus refill run in any window.

### Payload chunks and retention (`pg/chunks.go`)

*State*: content-addressed chunks and references to them. *Correct when*: the
collector never deletes a chunk that a writer has found stored and is about to
refer to.

### Live streaming (`internal/stream`)

*State*: subscriber channels per execution. *Correct when*: a slow or leaving
subscriber neither blocks nor panics the publisher.

### The rest

In-memory store (a test double with the same interface), HTTP API with
authentication and role checks, payload and identity encoding, configuration,
command line, logs and metrics.

## 2. Modules

| Module | What it is |
|---|---|
| `DispatchQueue` | the queue rows of one execution, its two fences, the occurrence counters; operators only |
| `Execution` | extends it: one execution with its steps, approvals, subagents, delivery workers and agent runs |
| `Lifecycle` | the abstract specification: the two state diagrams of `docs/architecture.mdx`, which `Execution` implements |
| `Session` | many executions in sessions: creation, admission, parents, retention |
| `Resources` | one resource of an execution: generations, captures, coverage, and the forks and turns that carry them on |
| `Policy` | rules, history clauses and the judge as operators; a session's steps decided by them; policy tests by replay |
| `BundleCache` | agents' policy bundles, a replica's cache of compiled ones, submissions that use it |
| `RateLimiter` | one token bucket, as a row that replicas queue for or as a map entry under a mutex |
| `EventLog` | transactions that append to one log, and a reader that follows it |
| `Chunks` | payload chunks shared by rows, their writers and the collector |
| `Locking` | `RunLocked`: local gate, pool connection, advisory lock; the leader locks of the sweeps |
| `DeliveryPool` | one replica's loop that claims dispatches for its workers |
| `LiveStream` | the hub from the notification channel to the subscribers |
| `MCExecution`, `MCSession`, `MCResources`, `MCPolicy` | the small sets TLC is given |
| `MCExecutionLive` | two instances of `Execution` side by side, with their fairness |
| `MCShared`, `MCWaiting` | several of the modules above side by side (section 3) |
| `Execution_proofs`, `Session_proofs`, `Resources_proofs`, `EventLog_proofs`, `Chunks_proofs`, `RateLimiter_proofs`, `Waiting_proofs` (`Locking`, `DeliveryPool`, `LiveStream`), `Policy_proofs` (with `BundleCache`) | theorems and proofs (section 4) |

`PROJECT.json` ("map") names the source lines of every definition.

### Execution and DispatchQueue

One action per handler. Handlers run under the execution's lock
(`RunLocked`) in one transaction, so an action is atomic; what interleaves are
handlers called by agents of any attempt, by approvers, by sweeps and by
delivery workers that act on a row they claimed earlier.

| Variable | Code |
|---|---|
| `exec` | `executions.status` |
| `step[<<effect, occurrence>>]` | `steps.status`; a step id is the hash of effect and occurrence. A step failed because its outcome is unknown is `indeterminate` here |
| `approval[s]`, `child[s]` | the step's approval row, the status of the subagent it started |
| `dispatch[d]`, `attempt[d]` | status and attempt number of a dispatch row |
| `occurrence[d][e]` | `dispatch_step_counters` |
| `limited` | whether the log holds a `step.rate_limited` event (`parkRateLimited` parks once) |
| `worker[l]`, `run[l]` | the goroutine delivering, and the agent run holding, the lease `l = <<dispatch, attempt>>` |
| `told` | history: which lease was answered "proceed" for which step |

SubmitStep is nine actions, one for each way it ends: `SubmitReplay`,
`SubmitStart`, `SubmitOrphan`, `SubmitRestart` for a step that exists;
`SubmitAllowed`, `SubmitDenied`, `SubmitForApproval`, `SubmitParked`,
`SubmitRefused` for a new one. Delivery is split where the code holds no lock:
`Claim`, then `Discard`, `Exhaust` or `Post`, then the agent starting
(`AgentRuns`) and the answer (`PostOk`, `PostFails`) in either order, a crash of
the replica anywhere between.

Abstractions: policy, budget and limiter answers are nondeterministic, which
covers every policy. Time is nondeterministic: any lease may expire, any
approval time out, any deadline pass. An effect declares the same idempotency
mode in each request. A subagent is a status only.

### Session

The execution rows of any number of sessions. An execution's number is its
UUIDv7: numbers grow with creation time, but rows may be inserted in any order,
as two replicas may. Admission (`admitNext`) is three actions, one for each
statement that matters, because other transactions commit between them:

- `Pick`: NextPendingInSession, the oldest waiting row `FOR UPDATE`;
- `ReadHead`: SessionHead, skipped for a fork and where a parent is named;
- `Admit` or `Rollback`: the status update, which the unique index
  `executions_one_active_per_session` or the terminal guard may refuse.

`txn[a]` holds what admission `a` has read and locked; `unseen[a]` is a history
variable for the order property. A branch or fork reads first (`CheckBranch`,
`CheckFork`) and inserts later (`InsertBranch`), or is refused by a foreign key
(`RefuseBranch`). Retention is one statement, and two actions: `FindExpired` is its
READ COMMITTED snapshot, by which `NOT EXISTS` decides what sessions are kept, and
`Delete` drops the rows found, whatever their sessions hold by then. `sweep` keeps
what was found and, for the properties, which rows the snapshot saw. The foreign keys
clear every reference to a deleted row, late ones too, so `Delete` waits for an
admission that holds a row it must clear; `Cancel` waits for admissions too. The rest of an execution's life is
free: it blocks, resumes, completes and fails at will, which covers what
`Execution` does. Idempotency keys of creation, authorization and validation
are left out.

### Resources

The kernel handles a resource by numbers only: the event sequence, a generation
that each start of a touching step advances, a count of settled steps. The model
keeps beside them what the numbers are about. `world` is the set of effects
present in the bound environment, a checkpoint's reference is the set it
captured, and so "covered" can be compared with the history.

| Variable | Code |
|---|---|
| `log` | the execution's events, as far as forks read or copy them |
| `step`, `row`, `checkpoints` | step rows, the row of `resources`, the rows of `resource_checkpoints` |
| `lease`, `agent`, `sent` | the attempt with the lease, what each agent run knows, the last publish request (which may arrive late, twice or never) |
| `heard` | the attempts `checkLease` accepts: the last one of each dispatch row, retired rows included |
| `strays`, `overtaken` | history: the affecting steps whose outcome an attempt reported after it had lost the lease, and whether one was reported since the step of the present holder began |
| `world` | external: the bound environment |

`Submit` is SubmitStep of an affecting step in its three outcomes that matter
here, `Report` is CompleteStep or FailStep with the capture the agent took.
`Redispatch` is the next attempt, of the same row or of a new one: in the second case
the row before it keeps its attempt, and `Report` accepts that one, after the new
attempt has registered, captured its baseline or submitted a step.
`Fork(at)` copies log, steps, row and checkpoints up to an event with the
renumbering of `mapSeq`, `Turn` inherits the resource in the next execution of
the session. After either, the model follows the new execution. The behaviour of
the SDK (one tool at a time, LLM calls beside it, capture between body and
report) is external, as the code in `src/` relies on it.

### Policy and BundleCache

A condition is a set of targets, kinds and argument predicates; a predicate is
the set of values it accepts, which stands for globs, regular expressions and
comparisons. The rest of the evaluation is kept: rule order, clauses in order,
one history read per scope with the widest window (`Lookback`), a failing read
(`MatchAll`), sums, distinct values and counts, the judge's threshold, fallback
and ties. Around it is a session of steps: `Submit`, `Resolve`, `Start`,
`SettleStep`, with the clock read at the evaluation and the later one in the
decision event. `Replay` is the policy test of `tester.go` and
`policytest.go`. `Compiles` is what `NewRuleEngine` accepts, and an assumption on
the bundles TLC is given.

`BundleCache` has the agent rows, the LRU list and, in each submission, the read
of the agent and the evaluation as two steps between which anything may happen.

### RateLimiter, EventLog, Chunks

The parts of the store whose transactions overlap; each is split where another
transaction can come between. `RateLimiter`: clock read, row lock with refill
and take, commit or rollback; tokens are counted in units of `1/Window`, so the
refill is exact. The sweep's cutoff is the retention of executions and has nothing to
do with the window; `early` records when it deleted a bucket that was still filling. `EventLog`: row lock, `MAX`, inserts, commit or rollback.
`Chunks`: the look-up of stored chunks, the upsert of the others, commit; and the
collector's begin, snapshot and delete. `now()` is the begin of a transaction,
and what a transaction has written is seen by others once it commits.

### Locking, DeliveryPool, LiveStream

`Locking` follows a call of `RunLocked` from the gate's map entry to its release:
`Enter`, `TakeToken`, `BeginTx`, `AdvisoryLock`, `EndTx`, `ReleaseToken`,
`DropRef`, with cancellation at each place where a caller waits, and the crash of
a replica. A loop that leads its key holds a connection while its sweep makes locked
calls; a replica may lead both keys.
`DeliveryPool` is `runDispatches`, its select statements as actions (`AwaitIdle`,
`Drain`, `ClaimDue`, `ClaimFails`, `Wake`). In `LiveStream` the listener visits
the subscribers one after another under the hub's mutex.

## 3. Runs

| Run | Instance | Shows |
|---|---|---|
| `execution_mixed` | 2 effects (one safe and able to start a subagent, one `at_most_once`), 2 dispatches, 2 claims each, at most 1 delivery attempt | types, queue, approvals, cancellation, finality of outcomes, and that every handler is a move of `Lifecycle` |
| `execution_repeat` | 1 `at_most_once` effect called twice per attempt, 2 dispatches, 2 attempts each | no call of unknown outcome is repeated blindly; occurrence numbers have no gap |
| `execution_live` | 1 effect with a subagent: 4 dispatches, 2 claims each; or 1 dispatch, 3 claims, 2 attempts allowed | under fairness: running executions come to rest, approvals are decided, subagents are settled; delivery retries end |
| `session_turns` | 1 session, 1 agent, 3 executions, 2 admitters, 1 lost admission | one at a time, in order, parents fixed; under fairness the queue moves |
| `session_branches` | 1 session and executions without one, 2 agents, 3 executions, 1 admitter, 1 branch request | parents are completed executions of the same agent; retention keeps a conversation as whole as its snapshot saw it |
| `resources` | 2 writing steps, one `at_most_once`, an LLM call, 2 attempts, checkpoints off or every second step, 1 fork, 1 turn | what is called covered is covered, late outcomes aside, in the execution, its forks and its next turn; forks restore what was announced; captures are taken on schedule |
| `shared_state` | policy: 4 bundles, 2 executions, 2 steps; cache: 2 agents, 1 entry, 2 submissions; limiter: 3 steps, a call per 2 ticks, buckets deleted after 1; log: 3 writers; chunks: 2 rows, 1 chunk; lock: 2 replicas, 4 callers, 2 keys, 2 leader keys | policy: replay, lookback, failures, judge; each store's promise to concurrent callers |
| `waiting` | lock: 3 callers on 2 replicas, two of them the loops of one, pools of 3; pool: 3 dispatches, 2 workers; stream: 2 subscribers, buffers of 2, 3 deltas | under fairness: locked calls return, due dispatches are delivered, slow subscribers hold up nobody |
| `execution_blocked`, `execution_returned`, `session_head`, `session_retained` | | expected violations, section 5 |

**Bounds.** Two claims of one dispatch put an old and a new attempt side by
side; two dispatches add an old and a new delivery after a block; two
occurrences of one effect are what distinguishes a call from its repetition.
`execution_live` has four dispatches so that an execution can be parked, blocked
on an approval, blocked on a subagent, and resumed; its second instance
(`MCExecutionLive`) exchanges them for a claim beyond the attempts allowed. Three executions are one
that has ended, one that is active or being admitted and one that waits, or one
that is retained, its branch, and a fork of the branch. Bounds are guards: no
claim after `ClaimBound`, no reclaim or replica crash of the last claim, no
occurrence after `MaxOccurrence`, no new dispatch after `MaxDispatches`, no
creation after `MaxExecutions`, no lost admission after `MaxFaults`. A third
attempt, a third effect or a fourth execution adds no case that the invariants
tell apart; the theorems of section 4 cover all of them.

**Side by side.** `shared_state` and `waiting` each check several modules that
share no state. A behaviour chooses one of them at the start (`part`) and runs it
while the others stay as they began, so TLC explores the sum of their states and
not the product, and each property is about one of them. In `waiting` a part that
is not chosen owes nothing: none of its fair actions is enabled in its initial
state.

**Bounds of the newer runs.** `resources` ends at 7 events (`MaxLog`): an opening,
a registration, two steps that start and end, one capture; the fork and the turn
start again from what they copy. Two attempts give a restart beside an old agent
run that is still writing. In `shared_state`, two steps are a recorded one and the
one that looks at it, with windows of 0 and more and bundles that use every kind
of clause; one cache entry makes two agents evict each other; three steps at a
bucket of one are a winner, one that waits behind it and one after the refill;
three writers are one that commits, one that rolls back and one that waits; one
chunk is enough because chunks do not interact, and its two rows are one that
drops it and one that reuses it, within seven ticks of which the grace period is
four and a transaction at most two. The limiter's retention of one tick is shorter
than its window of two: buckets are deleted both while they fill and, later, when
they are full again. A caller at a gate, the two loops of its replica and a caller
on another replica are the holder, a waiter that may give up, two leaders and the
competitor for the advisory lock; a pool of three is one more than the leader keys.
With a pool of two, `waiting` ends in a deadlock (section 5).

**Deadlock** is not checked: an execution that has ended and whose agents are
gone has nothing left to do, and where a bound is used up the model stops early.

**Symmetry** is used in `session_branches` alone, over agents, which are only
compared for equality; it has no liveness property. Executions without a
session stand there for those of another one, as sources and targets of branches
and forks and as rows that retention judges on their own; with a second session
(6.8 million states) the run passes as well.

**Fairness** (`FairSpec`). Every replica runs the delivery loop and the sweeps
for good, so for `Execution` (and, guarded by which one runs, for the two instances
of `MCExecutionLive`): `Start` follows creation in the same request; a
claimable row is claimed; the lease of a row whose worker and agent are both
gone is renewed by nobody and so is reclaimed; a worker finishes its call, which
has a timeout; an agent's handler returns or dies; an open approval times out; a
subagent ends; the follow-ups of an end are retried by sweeps. Nobody need
approve, suspend, cancel, crash or answer well. For `Session`: AdmitQueued picks
from a session that is idle (`SessionIdle(s) /\ Pick`), a transaction comes to
its end, the deadline sweep cancels what is past its deadline. `QueueMoves`
further assumes that each execution gives its session up again and again: it
says that the queue never sticks by itself, not that agents are quick.

In `waiting`: a Go channel, the connection pool and Postgres locks serve waiters
in order, so a step that is possible again and again is taken (strong fairness of
`Proceed`), and the functions run under a lock return. The pool's loop runs, its
timers fire, deliveries end by the webhook's timeout, and a store asked again and
again answers (strong fairness of `ClaimDue`). The stream's listener runs, and a
mutex does not starve a waiter; no subscriber need ever read.

**Assumptions on the configuration.** `CallersReturn` is checked, and `NobodyStuck`
proved, for pools with more connections than there are leader keys. `buildPool`
(`cmd/rebuno/server.go:139`) sees to it by at least ten connections unless
`REBUNO_DB_MAX_CONNS` sets fewer; the listeners keep one each besides.
`ChunksAssumption`: the touch interval (an hour) and a transaction, and also two
transactions, last no longer than the grace period (a day): no transaction that
writes payloads lasts half a day. Section 4 says how the second bound was found.

## 4. Proofs

All theorems hold for every value of the constants that satisfies the named
assumptions of the module. Beyond bounds being naturals and sets being disjoint
they are: `ModeAssumption` and `AttemptsAssumption` (`at_most_once` effects are
effects, a delivery is tried at least once), `NoSessionAssumption`,
`StepsAssumption` (finitely many affecting steps), `LockingAssumption` (finitely
many callers and leader keys, pools that are not empty), `BundleCacheAssumption` (a
text compiles or not; the two special answers are neither), `PolicyAssumption`
(bundles compile; a judge that answers gives each decision a number),
`RateLimiterAssumption` (a window and a burst are not empty) and `ChunksAssumption`
(section 3). What only one theorem needs is an antecedent of its statement
(`PoolExceedsLoops`, `KeptPastRefill`). TLC evaluates each of them on a passing run, and
checked each inductive invariant below before it was proved.

**Execution_proofs** rests on `IndInv == TypeOK /\ DispatchInv /\ LedgerInv`.
`LiveDispatchIffRunning` and `ApprovalGate` are inductive together but not
alone: that an approval is decided may resume the execution with a new dispatch,
and this leaves a single live one only because an open approval implies that
the execution is blocked and so has none. `AtMostOnceTold` needs `ToldStarted`
(who was told, started the step), because `SubmitStart` may only answer for a
step nobody was told to run; `ApprovedBeforeRun` follows from `ToldStarted` and
`RefusedIsDenied` (a refused step stays denied); `CancelledByExecution` rules
out that a resubmission finds a cancelled step in a live execution.

What an attempt walks past is a second layer, `RecordInv`. A new occurrence is
numbered by the attempt's counter, so `OccurrencesContiguous` needs
`CountersRecorded`: a counter only passes recorded steps. `NoBlindRepeat` needs
`PassedSettled`: the owner of the dispatch has passed an `at_most_once` step
only if the step has an outcome or was handed to this very attempt; another
attempt's open call is met before it could be passed. `UnknownNeedsApproval`
needs `UnknownIsAtMostOnce` and `AllowedIsGranted`: a step is allowed by a
granted approval and in no other way. The refinement of `Lifecycle` needs
`PendingIsEmpty`, that nothing is recorded before the start; every action maps
to a move of the execution's diagram, moves of steps' diagrams, or a stutter.

| Theorem | States |
|---|---|
| `TypeCorrect` | `TypeOK` |
| `OneLiveDispatch` | `LiveDispatchIffRunning` |
| `ApprovalsGate` | `ApprovalGate` |
| `AtMostOnce_Told` | `AtMostOnceTold` |
| `ApprovalBeforeRun` | `ApprovedBeforeRun` |
| `CancelSettles` | `CancelledIsSettled` |
| `OutcomesAreFinal` | `RecordedNeverRerun`, an action property |
| `NoRepeatUnseen` | `NoBlindRepeat` |
| `UnknownAsksHuman` | `UnknownNeedsApproval` |
| `NoGapInOccurrences` | `OccurrencesContiguous` |
| `LifecycleImplemented` | `ImplementsLifecycle`, the refinement |
| `Invariance`, `RecordInvariance` | `IndInv`, `RecordInv` |

**Session_proofs** rests on its own `IndInv`. `OneActive` alone is inductive,
by the unique index. `ParentCompleted` is not: the parent is read before it is
stored, by an admission and by a branch request. `ReadsStand` says that what
they read is still a completed execution of the agent, or has been deleted;
`RowsHeld` that an admission's row is still waiting, because `Pick` locked it;
`OnlyRowsRefer` that only rows have references, so a deletion clears them all.
`ParentKept` says the head an admission carries is its row's own parent where
it has one, which `ParentFixed` needs. `SweepStands` says of what retention is about
to delete that it has ended and that the rows its snapshot saw in the same session
are deleted with it; `SeenSessionsStayWhole` follows. `FirstComeFirstServed` needs that no two
admissions hold one row and that what joins the queue later is `unseen`.

| Theorem | States |
|---|---|
| `SessionTypeCorrect` | `SessionTypeOK` |
| `OneTurnAtATime` | `OneActive` |
| `FirstCome` | `FirstComeFirstServed` |
| `ParentsHaveCompleted` | `ParentCompleted` |
| `ParentsAreFixed` | `ParentFixed`, an action property |
| `SeenSessionsStayWhole` | `OnlyNewcomersLoseParents`, an action property |
| `SessionInvariance` | the inductive invariant |

**Resources_proofs** rests, for rows and counts, on `CountInv == RowsInv /\ AgentsInv`.
`OneCheckpointPerBoundary` needs that every checkpoint is followed by the event
that records it (`Orderly`, first conjunct), so that the next capture is covered
from a later event; and for forks, where several boundaries may become one, that
renumbering keeps the order of boundaries (`MapSeqGrows`, by ranks) and that only
the newest of them is copied. `CountIsSettledSteps` in a fork needs that the
status of a step is its outcome in the log (`OutcomesLogged`) and, for a fork
from before the registration, that no affecting step ran before it
(`RegisteredFirst`). `CapturesOnSchedule` needs `Scheduled`: while the holder of
the lease works and is not `overtaken`, no other report changes the count. The lemmas about the copied
log (`OpeningOfFork`) say that the copied events are the source's, in order, and
that `mapSeq` names their new places.

`CoveredForkMatches` needs a second invariant, `CoverInv`. Sequence numbers and
generations alone say nothing about effects, so it compares each place that holds
effects with those the log records: `Done(l, n, s)`, s has succeeded or was
restored by the n-th event, and `Tried`, the same for any outcome.

- `WorldFollows`: the bound environment has everything `Done` and nothing but what
  was `Tried` or is executing; an environment not yet bound will be created from a
  reference with all that was `Tried`.
- `AgentFollows`, `RequestFollows`, `LeaseFollows`: a capture, kept by an agent or
  sent with a request, has only effects of the environment, and everything `Done`
  if it carries the *current* generation. A start raises the generation, which
  makes captures taken before it stale; the success of the step raises nothing. So
  the argument needs that the holder of the lease, while it works, took its own
  generation after every request that is still on its way and after every other
  attempt (`LeaseFollows`).
- `CoverageOK`: the newest checkpoint that covers a boundary matches what the log
  records there (`Matches`). A success could spoil open coverage, and cannot:
  no checkpoint is open while a step writes (`ClosedWhileWriting`), unless the
  success is a late one, of an attempt that lost the lease: the step then joins
  `strays`, and `Matches` leaves it out. That an accepted capture has nothing of a
  step without an outcome is the refusal beside writers. A stray has an outcome
  (`StraysSettled`), so a fork that starts anew from what it restored has none.

For a fork, `ForkHas` says that a boundary of the copied log stands for the effects
of the last source boundary renumbered to it or below (`Source`), and
`NewestCopied` and `ForkSelects` that the same checkpoint is selected there. After
its `resource.initialized` the fork stands for what it restored
(`RestoredEffects`), and only a covered fork point leaves coverage open.

| Theorem | States |
|---|---|
| `TypeCorrect` | `TypeOK` |
| `OnePerBoundary` | `OneCheckpointPerBoundary` |
| `CountIsRight` | `CountIsSettledSteps` |
| `ScheduleKept` | `CapturesOnSchedule`, an action property |
| `CoveredMeansComplete` | `CoveredForkMatches` |
| `CoverageCarried` | `ForkKeepsCoverage`, an action property |
| `CountInvariance`, `CoverInvariance` | `CountInv`, `CoverInv` |

**EventLog_proofs**: `EventInv` says that the committed numbers are an initial
segment, that one writer at a time holds the execution's row, and that what it
has written or numbered follows the committed ones. A rollback then leaves no
gap and a commit none either, so that a reader that follows the last number has
everything (`NothingMissed`: `ReadersMissNothing`).

**Chunks_proofs**: `ChunkInv` says that what a transaction reuses does not expire
for as long as it may last (`ReusedStayFresh`) and that what a committed row
references is spared even by a sweep whose snapshot did not see the reference
(`ReferencedAreSpared`). The attempt to prove it found a bound that the
assumption had missed: `used_at` becomes `now()`, the *begin* of the touching
transaction (`src/internal/store/postgres/chunks.go`), so that a commit can set it
back under a transaction that has already found the chunk fresh. Two
transactions together, and not just one with the touch interval, must fit into
the grace period. `ReferencesSurviveSweep` is `ReferencedChunksStored`.

**Waiting_proofs**, `Locking`: `LockInv`. A gate's entry counts the callers that use it
(`RefsCounted`), all of one replica and key, and is in the map as long as there is
one; past the gate a caller holds the entry's token. So an entry never leaves the
map under a waiter, and `WaitersHoldNoConnection` (`OneConnectionPerKey`) follows.
`RunLockedExcludes` states `RunLocked`'s promise itself: over all callers of all
replicas, through cancellations and crashes, one locked function runs per key.
`NobodyStuck` is the safety behind `CallersReturn`: while anybody is in a locked
call, the guard of somebody's next step is true (`CanProceed` spells out the guards
of `Proceed`, since ENABLED cannot be reasoned about). It needs the converse of
`LockInv`, `HoldersPresent`: a token's holder and a lock's owner are where they will
give it up. Then those who wait, wait for the next phase and not in a ring; a pool
with nobody in a transaction has room beside the connections of the loops that its
replica leads, and this is where the pool must be larger than the number of leader
keys: `NobodyStuck` is `PoolExceedsLoops /\ LockSpec => []NoneStuck`.

`DeliveryPool`: `PoolInv`. The coordinator counts its busy workers instead of looking
at them. `WorkersCounted` says that the count is the deliveries under way and the
completions not received; a claim keeps it because a dispatch is due once and not
while it is being delivered (`DueOnce`), so what it takes off the queue are as many
new deliveries (`PrefixCount`). It gives `WorkersAreBounded`, no worker ever blocks
on the completion channel, and `StoppedDeliversNothing`, the safety part of
`QueuedIsDelivered`.

`LiveStream`: `StreamInv`. A channel holds nothing beyond what its subscriber may
have been sent (`NothingAhead`, by whether the delivery under way has still to visit
it), so an append keeps the order: `DeltasInOrder` is the safety part of
`SlowReadersHoldUpNobody`, `BuffersBounded` what a slow reader costs.

| Theorem | States |
|---|---|
| `WaitersHoldNoConnection` | `OneConnectionPerKey` |
| `RunLockedExcludes` | `OneRunsPerKey` |
| `NobodyStuck` | `NoneStuck` |
| `WorkersAreBounded` | `WorkersBounded` |
| `StoppedDeliversNothing` | `StoppedIsIdle`, a part of `QueuedIsDelivered` |
| `DeltasInOrder` | `ChannelsInOrder`, a part of `SlowReadersHoldUpNobody` |
| `BuffersBounded` | `ChannelsBounded` |

**RateLimiter_proofs**: `LimitInv` keeps accounts. What a bucket can hand out by
now (`Level`) is its tokens and their refill, up to `Brim`: a full bucket and what
`MaxDelay` refills, since the next reading of the clock may be as late. For every
moment a, the tokens taken since a and the level together are at most `Brim` and
the refill since a (`Accounts`): a grant moves a token from the one to the other, a
tick adds its refill to both sides, a denial adds nothing. Deleting the bucket
hands out a full one: nothing changes if it had refilled to the brim (`FullIsBrim`),
and otherwise the moment is in `early` and the accounts start anew after it. The
theorem is therefore about every interval without such a moment (`Unbroken`), and
assumes nothing of the retention; `NothingDeletedEarly` says that there is no such
moment where the retention is at least a window and the delay of a reading
(`KeptPastRefill`). A rollback
restores the bucket from before and gives back the holder's token, so the accounts
are kept for that bucket too, without the holder. Counting by intervals is then
arithmetic (`LimitNow`), and intervals that are over change no more (`PastLimit`).
`LimitKept` states `NeverOverLimit`, `LimitInvariance` the invariant.

**Policy_proofs** has three theorems that need of a state only its types, and so
lemmas about `Evaluate` for every bundle that compiles, every call and every
history:

- `UnreadableTightens`: with some scopes unreadable a rule comes to an error or to
  what it came to (`OutcomeOrError`). The first rule that fires then denies, or
  is the first one that would have fired.
- `OneReadIsEnough`: a clause's window is within the widest one of its scope, and
  so it selects the same steps from the one read as from the whole history.
- `JudgeIsStrict`: the strictest of the most probable decisions exists
  (`MostProbableIs`), and a decision reaches the threshold only if that one does.

`ReplayReproduces` needs an invariant, `PolicyInv`. The policy test shows the bundle
rows as they are now, the decision was made on rows as they were. `Lasting` is what
stays of a row once it has started, and `DecidedByCase` says that the recorded
decision is the one on what lasts of the rows the test will select, with the clock
that the evaluation read. A submission makes it true since the rows that had
started by then are the ones not younger than the event (`RowsNumbered`,
`EventsFollowRows`); later steps only add younger ones (`RowsGrow`, `CaseStands`).
What remains is that a bundle without results and judges decides alike on
corresponding histories (`EvaluateAlike`), so that counts, distinct values and sums
agree under a bijection. The induction for sums is over the least size of a
counterexample, which needs no induction theorem (`SumsExist`, `SumWithout`,
`SumByBijection`).

For `BundleCache`, `CacheInv` says that the engine of an entry was compiled from the
text beside it, that an agent has one entry and that the list stays within its
capacity.

| Theorem | States |
|---|---|
| `FailuresTighten` | `FailureOnlyTightens` |
| `LookbackIsEnough` | `LookbackLosesNothing` |
| `JudgeIsCautious` | `JudgeLeansStrict` |
| `ReplaysReproduce` | `ReplayReproduces` |
| `LookupDecides` | `DecisionFollowsLookup` |
| `PolicyInvariance` | `PolicyInv` |

Every invariant and every safety property that a passing run checks is also proved.
Only model-checked are the liveness properties, which are out of the prover's reach
like ENABLED: `RunningComesToRest`, `RetriesRunOut`, `ApprovalsAreDecided`, `SubagentsAreSettled`,
`QueueMoves`, `CallersReturn`, `QueuedIsDelivered` and `SlowReadersHoldUpNobody`.
The safety parts of the last two are proved. That the code departs from a
document (section 5) is shown by a run and its counterexample.

## 5. Where code and documentation differ

TLC finds each of these four violated by a run of its own.

1. `ContinuesLatest` (`internal/kernel/execution.go:315`). The session's head
   is read before the waiting execution is made running. The turn that runs
   meanwhile may complete between the two statements; the unique index then
   lets the next one start with the older head, and the turn in between is left
   out of the conversation. `docs/architecture.mdx:138-139` promises the most
   recent completed execution.
2. `BlockedWaits` (`internal/kernel/step.go:602`). CompleteStep and FailStep
   settle a step without `resumeIfIdleTx`. If an agent suspends while a call
   with a subagent is executing and then reports that call itself, the
   execution is blocked with nothing to wait for, and no sweep finds it.
   `docs/architecture.mdx:51-52` says a blocked execution waits for something.
3. `ReturnedWorkRefused` (`pg/dispatches.go:253`). `checkLease` compares the
   attempt number only, so an outcome is accepted from a delivery that went
   back to the queue, until it is claimed again; `docs/architecture.mdx:261-263`
   says it is refused.
4. `SessionKeepsParents` (`pg/executions.go:263`). Retention judges by the snapshot
   of its statement which sessions it may delete, and deletes their rows after it. An
   execution created in the session and admitted in between continues the old head,
   is itself retained, and loses its parent by `ON DELETE SET NULL`.
   `docs/architecture.mdx:151-153` says that a retained execution's parent stays
   readable. `OnlyNewcomersLoseParents` states what holds.

Seen while modelling, without a run:

- "A fork point is *covered* when every resource registered there has matching
  captured state" (`docs/architecture.mdx:216`). CompleteStep and FailStep ask no more
  than `checkLease` (`pg/dispatches.go:253`), so the last attempt of a retired
  dispatch can report after the attempt of the next one has registered the resource,
  captured its baseline and asked to publish it. The capture that arrives after such
  a success covers it without holding its effect: `CoveredForkMatches` without
  `strays` is violated by Register, Bind, Submit, Redispatch, Register, Capture,
  Write, Report, Publish. The same reports move the count between two outcomes of
  the new holder, who is then not asked for the capture that was due:
  `CapturesOnSchedule` does not hold without `overtaken`.
- A replica that leads both loops (`internal/lifecycle/lifecycle.go:113-119`) keeps
  two connections of its pool, and each sweep waits for one more without a timeout.
  With `REBUNO_DB_MAX_CONNS` at 2 (`docs/deployment.mdx:153`; nothing checks it) both
  wait for ever and no locked call of the replica goes on: with `PoolSize = 2`,
  `waiting` violates `CallersReturn`, by two TryAcquire and one Enter for each.
- Buckets of the rate limiter are deleted by the retention of executions
  (`internal/kernel/lifecycle.go:45-54`), 24 hours unless configured, and no check
  bounds a rule's window by it: a bucket with a longer window is deleted while it
  fills, and starts full again. `NeverOverLimit` holds between such moments only.
- A branch "must be new" in its session (`docs/architecture.mdx:148-149`), but
  `requireNewSession` looks before the transaction that inserts
  (`internal/kernel/execution.go:267-282`): `CheckBranch` and `InsertBranch`
  show two branches, or a branch and a creation, sharing a session.
- Retention keeps whole sessions, but the parent of a branch in *another* session
  is deleted (`pg/executions.go:263`), against `docs/architecture.mdx:151-153`.
  `SessionKeepsParents` does not ask for it.
- `docs/agents.mdx:85` and `docs/api.mdx:340` name the decision
  `execution_blocked` (`internal/kernel/step.go:114-116`); the lease of a
  blocked execution is retired, so RenewLease refuses first.
- `checkParentStep` (`internal/kernel/subagent.go:26`) compares a subagent's
  session with its immediate parent's only. A subagent's subagent may join the
  session of its grandparent and then waits for it until a deadline ends one.
- "Each replayed step sees the history of its execution and session as it stood
  when it was decided" (`docs/policy.mdx:466-467`), but
  `internal/policy/tester.go:132-147` selects by start time and uses the steps'
  present status and result, so `result` clauses may replay differently. The
  judge is asked anew, or not at all, and budgets are not replayed. The replay's
  clock is the decision event's time, which is later than the evaluation's (judge,
  limiter and locks lie between): a step at the edge of a window can be left out.
  `ReplayReproduces` states what holds, with `Repeatable` and `WindowMoved` as the
  exceptions.
- `covered` (`docs/api.mdx:402`): a fork of a fork at an event before its
  `resource.initialized` keeps an open checkpoint of the old generation while
  `readForkPrefix` finds generation 0; the new execution's registration says that
  the state is not covered although the restoration it was given is.
- `on_limiter_error: allow` (`docs/policy.mdx:273`): with Postgres the limiter runs
  in the step's transaction, and a statement that fails on the server aborts it, so
  the step fails instead of proceeding.

## 6. Plan

What the prover can reach of the properties that the runs check is proved. What
can still be added:

1. Theorems about what the components promise to one another where no run checks a
   property of its own: that a claimed dispatch is delivered with the attempt it was
   claimed for, that an admission takes the first of the queue as its transaction
   saw it.
2. Trees of subagents over several sessions (section 5), if a smaller abstraction of
   `Execution` is found in which TLC can cover three executions.

## 7. Not modelled

- HTTP decoding, authentication and roles: no state of their own; a refused
  request changes nothing here.
- The in-memory store: a test double; the models follow Postgres.
- Hashing and JSON canonicalisation of step ids: taken as injective.
- The judge model and the webhook receiver: external; their answers are
  nondeterministic.
- Usage counters, idempotency keys and event payloads of the handlers in
  `Execution`: no guard of the modelled handlers depends on them beyond the
  nondeterministic budget decision.
- Policy bundles as text: YAML, globs and regular expressions, and the checks on
  rule ids, subjects and limits. They are pure; the models start from rules that
  compile.
- A change of a rule's limits while its bucket exists, a limiter that fails, and
  budgets beyond the nondeterministic decision in `Execution`.
- The backoff of deliveries (`internal/dispatcher/dispatcher.go:107-118`): a random
  jitter on a pure function of the attempt number.
- The error of one sweep of a tick: the next sweep runs whatever the one before
  returned (`errors.Join`), there is no state between them.
- Trees of subagents over several sessions (section 5): they need three executions
  in two sessions with their steps, which is beyond what TLC covers in a useful
  time with the modules at hand.
- Configuration, command line, logs and metrics.
