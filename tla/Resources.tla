------------------------------ MODULE Resources ------------------------------
(***************************************************************************)
(* An external resource of an execution (a sandbox), the steps that change *)
(* it, its checkpoints, and the forks and session turns that carry it on   *)
(* (internal/kernel/resource.go, fork.go, step.go over store/postgres).    *)
(*                                                                         *)
(* The kernel sees numbers only: sequence numbers, generations, counts.    *)
(* Beside them the model keeps what they are about, the effects present in *)
(* the bound environment, so that a checkpoint reference is the set of     *)
(* effects it captured and "covered" can be compared with the history.     *)
(*                                                                         *)
(* Abstractions.  One resource.  An execution's log holds the events that  *)
(* forks read or copy and those written with a capture; a batch of step    *)
(* events is its last one, and one event stands for those that open a log. *)
(* Every step is allowed, denied or already there; approval only delays    *)
(* the start.  Driver and configuration conflicts change nothing and are   *)
(* left out.  After a fork or the next turn of the session the model       *)
(* follows the new execution: the old one shares nothing with a fork, and  *)
(* a turn starts when its parent has ended.                                *)
(*                                                                         *)
(* The SDK (external): an agent runs one tool or local step at a time, LLM *)
(* calls beside it; a due capture is taken between the body and the report *)
(* of its outcome; an agent may also capture while it runs no tool.  A     *)
(* publish request may arrive late, twice or never.  An agent whose        *)
(* attempt was replaced goes on running its body, and may report it late.  *)
(***************************************************************************)
EXTENDS Integers, Sequences, FiniteSets

CONSTANTS
  Affecting,    \* tool and local steps that declare the resource
  Others,       \* LLM calls and other steps that do not
  AtMostOnce,   \* the affecting steps submitted with idempotency at_most_once
  Intervals,    \* the every_steps values agents register with
  MaxAttempts,  \* bound: attempts of the execution's dispatches
  MaxLog,       \* bound: no handler starts on a log of this length
  MaxForks,     \* bound: forks of forks
  MaxTurns,     \* bound: session turns
  NoStep

ASSUME StepsAssumption ==
  /\ IsFiniteSet(Affecting)
  /\ Affecting \cap Others = {} /\ AtMostOnce \subseteq Affecting
  /\ NoStep \notin Affecting \cup Others
ASSUME BoundsAssumption ==
  /\ Intervals \subseteq Nat
  /\ {MaxAttempts, MaxLog, MaxForks, MaxTurns} \subseteq Nat
  /\ MaxAttempts > 0

VARIABLES
  log,          \* the execution's events; the sequence number is the index
  step,         \* status of each step row
  row,          \* the resource row; registered = 0 when there is none
  checkpoints,  \* checkpoint rows; invalidated = 0 while open
  world,        \* external: the effects present in the bound environment
  lease,        \* the attempt that holds the dispatch lease
  heard,        \* the attempts CheckLease accepts: the last of each dispatch
  agent,        \* external: the agent run of each attempt
  sent,         \* external: the last publish request of an agent
  forks, turns,
  strays,       \* history: affecting steps with an outcome of an attempt
                \* that no longer held the lease
  overtaken     \* history: such an outcome came since the holder's step began

execVars == <<log, step, row, checkpoints>>
leaseVars == <<lease, heard>>
strayVars == <<strays, overtaken>>
vars == <<log, step, row, checkpoints, world, lease, heard, agent, sent, forks, turns,
          strays, overtaken>>

Steps == Affecting \cup Others
Runs == 1..MaxAttempts
Final == {"succeeded", "failed", "denied"}

(* A reference names the captured effects; {} is the initial environment.  *)
Refs == SUBSET Affecting
EventTypes ==
  Final \cup {"opened", "registered", "bound", "initialized", "executing",
              "checkpointed", "checkpoint_failed"}
Event(type, s, g, ref) == [type |-> type, step |-> s, generation |-> g, ref |-> ref]
Note(type) == Event(type, NoStep, 0, {})

NoRow == [registered |-> 0, generation |-> 0, count |-> 0, every |-> 0,
          reuse |-> FALSE, bound |-> FALSE, ref |-> {}]
NoAgent == [at |-> "none", step |-> NoStep, generation |-> 0, due |-> FALSE, ref |-> {}]
Launched == [r \in Runs |-> IF r = 1 THEN [NoAgent EXCEPT !.at = "starting"] ELSE NoAgent]
NothingSent == [by |-> 0, generation |-> 0, ref |-> {}]

TypeOK ==
  /\ \A i \in 1..Len(log) :
       log[i] \in [type : EventTypes, step : Steps \cup {NoStep}, generation : Nat, ref : Refs]
  /\ step \in [Steps -> Final \cup {"absent", "executing"}]
  /\ row \in [registered : 0..Len(log), generation : Nat, count : Nat,
              every : Intervals \cup {0}, reuse : BOOLEAN, bound : BOOLEAN, ref : Refs]
  /\ \A c \in checkpoints :
       /\ c \in [covered : 1..Len(log), generation : Nat, ref : Refs, invalidated : 0..Len(log)]
       /\ row.registered \in 1..c.covered
  /\ world \in Refs
  /\ lease \in heard /\ heard \subseteq 1..lease /\ lease \in Runs
  /\ strays \subseteq {s \in Affecting : step[s] \in {"succeeded", "failed"}}
  /\ overtaken \in BOOLEAN
  /\ agent \in [Runs -> [at : {"none", "starting", "creating", "idle", "running", "captured"},
                         step : Affecting \cup {NoStep}, generation : Nat,
                         due : BOOLEAN, ref : Refs]]
  /\ sent \in [by : 0..MaxAttempts, generation : Nat, ref : Refs]
  /\ forks \in 0..MaxForks
  /\ turns \in 0..MaxTurns

Init ==
  /\ log = <<Note("opened")>>
  /\ step = [s \in Steps |-> "absent"]
  /\ row = NoRow
  /\ checkpoints = {}
  /\ world = {}
  /\ lease = 1
  /\ heard = {1}
  /\ agent = Launched
  /\ sent = NothingSent
  /\ forks = 0
  /\ turns = 0
  /\ strays = {}
  /\ overtaken = FALSE

Room == Len(log) < MaxLog
-----------------------------------------------------------------------------
(* Coverage *)

(* ResourceCheckpoint.Covers: the boundaries in [covered, invalidated). *)
Covers(c, seq) == c.covered <= seq /\ (c.invalidated = 0 \/ seq < c.invalidated)

Newest(cs) == CHOOSE c \in cs : \A d \in cs : d.covered <= c.covered

(* selectResource: the newest covering checkpoint, otherwise the newest     *)
(* earlier one, otherwise the initial environment.                          *)
SelectFrom(cs, seq) ==
  LET earlier == {c \in cs : c.covered <= seq}
      covering == {c \in cs : Covers(c, seq)}
  IN CASE covering # {} -> [ref |-> Newest(covering).ref, covered |-> TRUE]
       [] covering = {} /\ earlier # {} -> [ref |-> Newest(earlier).ref, covered |-> FALSE]
       [] OTHER -> [ref |-> {}, covered |-> FALSE]

Select(seq) == SelectFrom(checkpoints, seq)

(* recordCaptures: a capture needs the current generation and no writer     *)
(* among the step rows `st`.  A refusal is recorded, the outcome stands.    *)
Writing(st) == \E s \in Affecting : st[s] = "executing"
Acceptable(c, st) == c.generation = row.generation /\ ~Writing(st)

(* addCheckpoint: an open checkpoint of what the capture holds.            *)
Checkpoint(c, covered) ==
  [covered |-> covered, generation |-> c.generation, ref |-> c.ref, invalidated |-> 0]

RecordCaptures(captures, covered, events, st) ==
  LET accepted == {c \in captures : row.registered > 0 /\ Acceptable(c, st)}
      verdict == IF accepted = {} THEN "checkpoint_failed" ELSE "checkpointed"
  IN /\ checkpoints' = checkpoints \cup {Checkpoint(c, covered) : c \in accepted}
     /\ log' = events \o (IF captures = {} THEN <<>> ELSE <<Note(verdict)>>)

-----------------------------------------------------------------------------
(* The agent's side of the resource *)

(* liveResourceTx: calls about the resource come under the current lease.  *)
Holds(r) == lease = r

(* RegisterResource: the first call creates the row; a later one can only   *)
(* turn checkpointing on.  An agent that finds no binding creates the       *)
(* environment from the reference it is given.                              *)
Register(r) ==
  /\ Room /\ Holds(r) /\ agent[r].at = "starting"
  /\ \E every \in Intervals, reuse \in BOOLEAN :
       \/ /\ row.registered = 0
          /\ row' = [NoRow EXCEPT !.registered = Len(log) + 1, !.every = every, !.reuse = reuse]
          /\ log' = Append(log, Note("registered"))
       \/ /\ row.registered > 0
          /\ reuse = row.reuse
          /\ row' = [row EXCEPT !.every = IF @ = 0 THEN every ELSE @]
          /\ log' = IF row.every = 0 /\ every > 0 THEN Append(log, Note("registered")) ELSE log
  /\ agent' = [agent EXCEPT ![r].at = IF row'.bound THEN "idle" ELSE "creating",
                            ![r].generation = row'.generation]
  /\ UNCHANGED <<step, checkpoints, world, leaseVars, sent, forks, turns, strayVars>>

(* BindResource, of the environment the agent just created. *)
Bind(r) ==
  /\ Room /\ Holds(r) /\ agent[r].at = "creating" /\ ~row.bound
  /\ row' = [row EXCEPT !.bound = TRUE]
  /\ log' = Append(log, Note("bound"))
  /\ world' = row.ref
  /\ agent' = [agent EXCEPT ![r].at = "idle"]
  /\ UNCHANGED <<step, checkpoints, leaseVars, sent, forks, turns, strayVars>>

(* The SDK's baseline, or its capture on completion. *)
Capture(r) ==
  /\ lease = r /\ agent[r].at = "idle" /\ row.every > 0
  /\ sent' = [by |-> r, generation |-> agent[r].generation, ref |-> world]
  /\ UNCHANGED <<execVars, world, leaseVars, agent, forks, turns, strayVars>>

(* PublishCheckpoints: coverage starts at the latest event. *)
Publish ==
  /\ Room /\ Holds(sent.by)
  /\ RecordCaptures({sent}, Len(log), log, step)
  /\ UNCHANGED <<step, row, world, leaseVars, agent, sent, forks, turns, strayVars>>

-----------------------------------------------------------------------------
(* Steps *)

(* touchResources *)
Touches(s) == row.registered > 0 /\ (s \in Affecting \/ ~row.reuse)

(* The schedule read before the step is counted.                            *)
DueAtCount(s) == s \in Affecting /\ row.every > 0 /\ row.count % row.every = 0

(* What the agent is told to do when the step is done.                      *)
Due(s) == s \in Affecting /\ row.every > 0 /\ (row.count + 1) % row.every = 0

Invalidate(seq) ==
  {[c EXCEPT !.invalidated = IF @ = 0 THEN seq ELSE @] : c \in checkpoints}

(* A restart that takes the start of the earlier attempt for its own. *)
StartStepOnce(s) ==
  IF step[s] = "executing"
    THEN UNCHANGED <<log, step, row, checkpoints>>
    ELSE /\ step' = [step EXCEPT ![s] = "executing"]
         /\ log' = Append(log, Event("executing", s, row.generation + 1, {}))
         /\ row' = [row EXCEPT !.generation = IF Touches(s) THEN @ + 1 ELSE @]
         /\ checkpoints' = IF Touches(s) THEN Invalidate(Len(log) + 1) ELSE checkpoints

(* startStep: each start of a touching step advances the generation and     *)
(* ends the open coverage at its executing event; the restart of a step     *)
(* that touches nothing changes nothing.                                    *)
StartStep(s) ==
  /\ step' = [step EXCEPT ![s] = "executing"]
  /\ IF Touches(s)
       THEN /\ row' = [row EXCEPT !.generation = @ + 1]
            /\ log' = Append(log, Event("executing", s, row.generation + 1, {}))
            /\ checkpoints' = Invalidate(Len(log) + 1)
       ELSE /\ log' = IF step[s] = "executing" THEN log
                      ELSE Append(log, Event("executing", s, 0, {}))
            /\ UNCHANGED <<row, checkpoints>>

(* Failed steps left out of the count.                                      *)
SettleCountingSuccess(s, outcome, captures) ==
  /\ step' = [step EXCEPT ![s] = outcome]
  /\ row' = [row EXCEPT !.count = IF s \in Affecting /\ outcome = "succeeded" THEN @ + 1 ELSE @]
  /\ RecordCaptures(captures, Len(log) + 1, Append(log, Event(outcome, s, 0, {})), step')

(* settleEffect: every outcome of an affecting step counts.                *)
Settled(s) == [row EXCEPT !.count = IF s \in Affecting THEN @ + 1 ELSE @]

(* settleStep: captures reported with an outcome are covered from its event. *)
Settle(s, outcome, captures) ==
  /\ step' = [step EXCEPT ![s] = outcome]
  /\ row' = Settled(s)
  /\ RecordCaptures(captures, Len(log) + 1, Append(log, Event(outcome, s, 0, {})), step')

(* SubmitStep of a new step or of an orphan that is safe to run again. *)
Proceed(r, s) ==
  /\ step[s] \in IF s \in AtMostOnce THEN {"absent"} ELSE {"absent", "executing"}
  /\ StartStep(s)
  /\ agent' = [agent EXCEPT ![r] = [at |-> "running", step |-> s, due |-> Due(s), ref |-> {},
                                    generation |-> row'.generation]]

(* SubmitStep: policy denies the new step. *)
Deny(s) ==
  /\ step[s] = "absent"
  /\ step' = [step EXCEPT ![s] = "denied"]
  /\ log' = Append(log, Event("denied", s, 0, {}))
  /\ UNCHANGED <<row, checkpoints, agent>>

(* failStepInternal: the outcome of an at_most_once orphan is unknown. *)
FailOrphan(s) ==
  /\ step[s] = "executing" /\ s \in AtMostOnce
  /\ Settle(s, "failed", {})
  /\ UNCHANGED agent

Submit(r, s) ==
  /\ Room /\ lease = r /\ agent[r].at = "idle"
  /\ Proceed(r, s) \/ Deny(s) \/ FailOrphan(s)
  /\ overtaken' = FALSE
  /\ UNCHANGED <<world, leaseVars, sent, forks, turns, strays>>

(* An LLM call, made beside whatever else the agent does. *)
SubmitOther(r, s) ==
  /\ Room /\ lease = r /\ agent[r].at # "none"
  /\ step[s] \in {"absent", "executing"}
  /\ StartStep(s)
  /\ agent' = [agent EXCEPT ![r].generation =
                 IF agent[r].at = "idle" /\ Touches(s) THEN row'.generation ELSE @]
  /\ UNCHANGED <<world, leaseVars, sent, forks, turns, strayVars>>

(* The body takes effect; an agent whose attempt was replaced runs on. *)
Write(r) ==
  /\ agent[r].at = "running"
  /\ world' = world \cup {agent[r].step}
  /\ UNCHANGED <<execVars, leaseVars, agent, sent, forks, turns, strayVars>>

(* A capture that nobody would accept any more is left out.                *)
CaptureDue(r) ==
  /\ r \in heard /\ agent[r].at = "running" /\ agent[r].due
  /\ agent' = [agent EXCEPT ![r].at = "captured", ![r].ref = world]
  /\ UNCHANGED <<execVars, world, leaseVars, sent, forks, turns, strayVars>>

Reporting == {r \in Runs : agent[r].at \in {"running", "captured"}}

(* CompleteStep and FailStep with the capture the agent took, if any.  The *)
(* fence is CheckLease, which asks no more than the row's latest attempt:  *)
(* an attempt whose dispatch was retired is heard although the attempt of  *)
(* the execution's next dispatch has registered, captured and submitted.   *)
Report(r) ==
  LET a == agent[r] IN
  /\ Room /\ r \in heard \cap Reporting /\ step[a.step] = "executing"
  /\ \E outcome \in {"succeeded", "failed"} :
       /\ outcome = "succeeded" => a.step \in IF a.at = "captured" THEN a.ref ELSE world
       /\ Settle(a.step, outcome,
                 IF a.at = "captured" THEN {[generation |-> a.generation, ref |-> a.ref]} ELSE {})
  /\ agent' = [agent EXCEPT ![r].at = "idle", ![r].step = NoStep, ![r].due = FALSE, ![r].ref = {}]
  /\ strays' = IF Holds(r) THEN strays ELSE strays \cup {a.step}
  /\ overtaken' = (overtaken \/ ~Holds(r))
  /\ UNCHANGED <<world, leaseVars, sent, forks, turns>>

ReportOther(s) ==
  /\ Room /\ step[s] = "executing"
  /\ \E outcome \in {"succeeded", "failed"} : Settle(s, outcome, {})
  /\ UNCHANGED <<world, leaseVars, agent, sent, forks, turns, strayVars>>

(* The next attempt: of the same dispatch when its lease expired, or of a  *)
(* new one when the execution was suspended or parked and queued again,    *)
(* which leaves the retired row with its attempt.  Which of the two it is  *)
(* matters to an attempt that has an outcome to report.                    *)
Redispatch ==
  /\ lease < MaxAttempts
  /\ lease' = lease + 1
  /\ \E last \in SUBSET ({lease} \cap Reporting) :
       heard' = (heard \ {lease}) \cup last \cup {lease + 1}
  /\ agent' = [agent EXCEPT ![lease + 1].at = "starting"]
  /\ UNCHANGED <<execVars, world, sent, forks, turns, strayVars>>

-----------------------------------------------------------------------------
(* Forks and turns *)

OutcomesIn(n) == {log[i].step : i \in {j \in 1..n : log[j].type \in Final}}

(* readForkPrefix: the generation the events up to `at` leave. *)
GenerationAt(at) ==
  LET marks == {i \in 1..at : \/ log[i].type = "initialized"
                              \/ log[i].type = "executing" /\ log[i].generation > 0}
  IN IF marks = {} THEN 0
     ELSE log[CHOOSE i \in marks : \A j \in marks : j <= i].generation

(* copyRecordedSteps: what a fork at `at` copies of the log: registrations, *)
(* restorations and the events of the steps with an outcome by then.        *)
IsCopied(i, at) ==
  \/ log[i].type \in {"registered", "initialized"}
  \/ log[i].step \in OutcomesIn(at)

(* mapSeq: a source boundary becomes the number of events copied up to it. *)
MapSeq(seq, at) == 1 + Cardinality({i \in 1..at : i <= seq /\ IsCopied(i, at)})

CopiedEvents(at) ==
  [k \in 1..MapSeq(at, at) - 1 |->
     log[CHOOSE i \in 1..at : IsCopied(i, at) /\ MapSeq(i, at) = k + 1]]

(* The interval's start left in the numbering of the source.                *)
MapCheckpointWithoutStart(c, at) ==
  [c EXCEPT !.invalidated = IF @ = 0 \/ @ > at THEN 0 ELSE MapSeq(@, at)]

(* Coverage that ended after the fork point ends in the fork, too.          *)
MapCheckpointKeepingEnd(c, at) ==
  [c EXCEPT !.covered = MapSeq(@, at),
            !.invalidated = IF @ = 0 THEN 0 ELSE MapSeq(@, at)]

(* copyResources: checkpoints of the prefix, coverage cut to it, the newest *)
(* where several land on one event.                                         *)
MapCheckpoint(c, at) ==
  [c EXCEPT !.covered = MapSeq(@, at),
            !.invalidated = IF @ = 0 \/ @ > at THEN 0 ELSE MapSeq(@, at)]

PrefixCheckpoints(at) == {c \in checkpoints : c.covered <= at}

(* Every checkpoint of the prefix, however the boundaries map.              *)
CopyEveryCheckpoint(at) == {MapCheckpoint(c, at) : c \in PrefixCheckpoints(at)}

CopiedCheckpoints(at) ==
  {MapCheckpoint(c, at) : c \in
     {d \in PrefixCheckpoints(at) :
        \A e \in PrefixCheckpoints(at) :
          MapSeq(e.covered, at) = MapSeq(d.covered, at) => e.covered <= d.covered}}

CopiedRow(at, copied) ==
  [row EXCEPT
     !.registered = MapSeq(@, at),
     !.generation = GenerationAt(at) + (IF Select(at).covered THEN 0 ELSE 1),
     !.count = Cardinality({s \in copied \cap Affecting : step[s] # "denied"}),
     !.bound = FALSE,
     !.ref = Select(at).ref]

NewExecution(status) ==
  /\ step' = status
  /\ lease' = 1
  /\ heard' = {1}
  /\ agent' = Launched
  /\ sent' = NothingSent
  /\ overtaken' = FALSE

(* ForkExecution at event `at`, under the source's lock.  Steps are copied  *)
(* with the outcome they have.                                              *)
Fork(at) ==
  LET copied == OutcomesIn(at)
      opening == <<Note("opened")>> \o CopiedEvents(at)
  IN
  /\ forks < MaxForks /\ at \in 1..Len(log)
  /\ forks' = forks + 1
  /\ NewExecution([s \in Steps |-> IF s \in copied THEN step[s] ELSE "absent"])
  /\ strays' = strays \cap copied
  /\ world' = {}
  /\ \/ /\ row.registered \in 1..at
        /\ row' = CopiedRow(at, copied)
        /\ checkpoints' = CopiedCheckpoints(at)
        /\ log' = opening
                  \o <<Event("initialized", NoStep, row'.generation, row'.ref)>>
                  \o [i \in 1..Cardinality(checkpoints') |-> Note("checkpointed")]
     \/ /\ row.registered \notin 1..at
        /\ row' = NoRow
        /\ checkpoints' = {}
        /\ log' = opening
  /\ UNCHANGED turns

(* inheritSessionResources: the next turn of the session works in the same  *)
(* environment, with its own generations, counts and checkpoints.  `world`  *)
(* counts the effects of the turn itself.                                   *)
Turn ==
  /\ turns < MaxTurns /\ row.registered > 0
  /\ turns' = turns + 1
  /\ NewExecution([s \in Steps |-> "absent"])
  /\ row' = [row EXCEPT !.registered = 2, !.generation = 0, !.count = 0, !.ref = {}]
  /\ log' = <<Note("opened"), Note("registered")>>
            \o (IF row.bound THEN <<Note("bound")>> ELSE <<>>)
  /\ checkpoints' = {}
  /\ world' = {}
  /\ strays' = {}
  /\ UNCHANGED forks

-----------------------------------------------------------------------------
Next ==
  \/ \E r \in Runs : Register(r) \/ Bind(r) \/ Capture(r) \/ Write(r) \/ CaptureDue(r) \/ Report(r)
  \/ \E r \in Runs, s \in Affecting : Submit(r, s)
  \/ \E r \in Runs, s \in Others : SubmitOther(r, s)
  \/ \E s \in Others : ReportOther(s)
  \/ Publish
  \/ Redispatch
  \/ \E at \in 1..Len(log) : Fork(at)
  \/ Turn

Spec == Init /\ [][Next]_vars

-----------------------------------------------------------------------------
(* Properties *)

(* The environment a boundary stands for starts from what the last          *)
(* restoration before it restored.                                          *)
Restored(seq) ==
  LET marks == {i \in 1..seq : log[i].type = "initialized"}
      last == CHOOSE i \in marks : \A j \in marks : j <= i
  IN IF marks = {} THEN [at |-> 0, ref |-> {}] ELSE [at |-> last, ref |-> log[last].ref]

WithOutcome(seq, outcomes) ==
  Restored(seq).ref \cup
  {log[i].step : i \in {j \in Restored(seq).at + 1 .. seq : log[j].type \in outcomes}}

(* A fork point called covered is: the selected capture holds the effects   *)
(* of every affecting step that had succeeded by that event, and none of a  *)
(* step without an outcome, which the fork would run again.  This needs the *)
(* generations, the refusal of captures beside writers, the lease, and in   *)
(* forks of forks the mapping of every boundary (resource.go, fork.go).     *)
(* Left out are the successes that an attempt reported after another had    *)
(* the lease, which a capture taken before and published after can miss.    *)
CoveredForkMatches ==
  \A seq \in 1..Len(log) :
    row.registered \in 1..seq /\ Select(seq).covered =>
      /\ (WithOutcome(seq, {"succeeded"}) \cap Affecting) \ strays \subseteq Select(seq).ref
      /\ Select(seq).ref \subseteq WithOutcome(seq, {"succeeded", "failed"})

(* The primary key of resource_checkpoints is never violated, so that a     *)
(* capture never fails the outcome or the fork it comes with.               *)
OneCheckpointPerBoundary ==
  \A c, d \in checkpoints : c.covered = d.covered => c = d

(* The count that schedules checkpoints is the number of affecting steps    *)
(* that ran to an outcome, replayed ones of a fork included, denied ones    *)
(* not.                                                                     *)
CountIsSettledSteps ==
  row.count = Cardinality({s \in Affecting : step[s] \in {"succeeded", "failed"}})

(* A fork keeps the coverage of its fork point: forked again before it does *)
(* anything, it selects what its source selected, covered or not, and its   *)
(* agent restores exactly that.                                             *)
ForkKeepsCoverage ==
  [][\A at \in 1..Len(log) :
       Fork(at) /\ row.registered \in 1..at =>
         /\ SelectFrom(checkpoints', Len(log')) = Select(at)
         /\ row'.ref = Select(at).ref]_vars

(* every_steps = N: the agent that holds the lease captures with the        *)
(* outcome that brings the count to a multiple of N and with no other,      *)
(* whatever was restarted or failed before its step, unless the count moved *)
(* under it by the late outcome of an attempt that had the lease before.    *)
CapturesOnSchedule ==
  [][\A r \in Runs :
       Holds(r) /\ ~overtaken /\ Report(r) =>
         (agent[r].due <=> row.every > 0 /\ row'.count % row.every = 0)]_vars

=============================================================================
