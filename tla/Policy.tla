------------------------------- MODULE Policy -------------------------------
(***************************************************************************)
(* The rule engine, the judge and the policy test (internal/policy/        *)
(* engine.go, judge.go, tester.go; kernel/policytest.go), and the history  *)
(* they read: the steps of a session's executions as they are decided,     *)
(* started and settled.                                                    *)
(*                                                                         *)
(* Abstractions.  A glob or a list of a condition is the set of values it  *)
(* accepts, a predicate the set of values it accepts and the argument of   *)
(* the current call it must equal.  Arguments and results are functions    *)
(* from names to values, Absent where the JSON has no such path; a value   *)
(* is a number exactly when ParseFloat takes it.  No two evaluations and   *)
(* starts have the same instant, but the decision is recorded up to MaxLag *)
(* after the evaluation that read the clock.  All executions belong to one *)
(* session; rules with a budget are not in Bundles.                        *)
(***************************************************************************)
EXTENDS Integers, Sequences, FiniteSets, FiniteSetsExt

CONSTANTS
  Executions,   \* of one session
  Calls,        \* what agents submit: [kind, target, args]
  Results,      \* what a tool can return
  Bundles,      \* policy bundles that compile: [rules, default]
  Answers,      \* a judge's reply: tenths per decision, NoJudge or NoReply
  NoJudge, NoReply,
  Absent,       \* no argument, no such path
  MaxSteps,     \* bound: steps of the session
  MaxLag,       \* bound: from an evaluation to its decision event
  MaxTime       \* bound: the last instant

VARIABLES
  bundle,       \* the policy bundle, never changed
  now,
  steps,        \* step rows in the order of their decisions
  decisions     \* the decision events: [step, decision, at], and the clock read

policyVars == <<bundle, now, steps, decisions>>

Never == 0      \* started_at NULL
NoBound == -1   \* at_least or at_most left out
Scopes == {"execution", "session"}
Verdicts == {"deny", "require_approval", "allow"}
Strictness == [deny |-> 3, require_approval |-> 2, allow |-> 1]

-----------------------------------------------------------------------------
(* What compiles.  Rules and history clauses are lists; equals_arg is for  *)
(* history clauses, and only a decision left to the judge configures one.  *)
IsList(entries) == Len(entries) \in Nat /\ DOMAIN entries = 1..Len(entries)

PredicatesCompile(predicates) == \A p \in predicates : p.equalsArg = Absent

ClauseCompiles(c) ==
  /\ c.scope \in Scopes /\ c.within \in Nat
  /\ Absent \in {c.sum, c.distinct}
  /\ NoBound \notin {c.atLeast, c.atMost} => c.atLeast <= c.atMost

RuleCompiles(rule) ==
  /\ rule.then \in Verdicts \cup {"judge"}
  /\ rule.judge.threshold \in 0..10 /\ rule.judge.fallback \in Verdicts \cup {""}
  /\ rule.judge # [threshold |-> 0, fallback |-> ""] => rule.then = "judge"
  /\ PredicatesCompile(rule.when.arguments)
  /\ IsList(rule.history) /\ \A j \in DOMAIN rule.history : ClauseCompiles(rule.history[j])

Compiles(b) ==
  /\ b.default \in {"allow", "deny"}
  /\ IsList(b.rules) /\ \A i \in DOMAIN b.rules : RuleCompiles(b.rules[i])

ASSUME PolicyAssumption ==
  /\ {MaxSteps, MaxLag, MaxTime} \subseteq Nat
  /\ \A b \in Bundles : Compiles(b)
  /\ NoJudge # NoReply
  /\ \A a \in Answers : a \in {NoJudge, NoReply} \/ a \in [Verdicts -> Int]

-----------------------------------------------------------------------------
(* Conditions.                                                             *)

(* current is the call being decided, which equals_arg refers to.          *)
MatchArguments(predicates, args, current) ==
  \A p \in predicates :
    /\ args[p.name] # Absent
    /\ args[p.name] \in p.accepts
    /\ p.equalsArg # Absent => current[p.equalsArg] = args[p.name]

Matches(cond, call, current) ==
  /\ call.target \in cond.targets
  /\ call.kind \in cond.kinds
  /\ MatchArguments(cond.arguments, call.args, current)

Numeric(v) == v \in Nat
Selected(c, known, input) ==
  {s \in known :
     /\ c.within > 0 => s.startedAt # Never /\ s.startedAt >= input.at - c.within
     /\ Matches(c.when, s, input.args)
     /\ c.result # {} =>
          s.status = "succeeded" /\ MatchArguments(c.result, s.result, input.args)}

(* The step being decided counts unless the clause looks at results.       *)
Counted(c, known, input) ==
  Selected(c, known, input) \cup
    IF c.result = {} /\ Matches(c.when, input, input.args) THEN {input} ELSE {}

Value(c, counted) ==
  CASE c.sum # Absent -> MapThenSumSet(LAMBDA s : s.args[c.sum], counted)
    [] c.distinct # Absent -> Cardinality({s.args[c.distinct] : s \in counted} \ {Absent})
    [] OTHER -> Cardinality(counted)

(* at_least is 1 when a clause names neither bound.                        *)
AtLeast(c) == IF c.atLeast = NoBound /\ c.atMost = NoBound THEN 1 ELSE c.atLeast

MatchClause(c, known, input) ==
  LET counted == Counted(c, known, input)
      value == Value(c, counted)
  IN /\ c.sum # Absent => \A s \in counted : Numeric(s.args[c.sum])
     /\ value >= AtLeast(c)
     /\ c.atMost # NoBound => value <= c.atMost

Windows(b, scope) ==
  UNION {{b.rules[i].history[j].within :
            j \in {k \in DOMAIN b.rules[i].history : b.rules[i].history[k].scope = scope}} :
         i \in DOMAIN b.rules}

(* The widest of the numbers, a whole scope being the narrowest.           *)
LookbackWidest(b, scope) == Max(Windows(b, scope))

(* The widest window of a scope's clauses; 0 reads the whole scope.        *)
Lookback(b, scope) ==
  LET windows == Windows(b, scope) IN IF 0 \in windows THEN 0 ELSE Max(windows)

(* One read per scope, with the widest window whichever clause asks first. *)
Load(b, scope, known, input) ==
  LET window == Lookback(b, scope)
  IN {s \in known :
        /\ window > 0 => s.startedAt >= input.at - window
        /\ scope = "execution" => s.exec = input.exec}

(* A clause whose history cannot be read counted as one that fails.        *)
MatchAllIgnoringErrors(b, rule, known, unreadable, input) ==
  IF \A j \in DOMAIN rule.history :
       LET c == rule.history[j]
       IN c.scope \notin unreadable /\ MatchClause(c, Load(b, c.scope, known, input), input)
  THEN "match" ELSE "no"

(* Clauses are tried in order; unreadable is the set of scopes whose read  *)
(* fails, and a read that fails ends the rule before its later clauses.    *)
MatchAll(b, rule, known, unreadable, input) ==
  LET fails(c) == c.scope \in unreadable
      stops == {j \in DOMAIN rule.history :
                  LET c == rule.history[j]
                  IN fails(c) \/ ~MatchClause(c, Load(b, c.scope, known, input), input)}
  IN IF stops = {} THEN "match"
     ELSE IF fails(rule.history[Min(stops)]) THEN "error" ELSE "no"

-----------------------------------------------------------------------------
(* Of two equally probable decisions the weaker one.                       *)
MostProbableWeakly(answer) ==
  CHOOSE d \in Verdicts :
    \A x \in Verdicts \ {d} :
      \/ answer[d] > answer[x]
      \/ answer[d] = answer[x] /\ Strictness[d] < Strictness[x]

(* The judge of a rule, [threshold, fallback], 0 and "" where unset, in    *)
(* tenths: the most probable decision, the stricter one of two equally     *)
(* probable ones, if it reaches the threshold.                             *)
DefaultThreshold == 6
Threshold(cfg) == IF cfg.threshold = 0 THEN DefaultThreshold ELSE cfg.threshold
Fallback(cfg) == IF cfg.fallback = "" THEN "require_approval" ELSE cfg.fallback
MostProbable(answer) ==
  CHOOSE d \in Verdicts :
    \A x \in Verdicts \ {d} :
      \/ answer[d] > answer[x]
      \/ answer[d] = answer[x] /\ Strictness[d] > Strictness[x]
Judge(cfg, answer) ==
  CASE answer = NoJudge -> "deny"
    [] answer = NoReply -> Fallback(cfg)
    [] OTHER ->
         LET top == MostProbable(answer)
         IN IF answer[top] < Threshold(cfg) THEN Fallback(cfg) ELSE top

Verdict(rule, answer) == IF rule.then = "judge" THEN Judge(rule.judge, answer) ELSE rule.then

(* The first rule that matches, or cannot tell whether it does, decides.   *)
Evaluate(b, input, known, unreadable, answer) ==
  LET outcome(i) == IF Matches(b.rules[i].when, input, input.args)
                    THEN MatchAll(b, b.rules[i], known, unreadable, input) ELSE "no"
      firing == {i \in DOMAIN b.rules : outcome(i) # "no"}
      rule == b.rules[Min(firing)]
  IN IF firing = {} THEN IF input.kind = "local" THEN "allow" ELSE b.default
     ELSE IF outcome(Min(firing)) = "error" THEN "deny"
     ELSE Verdict(rule, answer)

-----------------------------------------------------------------------------
(* The session's steps.  A call is decided under its execution's lock.     *)
Input(e, c, at) == [exec |-> e, kind |-> c.kind, target |-> c.target, args |-> c.args, at |-> at]
Known == {steps[i] : i \in DOMAIN steps}
AllowedSteps == {s \in Known : s.startedAt # Never}
Row(e, c, status, at) ==
  [id |-> Len(steps) + 1, exec |-> e, kind |-> c.kind, target |-> c.target, args |-> c.args,
   status |-> status, startedAt |-> at, result |-> [n \in DOMAIN c.args |-> Absent]]
Decision(i, verdict, read, at) == [step |-> i, decision |-> verdict, read |-> read, at |-> at]

PolicyInit ==
  /\ bundle \in Bundles
  /\ now = 1
  /\ steps = <<>>
  /\ decisions = <<>>

(* The judge, the limiter and the row locks come between read and at.      *)
Submit(e, c, answer, at) ==
  LET verdict == Evaluate(bundle, Input(e, c, now), AllowedSteps, {}, answer)
  IN /\ at \in now .. now + MaxLag /\ at < MaxTime /\ Len(steps) < MaxSteps
     /\ steps' = Append(steps,
          CASE verdict = "allow" -> Row(e, c, "executing", at)
            [] verdict = "deny" -> Row(e, c, "denied", Never)
            [] OTHER -> Row(e, c, "awaiting_approval", Never))
     /\ decisions' = Append(decisions, Decision(Len(steps) + 1, verdict, now, at))
     /\ now' = at + 1
     /\ UNCHANGED bundle

(* Granting or refusing an approval writes a second decision event.        *)
Resolve(i, verdict) ==
  /\ steps[i].status = "awaiting_approval"
  /\ steps' = [steps EXCEPT ![i].status = IF verdict = "allow" THEN "allowed" ELSE "denied"]
  /\ decisions' = Append(decisions, Decision(i, verdict, now, now))
  /\ UNCHANGED <<bundle, now>>

(* The resumed agent submits the allowed step again.                       *)
Start(i) ==
  /\ steps[i].status = "allowed" /\ now < MaxTime
  /\ steps' = [steps EXCEPT ![i].status = "executing", ![i].startedAt = now]
  /\ now' = now + 1
  /\ UNCHANGED <<bundle, decisions>>

SettleStep(i) ==
  /\ steps[i].status = "executing"
  /\ \/ \E r \in Results : steps' = [steps EXCEPT ![i].status = "succeeded", ![i].result = r]
     \/ steps' = [steps EXCEPT ![i].status = "failed"]
  /\ UNCHANGED <<bundle, now, decisions>>

PassTime ==
  /\ now < MaxTime
  /\ now' = now + 1
  /\ UNCHANGED <<bundle, steps, decisions>>

PolicyNext ==
  \/ \E e \in Executions, c \in Calls, answer \in Answers, at \in 1..MaxTime :
       Submit(e, c, answer, at)
  \/ \E i \in DOMAIN steps :
       \/ \E v \in {"allow", "deny"} : Resolve(i, v)
       \/ Start(i)
       \/ SettleStep(i)
  \/ PassTime

PolicySpec == PolicyInit /\ [][PolicyNext]_policyVars

-----------------------------------------------------------------------------
(* The decision an approval left behind.                                   *)
LastDecision(i) ==
  LET about == {k \in DOMAIN decisions : decisions[k].step = i}
  IN decisions[Max(about)]

(* The policy test: recorded steps become cases, each with the first of    *)
(* its decision events and the allowed steps that had started by then.     *)
FirstDecision(i) ==
  LET about == {k \in DOMAIN decisions : decisions[k].step = i}
  IN decisions[Min(about)]

CaseHistory(i) ==
  {s \in AllowedSteps : s.id # i /\ s.startedAt <= FirstDecision(i).at}
ReplayCase(i) == Input(steps[i].exec, steps[i], FirstDecision(i).at)
Replay(b, i) == Evaluate(b, ReplayCase(i), CaseHistory(i), {}, NoJudge)
Passes(b, i) == Replay(b, i) = FirstDecision(i).decision

-----------------------------------------------------------------------------
(* A judge is asked anew, and a clause about results sees what a step has  *)
(* returned by now: bundles with either may replay differently.            *)
Repeatable(b) ==
  \A i \in DOMAIN b.rules :
    /\ b.rules[i].then # "judge"
    /\ \A j \in DOMAIN b.rules[i].history : b.rules[i].history[j].result = {}

(* A step left a window between the evaluation and its event, from which   *)
(* the replay takes its clock.                                             *)
WindowMoved(b, i) ==
  \E scope \in Scopes, s \in CaseHistory(i) :
    \E w \in Windows(b, scope) \ {0} :
      s.startedAt \in FirstDecision(i).read - w .. FirstDecision(i).at - w - 1

(* Replaying recorded steps through the bundle that decided them fails no  *)
(* case, but at the edge of a window: every other step gets the decision   *)
(* it was recorded with, whatever was submitted, approved, started or      *)
(* settled since.                                                          *)
ReplayReproduces ==
  Repeatable(bundle) =>
    \A i \in DOMAIN steps :
      Passes(bundle, i) \/ WindowMoved(bundle, i)

(* The rule that the whole history would choose.                           *)
WholeHistory(b, scope, known, input) == {s \in known : scope = "execution" => s.exec = input.exec}
ReferenceRule(b, input) ==
  {i \in DOMAIN b.rules :
     /\ Matches(b.rules[i].when, input, input.args)
     /\ \A j \in DOMAIN b.rules[i].history :
          LET c == b.rules[i].history[j]
          IN MatchClause(c, WholeHistory(b, c.scope, AllowedSteps, input), input)}

(* Reading one window per scope hides no step from any clause: the         *)
(* decision is the one that the whole history would give.                  *)
LookbackLosesNothing ==
  \A e \in Executions, c \in Calls :
    LET input == Input(e, c, now)
        rules == ReferenceRule(bundle, input)
        verdict == Evaluate(bundle, input, AllowedSteps, {}, NoReply)
    IN verdict = IF rules # {} THEN Verdict(bundle.rules[Min(rules)], NoReply)
                 ELSE IF c.kind = "local" THEN "allow" ELSE bundle.default

(* A history that cannot be read leaves the decision or denies, it never   *)
(* lets a later and weaker rule decide.                                    *)
FailureOnlyTightens ==
  \A e \in Executions, c \in Calls, u \in SUBSET Scopes \ {{}} :
    LET input == Input(e, c, now)
        verdict == Evaluate(bundle, input, AllowedSteps, u, NoJudge)
    IN verdict # "deny" => verdict = Evaluate(bundle, input, AllowedSteps, {}, NoJudge)

(* The judge never takes a decision while a stricter one is as probable,   *)
(* and takes none below the threshold; otherwise the rule's fallback.      *)
JudgeLeansStrict ==
  \A i \in DOMAIN bundle.rules, a \in Answers \ {NoJudge, NoReply} :
    LET cfg == bundle.rules[i].judge
        d == Verdict(bundle.rules[i], a)
        reached == {x \in Verdicts : a[x] >= Threshold(cfg)}
    IN bundle.rules[i].then = "judge" =>
       IF reached = {} THEN d = Fallback(cfg)
       ELSE /\ d \in reached
            /\ \A x \in reached : a[x] >= a[d] => Strictness[x] <= Strictness[d]
=============================================================================
