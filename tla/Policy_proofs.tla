----------------------------- MODULE Policy_proofs -----------------------------
(***************************************************************************)
(* Proofs about Policy, for every set of calls, every bundle that compiles *)
(* and sessions of any length, and about BundleCache, for every set of     *)
(* agents, submissions and bundle texts and every capacity.                *)
(***************************************************************************)
EXTENDS Policy, BundleCache, FiniteSetTheorems, SequenceTheorems, WellFoundedInduction, TLAPS

StepRows ==
  [id : Nat, exec : Executions, kind : {c.kind : c \in Calls},
   target : {c.target : c \in Calls}, args : {c.args : c \in Calls},
   status : {"executing", "denied", "awaiting_approval", "allowed", "succeeded", "failed"},
   startedAt : Nat, result : Results \cup {[n \in DOMAIN c.args |-> Absent] : c \in Calls}]
DecisionEvents == [step : Nat, decision : Verdicts, read : Nat, at : Nat]

PolicyTypeOK ==
  /\ bundle \in Bundles
  /\ now \in Nat
  /\ steps \in Seq(StepRows)
  /\ decisions \in Seq(DecisionEvents)

-----------------------------------------------------------------------------
(* Least and greatest elements, and what is finite                          *)

(* Min of a set of naturals that is not empty is its least element. *)
LEMMA MinIsLeast ==
  ASSUME NEW K \in SUBSET Nat, K # {}
  PROVE  Min(K) \in K /\ \A j \in K : Min(K) <= j
<1>1. IsWellFoundedOn({ss \in Nat \X Nat : ss[1] < ss[2]}, Nat)
  BY NatLessThanWellFounded DEF OpToRel
<1>2. PICK m \in K : \A j \in K : ~ (<<j, m>> \in {ss \in Nat \X Nat : ss[1] < ss[2]})
  BY <1>1, WFMin
<1>3. \A j \in K : m <= j
  <2>1. \A j \in K : ~(j < m) BY <1>2
  <2> QED BY <2>1
<1>4. \E x \in K : \A y \in K : x =< y
  BY <1>3
<1> QED BY <1>4 DEF Min

(* Max of a finite one is its greatest. *)
LEMMA MaxIsGreatest ==
  ASSUME NEW K \in SUBSET Nat, K # {}, IsFiniteSet(K)
  PROVE  Max(K) \in K /\ \A j \in K : j <= Max(K)
<1> DEFINE HasMax(L) == \E x \in L : \A y \in L : x >= y
           Bad == {n \in Nat : \E L \in SUBSET K : L # {} /\ Cardinality(L) = n /\ ~HasMax(L)}
<1>1. Bad = {}
  <2>1. SUFFICES ASSUME Bad # {} PROVE FALSE
    OBVIOUS
  <2>2. Bad \in SUBSET Nat
    OBVIOUS
  <2>3. PICK n \in Bad : \A j \in Bad : n <= j
    <3> HIDE DEF Bad
    <3> QED BY <2>1, <2>2, MinIsLeast
  <2>4. PICK L \in SUBSET K : L # {} /\ Cardinality(L) = n /\ ~HasMax(L)
    BY <2>3
  <2>5. PICK x \in L : TRUE
    BY <2>4
  <2>6. IsFiniteSet(L)
    BY FS_Subset
  <2>7. /\ IsFiniteSet(L \ {x}) /\ Cardinality(L \ {x}) = n - 1
        /\ Cardinality(L \ {x}) \in Nat
    BY <2>4, <2>6, FS_RemoveElement, FS_CardinalityType
  <2>8. L \ {x} # {}
    <3>1. ASSUME L \ {x} = {} PROVE HasMax(L)
      <4>1. L = {x} BY <3>1
      <4>2. x >= x OBVIOUS
      <4> QED BY <4>1, <4>2
    <3> HIDE DEF HasMax
    <3> QED BY <3>1, <2>4
  <2>9. HasMax(L \ {x})
    <3>1. ASSUME ~HasMax(L \ {x}) PROVE FALSE
      <4>1. n - 1 \in Bad
        <5> HIDE DEF HasMax
        <5> QED BY <3>1, <2>7, <2>8
      <4>2. n \in Nat BY <2>2
      <4> HIDE DEF Bad
      <4> QED BY <4>1, <4>2, <2>3
    <3> QED BY <3>1
  <2>10. PICK m \in L \ {x} : \A y \in L \ {x} : m >= y
    BY <2>9
  <2>11. HasMax(L)
    <3>1. L \in SUBSET Nat /\ m \in Nat /\ x \in Nat OBVIOUS
    <3>2. CASE m >= x
      <4>1. \A y \in L : m >= y BY <3>1, <3>2, <2>10
      <4> QED BY <4>1
    <3>3. CASE x >= m
      <4>1. \A y \in L : x >= y BY <3>1, <3>3, <2>10
      <4> QED BY <4>1
    <3> QED BY <3>1, <3>2, <3>3
  <2> HIDE DEF HasMax
  <2> QED BY <2>4, <2>11
<1>2. HasMax(K)
  <2>1. Cardinality(K) \in Nat BY FS_CardinalityType
  <2> HIDE DEF HasMax
  <2> QED BY <1>1, <2>1
<1>3. Max(K) \in K /\ \A y \in K : Max(K) >= y
  BY <1>2 DEF Max
<1> QED BY <1>3

(* The windows of a bundle are finitely many naturals. *)
LEMMA WindowsFinite ==
  ASSUME NEW b \in Bundles, NEW scope
  PROVE  Windows(b, scope) \in SUBSET Nat /\ IsFiniteSet(Windows(b, scope))
<1> DEFINE Of(i) == {k \in DOMAIN b.rules[i].history : b.rules[i].history[k].scope = scope}
           W(i) == {b.rules[i].history[j].within : j \in Of(i)}
<1>1. /\ IsList(b.rules)
      /\ \A i \in DOMAIN b.rules :
           /\ IsList(b.rules[i].history)
           /\ \A j \in DOMAIN b.rules[i].history : b.rules[i].history[j].within \in Nat
  BY PolicyAssumption DEF Compiles, RuleCompiles, ClauseCompiles
<1>2. \A i \in DOMAIN b.rules : W(i) \in SUBSET Nat
  BY <1>1
<1>3. ASSUME NEW i \in DOMAIN b.rules PROVE IsFiniteSet(W(i))
  <2>1. IsFiniteSet(DOMAIN b.rules[i].history)
    <3>1. PICK h : h = b.rules[i].history OBVIOUS
    <3>2. IsList(h) BY <1>1, <3>1
    <3>3. IsFiniteSet(1..Len(h)) BY <3>2, FS_Interval DEF IsList
    <3> QED BY <3>1, <3>2, <3>3 DEF IsList
  <2>2. IsFiniteSet(Of(i))
    <3>1. Of(i) \in SUBSET DOMAIN b.rules[i].history OBVIOUS
    <3> HIDE DEF Of
    <3> QED BY <2>1, <3>1, FS_Subset
  <2> DEFINE f == [j \in Of(i) |-> b.rules[i].history[j].within]
  <2>3. f \in Surjection(Of(i), W(i))
    BY DEF Surjection
  <2> HIDE DEF f, Of, W
  <2> QED BY <2>2, <2>3, FS_Surjection
<1>4. IsFiniteSet(DOMAIN b.rules)
  BY <1>1, FS_Interval DEF IsList
<1> DEFINE all == {W(i) : i \in DOMAIN b.rules}
           g == [i \in DOMAIN b.rules |-> W(i)]
<1>5. g \in Surjection(DOMAIN b.rules, all)
  <2> HIDE DEF W
  <2> QED BY DEF Surjection
<1>6. IsFiniteSet(all)
  <2> HIDE DEF g, all
  <2> QED BY <1>4, <1>5, FS_Surjection
<1>7. \A T \in all : IsFiniteSet(T)
  <2> HIDE DEF W
  <2> QED BY <1>3
<1>8. IsFiniteSet(UNION all)
  <2> HIDE DEF all
  <2> QED BY <1>6, <1>7, FS_UNION
<1>9. UNION all \in SUBSET Nat
  <2> HIDE DEF W
  <2> QED BY <1>2
<1>10. Windows(b, scope) = UNION all
  BY DEF Windows
<1> QED
  <2> HIDE DEF all
  <2> QED BY <1>8, <1>9, <1>10

-----------------------------------------------------------------------------
(* Failing reads                                                            *)

Outcome(b, i, known, unreadable, input) ==
  IF Matches(b.rules[i].when, input, input.args)
  THEN MatchAll(b, b.rules[i], known, unreadable, input) ELSE "no"

Firing(b, known, unreadable, input) ==
  {i \in DOMAIN b.rules : Outcome(b, i, known, unreadable, input) # "no"}

(* Evaluate in terms of what each rule comes to. *)
LEMMA EvaluateIs ==
  ASSUME NEW b, NEW input, NEW known, NEW unreadable, NEW answer
  PROVE  Evaluate(b, input, known, unreadable, answer) =
           LET firing == Firing(b, known, unreadable, input)
           IN IF firing = {} THEN IF input.kind = "local" THEN "allow" ELSE b.default
              ELSE IF Outcome(b, Min(firing), known, unreadable, input) = "error" THEN "deny"
              ELSE Verdict(b.rules[Min(firing)], answer)
BY DEF Evaluate, Firing, Outcome

(* A rule comes to an error, or to what it does with every scope readable. *)
LEMMA OutcomeOrError ==
  ASSUME NEW b \in Bundles, NEW i \in DOMAIN b.rules, NEW input, NEW known, NEW unreadable
  PROVE  /\ Outcome(b, i, known, {}, input) \in {"match", "no"}
         /\ \/ Outcome(b, i, known, unreadable, input) = "error"
            \/ Outcome(b, i, known, unreadable, input) = Outcome(b, i, known, {}, input)
<1> DEFINE rule == b.rules[i]
           Fails(j, u) == rule.history[j].scope \in u
           Unmet(j) == ~MatchClause(rule.history[j],
                                    Load(b, rule.history[j].scope, known, input), input)
           Stops(u) == {j \in DOMAIN rule.history : Fails(j, u) \/ Unmet(j)}
<1>1. DOMAIN rule.history \in SUBSET Nat
  <2>1. PICK h : h = rule.history OBVIOUS
  <2>2. IsList(h) BY <2>1, PolicyAssumption DEF Compiles, RuleCompiles
  <2> QED BY <2>1, <2>2 DEF IsList
<1>2. \A u : MatchAll(b, rule, known, u, input) =
        IF Stops(u) = {} THEN "match" ELSE IF Fails(Min(Stops(u)), u) THEN "error" ELSE "no"
  BY DEF MatchAll
<1>3. \A j : ~Fails(j, {})
  OBVIOUS
<1>4. Stops({}) \subseteq Stops(unreadable)
  OBVIOUS
<1>5. \A j \in Stops(unreadable) : ~Fails(j, unreadable) => j \in Stops({})
  OBVIOUS
<1>6. Stops(unreadable) # {} => Min(Stops(unreadable)) \in Stops(unreadable)
  <2>1. Stops(unreadable) \in SUBSET Nat BY <1>1
  <2> HIDE DEF Stops
  <2> QED BY <2>1, MinIsLeast
<1> HIDE DEF Stops, Fails, rule
<1>7. MatchAll(b, rule, known, {}, input) \in {"match", "no"}
  BY <1>2, <1>3
<1>8. \/ MatchAll(b, rule, known, unreadable, input) = "error"
      \/ MatchAll(b, rule, known, unreadable, input) = MatchAll(b, rule, known, {}, input)
  BY <1>2, <1>3, <1>4, <1>5, <1>6
<1> QED BY <1>7, <1>8 DEF Outcome, rule

(* Whatever cannot be read: a decision other than a denial is the one that  *)
(* reading everything gives.                                                *)
LEMMA UnreadableTightens ==
  ASSUME NEW b \in Bundles, NEW input, NEW known, NEW unreadable, NEW answer,
         Evaluate(b, input, known, unreadable, answer) # "deny"
  PROVE  Evaluate(b, input, known, unreadable, answer) = Evaluate(b, input, known, {}, answer)
<1> DEFINE some == Firing(b, known, unreadable, input)
           all == Firing(b, known, {}, input)
<1>1. some \in SUBSET Nat /\ all \in SUBSET Nat
  BY PolicyAssumption DEF Compiles, IsList, Firing
<1>2. all \subseteq some
  BY OutcomeOrError DEF Firing
<1>3. CASE some = {}
  BY <1>2, <1>3, EvaluateIs
<1>4. CASE some # {}
  <2>1. Min(some) \in some /\ \A j \in some : Min(some) <= j
    <3> HIDE DEF some
    <3> QED BY <1>1, <1>4, MinIsLeast
  <2>2. Outcome(b, Min(some), known, unreadable, input) # "error"
    BY <1>4, EvaluateIs
  <2>3. Outcome(b, Min(some), known, unreadable, input) = Outcome(b, Min(some), known, {}, input)
    BY <2>1, <2>2, OutcomeOrError DEF Firing
  <2>4. Min(some) \in all
    BY <2>1, <2>3 DEF Firing
  <2>5. Min(all) \in all /\ \A j \in all : Min(all) <= j
    <3> HIDE DEF all
    <3> QED BY <1>1, <2>4, MinIsLeast
  <2>6. Min(all) = Min(some)
    <3>1. Min(some) <= Min(all) /\ Min(all) <= Min(some)
      BY <1>2, <2>1, <2>4, <2>5
    <3>2. Min(some) \in Nat /\ Min(all) \in Nat BY <1>1, <2>1, <2>5
    <3> HIDE DEF some, all
    <3> QED BY <3>1, <3>2
  <2>7. all # {} BY <2>4
  <2> HIDE DEF some, all
  <2>8. Evaluate(b, input, known, unreadable, answer) = Verdict(b.rules[Min(some)], answer)
    BY <1>4, <2>2, EvaluateIs DEF some
  <2>9. Evaluate(b, input, known, {}, answer) = Verdict(b.rules[Min(all)], answer)
    BY <2>2, <2>3, <2>6, <2>7, EvaluateIs DEF all
  <2> QED BY <2>6, <2>8, <2>9
<1> QED BY <1>3, <1>4

-----------------------------------------------------------------------------
(* The judge                                                                *)

(* The most probable decision is one, as probable as any and stricter than  *)
(* the others that are as probable.                                         *)
LEMMA MostProbableIs ==
  ASSUME NEW a \in [Verdicts -> Int]
  PROVE  /\ MostProbable(a) \in Verdicts
         /\ \A x \in Verdicts \ {MostProbable(a)} :
              \/ a[MostProbable(a)] > a[x]
              \/ a[MostProbable(a)] = a[x] /\ Strictness[MostProbable(a)] > Strictness[x]
<1> DEFINE Beats(d, x) == \/ a[d] > a[x]
                          \/ a[d] = a[x] /\ Strictness[d] > Strictness[x]
<1>1. /\ Strictness["deny"] = 3 /\ Strictness["require_approval"] = 2
      /\ Strictness["allow"] = 1
  BY DEF Strictness
<1>2. /\ a["deny"] \in Int /\ a["require_approval"] \in Int /\ a["allow"] \in Int
  BY DEF Verdicts
<1>3. \E d \in Verdicts : \A x \in Verdicts \ {d} : Beats(d, x)
  <2>1. CASE a["deny"] >= a["require_approval"] /\ a["deny"] >= a["allow"]
    BY <1>1, <1>2, <2>1 DEF Verdicts
  <2>2. CASE a["require_approval"] > a["deny"] /\ a["require_approval"] >= a["allow"]
    <3>1. Beats("require_approval", "deny") /\ Beats("require_approval", "allow")
      BY <1>1, <1>2, <2>2
    <3> HIDE DEF Beats
    <3>2. \A x \in Verdicts \ {"require_approval"} : Beats("require_approval", x)
      BY <3>1 DEF Verdicts
    <3> QED BY <3>2 DEF Verdicts
  <2>3. CASE a["allow"] > a["deny"] /\ a["allow"] > a["require_approval"]
    <3>1. Beats("allow", "deny") /\ Beats("allow", "require_approval")
      BY <1>1, <1>2, <2>3
    <3> HIDE DEF Beats
    <3>2. \A x \in Verdicts \ {"allow"} : Beats("allow", x)
      BY <3>1 DEF Verdicts
    <3> QED BY <3>2 DEF Verdicts
  <2> QED BY <1>2, <2>1, <2>2, <2>3
<1> QED BY <1>3 DEF MostProbable

(* A rule's threshold, fallback and verdict are what they should be. *)
LEMMA VerdictTyped ==
  ASSUME NEW b \in Bundles, NEW i \in DOMAIN b.rules, NEW answer \in Answers
  PROVE  /\ Threshold(b.rules[i].judge) \in Int
         /\ Verdict(b.rules[i], answer) \in Verdicts
<1> PICK rule : rule = b.rules[i] OBVIOUS
<1>1. RuleCompiles(rule)
  BY PolicyAssumption DEF Compiles
<1> PICK cfg : cfg = rule.judge OBVIOUS
<1>2. rule.then \in Verdicts \cup {"judge"} /\ cfg.threshold \in 0..10
  BY <1>1 DEF RuleCompiles
<1>3. Threshold(rule.judge) \in Int
  <2>1. PICK t : t = cfg.threshold OBVIOUS
  <2>2. t \in Int BY <1>2, <2>1
  <2> QED BY <2>1, <2>2 DEF Threshold, DefaultThreshold
<1>4. Fallback(rule.judge) \in Verdicts
  <2>1. "require_approval" \in Verdicts BY DEF Verdicts
  <2>2. cfg.fallback \in Verdicts \/ cfg.fallback = "" BY <1>1 DEF RuleCompiles
  <2> QED BY <2>1, <2>2 DEF Fallback
<1>5. Judge(rule.judge, answer) \in Verdicts
  <2>1. CASE answer = NoJudge
    <3>1. Judge(rule.judge, answer) = "deny" BY <2>1, PolicyAssumption DEF Judge
    <3> QED BY <3>1 DEF Verdicts
  <2>2. CASE answer # NoJudge /\ answer = NoReply BY <1>4, <2>2 DEF Judge
  <2>3. CASE answer # NoJudge /\ answer # NoReply
    <3>1. MostProbable(answer) \in Verdicts
      BY <2>3, PolicyAssumption, MostProbableIs
    <3> QED BY <1>4, <2>3, <3>1 DEF Judge
  <2> QED BY <2>1, <2>2, <2>3
<1> QED BY <1>2, <1>3, <1>5 DEF Verdict

(* Whatever the judge answers: no decision while a stricter one is as       *)
(* probable, and none below the threshold.                                  *)
LEMMA JudgeIsStrict ==
  ASSUME NEW b \in Bundles, NEW i \in DOMAIN b.rules, b.rules[i].then = "judge",
         NEW a \in Answers \ {NoJudge, NoReply}
  PROVE  LET cfg == b.rules[i].judge
             d == Verdict(b.rules[i], a)
             reached == {x \in Verdicts : a[x] >= Threshold(cfg)}
         IN IF reached = {} THEN d = Fallback(cfg)
            ELSE /\ d \in reached
                 /\ \A x \in reached : a[x] >= a[d] => Strictness[x] <= Strictness[d]
<1> DEFINE cfg == b.rules[i].judge
           d == Verdict(b.rules[i], a)
           top == MostProbable(a)
           reached == {x \in Verdicts : a[x] >= Threshold(cfg)}
<1>1. a \in [Verdicts -> Int] /\ Threshold(cfg) \in Int
  BY PolicyAssumption, VerdictTyped
<1>2. /\ top \in Verdicts
      /\ \A x \in Verdicts \ {top} :
           \/ a[top] > a[x]
           \/ a[top] = a[x] /\ Strictness[top] > Strictness[x]
  <2>1. a \in [Verdicts -> Int] BY <1>1
  <2> HIDE DEF cfg
  <2> QED BY <2>1, MostProbableIs
<1>3. d = IF a[top] < Threshold(cfg) THEN Fallback(cfg) ELSE top
  BY DEF Verdict, Judge
<1>4. \A x \in Verdicts : a[x] \in Int /\ Strictness[x] \in Int
  BY <1>1 DEF Verdicts, Strictness
<1> HIDE DEF cfg, d, top
<1>5. CASE a[top] < Threshold(cfg)
  <2>1. \A x \in Verdicts : a[x] <= a[top] BY <1>2, <1>4
  <2>2. reached = {} BY <1>1, <1>2, <1>4, <1>5, <2>1
  <2> QED BY <1>3, <1>5, <2>2 DEF cfg, d
<1>6. CASE ~(a[top] < Threshold(cfg))
  <2>1. d = top BY <1>3, <1>6
  <2>2. top \in reached BY <1>1, <1>2, <1>4, <1>6
  <2>3. ASSUME NEW x \in reached, a[x] >= a[top] PROVE Strictness[x] <= Strictness[top]
    BY <1>2, <1>4, <2>3
  <2> QED BY <2>1, <2>2, <2>3 DEF cfg, d
<1> QED BY <1>5, <1>6

(* Every evaluation ends in one of the three decisions. *)
LEMMA EvaluateTyped ==
  ASSUME NEW b \in Bundles, NEW input, NEW known, NEW unreadable, NEW answer \in Answers
  PROVE  Evaluate(b, input, known, unreadable, answer) \in Verdicts
<1> DEFINE firing == Firing(b, known, unreadable, input)
<1>1. firing \in SUBSET Nat /\ firing \subseteq DOMAIN b.rules
  BY PolicyAssumption DEF Compiles, IsList, Firing
<1>2. firing # {} => Min(firing) \in DOMAIN b.rules
  <2> HIDE DEF firing
  <2> QED BY <1>1, MinIsLeast
<1>3. firing # {} => Verdict(b.rules[Min(firing)], answer) \in Verdicts
  BY <1>2, VerdictTyped
<1>4. b.default \in Verdicts
  BY PolicyAssumption DEF Compiles, Verdicts
<1>5. {"allow", "deny"} \subseteq Verdicts
  BY DEF Verdicts
<1> QED BY <1>3, <1>4, <1>5, EvaluateIs

-----------------------------------------------------------------------------
(* One read per scope                                                       *)

(* The widest window of a scope reaches back as far as any clause of it. *)
LEMMA LookbackIsWidest ==
  ASSUME NEW b \in Bundles, NEW scope, NEW w \in Windows(b, scope)
  PROVE  /\ Lookback(b, scope) \in Nat /\ w \in Nat
         /\ Lookback(b, scope) > 0 => w > 0 /\ w <= Lookback(b, scope)
<1> DEFINE windows == Windows(b, scope)
<1>1. windows \in SUBSET Nat /\ IsFiniteSet(windows) /\ windows # {}
  BY WindowsFinite
<1>2. Max(windows) \in windows /\ \A j \in windows : j <= Max(windows)
  BY <1>1, MaxIsGreatest
<1>3. Lookback(b, scope) = IF 0 \in windows THEN 0 ELSE Max(windows)
  BY DEF Lookback
<1> HIDE DEF windows
<1>4. w \in windows /\ w \in Nat BY <1>1 DEF windows
<1> PICK m : m = Max(windows) OBVIOUS
<1>5. m \in Nat /\ w <= m BY <1>1, <1>2, <1>4
<1>6. CASE 0 \in windows BY <1>3, <1>4, <1>6
<1>7. CASE 0 \notin windows
  <2>1. Lookback(b, scope) = m /\ w > 0 BY <1>3, <1>4, <1>7
  <2> QED BY <2>1, <1>4, <1>5
<1> QED BY <1>6, <1>7

(* A clause selects the same steps from the one read and from everything. *)
LEMMA OneReadIsEnough ==
  ASSUME NEW b \in Bundles, NEW i \in DOMAIN b.rules, NEW j \in DOMAIN b.rules[i].history,
         NEW input, input.at \in Nat,
         NEW known, \A s \in known : s.startedAt \in Nat /\ s.startedAt # Never
  PROVE  LET c == b.rules[i].history[j] IN
         Selected(c, Load(b, c.scope, known, input), input) =
           Selected(c, WholeHistory(b, c.scope, known, input), input)
<1> DEFINE c == b.rules[i].history[j]
           window == Lookback(b, c.scope)
<1>1. c.within \in Windows(b, c.scope)
  BY DEF Windows
<1>2. /\ window \in Nat /\ c.within \in Nat
      /\ window > 0 => c.within > 0 /\ c.within <= window
  BY <1>1, LookbackIsWidest
<1> HIDE DEF window
<1>3. Load(b, c.scope, known, input) =
        {s \in WholeHistory(b, c.scope, known, input) :
           window > 0 => s.startedAt >= input.at - window}
  BY DEF Load, WholeHistory, window
<1> HIDE DEF c
<1>4. ASSUME NEW s \in Selected(c, WholeHistory(b, c.scope, known, input), input)
      PROVE  window > 0 => s.startedAt >= input.at - window
  <2>1. s.startedAt \in Nat
    BY DEF Selected, WholeHistory
  <2>2. c.within > 0 => s.startedAt >= input.at - c.within
    BY DEF Selected
  <2> QED BY <1>2, <2>1, <2>2
<1>5. Selected(c, Load(b, c.scope, known, input), input)
        \subseteq Selected(c, WholeHistory(b, c.scope, known, input), input)
  BY <1>3 DEF Selected
<1>6. Selected(c, WholeHistory(b, c.scope, known, input), input)
        \subseteq Selected(c, Load(b, c.scope, known, input), input)
  BY <1>3, <1>4 DEF Selected
<1> QED BY <1>5, <1>6 DEF c

(* So that it matches on the one if and only if on the other. *)
LEMMA ClauseByReference ==
  ASSUME NEW b \in Bundles, NEW i \in DOMAIN b.rules, NEW j \in DOMAIN b.rules[i].history,
         NEW input, input.at \in Nat,
         NEW known, \A s \in known : s.startedAt \in Nat /\ s.startedAt # Never
  PROVE  LET c == b.rules[i].history[j] IN
         MatchClause(c, Load(b, c.scope, known, input), input) <=>
           MatchClause(c, WholeHistory(b, c.scope, known, input), input)
<1> DEFINE c == b.rules[i].history[j]
           read == Load(b, c.scope, known, input)
           whole == WholeHistory(b, c.scope, known, input)
<1>1. Selected(c, read, input) = Selected(c, whole, input)
  BY OneReadIsEnough
<1> HIDE DEF c, read, whole
<1>2. Counted(c, read, input) = Counted(c, whole, input)
  BY <1>1 DEF Counted
<1>3. MatchClause(c, read, input) <=> MatchClause(c, whole, input)
  BY <1>2 DEF MatchClause
<1> QED BY <1>3 DEF c, read, whole

(* When everything can be read, the rules that fire are the reference's. *)
LEMMA FiringIsReference ==
  ASSUME PolicyTypeOK, NEW input, input.at \in Nat
  PROVE  /\ Firing(bundle, AllowedSteps, {}, input) = ReferenceRule(bundle, input)
         /\ \A i \in DOMAIN bundle.rules :
              Outcome(bundle, i, AllowedSteps, {}, input) # "error"
<1>1. bundle \in Bundles
  BY DEF PolicyTypeOK
<1>2. \A s \in AllowedSteps : s.startedAt \in Nat /\ s.startedAt # Never
  <2>1. \A k \in DOMAIN steps : steps[k] \in StepRows BY DEF PolicyTypeOK
  <2>2. \A s \in AllowedSteps : s \in StepRows /\ s.startedAt # Never
    BY <2>1 DEF AllowedSteps, Known
  <2> QED BY <2>2 DEF StepRows
<1>3. \A i \in DOMAIN bundle.rules : Outcome(bundle, i, AllowedSteps, {}, input) \in {"match", "no"}
  BY <1>1, OutcomeOrError
<1>4. ASSUME NEW i \in DOMAIN bundle.rules
      PROVE  i \in Firing(bundle, AllowedSteps, {}, input) <=> i \in ReferenceRule(bundle, input)
  <2> DEFINE rule == bundle.rules[i]
             Unmet(j) == LET c == rule.history[j]
                         IN ~MatchClause(c, Load(bundle, c.scope, AllowedSteps, input), input)
             stops == {j \in DOMAIN rule.history : rule.history[j].scope \in {} \/ Unmet(j)}
  <2>1. MatchAll(bundle, rule, AllowedSteps, {}, input) =
          IF stops = {} THEN "match"
          ELSE IF rule.history[Min(stops)].scope \in {} THEN "error" ELSE "no"
    BY DEF MatchAll
  <2>2. MatchAll(bundle, rule, AllowedSteps, {}, input) # "no" <=>
          \A j \in DOMAIN rule.history : ~Unmet(j)
    <3>1. stops = {} <=> \A j \in DOMAIN rule.history : ~Unmet(j) OBVIOUS
    <3> HIDE DEF stops, Unmet
    <3> QED BY <2>1, <3>1
  <2>3. \A j \in DOMAIN rule.history :
          ~Unmet(j) <=> LET c == rule.history[j]
                        IN MatchClause(c, WholeHistory(bundle, c.scope, AllowedSteps, input), input)
    BY <1>1, <1>2, ClauseByReference
  <2>4. i \in ReferenceRule(bundle, input) <=>
          Matches(rule.when, input, input.args) /\ \A j \in DOMAIN rule.history : ~Unmet(j)
    <3> HIDE DEF Unmet
    <3> QED BY <2>3 DEF ReferenceRule
  <2>5. i \in Firing(bundle, AllowedSteps, {}, input) <=>
          /\ Matches(rule.when, input, input.args)
          /\ MatchAll(bundle, rule, AllowedSteps, {}, input) # "no"
    BY DEF Firing, Outcome
  <2> HIDE DEF Unmet, stops, rule
  <2> QED BY <2>2, <2>4, <2>5
<1>5. /\ Firing(bundle, AllowedSteps, {}, input) \subseteq DOMAIN bundle.rules
      /\ ReferenceRule(bundle, input) \subseteq DOMAIN bundle.rules
  BY DEF Firing, ReferenceRule
<1> QED BY <1>3, <1>4, <1>5

-----------------------------------------------------------------------------
(* The session                                                              *)

(* The types, by which the steps that can be read have started. *)
LEMMA PolicyTyped == PolicySpec => []PolicyTypeOK
<1>1. PolicyInit => PolicyTypeOK
  BY DEF PolicyInit, PolicyTypeOK
<1>2. PolicyTypeOK /\ [PolicyNext]_policyVars => PolicyTypeOK'
  <2> SUFFICES ASSUME PolicyTypeOK, [PolicyNext]_policyVars PROVE PolicyTypeOK'
    OBVIOUS
  <2> USE DEF PolicyTypeOK
  <2>1. ASSUME NEW e \in Executions, NEW c \in Calls, NEW answer \in Answers,
               NEW at \in 1..MaxTime, Submit(e, c, answer, at)
        PROVE  PolicyTypeOK'
    <3> PICK verdict :
          verdict = Evaluate(bundle, Input(e, c, now), AllowedSteps, {}, answer)
      OBVIOUS
    <3>1. verdict \in Verdicts
      BY EvaluateTyped
    <3>2. MaxTime \in Nat /\ at \in Nat /\ Len(steps) + 1 \in Nat
      BY PolicyAssumption
    <3>3. ASSUME NEW status \in {"executing", "denied", "awaiting_approval"}, NEW t \in Nat
          PROVE  Row(e, c, status, t) \in StepRows
      BY <3>2 DEF Row, StepRows
    <3>4. \E row \in StepRows : steps' = Append(steps, row)
      <4>1. CASE verdict = "allow" BY <2>1, <3>2, <3>3, <4>1 DEF Submit
      <4>2. CASE verdict = "deny" BY <2>1, <3>3, <4>2 DEF Submit, Never
      <4>3. CASE verdict = "require_approval" BY <2>1, <3>3, <4>3 DEF Submit, Never
      <4> QED BY <3>1, <4>1, <4>2, <4>3 DEF Verdicts
    <3>5. steps' \in Seq(StepRows)
      BY <3>4
    <3>6. Decision(Len(steps) + 1, verdict, now, at) \in DecisionEvents
      BY <3>1, <3>2 DEF Decision, DecisionEvents
    <3>7. decisions' \in Seq(DecisionEvents)
      BY <2>1, <3>6 DEF Submit
    <3>8. bundle' \in Bundles /\ now' \in Nat
      BY <2>1, <3>2 DEF Submit
    <3> QED BY <3>5, <3>7, <3>8
  <2>2. ASSUME NEW i \in DOMAIN steps, NEW v \in {"allow", "deny"}, Resolve(i, v)
        PROVE  PolicyTypeOK'
    <3>1. i \in Nat /\ steps[i] \in StepRows
      OBVIOUS
    <3>2. PICK status \in {"allowed", "denied"} :
            steps' = [steps EXCEPT ![i].status = status]
      BY <2>2 DEF Resolve
    <3>3. steps' \in Seq(StepRows)
      <4>1. PICK row : row = [steps[i] EXCEPT !.status = status] OBVIOUS
      <4>2. row \in StepRows BY <3>1, <4>1 DEF StepRows
      <4>3. steps' = [steps EXCEPT ![i] = row] BY <3>2, <4>1
      <4> QED BY <4>2, <4>3
    <3>4. Decision(i, v, now, now) \in DecisionEvents
      BY <3>1 DEF Decision, DecisionEvents, Verdicts
    <3> QED BY <2>2, <3>3, <3>4 DEF Resolve
  <2>3. ASSUME NEW i \in DOMAIN steps, Start(i)
        PROVE  PolicyTypeOK'
    <3>1. PICK row : row = [steps[i] EXCEPT !.status = "executing", !.startedAt = now] OBVIOUS
    <3>2. row \in StepRows
      <4>1. steps[i] \in StepRows OBVIOUS
      <4> QED BY <3>1, <4>1 DEF StepRows
    <3>3. steps' = [steps EXCEPT ![i] = row] BY <2>3, <3>1 DEF Start
    <3>4. steps' \in Seq(StepRows) BY <3>2, <3>3
    <3> QED BY <2>3, <3>4 DEF Start
  <2>4. ASSUME NEW i \in DOMAIN steps, SettleStep(i)
        PROVE  PolicyTypeOK'
    <3>1. steps[i] \in StepRows OBVIOUS
    <3>2. steps' \in Seq(StepRows)
      <4>1. ASSUME NEW r \in Results,
                   steps' = [steps EXCEPT ![i].status = "succeeded", ![i].result = r]
            PROVE  steps' \in Seq(StepRows)
        <5>1. PICK row : row = [steps[i] EXCEPT !.status = "succeeded", !.result = r] OBVIOUS
        <5>2. row \in StepRows BY <3>1, <5>1 DEF StepRows
        <5>3. steps' = [steps EXCEPT ![i] = row] BY <4>1, <5>1
        <5> QED BY <5>2, <5>3
      <4>2. ASSUME steps' = [steps EXCEPT ![i].status = "failed"]
            PROVE  steps' \in Seq(StepRows)
        <5>1. PICK row : row = [steps[i] EXCEPT !.status = "failed"] OBVIOUS
        <5>2. row \in StepRows BY <3>1, <5>1 DEF StepRows
        <5>3. steps' = [steps EXCEPT ![i] = row] BY <4>2, <5>1
        <5> QED BY <5>2, <5>3
      <4> QED BY <2>4, <4>1, <4>2 DEF SettleStep
    <3> QED BY <2>4, <3>2 DEF SettleStep
  <2>5. CASE PassTime
    BY <2>5 DEF PassTime
  <2>6. CASE UNCHANGED policyVars
    BY <2>6 DEF policyVars
  <2> QED BY <2>1, <2>2, <2>3, <2>4, <2>5, <2>6 DEF PolicyNext
<1> QED BY <1>1, <1>2, PTL DEF PolicySpec

(* Reading one window per scope hides no step from any clause: the decision *)
(* is the one that the whole history gives, for every bundle that compiles  *)
(* and every call.                                                          *)
THEOREM LookbackIsEnough == PolicySpec => []LookbackLosesNothing
<1>1. ASSUME PolicyTypeOK PROVE LookbackLosesNothing
  <2> SUFFICES ASSUME NEW e \in Executions, NEW c \in Calls
               PROVE  LET input == Input(e, c, now)
                          rules == ReferenceRule(bundle, input)
                          verdict == Evaluate(bundle, input, AllowedSteps, {}, NoReply)
                      IN verdict = IF rules # {} THEN Verdict(bundle.rules[Min(rules)], NoReply)
                                   ELSE IF c.kind = "local" THEN "allow" ELSE bundle.default
    BY DEF LookbackLosesNothing
  <2> DEFINE input == Input(e, c, now)
             firing == Firing(bundle, AllowedSteps, {}, input)
  <2>1. bundle \in Bundles /\ input.at \in Nat /\ input.kind = c.kind
    BY <1>1 DEF PolicyTypeOK, Input
  <2> HIDE DEF input
  <2>2. /\ firing = ReferenceRule(bundle, input)
        /\ \A i \in DOMAIN bundle.rules : Outcome(bundle, i, AllowedSteps, {}, input) # "error"
    BY <1>1, <2>1, FiringIsReference
  <2>3. firing # {} => Min(firing) \in DOMAIN bundle.rules
    <3>1. firing \in SUBSET Nat /\ firing \subseteq DOMAIN bundle.rules
      BY <2>1, PolicyAssumption DEF Compiles, IsList, Firing
    <3> HIDE DEF firing
    <3> QED BY <3>1, MinIsLeast
  <2> QED BY <2>1, <2>2, <2>3, EvaluateIs DEF input
<1> QED BY <1>1, PolicyTyped, PTL

(* Whichever histories cannot be read: the decision stays or is a denial.   *)
THEOREM FailuresTighten == PolicySpec => []FailureOnlyTightens
<1>1. PolicyTypeOK => FailureOnlyTightens
  BY UnreadableTightens DEF PolicyTypeOK, FailureOnlyTightens
<1> QED BY <1>1, PolicyTyped, PTL

(* The judge takes no decision while a stricter one is as probable, and     *)
(* none below the threshold, whatever probabilities it answers.             *)
THEOREM JudgeIsCautious == PolicySpec => []JudgeLeansStrict
<1>1. PolicyTypeOK => JudgeLeansStrict
  BY JudgeIsStrict DEF PolicyTypeOK, JudgeLeansStrict
<1> QED BY <1>1, PolicyTyped, PTL

-----------------------------------------------------------------------------
(* Sums                                                                     *)

SumOf(n, S) == MapThenSumSet(LAMBDA s : s.args[n], S)

(* The sum of one subset of S, from the sums g of the smaller ones, its     *)
(* elements taken in the order of MapThenSumSet.                            *)
SumStep(g, n, s) ==
  IF s = {} THEN 0 ELSE LET x == CHOOSE x \in s : TRUE IN x.args[n] + g[s \ {x}]

(* g has the sums of the argument n over all the subsets. *)
SumsUp(g, S, n) == g = [s \in SUBSET S |-> SumStep(g, n, s)]

(* There are such sums. *)
LEMMA SumsExist ==
  ASSUME NEW S, IsFiniteSet(S), NEW n
  PROVE  \E g : SumsUp(g, S, n)
<1> DEFINE Upto(g, k) == \A s \in SUBSET S : Cardinality(s) <= k => g[s] = SumStep(g, n, s)
           Bad == {k \in Nat : ~\E g : Upto(g, k)}
<1>1. \A s \in SUBSET S : /\ IsFiniteSet(s) /\ Cardinality(s) \in Nat
                          /\ Cardinality(s) <= Cardinality(S)
                          /\ (s = {} <=> Cardinality(s) = 0)
                          /\ \A x \in s : Cardinality(s \ {x}) = Cardinality(s) - 1
  BY FS_Subset, FS_CardinalityType, FS_EmptySet, FS_RemoveElement
<1>2. Bad = {}
  <2>1. SUFFICES ASSUME Bad # {} PROVE FALSE
    OBVIOUS
  <2>2. PICK k \in Bad : \A j \in Bad : k <= j
    <3>1. Bad \in SUBSET Nat OBVIOUS
    <3> HIDE DEF Bad
    <3> QED BY <2>1, <3>1, MinIsLeast
  <2>3. k \in Nat OBVIOUS
  <2>4. CASE k = 0
    <3> DEFINE z == [s \in SUBSET S |-> 0]
    <3>1. Upto(z, 0)
      BY <1>1 DEF SumStep
    <3> HIDE DEF z, Upto
    <3> QED BY <2>4, <3>1
  <2>5. CASE k # 0
    <3>1. k - 1 \in Nat BY <2>3, <2>5
    <3>2. k - 1 \notin Bad
      <4> HIDE DEF Bad
      <4> QED BY <2>2, <2>3
    <3>3. PICK g : Upto(g, k - 1)
      <4> HIDE DEF Upto
      <4> QED BY <3>1, <3>2
    <3> DEFINE h == [s \in SUBSET S |-> IF Cardinality(s) <= k - 1 THEN g[s] ELSE SumStep(g, n, s)]
    <3>4. ASSUME NEW s \in SUBSET S PROVE h[s] = SumStep(g, n, s)
      BY <3>3
    <3>5. ASSUME NEW s \in SUBSET S, Cardinality(s) <= k
          PROVE  SumStep(h, n, s) = SumStep(g, n, s)
      <4>1. CASE s = {} BY <4>1 DEF SumStep
      <4>2. CASE s # {}
        <5>1. PICK x : x = CHOOSE y \in s : TRUE OBVIOUS
        <5>2. x \in s BY <4>2, <5>1
        <5>3. Cardinality(s \ {x}) <= k - 1 BY <1>1, <2>3, <3>5, <5>2
        <5>4. h[s \ {x}] = g[s \ {x}] BY <5>3
        <5> HIDE DEF h
        <5> QED BY <4>2, <5>1, <5>4 DEF SumStep
      <4> QED BY <4>1, <4>2
    <3>6. Upto(h, k)
      <4> HIDE DEF h
      <4> QED BY <3>4, <3>5
    <3> HIDE DEF h, Upto
    <3> QED BY <3>6
  <2> QED BY <2>4, <2>5
<1>3. PICK g : Upto(g, Cardinality(S))
  <2>1. Cardinality(S) \in Nat BY <1>1
  <2> HIDE DEF Upto
  <2> QED BY <1>2, <2>1
<1> DEFINE h == [s \in SUBSET S |-> g[s]]
<1>4. ASSUME NEW s \in SUBSET S PROVE h[s] = SumStep(h, n, s)
  <2>1. h[s] = SumStep(g, n, s) BY <1>1, <1>3
  <2>2. CASE s = {} BY <2>1, <2>2 DEF SumStep
  <2>3. CASE s # {}
    <3>1. PICK x : x = CHOOSE y \in s : TRUE OBVIOUS
    <3>2. h[s \ {x}] = g[s \ {x}] OBVIOUS
    <3> HIDE DEF h
    <3> QED BY <2>1, <2>3, <3>1, <3>2 DEF SumStep
  <2> QED BY <2>2, <2>3
<1>5. SumsUp(h, S, n)
  <2>1. [s \in SUBSET S |-> SumStep(h, n, s)] = [s \in SUBSET S |-> h[s]]
    <3> HIDE DEF h
    <3> QED BY <1>4
  <2>2. h = [s \in SUBSET S |-> h[s]] OBVIOUS
  <2> HIDE DEF h
  <2> QED BY <2>1, <2>2 DEF SumsUp
<1> QED BY <1>5

(* And MapThenSumSet is the one of the whole set. *)
LEMMA SumIs ==
  ASSUME NEW S, IsFiniteSet(S), NEW n
  PROVE  \E g : SumsUp(g, S, n) /\ SumOf(n, S) = g[S]
<1> DEFINE g == CHOOSE g : SumsUp(g, S, n)
<1>1. SumsUp(g, S, n)
  <2>1. \E f : SumsUp(f, S, n) BY SumsExist
  <2> QED BY <2>1
<1>2. SumOf(n, S) = g[S]
  BY DEF SumOf, MapThenSumSet, MapThenFoldSet, SumsUp, SumStep
<1> QED BY <1>1, <1>2

Numbers(S, n) == \A s \in S : s.args[n] \in Nat

InAnyOrder(g, S, n) ==
  \A s \in SUBSET S : g[s] \in Nat /\ \A x \in s : g[s] = x.args[n] + g[s \ {x}]

(* Taking any element out takes its argument off the sum. *)
LEMMA SumWithout ==
  ASSUME NEW S, NEW n, NEW g, IsFiniteSet(S), Numbers(S, n), SumsUp(g, S, n)
  PROVE  InAnyOrder(g, S, n)
<1> USE DEF Numbers
<1> DEFINE Fine(s) == g[s] \in Nat /\ \A x \in s : g[s] = x.args[n] + g[s \ {x}]
           Bad == {k \in Nat : \E s \in SUBSET S : Cardinality(s) = k /\ ~Fine(s)}
<1>1. \A s \in SUBSET S : /\ Cardinality(s) \in Nat
                          /\ \A x \in s : Cardinality(s \ {x}) = Cardinality(s) - 1
  BY FS_Subset, FS_CardinalityType, FS_RemoveElement
<1>2. \A s \in SUBSET S : g[s] = SumStep(g, n, s)
  BY DEF SumsUp
<1>3. Bad = {}
  <2>1. SUFFICES ASSUME Bad # {} PROVE FALSE
    OBVIOUS
  <2>2. PICK k \in Bad : \A j \in Bad : k <= j
    <3>1. Bad \in SUBSET Nat OBVIOUS
    <3> HIDE DEF Bad
    <3> QED BY <2>1, <3>1, MinIsLeast
  <2>3. PICK s \in SUBSET S : Cardinality(s) = k /\ ~Fine(s)
    BY <2>2
  <2>4. k \in Nat OBVIOUS
  <2>5. ASSUME NEW t \in SUBSET S, Cardinality(t) < k PROVE Fine(t)
    <3>1. Cardinality(t) \notin Bad
      <4>1. Cardinality(t) \in Nat BY <1>1
      <4> HIDE DEF Bad
      <4> QED BY <2>2, <2>4, <2>5, <4>1
    <3>2. Cardinality(t) \in Nat BY <1>1
    <3> HIDE DEF Fine
    <3> QED BY <3>1, <3>2
  <2>6. Fine(s)
    <3>1. CASE s = {}
      <4>1. g[s] = 0 BY <1>2, <3>1 DEF SumStep
      <4> QED BY <3>1, <4>1
    <3>2. CASE s # {}
      <4>1. PICK y : y = CHOOSE x \in s : TRUE OBVIOUS
      <4>2. y \in s BY <3>2, <4>1
      <4>3. g[s] = y.args[n] + g[s \ {y}] BY <1>2, <3>2, <4>1 DEF SumStep
      <4>4. \A x \in s : Fine(s \ {x})
        <5> HIDE DEF Fine
        <5> QED BY <1>1, <2>3, <2>4, <2>5
      <4>5. g[s \ {y}] \in Nat /\ y.args[n] \in Nat BY <4>2, <4>4
      <4>6. g[s] \in Nat BY <4>3, <4>5
      <4>7. ASSUME NEW x \in s PROVE g[s] = x.args[n] + g[s \ {x}]
        <5>1. CASE x = y BY <4>3, <5>1
        <5>2. CASE x # y
          <6>1. x \in s \ {y} /\ y \in s \ {x} BY <4>2, <5>2
          <6>2. g[s \ {y}] = x.args[n] + g[(s \ {y}) \ {x}] BY <4>2, <4>4, <6>1
          <6>3. g[s \ {x}] = y.args[n] + g[(s \ {x}) \ {y}] BY <4>4, <6>1
          <6>4. (s \ {y}) \ {x} = (s \ {x}) \ {y} OBVIOUS
          <6>5. PICK rest : rest = g[(s \ {y}) \ {x}] OBVIOUS
          <6>6. rest \in Nat
            <7>1. Cardinality(s \ {y}) < k /\ Cardinality((s \ {y}) \ {x}) < k
              <8>1. Cardinality(s \ {y}) = k - 1 BY <1>1, <2>3, <4>2
              <8>2. Cardinality((s \ {y}) \ {x}) = (k - 1) - 1 BY <1>1, <6>1, <8>1
              <8> QED BY <2>4, <8>1, <8>2
            <7> QED BY <2>5, <6>5, <7>1
          <6>7. PICK p, q : p = x.args[n] /\ q = y.args[n] OBVIOUS
          <6>8. p \in Nat /\ q \in Nat BY <4>2, <6>7
          <6>9. g[s \ {y}] = p + rest /\ g[s \ {x}] = q + rest
            BY <6>2, <6>3, <6>4, <6>5, <6>7
          <6>10. q + (p + rest) = p + (q + rest) BY <6>6, <6>8
          <6> QED BY <4>3, <6>7, <6>9, <6>10
        <5> QED BY <5>1, <5>2
      <4> QED BY <4>6, <4>7
    <3> QED BY <3>1, <3>2
  <2> HIDE DEF Fine
  <2> QED BY <2>3, <2>6
<1>4. ASSUME NEW s \in SUBSET S PROVE Fine(s)
  <2>1. Cardinality(s) \in Nat BY <1>1
  <2> HIDE DEF Fine
  <2> QED BY <1>3, <2>1
<1> QED BY <1>4 DEF InAnyOrder

(* Two sets of which one is the other with its elements replaced, but not   *)
(* the argument that is added up, have the same sum.                        *)
LEMMA SumByBijection ==
  ASSUME NEW S, NEW T, IsFiniteSet(S), NEW n, NEW f \in Bijection(S, T),
         \A s \in S : s.args[n] \in Nat /\ f[s].args[n] = s.args[n]
  PROVE  SumOf(n, S) = SumOf(n, T)
<1>1. IsFiniteSet(T)
  <2>1. ExistsBijection(S, T) BY DEF ExistsBijection
  <2> QED BY <2>1, FS_Bijection
<1>2. /\ f \in [S -> T]
      /\ \A x, y \in S : f[x] = f[y] => x = y
      /\ \A t \in T : \E s \in S : f[s] = t
  <2>1. f \in Injection(S, T) /\ f \in Surjection(S, T) BY DEF Bijection
  <2>2. f \in [S -> T] /\ \A x, y \in S : f[x] = f[y] => x = y
    BY <2>1 DEF Injection, IsInjective
  <2>3. \A t \in T : \E s \in S : f[s] = t BY <2>1 DEF Surjection
  <2> QED BY <2>2, <2>3
<1>3. \A t \in T : t.args[n] \in Nat
  BY <1>2
<1>4. PICK g : SumsUp(g, S, n) /\ SumOf(n, S) = g[S]
  BY SumIs
<1>5. PICK h : SumsUp(h, T, n) /\ SumOf(n, T) = h[T]
  BY <1>1, SumIs
<1>6. InAnyOrder(g, S, n)
  <2>1. Numbers(S, n) BY DEF Numbers
  <2> QED BY <1>4, <2>1, SumWithout
<1>7. InAnyOrder(h, T, n)
  <2>1. Numbers(T, n) BY <1>3 DEF Numbers
  <2> QED BY <1>1, <1>5, <2>1, SumWithout
<1> DEFINE Image(s) == {f[x] : x \in s}
           Bad == {k \in Nat : \E s \in SUBSET S : Cardinality(s) = k /\ g[s] # h[Image(s)]}
<1>8. \A s \in SUBSET S : Image(s) \in SUBSET T
  BY <1>2
<1>9. \A s \in SUBSET S : /\ Cardinality(s) \in Nat
                          /\ \A x \in s : Cardinality(s \ {x}) = Cardinality(s) - 1
  BY FS_Subset, FS_CardinalityType, FS_RemoveElement
<1>10. Bad = {}
  <2>1. SUFFICES ASSUME Bad # {} PROVE FALSE
    OBVIOUS
  <2>2. PICK k \in Bad : \A j \in Bad : k <= j
    <3>1. Bad \in SUBSET Nat OBVIOUS
    <3> HIDE DEF Bad
    <3> QED BY <2>1, <3>1, MinIsLeast
  <2>3. PICK s \in SUBSET S : Cardinality(s) = k /\ g[s] # h[Image(s)]
    BY <2>2
  <2>4. k \in Nat OBVIOUS
  <2>5. g[s] = h[Image(s)]
    <3>1. CASE s = {}
      <4>1. Image(s) = {} BY <3>1
      <4>2. g[s] = 0 /\ h[Image(s)] = 0
        <5>1. g[{}] = SumStep(g, n, {}) /\ h[{}] = SumStep(h, n, {}) BY <1>4, <1>5 DEF SumsUp
        <5> HIDE DEF Image
        <5> QED BY <3>1, <4>1, <5>1 DEF SumStep
      <4> QED BY <4>2
    <3>2. CASE s # {}
      <4>1. PICK x \in s : TRUE BY <3>2
      <4>2. g[s] = x.args[n] + g[s \ {x}]
        BY <1>6 DEF InAnyOrder
      <4>3. f[x] \in Image(s) OBVIOUS
      <4>4. h[Image(s)] = f[x].args[n] + h[Image(s) \ {f[x]}]
        <5> HIDE DEF Image
        <5> QED BY <1>7, <1>8, <4>3 DEF InAnyOrder
      <4>5. Image(s) \ {f[x]} = Image(s \ {x})
        BY <1>2
      <4>6. g[s \ {x}] = h[Image(s \ {x})]
        <5>1. Cardinality(s \ {x}) = k - 1 /\ Cardinality(s \ {x}) \in Nat BY <1>9, <2>3
        <5>2. Cardinality(s \ {x}) \notin Bad
          <6> HIDE DEF Bad
          <6> QED BY <2>2, <2>4, <5>1
        <5> HIDE DEF Image
        <5> QED BY <5>1, <5>2
      <4>7. f[x].args[n] = x.args[n] OBVIOUS
      <4> HIDE DEF Image
      <4> QED BY <4>2, <4>4, <4>5, <4>6, <4>7
    <3> QED BY <3>1, <3>2
  <2> HIDE DEF Image
  <2> QED BY <2>3, <2>5
<1>11. g[S] = h[Image(S)]
  <2>1. Cardinality(S) \in Nat BY <1>9
  <2> HIDE DEF Image
  <2> QED BY <1>10, <2>1
<1>12. Image(S) = T
  BY <1>2
<1> HIDE DEF Image
<1> QED BY <1>4, <1>5, <1>11, <1>12

-----------------------------------------------------------------------------
(* Decisions about the same call over corresponding histories               *)

SameCall(s, t) == s.exec = t.exec /\ s.kind = t.kind /\ s.target = t.target /\ s.args = t.args

Corresponds(f, K, L) ==
  /\ f \in Bijection(K, L)
  /\ \A s \in K : SameCall(s, f[s]) /\ f[s].startedAt = s.startedAt

SameWindows(b, K, one, other) ==
  \A scope \in Scopes, s \in K : \A w \in Windows(b, scope) \ {0} :
    s.startedAt >= one.at - w <=> s.startedAt >= other.at - w

(* Two evaluations of one call: all that a clause without results looks at  *)
(* is the same.                                                             *)
SameQuestion(b, f, K, one, L, other) ==
  /\ IsFiniteSet(K) /\ Corresponds(f, K, L) /\ \A s \in K : s.startedAt # Never
  /\ SameCall(one, other) /\ one \notin K /\ other \notin L
  /\ SameWindows(b, K, one, other)

(* A bijection as functions are: no two to one, and each reached. *)
LEMMA BijectionIs ==
  ASSUME NEW S, NEW T, NEW f
  PROVE  f \in Bijection(S, T) <=>
           /\ f \in [S -> T]
           /\ \A x, y \in S : f[x] = f[y] => x = y
           /\ \A t \in T : \E s \in S : f[s] = t
<1>1. f \in Bijection(S, T) <=> f \in Injection(S, T) /\ f \in Surjection(S, T)
  BY DEF Bijection
<1>2. f \in Injection(S, T) <=> f \in [S -> T] /\ \A x, y \in S : f[x] = f[y] => x = y
  BY DEF Injection, IsInjective
<1>3. f \in Surjection(S, T) <=> f \in [S -> T] /\ \A t \in T : \E s \in S : f[s] = t
  BY DEF Surjection
<1> QED BY <1>1, <1>2, <1>3

(* What a clause without results counts, corresponds. *)
LEMMA CountedAlike ==
  ASSUME NEW b \in Bundles, Repeatable(b),
         NEW i \in DOMAIN b.rules, NEW j \in DOMAIN b.rules[i].history,
         NEW f, NEW K, NEW one, NEW L, NEW other, SameQuestion(b, f, K, one, L, other)
  PROVE  LET c == b.rules[i].history[j]
             S == Counted(c, Load(b, c.scope, K, one), one)
             T == Counted(c, Load(b, c.scope, L, other), other)
         IN /\ IsFiniteSet(S)
            /\ \E g \in Bijection(S, T) : \A s \in S : g[s].args = s.args
<1> PICK c : c = b.rules[i].history[j] OBVIOUS
<1> DEFINE near == Load(b, c.scope, K, one)
           far == Load(b, c.scope, L, other)
           S == Counted(c, near, one)
           T == Counted(c, far, other)
<1>1. /\ IsFiniteSet(K) /\ \A s \in K : s.startedAt # Never
      /\ SameCall(one, other) /\ one \notin K /\ other \notin L
      /\ SameWindows(b, K, one, other)
  BY DEF SameQuestion
<1>2. /\ f \in [K -> L]
      /\ \A x, y \in K : f[x] = f[y] => x = y
      /\ \A t \in L : \E s \in K : f[s] = t
      /\ \A s \in K : SameCall(s, f[s]) /\ f[s].startedAt = s.startedAt
  BY BijectionIs DEF SameQuestion, Corresponds
<1>3. c.result = {} /\ c.scope \in Scopes /\ c.within \in Windows(b, c.scope)
  <2>1. c.result = {} BY DEF Repeatable
  <2>2. c.scope \in Scopes
    BY PolicyAssumption DEF Compiles, RuleCompiles, ClauseCompiles
  <2>3. c.within \in Windows(b, c.scope) BY DEF Windows
  <2> QED BY <2>1, <2>2, <2>3
<1>4. Lookback(b, c.scope) \in Windows(b, c.scope)
  <2>1. /\ Windows(b, c.scope) \in SUBSET Nat /\ IsFiniteSet(Windows(b, c.scope))
        /\ Windows(b, c.scope) # {}
    BY <1>3, WindowsFinite
  <2>2. Max(Windows(b, c.scope)) \in Windows(b, c.scope)
    BY <2>1, MaxIsGreatest
  <2> QED BY <2>2 DEF Lookback
<1>5. ASSUME NEW w \in Windows(b, c.scope), NEW s \in K, w > 0
      PROVE  s.startedAt >= one.at - w <=> f[s].startedAt >= other.at - w
  <2>1. w \in Windows(b, c.scope) \ {0}
    <3>1. w \in Nat BY WindowsFinite
    <3> QED BY <1>5, <3>1
  <2> QED BY <1>1, <1>2, <1>3, <2>1 DEF SameWindows
<1>6. ASSUME NEW s \in K PROVE s \in near <=> f[s] \in far
  <2>1. s.exec = f[s].exec /\ one.exec = other.exec /\ f[s] \in L
    BY <1>1, <1>2 DEF SameCall
  <2> PICK window : window = Lookback(b, c.scope) OBVIOUS
  <2>2. s \in near <=> /\ window > 0 => s.startedAt >= one.at - window
                       /\ c.scope = "execution" => s.exec = one.exec
    BY DEF Load
  <2>3. f[s] \in far <=> /\ window > 0 => f[s].startedAt >= other.at - window
                         /\ c.scope = "execution" => f[s].exec = other.exec
    BY <2>1 DEF Load
  <2>4. window > 0 => (s.startedAt >= one.at - window <=> f[s].startedAt >= other.at - window)
    BY <1>4, <1>5
  <2> HIDE DEF near, far
  <2> QED BY <2>1, <2>2, <2>3, <2>4
<1>7. ASSUME NEW s \in K
      PROVE  Matches(c.when, s, one.args) <=> Matches(c.when, f[s], other.args)
  BY <1>1, <1>2 DEF SameCall, Matches
<1>8. Matches(c.when, one, one.args) <=> Matches(c.when, other, other.args)
  BY <1>1 DEF SameCall, Matches
<1>9. near \subseteq K /\ far \subseteq L
  BY DEF Load
<1> DEFINE some == Selected(c, near, one)
           others == Selected(c, far, other)
<1>10. some \subseteq K /\ others \subseteq L
  BY <1>9 DEF Selected
<1>11. ASSUME NEW s \in K PROVE s \in some <=> f[s] \in others
  <2>1. s \in some <=> /\ s \in near
                       /\ c.within > 0 => s.startedAt # Never /\ s.startedAt >= one.at - c.within
                       /\ Matches(c.when, s, one.args)
    BY <1>3 DEF Selected
  <2>2. f[s] \in others <=>
          /\ f[s] \in far
          /\ c.within > 0 => f[s].startedAt # Never /\ f[s].startedAt >= other.at - c.within
          /\ Matches(c.when, f[s], other.args)
    BY <1>3 DEF Selected
  <2>3. s.startedAt # Never /\ f[s].startedAt # Never
    BY <1>1, <1>2
  <2>4. c.within > 0 => (s.startedAt >= one.at - c.within <=> f[s].startedAt >= other.at - c.within)
    BY <1>3, <1>5
  <2> HIDE DEF near, far, some, others
  <2> QED BY <1>6, <1>7, <2>1, <2>2, <2>3, <2>4
<1>12. S = some \cup (IF Matches(c.when, one, one.args) THEN {one} ELSE {})
  BY <1>3 DEF Counted
<1>13. T = others \cup (IF Matches(c.when, other, other.args) THEN {other} ELSE {})
  BY <1>3 DEF Counted
<1> HIDE DEF near, far, some, others, S, T
<1>14. IsFiniteSet(S)
  <2>1. IsFiniteSet(some) BY <1>1, <1>10, FS_Subset
  <2>2. IsFiniteSet(some \cup {one}) BY <2>1, FS_AddElement
  <2>3. S \subseteq some \cup {one} BY <1>12
  <2> QED BY <2>2, <2>3, FS_Subset
<1> DEFINE g == [s \in S |-> IF s = one THEN other ELSE f[s]]
<1>15. \A s \in S : IF s = one THEN g[s] = other /\ other \in T
                    ELSE s \in some /\ g[s] = f[s] /\ g[s] \in others /\ g[s] \in T
  <2> SUFFICES ASSUME NEW s \in S
               PROVE  IF s = one THEN g[s] = other /\ other \in T
                      ELSE s \in some /\ g[s] = f[s] /\ g[s] \in others /\ g[s] \in T
    OBVIOUS
  <2>1. CASE s = one
    <3>1. s \notin some BY <1>1, <1>10, <2>1
    <3>2. Matches(c.when, one, one.args) BY <1>12, <3>1
    <3>3. other \in T BY <1>8, <1>13, <3>2
    <3> QED BY <2>1, <3>3
  <2>2. CASE s # one
    <3>1. s \in some BY <1>12, <2>2
    <3>2. f[s] \in others BY <1>10, <1>11, <3>1
    <3>3. f[s] \in T BY <1>13, <3>2
    <3> QED BY <2>2, <3>1, <3>2, <3>3
  <2> QED BY <2>1, <2>2
<1>16. g \in [S -> T]
  <2>1. \A s \in S : g[s] \in T BY <1>15
  <2>2. g = [s \in S |-> g[s]] OBVIOUS
  <2> HIDE DEF g
  <2> QED BY <2>1, <2>2
<1>17. \A t \in T : \E s \in S : g[s] = t
  <2> SUFFICES ASSUME NEW t \in T PROVE \E s \in S : g[s] = t
    OBVIOUS
  <2>1. CASE t = other /\ Matches(c.when, other, other.args)
    <3>1. one \in S BY <1>8, <1>12, <2>1
    <3>2. g[one] = other BY <3>1
    <3> QED BY <2>1, <3>1, <3>2
  <2>2. CASE t \in others
    <3>1. PICK s \in K : f[s] = t BY <1>2, <1>10, <2>2
    <3>2. s \in S /\ s # one BY <1>1, <1>11, <1>12, <2>2, <3>1
    <3>3. g[s] = t BY <3>1, <3>2
    <3> QED BY <3>2, <3>3
  <2> QED BY <1>13, <2>1, <2>2
<1> HIDE DEF g
<1>18. \A x, y \in S : g[x] = g[y] => x = y
  BY <1>1, <1>2, <1>10, <1>15
<1>19. g \in Bijection(S, T)
  BY <1>16, <1>17, <1>18, BijectionIs
<1>20. \A s \in S : g[s].args = s.args
  BY <1>1, <1>2, <1>10, <1>15 DEF SameCall
<1> QED BY <1>14, <1>19, <1>20 DEF S, T, near, far

(* So its value is the same. *)
LEMMA ClauseAlike ==
  ASSUME NEW b \in Bundles, Repeatable(b),
         NEW i \in DOMAIN b.rules, NEW j \in DOMAIN b.rules[i].history,
         NEW f, NEW K, NEW one, NEW L, NEW other, SameQuestion(b, f, K, one, L, other)
  PROVE  LET c == b.rules[i].history[j] IN
         MatchClause(c, Load(b, c.scope, K, one), one) <=>
           MatchClause(c, Load(b, c.scope, L, other), other)
<1> PICK c : c = b.rules[i].history[j] OBVIOUS
<1> DEFINE near == Load(b, c.scope, K, one)
           far == Load(b, c.scope, L, other)
           S == Counted(c, near, one)
           T == Counted(c, far, other)
<1>1. IsFiniteSet(S) /\ \E g \in Bijection(S, T) : \A s \in S : g[s].args = s.args
  BY CountedAlike
<1> PICK g \in Bijection(S, T) : \A s \in S : g[s].args = s.args
  BY <1>1
<1>2. /\ g \in [S -> T]
      /\ \A x, y \in S : g[x] = g[y] => x = y
      /\ \A t \in T : \E s \in S : g[s] = t
  BY BijectionIs
<1>3. MatchClause(c, near, one) <=>
        /\ c.sum # Absent => \A s \in S : Numeric(s.args[c.sum])
        /\ Value(c, S) >= AtLeast(c)
        /\ c.atMost # NoBound => Value(c, S) <= c.atMost
  BY DEF MatchClause
<1>4. MatchClause(c, far, other) <=>
        /\ c.sum # Absent => \A s \in T : Numeric(s.args[c.sum])
        /\ Value(c, T) >= AtLeast(c)
        /\ c.atMost # NoBound => Value(c, T) <= c.atMost
  BY DEF MatchClause
<1> HIDE DEF near, far, S, T
<1>5. (\A s \in S : Numeric(s.args[c.sum])) <=> \A s \in T : Numeric(s.args[c.sum])
  BY <1>2
<1>6. (c.sum # Absent => \A s \in S : Numeric(s.args[c.sum])) => Value(c, S) = Value(c, T)
  <2> SUFFICES ASSUME c.sum # Absent => \A s \in S : Numeric(s.args[c.sum])
               PROVE  Value(c, S) = Value(c, T)
    OBVIOUS
  <2>1. CASE c.sum # Absent
    <3>1. \A s \in S : s.args[c.sum] \in Nat /\ g[s].args[c.sum] = s.args[c.sum]
      BY <2>1 DEF Numeric
    <3>2. SumOf(c.sum, S) = SumOf(c.sum, T)
      BY <1>1, <3>1, SumByBijection
    <3>3. c.distinct = Absent
      <4>1. ClauseCompiles(c) BY PolicyAssumption DEF Compiles, RuleCompiles
      <4> QED BY <2>1, <4>1 DEF ClauseCompiles
    <3> QED BY <2>1, <3>2, <3>3 DEF Value, SumOf
  <2>2. CASE c.sum = Absent /\ c.distinct # Absent
    <3>1. {s.args[c.distinct] : s \in S} = {s.args[c.distinct] : s \in T}
      BY <1>2
    <3> QED BY <2>2, <3>1 DEF Value
  <2>3. CASE c.sum = Absent /\ c.distinct = Absent
    <3>1. ExistsBijection(S, T) BY DEF ExistsBijection
    <3>2. Cardinality(T) = Cardinality(S) BY <1>1, <3>1, FS_Bijection
    <3> QED BY <2>3, <3>2 DEF Value
  <2> QED BY <2>1, <2>2, <2>3
<1>7. MatchClause(c, near, one) <=> MatchClause(c, far, other)
  BY <1>3, <1>4, <1>5, <1>6
<1> QED BY <1>7 DEF near, far

(* And the whole evaluation, whatever the judge would say. *)
LEMMA EvaluateAlike ==
  ASSUME NEW b \in Bundles, Repeatable(b),
         NEW f, NEW K, NEW one, NEW L, NEW other, SameQuestion(b, f, K, one, L, other),
         NEW a, NEW z
  PROVE  Evaluate(b, one, K, {}, a) = Evaluate(b, other, L, {}, z)
<1>1. one.kind = other.kind /\ one.target = other.target /\ one.args = other.args
  BY DEF SameQuestion, SameCall
<1>2. ASSUME NEW i \in DOMAIN b.rules
      PROVE  Outcome(b, i, K, {}, one) = Outcome(b, i, L, {}, other)
  <2> DEFINE rule == b.rules[i]
             Unmet(j) == LET c == rule.history[j]
                         IN c.scope \in {} \/ ~MatchClause(c, Load(b, c.scope, K, one), one)
             Lacks(j) == LET c == rule.history[j]
                         IN c.scope \in {} \/ ~MatchClause(c, Load(b, c.scope, L, other), other)
  <2>1. \A j \in DOMAIN rule.history : Unmet(j) <=> Lacks(j)
    BY ClauseAlike
  <2>2. {j \in DOMAIN rule.history : Unmet(j)} = {j \in DOMAIN rule.history : Lacks(j)}
    <3> HIDE DEF Unmet, Lacks
    <3> QED BY <2>1
  <2>3. MatchAll(b, rule, K, {}, one) =
          LET stops == {j \in DOMAIN rule.history : Unmet(j)}
          IN IF stops = {} THEN "match"
             ELSE IF rule.history[Min(stops)].scope \in {} THEN "error" ELSE "no"
    BY DEF MatchAll
  <2>4. MatchAll(b, rule, L, {}, other) =
          LET stops == {j \in DOMAIN rule.history : Lacks(j)}
          IN IF stops = {} THEN "match"
             ELSE IF rule.history[Min(stops)].scope \in {} THEN "error" ELSE "no"
    BY DEF MatchAll
  <2>5. MatchAll(b, rule, K, {}, one) = MatchAll(b, rule, L, {}, other)
    <3> HIDE DEF Unmet, Lacks
    <3> QED BY <2>2, <2>3, <2>4
  <2>6. Matches(rule.when, one, one.args) <=> Matches(rule.when, other, other.args)
    BY <1>1 DEF Matches
  <2> QED BY <2>5, <2>6 DEF Outcome
<1>3. Firing(b, K, {}, one) = Firing(b, L, {}, other)
  BY <1>2 DEF Firing
<1> DEFINE firing == Firing(b, K, {}, one)
<1>4. firing # {} => Min(firing) \in DOMAIN b.rules
  <2>1. firing \in SUBSET Nat /\ firing \subseteq DOMAIN b.rules
    BY PolicyAssumption DEF Compiles, IsList, Firing
  <2> HIDE DEF firing
  <2> QED BY <2>1, MinIsLeast
<1>5. \A i \in DOMAIN b.rules : Verdict(b.rules[i], a) = Verdict(b.rules[i], z)
  BY DEF Repeatable, Verdict
<1>6. Evaluate(b, one, K, {}, a) =
        IF firing = {} THEN IF one.kind = "local" THEN "allow" ELSE b.default
        ELSE IF Outcome(b, Min(firing), K, {}, one) = "error" THEN "deny"
        ELSE Verdict(b.rules[Min(firing)], a)
  BY EvaluateIs
<1>7. Evaluate(b, other, L, {}, z) =
        IF firing = {} THEN IF other.kind = "local" THEN "allow" ELSE b.default
        ELSE IF Outcome(b, Min(firing), L, {}, other) = "error" THEN "deny"
        ELSE Verdict(b.rules[Min(firing)], z)
  BY <1>3, EvaluateIs
<1> HIDE DEF firing
<1> QED BY <1>1, <1>2, <1>4, <1>5, <1>6, <1>7

(* What of a row never changes once the step has started. *)
Lasting(s) ==
  [id |-> s.id, exec |-> s.exec, kind |-> s.kind, target |-> s.target, args |-> s.args,
   startedAt |-> s.startedAt]
CaseRecord(i) == {Lasting(s) : s \in CaseHistory(i)}
ReadCase(i) == Input(steps[i].exec, steps[i], FirstDecision(i).read)

(* Rows are numbered, and none has started at an instant to come. *)
RowsNumbered ==
  \A i \in DOMAIN steps :
    /\ steps[i].id = i /\ steps[i].startedAt < now
    /\ steps[i].status \in {"denied", "awaiting_approval", "allowed"} =>
         steps[i].startedAt = Never

(* Every step has its first decision event, and no event is without a step. *)
EventsFollowRows ==
  /\ \A k \in DOMAIN decisions : decisions[k].step \in DOMAIN steps
  /\ \A i \in DOMAIN steps :
       /\ \E k \in DOMAIN decisions : decisions[k].step = i
       /\ FirstDecision(i).read <= FirstDecision(i).at /\ FirstDecision(i).at < now

(* The decision is the one that the case's history gives, with the clock    *)
(* that the evaluation read.                                                *)
DecidedByCase ==
  Repeatable(bundle) =>
    \A i \in DOMAIN steps :
      FirstDecision(i).decision = Evaluate(bundle, ReadCase(i), CaseRecord(i), {}, NoJudge)

PolicyInv == PolicyTypeOK /\ RowsNumbered /\ EventsFollowRows /\ DecidedByCase

-----------------------------------------------------------------------------
(* Replays                                                                  *)

(* Rows correspond to what lasts of them. *)
LEMMA LastingCorresponds ==
  ASSUME PolicyTypeOK, RowsNumbered, NEW K \in SUBSET AllowedSteps
  PROVE  /\ IsFiniteSet(K)
         /\ \A s \in K : s \in StepRows /\ s.startedAt # Never
         /\ Corresponds([s \in K |-> Lasting(s)], K, {Lasting(s) : s \in K})
<1> DEFINE f == [s \in K |-> Lasting(s)]
           L == {Lasting(s) : s \in K}
<1>1. /\ \A i \in DOMAIN steps : steps[i] \in StepRows
      /\ DOMAIN steps = 1..Len(steps) /\ Len(steps) \in Nat
  BY DEF PolicyTypeOK
<1>2. \A s \in K : s.startedAt # Never /\ \E i \in DOMAIN steps : s = steps[i]
  BY DEF AllowedSteps, Known
<1>3. IsFiniteSet(K)
  <2> DEFINE rows == [i \in DOMAIN steps |-> steps[i]]
  <2>1. rows \in Surjection(DOMAIN steps, Known)
    BY DEF Surjection, Known
  <2>2. IsFiniteSet(DOMAIN steps) BY <1>1, FS_Interval
  <2>3. IsFiniteSet(Known)
    <3> HIDE DEF rows
    <3> QED BY <2>1, <2>2, FS_Surjection
  <2>4. K \subseteq Known BY DEF AllowedSteps
  <2> QED BY <2>3, <2>4, FS_Subset
<1>4. \A x, y \in K : x.id = y.id => x = y
  BY <1>2 DEF RowsNumbered
<1>5. \A s \in K : Lasting(s).id = s.id /\ SameCall(s, Lasting(s))
                   /\ Lasting(s).startedAt = s.startedAt
  BY DEF Lasting, SameCall
<1>6. \A x, y \in K : f[x] = f[y] => x = y
  <2> SUFFICES ASSUME NEW x \in K, NEW y \in K, f[x] = f[y] PROVE x = y
    OBVIOUS
  <2>1. Lasting(x) = Lasting(y) OBVIOUS
  <2>2. x.id = y.id BY <1>5, <2>1
  <2> QED BY <1>4, <2>2
<1>7. f \in [K -> L] /\ \A t \in L : \E s \in K : f[s] = t
  OBVIOUS
<1>8. f \in Bijection(K, L)
  <2> HIDE DEF f, L
  <2> QED BY <1>6, <1>7, BijectionIs
<1>9. \A s \in K : SameCall(s, f[s]) /\ f[s].startedAt = s.startedAt
  BY <1>5
<1> QED BY <1>1, <1>2, <1>3, <1>8, <1>9 DEF Corresponds

(* A call that is being decided is no row, nor what lasts of one. *)
LEMMA InputIsNoRow ==
  ASSUME NEW s \in StepRows, NEW e, NEW c, NEW at
  PROVE  Input(e, c, at) # s /\ Input(e, c, at) # Lasting(s)
<1>1. "id" \in DOMAIN s /\ "id" \in DOMAIN Lasting(s)
  BY DEF StepRows, Lasting
<1>2. "id" \notin DOMAIN Input(e, c, at)
  BY DEF Input
<1> QED BY <1>1, <1>2

(* A repeatable bundle decides a call on the rows as on what lasts of them, *)
(* and at another instant if no window of it loses a step between.          *)
LEMMA DecidesAlike ==
  ASSUME PolicyTypeOK, RowsNumbered, Repeatable(bundle), NEW K \in SUBSET AllowedSteps,
         NEW e, NEW c, NEW d, SameCall(Input(e, c, 0), Input(e, d, 0)),
         NEW at \in Nat, NEW read \in Nat, read <= at,
         ~ \E scope \in Scopes, s \in K : \E w \in Windows(bundle, scope) \ {0} :
             s.startedAt \in read - w .. at - w - 1,
         NEW a, NEW z
  PROVE  Evaluate(bundle, Input(e, c, at), K, {}, a) =
           Evaluate(bundle, Input(e, d, read), {Lasting(s) : s \in K}, {}, z)
<1> DEFINE f == [s \in K |-> Lasting(s)]
           L == {Lasting(s) : s \in K}
           one == Input(e, c, at)
           other == Input(e, d, read)
<1>1. bundle \in Bundles
  BY DEF PolicyTypeOK
<1>2. /\ IsFiniteSet(K)
      /\ \A s \in K : s \in StepRows /\ s.startedAt # Never
      /\ Corresponds(f, K, L)
  BY LastingCorresponds
<1>3. SameCall(one, other)
  BY DEF SameCall, Input
<1>4. one \notin K /\ other \notin L
  BY <1>2, InputIsNoRow
<1>5. one.at = at /\ other.at = read
  BY DEF Input
<1> HIDE DEF f, L, one, other
<1>6. SameWindows(bundle, K, one, other)
  <2> SUFFICES ASSUME NEW scope \in Scopes, NEW s \in K, NEW w \in Windows(bundle, scope) \ {0}
               PROVE  s.startedAt >= one.at - w <=> s.startedAt >= other.at - w
    BY DEF SameWindows
  <2>1. w \in Nat /\ s.startedAt \in Nat
    BY <1>1, <1>2, WindowsFinite DEF StepRows
  <2>2. ~(s.startedAt \in read - w .. at - w - 1)
    OBVIOUS
  <2> QED BY <1>5, <2>1, <2>2
<1>7. SameQuestion(bundle, f, K, one, L, other)
  BY <1>2, <1>3, <1>4, <1>6 DEF SameQuestion
<1>8. Evaluate(bundle, one, K, {}, a) = Evaluate(bundle, other, L, {}, z)
  BY <1>1, <1>7, EvaluateAlike
<1> QED BY <1>8 DEF one, other, L

(* What a step does to the rows: it keeps the calls, starts rows that had   *)
(* not started, now, and adds rows that have not started before now.        *)
RowsGrow ==
  /\ DOMAIN steps \subseteq DOMAIN steps'
  /\ \A k \in DOMAIN steps :
       /\ SameCall(steps'[k], steps[k]) /\ steps'[k].id = steps[k].id
       /\ \/ steps'[k].startedAt = steps[k].startedAt
          \/ steps[k].startedAt = Never /\ steps'[k].startedAt = now
  /\ \A k \in DOMAIN steps' \ DOMAIN steps :
       steps'[k].startedAt = Never \/ steps'[k].startedAt >= now

(* The first event about a step stays the first. *)
LEMMA FirstStands ==
  ASSUME PolicyTypeOK, NEW event, decisions' = Append(decisions, event),
         NEW i, \E k \in DOMAIN decisions : decisions[k].step = i
  PROVE  FirstDecision(i)' = FirstDecision(i)
<1> DEFINE about == {k \in DOMAIN decisions : decisions[k].step = i}
           later == {k \in DOMAIN decisions' : decisions'[k].step = i}
<1>1. DOMAIN decisions = 1..Len(decisions) /\ Len(decisions) \in Nat
  BY DEF PolicyTypeOK
<1>2. /\ DOMAIN decisions' = 1..(Len(decisions) + 1)
      /\ \A k \in DOMAIN decisions : decisions'[k] = decisions[k]
  BY <1>1 DEF PolicyTypeOK
<1>3. about \in SUBSET Nat /\ about # {} /\ later \in SUBSET Nat
  BY <1>1, <1>2
<1>4. about \subseteq later /\ \A k \in later : k \in about \/ k = Len(decisions) + 1
  BY <1>1, <1>2
<1>5. \A k \in about : k < Len(decisions) + 1
  BY <1>1
<1> HIDE DEF about, later
<1>6. Min(about) \in about /\ \A k \in about : Min(about) <= k
  BY <1>3, MinIsLeast
<1>7. Min(later) \in later /\ \A k \in later : Min(later) <= k
  BY <1>3, <1>4, MinIsLeast
<1>8. Min(later) = Min(about)
  <2>1. Min(later) <= Min(about) BY <1>4, <1>6, <1>7
  <2>2. Min(later) \in Nat /\ Min(about) \in Nat BY <1>3, <1>6, <1>7
  <2>3. Min(later) \in about BY <1>1, <1>4, <1>5, <1>6, <1>7, <2>1, <2>2
  <2> QED BY <1>6, <2>1, <2>2, <2>3
<1>9. decisions'[Min(about)] = decisions[Min(about)]
  BY <1>2, <1>6 DEF about
<1> QED BY <1>8, <1>9 DEF FirstDecision, about, later

(* An event about a step that had none is its first. *)
LEMMA FirstIsNew ==
  ASSUME PolicyTypeOK, NEW event, decisions' = Append(decisions, event),
         NEW i, event.step = i, \A k \in DOMAIN decisions : decisions[k].step # i
  PROVE  FirstDecision(i)' = event
<1> DEFINE later == {k \in DOMAIN decisions' : decisions'[k].step = i}
<1>1. DOMAIN decisions = 1..Len(decisions) /\ Len(decisions) \in Nat
  BY DEF PolicyTypeOK
<1>2. /\ DOMAIN decisions' = 1..(Len(decisions) + 1)
      /\ \A k \in DOMAIN decisions : decisions'[k] = decisions[k]
      /\ decisions'[Len(decisions) + 1] = event
  BY <1>1 DEF PolicyTypeOK
<1>3. later \in SUBSET Nat /\ later = {Len(decisions) + 1}
  BY <1>1, <1>2
<1>4. later # {} BY <1>3
<1> HIDE DEF later
<1>5. Min(later) = Len(decisions) + 1
  BY <1>3, <1>4, MinIsLeast
<1> QED BY <1>2, <1>5 DEF FirstDecision, later

(* The first event about a step is one of the events. *)
LEMMA FirstTyped ==
  ASSUME PolicyTypeOK, EventsFollowRows, NEW i \in DOMAIN steps
  PROVE  FirstDecision(i).read \in Nat /\ FirstDecision(i).at \in Nat
<1> DEFINE about == {k \in DOMAIN decisions : decisions[k].step = i}
<1>1. about # {} BY DEF EventsFollowRows
<1>2. about \in SUBSET Nat /\ about \subseteq DOMAIN decisions
  BY DEF PolicyTypeOK
<1>3. Min(about) \in about
  <2> HIDE DEF about
  <2> QED BY <1>1, <1>2, MinIsLeast
<1>4. FirstDecision(i) \in DecisionEvents
  BY <1>3 DEF FirstDecision, PolicyTypeOK
<1> QED BY <1>4 DEF DecisionEvents

(* What a case stands on does not change. *)
LEMMA CaseStands ==
  ASSUME PolicyInv, PolicyTypeOK', RowsGrow, NEW i \in DOMAIN steps,
         FirstDecision(i)' = FirstDecision(i)
  PROVE  ReadCase(i)' = ReadCase(i) /\ CaseRecord(i)' = CaseRecord(i)
<1> DEFINE Past(r) == r.startedAt # Never /\ r.id # i /\ r.startedAt <= FirstDecision(i).at
<1>1. ReadCase(i)' = ReadCase(i)
  <2>1. SameCall(steps'[i], steps[i]) BY DEF RowsGrow
  <2> QED BY <2>1 DEF SameCall, ReadCase, Input
<1>2. CaseRecord(i) = {Lasting(steps[k]) : k \in {j \in DOMAIN steps : Past(steps[j])}}
  BY DEF CaseRecord, CaseHistory, AllowedSteps, Known
<1>3. CaseRecord(i)' = {Lasting(steps'[k]) : k \in {j \in DOMAIN steps' : Past(steps'[j])}}
  <2>1. CaseHistory(i)' = {s \in AllowedSteps' : s.id # i /\ s.startedAt <= FirstDecision(i).at}
    BY DEF CaseHistory
  <2> QED BY <2>1 DEF CaseRecord, AllowedSteps, Known, Lasting
<1>4. FirstDecision(i).at < now /\ now \in Nat
  BY DEF PolicyInv, EventsFollowRows, PolicyTypeOK
<1>5. /\ \A k \in DOMAIN steps : steps[k].startedAt \in Nat
      /\ \A k \in DOMAIN steps' : steps'[k].startedAt \in Nat
  <2>1. \A k \in DOMAIN steps : steps[k] \in StepRows BY DEF PolicyInv, PolicyTypeOK
  <2>2. \A k \in DOMAIN steps' : steps'[k] \in StepRows BY DEF PolicyTypeOK
  <2> QED BY <2>1, <2>2 DEF StepRows
<1>6. FirstDecision(i).at \in Nat
  BY FirstTyped DEF PolicyInv
<1>7. ASSUME NEW k \in DOMAIN steps
      PROVE  /\ k \in DOMAIN steps' /\ (Past(steps[k]) <=> Past(steps'[k]))
             /\ Past(steps[k]) => Lasting(steps'[k]) = Lasting(steps[k])
  <2>1. /\ k \in DOMAIN steps' /\ SameCall(steps'[k], steps[k]) /\ steps'[k].id = steps[k].id
        /\ \/ steps'[k].startedAt = steps[k].startedAt
           \/ steps[k].startedAt = Never /\ steps'[k].startedAt = now
    BY DEF RowsGrow
  <2>2. CASE steps'[k].startedAt = steps[k].startedAt
    BY <2>1, <2>2 DEF Lasting, SameCall
  <2>3. CASE steps[k].startedAt = Never /\ steps'[k].startedAt = now
    <3>1. ~Past(steps[k]) BY <2>3
    <3>2. ~Past(steps'[k]) BY <1>4, <1>6, <2>3
    <3> QED BY <2>1, <3>1, <3>2
  <2> QED BY <2>1, <2>2, <2>3
<1>8. ASSUME NEW k \in DOMAIN steps', k \notin DOMAIN steps PROVE ~Past(steps'[k])
  <2>1. steps'[k].startedAt = Never \/ steps'[k].startedAt >= now
    BY <1>8 DEF RowsGrow
  <2> QED BY <1>4, <1>5, <1>6, <2>1
<1> HIDE DEF Past
<1>9. CaseRecord(i)' = CaseRecord(i)
  <2>1. CaseRecord(i) \subseteq CaseRecord(i)' BY <1>2, <1>3, <1>7
  <2>2. CaseRecord(i)' \subseteq CaseRecord(i) BY <1>2, <1>3, <1>7, <1>8
  <2> QED BY <2>1, <2>2
<1> QED BY <1>1, <1>9

(* A submission adds one row and one event, of a decision made on the rows. *)
LEMMA SubmitAdds ==
  ASSUME PolicyTypeOK, NEW e \in Executions, NEW c \in Calls, NEW answer \in Answers,
         NEW at \in 1..MaxTime, Submit(e, c, answer, at)
  PROVE  \E row, verdict :
           /\ steps' = Append(steps, row)
           /\ row.id = Len(steps) + 1 /\ SameCall(Input(e, c, 0), Input(e, row, 0))
           /\ row.exec = e /\ row.startedAt \in {Never, at}
           /\ row.status \in {"denied", "awaiting_approval", "allowed"} => row.startedAt = Never
           /\ verdict = Evaluate(bundle, Input(e, c, now), AllowedSteps, {}, answer)
           /\ decisions' = Append(decisions, Decision(Len(steps) + 1, verdict, now, at))
           /\ at \in Nat /\ now <= at /\ now' = at + 1 /\ bundle' = bundle
<1> PICK verdict : verdict = Evaluate(bundle, Input(e, c, now), AllowedSteps, {}, answer)
  OBVIOUS
<1>1. at \in Nat /\ now <= at /\ now' = at + 1 /\ bundle' = bundle
  <2>1. MaxLag \in Nat /\ MaxTime \in Nat /\ now \in Nat
    BY PolicyAssumption DEF PolicyTypeOK
  <2> QED BY <2>1 DEF Submit
<1>2. decisions' = Append(decisions, Decision(Len(steps) + 1, verdict, now, at))
  BY DEF Submit
<1>3. PICK row :
        /\ steps' = Append(steps, row)
        /\ \/ row = Row(e, c, "executing", at)
           \/ row = Row(e, c, "denied", Never)
           \/ row = Row(e, c, "awaiting_approval", Never)
  <2>1. CASE verdict = "allow" BY <2>1 DEF Submit
  <2>2. CASE verdict = "deny" BY <2>2 DEF Submit
  <2>3. CASE verdict # "allow" /\ verdict # "deny" BY <2>3 DEF Submit
  <2> QED BY <2>1, <2>2, <2>3
<1>4. /\ row.id = Len(steps) + 1 /\ SameCall(Input(e, c, 0), Input(e, row, 0))
      /\ row.exec = e /\ row.startedAt \in {Never, at}
      /\ row.status \in {"denied", "awaiting_approval", "allowed"} => row.startedAt = Never
  BY <1>3 DEF Row, SameCall, Input
<1> QED BY <1>1, <1>2, <1>3, <1>4

(* What makes the invariant of the next state when no step is new. *)
LEMMA NoneAdded ==
  ASSUME PolicyInv, PolicyTypeOK', RowsGrow, bundle' = bundle, DOMAIN steps' = DOMAIN steps,
         now \in Nat, now' \in Nat, now <= now',
         \/ decisions' = decisions
         \/ \E event : event.step \in DOMAIN steps /\ decisions' = Append(decisions, event)
  PROVE  EventsFollowRows' /\ DecidedByCase'
<1>1. \A i \in DOMAIN steps : FirstDecision(i)' = FirstDecision(i)
  <2>1. CASE decisions' = decisions BY <2>1 DEF FirstDecision
  <2>2. CASE \E event : event.step \in DOMAIN steps /\ decisions' = Append(decisions, event)
    BY <2>2, FirstStands DEF PolicyInv, EventsFollowRows
  <2> QED BY <2>1, <2>2
<1>2. decisions \in Seq(DecisionEvents)
  BY DEF PolicyInv, PolicyTypeOK
<1>3. /\ \A k \in DOMAIN decisions : k \in DOMAIN decisions' /\ decisions'[k] = decisions[k]
      /\ \A k \in DOMAIN decisions' :
           k \notin DOMAIN decisions => decisions'[k].step \in DOMAIN steps
  <2>1. CASE decisions' = decisions BY <2>1
  <2>2. CASE \E event : event.step \in DOMAIN steps /\ decisions' = Append(decisions, event)
    BY <1>2, <2>2
  <2> QED BY <2>1, <2>2
<1>4. \A k \in DOMAIN decisions' : decisions'[k].step \in DOMAIN steps'
  BY <1>3 DEF PolicyInv, EventsFollowRows
<1>5. ASSUME NEW i \in DOMAIN steps'
      PROVE  /\ \E k \in DOMAIN decisions' : decisions'[k].step = i
             /\ FirstDecision(i)'.read <= FirstDecision(i)'.at /\ FirstDecision(i)'.at < now'
  <2>1. \E k \in DOMAIN decisions' : decisions'[k].step = i
    BY <1>3 DEF PolicyInv, EventsFollowRows
  <2>2. /\ FirstDecision(i).read <= FirstDecision(i).at /\ FirstDecision(i).at < now
        /\ FirstDecision(i)' = FirstDecision(i)
    BY <1>1 DEF PolicyInv, EventsFollowRows
  <2>3. FirstDecision(i).at \in Nat
    BY FirstTyped DEF PolicyInv
  <2> QED BY <2>1, <2>2, <2>3
<1>6. EventsFollowRows'
  BY <1>4, <1>5 DEF EventsFollowRows
<1>7. DecidedByCase'
  <2> SUFFICES ASSUME Repeatable(bundle), NEW i \in DOMAIN steps
               PROVE  FirstDecision(i)'.decision =
                        Evaluate(bundle, ReadCase(i)', CaseRecord(i)', {}, NoJudge)
    BY DEF DecidedByCase
  <2>1. FirstDecision(i)' = FirstDecision(i)
    BY <1>1
  <2>2. ReadCase(i)' = ReadCase(i) /\ CaseRecord(i)' = CaseRecord(i)
    BY <2>1, CaseStands
  <2> QED BY <2>1, <2>2 DEF PolicyInv, DecidedByCase
<1> QED BY <1>6, <1>7

(* A submission keeps the invariant. *)
LEMMA SubmitKeeps ==
  ASSUME PolicyInv, PolicyTypeOK', NEW e \in Executions, NEW c \in Calls, NEW answer \in Answers,
         NEW at \in 1..MaxTime, Submit(e, c, answer, at)
  PROVE  PolicyInv'
<1>1. PICK row, verdict :
        /\ steps' = Append(steps, row)
        /\ row.id = Len(steps) + 1 /\ SameCall(Input(e, c, 0), Input(e, row, 0))
        /\ row.exec = e /\ row.startedAt \in {Never, at}
        /\ row.status \in {"denied", "awaiting_approval", "allowed"} => row.startedAt = Never
        /\ verdict = Evaluate(bundle, Input(e, c, now), AllowedSteps, {}, answer)
        /\ decisions' = Append(decisions, Decision(Len(steps) + 1, verdict, now, at))
        /\ at \in Nat /\ now <= at /\ now' = at + 1 /\ bundle' = bundle
  <2>1. PolicyTypeOK BY DEF PolicyInv
  <2> QED BY <2>1, SubmitAdds
<1> PICK new : new = Len(steps) + 1 OBVIOUS
<1>2. /\ PolicyTypeOK /\ steps \in Seq(StepRows) /\ decisions \in Seq(DecisionEvents)
      /\ now \in Nat /\ Len(steps) \in Nat /\ DOMAIN steps = 1..Len(steps)
  BY DEF PolicyInv, PolicyTypeOK
<1>3. /\ DOMAIN steps' = 1..new /\ steps'[new] = row
      /\ \A k \in DOMAIN steps : k \in DOMAIN steps' /\ steps'[k] = steps[k]
  BY <1>1, <1>2
<1>4. \A k \in DOMAIN steps' : k \in DOMAIN steps \/ k = new
  BY <1>2, <1>3
<1>5. new \notin DOMAIN steps
  BY <1>2
<1>6. \A k \in DOMAIN steps :
        steps[k].startedAt \in Nat /\ steps[k].startedAt < now /\ steps[k].id = k
  <2>1. \A k \in DOMAIN steps : steps[k] \in StepRows BY <1>2
  <2> QED BY <2>1 DEF StepRows, PolicyInv, RowsNumbered
<1>7. RowsGrow
  <2>1. \A k \in DOMAIN steps : SameCall(steps'[k], steps[k])
    BY <1>3 DEF SameCall
  <2>2. row.startedAt = Never \/ row.startedAt >= now
    BY <1>1, <1>2
  <2> QED BY <1>3, <1>4, <2>1, <2>2 DEF RowsGrow
<1>8. RowsNumbered'
  <2> SUFFICES ASSUME NEW k \in DOMAIN steps'
               PROVE  /\ steps'[k].id = k /\ steps'[k].startedAt < now'
                      /\ steps'[k].status \in {"denied", "awaiting_approval", "allowed"} =>
                           steps'[k].startedAt = Never
    BY DEF RowsNumbered
  <2>1. CASE k \in DOMAIN steps
    <3>1. steps[k].startedAt < now' BY <1>1, <1>2, <1>6, <2>1
    <3> QED BY <1>3, <1>6, <2>1, <3>1 DEF PolicyInv, RowsNumbered
  <2>2. CASE k = new
    <3>1. row.startedAt < now' BY <1>1, <1>2 DEF Never
    <3> QED BY <1>1, <1>3, <2>2, <3>1
  <2> QED BY <1>4, <2>1, <2>2
<1> DEFINE event == Decision(new, verdict, now, at)
<1>9. event.step = new /\ event.decision = verdict /\ event.read = now /\ event.at = at
  BY DEF Decision
<1>10. decisions' = Append(decisions, event)
  BY <1>1
<1> HIDE DEF event
<1>11. \A k \in DOMAIN decisions : decisions[k].step \in DOMAIN steps /\ decisions[k].step # new
  BY <1>5 DEF PolicyInv, EventsFollowRows
<1>12. FirstDecision(new)' = event
  <2>1. event.step = new BY <1>9
  <2> QED BY <1>2, <1>10, <1>11, <2>1, FirstIsNew
<1>13. \A i \in DOMAIN steps : FirstDecision(i)' = FirstDecision(i)
  BY <1>2, <1>10, FirstStands DEF PolicyInv, EventsFollowRows
<1>14. /\ DOMAIN decisions' = 1..(Len(decisions) + 1) /\ decisions'[Len(decisions) + 1] = event
       /\ Len(decisions) \in Nat /\ DOMAIN decisions = 1..Len(decisions)
       /\ \A k \in DOMAIN decisions : k \in DOMAIN decisions' /\ decisions'[k] = decisions[k]
  BY <1>2, <1>10
<1>15. EventsFollowRows'
  <2>1. \A k \in DOMAIN decisions' : decisions'[k].step \in DOMAIN steps'
    <3> SUFFICES ASSUME NEW k \in DOMAIN decisions' PROVE decisions'[k].step \in DOMAIN steps'
      OBVIOUS
    <3>1. CASE k \in DOMAIN decisions BY <1>3, <1>11, <1>14, <3>1
    <3>2. CASE k = Len(decisions) + 1
      <4>1. new \in DOMAIN steps' BY <1>2, <1>3
      <4> QED BY <1>9, <1>14, <3>2, <4>1
    <3> QED BY <1>14, <3>1, <3>2
  <2>2. ASSUME NEW i \in DOMAIN steps'
        PROVE  /\ \E k \in DOMAIN decisions' : decisions'[k].step = i
               /\ FirstDecision(i)'.read <= FirstDecision(i)'.at /\ FirstDecision(i)'.at < now'
    <3>1. CASE i \in DOMAIN steps
      <4>1. \E k \in DOMAIN decisions' : decisions'[k].step = i
        BY <1>14, <3>1 DEF PolicyInv, EventsFollowRows
      <4>2. /\ FirstDecision(i).read <= FirstDecision(i).at /\ FirstDecision(i).at < now
            /\ FirstDecision(i).at \in Nat
        BY <1>2, <3>1, FirstTyped DEF PolicyInv, EventsFollowRows
      <4>3. FirstDecision(i).at < now' BY <1>1, <1>2, <4>2
      <4> QED BY <1>13, <3>1, <4>1, <4>2, <4>3
    <3>2. CASE i = new
      <4>1. Len(decisions) + 1 \in DOMAIN decisions' BY <1>14
      <4>2. \E k \in DOMAIN decisions' : decisions'[k].step = i BY <1>9, <1>14, <3>2, <4>1
      <4>3. at < now' BY <1>1
      <4> QED BY <1>1, <1>2, <1>9, <1>12, <3>2, <4>2, <4>3
    <3> QED BY <1>4, <3>1, <3>2
  <2> QED BY <2>1, <2>2 DEF EventsFollowRows
<1>16. DecidedByCase'
  <2> SUFFICES ASSUME Repeatable(bundle), NEW i \in DOMAIN steps'
               PROVE  FirstDecision(i)'.decision =
                        Evaluate(bundle, ReadCase(i)', CaseRecord(i)', {}, NoJudge)
    BY <1>1 DEF DecidedByCase
  <2>1. CASE i \in DOMAIN steps
    <3>1. ReadCase(i)' = ReadCase(i) /\ CaseRecord(i)' = CaseRecord(i)
      BY <1>7, <1>13, <2>1, CaseStands
    <3> QED BY <1>13, <2>1, <3>1 DEF PolicyInv, DecidedByCase
  <2>2. CASE i = new
    <3>1. ReadCase(i)' = Input(e, row, now)
      <4>1. FirstDecision(i)'.read = now BY <1>9, <1>12, <2>2
      <4>2. steps'[i] = row /\ row.exec = e BY <1>1, <1>3, <2>2
      <4> QED BY <4>1, <4>2 DEF ReadCase
    <3>2. CaseHistory(i)' = AllowedSteps
      <4>1. FirstDecision(i)'.at = at BY <1>9, <1>12, <2>2
      <4>2. CaseHistory(i)' = {s \in AllowedSteps' : s.id # new /\ s.startedAt <= at}
        BY <2>2, <4>1 DEF CaseHistory
      <4>3. ASSUME NEW s \in AllowedSteps
            PROVE  s \in AllowedSteps' /\ s.id # new /\ s.startedAt <= at
        <5>1. PICK k \in DOMAIN steps : s = steps[k] /\ s.startedAt # Never
          BY DEF AllowedSteps, Known
        <5>2. s \in AllowedSteps' BY <1>3, <5>1 DEF AllowedSteps, Known
        <5>3. s.id # new BY <1>5, <1>6, <5>1
        <5>4. s.startedAt <= at BY <1>1, <1>2, <1>6, <5>1
        <5> QED BY <5>2, <5>3, <5>4
      <4>4. ASSUME NEW s \in AllowedSteps', s.id # new PROVE s \in AllowedSteps
        <5>1. PICK k \in DOMAIN steps' : s = steps'[k] /\ s.startedAt # Never
          BY DEF AllowedSteps, Known
        <5>2. k # new BY <1>1, <1>3, <4>4, <5>1
        <5> QED BY <1>3, <1>4, <5>1, <5>2 DEF AllowedSteps, Known
      <4> QED BY <4>2, <4>3, <4>4
    <3>3. CaseRecord(i)' = {Lasting(s) : s \in AllowedSteps}
      BY <3>2 DEF CaseRecord, Lasting
    <3>4. ~ \E scope \in Scopes, s \in AllowedSteps : \E w \in Windows(bundle, scope) \ {0} :
              s.startedAt \in now - w .. now - w - 1
      <4>1. ASSUME NEW scope \in Scopes, NEW w \in Windows(bundle, scope), NEW t,
                   t \in now - w .. now - w - 1
            PROVE  FALSE
        <5>1. bundle \in Bundles BY <1>2 DEF PolicyTypeOK
        <5>2. w \in Nat BY <5>1, WindowsFinite
        <5> QED BY <1>2, <4>1, <5>2
      <4> QED BY <4>1
    <3>5. Evaluate(bundle, Input(e, c, now), AllowedSteps, {}, answer) =
            Evaluate(bundle, Input(e, row, now), {Lasting(s) : s \in AllowedSteps}, {}, NoJudge)
      <4>1. RowsNumbered BY DEF PolicyInv
      <4>2. now <= now BY <1>2
      <4>3. SameCall(Input(e, c, 0), Input(e, row, 0)) BY <1>1
      <4> PICK at0 : at0 = now OBVIOUS
      <4>4. PolicyTypeOK /\ at0 \in Nat /\ at0 <= at0 BY <1>2, <4>2
      <4> PICK K : K = AllowedSteps OBVIOUS
      <4>5. ~ \E scope \in Scopes, s \in K : \E w \in Windows(bundle, scope) \ {0} :
                s.startedAt \in at0 - w .. at0 - w - 1
        BY <3>4
      <4>6. Evaluate(bundle, Input(e, c, at0), K, {}, answer) =
              Evaluate(bundle, Input(e, row, at0), {Lasting(s) : s \in K}, {}, NoJudge)
        <5>1. K \in SUBSET AllowedSteps /\ Repeatable(bundle) OBVIOUS
        <5> QED BY <4>1, <4>3, <4>4, <4>5, <5>1, DecidesAlike
      <4> QED BY <4>6
    <3>6. FirstDecision(i)'.decision = verdict
      BY <1>9, <1>12, <2>2
    <3> QED BY <1>1, <3>1, <3>3, <3>5, <3>6
  <2> QED BY <1>4, <2>1, <2>2
<1> QED BY <1>8, <1>15, <1>16 DEF PolicyInv

(* The other steps of the session keep it, too. *)
LEMMA OthersKeep ==
  ASSUME PolicyInv, PolicyTypeOK',
         \/ \E i \in DOMAIN steps :
              (\E v \in {"allow", "deny"} : Resolve(i, v)) \/ Start(i) \/ SettleStep(i)
         \/ PassTime
         \/ UNCHANGED policyVars
  PROVE  PolicyInv'
<1>1. /\ steps \in Seq(StepRows) /\ now \in Nat /\ now' \in Nat
      /\ \A k \in DOMAIN steps : steps[k] \in StepRows
  BY DEF PolicyInv, PolicyTypeOK
<1> DEFINE Stands(k) ==
             /\ steps'[k].id = steps[k].id /\ SameCall(steps'[k], steps[k])
             /\ \/ steps'[k].startedAt = steps[k].startedAt
                \/ steps[k].startedAt = Never /\ steps'[k].startedAt = now /\ now < now'
             /\ steps'[k].status \in {"denied", "awaiting_approval", "allowed"} =>
                  steps'[k].startedAt = Never
<1>2. ASSUME DOMAIN steps' = DOMAIN steps, \A k \in DOMAIN steps : Stands(k),
             bundle' = bundle, now <= now',
             \/ decisions' = decisions
             \/ \E event : event.step \in DOMAIN steps /\ decisions' = Append(decisions, event)
      PROVE  PolicyInv'
  <2>1. RowsGrow
    BY <1>2 DEF RowsGrow
  <2>2. RowsNumbered'
    <3> SUFFICES ASSUME NEW k \in DOMAIN steps
                 PROVE  /\ steps'[k].id = k /\ steps'[k].startedAt < now'
                        /\ steps'[k].status \in {"denied", "awaiting_approval", "allowed"} =>
                             steps'[k].startedAt = Never
      BY <1>2 DEF RowsNumbered
    <3>1. steps[k].id = k /\ steps[k].startedAt < now /\ steps[k].startedAt \in Nat
      BY <1>1 DEF PolicyInv, RowsNumbered, StepRows
    <3>2. steps'[k].startedAt < now'
      BY <1>1, <1>2, <3>1
    <3> QED BY <1>2, <3>1, <3>2
  <2> HIDE DEF Stands
  <2> QED BY <1>1, <1>2, <2>1, <2>2, NoneAdded DEF PolicyInv
<1>3. \A k \in DOMAIN steps : steps'[k] = steps[k] => Stands(k)
  BY DEF SameCall, PolicyInv, RowsNumbered
<1>4. ASSUME NEW i \in DOMAIN steps, NEW v \in {"allow", "deny"}, Resolve(i, v)
      PROVE  PolicyInv'
  <2>1. PICK status : steps' = [steps EXCEPT ![i].status = status]
    BY <1>4 DEF Resolve
  <2>2. steps[i].startedAt = Never
    BY <1>4 DEF Resolve, PolicyInv, RowsNumbered
  <2>3. DOMAIN steps' = DOMAIN steps /\ \A k \in DOMAIN steps : k # i => steps'[k] = steps[k]
    BY <1>1, <2>1
  <2>4. steps'[i] = [steps[i] EXCEPT !.status = status]
    BY <1>1, <2>1
  <2>5. Stands(i)
    BY <1>1, <2>2, <2>4 DEF StepRows, SameCall
  <2>6. \A k \in DOMAIN steps : Stands(k)
    <3> HIDE DEF Stands
    <3> QED BY <1>3, <2>3, <2>5
  <2>7. /\ decisions' = Append(decisions, Decision(i, v, now, now))
        /\ Decision(i, v, now, now).step = i
        /\ bundle' = bundle /\ now' = now
    BY <1>4 DEF Resolve, Decision
  <2>8. now <= now' BY <1>1, <2>7
  <2> HIDE DEF Stands
  <2> QED BY <1>2, <2>3, <2>6, <2>7, <2>8
<1>5. ASSUME NEW i \in DOMAIN steps, Start(i)
      PROVE  PolicyInv'
  <2>1. /\ steps' = [steps EXCEPT ![i].status = "executing", ![i].startedAt = now]
        /\ bundle' = bundle /\ now' = now + 1 /\ decisions' = decisions
    BY <1>5 DEF Start
  <2>2. steps[i].startedAt = Never
    BY <1>5 DEF Start, PolicyInv, RowsNumbered
  <2>3. DOMAIN steps' = DOMAIN steps /\ \A k \in DOMAIN steps : k # i => steps'[k] = steps[k]
    BY <1>1, <2>1
  <2>4. steps'[i] = [steps[i] EXCEPT !.status = "executing", !.startedAt = now]
    BY <1>1, <2>1
  <2>5. now < now' /\ now <= now'
    BY <1>1, <2>1
  <2>6. Stands(i)
    BY <1>1, <2>2, <2>4, <2>5 DEF StepRows, SameCall
  <2>7. \A k \in DOMAIN steps : Stands(k)
    <3> HIDE DEF Stands
    <3> QED BY <1>3, <2>3, <2>6
  <2> HIDE DEF Stands
  <2> QED BY <1>2, <2>1, <2>3, <2>5, <2>7
<1>6. ASSUME NEW i \in DOMAIN steps, SettleStep(i)
      PROVE  PolicyInv'
  <2>1. PICK row :
          /\ steps' = [steps EXCEPT ![i] = row]
          /\ \/ \E r \in Results : row = [steps[i] EXCEPT !.status = "succeeded", !.result = r]
             \/ row = [steps[i] EXCEPT !.status = "failed"]
    BY <1>6 DEF SettleStep
  <2>2. bundle' = bundle /\ now' = now /\ decisions' = decisions /\ now <= now'
    <3>1. bundle' = bundle /\ now' = now /\ decisions' = decisions BY <1>6 DEF SettleStep
    <3> QED BY <1>1, <3>1
  <2>3. /\ DOMAIN steps' = DOMAIN steps /\ steps'[i] = row
        /\ \A k \in DOMAIN steps : k # i => steps'[k] = steps[k]
    BY <1>1, <2>1
  <2>4. Stands(i)
    <3>1. steps[i] \in StepRows BY <1>1
    <3>2. /\ row.id = steps[i].id /\ SameCall(row, steps[i]) /\ row.startedAt = steps[i].startedAt
          /\ row.status \in {"succeeded", "failed"}
      <4>1. ASSUME NEW r \in Results, row = [steps[i] EXCEPT !.status = "succeeded", !.result = r]
            PROVE  /\ row.id = steps[i].id /\ SameCall(row, steps[i])
                   /\ row.startedAt = steps[i].startedAt /\ row.status = "succeeded"
        BY <3>1, <4>1 DEF StepRows, SameCall
      <4>2. ASSUME row = [steps[i] EXCEPT !.status = "failed"]
            PROVE  /\ row.id = steps[i].id /\ SameCall(row, steps[i])
                   /\ row.startedAt = steps[i].startedAt /\ row.status = "failed"
        BY <3>1, <4>2 DEF StepRows, SameCall
      <4> QED BY <2>1, <4>1, <4>2
    <3> QED BY <2>3, <3>2
  <2>5. \A k \in DOMAIN steps : Stands(k)
    <3> HIDE DEF Stands
    <3> QED BY <1>3, <2>3, <2>4
  <2> HIDE DEF Stands
  <2> QED BY <1>2, <2>2, <2>3, <2>5
<1>7. ASSUME steps' = steps, bundle' = bundle, decisions' = decisions, now <= now'
      PROVE  PolicyInv'
  <2>1. \A k \in DOMAIN steps : Stands(k)
    <3> HIDE DEF Stands
    <3> QED BY <1>3, <1>7
  <2> HIDE DEF Stands
  <2> QED BY <1>2, <1>7, <2>1
<1>8. CASE PassTime
  <2>1. now <= now' BY <1>1, <1>8 DEF PassTime
  <2> QED BY <1>7, <1>8, <2>1 DEF PassTime
<1>9. CASE UNCHANGED policyVars
  <2>1. now <= now' BY <1>1, <1>9 DEF policyVars
  <2> QED BY <1>7, <1>9, <2>1 DEF policyVars
<1> HIDE DEF Stands
<1> QED BY <1>4, <1>5, <1>6, <1>8, <1>9

(* Every reachable state satisfies the invariant. *)
THEOREM PolicyInvariance == PolicySpec => []PolicyInv
<1>1. PolicyInit => PolicyInv
  BY DEF PolicyInit, PolicyInv, PolicyTypeOK, RowsNumbered, EventsFollowRows, DecidedByCase
<1>2. PolicyInv /\ PolicyTypeOK' /\ [PolicyNext]_policyVars => PolicyInv'
  BY SubmitKeeps, OthersKeep DEF PolicyNext
<1> QED BY <1>1, <1>2, PolicyTyped, PTL DEF PolicySpec

(* Replaying the recorded steps of a session through the bundle that        *)
(* decided them gives each the decision it was recorded with, but at the    *)
(* edge of a window, whatever was submitted, approved, started or settled   *)
(* since.                                                                   *)
THEOREM ReplaysReproduce == PolicySpec => []ReplayReproduces
<1>1. ASSUME PolicyInv PROVE ReplayReproduces
  <2> SUFFICES ASSUME Repeatable(bundle), NEW i \in DOMAIN steps, ~WindowMoved(bundle, i)
               PROVE  Passes(bundle, i)
    BY DEF ReplayReproduces
  <2> DEFINE first == FirstDecision(i)
  <2>1. /\ PolicyTypeOK /\ RowsNumbered
        /\ first.read \in Nat /\ first.at \in Nat /\ first.read <= first.at
    BY <1>1, FirstTyped DEF PolicyInv, EventsFollowRows
  <2> PICK at, read, e, row :
         at = first.at /\ read = first.read /\ e = steps[i].exec /\ row = steps[i]
    OBVIOUS
  <2> PICK K : K = CaseHistory(i) OBVIOUS
  <2>2. K \in SUBSET AllowedSteps
    BY DEF CaseHistory
  <2>3. ~ \E scope \in Scopes, s \in K : \E w \in Windows(bundle, scope) \ {0} :
            s.startedAt \in read - w .. at - w - 1
    BY DEF WindowMoved
  <2>4. SameCall(Input(e, row, 0), Input(e, row, 0))
    BY DEF SameCall
  <2>5. Evaluate(bundle, Input(e, row, at), K, {}, NoJudge) =
          Evaluate(bundle, Input(e, row, read), {Lasting(s) : s \in K}, {}, NoJudge)
    <3>1. at \in Nat /\ read \in Nat /\ read <= at BY <2>1
    <3> HIDE DEF first
    <3> QED BY <2>1, <2>2, <2>3, <2>4, <3>1, DecidesAlike
  <2>6. Replay(bundle, i) = Evaluate(bundle, Input(e, row, at), K, {}, NoJudge)
    BY DEF Replay, ReplayCase
  <2>7. FirstDecision(i).decision =
          Evaluate(bundle, Input(e, row, read), {Lasting(s) : s \in K}, {}, NoJudge)
    BY <1>1 DEF PolicyInv, DecidedByCase, ReadCase, CaseRecord
  <2> QED BY <2>5, <2>6, <2>7 DEF Passes
<1> QED BY <1>1, PolicyInvariance, PTL

-----------------------------------------------------------------------------
(* BundleCache                                                              *)

Texts == Sound \cup Broken \cup {NoAgent, NoBundle}
CacheEntries == [agent : Agents, text : Sound, engine : Sound]
SubmissionRecords ==
  [phase : {"idle", "looked up", "decided"}, agent : Agents \cup {NoAgent},
   override : Sound \cup {NoBundle}, text : Texts,
   by : Sound \cup {"none", "bundle-error", "permissive"}]

CacheTypeOK ==
  /\ stored \in [Agents -> Texts]
  /\ cache \in Seq(CacheEntries)
  /\ submissions \in [Submissions -> SubmissionRecords]

(* An entry's engine was compiled from the text beside it.                  *)
EnginesMatch(entries) == \A i \in 1..Len(entries) : entries[i].engine = entries[i].text

OneEntryPerAgent(entries) ==
  \A i, j \in 1..Len(entries) : entries[i].agent = entries[j].agent => i = j

CacheInv ==
  /\ CacheTypeOK
  /\ EnginesMatch(cache) /\ OneEntryPerAgent(cache) /\ Len(cache) <= Capacity
  /\ \A w \in Submissions :
       /\ submissions[w].phase = "looked up" => submissions[w].agent \in Agents
       /\ submissions[w].phase = "decided" => submissions[w].by = Expected(submissions[w])

-----------------------------------------------------------------------------
(* What the two moves of the list do to the positions of its entries.       *)
ToFront(s, i, e) == <<e>> \o RemoveAt(s, i)

LEMMA MovedPositions ==
  ASSUME NEW S, NEW s \in Seq(S), NEW i \in 1..Len(s), NEW e \in S
  PROVE  /\ ToFront(s, i, e) \in Seq(S)
         /\ Len(ToFront(s, i, e)) = Len(s)
         /\ ToFront(s, i, e)[1] = e
         /\ \A k \in 2..Len(s) : ToFront(s, i, e)[k] = s[IF k <= i THEN k - 1 ELSE k]
<1> DEFINE t == ToFront(s, i, e)
<1>1. Len(s) \in Nat /\ i \in Nat /\ 1 <= i /\ i <= Len(s)
  OBVIOUS
<1> DEFINE before == SubSeq(s, 1, i - 1)
           after == SubSeq(s, i + 1, Len(s))
<1>2. /\ before \in Seq(S) /\ Len(before) = i - 1
      /\ \A k \in 1..(i - 1) : before[k] = s[k]
  BY <1>1
<1>3. /\ after \in Seq(S) /\ Len(after) = Len(s) - i
      /\ \A k \in 1..(Len(s) - i) : after[k] = s[i + k]
  BY <1>1
<1> HIDE DEF before, after
<1>4. /\ before \o after \in Seq(S) /\ Len(before \o after) = Len(s) - 1
      /\ \A k \in 1..(Len(s) - 1) :
           (before \o after)[k] = s[IF k <= i - 1 THEN k ELSE k + 1]
  <2>1. Len(before) + Len(after) = Len(s) - 1
    BY <1>1, <1>2, <1>3
  <2>2. before \o after \in Seq(S) /\ Len(before \o after) = Len(s) - 1
    BY <1>2, <1>3, <2>1, ConcatProperties
  <2>3. ASSUME NEW k \in 1..(Len(s) - 1)
        PROVE  (before \o after)[k] = s[IF k <= i - 1 THEN k ELSE k + 1]
    <3>1. (before \o after)[k] =
            IF k <= Len(before) THEN before[k] ELSE after[k - Len(before)]
      BY <1>2, <1>3, <2>1, ConcatProperties
    <3>2. CASE k <= i - 1
      BY <1>1, <1>2, <3>1, <3>2
    <3>3. CASE k > i - 1
      <4>1. k - (i - 1) \in 1..(Len(s) - i) /\ i + (k - (i - 1)) = k + 1
        BY <1>1, <3>3
      <4> QED
        BY <1>1, <1>2, <1>3, <3>1, <3>3, <4>1
    <3>4. k <= i - 1 \/ k > i - 1
      BY <1>1
    <3> QED
      BY <3>2, <3>3, <3>4
  <2> QED
    BY <2>2, <2>3
<1>5. RemoveAt(s, i) = before \o after
  BY DEF RemoveAt, before, after
<1> DEFINE rest == before \o after
<1>6. t = <<e>> \o rest /\ rest \in Seq(S) /\ Len(rest) = Len(s) - 1
  BY <1>4, <1>5 DEF ToFront
<1>7. \A k \in 1..(Len(s) - 1) : rest[k] = s[IF k <= i - 1 THEN k ELSE k + 1]
  BY <1>4
<1> HIDE DEF rest, t
<1>8. /\ t \in Seq(S) /\ Len(t) = Len(s) /\ t[1] = e
      /\ \A k \in 2..Len(s) : t[k] = rest[k - 1]
  <2> DEFINE one == <<e>>
  <2>1. one \in Seq(S) /\ Len(one) = 1 /\ one[1] = e
    OBVIOUS
  <2>2. t = one \o rest
    BY <1>6
  <2> HIDE DEF one
  <2>3. /\ t \in Seq(S)
        /\ Len(t) = Len(one) + Len(rest)
        /\ \A k \in 1 .. Len(one) + Len(rest) :
             t[k] = IF k <= Len(one) THEN one[k] ELSE rest[k - Len(one)]
    <3>1. /\ one \o rest \in Seq(S)
          /\ Len(one \o rest) = Len(one) + Len(rest)
          /\ \A k \in 1 .. Len(one) + Len(rest) :
               (one \o rest)[k] = IF k <= Len(one) THEN one[k] ELSE rest[k - Len(one)]
      BY <1>6, <2>1, ConcatProperties, Zenon
    <3> QED
      BY <2>2, <3>1, Zenon
  <2>4. Len(one) + Len(rest) = Len(s)
    BY <1>1, <1>6, <2>1
  <2>5. t[1] = e
    BY <1>1, <2>1, <2>3, <2>4
  <2>6. ASSUME NEW k \in 2..Len(s) PROVE t[k] = rest[k - 1]
    BY <1>1, <2>1, <2>3, <2>4
  <2> QED
    BY <2>3, <2>4, <2>5, <2>6
<1>9. ASSUME NEW k \in 2..Len(s)
      PROVE  t[k] = s[IF k <= i THEN k - 1 ELSE k]
  <2>1. t[k] = rest[k - 1] /\ k - 1 \in 1..(Len(s) - 1)
    BY <1>1, <1>8
  <2>2. t[k] = s[IF k - 1 <= i - 1 THEN k - 1 ELSE (k - 1) + 1]
    BY <1>7, <2>1
  <2>3. CASE k <= i
    <3>1. k - 1 <= i - 1
      BY <1>1, <2>3
    <3> QED
      BY <2>2, <2>3, <3>1
  <2>4. CASE k > i
    <3>1. ~(k - 1 <= i - 1) /\ ~(k <= i) /\ (k - 1) + 1 = k
      BY <1>1, <2>4
    <3> QED
      BY <2>2, <3>1
  <2>5. k <= i \/ k > i
    BY <1>1
  <2> QED
    BY <2>3, <2>4, <2>5
<1> QED
  BY <1>8, <1>9 DEF t

LEMMA PushedPositions ==
  ASSUME CacheInv, NEW e \in CacheEntries
  PROVE  /\ PushFront(e) \in Seq(CacheEntries)
         /\ Len(PushFront(e)) \in 1..Capacity
         /\ PushFront(e)[1] = e
         /\ \A k \in 2..Len(PushFront(e)) :
              PushFront(e)[k] = cache[k - 1] /\ k - 1 \in 1..Len(cache)
<1> DEFINE longer == <<e>> \o cache
<1>1. cache \in Seq(CacheEntries) /\ Len(cache) \in Nat /\ Len(cache) <= Capacity
  BY LenProperties DEF CacheInv, CacheTypeOK
<1>2. /\ longer \in Seq(CacheEntries) /\ Len(longer) = Len(cache) + 1
      /\ longer[1] = e
      /\ \A k \in 2..(Len(cache) + 1) : longer[k] = cache[k - 1]
  BY <1>1
<1>3. Capacity \in Nat /\ Capacity >= 1
  BY BundleCacheAssumption
<1>4. PushFront(e) = IF Len(longer) > Capacity THEN Front(longer) ELSE longer
  BY DEF PushFront
<1> HIDE DEF longer
<1>5. CASE Len(longer) > Capacity
  <2>1. PushFront(e) = SubSeq(longer, 1, Len(cache))
    BY <1>1, <1>2, <1>4, <1>5 DEF Front
  <2>2. Len(cache) = Capacity
    BY <1>1, <1>2, <1>3, <1>5
  <2>3. /\ PushFront(e) \in Seq(CacheEntries) /\ Len(PushFront(e)) = Len(cache)
        /\ \A k \in 1..Len(cache) : PushFront(e)[k] = longer[k]
    BY <1>1, <1>2, <2>1
  <2> QED
    BY <1>1, <1>2, <1>3, <2>2, <2>3
<1>6. CASE Len(longer) <= Capacity
  BY <1>1, <1>2, <1>3, <1>4, <1>6
<1> QED
  BY <1>1, <1>2, <1>3, <1>5, <1>6

(* An agent's entry is renewed or replaced: it stays the only one, and the  *)
(* others keep theirs.                                                      *)
LEMMA MoveKeepsCache ==
  ASSUME CacheInv, NEW i \in 1..Len(cache), NEW e \in CacheEntries,
         e.agent = cache[i].agent, e.engine = e.text
  PROVE  /\ MoveToFront(i, e) \in Seq(CacheEntries)
         /\ EnginesMatch(MoveToFront(i, e)) /\ OneEntryPerAgent(MoveToFront(i, e))
         /\ Len(MoveToFront(i, e)) <= Capacity
<1> DEFINE t == MoveToFront(i, e)
           old(k) == IF k <= i THEN k - 1 ELSE k
<1>1. cache \in Seq(CacheEntries) /\ Len(cache) \in Nat /\ i \in Nat
  <2>1. cache \in Seq(CacheEntries) /\ Len(cache) \in Nat
    BY LenProperties DEF CacheInv, CacheTypeOK
  <2> QED
    BY <2>1
<1>2. /\ t \in Seq(CacheEntries) /\ Len(t) = Len(cache) /\ t[1] = e
      /\ \A k \in 2..Len(cache) : t[k] = cache[old(k)]
  <2>1. t = ToFront(cache, i, e)
    BY DEF MoveToFront, ToFront
  <2>2. /\ ToFront(cache, i, e) \in Seq(CacheEntries)
        /\ Len(ToFront(cache, i, e)) = Len(cache)
        /\ ToFront(cache, i, e)[1] = e
        /\ \A k \in 2..Len(cache) :
             ToFront(cache, i, e)[k] = cache[IF k <= i THEN k - 1 ELSE k]
    <3>1. \A S : \A s \in Seq(S) : \A j \in 1..Len(s) : \A f \in S :
            /\ ToFront(s, j, f) \in Seq(S)
            /\ Len(ToFront(s, j, f)) = Len(s)
            /\ ToFront(s, j, f)[1] = f
            /\ \A k \in 2..Len(s) : ToFront(s, j, f)[k] = s[IF k <= j THEN k - 1 ELSE k]
      BY MovedPositions
    <3>2. cache \in Seq(CacheEntries)
      BY <1>1
    <3>3. ToFront(cache, i, e) \in Seq(CacheEntries)
      BY <3>1, <3>2
    <3> QED
      BY <3>1, <3>2
  <2> HIDE DEF t
  <2> QED
    BY <2>1, <2>2
<1>3. \A k \in 2..Len(cache) : old(k) \in 1..Len(cache) /\ old(k) # i
  BY <1>1
<1>4. \A k, l \in 2..Len(cache) : old(k) = old(l) => k = l
  BY <1>1
<1> HIDE DEF t, old
<1>5. \A k \in 1..Len(t) : k = 1 \/ k \in 2..Len(cache)
  BY <1>1, <1>2
<1>6. EnginesMatch(t)
  BY <1>2, <1>3, <1>5 DEF CacheInv, EnginesMatch
<1>7. OneEntryPerAgent(t)
  <2> SUFFICES ASSUME NEW k \in 1..Len(t), NEW l \in 1..Len(t), t[k].agent = t[l].agent
               PROVE  k = l
    BY DEF OneEntryPerAgent
  <2>1. \A m \in 2..Len(cache) : t[m].agent # e.agent
    BY <1>2, <1>3 DEF CacheInv, OneEntryPerAgent
  <2>2. CASE k = 1 \/ l = 1
    BY <1>2, <1>5, <2>1, <2>2
  <2>3. CASE k \in 2..Len(cache) /\ l \in 2..Len(cache)
    <3>1. cache[old(k)].agent = cache[old(l)].agent
      BY <1>2, <2>3
    <3>2. old(k) = old(l)
      BY <1>3, <2>3, <3>1 DEF CacheInv, OneEntryPerAgent
    <3> QED
      BY <1>4, <2>3, <3>2
  <2> QED
    BY <1>5, <2>2, <2>3
<1> QED
  BY <1>2, <1>6, <1>7 DEF CacheInv, t

(* A new agent's entry pushes the one used longest ago out of a full cache. *)
LEMMA PushKeepsCache ==
  ASSUME CacheInv, NEW e \in CacheEntries, EntriesOf(e.agent) = {}, e.engine = e.text
  PROVE  /\ PushFront(e) \in Seq(CacheEntries)
         /\ EnginesMatch(PushFront(e)) /\ OneEntryPerAgent(PushFront(e))
         /\ Len(PushFront(e)) <= Capacity
<1> DEFINE t == PushFront(e)
<1>1. /\ t \in Seq(CacheEntries) /\ Len(t) \in 1..Capacity /\ t[1] = e
      /\ \A k \in 2..Len(t) : t[k] = cache[k - 1] /\ k - 1 \in 1..Len(cache)
  BY PushedPositions
<1> HIDE DEF t
<1>2. \A k \in 1..Len(t) : k = 1 \/ k \in 2..Len(t)
  BY <1>1
<1>3. \A j \in 1..Len(cache) : cache[j].agent # e.agent
  <2>1. DOMAIN cache = 1..Len(cache)
    BY LenProperties DEF CacheInv, CacheTypeOK
  <2> QED
    BY <2>1 DEF EntriesOf
<1>4. EnginesMatch(t)
  BY <1>1, <1>2 DEF CacheInv, EnginesMatch
<1>5. OneEntryPerAgent(t)
  <2> SUFFICES ASSUME NEW k \in 1..Len(t), NEW l \in 1..Len(t), t[k].agent = t[l].agent
               PROVE  k = l
    BY DEF OneEntryPerAgent
  <2>1. \A m \in 2..Len(t) : t[m].agent # e.agent
    BY <1>1, <1>3
  <2>2. CASE k = 1 \/ l = 1
    BY <1>1, <1>2, <2>1, <2>2
  <2>3. CASE k \in 2..Len(t) /\ l \in 2..Len(t)
    <3>1. k - 1 = l - 1
      BY <1>1, <2>3 DEF CacheInv, OneEntryPerAgent
    <3> QED
      BY <3>1
  <2> QED
    BY <1>2, <2>2, <2>3
<1>6. Len(t) <= Capacity
  BY <1>1, BundleCacheAssumption
<1> QED
  BY <1>1, <1>4, <1>5, <1>6 DEF t

-----------------------------------------------------------------------------
LEMMA CacheInit_Inv == CacheInit => CacheInv
<1> SUFFICES ASSUME CacheInit PROVE CacheInv
  OBVIOUS
<1>1. NotSubmitted \in SubmissionRecords /\ NotSubmitted.phase = "idle"
  BY DEF NotSubmitted, SubmissionRecords, Texts
<1>2. \A w \in Submissions : submissions[w] = NotSubmitted
  BY DEF CacheInit
<1>3. stored \in [Agents -> Texts] /\ submissions \in [Submissions -> SubmissionRecords]
  BY <1>1 DEF CacheInit, Texts
<1>4. cache = <<>> /\ cache \in Seq(CacheEntries) /\ Len(cache) = 0
  BY DEF CacheInit
<1>5. EnginesMatch(cache) /\ OneEntryPerAgent(cache) /\ Len(cache) <= Capacity
  BY <1>4, BundleCacheAssumption DEF EnginesMatch, OneEntryPerAgent
<1> QED
  BY <1>1, <1>2, <1>3, <1>4, <1>5 DEF CacheInv, CacheTypeOK

LEMMA BundlesChangeInv ==
  ASSUME CacheInv, NEW a \in Agents,
         \/ \E text \in Sound \cup {NoBundle} : RegisterAgent(a, text) \/ LoadPolicyBundle(a, text)
         \/ DeleteAgent(a)
  PROVE  CacheInv'
<1>1. PICK text \in Texts : stored' = [stored EXCEPT ![a] = text]
  BY DEF RegisterAgent, LoadPolicyBundle, DeleteAgent, KeptBundle, Texts, CacheInv, CacheTypeOK
<1>2. UNCHANGED <<cache, submissions>>
  BY DEF RegisterAgent, LoadPolicyBundle, DeleteAgent
<1>3. stored' \in [Agents -> Texts]
  BY <1>1 DEF CacheInv, CacheTypeOK
<1> QED
  BY <1>2, <1>3 DEF CacheInv, CacheTypeOK

(* One submission moves on, the cache is left as an invariant one.          *)
LEMMA SubmissionMoves ==
  ASSUME CacheInv, NEW w \in Submissions, NEW record \in SubmissionRecords,
         submissions' = [submissions EXCEPT ![w] = record],
         record.phase = "looked up" => record.agent \in Agents,
         record.phase = "decided" => record.by = Expected(record),
         UNCHANGED stored,
         cache' \in Seq(CacheEntries), EnginesMatch(cache'), OneEntryPerAgent(cache'),
         Len(cache') <= Capacity
  PROVE  CacheInv'
<1>1. \A v \in Submissions : submissions'[v] = IF v = w THEN record ELSE submissions[v]
  BY DEF CacheInv, CacheTypeOK
<1>2. CacheTypeOK'
  BY DEF CacheInv, CacheTypeOK
<1>3. \A v \in Submissions :
        /\ submissions'[v].phase = "looked up" => submissions'[v].agent \in Agents
        /\ submissions'[v].phase = "decided" => submissions'[v].by = Expected(submissions'[v])
  BY <1>1 DEF CacheInv
<1> QED
  BY <1>2, <1>3 DEF CacheInv, EnginesMatch, OneEntryPerAgent

LEMMA GetAgentInv ==
  ASSUME CacheInv, NEW w \in Submissions, NEW a \in Agents,
         NEW override \in Sound \cup {NoBundle}, GetAgent(w, a, override)
  PROVE  CacheInv'
<1>1. PICK text \in IF override = NoBundle THEN {stored[a], NoAgent} ELSE {NoBundle} :
        submissions' = [submissions EXCEPT ![w] =
          [phase |-> "looked up", agent |-> a, override |-> override, text |-> text,
           by |-> "none"]]
  BY DEF GetAgent
<1> DEFINE record == [phase |-> "looked up", agent |-> a, override |-> override, text |-> text,
                      by |-> "none"]
<1>2. text \in Texts
  BY <1>1 DEF CacheInv, CacheTypeOK, Texts
<1>3. record \in SubmissionRecords /\ record.phase = "looked up" /\ record.agent = a
  BY <1>2 DEF SubmissionRecords
<1>4. UNCHANGED <<stored, cache>>
  BY DEF GetAgent
<1> HIDE DEF record
<1> QED
  BY <1>1, <1>3, <1>4, SubmissionMoves DEF record, CacheInv, CacheTypeOK

(* Whether the entry is found, replaced or new, the engine that answers was *)
(* compiled from the text that the submission read.                         *)
LEMMA CompiledInv ==
  ASSUME CacheInv, NEW w \in Submissions, Compiled(w)
  PROVE  CacheInv'
<1> DEFINE a == submissions[w].agent
           text == submissions[w].text
           decided(engine) == [submissions[w] EXCEPT !.phase = "decided", !.by = engine]
<1>1. /\ submissions[w] \in SubmissionRecords
      /\ submissions[w].phase = "looked up" /\ submissions[w].override = NoBundle
      /\ text \in Sound \cup Broken /\ a \in Agents
  BY DEF Compiled, CacheInv, CacheTypeOK
<1>2. UNCHANGED stored
  BY DEF Compiled
<1>3. cache \in Seq(CacheEntries) /\ DOMAIN cache = 1..Len(cache)
  BY LenProperties DEF CacheInv, CacheTypeOK
<1>4. \A engine \in Sound \cup {"bundle-error"} :
        /\ decided(engine) \in SubmissionRecords
        /\ decided(engine).phase = "decided" /\ decided(engine).by = engine
        /\ decided(engine).override = NoBundle /\ decided(engine).text = text
  BY <1>1 DEF SubmissionRecords
<1>5. \A engine : submissions' = [submissions EXCEPT ![w].phase = "decided", ![w].by = engine]
        => submissions' = [submissions EXCEPT ![w] = decided(engine)]
  BY <1>1 DEF CacheInv, CacheTypeOK
<1> HIDE DEF decided
<1>6. ASSUME NEW engine \in Sound \cup {"bundle-error"},
             engine = IF text \in Sound THEN text ELSE "bundle-error"
      PROVE  decided(engine).by = Expected(decided(engine))
  BY <1>1, <1>4, <1>6, BundleCacheAssumption DEF Expected
<1>7. ASSUME NEW i \in Hit(a, text),
             submissions' = [submissions EXCEPT ![w].phase = "decided",
                                                ![w].by = cache[i].engine],
             cache' = MoveToFront(i, cache[i])
      PROVE  CacheInv'
  <2>1. i \in 1..Len(cache) /\ cache[i] \in CacheEntries /\ cache[i].text = text
    BY <1>3 DEF Hit, EntriesOf
  <2>2. cache[i].engine = text /\ text \in Sound
    BY <2>1 DEF CacheInv, EnginesMatch, CacheEntries
  <2>3. /\ cache' \in Seq(CacheEntries) /\ EnginesMatch(cache') /\ OneEntryPerAgent(cache')
        /\ Len(cache') <= Capacity
    BY <1>7, <2>1, <2>2, MoveKeepsCache
  <2>4. /\ submissions' = [submissions EXCEPT ![w] = decided(text)]
        /\ decided(text) \in SubmissionRecords
        /\ decided(text).phase = "decided"
        /\ decided(text).by = Expected(decided(text))
    BY <1>4, <1>5, <1>6, <1>7, <2>2
  <2> QED
    BY <1>2, <2>3, <2>4, SubmissionMoves
<1>8. ASSUME text \in Broken,
             submissions' = [submissions EXCEPT ![w].phase = "decided",
                                                ![w].by = "bundle-error"],
             UNCHANGED cache
      PROVE  CacheInv'
  <2>1. text \notin Sound
    BY <1>8, BundleCacheAssumption
  <2>2. /\ submissions' = [submissions EXCEPT ![w] = decided("bundle-error")]
        /\ decided("bundle-error") \in SubmissionRecords
        /\ decided("bundle-error").phase = "decided"
        /\ decided("bundle-error").by = Expected(decided("bundle-error"))
    BY <1>4, <1>5, <1>6, <1>8, <2>1
  <2>3. /\ cache' \in Seq(CacheEntries) /\ EnginesMatch(cache') /\ OneEntryPerAgent(cache')
        /\ Len(cache') <= Capacity
    BY <1>8 DEF CacheInv, CacheTypeOK
  <2> QED
    BY <1>2, <2>2, <2>3, SubmissionMoves
<1>9. ASSUME text \in Sound,
             submissions' = [submissions EXCEPT ![w].phase = "decided", ![w].by = text],
             cache' = IF EntriesOf(a) = {} THEN PushFront(Entry(a, text))
                      ELSE MoveToFront(CHOOSE i \in EntriesOf(a) : TRUE, Entry(a, text))
      PROVE  CacheInv'
  <2>1. /\ Entry(a, text) \in CacheEntries /\ Entry(a, text).agent = a
        /\ Entry(a, text).engine = Entry(a, text).text
    BY <1>1, <1>9 DEF Entry, CacheEntries
  <2>2. /\ cache' \in Seq(CacheEntries) /\ EnginesMatch(cache') /\ OneEntryPerAgent(cache')
        /\ Len(cache') <= Capacity
    <3>1. CASE EntriesOf(a) = {}
      BY <1>9, <2>1, <3>1, PushKeepsCache
    <3>2. CASE EntriesOf(a) # {}
      <4>1. PICK i \in EntriesOf(a) : i = CHOOSE j \in EntriesOf(a) : TRUE
        BY <3>2
      <4>2. i \in 1..Len(cache) /\ cache[i].agent = a
        BY <1>3 DEF EntriesOf
      <4>3. cache' = MoveToFront(i, Entry(a, text))
        BY <1>9, <3>2, <4>1
      <4> QED
        BY <2>1, <4>2, <4>3, MoveKeepsCache
    <3> QED
      BY <3>1, <3>2
  <2>3. /\ submissions' = [submissions EXCEPT ![w] = decided(text)]
        /\ decided(text) \in SubmissionRecords
        /\ decided(text).phase = "decided"
        /\ decided(text).by = Expected(decided(text))
    BY <1>4, <1>5, <1>6, <1>9
  <2> QED
    BY <1>2, <2>2, <2>3, SubmissionMoves
<1> QED
  BY <1>7, <1>8, <1>9 DEF Compiled, GetOrCompile

LEMMA UncompiledInv ==
  ASSUME CacheInv, NEW w \in Submissions, Uncompiled(w)
  PROVE  CacheInv'
<1> DEFINE s == submissions[w]
           engine == IF s.override # NoBundle THEN s.override
                     ELSE IF s.text = NoAgent THEN "bundle-error" ELSE "permissive"
           record == [s EXCEPT !.phase = "decided", !.by = engine]
<1>1. s \in SubmissionRecords /\ (s.override # NoBundle \/ s.text \in {NoAgent, NoBundle})
  BY DEF Uncompiled, CacheInv, CacheTypeOK
<1>2. engine \in Sound \cup {"bundle-error", "permissive"}
  BY <1>1 DEF SubmissionRecords
<1>3. engine = IF s.override # NoBundle THEN s.override
               ELSE IF s.text = NoAgent THEN "bundle-error" ELSE "permissive"
  OBVIOUS
<1>4. submissions' = [submissions EXCEPT ![w] = record] /\ UNCHANGED <<stored, cache>>
  BY DEF Uncompiled, CacheInv, CacheTypeOK
<1> HIDE DEF engine, s
<1>5. /\ record \in SubmissionRecords
      /\ record.phase = "decided" /\ record.by = engine
      /\ record.override = s.override /\ record.text = s.text
  BY <1>1, <1>2 DEF SubmissionRecords
<1> HIDE DEF record
<1>6. record.by = Expected(record)
  <2>1. NoAgent # NoBundle /\ NoBundle \notin Broken
    BY BundleCacheAssumption DEF NoAgent, NoBundle
  <2> QED
    BY <1>1, <1>3, <1>5, <2>1 DEF Expected
<1> QED
  BY <1>4, <1>5, <1>6, SubmissionMoves DEF CacheInv, CacheTypeOK

LEMMA CacheNext_Inv == CacheInv /\ [CacheNext]_cacheVars => CacheInv'
<1> SUFFICES ASSUME CacheInv, [CacheNext]_cacheVars PROVE CacheInv'
  OBVIOUS
<1>1. CASE UNCHANGED cacheVars
  BY <1>1 DEF cacheVars, CacheInv, CacheTypeOK, EnginesMatch, OneEntryPerAgent
<1> QED
  BY <1>1, BundlesChangeInv, GetAgentInv, CompiledInv, UncompiledInv DEF CacheNext

(* The cache keeps one entry per agent, each with the engine of its text.   *)
THEOREM CacheInvariance == CacheSpec => []CacheInv
  BY CacheInit_Inv, CacheNext_Inv, PTL DEF CacheSpec

(* Whatever happens to bundles, agents and cache entries between a look-up   *)
(* and its evaluation, the step is decided by the text that was looked up.   *)
THEOREM LookupDecides == CacheSpec => []DecisionFollowsLookup
<1>1. CacheInv => DecisionFollowsLookup
  <2>1. CacheInv => DOMAIN cache = 1..Len(cache)
    BY LenProperties DEF CacheInv, CacheTypeOK
  <2> QED
    BY <2>1 DEF CacheInv, OneEntryPerAgent, DecisionFollowsLookup
<1> QED
  BY <1>1, CacheInvariance, PTL
=============================================================================
