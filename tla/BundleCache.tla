----------------------------- MODULE BundleCache -----------------------------
(***************************************************************************)
(* Which policy bundle decides a step: the agent rows (kernel/agent.go,    *)
(* store/postgres/agents.go), one replica's cache of compiled bundles      *)
(* (internal/policy/cache.go, resolver.go) and submissions that look the   *)
(* agent up and evaluate while bundles are replaced (kernel/step.go).      *)
(*                                                                         *)
(* Compiling is a function of the text, so an engine is named by the text  *)
(* it was compiled from.                                                   *)
(***************************************************************************)
EXTENDS Naturals, Sequences, SequencesExt

CONSTANTS
  Agents, Submissions,
  Sound,        \* bundle texts that compile
  Broken,       \* stored texts that this release cannot compile
  Capacity      \* entries of the cache

NoAgent == "no agent"
NoBundle == ""

(* An empty text is no bundle.                                             *)
ASSUME BundleCacheAssumption ==
  /\ Capacity \in Nat \ {0} /\ Sound \cap Broken = {}
  /\ {NoAgent, NoBundle} \cap (Sound \cup Broken) = {}

VARIABLES
  stored,       \* agents.policy_bundle; NoAgent without a row
  cache,        \* entries [agent, text, engine], most recently used first
  submissions   \* what each submission read, and who decided it

cacheVars == <<stored, cache, submissions>>

NotSubmitted ==
  [phase |-> "idle", agent |-> NoAgent, override |-> NoBundle, text |-> NoAgent, by |-> "none"]

CacheInit ==
  /\ stored \in [Agents -> Sound \cup Broken \cup {NoAgent, NoBundle}]
  /\ cache = <<>>
  /\ submissions = [w \in Submissions |-> NotSubmitted]

(* Registering an agent again without a bundle keeps the stored one.       *)
KeptBundle(a, text) == IF text = NoBundle /\ stored[a] # NoAgent THEN stored[a] ELSE text

RegisterAgent(a, text) ==
  /\ stored' = [stored EXCEPT ![a] = KeptBundle(a, text)]
  /\ UNCHANGED <<cache, submissions>>

LoadPolicyBundle(a, text) ==
  /\ stored[a] # NoAgent
  /\ stored' = [stored EXCEPT ![a] = text]
  /\ UNCHANGED <<cache, submissions>>

(* The foreign key keeps the agent of an execution.                        *)
DeleteAgent(a) ==
  /\ stored[a] # NoAgent
  /\ \A w \in Submissions : submissions[w].phase = "looked up" => submissions[w].agent # a
  /\ stored' = [stored EXCEPT ![a] = NoAgent]
  /\ UNCHANGED <<cache, submissions>>

(* An execution that carries a bundle of its own asks neither the agent    *)
(* nor the cache.  The read can fail, and then says NoAgent.               *)
GetAgent(w, a, override) ==
  /\ submissions[w].phase # "looked up" /\ stored[a] # NoAgent
  /\ \E text \in IF override = NoBundle THEN {stored[a], NoAgent} ELSE {NoBundle} :
       submissions' = [submissions EXCEPT ![w] =
         [phase |-> "looked up", agent |-> a, override |-> override, text |-> text, by |-> "none"]]
  /\ UNCHANGED <<stored, cache>>

-----------------------------------------------------------------------------
(* getOrCompile, under the cache's mutex: what it answers, and the entries *)
(* it leaves behind.                                                       *)
EntriesOf(a) == {i \in DOMAIN cache : cache[i].agent = a}

(* A cache keyed by the agent alone.                                       *)
HitAnyText(a, text) == EntriesOf(a)
Hit(a, text) == {i \in EntriesOf(a) : cache[i].text = text}

Entry(a, text) == [agent |-> a, text |-> text, engine |-> text]
MoveToFront(i, entry) == <<entry>> \o RemoveAt(cache, i)
PushFront(entry) ==
  LET longer == <<entry>> \o cache
  IN IF Len(longer) > Capacity THEN Front(longer) ELSE longer

GetOrCompile(w, a, text) ==
  LET answer(engine) == submissions' = [submissions EXCEPT ![w].phase = "decided", ![w].by = engine]
  IN \/ \E i \in Hit(a, text) :
          answer(cache[i].engine) /\ cache' = MoveToFront(i, cache[i])
     \/ /\ Hit(a, text) = {} /\ text \in Broken
        /\ answer("bundle-error") /\ UNCHANGED cache
     \/ /\ Hit(a, text) = {} /\ text \in Sound
        /\ answer(text)
        /\ cache' = IF EntriesOf(a) = {} THEN PushFront(Entry(a, text))
                    ELSE MoveToFront(CHOOSE i \in EntriesOf(a) : TRUE, Entry(a, text))

Compiled(w) ==
  /\ submissions[w].phase = "looked up" /\ submissions[w].override = NoBundle
  /\ submissions[w].text \in Sound \cup Broken
  /\ GetOrCompile(w, submissions[w].agent, submissions[w].text)
  /\ UNCHANGED stored

Uncompiled(w) ==
  /\ submissions[w].phase = "looked up"
  /\ submissions[w].override # NoBundle \/ submissions[w].text \in {NoAgent, NoBundle}
  /\ submissions' = [submissions EXCEPT ![w].phase = "decided",
       ![w].by = IF submissions[w].override # NoBundle THEN submissions[w].override
                 ELSE IF submissions[w].text = NoAgent THEN "bundle-error" ELSE "permissive"]
  /\ UNCHANGED <<stored, cache>>

CacheNext ==
  \/ \E a \in Agents :
       \/ \E text \in Sound \cup {NoBundle} : RegisterAgent(a, text) \/ LoadPolicyBundle(a, text)
       \/ DeleteAgent(a)
       \/ \E w \in Submissions, o \in Sound \cup {NoBundle} : GetAgent(w, a, o)
  \/ \E w \in Submissions : Compiled(w) \/ Uncompiled(w)

CacheSpec == CacheInit /\ [][CacheNext]_cacheVars

-----------------------------------------------------------------------------
(* The bundle that has to decide, given what a submission read.            *)
Expected(c) ==
  IF c.override # NoBundle THEN c.override
  ELSE IF c.text \in Broken \cup {NoAgent} THEN "bundle-error"
  ELSE IF c.text = NoBundle THEN "permissive" ELSE c.text

(* However bundles are replaced, agents deleted and entries evicted, a     *)
(* step is decided by the bundle its own submission read: a text that does *)
(* not compile and an agent that cannot be read deny, and only an agent    *)
(* without a bundle is permissive.  The cache holds one entry per agent    *)
(* and never more than its capacity.                                       *)
DecisionFollowsLookup ==
  /\ \A w \in Submissions :
       submissions[w].phase = "decided" => submissions[w].by = Expected(submissions[w])
  /\ Len(cache) <= Capacity
  /\ \A i, j \in DOMAIN cache : cache[i].agent = cache[j].agent => i = j
=============================================================================
