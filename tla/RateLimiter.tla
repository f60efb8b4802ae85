----------------------------- MODULE RateLimiter -----------------------------
(***************************************************************************)
(* One key of a rule's rate limit (internal/ratelimit/ratelimit.go,        *)
(* store/postgres/ratelimit.go): a token bucket that steps take a token    *)
(* from while they are decided, in one of the two limiters.                *)
(*   postgres  a row.  A step reads its replica's clock, then waits for    *)
(*             the row, and keeps it until its transaction ends; a         *)
(*             rollback restores the row.                                  *)
(*   memory    a map entry of one replica, under a mutex.                  *)
(*                                                                         *)
(* Tokens are counted in units of 1/Window of a token, so that a refill,   *)
(* MaxCalls * elapsed / Window tokens, is a whole number of units.  The    *)
(* rule's limit does not change.                                           *)
(***************************************************************************)
EXTENDS Integers, FiniteSets, FiniteSetsExt

CONSTANTS
  Steps,        \* submissions
  MaxCalls, Window,
  Retention,    \* buckets untouched for longer are deleted
  MaxDelay,     \* bound: from reading the clock to the row
  LastTick      \* bound: the clock

ASSUME RateLimiterAssumption ==
  /\ MaxCalls \in Nat \ {0} /\ Window \in Nat \ {0} /\ MaxDelay \in Nat /\ LastTick \in Nat
  /\ Retention \in Nat

VARIABLES
  limiter,      \* "postgres" or "memory", never changed
  clock,
  bucket,       \* [tokens, at], or NoBucket
  before,       \* the bucket the row's holder would roll back to
  asking,       \* per step: [phase, read, took]
  early         \* history: when a bucket was deleted before it was full again

limiterVars == <<limiter, clock, bucket, before, asking, early>>

NoBucket == [tokens |-> -1, at |-> -1]
Full == MaxCalls * Window
OneCall == Window
Holder == {s \in Steps : asking[s].phase \in {"granted", "limited"}}

LimiterInit ==
  /\ limiter \in {"postgres", "memory"}
  /\ clock = 0
  /\ bucket = NoBucket
  /\ before = NoBucket
  /\ asking = [s \in Steps |-> [phase |-> "idle", read |-> 0, took |-> 0]]
  /\ early = {}

(* The refill since the bucket's stamp; negative when the stamp is another *)
(* replica's and younger.                                                  *)
Refilled(b, at) == LET tokens == b.tokens + MaxCalls * (at - b.at)
                   IN IF tokens > Full THEN Full ELSE tokens

(* The refill kept, its stamp not moved.                                   *)
TakenWithoutStamp(at) ==
  [tokens |-> (IF bucket = NoBucket THEN Full ELSE Refilled(bucket, at)) - OneCall,
   at |-> IF bucket = NoBucket THEN at ELSE bucket.at]

(* The bucket after a call is granted, at the caller's time.               *)
Taken(at) ==
  [tokens |-> (IF bucket = NoBucket THEN Full ELSE Refilled(bucket, at)) - OneCall, at |-> at]

Granted(at) == bucket = NoBucket \/ Refilled(bucket, at) >= OneCall

ReadClock(s) ==
  /\ limiter = "postgres" /\ asking[s].phase = "idle"
  /\ asking' = [asking EXCEPT ![s] = [phase |-> "waiting", read |-> clock, took |-> 0]]
  /\ UNCHANGED <<limiter, clock, bucket, before, early>>

(* INSERT ... ON CONFLICT DO UPDATE ... WHERE: a denial leaves the row as  *)
(* it is but locks it too.                                                 *)
TakeRow(s) ==
  /\ asking[s].phase = "waiting" /\ Holder = {}
  /\ asking' = [asking EXCEPT ![s].phase = IF Granted(asking[s].read) THEN "granted" ELSE "limited",
                              ![s].took = clock]
  /\ bucket' = IF Granted(asking[s].read) THEN Taken(asking[s].read) ELSE bucket
  /\ before' = bucket
  /\ UNCHANGED <<limiter, clock, early>>

Commit(s) ==
  /\ asking[s].phase \in {"granted", "limited"}
  /\ asking' = [asking EXCEPT ![s].phase = IF asking[s].phase = "granted" THEN "ran" ELSE "idle"]
  /\ UNCHANGED <<limiter, clock, bucket, before, early>>

Rollback(s) ==
  /\ asking[s].phase \in {"granted", "limited"}
  /\ asking' = [asking EXCEPT ![s].phase = "idle"]
  /\ bucket' = before
  /\ UNCHANGED <<limiter, clock, before, early>>

(* MemoryLimiter.Allow: a denial stores the refill too.  The step that got *)
(* a token runs or fails; the token is gone either way.                    *)
TakeEntry(s) ==
  /\ limiter = "memory" /\ asking[s].phase = "idle"
  /\ IF Granted(clock)
     THEN /\ bucket' = Taken(clock)
          /\ \E phase \in {"ran", "idle"} :
               asking' = [asking EXCEPT ![s] = [phase |-> phase, read |-> clock, took |-> clock]]
     ELSE /\ bucket' = [tokens |-> Refilled(bucket, clock), at |-> clock]
          /\ UNCHANGED asking
  /\ UNCHANGED <<limiter, clock, before, early>>

(* The retention sweep; a row in use is waited for.  Its cutoff is that of *)
(* ended executions, whatever the rule's window: the bucket it deletes may *)
(* not have refilled, even for the reader whose clock is latest.           *)
Stale(b) == b.at < clock - Retention
FullAgain(b) == Refilled(b, clock - MaxDelay) = Full

ReapBefore ==
  /\ bucket # NoBucket /\ Holder = {} /\ Stale(bucket)
  /\ bucket' = NoBucket
  /\ early' = IF FullAgain(bucket) THEN early ELSE early \cup {clock}
  /\ UNCHANGED <<limiter, clock, before, asking>>

Tick ==
  /\ clock < LastTick
  /\ \A s \in Steps : asking[s].phase = "waiting" => clock - asking[s].read < MaxDelay
  /\ clock' = clock + 1
  /\ UNCHANGED <<limiter, bucket, before, asking, early>>

LimiterNext ==
  \/ \E s \in Steps : ReadClock(s) \/ TakeRow(s) \/ Commit(s) \/ Rollback(s) \/ TakeEntry(s)
  \/ ReapBefore
  \/ Tick

LimiterSpec == LimiterInit /\ [][LimiterNext]_limiterVars

-----------------------------------------------------------------------------
(* Between any two moments at most a burst of MaxCalls steps and the       *)
(* refill of the time between them run: whatever order replicas with late  *)
(* readings of the clock reach the row in, and whichever of them roll      *)
(* back.  A reading that is late by MaxDelay adds the refill of that time. *)
(* Deleting the bucket starts the account anew, so a moment at which it    *)
(* was deleted too early is not between the two.                           *)
Unbroken(a, b) == \A e \in early : ~(a <= e /\ e <= b)

NeverOverLimit ==
  \A a \in 0..clock :
    LET ran == {s \in Steps : asking[s].phase \in {"ran", "granted"} /\ asking[s].took >= a}
        slack == IF limiter = "postgres" THEN MaxDelay ELSE 0
    IN \A b \in a..clock :
         Unbroken(a, b) =>
           Window * Cardinality({s \in ran : asking[s].took <= b})
             <= MaxCalls * (Window + b - a + slack)
=============================================================================
