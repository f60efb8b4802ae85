--------------------------- MODULE RateLimiter_proofs ---------------------------
(***************************************************************************)
(* Proofs about RateLimiter, for every limit, window and retention, every  *)
(* set of steps and every delay of a replica's reading of the clock.       *)
(***************************************************************************)
EXTENDS RateLimiter, FiniteSetTheorems, TLAPS

Buckets == [tokens : Nat, at : Nat]
Submissions ==
  [phase : {"idle", "waiting", "granted", "limited", "ran"}, read : Nat, took : Nat]

LimiterTypeOK ==
  /\ limiter \in {"postgres", "memory"}
  /\ clock \in Nat
  /\ \A b \in {bucket, before} : b = NoBucket \/ (b \in Buckets /\ b.at <= clock)
  /\ asking \in [Steps -> Submissions]
  /\ \A s \in Steps :
       /\ asking[s].took <= clock
       /\ asking[s].phase = "waiting" => asking[s].read \in clock - MaxDelay .. clock
  /\ limiter = "memory" => \A s \in Steps : asking[s].phase \in {"idle", "ran"}
  /\ early \subseteq Nat

Slack == IF limiter = "postgres" THEN MaxDelay ELSE 0

(* The tokens a bucket can hand out by the time t, with what readings that  *)
(* are late may add to a full one.  No bucket is a full one.                *)
Brim == Full + MaxCalls * Slack
Uncapped(b, t) == b.tokens + MaxCalls * (t - b.at)
Level(b, t) == IF b = NoBucket \/ Uncapped(b, t) >= Brim THEN Brim ELSE Uncapped(b, t)

Counted == {"ran", "granted"}

(* The steps in one of the phases that took their token since a. *)
TookSince(a, phases) == {s \in Steps : asking[s].phase \in phases /\ asking[s].took >= a}

(* Since any moment after the last bucket that was deleted too early, what  *)
(* was handed out and what is left are no more than a full bucket and the   *)
(* refill.                                                                  *)
Accounts(b, phases) ==
  \A a \in 0..clock :
    Unbroken(a, clock) =>
      Window * Cardinality(TookSince(a, phases)) + Level(b, clock) <= Brim + MaxCalls * (clock - a)

(* The steps of an interval, and the limit of the intervals that are over.  *)
RanWithin(a, b) ==
  {s \in {t \in Steps : asking[t].phase \in {"ran", "granted"} /\ asking[t].took >= a} :
     asking[s].took <= b}
PastLimit ==
  \A a \in 0..clock : \A b \in a..clock - 1 :
    Unbroken(a, b) => Window * Cardinality(RanWithin(a, b)) <= MaxCalls * (Window + b - a + Slack)

(* Whoever holds the row may still roll back to the bucket before it, and   *)
(* then its token was not handed out.                                       *)
LimitInv ==
  /\ LimiterTypeOK
  /\ \A s, t \in Holder : s = t
  /\ IsFiniteSet(TookSince(0, Counted))
  /\ Accounts(bucket, Counted)
  /\ Holder # {} => Accounts(before, {"ran"})
  /\ PastLimit

-----------------------------------------------------------------------------
(* Arithmetic of the refill                                                *)

(* The refill of a longer time is larger. *)
LEMMA RefillGrows ==
  ASSUME NEW m \in Nat, NEW x \in Int, NEW y \in Int, x <= y
  PROVE  m * x <= m * y
OBVIOUS

(* The constants as naturals; a full bucket has a token. *)
LEMMA Amounts ==
  /\ MaxCalls \in Nat \ {0} /\ Window \in Nat \ {0} /\ MaxDelay \in Nat
  /\ Full \in Nat /\ Window <= Full
  /\ limiter \in {"postgres", "memory"} => Slack \in Nat /\ Brim \in Nat /\ Full <= Brim
<1>1. MaxCalls \in Nat \ {0} /\ Window \in Nat \ {0} /\ MaxDelay \in Nat
  BY RateLimiterAssumption
<1>2. Full \in Nat BY <1>1 DEF Full
<1>3. Window <= Full
  <2>1. Window * 1 <= Window * MaxCalls BY <1>1, RefillGrows
  <2>2. Window * 1 = Window /\ Window * MaxCalls = MaxCalls * Window BY <1>1
  <2> QED BY <2>1, <2>2, <1>1 DEF Full
<1>4. Slack \in Nat BY <1>1 DEF Slack
<1>5. MaxCalls * Slack \in Nat BY <1>1, <1>4
<1>6. Brim \in Nat /\ Full <= Brim BY <1>2, <1>5 DEF Brim
<1> QED BY <1>1, <1>2, <1>3, <1>4, <1>6

(* A level is a number of tokens up to the brim. *)
LEMMA LevelBounds ==
  ASSUME limiter \in {"postgres", "memory"}, NEW t \in Nat,
         NEW b, b = NoBucket \/ (b \in Buckets /\ b.at <= t)
  PROVE  Level(b, t) \in Nat /\ Level(b, t) <= Brim
<1>1. Brim \in Nat /\ MaxCalls \in Nat BY Amounts
<1>2. CASE b = NoBucket BY <1>1, <1>2 DEF Level
<1>3. CASE b \in Buckets /\ b.at <= t
  <2>1. b.tokens \in Nat /\ t - b.at \in Nat BY <1>3 DEF Buckets
  <2>2. MaxCalls * (t - b.at) \in Nat BY <2>1, <1>1
  <2>3. Uncapped(b, t) \in Nat BY <2>1, <2>2 DEF Uncapped
  <2> QED BY <2>3, <1>1 DEF Level
<1> QED BY <1>2, <1>3

(* A tick adds the refill of a tick at most. *)
LEMMA LevelTicks ==
  ASSUME limiter \in {"postgres", "memory"}, NEW t \in Nat,
         NEW b, b = NoBucket \/ (b \in Buckets /\ b.at <= t)
  PROVE  Level(b, t + 1) <= Level(b, t) + MaxCalls
<1>1. Brim \in Nat /\ MaxCalls \in Nat BY Amounts
<1>2. CASE b = NoBucket BY <1>1, <1>2 DEF Level
<1>3. CASE b \in Buckets /\ b.at <= t
  <2>1. b.tokens \in Nat /\ b.at \in Nat BY <1>3 DEF Buckets
  <2>2. MaxCalls * ((t + 1) - b.at) = MaxCalls * (t - b.at) + MaxCalls
    <3>1. PICK d : d = t - b.at OBVIOUS
    <3>2. d \in Int /\ (t + 1) - b.at = d + 1 BY <3>1, <2>1
    <3>3. MaxCalls * (d + 1) = MaxCalls * d + MaxCalls BY <3>2, <1>1
    <3> QED BY <3>1, <3>2, <3>3
  <2>3. MaxCalls * (t - b.at) \in Int BY <2>1, <1>1
  <2>4. Uncapped(b, t + 1) = Uncapped(b, t) + MaxCalls /\ Uncapped(b, t) \in Int
    BY <2>1, <2>2, <2>3, <1>1 DEF Uncapped
  <2> QED BY <2>4, <1>1 DEF Level
<1> QED BY <1>2, <1>3

(* A grant takes a token off the level, wherever it stamps the bucket. *)
LEMMA GrantTakes ==
  ASSUME LimiterTypeOK, NEW at \in Nat, at <= clock, clock <= at + Slack, Granted(at)
  PROVE  /\ Taken(at) \in Buckets /\ Taken(at).at = at
         /\ Level(Taken(at), clock) + Window <= Level(bucket, clock)
<1>1. /\ Brim \in Nat /\ MaxCalls \in Nat /\ Window \in Nat /\ Full \in Nat /\ Window <= Full
      /\ Slack \in Nat /\ Full <= Brim /\ clock \in Nat
  BY Amounts DEF LimiterTypeOK
<1>2. PICK late : late = MaxCalls * (clock - at) OBVIOUS
<1>3. late \in Int BY <1>1, <1>2
<1>4. late <= MaxCalls * Slack
  <2>1. clock - at \in Int /\ clock - at <= Slack BY <1>1
  <2> QED BY <2>1, <1>1, <1>2, RefillGrows
<1>5. Full + late <= Brim
  <2>1. MaxCalls * Slack \in Int BY <1>1
  <2> QED BY <2>1, <1>1, <1>3, <1>4 DEF Brim
<1>6. \A x \in Nat : Uncapped([tokens |-> x, at |-> at], clock) = x + late
  BY <1>2 DEF Uncapped
<1>7. CASE bucket = NoBucket
  <2>1. Taken(at) = [tokens |-> Full - Window, at |-> at] BY <1>7 DEF Taken, OneCall
  <2>2. Full - Window \in Nat BY <1>1
  <2>3. Uncapped(Taken(at), clock) = (Full - Window) + late BY <2>1, <2>2, <1>6
  <2>4. Taken(at) \in Buckets /\ Taken(at).at = at BY <2>1, <2>2 DEF Buckets
  <2>5. Taken(at) # NoBucket BY <2>1 DEF NoBucket
  <2>6. Level(bucket, clock) = Brim BY <1>7 DEF Level
  <2>7. Uncapped(Taken(at), clock) + Window <= Brim BY <2>3, <1>1, <1>3, <1>5
  <2>8. Level(Taken(at), clock) = Uncapped(Taken(at), clock) \/ Window = 0
    BY <2>3, <2>5, <2>7, <1>1, <1>3 DEF Level
  <2>9. Window # 0 BY Amounts
  <2> QED BY <2>4, <2>6, <2>7, <2>8, <2>9
<1>8. CASE bucket # NoBucket
  <2>1. bucket \in Buckets /\ bucket.at <= clock BY <1>8 DEF LimiterTypeOK
  <2>2. bucket.tokens \in Nat /\ bucket.at \in Nat BY <2>1 DEF Buckets
  <2>3. PICK since : since = MaxCalls * (at - bucket.at) OBVIOUS
  <2>4. since \in Int BY <2>2, <2>3, <1>1
  <2>5. MaxCalls * (clock - bucket.at) = since + late BY <2>2, <2>3, <1>1, <1>2
  <2>6. Uncapped(bucket, clock) = bucket.tokens + since + late
    BY <2>2, <2>4, <2>5, <1>3 DEF Uncapped
  <2>7. PICK x : x = Refilled(bucket, at) OBVIOUS
  <2>8. x = IF bucket.tokens + since > Full THEN Full ELSE bucket.tokens + since
    BY <2>3, <2>7 DEF Refilled
  <2>9. x \in Int /\ x >= Window BY <2>2, <2>4, <2>7, <2>8, <1>1, <1>8 DEF Granted, OneCall
  <2>10. Taken(at) = [tokens |-> x - Window, at |-> at] BY <1>8, <2>7 DEF Taken, OneCall
  <2>11. x - Window \in Nat BY <2>9, <1>1
  <2>12. Uncapped(Taken(at), clock) = (x - Window) + late BY <2>10, <2>11, <1>6
  <2>13. Taken(at) \in Buckets /\ Taken(at).at = at BY <2>10, <2>11 DEF Buckets
  <2>14. Taken(at) # NoBucket BY <2>10, <2>11, <1>1 DEF NoBucket
  <2>15. /\ Uncapped(Taken(at), clock) + Window <= Brim
         /\ Uncapped(Taken(at), clock) + Window <= Uncapped(bucket, clock)
    BY <2>2, <2>4, <2>6, <2>8, <2>9, <2>12, <1>1, <1>3, <1>5
  <2>16. Uncapped(Taken(at), clock) \in Int BY <2>9, <2>12, <1>1, <1>3
  <2>17. Window # 0 BY Amounts
  <2>18. Level(Taken(at), clock) = Uncapped(Taken(at), clock)
    BY <2>14, <2>15, <2>16, <2>17, <1>1 DEF Level
  <2>19. Level(bucket, clock) = Brim \/ Level(bucket, clock) = Uncapped(bucket, clock)
    BY DEF Level
  <2> QED BY <2>13, <2>15, <2>18, <2>19
<1> QED BY <1>7, <1>8

(* The map's limiter stores the refill of a denial, too. *)
LEMMA DenialKeeps ==
  ASSUME LimiterTypeOK, ~Granted(clock)
  PROVE  LET b == [tokens |-> Refilled(bucket, clock), at |-> clock] IN
         b \in Buckets /\ Level(b, clock) <= Level(bucket, clock)
<1>1. /\ Brim \in Nat /\ MaxCalls \in Nat /\ Full \in Nat /\ Full <= Brim /\ clock \in Nat
  BY Amounts DEF LimiterTypeOK
<1>2. bucket # NoBucket BY DEF Granted
<1>3. bucket \in Buckets /\ bucket.at <= clock BY <1>2 DEF LimiterTypeOK
<1>4. bucket.tokens \in Nat /\ bucket.at \in Nat BY <1>3 DEF Buckets
<1>5. PICK since : since = MaxCalls * (clock - bucket.at) OBVIOUS
<1>6. since \in Nat
  <2>1. clock - bucket.at \in Nat BY <1>1, <1>3, <1>4
  <2> QED BY <2>1, <1>1, <1>5
<1>7. Uncapped(bucket, clock) = bucket.tokens + since BY <1>5 DEF Uncapped
<1>8. PICK x : x = Refilled(bucket, clock) OBVIOUS
<1>9. x = IF bucket.tokens + since > Full THEN Full ELSE bucket.tokens + since
  BY <1>5, <1>8 DEF Refilled
<1>10. x \in Nat /\ x <= Full /\ x <= Uncapped(bucket, clock) BY <1>1, <1>4, <1>6, <1>7, <1>9
<1>11. PICK b : b = [tokens |-> x, at |-> clock] OBVIOUS
<1>12. b \in Buckets /\ b.tokens = x /\ b.at = clock BY <1>10, <1>11, <1>1 DEF Buckets
<1>13. Uncapped(b, clock) = x
  <2>1. MaxCalls * (clock - clock) = 0 BY <1>1
  <2> QED BY <2>1, <1>10, <1>12 DEF Uncapped
<1>14. b # NoBucket BY <1>1, <1>12 DEF NoBucket
<1>15. Level(b, clock) <= Level(bucket, clock)
  <2>1. Level(b, clock) = x BY <1>1, <1>10, <1>13, <1>14 DEF Level
  <2>2. x <= Brim BY <1>1, <1>10
  <2>3. Level(bucket, clock) = Brim \/ Level(bucket, clock) = Uncapped(bucket, clock)
    BY DEF Level
  <2> QED BY <2>1, <2>2, <2>3, <1>10
<1> QED BY <1>8, <1>11, <1>12, <1>15

(* A bucket that is full again, even to the latest reader, is at the brim. *)
LEMMA FullIsBrim ==
  ASSUME LimiterTypeOK, bucket # NoBucket, FullAgain(bucket)
  PROVE  Level(bucket, clock) = Brim
<1>1. /\ Brim \in Nat /\ MaxCalls \in Nat /\ Full \in Nat /\ clock \in Nat
      /\ Window \in Nat /\ MaxDelay \in Nat /\ Slack \in Nat
  BY Amounts DEF LimiterTypeOK
<1>2. bucket.tokens \in Nat /\ bucket.at \in Nat BY DEF LimiterTypeOK, Buckets
<1>3. Slack <= MaxDelay BY <1>1 DEF Slack
<1>4. PICK since, late : since = MaxCalls * (clock - bucket.at) /\ late = MaxCalls * MaxDelay
  OBVIOUS
<1>5. /\ since \in Int /\ late \in Int
      /\ MaxCalls * ((clock - MaxDelay) - bucket.at) = since - late
  BY <1>1, <1>2, <1>4
<1>6. MaxCalls * Slack <= late /\ MaxCalls * Slack \in Int BY <1>1, <1>3, <1>4, RefillGrows
<1>7. Refilled(bucket, clock - MaxDelay) =
        IF bucket.tokens + (since - late) > Full THEN Full ELSE bucket.tokens + (since - late)
  BY <1>5 DEF Refilled
<1>8. bucket.tokens + (since - late) >= Full BY <1>1, <1>2, <1>5, <1>7 DEF FullAgain
<1>9. Uncapped(bucket, clock) >= Brim
  <2>1. PICK most : most = MaxCalls * Slack OBVIOUS
  <2>2. Uncapped(bucket, clock) = bucket.tokens + since BY <1>4 DEF Uncapped
  <2>3. Brim = Full + most BY <2>1 DEF Brim
  <2>4. most \in Int /\ most <= late BY <2>1, <1>6
  <2> QED BY <2>2, <2>3, <2>4, <1>1, <1>2, <1>5, <1>8
<1> QED BY <1>9 DEF Level

(* An interval that was broken stays so. *)
LEMMA UnbrokenBefore ==
  ASSUME early \subseteq early', NEW a, NEW b, Unbroken(a, b)'
  PROVE  Unbroken(a, b)
BY DEF Unbroken

-----------------------------------------------------------------------------
(* Counting the steps that took a token                                    *)

(* One more element at most, or none. *)
LEMMA OneMore ==
  ASSUME NEW A, IsFiniteSet(A), NEW B, NEW s
  PROVE  /\ B \subseteq A => IsFiniteSet(B) /\ Cardinality(B) <= Cardinality(A)
         /\ B \subseteq A \cup {s} => IsFiniteSet(B) /\ Cardinality(B) <= Cardinality(A) + 1
         /\ Cardinality(A) \in Nat
<1>1. Cardinality(A) \in Nat BY FS_CardinalityType
<1>2. ASSUME B \subseteq A PROVE IsFiniteSet(B) /\ Cardinality(B) <= Cardinality(A)
  BY <1>2, FS_Subset
<1>3. ASSUME B \subseteq A \cup {s}
      PROVE  IsFiniteSet(B) /\ Cardinality(B) <= Cardinality(A) + 1
  <2>1. IsFiniteSet(A \cup {s}) /\ Cardinality(A \cup {s}) <= Cardinality(A) + 1
    BY <1>1, FS_AddElement
  <2>2. IsFiniteSet(B) /\ Cardinality(B) <= Cardinality(A \cup {s}) BY <1>3, <2>1, FS_Subset
  <2>3. Cardinality(A \cup {s}) \in Nat /\ Cardinality(B) \in Nat
    BY <2>1, <2>2, FS_CardinalityType
  <2> QED BY <1>1, <2>1, <2>2, <2>3
<1> QED BY <1>1, <1>2, <1>3

(* The steps that took a token since a are among those that ever did. *)
LEMMA TookFinite ==
  ASSUME LimiterTypeOK, IsFiniteSet(TookSince(0, Counted)),
         NEW a \in Nat, NEW phases \in SUBSET Counted
  PROVE  IsFiniteSet(TookSince(a, phases)) /\ Cardinality(TookSince(a, phases)) \in Nat
<1>1. \A s \in Steps : asking[s].took \in Nat BY DEF LimiterTypeOK, Submissions
<1>2. TookSince(a, phases) \subseteq TookSince(0, Counted)
  <2>1. \A s \in Steps : asking[s].took >= 0 BY <1>1
  <2> QED BY <2>1 DEF TookSince
<1> QED BY <1>2, OneMore

(* Accounts of a bucket with no higher level, against no more steps. *)
LEMMA AccountsKept ==
  ASSUME LimiterTypeOK, IsFiniteSet(TookSince(0, Counted)),
         limiter' = limiter, clock' = clock, early \subseteq early',
         NEW b, NEW phases \in SUBSET Counted, Accounts(b, phases),
         Level(b, clock) \in Nat,
         NEW b2, Level(b2, clock) \in Nat, Level(b2, clock) <= Level(b, clock),
         NEW phases2,
         \A s \in Steps : asking'[s].phase \in phases2 =>
           asking[s].phase \in phases /\ asking'[s].took = asking[s].took
  PROVE  Accounts(b2, phases2)'
<1>1. /\ clock \in Nat /\ MaxCalls \in Nat /\ Window \in Nat /\ Brim \in Nat
  BY Amounts DEF LimiterTypeOK
<1>2. Brim' = Brim /\ Level(b2, clock)' = Level(b2, clock)
  BY DEF Brim, Slack, Level, Uncapped
<1>3. SUFFICES ASSUME NEW a \in 0..clock, Unbroken(a, clock)
               PROVE  Window * Cardinality(TookSince(a, phases2)') + Level(b2, clock)
                        <= Brim + MaxCalls * (clock - a)
  BY <1>2 DEF Accounts, Unbroken
<1>4. TookSince(a, phases2)' \subseteq TookSince(a, phases) BY DEF TookSince
<1>5. IsFiniteSet(TookSince(a, phases)) /\ Cardinality(TookSince(a, phases)) \in Nat
  BY <1>1, TookFinite
<1>6. PICK n, m : n = Cardinality(TookSince(a, phases)) /\ m = Cardinality(TookSince(a, phases2)')
  OBVIOUS
<1>7. n \in Nat /\ m \in Nat /\ m <= n
  <2>1. IsFiniteSet(TookSince(a, phases2)') /\ m <= n BY <1>4, <1>5, <1>6, OneMore
  <2> QED BY <2>1, <1>5, <1>6, FS_CardinalityType
<1>8. Window * m <= Window * n /\ Window * m \in Int /\ Window * n \in Int
  BY <1>1, <1>7, RefillGrows
<1>9. Window * n + Level(b, clock) <= Brim + MaxCalls * (clock - a) BY <1>3, <1>6 DEF Accounts
<1>10. MaxCalls * (clock - a) \in Int BY <1>1
<1> QED BY <1>1, <1>6, <1>8, <1>9, <1>10

(* A grant: one more step, and a token off the level. *)
LEMMA AccountsOfGrant ==
  ASSUME LimiterTypeOK, IsFiniteSet(TookSince(0, Counted)),
         limiter' = limiter, clock' = clock, early \subseteq early',
         NEW b, NEW phases \in SUBSET Counted, Accounts(b, phases),
         Level(b, clock) \in Nat,
         NEW b2, Level(b2, clock) \in Nat, Level(b2, clock) + Window <= Level(b, clock),
         NEW t, NEW phases2,
         \A s \in Steps \ {t} : asking'[s].phase \in phases2 =>
           asking[s].phase \in phases /\ asking'[s].took = asking[s].took
  PROVE  Accounts(b2, phases2)'
<1>1. /\ clock \in Nat /\ MaxCalls \in Nat /\ Window \in Nat /\ Brim \in Nat
  BY Amounts DEF LimiterTypeOK
<1>2. Brim' = Brim /\ Level(b2, clock)' = Level(b2, clock)
  BY DEF Brim, Slack, Level, Uncapped
<1>3. SUFFICES ASSUME NEW a \in 0..clock, Unbroken(a, clock)
               PROVE  Window * Cardinality(TookSince(a, phases2)') + Level(b2, clock)
                        <= Brim + MaxCalls * (clock - a)
  BY <1>2 DEF Accounts, Unbroken
<1>4. TookSince(a, phases2)' \subseteq TookSince(a, phases) \cup {t} BY DEF TookSince
<1>5. IsFiniteSet(TookSince(a, phases)) /\ Cardinality(TookSince(a, phases)) \in Nat
  BY <1>1, TookFinite
<1>6. PICK n, m : n = Cardinality(TookSince(a, phases)) /\ m = Cardinality(TookSince(a, phases2)')
  OBVIOUS
<1>7. n \in Nat /\ m \in Nat /\ m <= n + 1
  <2>1. IsFiniteSet(TookSince(a, phases2)') /\ m <= n + 1 BY <1>4, <1>5, <1>6, OneMore
  <2> QED BY <2>1, <1>5, <1>6, FS_CardinalityType
<1>8. /\ Window * m <= Window * (n + 1) /\ Window * m \in Int
      /\ Window * (n + 1) = Window * n + Window /\ Window * n \in Int
  BY <1>1, <1>7, RefillGrows
<1>9. Window * n + Level(b, clock) <= Brim + MaxCalls * (clock - a) BY <1>3, <1>6 DEF Accounts
<1>10. MaxCalls * (clock - a) \in Int BY <1>1
<1> QED BY <1>1, <1>6, <1>8, <1>9, <1>10

(* A tick adds the refill of a tick to both sides. *)
LEMMA AccountsTick ==
  ASSUME LimiterTypeOK, IsFiniteSet(TookSince(0, Counted)),
         limiter' = limiter, clock' = clock + 1, asking' = asking, early' = early,
         NEW b, b = NoBucket \/ (b \in Buckets /\ b.at <= clock),
         NEW phases \in SUBSET Counted, Accounts(b, phases)
  PROVE  Accounts(b, phases)'
<1>1. /\ clock \in Nat /\ MaxCalls \in Nat /\ Window \in Nat /\ Brim \in Nat
      /\ limiter \in {"postgres", "memory"}
  BY Amounts DEF LimiterTypeOK
<1>2. /\ Brim' = Brim /\ Level(b, clock)' = Level(b, clock + 1)
      /\ \A a : TookSince(a, phases)' = TookSince(a, phases)
  BY DEF Brim, Slack, Level, Uncapped, TookSince
<1>3. /\ Level(b, clock) \in Nat
      /\ Level(b, clock + 1) <= Level(b, clock) + MaxCalls
      /\ Level(b, clock + 1) \in Nat /\ Level(b, clock + 1) <= Brim
  <2>1. Level(b, clock) \in Nat BY <1>1, LevelBounds
  <2>2. Level(b, clock + 1) <= Level(b, clock) + MaxCalls BY <1>1, LevelTicks
  <2>3. clock + 1 \in Nat /\ (b = NoBucket \/ (b \in Buckets /\ b.at <= clock + 1))
    BY <1>1 DEF Buckets
  <2>4. Level(b, clock + 1) \in Nat /\ Level(b, clock + 1) <= Brim BY <2>3, <1>1, LevelBounds
  <2> QED BY <2>1, <2>2, <2>4
<1>4. SUFFICES ASSUME NEW a \in 0..clock + 1, Unbroken(a, clock + 1)
               PROVE  Window * Cardinality(TookSince(a, phases)) + Level(b, clock + 1)
                        <= Brim + MaxCalls * ((clock + 1) - a)
  BY <1>2 DEF Accounts, Unbroken
<1>5. CASE a \in 0..clock
  <2>1. IsFiniteSet(TookSince(a, phases)) /\ Cardinality(TookSince(a, phases)) \in Nat
    BY <1>1, <1>5, TookFinite
  <2>2. PICK n : n = Window * Cardinality(TookSince(a, phases)) OBVIOUS
  <2>3. n \in Int BY <2>1, <2>2, <1>1
  <2>4. n + Level(b, clock) <= Brim + MaxCalls * (clock - a)
    <3>1. \A e \in early : e \in Int BY DEF LimiterTypeOK
    <3>2. Unbroken(a, clock) BY <3>1, <1>1, <1>4 DEF Unbroken
    <3> QED BY <3>2, <1>5, <2>2 DEF Accounts
  <2>5. MaxCalls * ((clock + 1) - a) = MaxCalls * (clock - a) + MaxCalls
    <3>1. PICK d : d = clock - a OBVIOUS
    <3>2. d \in Int /\ (clock + 1) - a = d + 1 BY <3>1, <1>1, <1>5
    <3>3. MaxCalls * (d + 1) = MaxCalls * d + MaxCalls BY <3>2, <1>1
    <3> QED BY <3>1, <3>2, <3>3
  <2>6. MaxCalls * (clock - a) \in Int BY <1>1, <1>5
  <2> QED BY <2>2, <2>3, <2>4, <2>5, <2>6, <1>1, <1>3
<1>6. CASE a = clock + 1
  <2>1. TookSince(a, phases) = {}
    <3>1. \A s \in Steps : asking[s].took \in Nat /\ asking[s].took <= clock
      BY DEF LimiterTypeOK, Submissions
    <3> QED BY <3>1, <1>1, <1>6 DEF TookSince
  <2>2. Window * Cardinality(TookSince(a, phases)) = 0 BY <2>1, <1>1, FS_EmptySet
  <2>3. MaxCalls * ((clock + 1) - a) = 0 BY <1>1, <1>6
  <2> QED BY <2>2, <2>3, <1>1, <1>3
<1> QED BY <1>1, <1>5, <1>6

-----------------------------------------------------------------------------
(* The limit                                                               *)

(* The accounts bound the intervals that end now. *)
LEMMA LimitNow ==
  ASSUME LimiterTypeOK, IsFiniteSet(TookSince(0, Counted)),
         Accounts(bucket, Counted), NEW a \in 0..clock, Unbroken(a, clock)
  PROVE  Window * Cardinality(RanWithin(a, clock)) <= MaxCalls * (Window + clock - a + Slack)
<1>1. /\ clock \in Nat /\ MaxCalls \in Nat /\ Window \in Nat /\ Brim \in Nat /\ Slack \in Nat
      /\ limiter \in {"postgres", "memory"}
  BY Amounts DEF LimiterTypeOK
<1>2. \A s \in Steps : asking[s].took <= clock BY DEF LimiterTypeOK
<1>3. RanWithin(a, clock) = TookSince(a, Counted)
  BY <1>2 DEF RanWithin, TookSince, Counted
<1>4. PICK n : n = Window * Cardinality(RanWithin(a, clock)) OBVIOUS
<1>5. n + Level(bucket, clock) <= Brim + MaxCalls * (clock - a) BY <1>3, <1>4 DEF Accounts
<1>6. Level(bucket, clock) \in Nat BY <1>1, LevelBounds DEF LimiterTypeOK
<1>7. n \in Int
  <2>1. Cardinality(TookSince(a, Counted)) \in Nat BY <1>1, TookFinite
  <2> QED BY <2>1, <1>1, <1>3, <1>4
<1>8. Brim + MaxCalls * (clock - a) = MaxCalls * (Window + clock - a + Slack)
  BY <1>1 DEF Brim, Full
<1>9. MaxCalls * (clock - a) \in Int BY <1>1
<1> QED BY <1>1, <1>4, <1>5, <1>6, <1>7, <1>8, <1>9

(* The limit of all intervals, in the terms of the proof. *)
LEMMA LimitIs ==
  NeverOverLimit <=>
    \A a \in 0..clock : \A b \in a..clock :
      Unbroken(a, b) =>
        Window * Cardinality(RanWithin(a, b)) <= MaxCalls * (Window + b - a + Slack)
BY DEF NeverOverLimit, RanWithin, Slack

LEMMA LimitHolds == LimitInv => NeverOverLimit
<1>1. SUFFICES ASSUME LimitInv, NEW a \in 0..clock, NEW b \in a..clock, Unbroken(a, b)
               PROVE  Window * Cardinality(RanWithin(a, b)) <= MaxCalls * (Window + b - a + Slack)
  BY LimitIs
<1>2. clock \in Nat BY <1>1 DEF LimitInv, LimiterTypeOK
<1>3. CASE b = clock BY <1>1, <1>3, LimitNow DEF LimitInv
<1>4. CASE b # clock
  <2>1. b \in a..clock - 1 BY <1>2, <1>4
  <2> QED BY <2>1, <1>1 DEF LimitInv, PastLimit
<1> QED BY <1>3, <1>4

(* No step takes a token in an interval that is over. *)
LEMMA PastKept ==
  ASSUME LimitInv, limiter' = limiter, clock' \in {clock, clock + 1}, early \subseteq early',
         \A s \in Steps : asking'[s].phase \in Counted =>
           \/ asking'[s].took = clock'
           \/ asking[s].phase \in Counted /\ asking'[s].took = asking[s].took
  PROVE  PastLimit'
<1>1. /\ LimiterTypeOK /\ IsFiniteSet(TookSince(0, Counted))
      /\ clock \in Nat /\ MaxCalls \in Nat /\ Window \in Nat /\ Slack \in Nat /\ Slack' = Slack
  BY Amounts DEF LimitInv, LimiterTypeOK, Slack
<1>2. SUFFICES ASSUME NEW a \in 0..clock', NEW b \in a..clock' - 1, Unbroken(a, b)'
               PROVE  Window * Cardinality(RanWithin(a, b)') <= MaxCalls * (Window + b - a + Slack)
  BY <1>1 DEF PastLimit, Unbroken
<1>3. a \in 0..clock /\ b \in a..clock /\ b < clock' BY <1>1
<1>4. Window * Cardinality(RanWithin(a, b)) <= MaxCalls * (Window + b - a + Slack)
  BY <1>2, <1>3, UnbrokenBefore, LimitHolds, LimitIs
<1>5. RanWithin(a, b)' \subseteq RanWithin(a, b)
  BY <1>1, <1>3 DEF RanWithin, Counted
<1>6. IsFiniteSet(RanWithin(a, b)) /\ Cardinality(RanWithin(a, b)) \in Nat
  <2>1. RanWithin(a, b) \subseteq TookSince(a, Counted) BY DEF RanWithin, TookSince, Counted
  <2>2. IsFiniteSet(TookSince(a, Counted)) BY <1>1, <1>3, TookFinite
  <2> QED BY <2>1, <2>2, FS_Subset, FS_CardinalityType
<1>7. PICK n, m : n = Cardinality(RanWithin(a, b)) /\ m = Cardinality(RanWithin(a, b)') OBVIOUS
<1>8. n \in Nat /\ m \in Nat /\ m <= n
  <2>1. IsFiniteSet(RanWithin(a, b)') /\ m <= n BY <1>5, <1>6, <1>7, OneMore
  <2> QED BY <2>1, <1>6, <1>7, FS_CardinalityType
<1>9. Window * m <= Window * n /\ Window * m \in Int /\ Window * n \in Int
  BY <1>1, <1>8, RefillGrows
<1>10. MaxCalls * (Window + b - a + Slack) \in Int BY <1>1, <1>3
<1> QED BY <1>4, <1>7, <1>9, <1>10

(* At first no token was handed out. *)
LEMMA InitLimits == LimiterInit => LimitInv
<1> SUFFICES ASSUME LimiterInit PROVE LimitInv OBVIOUS
<1>1. /\ limiter \in {"postgres", "memory"} /\ clock = 0
      /\ bucket = NoBucket /\ before = NoBucket
      /\ \A s \in Steps : asking[s] = [phase |-> "idle", read |-> 0, took |-> 0]
      /\ asking \in [Steps -> Submissions] /\ early = {}
  BY DEF LimiterInit, Submissions
<1>2. LimiterTypeOK BY <1>1 DEF LimiterTypeOK
<1>3. Holder = {} BY <1>1 DEF Holder
<1>4. \A a : TookSince(a, Counted) = {} BY <1>1 DEF TookSince, Counted
<1>5. IsFiniteSet({}) /\ Cardinality({}) = 0 BY FS_EmptySet
<1>6. Accounts(bucket, Counted)
  <2>1. /\ Brim \in Nat /\ MaxCalls \in Nat /\ Window \in Nat BY <1>1, Amounts
  <2>2. SUFFICES ASSUME NEW a \in 0..clock
                 PROVE  Window * Cardinality(TookSince(a, Counted)) + Level(bucket, clock)
                          <= Brim + MaxCalls * (clock - a)
    BY DEF Accounts
  <2>3. a = 0 /\ clock - a = 0
    <3>1. clock = 0 BY <1>1
    <3>2. clock \in Nat /\ a \in Nat /\ a <= clock BY <3>1
    <3>3. a = clock BY <3>1, <3>2
    <3>4. clock - a = 0 BY <3>2, <3>3
    <3> QED BY <3>1, <3>3, <3>4
  <2>4. Level(bucket, clock) = Brim BY <1>1 DEF Level
  <2>5. Window * Cardinality(TookSince(a, Counted)) = 0 BY <1>4, <1>5, <2>1
  <2>6. MaxCalls * (clock - a) = 0 BY <2>1, <2>3
  <2> QED BY <2>1, <2>4, <2>5, <2>6
<1>7. PastLimit BY <1>1 DEF PastLimit
<1> QED BY <1>2, <1>3, <1>4, <1>5, <1>6, <1>7 DEF LimitInv

-----------------------------------------------------------------------------
(* The steps                                                               *)

(* The parts of the invariant, and that levels are numbers. *)
LEMMA LimitParts ==
  ASSUME LimitInv
  PROVE  /\ LimiterTypeOK /\ IsFiniteSet(TookSince(0, Counted))
         /\ Accounts(bucket, Counted) /\ (Holder # {} => Accounts(before, {"ran"}))
         /\ \A s, t \in Holder : s = t
         /\ Level(bucket, clock) \in Nat /\ Level(before, clock) \in Nat
         /\ Level(bucket, clock) <= Brim
         /\ limiter \in {"postgres", "memory"} /\ clock \in Nat
         /\ asking \in [Steps -> Submissions]
         /\ Counted \in SUBSET Counted /\ {"ran"} \in SUBSET Counted
<1>1. LimiterTypeOK BY DEF LimitInv
<1>2. /\ limiter \in {"postgres", "memory"} /\ clock \in Nat /\ asking \in [Steps -> Submissions]
      /\ \A b \in {bucket, before} : b = NoBucket \/ (b \in Buckets /\ b.at <= clock)
  BY <1>1 DEF LimiterTypeOK
<1>3. \A b : b = NoBucket \/ (b \in Buckets /\ b.at <= clock) =>
        Level(b, clock) \in Nat /\ Level(b, clock) <= Brim
  BY <1>2, LevelBounds
<1>4. Counted \in SUBSET Counted /\ {"ran"} \in SUBSET Counted BY DEF Counted
<1> QED BY <1>1, <1>2, <1>3, <1>4 DEF LimitInv

(* A step that takes no token and ends no transaction; it lowers the level  *)
(* or deletes the bucket too early.                                         *)
LEMMA LimitStays ==
  ASSUME LimitInv, LimiterTypeOK', UNCHANGED <<limiter, clock, before>>, early \subseteq early',
         \A s \in Steps : asking'[s].phase \in Counted \cup {"limited"} =>
           asking'[s] = asking[s],
         Level(bucket', clock) \in Nat,
         Level(bucket', clock) <= Level(bucket, clock) \/ clock \in early'
  PROVE  LimitInv'
<1>1. /\ LimiterTypeOK /\ IsFiniteSet(TookSince(0, Counted))
      /\ Accounts(bucket, Counted) /\ (Holder # {} => Accounts(before, {"ran"}))
      /\ \A s, t \in Holder : s = t
      /\ Level(bucket, clock) \in Nat /\ Level(before, clock) \in Nat
      /\ Counted \in SUBSET Counted /\ {"ran"} \in SUBSET Counted
  BY LimitParts
<1>2. limiter' = limiter /\ clock' = clock /\ before' = before OBVIOUS
<1>3. \A s \in Steps : asking'[s].phase \in Counted =>
        asking[s].phase \in Counted /\ asking'[s].took = asking[s].took
  OBVIOUS
<1>4. \A s \in Steps : asking'[s].phase \in {"ran"} =>
        asking[s].phase \in {"ran"} /\ asking'[s].took = asking[s].took
  BY DEF Counted
<1>5. Holder' \subseteq Holder BY DEF Holder, Counted
<1>6. PICK b : b = bucket' OBVIOUS
<1>7. ASSUME Level(bucket', clock) <= Level(bucket, clock)
      PROVE  Accounts(bucket, Counted)'
  <2>1. Accounts(b, Counted)' BY <1>1, <1>2, <1>3, <1>6, <1>7, AccountsKept
  <2> QED BY <2>1, <1>6 DEF Accounts, Level, Uncapped
<1>8. ASSUME clock \in early'
      PROVE  Accounts(bucket, Counted)'
  <2>1. clock \in Nat BY <1>1 DEF LimiterTypeOK
  <2>2. \A a \in 0..clock : ~Unbroken(a, clock)' BY <2>1, <1>2, <1>8 DEF Unbroken
  <2> QED BY <2>2, <1>2 DEF Accounts, Unbroken
<1>9. Holder' # {} => Accounts(before, {"ran"})'
  <2>1. SUFFICES ASSUME Holder' # {} PROVE Accounts(before, {"ran"})' OBVIOUS
  <2>2. Accounts(before, {"ran"}) BY <2>1, <1>1, <1>5
  <2>3. PICK c : c = before OBVIOUS
  <2>4. Accounts(c, {"ran"}) /\ Level(c, clock) \in Nat BY <2>2, <2>3, <1>1
  <2>5. PICK ran : ran = {"ran"} OBVIOUS
  <2>6. Accounts(c, ran)' BY <2>4, <2>5, <1>1, <1>2, <1>4, AccountsKept
  <2> QED BY <2>3, <2>5, <2>6, <1>2 DEF Accounts, Level, Uncapped
<1>10. IsFiniteSet(TookSince(0, Counted)')
  <2>1. TookSince(0, Counted)' \subseteq TookSince(0, Counted) BY <1>3 DEF TookSince
  <2> QED BY <2>1, <1>1, OneMore
<1>11. PastLimit' BY <1>2, <1>3, PastKept
<1> QED BY <1>1, <1>5, <1>7, <1>8, <1>9, <1>10, <1>11 DEF LimitInv

(* ReadClock *)
LEMMA ReadClockLimits ==
  ASSUME LimitInv, NEW s \in Steps, ReadClock(s)
  PROVE  LimitInv'
<1>1. LimiterTypeOK /\ clock \in Nat /\ asking \in [Steps -> Submissions]
      /\ Level(bucket, clock) \in Nat
  BY LimitParts
<1>2. PICK ask : ask = [phase |-> "waiting", read |-> clock, took |-> 0] OBVIOUS
<1>3. ask \in Submissions /\ ask.phase = "waiting" /\ ask.read = clock /\ ask.took = 0
  BY <1>1, <1>2 DEF Submissions
<1>4. /\ limiter = "postgres" /\ asking' = [asking EXCEPT ![s] = ask]
      /\ limiter' = limiter /\ clock' = clock /\ bucket' = bucket /\ before' = before
      /\ early' = early
  BY <1>2 DEF ReadClock
<1>5. /\ asking' \in [Steps -> Submissions] /\ asking'[s] = ask
      /\ \A t \in Steps : t # s => asking'[t] = asking[t]
  BY <1>1, <1>3, <1>4
<1>6. ask.read \in clock - MaxDelay .. clock
  <2>1. MaxDelay \in Nat BY RateLimiterAssumption
  <2> QED BY <2>1, <1>1, <1>3
<1>7. LimiterTypeOK'
  BY <1>1, <1>3, <1>4, <1>5, <1>6 DEF LimiterTypeOK
<1>8. \A t \in Steps : asking'[t].phase \in Counted \cup {"limited"} => asking'[t] = asking[t]
  BY <1>3, <1>5 DEF Counted
<1> QED BY <1>1, <1>4, <1>7, <1>8, LimitStays

(* ReapBefore: the bucket it deletes is full, or this moment is a break. *)
LEMMA ReapLimits ==
  ASSUME LimitInv, ReapBefore
  PROVE  LimitInv'
<1>1. LimiterTypeOK /\ Level(bucket, clock) \in Nat BY LimitParts
<1>2. /\ bucket # NoBucket /\ bucket' = NoBucket
      /\ early' = IF FullAgain(bucket) THEN early ELSE early \cup {clock}
      /\ limiter' = limiter /\ clock' = clock /\ before' = before /\ asking' = asking
  BY DEF ReapBefore
<1>3. clock \in Nat /\ early \subseteq early' /\ early' \subseteq early \cup {clock}
  BY <1>1, <1>2 DEF LimiterTypeOK
<1>4. LimiterTypeOK'
  <2>1. early' \subseteq Nat BY <1>1, <1>3 DEF LimiterTypeOK
  <2> QED BY <2>1, <1>1, <1>2 DEF LimiterTypeOK
<1>5. Level(bucket', clock) \in Nat
  <2>1. limiter \in {"postgres", "memory"} BY <1>1 DEF LimiterTypeOK
  <2> QED BY <2>1, <1>2, <1>3, LevelBounds
<1>6. Level(bucket', clock) <= Level(bucket, clock) \/ clock \in early'
  <2>1. CASE FullAgain(bucket)
    <3>1. Level(bucket, clock) = Brim BY <2>1, <1>1, <1>2, FullIsBrim
    <3>2. Level(bucket', clock) = Brim BY <1>2 DEF Level
    <3> QED BY <3>1, <3>2, <1>1
  <2>2. CASE ~FullAgain(bucket) BY <2>2, <1>2
  <2> QED BY <2>1, <2>2
<1> QED BY <1>2, <1>3, <1>4, <1>5, <1>6, LimitStays

(* A step that takes a token: it is now among those that did. *)
LEMMA GrantLimits ==
  ASSUME LimitInv, LimiterTypeOK', UNCHANGED <<limiter, clock, early>>, NEW s \in Steps,
         asking'[s].took = clock,
         \A t \in Steps : t # s => asking'[t] = asking[t],
         bucket' # NoBucket, Level(bucket', clock) \in Nat,
         Level(bucket', clock) + Window <= Level(bucket, clock)
  PROVE  /\ IsFiniteSet(TookSince(0, Counted)') /\ PastLimit'
         /\ Accounts(bucket, Counted)'
<1>1. /\ LimiterTypeOK /\ IsFiniteSet(TookSince(0, Counted)) /\ Accounts(bucket, Counted)
      /\ Level(bucket, clock) \in Nat /\ Counted \in SUBSET Counted
  BY LimitParts
<1>2. limiter' = limiter /\ clock' = clock /\ early' = early OBVIOUS
<1>3. \A t \in Steps \ {s} : asking'[t].phase \in Counted =>
        asking[t].phase \in Counted /\ asking'[t].took = asking[t].took
  OBVIOUS
<1>4. PICK b : b = bucket' OBVIOUS
<1>5. Accounts(b, Counted)' BY <1>1, <1>2, <1>3, <1>4, AccountsOfGrant
<1>6. Accounts(bucket, Counted)' BY <1>4, <1>5 DEF Accounts, Level, Uncapped
<1>7. IsFiniteSet(TookSince(0, Counted)')
  <2>1. TookSince(0, Counted)' \subseteq TookSince(0, Counted) \cup {s}
    BY <1>3 DEF TookSince
  <2> QED BY <2>1, <1>1, OneMore
<1>8. PastLimit' BY <1>2, <1>3, PastKept
<1> QED BY <1>6, <1>7, <1>8

(* TakeEntry, under the map's mutex *)
LEMMA TakeEntryLimits ==
  ASSUME LimitInv, NEW s \in Steps, TakeEntry(s)
  PROVE  LimitInv'
<1>1. /\ LimiterTypeOK /\ clock \in Nat /\ asking \in [Steps -> Submissions]
      /\ Level(bucket, clock) \in Nat
  BY LimitParts
<1>2. /\ limiter = "memory" /\ limiter' = limiter /\ clock' = clock /\ before' = before
      /\ early' = early
  BY DEF TakeEntry
<1>3. \A t \in Steps : asking[t].phase \in {"idle", "ran"} BY <1>1, <1>2 DEF LimiterTypeOK
<1>4. CASE Granted(clock)
  <2>1. PICK phase \in {"ran", "idle"} :
          asking' = [asking EXCEPT ![s] = [phase |-> phase, read |-> clock, took |-> clock]]
    BY <1>4 DEF TakeEntry
  <2>2. bucket' = Taken(clock) BY <1>4 DEF TakeEntry
  <2>3. PICK ask : ask = [phase |-> phase, read |-> clock, took |-> clock] OBVIOUS
  <2>4. /\ ask \in Submissions /\ ask.phase \in {"ran", "idle"} /\ ask.took = clock
        /\ ask.read = clock
    BY <2>1, <2>3, <1>1 DEF Submissions
  <2>5. /\ asking' \in [Steps -> Submissions] /\ asking'[s] = ask
        /\ \A t \in Steps : t # s => asking'[t] = asking[t]
    BY <2>1, <2>3, <2>4, <1>1
  <2>6. /\ bucket' \in Buckets /\ bucket'.at = clock
        /\ Level(bucket', clock) + Window <= Level(bucket, clock)
    <3>1. Slack \in Nat BY <1>1, Amounts DEF LimiterTypeOK
    <3>2. clock <= clock /\ clock <= clock + Slack BY <3>1, <1>1
    <3> QED BY <3>2, <2>2, <1>1, <1>4, GrantTakes
  <2>7. bucket' # NoBucket BY <2>6 DEF Buckets, NoBucket
  <2>8. \A t \in Steps : asking'[t].phase \in {"idle", "ran"} BY <2>4, <2>5, <1>3
  <2>9. LimiterTypeOK'
    BY <2>4, <2>5, <2>6, <2>8, <1>1, <1>2 DEF LimiterTypeOK
  <2>10. Level(bucket', clock) \in Nat
    <3>1. bucket' \in Buckets /\ bucket'.at <= clock BY <2>6, <1>1
    <3>2. limiter \in {"postgres", "memory"} BY <1>2
    <3> QED BY <3>1, <3>2, <1>1, LevelBounds
  <2>11. /\ IsFiniteSet(TookSince(0, Counted)') /\ PastLimit' /\ Accounts(bucket, Counted)'
    BY <2>4, <2>5, <2>6, <2>7, <2>9, <2>10, <1>2, GrantLimits
  <2>12. Holder' = {} BY <2>8 DEF Holder
  <2> QED BY <2>9, <2>11, <2>12 DEF LimitInv
<1>5. CASE ~Granted(clock)
  <2>1. bucket' = [tokens |-> Refilled(bucket, clock), at |-> clock] /\ asking' = asking
    BY <1>5 DEF TakeEntry
  <2>2. bucket' \in Buckets /\ Level(bucket', clock) <= Level(bucket, clock)
    BY <2>1, <1>1, <1>5, DenialKeeps
  <2>3. bucket'.at = clock BY <2>1
  <2>4. LimiterTypeOK' BY <2>1, <2>2, <2>3, <1>1, <1>2 DEF LimiterTypeOK
  <2>5. Level(bucket', clock) \in Nat
    <3>1. bucket'.at <= clock BY <2>3, <1>1
    <3>2. limiter \in {"postgres", "memory"} BY <1>2
    <3> QED BY <3>1, <3>2, <2>2, <1>1, LevelBounds
  <2> QED BY <2>1, <2>2, <2>4, <2>5, <1>2, LimitStays
<1> QED BY <1>4, <1>5

(* TakeRow: granted or not, the row is held, and what it was is kept. *)
LEMMA TakeRowLimits ==
  ASSUME LimitInv, NEW s \in Steps, TakeRow(s)
  PROVE  LimitInv'
<1>1. /\ LimiterTypeOK /\ clock \in Nat /\ asking \in [Steps -> Submissions]
      /\ IsFiniteSet(TookSince(0, Counted)) /\ Accounts(bucket, Counted)
      /\ Level(bucket, clock) \in Nat /\ limiter \in {"postgres", "memory"}
      /\ Counted \in SUBSET Counted
  BY LimitParts
<1>2. PICK at : at = asking[s].read OBVIOUS
<1>3. PICK phase : phase = IF Granted(at) THEN "granted" ELSE "limited" OBVIOUS
<1>4. /\ asking[s].phase = "waiting" /\ Holder = {}
      /\ asking' = [asking EXCEPT ![s].phase = phase, ![s].took = clock]
      /\ bucket' = IF Granted(at) THEN Taken(at) ELSE bucket
      /\ before' = bucket /\ limiter' = limiter /\ clock' = clock /\ early' = early
  BY <1>2, <1>3 DEF TakeRow
<1>5. /\ limiter = "postgres" /\ at \in Nat /\ at \in clock - MaxDelay .. clock
  <2>1. limiter # "memory" BY <1>1, <1>4 DEF LimiterTypeOK
  <2>2. at \in Nat BY <1>1, <1>2 DEF Submissions
  <2>3. at \in clock - MaxDelay .. clock BY <1>1, <1>2, <1>4 DEF LimiterTypeOK
  <2> QED BY <2>1, <2>2, <2>3, <1>1
<1>6. at <= clock /\ clock <= at + Slack
  <2>1. Slack = MaxDelay /\ MaxDelay \in Nat BY <1>5, RateLimiterAssumption DEF Slack
  <2> QED BY <2>1, <1>1, <1>5
<1>7. /\ asking' \in [Steps -> Submissions]
      /\ asking'[s].phase = phase /\ asking'[s].took = clock
      /\ \A t \in Steps : t # s => asking'[t] = asking[t]
  BY <1>1, <1>3, <1>4 DEF Submissions
<1>8. /\ Granted(at) => /\ bucket' \in Buckets /\ bucket'.at = at
                        /\ Level(bucket', clock) + Window <= Level(bucket, clock)
      /\ ~Granted(at) => bucket' = bucket
  BY <1>1, <1>4, <1>5, <1>6, GrantTakes
<1>9. LimiterTypeOK'
  <2>1. \A b \in {bucket', before'} : b = NoBucket \/ (b \in Buckets /\ b.at <= clock)
    BY <1>1, <1>4, <1>6, <1>8 DEF LimiterTypeOK
  <2>2. \A t \in Steps : /\ asking'[t].took <= clock
                         /\ asking'[t].phase = "waiting" =>
                              asking'[t].read \in clock - MaxDelay .. clock
    BY <1>1, <1>3, <1>7 DEF LimiterTypeOK
  <2> QED BY <2>1, <2>2, <1>1, <1>4, <1>5, <1>7 DEF LimiterTypeOK
<1>10. Holder' = {s}
  <2>1. \A t \in Steps : t # s => asking'[t].phase \notin {"granted", "limited"}
    BY <1>4, <1>7 DEF Holder
  <2> QED BY <2>1, <1>3, <1>7 DEF Holder
<1>11. Accounts(before, {"ran"})'
  <2>1. PICK b, ran : b = bucket /\ ran = {"ran"} OBVIOUS
  <2>2. \A t \in Steps : asking'[t].phase \in ran =>
          asking[t].phase \in Counted /\ asking'[t].took = asking[t].took
    BY <2>1, <1>3, <1>7 DEF Counted
  <2>3. Accounts(b, Counted) /\ Level(b, clock) \in Nat /\ Level(b, clock) <= Level(b, clock)
    BY <2>1, <1>1
  <2>4. Accounts(b, ran)' BY <2>2, <2>3, <1>1, <1>4, AccountsKept
  <2> QED BY <2>1, <2>4, <1>4 DEF Accounts, Level, Uncapped
<1>12. IsFiniteSet(TookSince(0, Counted)') /\ PastLimit' /\ Accounts(bucket, Counted)'
  <2>1. CASE Granted(at)
    <3>1. bucket' # NoBucket BY <2>1, <1>8 DEF Buckets, NoBucket
    <3>2. Level(bucket', clock) \in Nat
      <4>1. bucket' \in Buckets /\ bucket'.at <= clock BY <2>1, <1>6, <1>8
      <4> QED BY <4>1, <1>1, LevelBounds
    <3>3. Level(bucket', clock) + Window <= Level(bucket, clock) BY <2>1, <1>8
    <3> QED BY <3>1, <3>2, <3>3, <1>4, <1>7, <1>9, GrantLimits
  <2>2. CASE ~Granted(at)
    <3>1. \A t \in Steps : asking'[t].phase \in Counted =>
            asking[t].phase \in Counted /\ asking'[t].took = asking[t].took
      BY <2>2, <1>3, <1>7 DEF Counted
    <3>2. Level(bucket, clock) <= Level(bucket, clock) BY <1>1
    <3>3. PICK b : b = bucket OBVIOUS
    <3>4. Accounts(b, Counted)' BY <3>1, <3>2, <3>3, <1>1, <1>4, AccountsKept
    <3>5. Accounts(bucket, Counted)'
      BY <2>2, <3>3, <3>4, <1>8 DEF Accounts, Level, Uncapped
    <3>6. IsFiniteSet(TookSince(0, Counted)')
      <4>1. TookSince(0, Counted)' \subseteq TookSince(0, Counted) BY <3>1 DEF TookSince
      <4> QED BY <4>1, <1>1, OneMore
    <3>7. PastLimit' BY <3>1, <1>4, PastKept
    <3> QED BY <3>5, <3>6, <3>7
  <2> QED BY <2>1, <2>2
<1> QED BY <1>9, <1>10, <1>11, <1>12 DEF LimitInv

(* Commit and Rollback end the only transaction that holds the row. *)
LEMMA TransactionEnds ==
  ASSUME LimitInv, NEW s \in Steps, Commit(s) \/ Rollback(s)
  PROVE  LimitInv'
<1>1. /\ LimiterTypeOK /\ clock \in Nat /\ asking \in [Steps -> Submissions]
      /\ IsFiniteSet(TookSince(0, Counted)) /\ Accounts(bucket, Counted)
      /\ (Holder # {} => Accounts(before, {"ran"})) /\ \A x, t \in Holder : x = t
      /\ Level(bucket, clock) \in Nat /\ Level(before, clock) \in Nat
      /\ Counted \in SUBSET Counted /\ {"ran"} \in SUBSET Counted
  BY LimitParts
<1>2. /\ s \in Holder /\ limiter' = limiter /\ clock' = clock /\ before' = before
      /\ early' = early
  BY DEF Commit, Rollback, Holder
<1>3. PICK phase \in {"ran", "idle"} :
        /\ asking' = [asking EXCEPT ![s].phase = phase]
        /\ phase = "ran" => asking[s].phase = "granted"
        /\ Rollback(s) => phase = "idle"
        /\ bucket' = bucket \/ (Rollback(s) /\ bucket' = before)
  <2>1. CASE Rollback(s) BY <2>1 DEF Rollback
  <2>2. CASE Commit(s) /\ ~Rollback(s) BY <2>2 DEF Commit
  <2> QED BY <2>1, <2>2
<1>4. /\ asking' \in [Steps -> Submissions]
      /\ asking'[s].phase = phase /\ asking'[s].took = asking[s].took
      /\ \A t \in Steps : t # s => asking'[t] = asking[t]
  BY <1>1, <1>3 DEF Submissions
<1>5. \A t \in Steps : t # s => asking[t].phase \notin {"granted", "limited"}
  BY <1>1, <1>2 DEF Holder
<1>6. Holder' = {} BY <1>3, <1>4, <1>5 DEF Holder
<1>7. LimiterTypeOK'
  <2>1. \A b \in {bucket', before'} : b = NoBucket \/ (b \in Buckets /\ b.at <= clock)
    BY <1>1, <1>2, <1>3 DEF LimiterTypeOK
  <2>2. \A t \in Steps : /\ asking'[t].took <= clock
                         /\ asking'[t].phase = "waiting" =>
                              asking'[t].read \in clock - MaxDelay .. clock
    BY <1>1, <1>3, <1>4 DEF LimiterTypeOK
  <2>3. limiter = "memory" => \A t \in Steps : asking'[t].phase \in {"idle", "ran"}
    BY <1>1, <1>3, <1>4 DEF LimiterTypeOK
  <2> QED BY <2>1, <2>2, <2>3, <1>1, <1>2, <1>4 DEF LimiterTypeOK
<1>8. \A t \in Steps : asking'[t].phase \in Counted =>
        asking[t].phase \in Counted /\ asking'[t].took = asking[t].took
  BY <1>3, <1>4 DEF Counted
<1>9. IsFiniteSet(TookSince(0, Counted)')
  <2>1. TookSince(0, Counted)' \subseteq TookSince(0, Counted) BY <1>8 DEF TookSince
  <2> QED BY <2>1, <1>1, OneMore
<1>10. PastLimit' BY <1>2, <1>8, PastKept
<1>11. Accounts(bucket, Counted)'
  <2>1. CASE bucket' = bucket
    <3>1. PICK b : b = bucket OBVIOUS
    <3>2. Accounts(b, Counted) /\ Level(b, clock) \in Nat /\ Level(b, clock) <= Level(b, clock)
      BY <3>1, <1>1
    <3>3. Accounts(b, Counted)' BY <3>2, <1>1, <1>2, <1>8, AccountsKept
    <3> QED BY <2>1, <3>1, <3>3 DEF Accounts, Level, Uncapped
  <2>2. CASE Rollback(s) /\ bucket' = before
    <3>1. PICK b, ran : b = before /\ ran = {"ran"} OBVIOUS
    <3>2. \A t \in Steps : asking'[t].phase \in Counted =>
            asking[t].phase \in ran /\ asking'[t].took = asking[t].took
      BY <2>2, <3>1, <1>3, <1>4, <1>5 DEF Counted
    <3>3. Accounts(b, ran) BY <3>1, <1>1, <1>2
    <3>4. ran \in SUBSET Counted /\ Level(b, clock) \in Nat /\ Level(b, clock) <= Level(b, clock)
      BY <3>1, <1>1
    <3>5. Accounts(b, Counted)' BY <3>2, <3>3, <3>4, <1>1, <1>2, AccountsKept
    <3> QED BY <2>2, <3>1, <3>5 DEF Accounts, Level, Uncapped
  <2> QED BY <2>1, <2>2, <1>3
<1> QED BY <1>6, <1>7, <1>9, <1>10, <1>11 DEF LimitInv

(* Time passes, at most MaxDelay from a reading to its row. *)
LEMMA TickLimits ==
  ASSUME LimitInv, Tick
  PROVE  LimitInv'
<1>1. /\ LimiterTypeOK /\ clock \in Nat /\ asking \in [Steps -> Submissions]
      /\ IsFiniteSet(TookSince(0, Counted)) /\ Accounts(bucket, Counted)
      /\ (Holder # {} => Accounts(before, {"ran"})) /\ \A x, t \in Holder : x = t
      /\ Counted \in SUBSET Counted /\ {"ran"} \in SUBSET Counted
  BY LimitParts
<1>2. /\ limiter' = limiter /\ clock' = clock + 1 /\ asking' = asking
      /\ bucket' = bucket /\ before' = before /\ early' = early
      /\ \A s \in Steps : asking[s].phase = "waiting" => clock - asking[s].read < MaxDelay
  BY DEF Tick
<1>3. \A b \in {bucket, before} : b = NoBucket \/ (b \in Buckets /\ b.at <= clock)
  BY <1>1 DEF LimiterTypeOK
<1>4. LimiterTypeOK'
  <2>1. \A b \in {bucket, before} : b = NoBucket \/ (b \in Buckets /\ b.at <= clock + 1)
    BY <1>1, <1>3 DEF Buckets
  <2>2. ASSUME NEW s \in Steps
        PROVE  /\ asking[s].took <= clock + 1
               /\ asking[s].phase = "waiting" =>
                    asking[s].read \in (clock + 1) - MaxDelay .. clock + 1
    <3>1. asking[s].took \in Nat /\ asking[s].read \in Nat BY <1>1 DEF Submissions
    <3>2. /\ asking[s].took <= clock
          /\ asking[s].phase = "waiting" => asking[s].read \in clock - MaxDelay .. clock
      BY <1>1 DEF LimiterTypeOK
    <3>3. MaxDelay \in Nat BY RateLimiterAssumption
    <3> QED BY <3>1, <3>2, <3>3, <1>1, <1>2
  <2>3. limiter = "memory" => \A s \in Steps : asking[s].phase \in {"idle", "ran"}
    BY <1>1 DEF LimiterTypeOK
  <2>4. limiter \in {"postgres", "memory"} /\ clock + 1 \in Nat BY <1>1 DEF LimiterTypeOK
  <2> QED BY <2>1, <2>2, <2>3, <2>4, <1>1, <1>2 DEF LimiterTypeOK
<1>5. Accounts(bucket, Counted)'
  <2>1. PICK b : b = bucket OBVIOUS
  <2>2. Accounts(b, Counted) /\ (b = NoBucket \/ (b \in Buckets /\ b.at <= clock))
    BY <2>1, <1>1, <1>3
  <2>3. Accounts(b, Counted)' BY <2>2, <1>1, <1>2, AccountsTick
  <2> QED BY <2>1, <2>3, <1>2 DEF Accounts, Level, Uncapped
<1>6. Holder' = Holder BY <1>2 DEF Holder
<1>7. Holder' # {} => Accounts(before, {"ran"})'
  <2>1. SUFFICES ASSUME Holder # {} PROVE Accounts(before, {"ran"})' BY <1>6
  <2>2. PICK b, ran : b = before /\ ran = {"ran"} OBVIOUS
  <2>3. /\ Accounts(b, ran) /\ (b = NoBucket \/ (b \in Buckets /\ b.at <= clock))
        /\ ran \in SUBSET Counted
    BY <2>1, <2>2, <1>1, <1>3
  <2>4. Accounts(b, ran)' BY <2>3, <1>1, <1>2, AccountsTick
  <2> QED BY <2>2, <2>4, <1>2 DEF Accounts, Level, Uncapped
<1>8. IsFiniteSet(TookSince(0, Counted)') BY <1>1, <1>2 DEF TookSince
<1>9. PastLimit'
  <2>1. \A s \in Steps : asking'[s].phase \in Counted =>
          asking[s].phase \in Counted /\ asking'[s].took = asking[s].took
    BY <1>2
  <2> QED BY <2>1, <1>2, PastKept
<1> QED BY <1>1, <1>4, <1>5, <1>6, <1>7, <1>8, <1>9 DEF LimitInv

(* Every step keeps the accounts. *)
LEMMA NextLimits == LimitInv /\ [LimiterNext]_limiterVars => LimitInv'
<1> SUFFICES ASSUME LimitInv, [LimiterNext]_limiterVars PROVE LimitInv' OBVIOUS
<1>1. CASE UNCHANGED limiterVars
  BY <1>1 DEF limiterVars, LimitInv, LimiterTypeOK, Holder, TookSince, Accounts, Level, Uncapped,
              Brim, Slack, PastLimit, RanWithin, Unbroken
<1>2. CASE \E s \in Steps : ReadClock(s) \/ TakeRow(s) \/ Commit(s) \/ Rollback(s) \/ TakeEntry(s)
  BY <1>2, ReadClockLimits, TakeRowLimits, TransactionEnds, TakeEntryLimits
<1>3. CASE ReapBefore BY <1>3, ReapLimits
<1>4. CASE Tick BY <1>4, TickLimits
<1> QED BY <1>1, <1>2, <1>3, <1>4 DEF LimiterNext

(* What was handed out and what is left never exceed a burst and the refill, *)
(* for the bucket there is and for the one a rollback would restore.         *)
THEOREM LimitInvariance == LimiterSpec => []LimitInv
BY InitLimits, NextLimits, PTL DEF LimiterSpec

(* Between any two moments no more steps run than a burst and the refill of  *)
(* the time between them, and of a late reading's delay, allow: for every    *)
(* limit, window, retention and number of steps, through rollbacks and       *)
(* deleted buckets, where none of the buckets deleted between them was still *)
(* filling.                                                                  *)
THEOREM LimitKept == LimiterSpec => []NeverOverLimit
BY LimitInvariance, LimitHolds, PTL

-----------------------------------------------------------------------------
(* A retention that no bucket is still filling after                       *)

KeptPastRefill == Retention >= Window + MaxDelay
NothingEarly == early = {}

(* A stale bucket is then full again. *)
LEMMA StaleIsFull ==
  ASSUME KeptPastRefill, LimiterTypeOK, bucket # NoBucket, Stale(bucket)
  PROVE  FullAgain(bucket)
<1>1. /\ MaxCalls \in Nat /\ Window \in Nat /\ MaxDelay \in Nat /\ Retention \in Nat
      /\ clock \in Nat /\ Full = MaxCalls * Window /\ Full \in Nat
  BY RateLimiterAssumption, Amounts DEF LimiterTypeOK, Full
<1>2. bucket.tokens \in Nat /\ bucket.at \in Nat BY DEF LimiterTypeOK, Buckets
<1>3. PICK since : since = (clock - MaxDelay) - bucket.at OBVIOUS
<1>4. since \in Int /\ Window <= since BY <1>1, <1>2, <1>3 DEF Stale, KeptPastRefill
<1>5. Full <= MaxCalls * since /\ MaxCalls * since \in Int BY <1>1, <1>4, RefillGrows
<1>6. PICK more : more = MaxCalls * since OBVIOUS
<1>7. Refilled(bucket, clock - MaxDelay) =
        IF bucket.tokens + more > Full THEN Full ELSE bucket.tokens + more
  BY <1>3, <1>6 DEF Refilled
<1> QED BY <1>1, <1>2, <1>5, <1>6, <1>7 DEF FullAgain

(* Where the retention is longer than a window and a late reading, no bucket *)
(* is deleted too early, and the limit holds between any two moments.        *)
THEOREM NothingDeletedEarly == KeptPastRefill /\ LimiterSpec => []NothingEarly
<1> SUFFICES ASSUME KeptPastRefill PROVE LimiterSpec => []NothingEarly OBVIOUS
<1>1. LimiterInit => NothingEarly BY DEF LimiterInit, NothingEarly
<1>2. LimitInv /\ NothingEarly /\ [LimiterNext]_limiterVars => NothingEarly'
  <2> SUFFICES ASSUME LimitInv, NothingEarly, [LimiterNext]_limiterVars PROVE early' = {}
    BY DEF NothingEarly
  <2>1. CASE ReapBefore
    <3>1. FullAgain(bucket) BY <2>1, StaleIsFull DEF ReapBefore, LimitInv
    <3> QED BY <2>1, <3>1 DEF ReapBefore, NothingEarly
  <2>2. CASE ~ReapBefore
    BY <2>2 DEF LimiterNext, ReadClock, TakeRow, Commit, Rollback, TakeEntry, Tick, limiterVars,
                NothingEarly
  <2> QED BY <2>1, <2>2
<1> QED BY <1>1, <1>2, LimitInvariance, PTL DEF LimiterSpec
=============================================================================
