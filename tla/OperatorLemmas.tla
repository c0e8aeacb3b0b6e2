--------------------------- MODULE OperatorLemmas ---------------------------
(***************************************************************************)
(* What the operators of Breaker and Policy do, for every threshold,       *)
(* window, rate, timeout and delay.  Nothing here speaks of a state        *)
(* machine: the other proof modules build on it.                           *)
(***************************************************************************)
EXTENDS Breaker, Policy, SequenceTheorems, WellFoundedInduction, TLAPS

(* A set of numbers has a least one.                                       *)
LEMMA LeastNatural ==
  ASSUME NEW S \in SUBSET Nat, S # {} PROVE \E n \in S : \A m \in S : n =< m
<1> DEFINE R == OpToRel(<, Nat)
<1>1. IsWellFoundedOn(R, Nat)
  BY NatLessThanWellFounded
<1>2. \A x, y \in Nat : <<y, x>> \in R <=> y < x
  BY DEF OpToRel
<1> HIDE DEF R
<1>3. PICK x \in S : \A y \in S : ~(<<y, x>> \in R)
  BY <1>1, WFMin
<1>4. ASSUME NEW m \in S PROVE x =< m
  <2>1. x \in Nat /\ m \in Nat
    OBVIOUS
  <2>2. ~(m < x)
    BY <1>2, <1>3, <2>1
  <2> QED BY <2>1, <2>2
<1> QED BY <1>4

----------------------------------------------------------------------------
(***************************************************************************)
(* A coherent breaker: what every call preserves.                          *)
(***************************************************************************)
Coherent(b) ==
  /\ b \in Breakers
  /\ Len(b.recent) =< WindowSize
  /\ b.state = "closed" =>
       /\ b.consecutiveFails < ConsecutiveFailures
       /\ b.openUntil = ZeroTime
       /\ b.lastProbeAt = ZeroTime
  /\ b.state = "open" => b.openUntil # ZeroTime
  /\ b.probeInFlight => b.state = "half_open"

\* The counter of consecutive failures stays a natural number.
LEMMA OneMoreType == ASSUME NEW n \in Nat PROVE OneMore(n) \in Nat
BY BreakerConfigAssumption DEF OneMore

----------------------------------------------------------------------------
(* Recording a result keeps the type and the length of the window, and     *)
(* touches no other field (recordLocked).                                  *)
LEMMA RecordType ==
  ASSUME NEW b \in Breakers, Len(b.recent) =< WindowSize, NEW failed \in BOOLEAN
  PROVE  /\ Record(b, failed) = [b EXCEPT !.recent = Record(b, failed).recent]
         /\ Record(b, failed).recent \in Seq(BOOLEAN)
         /\ Len(Record(b, failed).recent) =< WindowSize
<1> DEFINE kept == IF Len(b.recent) = WindowSize THEN Tail(b.recent) ELSE b.recent
<1>1. b.recent \in Seq(BOOLEAN)
  BY DEF Breakers
<1>2. kept \in Seq(BOOLEAN) /\ Len(kept) < WindowSize
  <2>1. CASE Len(b.recent) = WindowSize
    <3>1. b.recent # <<>>
      BY <1>1, <2>1, BreakerConfigAssumption
    <3>2. Tail(b.recent) \in Seq(BOOLEAN) /\ Len(Tail(b.recent)) = Len(b.recent) - 1
      BY <1>1, <3>1, HeadTailProperties
    <3>3. QED BY <2>1, <3>2, BreakerConfigAssumption
  <2>2. CASE Len(b.recent) # WindowSize
    BY <1>1, <2>2, BreakerConfigAssumption
  <2>3. QED BY <2>1, <2>2
<1>3. Append(kept, failed) \in Seq(BOOLEAN) /\ Len(Append(kept, failed)) = Len(kept) + 1
  <2> HIDE DEF kept
  <2>1. QED BY <1>2
<1>4. Record(b, failed) = [b EXCEPT !.recent = Append(kept, failed)]
  BY DEF Record
<1>5. Record(b, failed).recent = Append(kept, failed)
  BY <1>4 DEF Breakers
<1>6. Len(kept) \in Nat
  <2> HIDE DEF kept
  <2>1. QED BY <1>2
<1> HIDE DEF kept
<1>7. QED BY <1>2, <1>3, <1>4, <1>5, <1>6, BreakerConfigAssumption

(* A breaker that has just been created or closed is coherent.             *)
LEMMA NewCoherent == Coherent(NewBreaker)
<1>1. NewBreaker \in Breakers
  BY DEF NewBreaker, Breakers, BreakerStates, ZeroTime
<1>2. QED
  BY <1>1, BreakerConfigAssumption DEF Coherent, NewBreaker, ZeroTime

(* Moving an expired breaker to half open keeps it coherent                *)
(* (advanceLocked).                                                        *)
LEMMA AdvanceCoherent ==
  ASSUME NEW b, Coherent(b), NEW t \in Instant
  PROVE  /\ Coherent(Advance(b, t))
         /\ Advance(b, t).lastProbeAt = b.lastProbeAt
         /\ Advance(b, t).probeInFlight => b.probeInFlight
         /\ Advance(b, t).state # b.state => b.state = "open" /\ t >= b.openUntil
         /\ Advance(b, t).state = "open" => Advance(b, t) = b
BY DEF Coherent, Advance, Expired, ToHalfOpen, Breakers, BreakerStates, Instant, ZeroTime

(* Asking for a probe keeps the breaker coherent (TryAcquireProbe).        *)
LEMMA AcquireCoherent ==
  ASSUME NEW b, Coherent(b), NEW t \in Instant
  PROVE  /\ Coherent(AcquireProbe(b, t))
         /\ AcquireProbe(b, t).state = Advance(b, t).state
         /\ AcquireProbe(b, t).state = "open" => AcquireProbe(b, t) = b
<1>1. /\ Coherent(Advance(b, t))
      /\ Advance(b, t).state = "open" => Advance(b, t) = b
  BY AdvanceCoherent
<1>2. QED BY <1>1 DEF Coherent, AcquireProbe, ProbeAllowed, Breakers, Instant, ZeroTime

(* Reopening gives the breaker an expiry (reopenLocked).                   *)
LEMMA ReopenCoherent ==
  ASSUME NEW b \in Breakers, Len(b.recent) =< WindowSize,
         NEW t \in Instant, NEW cooldown \in Nat
  PROVE  /\ Coherent(Reopen(b, t, cooldown))
         /\ Reopen(b, t, cooldown).lastProbeAt = b.lastProbeAt
         /\ Reopen(b, t, cooldown).state = "open"
         /\ Reopen(b, t, cooldown).openUntil = t + cooldown
         /\ Reopen(b, t, cooldown).probeInFlight = FALSE
<1> DEFINE until == t + cooldown
<1>1. until \in Nat /\ until # 0
  BY DEF Instant
<1>2. Reopen(b, t, cooldown) =
        [b EXCEPT !.state = "open", !.openUntil = until, !.probeInFlight = FALSE]
  BY DEF Reopen
<1> HIDE DEF until
<1> DEFINE r == Reopen(b, t, cooldown)
<1>3. r \in Breakers
  <2> DEFINE r1 == [b EXCEPT !.state = "open"]
             r2 == [r1 EXCEPT !.openUntil = until]
  <2>1. r1 \in Breakers
    BY DEF Breakers, BreakerStates
  <2> HIDE DEF r1
  <2>2. r2 \in Breakers
    BY <1>1, <2>1 DEF Breakers
  <2> HIDE DEF r2
  <2>3. [r2 EXCEPT !.probeInFlight = FALSE] \in Breakers
    BY <2>2 DEF Breakers
  <2>4. QED BY <1>2, <2>3 DEF r1, r2
<1>4. /\ r.state = "open" /\ r.openUntil = until /\ r.probeInFlight = FALSE
      /\ r.recent = b.recent /\ r.lastProbeAt = b.lastProbeAt
  BY <1>2 DEF Breakers
<1> HIDE DEF r
<1>5. Coherent(r)
  BY <1>1, <1>3, <1>4 DEF Coherent, Instant, ZeroTime
<1>6. QED BY <1>4, <1>5 DEF r, until

(* Reporting a result keeps the breaker coherent, however old the instant  *)
(* it comes with (Observe).                                                *)
LEMMA ObserveCoherent ==
  ASSUME NEW b, Coherent(b), NEW t \in Instant,
         NEW outcome \in BreakerOutcomes, NEW cooldown \in Nat
  PROVE  Coherent(ObserveOutcome(b, t, outcome, cooldown))
<1> DEFINE a == Advance(b, t)
<1>1. Coherent(a)
  BY AdvanceCoherent
<1>2. a \in Breakers /\ Len(a.recent) =< WindowSize
  BY <1>1 DEF Coherent
<1> HIDE DEF a
<1>3. CASE outcome = "success"
  <2>1. CASE a.state = "half_open"
    <3>1. ObserveOutcome(b, t, outcome, cooldown) = NewBreaker
      BY <1>3, <2>1 DEF ObserveOutcome, OnSuccess, ToClosed, a
    <3>2. QED BY <3>1, NewCoherent
  <2>2. CASE a.state # "half_open"
    <3> DEFINE c == [a EXCEPT !.probeInFlight = FALSE, !.consecutiveFails = 0]
    <3>1. c \in Breakers /\ Len(c.recent) =< WindowSize
      BY <1>2 DEF Breakers
    <3>2. Record(c, FALSE) = [c EXCEPT !.recent = Record(c, FALSE).recent]
          /\ Record(c, FALSE).recent \in Seq(BOOLEAN)
          /\ Len(Record(c, FALSE).recent) =< WindowSize
      <4> HIDE DEF c
      <4>1. QED BY <3>1, RecordType
    <3>3. OnSuccess(a) = Record(c, FALSE)
      BY <2>2 DEF OnSuccess
    <3>4. PICK r \in Seq(BOOLEAN) : Len(r) =< WindowSize
                 /\ OnSuccess(a) = [c EXCEPT !.recent = r]
      BY <3>2, <3>3
    <3> DEFINE o == OnSuccess(a)
    <3>5. /\ o \in Breakers /\ o.recent = r /\ o.state = a.state
          /\ o.openUntil = a.openUntil /\ o.lastProbeAt = a.lastProbeAt
          /\ o.consecutiveFails = 0 /\ o.probeInFlight = FALSE
      <4>1. /\ c.state = a.state /\ c.openUntil = a.openUntil
            /\ c.lastProbeAt = a.lastProbeAt
            /\ c.consecutiveFails = 0 /\ c.probeInFlight = FALSE
        BY <1>2 DEF Breakers
      <4> HIDE DEF c
      <4>2. QED BY <3>1, <3>4, <4>1 DEF Breakers
    <3> HIDE DEF o
    <3>6. Coherent(o)
      BY <1>1, <3>4, <3>5, BreakerConfigAssumption DEF Coherent
    <3>7. ObserveOutcome(b, t, outcome, cooldown) = o
      BY <1>3 DEF ObserveOutcome, a, o
    <3>8. QED BY <1>1, <3>5, <3>6, <3>7
  <2>3. QED BY <2>1, <2>2
<1>4. CASE outcome = "failure"
  <2> DEFINE r == Record(a, TRUE)
             c == [r EXCEPT !.consecutiveFails = OneMore(@)]
  <2>1. r = [a EXCEPT !.recent = r.recent] /\ r.recent \in Seq(BOOLEAN)
        /\ Len(r.recent) =< WindowSize
    BY <1>2, RecordType
  <2> HIDE DEF r
  <2>2. /\ r \in Breakers
        /\ r.state = a.state /\ r.openUntil = a.openUntil
        /\ r.lastProbeAt = a.lastProbeAt /\ r.probeInFlight = a.probeInFlight
    BY <1>2, <2>1 DEF Breakers
  <2>3. /\ c \in Breakers /\ Len(c.recent) =< WindowSize
        /\ c.state = a.state /\ c.openUntil = a.openUntil
        /\ c.lastProbeAt = a.lastProbeAt /\ c.probeInFlight = a.probeInFlight
    BY <2>1, <2>2, OneMoreType DEF Breakers
  <2> HIDE DEF c
  <2>4. CASE a.state = "half_open"
    <3>1. OnFailure(a, t, cooldown) = Reopen(r, t, cooldown)
      BY <2>4 DEF OnFailure, r
    <3>2. QED BY <1>1, <1>4, <2>1, <2>2, <3>1, ReopenCoherent DEF ObserveOutcome, a
  <2>5. CASE a.state # "half_open" /\ ShouldOpen(c)
    <3>1. OnFailure(a, t, cooldown) = Reopen(c, t, cooldown)
      BY <2>5 DEF OnFailure, r, c
    <3>2. QED BY <1>1, <1>4, <2>3, <3>1, ReopenCoherent DEF ObserveOutcome, a
  <2>6. CASE a.state # "half_open" /\ ~ShouldOpen(c)
    <3>1. OnFailure(a, t, cooldown) = c
      BY <2>6 DEF OnFailure, r, c
    <3>2. c.consecutiveFails < ConsecutiveFailures
      BY <2>6, <2>3, BreakerConfigAssumption DEF ShouldOpen, Breakers
    <3>3. QED BY <1>1, <1>4, <2>3, <3>1, <3>2 DEF ObserveOutcome, a, Coherent
  <2>7. QED BY <2>4, <2>5, <2>6
<1>5. CASE outcome = "neutral"
  <2>1. Coherent(OnNeutral(a, t))
    BY <1>1 DEF OnNeutral, Coherent, Breakers, BreakerStates, Instant
  <2>2. QED BY <1>1, <1>5, <2>1 DEF ObserveOutcome, a
<1>6. QED BY <1>3, <1>4, <1>5 DEF BreakerOutcomes

(* What a report does to the probe, and that it leaves an open breaker     *)
(* open (Observe).                                                         *)
LEMMA ObserveProbe ==
  ASSUME NEW b, Coherent(b), NEW t \in Instant,
         NEW outcome \in BreakerOutcomes, NEW cooldown \in Nat
  PROVE  LET a == Advance(b, t)
             o == ObserveOutcome(b, t, outcome, cooldown)
         IN  /\ o.lastProbeAt = IF a.state = "half_open" /\ outcome = "success"
                                THEN ZeroTime
                                ELSE IF a.state = "half_open" /\ outcome = "neutral"
                                THEN t ELSE b.lastProbeAt
             /\ o.probeInFlight => b.probeInFlight
             /\ a.state = "open" => o.state = "open"
<1> DEFINE a == Advance(b, t)
           o == ObserveOutcome(b, t, outcome, cooldown)
<1>1. Coherent(a) /\ a.lastProbeAt = b.lastProbeAt
  BY AdvanceCoherent
<1>2. a \in Breakers /\ Len(a.recent) =< WindowSize
  BY <1>1 DEF Coherent
<1>3. a.probeInFlight => b.probeInFlight
  BY DEF a, Advance, Expired, ToHalfOpen, Coherent, Breakers
<1> HIDE DEF a
<1>4. CASE outcome = "success"
  <2>1. o = OnSuccess(a)
    BY <1>4 DEF ObserveOutcome, a
  <2>2. CASE a.state = "half_open"
    BY <1>4, <2>1, <2>2 DEF OnSuccess, ToClosed, NewBreaker, ZeroTime, a
  <2>3. CASE a.state # "half_open"
    <3> DEFINE c == [a EXCEPT !.probeInFlight = FALSE, !.consecutiveFails = 0]
    <3>1. c \in Breakers /\ Len(c.recent) =< WindowSize /\ c.state = a.state
          /\ c.lastProbeAt = a.lastProbeAt /\ c.probeInFlight = FALSE
      BY <1>2 DEF Breakers
    <3>2. o = Record(c, FALSE)
      BY <2>1, <2>3 DEF OnSuccess
    <3> HIDE DEF c, o
    <3>3. o.state = c.state /\ o.lastProbeAt = c.lastProbeAt /\ o.probeInFlight = FALSE
      BY <3>1, <3>2, RecordType DEF Breakers
    <3>4. QED BY <1>1, <1>4, <2>3, <3>1, <3>3 DEF a, o
  <2>4. QED BY <2>2, <2>3
<1>5. CASE outcome = "failure"
  <2> DEFINE r == Record(a, TRUE)
             c == [r EXCEPT !.consecutiveFails = OneMore(@)]
  <2>1. r \in Breakers /\ r.state = a.state
        /\ r.lastProbeAt = a.lastProbeAt /\ r.probeInFlight = a.probeInFlight
    BY <1>2, RecordType DEF Breakers
  <2> HIDE DEF r
  <2>2. c \in Breakers /\ c.state = a.state
        /\ c.lastProbeAt = a.lastProbeAt /\ c.probeInFlight = a.probeInFlight
    BY <2>1, OneMoreType DEF Breakers
  <2>3. o = OnFailure(a, t, cooldown)
    BY <1>5 DEF ObserveOutcome, a
  <2>4. o = Reopen(r, t, cooldown) \/ o = Reopen(c, t, cooldown) \/ o = c
    BY <2>3 DEF OnFailure, r, c
  <2>5. ASSUME NEW x \in Breakers
        PROVE  /\ Reopen(x, t, cooldown).state = "open"
               /\ Reopen(x, t, cooldown).lastProbeAt = x.lastProbeAt
               /\ Reopen(x, t, cooldown).probeInFlight = FALSE
    BY DEF Reopen, Breakers
  <2> HIDE DEF c, o
  <2>6. /\ o.lastProbeAt = a.lastProbeAt
        /\ o.probeInFlight => a.probeInFlight
        /\ a.state = "open" => o.state = "open"
    <3>1. CASE o = Reopen(r, t, cooldown)
      BY <2>1, <2>5, <3>1
    <3>2. CASE o = Reopen(c, t, cooldown)
      BY <2>2, <2>5, <3>2
    <3>3. CASE o = c
      BY <2>2, <3>3
    <3>4. QED BY <2>4, <3>1, <3>2, <3>3
  <2>7. QED BY <1>1, <1>3, <1>5, <2>6 DEF a, o
<1>6. CASE outcome = "neutral"
  <2>1. o = OnNeutral(a, t)
    BY <1>6 DEF ObserveOutcome, a
  <2>2. /\ o.lastProbeAt = IF a.state = "half_open" THEN t ELSE a.lastProbeAt
        /\ o.probeInFlight => a.probeInFlight
        /\ a.state = "open" => o.state = "open"
    BY <1>2, <2>1 DEF OnNeutral, Breakers
  <2> HIDE DEF o
  <2>3. QED BY <1>1, <1>3, <1>6, <2>2 DEF a, o
<1>7. QED BY <1>4, <1>5, <1>6 DEF BreakerOutcomes

(* A closed breaker is left closed by time and by probes.                  *)
LEMMA ClosedStays ==
  ASSUME NEW b, Coherent(b), b.state = "closed", NEW t \in Instant
  PROVE  Advance(b, t) = b /\ AcquireProbe(b, t) = b
BY DEF Advance, Expired, AcquireProbe, ProbeAllowed

(* No report leaves a probe in flight, and a breaker it leaves open has    *)
(* the expiry of this report, or the one it had (Observe).                 *)
LEMMA ObserveReleases ==
  ASSUME NEW b, Coherent(b), NEW t \in Instant,
         NEW outcome \in BreakerOutcomes, NEW cooldown \in Nat
  PROVE  LET o == ObserveOutcome(b, t, outcome, cooldown)
         IN  /\ o.probeInFlight = FALSE
             /\ o.state = "open" => \/ o.openUntil = t + cooldown
                                    \/ b.state = "open" /\ o.openUntil = b.openUntil
<1> DEFINE a == Advance(b, t)
           o == ObserveOutcome(b, t, outcome, cooldown)
<1>1. Coherent(a) /\ (a.state = "open" => a = b)
  BY AdvanceCoherent
<1>2. a \in Breakers /\ Len(a.recent) =< WindowSize
  BY <1>1 DEF Coherent
<1>3. a.state # "half_open" => a.probeInFlight = FALSE
  BY <1>1 DEF Coherent, Breakers
<1> HIDE DEF a
<1>4. CASE outcome = "success"
  <2>1. o = OnSuccess(a)
    BY <1>4 DEF ObserveOutcome, a
  <2>2. CASE a.state = "half_open"
    BY <1>1, <2>1, <2>2 DEF OnSuccess, ToClosed, NewBreaker
  <2>3. CASE a.state # "half_open"
    <3> DEFINE c == [a EXCEPT !.probeInFlight = FALSE, !.consecutiveFails = 0]
    <3>1. c \in Breakers /\ Len(c.recent) =< WindowSize /\ c.state = a.state
          /\ c.probeInFlight = FALSE /\ c.openUntil = a.openUntil
      BY <1>2 DEF Breakers
    <3>2. o = Record(c, FALSE)
      BY <2>1, <2>3 DEF OnSuccess
    <3> HIDE DEF c, o
    <3>3. o.state = c.state /\ o.probeInFlight = FALSE /\ o.openUntil = c.openUntil
      BY <3>1, <3>2, RecordType DEF Breakers
    <3> QED BY <1>1, <3>1, <3>3 DEF o
  <2> QED BY <2>2, <2>3
<1>5. CASE outcome = "failure"
  <2> DEFINE r == Record(a, TRUE)
             c == [r EXCEPT !.consecutiveFails = OneMore(@)]
  <2>1. /\ r \in Breakers /\ Len(r.recent) =< WindowSize /\ r.state = a.state
        /\ r.probeInFlight = a.probeInFlight /\ r.openUntil = a.openUntil
    BY <1>2, RecordType DEF Breakers
  <2> HIDE DEF r
  <2>2. /\ c \in Breakers /\ Len(c.recent) =< WindowSize /\ c.state = a.state
        /\ c.probeInFlight = a.probeInFlight /\ c.openUntil = a.openUntil
    BY <2>1, OneMoreType DEF Breakers
  <2>3. o = OnFailure(a, t, cooldown)
    BY <1>5 DEF ObserveOutcome, a
  <2>4. \/ o = Reopen(r, t, cooldown) \/ o = Reopen(c, t, cooldown)
        \/ o = c /\ a.state # "half_open"
    BY <2>3 DEF OnFailure, r, c
  <2> HIDE DEF c, o
  <2>6. CASE o = Reopen(r, t, cooldown)
    BY <2>1, <2>6, ReopenCoherent DEF o
  <2>7. CASE o = Reopen(c, t, cooldown)
    BY <2>2, <2>7, ReopenCoherent DEF o
  <2>8. CASE o = c /\ a.state # "half_open"
    BY <1>1, <1>3, <2>2, <2>8 DEF o
  <2> QED BY <2>4, <2>6, <2>7, <2>8
<1>6. CASE outcome = "neutral"
  <2>1. o = OnNeutral(a, t)
    BY <1>6 DEF ObserveOutcome, a
  <2>2. o.probeInFlight = FALSE /\ o.state = a.state /\ o.openUntil = a.openUntil
    BY <1>2, <1>3, <2>1 DEF OnNeutral, Breakers
  <2> HIDE DEF o
  <2> QED BY <1>1, <2>2 DEF o
<1> QED BY <1>4, <1>5, <1>6 DEF BreakerOutcomes

----------------------------------------------------------------------------
(***************************************************************************)
(* Policies.  Usable: what RoutedStream and Breaker ask of their numbers.  *)
(***************************************************************************)
Usable(p) ==
  /\ p \in [Fields -> Nat]
  /\ \A f \in Fields \ {"jitter"} : p[f] > 0
  /\ p["max"] >= p["base"] /\ p["rate"] =< Scale /\ p["jitter"] =< Scale

(* Whatever numbers they are given, the Normalize methods leave usable     *)
(* ones.                                                                   *)
LEMMA NormalizeUsable ==
  ASSUME NEW p \in [Fields -> Int] PROVE Usable(Normalize(p))
<1> DEFINE q == Normalize(p)
<1>1. /\ Default \in [Fields -> Nat] /\ \A f \in Fields : Default[f] > 0
      /\ Scale \in Nat /\ Scale > 0 /\ Default["rate"] =< Scale
  BY PolicyAssumption
<1>2. /\ "jitter" \in Fields /\ "max" \in Fields /\ "base" \in Fields /\ "rate" \in Fields
  BY DEF Fields, TimeoutFields, RetryFields, BreakerFields
<1>3. \A f \in Fields : p[f] \in Int /\ Positive(p, f) \in Nat /\ Positive(p, f) > 0
  BY <1>1 DEF Positive
<1>4. q["jitter"] \in Nat /\ q["jitter"] =< Scale
  BY <1>1, <1>2, <1>3 DEF Normalize, Smaller, Larger
<1>5. q["rate"] \in Nat /\ q["rate"] > 0 /\ q["rate"] =< Scale
  BY <1>1, <1>2, <1>3 DEF Normalize, Positive
<1>6. q["max"] = Larger(Positive(p, "max"), Positive(p, "base")) /\ q["base"] = Positive(p, "base")
  BY <1>2 DEF Normalize
<1>7. q["max"] \in Nat /\ q["max"] > 0 /\ q["max"] >= q["base"]
  BY <1>2, <1>3, <1>6 DEF Larger
<1>8. ASSUME NEW f \in Fields \ {"jitter", "max", "rate"}
      PROVE  q[f] \in Nat /\ q[f] > 0
  <2>1. q[f] = Positive(p, f)
    BY DEF Normalize
  <2> QED BY <1>3, <2>1
<1>9. q = [f \in Fields |-> q[f]]
  BY DEF Normalize
<1> HIDE DEF q
<1>10. \A f \in Fields : q[f] \in Nat /\ (f # "jitter" => q[f] > 0)
  BY <1>4, <1>5, <1>7, <1>8
<1> QED BY <1>4, <1>5, <1>7, <1>9, <1>10 DEF Usable, q

(* What the router and the server use of any valid configuration is        *)
(* usable (NewRouter, timeoutPolicyFor, retryPolicyFor).                   *)
LEMMA PoliciesUsable ==
  ASSUME NEW global \in [Fields -> Nat],
         NEW override \in [Fields -> Nat \union {Unset}]
  PROVE  Usable(RouterPolicy(global, override)) /\ Usable(ServerPolicy(global, override))
<1> DEFINE given == Given(global, override)
           router == RouterPolicy(global, override)
           merged == [f \in Fields |-> IF override[f] # Unset THEN override[f]
                                       ELSE IF global[f] > 0 THEN global[f] ELSE router[f]]
<1>1. given \in [Fields -> Int] /\ global \in [Fields -> Int]
  BY PolicyAssumption DEF Given
<1>2. Usable(Normalize(given)) /\ Usable(Normalize(global))
  <2> HIDE DEF given
  <2> QED BY <1>1, NormalizeUsable
<1> DEFINE g == Normalize(global)
           n == Normalize(given)
           t == IF AllZero(given, TimeoutFields) THEN g ELSE n
           b == IF AllZero(given, BreakerFields) THEN g ELSE n
<1>3. router = [f \in Fields |-> CASE f \in TimeoutFields -> t[f]
                                   [] f \in BreakerFields -> b[f]
                                   [] OTHER -> n[f]]
  BY DEF RouterPolicy
<1>4. Usable(t) /\ Usable(b) /\ Usable(n)
  BY <1>2
<1> HIDE DEF t, b, n, given, router
<1>5. /\ \A f \in Fields : router[f] \in Nat /\ (f # "jitter" => router[f] > 0)
      /\ router["max"] = n["max"] /\ router["base"] = n["base"]
      /\ router["jitter"] = n["jitter"] /\ router["rate"] = b["rate"]
      /\ router = [f \in Fields |-> router[f]]
  BY <1>3, <1>4 DEF Usable, Fields, TimeoutFields, RetryFields, BreakerFields
<1>6. Usable(router)
  BY <1>4, <1>5 DEF Usable
<1>7. merged \in [Fields -> Int]
  BY <1>5
<1>8. Usable(Normalize(merged))
  <2> HIDE DEF merged
  <2> QED BY <1>7, NormalizeUsable
<1>9. Normalize(merged) = ServerPolicy(global, override)
  BY DEF ServerPolicy, router
<1> QED BY <1>6, <1>8, <1>9 DEF router

----------------------------------------------------------------------------
(* d holds base and then each time what step makes of the one before.      *)
Iterates(d, base, step, times) ==
  /\ d \in [0..times -> Nat]
  /\ \A n \in 0..times : d[n] = IF n = 0 THEN base ELSE step[d[n - 1]]

(* A step on the numbers can be iterated any number of times: were there a *)
(* least number without such a function, the one for the number before     *)
(* could be extended.                                                      *)
LEMMA IterationExists ==
  ASSUME NEW base \in Nat, NEW step \in [Nat -> Nat], NEW times \in Nat
  PROVE  \E d : Iterates(d, base, step, times)
<1> DEFINE without == {m \in Nat : ~ \E d : Iterates(d, base, step, m)}
<1>1. without = {}
  <2> SUFFICES ASSUME without # {} PROVE FALSE
    OBVIOUS
  <2>1. PICK m \in without : \A k \in without : m =< k
    <3>1. without \in SUBSET Nat
      OBVIOUS
    <3> HIDE DEF without
    <3> QED BY <3>1, LeastNatural
  <2>2. CASE m = 0
    <3>1. Iterates([n \in 0..0 |-> base], base, step, 0)
      BY DEF Iterates
    <3> QED BY <2>1, <2>2, <3>1
  <2>3. CASE m # 0
    <3>1. m \in Nat /\ m - 1 \in Nat /\ ~(m =< m - 1)
      BY <2>3
    <3>2. PICK e : Iterates(e, base, step, m - 1)
      BY <2>1, <3>1
    <3> DEFINE d == [n \in 0..m |-> IF n = m THEN step[e[m - 1]] ELSE e[n]]
    <3>3. ASSUME NEW n \in 0..m
          PROVE  d[n] \in Nat /\ d[n] = IF n = 0 THEN base ELSE step[d[n - 1]]
      <4>1. CASE n = m
        BY <2>3, <3>1, <3>2, <4>1 DEF Iterates
      <4>2. CASE n # m
        <5>1. /\ n \in 0..(m - 1) /\ d[n] = e[n]
              /\ n # 0 => n - 1 \in 0..m /\ d[n - 1] = e[n - 1]
          BY <2>1, <4>2
        <5> QED BY <3>2, <5>1 DEF Iterates
      <4> QED BY <4>1, <4>2
    <3>4. DOMAIN d = 0..m /\ d = [n \in 0..m |-> d[n]]
      OBVIOUS
    <3> HIDE DEF d
    <3>5. Iterates(d, base, step, m)
      BY <3>3, <3>4 DEF Iterates
    <3> QED BY <2>1, <3>5
  <2> QED BY <2>1, <2>2, <2>3
<1> QED BY <1>1

(* So the doubling of a backoff is a function.                             *)
LEMMA DoublingExists ==
  ASSUME NEW base \in Nat, NEW max \in Nat, NEW attempts \in Nat
  PROVE  \E d : d = [n \in 0..attempts |->
                       IF n = 0 THEN base ELSE Smaller(2 * d[n - 1], max)]
<1> DEFINE step == [x \in Nat |-> Smaller(2 * x, max)]
<1>1. step \in [Nat -> Nat]
  BY DEF Smaller
<1>2. \A x \in Nat : step[x] = Smaller(2 * x, max)
  OBVIOUS
<1> HIDE DEF step
<1>3. PICK d : Iterates(d, base, step, attempts)
  BY <1>1, IterationExists
<1>4. ASSUME NEW n \in 0..attempts
      PROVE  d[n] = IF n = 0 THEN base ELSE Smaller(2 * d[n - 1], max)
  <2>1. n # 0 => n - 1 \in 0..attempts /\ d[n - 1] \in Nat
    BY <1>3 DEF Iterates
  <2> QED BY <1>2, <1>3, <2>1 DEF Iterates
<1>5. d = [n \in 0..attempts |-> IF n = 0 THEN base ELSE Smaller(2 * d[n - 1], max)]
  BY <1>3, <1>4 DEF Iterates
<1> QED BY <1>5

(* So a doubled delay is the base or lies between it and the maximum.      *)
LEMMA DoubledBounds ==
  ASSUME NEW base \in Nat, NEW max \in Nat, base =< max, NEW attempts \in Nat
  PROVE  Doubled(base, max, attempts) \in base..max
<1> DEFINE d == CHOOSE d : d = [n \in 0..attempts |->
                                  IF n = 0 THEN base ELSE Smaller(2 * d[n - 1], max)]
           outside == {n \in 0..attempts : d[n] \notin base..max}
<1>1. d = [n \in 0..attempts |-> IF n = 0 THEN base ELSE Smaller(2 * d[n - 1], max)]
  BY DoublingExists
<1>2. Doubled(base, max, attempts) = d[attempts]
  BY DEF Doubled
<1> HIDE DEF d
<1>3. \A n \in 0..attempts : d[n] = IF n = 0 THEN base ELSE Smaller(2 * d[n - 1], max)
  BY <1>1
<1>4. outside = {}
  <2> SUFFICES ASSUME outside # {} PROVE FALSE
    OBVIOUS
  <2>1. PICK n \in outside : \A k \in outside : n =< k
    <3>1. outside \in SUBSET Nat
      OBVIOUS
    <3> HIDE DEF outside
    <3> QED BY <3>1, LeastNatural
  <2>2. n # 0
    BY <1>3, <2>1
  <2>3. n - 1 \in 0..attempts /\ d[n - 1] \in base..max
    BY <2>1, <2>2
  <2>4. d[n] = Smaller(2 * d[n - 1], max)
    BY <1>3, <2>1, <2>2
  <2> QED BY <2>1, <2>3, <2>4 DEF Smaller
<1> QED BY <1>2, <1>4

(* Rounding is off by half a unit at most.                                 *)
LEMMA RoundedBounds ==
  ASSUME NEW x \in Nat, NEW y \in Nat \ {0}
  PROVE  /\ Rounded(x, y) \in Nat
         /\ 2 * y * Rounded(x, y) =< 2 * x + y
         /\ 2 * x =< 2 * y * Rounded(x, y) + y
<1> DEFINE n == 2 * x + y
           m == 2 * y
<1>1. n \in Nat /\ m \in Nat /\ m > 0
  OBVIOUS
<1> HIDE DEF n, m
<1>2. n \div m \in Nat /\ m * (n \div m) =< n /\ n < m * (n \div m) + m
  BY <1>1
<1> DEFINE product == m * Rounded(x, y)
<1>3. /\ Rounded(x, y) = n \div m /\ n = 2 * x + y /\ m = 2 * y
      /\ product = 2 * y * Rounded(x, y)
  BY DEF Rounded, n, m
<1>4. product \in Int /\ product =< n /\ n < product + m
  BY <1>1, <1>2, <1>3
<1> HIDE DEF product
<1>5. product =< 2 * x + y /\ 2 * x =< product + y
  BY <1>3, <1>4
<1> QED BY <1>2, <1>3, <1>5

(* Jitter moves a delay by at most its share, and rounding by half a tick  *)
(* (applyDurationJitter).                                                  *)
LEMMA JitteredBounds ==
  ASSUME NEW d \in Nat, NEW fraction \in 0..Scale, NEW sample \in 0..Scale
  PROVE  /\ Jittered(d, fraction, sample) \in Nat
         /\ 2 * (Jittered(d, fraction, sample) - d) * Scale =< 2 * fraction * d + Scale
         /\ 2 * (d - Jittered(d, fraction, sample)) * Scale =< 2 * fraction * d + Scale
<1> DEFINE S == Scale
           j == Jittered(d, fraction, sample)
<1>1. S \in Nat /\ S > 0 /\ fraction \in Nat /\ sample \in Nat
  BY PolicyAssumption
<1>2. CASE d = 0 \/ fraction = 0
  <2>1. j = d
    BY <1>1, <1>2 DEF Jittered
  <2>2. 2 * (j - d) * S = 0 /\ 2 * (d - j) * S = 0 /\ 2 * fraction * d \in Nat
    BY <1>1, <2>1
  <2> QED BY <1>1, <2>1, <2>2
<1>3. CASE d # 0 /\ fraction # 0
  <2> DEFINE swing == (2 * sample - S) * fraction
             x == d * (S * S + swing)
             y == S * S
  <2>1. swing \in Int /\ swing =< S * fraction /\ 0 - S * fraction =< swing
    <3>1. 2 * sample - S =< S /\ 0 - S =< 2 * sample - S /\ 2 * sample - S \in Int
      BY <1>1
    <3> QED BY <1>1, <3>1
  <2>2. S * fraction =< S * S /\ S * S \in Nat /\ S * S > 0 /\ S * fraction \in Nat
    BY <1>1
  <2>3. S * S + swing \in Nat
    BY <2>1, <2>2
  <2>4. x \in Nat /\ y \in Nat \ {0}
    BY <2>2, <2>3
  <2>5. j = Rounded(x, y)
    BY <1>1, <1>3 DEF Jittered
  <2>6. x = d * (S * S) + d * swing
    BY <2>1, <2>2
  <2>7. d * swing =< d * (S * fraction) /\ 0 - d * (S * fraction) =< d * swing
    BY <2>1, <2>2
  <2> HIDE DEF x, y, swing, j
  <2>8. j \in Nat /\ 2 * y * j =< 2 * x + y /\ 2 * x =< 2 * y * j + y
    BY <2>4, <2>5, RoundedBounds
  <2> DEFINE share == 2 * fraction * d + S
             up == 2 * (j - d) * S
             down == 2 * (d - j) * S
  <2>9. y = S * S /\ y \in Nat /\ x = d * y + d * swing /\ d * swing \in Int
    BY <2>1, <2>2, <2>6 DEF y
  <2>10. /\ d * (S * fraction) \in Nat /\ d * y \in Nat /\ y * j \in Nat
         /\ 2 * y * j = 2 * (y * j)
    BY <1>1, <2>8, <2>9
  <2>11. /\ 2 * (y * j) - 2 * (d * y) =< 2 * (d * (S * fraction)) + y
         /\ 2 * (d * y) - 2 * (y * j) =< 2 * (d * (S * fraction)) + y
    BY <2>7, <2>8, <2>9, <2>10
  <2>12. /\ S * share = 2 * (d * (S * fraction)) + y
         /\ S * up = 2 * (y * j) - 2 * (d * y)
         /\ S * down = 2 * (d * y) - 2 * (y * j)
         /\ share \in Int /\ up \in Int /\ down \in Int
    BY <1>1, <2>8, <2>9
  <2> HIDE DEF share, up, down
  <2>13. S * up =< S * share /\ S * down =< S * share
    BY <2>11, <2>12
  <2>14. up =< share /\ down =< share
    BY <1>1, <2>12, <2>13
  <2> QED BY <2>8, <2>14 DEF share, up, down, j
<1> QED BY <1>2, <1>3

(* A delay before a retry is a number of ticks, off the doubled base (or   *)
(* off what the upstream asked for, when that is more) by no more than     *)
(* jitter and rounding may add or take (RetryPolicy.Backoff).              *)
LEMMA BackoffsBounds ==
  ASSUME NEW p, Usable(p), NEW attempt \in Nat, NEW asked \in Nat,
         NEW delay \in Backoffs(p, attempt, asked)
  PROVE  LET middle == IF attempt = 0 /\ asked = 0 THEN 0
                       ELSE Larger(Doubled(p["base"], p["max"], attempt), asked)
         IN  /\ delay \in Nat
             /\ 2 * (delay - middle) * Scale =< 2 * p["jitter"] * middle + Scale
             /\ 2 * (middle - delay) * Scale =< 2 * p["jitter"] * middle + Scale
<1> DEFINE doubled == Doubled(p["base"], p["max"], attempt)
           larger == Larger(doubled, asked)
           fraction == p["jitter"]
<1>1. /\ p["base"] \in Nat /\ p["max"] \in Nat /\ p["base"] =< p["max"]
      /\ fraction \in 0..Scale /\ Scale \in Nat /\ 0..Scale \subseteq Nat
  BY PolicyAssumption DEF Usable, Fields, RetryFields
<1>2. doubled \in Nat
  <2>1. doubled \in p["base"]..p["max"]
    BY <1>1, DoubledBounds
  <2> QED BY <1>1, <2>1
<1>3. PICK sample \in 0..Scale :
        delay = IF asked =< 0 /\ attempt = 0 THEN 0 ELSE Jittered(larger, fraction, sample)
  BY DEF Backoffs, Backoff
<1>4. larger \in Nat
  BY <1>2 DEF Larger
<1> HIDE DEF doubled, larger, fraction
<1>5. CASE attempt = 0 /\ asked = 0
  <2>1. delay = 0
    BY <1>3, <1>5
  <2>2. fraction * 0 = 0 /\ 0 * Scale = 0
    BY <1>1
  <2> QED BY <1>1, <1>5, <2>1, <2>2 DEF fraction
<1>6. CASE ~(attempt = 0 /\ asked = 0)
  <2>1. delay = Jittered(larger, fraction, sample)
    BY <1>3, <1>6
  <2> QED BY <1>1, <1>4, <1>6, <2>1, JitteredBounds DEF larger, doubled, fraction
<1> QED BY <1>5, <1>6

(* A timer that is made runs until the deadline at the latest (Remaining,  *)
(* PhaseTimeout).                                                          *)
LEMMA PhaseTimeoutBounds ==
  ASSUME NEW deadline \in Nat, NEW t \in Nat, NEW phase \in Nat
  PROVE  /\ PhaseTimeout(deadline, t, phase) \in 0..phase
         /\ t < deadline /\ phase > 0 =>
              /\ PhaseTimeout(deadline, t, phase) > 0
              /\ t + PhaseTimeout(deadline, t, phase) =< deadline
BY DEF PhaseTimeout, Remaining, Smaller, Larger

=============================================================================
