---------------------------- MODULE BreakerProof ----------------------------
(***************************************************************************)
(* The safety properties of BreakerCell for every threshold, window, rate, *)
(* probe interval, set of cooldowns, skew and bound.                       *)
(***************************************************************************)
EXTENDS BreakerCell, OperatorLemmas

----------------------------------------------------------------------------
(***************************************************************************)
(* The inductive invariant.  No probe was granted after now, and the last  *)
(* one the breaker remembers is at most MaxSkew older than the last one    *)
(* granted: that is what ProbeSpacing rests on.                            *)
(***************************************************************************)
IInv ==
  /\ Coherent(breaker)
  /\ NeverStuckOpen
  /\ clock \in Instant
  /\ log \in Seq(BOOLEAN)
  /\ grantedAt \in Nat
  /\ grantedAt =< clock
  /\ grantedAt =< breaker.lastProbeAt + MaxSkew
  /\ grantedAt # ZeroTime => breaker.lastProbeAt # ZeroTime

\* The instant of a call is at most MaxSkew old.
LEMMA CallInstantsPast ==
  ASSUME clock \in Instant
  PROVE  \A t \in CallInstants : t \in Instant /\ t =< clock /\ clock =< t + MaxSkew
BY CellAssumption DEF CallInstants, Instant

\* The initial record is coherent, and nothing has been logged.
LEMMA InitIInv == Init => IInv
<1> SUFFICES ASSUME Init PROVE IInv
  OBVIOUS
<1>1. Coherent(breaker)
  BY NewCoherent DEF Init
<1>2. breaker.lastProbeAt = 0 /\ breaker.state = "closed"
  BY DEF Init, NewBreaker, ZeroTime
<1>3. QED BY <1>1, <1>2, CellAssumption DEF Init, IInv, NeverStuckOpen, Instant, ZeroTime

(* A call that leaves an open breaker as it was leaves it an expiry.       *)
LEMMA ExpiryStays ==
  ASSUME IInv, clock' = clock, Coherent(breaker'),
         breaker'.state = "open" =>
           breaker.state = "open" /\ breaker'.openUntil = breaker.openUntil
  PROVE  NeverStuckOpen'
BY DEF IInv, NeverStuckOpen, Coherent

(* Every step keeps the invariant, one step of the proof per operation.    *)
LEMMA NextIInv == IInv /\ [Next]_vars => IInv'
<1> SUFFICES ASSUME IInv, [Next]_vars PROVE IInv'
  OBVIOUS
<1>1. CASE Tick
  <2>1. clock' = clock + 1 /\ UNCHANGED <<breaker, grantedAt, log>> /\ clock \in Nat
    BY <1>1 DEF Tick, IInv, Instant
  <2>2. NeverStuckOpen'
    <3>1. ASSUME NEW cooldown \in Cooldowns, breaker.openUntil =< clock + cooldown
          PROVE  breaker.openUntil =< clock' + cooldown
      BY <2>1, <3>1, CellAssumption DEF IInv, Coherent, Breakers
    <3>2. QED BY <2>1, <3>1 DEF IInv, NeverStuckOpen
  <2>3. QED BY <2>1, <2>2 DEF IInv, Instant
<1>2. ASSUME NEW t \in CallInstants, Snapshot(t)
      PROVE  IInv'
  <2>1. t \in Instant
    BY CallInstantsPast DEF IInv
  <2>2. /\ breaker' = Advance(breaker, t)
        /\ clock' = clock /\ grantedAt' = grantedAt /\ log' = log
    BY <1>2 DEF Snapshot
  <2>3. /\ Coherent(breaker')
        /\ breaker'.lastProbeAt = breaker.lastProbeAt
        /\ breaker'.state = "open" => breaker' = breaker
    BY <2>1, <2>2, AdvanceCoherent DEF IInv
  <2>4. NeverStuckOpen'
    BY <2>2, <2>3, ExpiryStays
  <2>5. QED BY <2>2, <2>3, <2>4 DEF IInv
<1>3. ASSUME NEW t \in CallInstants, TryAcquireProbe(t)
      PROVE  IInv'
  <2>1. t \in Instant /\ t =< clock
    BY CallInstantsPast DEF IInv
  <2>2. breaker' = AcquireProbe(breaker, t) /\ clock' = clock /\ log' = log
    BY <1>3 DEF TryAcquireProbe
  <2>3. Coherent(breaker') /\ (breaker'.state = "open" => breaker' = breaker)
    BY <2>1, <2>2, AcquireCoherent DEF IInv
  <2>4. Coherent(Advance(breaker, t)) /\ Advance(breaker, t).lastProbeAt = breaker.lastProbeAt
    BY <2>1, AdvanceCoherent DEF IInv
  <2>5. NeverStuckOpen'
    BY <2>2, <2>3, ExpiryStays
  <2>6. CASE ProbeAllowed(Advance(breaker, t), t)
    <3>1. breaker'.lastProbeAt = t /\ grantedAt' = t
      BY <1>3, <2>4, <2>6 DEF TryAcquireProbe, AcquireProbe, Coherent, Breakers
    <3>2. QED BY <2>1, <2>2, <2>3, <2>5, <3>1, CellAssumption DEF IInv, Instant, ZeroTime
  <2>7. CASE ~ProbeAllowed(Advance(breaker, t), t)
    BY <1>3, <2>2, <2>3, <2>4, <2>5, <2>7 DEF TryAcquireProbe, AcquireProbe, IInv
  <2>8. QED BY <2>6, <2>7
<1>4. ASSUME NEW t \in CallInstants, NEW outcome \in BreakerOutcomes,
             NEW cooldown \in Cooldowns, Observe(t, outcome, cooldown)
      PROVE  IInv'
  <2>1. cooldown \in Nat /\ t \in Instant /\ t =< clock /\ clock =< t + MaxSkew
    BY CellAssumption, CallInstantsPast DEF IInv
  <2>2. breaker' = ObserveOutcome(breaker, t, outcome, cooldown) /\ clock' = clock
    BY <1>4 DEF Observe
  <2>3. Coherent(breaker')
    BY <2>1, <2>2, ObserveCoherent DEF IInv
  <2>4. breaker'.lastProbeAt =
          IF Advance(breaker, t).state = "half_open" /\ outcome = "success"
          THEN ZeroTime
          ELSE IF Advance(breaker, t).state = "half_open" /\ outcome = "neutral"
          THEN t ELSE breaker.lastProbeAt
    BY <2>1, <2>2, ObserveProbe DEF IInv
  <2>5. grantedAt' = IF outcome = "success" /\ Advance(breaker, t).state = "half_open"
                     THEN ZeroTime ELSE grantedAt
    BY <1>4 DEF Observe
  <2>6. log' \in Seq(BOOLEAN)
    <3> DEFINE failed == outcome = "failure"
    <3>1. log' = <<>> \/ log' = log \/ log' = Append(log, failed)
      BY <1>4 DEF Observe
    <3>2. failed \in BOOLEAN /\ log \in Seq(BOOLEAN)
      BY DEF IInv
    <3> HIDE DEF failed
    <3>3. Append(log, failed) \in Seq(BOOLEAN) /\ <<>> \in Seq(BOOLEAN)
      BY <3>2
    <3>4. QED BY <3>1, <3>2, <3>3
  <2>7. NeverStuckOpen'
    <3>1. breaker'.state = "open" =>
            \/ breaker'.openUntil = t + cooldown
            \/ breaker.state = "open" /\ breaker'.openUntil = breaker.openUntil
      BY <2>1, <2>2, ObserveReleases DEF IInv
    <3>2. CASE breaker'.openUntil = t + cooldown
      <4>1. breaker'.openUntil =< clock' + cooldown
        BY <2>1, <2>2, <3>2 DEF IInv, Instant
      <4>2. QED BY <2>3, <4>1 DEF NeverStuckOpen, Coherent
    <3>3. CASE breaker'.openUntil # t + cooldown
      BY <2>2, <2>3, <3>1, <3>3, ExpiryStays
    <3>4. QED BY <3>2, <3>3
  <2>8. /\ grantedAt' \in Nat /\ grantedAt' =< clock'
        /\ grantedAt' =< breaker'.lastProbeAt + MaxSkew
        /\ grantedAt' # ZeroTime => breaker'.lastProbeAt # ZeroTime
    <3>1. /\ breaker.lastProbeAt \in Nat /\ grantedAt \in Nat /\ clock \in Nat /\ t \in Nat
          /\ grantedAt =< breaker.lastProbeAt + MaxSkew /\ grantedAt =< clock
          /\ MaxSkew \in Nat /\ t # ZeroTime
          /\ grantedAt # ZeroTime => breaker.lastProbeAt # ZeroTime
      BY <2>1, CellAssumption DEF IInv, Coherent, Breakers, Instant, ZeroTime
    <3>2. CASE Advance(breaker, t).state = "half_open" /\ outcome = "success"
      BY <2>2, <2>4, <2>5, <3>1, <3>2 DEF ZeroTime
    <3>3. CASE Advance(breaker, t).state = "half_open" /\ outcome = "neutral"
      BY <2>1, <2>2, <2>4, <2>5, <3>1, <3>3
    <3>4. CASE ~(Advance(breaker, t).state = "half_open"
                   /\ outcome \in {"success", "neutral"})
      BY <2>2, <2>4, <2>5, <3>1, <3>4
    <3>5. QED BY <3>2, <3>3, <3>4
  <2>9. QED BY <2>2, <2>3, <2>6, <2>7, <2>8 DEF IInv
<1>5. CASE UNCHANGED vars
  BY <1>5 DEF vars, IInv, NeverStuckOpen
<1>6. QED BY <1>1, <1>2, <1>3, <1>4, <1>5 DEF Next

(* The invariant holds throughout.                                         *)
LEMMA Invariant == Spec => []IInv
BY InitIInv, NextIInv, PTL DEF Spec

----------------------------------------------------------------------------
(***************************************************************************)
(* The record of the breaker always has its type, and the window never     *)
(* outgrows WindowSize.                                                    *)
(***************************************************************************)
THEOREM TypeCorrect == Spec => []TypeOK
<1>1. IInv => TypeOK
  BY DEF IInv, TypeOK, Coherent
<1>2. QED BY <1>1, Invariant, PTL

(***************************************************************************)
(* A breaker that has seen ConsecutiveFailures failures in a row is not    *)
(* closed.                                                                 *)
(***************************************************************************)
THEOREM TripsInTimeAlways == Spec => []TripsInTime
<1>1. IInv => TripsInTime
  BY DEF IInv, TripsInTime, Coherent
<1>2. QED BY <1>1, Invariant, PTL

(***************************************************************************)
(* An open breaker can be left at the latest one cooldown from now, for    *)
(* any number of late failures and any instants they come with.            *)
(***************************************************************************)
THEOREM NeverStuckOpenAlways == Spec => []NeverStuckOpen
<1>1. IInv => NeverStuckOpen
  BY DEF IInv
<1>2. QED BY <1>1, Invariant, PTL

(***************************************************************************)
(* The probe flag belongs to the half-open state, and closing forgets the  *)
(* episode.                                                                *)
(***************************************************************************)
THEOREM EpisodesAreSeparateAlways == Spec => []EpisodesAreSeparate
<1>1. IInv => EpisodesAreSeparate
  BY DEF IInv, EpisodesAreSeparate, Coherent
<1>2. QED BY <1>1, Invariant, PTL

(***************************************************************************)
(* No call and no late result takes the breaker out of "open" before its   *)
(* cooldown is over.                                                       *)
(***************************************************************************)
THEOREM NoEarlyExitAlways == Spec => NoEarlyExit
<1> DEFINE Stays == breaker.state = "open" /\ breaker'.state # "open"
                      => clock >= breaker.openUntil
<1>1. IInv /\ [Next]_vars => [Stays]_vars
  <2> SUFFICES ASSUME IInv, Next, breaker.state = "open", breaker'.state # "open"
               PROVE  clock >= breaker.openUntil
    BY DEF vars
  <2>1. /\ Coherent(breaker) /\ clock \in Instant
        /\ breaker.openUntil \in Nat /\ breaker.openUntil # ZeroTime
    BY DEF IInv, Coherent, Breakers
  <2>2. ASSUME NEW t \in Instant, t =< clock, Advance(breaker, t).state # "open"
        PROVE  clock >= breaker.openUntil
    BY <2>1, <2>2 DEF Advance, Expired, Instant
  <2>3. CASE Tick
    BY <2>3 DEF Tick
  <2>4. ASSUME NEW t \in CallInstants, Snapshot(t)
        PROVE  clock >= breaker.openUntil
    BY <2>1, <2>2, <2>4, CallInstantsPast DEF Snapshot
  <2>5. ASSUME NEW t \in CallInstants, TryAcquireProbe(t)
        PROVE  clock >= breaker.openUntil
    BY <2>1, <2>2, <2>5, CallInstantsPast
       DEF TryAcquireProbe, AcquireProbe, ProbeAllowed
  <2>6. ASSUME NEW t \in CallInstants, NEW outcome \in BreakerOutcomes,
               NEW cooldown \in Cooldowns, Observe(t, outcome, cooldown)
        PROVE  clock >= breaker.openUntil
    <3>1. cooldown \in Nat /\ t \in Instant /\ t =< clock
      BY <2>1, CellAssumption, CallInstantsPast
    <3>2. Advance(breaker, t).state = "open" => breaker'.state = "open"
      BY <2>1, <2>6, <3>1, ObserveProbe DEF Observe
    <3>3. QED BY <2>2, <3>1, <3>2
  <2>7. QED BY <2>3, <2>4, <2>5, <2>6 DEF Next
<1>2. QED BY <1>1, Invariant, PTL DEF Spec, NoEarlyExit

(***************************************************************************)
(* Probes granted in one half-open spell, or in several without a closing  *)
(* between them, are at least HalfOpenProbeInterval less MaxSkew apart.    *)
(***************************************************************************)
THEOREM ProbeSpacingAlways == Spec => ProbeSpacing
<1> DEFINE Spaced == ~breaker.probeInFlight /\ breaker'.probeInFlight /\ grantedAt # ZeroTime
                       => grantedAt' - grantedAt >= HalfOpenProbeInterval - MaxSkew
<1>1. IInv /\ [Next]_vars => [Spaced]_vars
  <2> SUFFICES ASSUME IInv, Next, ~breaker.probeInFlight, breaker'.probeInFlight,
                      grantedAt # ZeroTime
               PROVE  grantedAt' - grantedAt >= HalfOpenProbeInterval - MaxSkew
    BY DEF vars
  <2>1. /\ Coherent(breaker) /\ clock \in Instant
        /\ grantedAt \in Nat /\ grantedAt =< breaker.lastProbeAt + MaxSkew
        /\ breaker.lastProbeAt \in Nat /\ breaker.lastProbeAt # ZeroTime
        /\ MaxSkew \in Nat
    BY CellAssumption DEF IInv, Coherent, Breakers
  <2>2. CASE Tick
    BY <2>2 DEF Tick
  <2>3. ASSUME NEW t \in CallInstants, Snapshot(t)
        PROVE  grantedAt' - grantedAt >= HalfOpenProbeInterval - MaxSkew
    BY <2>1, <2>3 DEF Snapshot, Advance, ToHalfOpen, Coherent, Breakers
  <2>4. ASSUME NEW t \in CallInstants, TryAcquireProbe(t)
        PROVE  grantedAt' - grantedAt >= HalfOpenProbeInterval - MaxSkew
    <3>1. t \in Instant
      BY <2>1, CallInstantsPast
    <3>2. Advance(breaker, t).lastProbeAt = breaker.lastProbeAt
      BY <2>1, <3>1, AdvanceCoherent
    <3>3. ~Advance(breaker, t).probeInFlight
      BY <2>1 DEF Advance, ToHalfOpen, Coherent, Breakers
    <3>4. ProbeAllowed(Advance(breaker, t), t)
      BY <2>4, <3>3 DEF TryAcquireProbe, AcquireProbe
    <3>5. grantedAt' = t
      BY <2>4, <3>4 DEF TryAcquireProbe
    <3>6. t - breaker.lastProbeAt >= HalfOpenProbeInterval
      BY <2>1, <3>2, <3>4 DEF ProbeAllowed, ZeroTime
    <3>7. QED BY <2>1, <3>1, <3>5, <3>6, BreakerConfigAssumption DEF Instant
  <2>5. ASSUME NEW t \in CallInstants, NEW outcome \in BreakerOutcomes,
               NEW cooldown \in Cooldowns, Observe(t, outcome, cooldown)
        PROVE  grantedAt' - grantedAt >= HalfOpenProbeInterval - MaxSkew
    <3>1. cooldown \in Nat /\ t \in Instant
      BY <2>1, CellAssumption, CallInstantsPast
    <3>2. breaker'.probeInFlight => breaker.probeInFlight
      BY <2>1, <2>5, <3>1, ObserveProbe DEF Observe
    <3>3. QED BY <3>2
  <2>6. QED BY <2>2, <2>3, <2>4, <2>5 DEF Next
<1>2. QED BY <1>1, Invariant, PTL DEF Spec, ProbeSpacing

----------------------------------------------------------------------------
(***************************************************************************)
(* The window.  What the breaker does to it is stated for one call, then   *)
(* the latest results of a log are shown to grow in the same way.          *)
(***************************************************************************)
Pushed(recent, failed) ==
  Append(IF Len(recent) = WindowSize THEN Tail(recent) ELSE recent, failed)

\* Only a recorded result changes the window, and closing empties it.
LEMMA WindowSteps ==
  ASSUME NEW b, Coherent(b), NEW t \in Instant, NEW cooldown \in Nat
  PROVE  /\ Advance(b, t).recent = b.recent
         /\ AcquireProbe(b, t).recent = b.recent
         /\ ObserveOutcome(b, t, "success", cooldown).recent =
              IF Advance(b, t).state = "half_open" THEN <<>> ELSE Pushed(b.recent, FALSE)
         /\ ObserveOutcome(b, t, "failure", cooldown).recent = Pushed(b.recent, TRUE)
         /\ ObserveOutcome(b, t, "neutral", cooldown).recent = b.recent
<1> DEFINE a == Advance(b, t)
<1>1. a.recent = b.recent
  BY DEF Advance, ToHalfOpen, Coherent, Breakers
<1>2. a \in Breakers
  BY AdvanceCoherent DEF Coherent
<1>3. AcquireProbe(b, t).recent = a.recent
  BY <1>2 DEF AcquireProbe, Breakers
<1>4. ASSUME NEW x \in Breakers, NEW failed \in BOOLEAN
      PROVE  Record(x, failed).recent = Pushed(x.recent, failed)
  BY DEF Record, Pushed, Breakers
<1>5. ObserveOutcome(b, t, "success", cooldown).recent =
        IF a.state = "half_open" THEN <<>> ELSE Pushed(b.recent, FALSE)
  <2>1. ObserveOutcome(b, t, "success", cooldown) = OnSuccess(a)
    BY DEF ObserveOutcome
  <2> HIDE DEF a
  <2>2. CASE a.state = "half_open"
    BY <2>1, <2>2 DEF OnSuccess, ToClosed, NewBreaker
  <2>3. CASE a.state # "half_open"
    <3> DEFINE c == [a EXCEPT !.probeInFlight = FALSE, !.consecutiveFails = 0]
    <3>1. c \in Breakers /\ c.recent = a.recent
      BY <1>2 DEF Breakers
    <3>2. OnSuccess(a) = Record(c, FALSE)
      BY <2>3 DEF OnSuccess
    <3> HIDE DEF c
    <3> QED  BY <1>1, <1>4, <2>1, <2>3, <3>1, <3>2
  <2> QED  BY <2>2, <2>3
<1>6. ObserveOutcome(b, t, "failure", cooldown).recent = Pushed(b.recent, TRUE)
  <2> DEFINE r == Record(a, TRUE)
             c == [r EXCEPT !.consecutiveFails = OneMore(@)]
  <2>1. ObserveOutcome(b, t, "failure", cooldown) = OnFailure(a, t, cooldown)
    BY DEF ObserveOutcome
  <2>2. r \in Breakers /\ r.recent = Pushed(b.recent, TRUE)
    BY <1>1, <1>2, <1>4, AdvanceCoherent, RecordType DEF Coherent, Breakers
  <2>3. \/ OnFailure(a, t, cooldown) = Reopen(r, t, cooldown)
        \/ OnFailure(a, t, cooldown) = Reopen(c, t, cooldown)
        \/ OnFailure(a, t, cooldown) = c
    BY DEF OnFailure
  <2> HIDE DEF a, r
  <2>4. c \in Breakers /\ c.recent = r.recent
    BY <2>2, OneMoreType DEF Breakers
  <2>5. ASSUME NEW x \in Breakers
        PROVE  Reopen(x, t, cooldown).recent = x.recent
    BY DEF Reopen, Breakers
  <2> HIDE DEF c
  <2> QED  BY <2>1, <2>2, <2>3, <2>4, <2>5
<1>7. ObserveOutcome(b, t, "neutral", cooldown).recent = b.recent
  <2>1. ObserveOutcome(b, t, "neutral", cooldown) = OnNeutral(a, t)
    BY DEF ObserveOutcome
  <2> HIDE DEF a
  <2> QED  BY <1>1, <1>2, <2>1 DEF OnNeutral, Breakers
<1> QED  BY <1>1, <1>3, <1>5, <1>6, <1>7

\* The latest WindowSize results of a log.
Latest(results) ==
  LET n == Len(results)
      m == IF n =< WindowSize THEN n ELSE WindowSize
  IN  SubSeq(results, n - m + 1, n)

\* The elements of the latest part of a log are elements of the log.
LEMMA LatestElements ==
  ASSUME NEW results \in Seq(BOOLEAN), NEW m \in Nat,
         m = IF Len(results) =< WindowSize THEN Len(results) ELSE WindowSize
  PROVE  /\ Latest(results) \in Seq(BOOLEAN) /\ Len(Latest(results)) = m
         /\ \A i \in 1..m : Latest(results)[i] = results[Len(results) - m + i]
<1> DEFINE n == Len(results)
           w == SubSeq(results, n - m + 1, n)
<1>1. n \in Nat /\ m =< n
  BY BreakerConfigAssumption
<1>2. \A i \in (n - m + 1)..n : results[i] \in BOOLEAN
  BY <1>1, ElementOfSeq
<1>3. Latest(results) = w
  BY DEF Latest
<1>4. n - m + 1 \in Int /\ n \in Int /\ n - (n - m + 1) + 1 = m
  BY <1>1
<1> HIDE DEF n
<1>5. /\ w \in Seq(BOOLEAN)
      /\ Len(w) = IF n - m + 1 <= n THEN n - (n - m + 1) + 1 ELSE 0
      /\ \A i \in 1..(n - (n - m + 1) + 1) : w[i] = results[(n - m + 1) + i - 1]
  <2>1. PICK lo \in Int, hi \in Int : lo = n - m + 1 /\ hi = n
    BY <1>4
  <2>2. \A i \in lo..hi : results[i] \in BOOLEAN
    BY <1>2, <2>1 DEF n
  <2>3. /\ SubSeq(results, lo, hi) \in Seq(BOOLEAN)
        /\ Len(SubSeq(results, lo, hi)) = IF lo <= hi THEN hi - lo + 1 ELSE 0
        /\ \A i \in 1..(hi - lo + 1) : SubSeq(results, lo, hi)[i] = results[lo + i - 1]
    BY <2>2, SubSeqProperties
  <2> QED  BY <2>1, <2>3
<1>6. Len(w) = m /\ \A i \in 1..m : w[i] = results[n - m + i]
  <2>1. Len(w) = m
    BY <1>1, <1>4, <1>5
  <2>2. ASSUME NEW i \in 1..m
        PROVE  w[i] = results[n - m + i]
    <3>1. (n - m + 1) + i - 1 = n - m + i
      BY <1>1
    <3> QED  BY <1>4, <1>5, <3>1
  <2> QED  BY <2>1, <2>2
<1> QED  BY <1>3, <1>5, <1>6 DEF n

\* There are no latest results of an empty log.
LEMMA LatestOfNone == Latest(<<>>) = <<>>
<1>1. SubSeq(<<>>, 1, 0) = <<>>
  BY SubSeqEmpty
<1>2. Len(<<>>) = 0 /\ 0 =< WindowSize /\ 0 - 0 + 1 = 1
  BY EmptySeq, BreakerConfigAssumption
<1> QED  BY <1>1, <1>2 DEF Latest

\* Pushing a result onto the latest of a log gives the latest of the longer log.
LEMMA LatestGrows ==
  ASSUME NEW results \in Seq(BOOLEAN), NEW failed \in BOOLEAN
  PROVE  Pushed(Latest(results), failed) = Latest(Append(results, failed))
<1> DEFINE n == Len(results)
           longer == Append(results, failed)
           w == Latest(results)
           kept == IF Len(w) = WindowSize THEN Tail(w) ELSE w
<1>1. n \in Nat /\ WindowSize \in Nat \ {0}
  BY BreakerConfigAssumption, LenProperties
<1>2. /\ longer \in Seq(BOOLEAN) /\ Len(longer) = n + 1
      /\ \A i \in 1..n : longer[i] = results[i]
      /\ longer[n + 1] = failed
  BY AppendProperties
<1>3. PICK m \in Nat : m = IF n =< WindowSize THEN n ELSE WindowSize
  BY <1>1
<1>4. /\ w \in Seq(BOOLEAN) /\ Len(w) = m
      /\ \A i \in 1..m : w[i] = results[n - m + i]
  BY <1>3, LatestElements
<1>5. PICK p \in Nat : p = IF n + 1 =< WindowSize THEN n + 1 ELSE WindowSize
  BY <1>1
<1>6. /\ Latest(longer) \in Seq(BOOLEAN) /\ Len(Latest(longer)) = p
      /\ \A i \in 1..p : Latest(longer)[i] = longer[(n + 1) - p + i]
  <2> HIDE DEF longer, n
  <2>1. p = IF Len(longer) =< WindowSize THEN Len(longer) ELSE WindowSize
    BY <1>2, <1>5
  <2>2. /\ Latest(longer) \in Seq(BOOLEAN) /\ Len(Latest(longer)) = p
        /\ \A i \in 1..p : Latest(longer)[i] = longer[Len(longer) - p + i]
    <3>1. longer \in Seq(BOOLEAN)
      BY <1>2
    <3> QED  BY <2>1, <3>1, LatestElements
  <2> QED  BY <1>2, <2>2
<1> HIDE DEF n, longer, w
<1>7. /\ kept \in Seq(BOOLEAN) /\ Len(kept) = p - 1 /\ p \in Nat \ {0}
      /\ \A i \in 1..(p - 1) : kept[i] = results[(n + 1) - p + i]
  <2>1. CASE m = WindowSize
    <3>1. w # <<>> /\ p = m /\ n >= m
      BY <1>1, <1>3, <1>4, <1>5, <2>1, EmptySeq
    <3>2. /\ Tail(w) \in Seq(BOOLEAN) /\ Len(Tail(w)) = m - 1
          /\ \A i \in 1..(m - 1) : Tail(w)[i] = w[i + 1]
      BY <1>4, <3>1, HeadTailProperties
    <3>3. ASSUME NEW i \in 1..(p - 1)
          PROVE  Tail(w)[i] = results[(n + 1) - p + i]
      <4>1. i \in 1..(m - 1) /\ i + 1 \in 1..m /\ n - m + (i + 1) = (n + 1) - p + i
        BY <1>1, <3>1
      <4> QED  BY <1>4, <3>2, <4>1
    <3> QED  BY <1>1, <1>4, <2>1, <3>1, <3>2, <3>3
  <2>2. CASE m # WindowSize
    <3>1. m = n /\ p = n + 1
      BY <1>1, <1>3, <1>5, <2>2
    <3>2. kept = w
      BY <1>4, <2>2
    <3>3. ASSUME NEW i \in 1..(p - 1)
          PROVE  w[i] = results[(n + 1) - p + i]
      <4>1. i \in 1..m /\ n - m + i = (n + 1) - p + i
        BY <1>1, <3>1
      <4> QED  BY <1>4, <4>1
    <3> QED  BY <1>1, <1>4, <3>1, <3>2, <3>3
  <2> QED  BY <2>1, <2>2
<1>8. p =< n + 1
  BY <1>1, <1>5
<1> HIDE DEF kept
<1>9. /\ Append(kept, failed) \in Seq(BOOLEAN) /\ Len(Append(kept, failed)) = p
      /\ \A i \in 1..(p - 1) : Append(kept, failed)[i] = kept[i]
      /\ Append(kept, failed)[p] = failed
  <2>1. /\ Append(kept, failed) \in Seq(BOOLEAN)
        /\ Len(Append(kept, failed)) = Len(kept) + 1
        /\ \A i \in 1..Len(kept) : Append(kept, failed)[i] = kept[i]
        /\ Append(kept, failed)[Len(kept) + 1] = failed
    BY <1>7, AppendProperties
  <2>2. Len(kept) = p - 1 /\ (p - 1) + 1 = p
    BY <1>7
  <2> QED  BY <2>1, <2>2
<1>10. ASSUME NEW i \in 1..p
       PROVE  Append(kept, failed)[i] = Latest(longer)[i]
  <2>1. CASE i = p
    <3>1. (n + 1) - p + i = n + 1
      BY <1>1, <2>1
    <3> QED  BY <1>2, <1>6, <1>9, <2>1, <3>1
  <2>2. CASE i \in 1..(p - 1)
    <3>1. (n + 1) - p + i \in 1..n
      BY <1>1, <1>8, <2>2
    <3>2. Latest(longer)[i] = results[(n + 1) - p + i]
      BY <1>2, <1>6, <3>1
    <3> QED  BY <1>7, <1>9, <2>2, <3>2
  <2>3. i = p \/ i \in 1..(p - 1)
    OBVIOUS
  <2> QED  BY <2>1, <2>2, <2>3
<1>11. Append(kept, failed) = Latest(longer)
  BY <1>6, <1>9, <1>10, SeqEqual
<1> QED  BY <1>11 DEF Pushed, kept, longer, w

(***************************************************************************)
(* The window holds exactly the latest WindowSize results reported since   *)
(* the breaker last closed, oldest first, for every size of the window and *)
(* every order of the calls (recordLocked).                                *)
(***************************************************************************)
THEOREM WindowFaithfulAlways == Spec => []WindowFaithful
<1>1. /\ WindowFaithful <=> breaker.recent = Latest(log)
      /\ WindowFaithful' <=> breaker'.recent = Latest(log')
  BY DEF WindowFaithful, Latest
<1>2. Init => WindowFaithful
  <2> SUFFICES ASSUME Init PROVE breaker.recent = Latest(log)
    BY <1>1
  <2>1. log = <<>> /\ breaker.recent = <<>>
    BY DEF Init, NewBreaker
  <2> QED  BY <2>1, LatestOfNone
<1>3. IInv /\ WindowFaithful /\ [Next]_vars => WindowFaithful'
  <2> SUFFICES ASSUME IInv, breaker.recent = Latest(log), [Next]_vars
               PROVE  breaker'.recent = Latest(log')
    BY <1>1
  <2>1. Coherent(breaker) /\ clock \in Instant /\ log \in Seq(BOOLEAN)
    BY DEF IInv
  <2>2. CASE Tick \/ UNCHANGED vars
    BY <2>2 DEF Tick, vars
  <2>3. ASSUME NEW t \in CallInstants, Snapshot(t) \/ TryAcquireProbe(t)
        PROVE  breaker'.recent = Latest(log')
    <3>1. t \in Instant /\ 0 \in Nat
      BY <2>1, CallInstantsPast
    <3>2. Advance(breaker, t).recent = breaker.recent /\ AcquireProbe(breaker, t).recent = breaker.recent
      BY <2>1, <3>1, WindowSteps
    <3> QED  BY <2>3, <3>2 DEF Snapshot, TryAcquireProbe
  <2>4. ASSUME NEW t \in CallInstants, NEW outcome \in BreakerOutcomes,
               NEW cooldown \in Cooldowns, Observe(t, outcome, cooldown)
        PROVE  breaker'.recent = Latest(log')
    <3>1. cooldown \in Nat /\ t \in Instant
      BY <2>1, CellAssumption, CallInstantsPast
    <3> DEFINE closing == outcome = "success" /\ Advance(breaker, t).state = "half_open"
    <3>2. /\ breaker' = ObserveOutcome(breaker, t, outcome, cooldown)
          /\ log' = IF closing THEN <<>>
                    ELSE IF outcome = "neutral" THEN log
                    ELSE Append(log, outcome = "failure")
      BY <2>4 DEF Observe
    <3>3. CASE outcome = "success"
      <4>1. breaker'.recent = IF Advance(breaker, t).state = "half_open" THEN <<>>
                              ELSE Pushed(breaker.recent, FALSE)
        BY <2>1, <3>1, <3>2, <3>3, WindowSteps
      <4>2. (outcome = "failure") = FALSE
        BY <3>3
      <4>3. log' = IF closing THEN <<>> ELSE Append(log, FALSE)
        BY <3>2, <3>3, <4>2
      <4> QED  BY <2>1, <3>3, <4>1, <4>3, LatestOfNone, LatestGrows
    <3>4. CASE outcome = "failure"
      <4>1. breaker'.recent = Pushed(breaker.recent, TRUE)
        BY <2>1, <3>1, <3>2, <3>4, WindowSteps
      <4>2. (outcome = "failure") = TRUE
        BY <3>4
      <4>3. log' = Append(log, TRUE)
        BY <3>2, <3>4, <4>2
      <4> QED  BY <2>1, <4>1, <4>3, LatestGrows
    <3>5. CASE outcome = "neutral"
      BY <2>1, <3>1, <3>2, <3>5, WindowSteps
    <3> QED  BY <3>3, <3>4, <3>5 DEF BreakerOutcomes
  <2> QED  BY <2>2, <2>3, <2>4 DEF Next
<1> QED  BY <1>2, <1>3, Invariant, PTL DEF Spec

=============================================================================
