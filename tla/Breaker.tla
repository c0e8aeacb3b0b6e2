------------------------------ MODULE Breaker ------------------------------
(***************************************************************************)
(* The circuit breaker of one backend (src/internal/routing/breaker.go) as *)
(* operators on its record.  Every method of the Go type holds the         *)
(* breaker's mutex from its first to its last line, so each is one         *)
(* function from the old record to the new one; BreakerCell and Router     *)
(* turn them into actions.                                                 *)
(*                                                                         *)
(* Instants are positive integers and ZeroTime is Go's time.Time{}.  The   *)
(* fields that only the debug endpoint reads (lastErrorCategory and        *)
(* lastTransitionAt) are left out.                                         *)
(*                                                                         *)
(* In every module, an operator whose name ends in Slip is the definition  *)
(* after it with a plausible bug put in.  No specification uses it: it is  *)
(* swapped in to see that the properties notice.                           *)
(***************************************************************************)
EXTENDS Integers, Sequences, FiniteSets

CONSTANTS ConsecutiveFailures,   \* failures in a row that open the breaker
          WindowSize,            \* outcomes the sliding window remembers
          RateNum, RateDen,      \* FailureRateThreshold is RateNum / RateDen
          HalfOpenProbeInterval  \* ticks between two probes

(***************************************************************************)
(* What BreakerConfig.Normalize leaves of any configuration.               *)
(***************************************************************************)
ASSUME BreakerConfigAssumption ==
  /\ ConsecutiveFailures \in Nat \ {0}
  /\ WindowSize \in Nat \ {0}
  /\ RateNum \in Nat \ {0} /\ RateDen \in Nat \ {0} /\ RateNum =< RateDen
  /\ HalfOpenProbeInterval \in Nat \ {0}

ZeroTime == 0
Instant == Nat \ {0}

BreakerStates == {"closed", "open", "half_open"}
BreakerOutcomes == {"success", "failure", "neutral"}

Breakers ==
  [ state            : BreakerStates,
    openUntil        : Nat,
    consecutiveFails : Nat,
    recent           : Seq(BOOLEAN),     \* TRUE: the request failed
    probeInFlight    : BOOLEAN,
    lastProbeAt      : Nat ]

\* Closed, and remembering nothing.
NewBreaker ==
  [ state |-> "closed", openUntil |-> ZeroTime, consecutiveFails |-> 0,
    recent |-> <<>>, probeInFlight |-> FALSE, lastProbeAt |-> ZeroTime ]

----------------------------------------------------------------------------
(***************************************************************************)
(* The helpers that run with the mutex held.                               *)
(***************************************************************************)
RecordSlip(b, failed) == [b EXCEPT !.recent = Append(@, failed)]

Record(b, failed) ==
  [b EXCEPT !.recent = Append(IF Len(@) = WindowSize THEN Tail(@) ELSE @, failed)]

Failures(recent) == Cardinality({i \in DOMAIN recent : recent[i]})

ShouldOpenSlip(b) == b.consecutiveFails > ConsecutiveFailures

ShouldOpen(b) ==
  \/ b.consecutiveFails >= ConsecutiveFailures
  \/ /\ Len(b.recent) >= WindowSize
     /\ Failures(b.recent) * RateDen >= RateNum * Len(b.recent)

ToClosedSlip(b) == [NewBreaker EXCEPT !.recent = b.recent]

\* Whatever the breaker was, closing forgets it.
ToClosed(b) == NewBreaker

ToHalfOpen(b) == [b EXCEPT !.state = "half_open", !.probeInFlight = FALSE]

ReopenSlip(b, t, cooldown) ==
  [b EXCEPT !.state = "open", !.openUntil = @ + cooldown, !.probeInFlight = FALSE]

Reopen(b, t, cooldown) ==
  [b EXCEPT !.state = "open", !.openUntil = t + cooldown, !.probeInFlight = FALSE]

Expired(b, t) == b.state = "open" /\ b.openUntil # ZeroTime /\ t >= b.openUntil

Advance(b, t) == IF Expired(b, t) THEN ToHalfOpen(b) ELSE b

----------------------------------------------------------------------------
(***************************************************************************)
(* TryAcquireProbe: the breaker after the call, and what the call returns. *)
(* ProbeAllowed is also the field of that name in a snapshot.              *)
(***************************************************************************)
ProbeAllowed(b, t) ==
  /\ b.state = "half_open"
  /\ ~b.probeInFlight
  /\ b.lastProbeAt = ZeroTime \/ t - b.lastProbeAt >= HalfOpenProbeInterval

AcquireProbe(b, t) ==
  IF ProbeAllowed(Advance(b, t), t)
  THEN [Advance(b, t) EXCEPT !.probeInFlight = TRUE, !.lastProbeAt = t]
  ELSE Advance(b, t)

Acquired(b, t) ==
  \/ Advance(b, t).state = "closed"
  \/ ProbeAllowed(Advance(b, t), t)

(***************************************************************************)
(* Observe, one operator per outcome; b has been advanced already.         *)
(***************************************************************************)
OnSuccessSlip(b) == IF b.state = "closed" THEN Record(b, FALSE) ELSE ToClosed(b)

OnSuccess(b) ==
  IF b.state = "half_open"
  THEN ToClosed(b)
  ELSE Record([b EXCEPT !.probeInFlight = FALSE, !.consecutiveFails = 0], FALSE)

\* The code's counter grows on while the breaker is open, but is only compared
\* with ConsecutiveFailures: it is counted up to there.
OneMore(fails) == IF fails < ConsecutiveFailures THEN fails + 1 ELSE fails

OnFailureSlip(b, t, cooldown) ==
  LET counted == [Record(b, TRUE) EXCEPT !.consecutiveFails = OneMore(@)]
  IN  IF ShouldOpen(counted)
      THEN [Reopen(counted, t, cooldown) EXCEPT !.probeInFlight = b.probeInFlight]
      ELSE counted

OnFailure(b, t, cooldown) ==
  LET recorded == Record(b, TRUE)
      counted  == [recorded EXCEPT !.consecutiveFails = OneMore(@)]
  IN  IF b.state = "half_open" THEN Reopen(recorded, t, cooldown)
      ELSE IF ShouldOpen(counted) THEN Reopen(counted, t, cooldown)
      ELSE counted

OnNeutralSlip(b, t) == [b EXCEPT !.probeInFlight = FALSE, !.lastProbeAt = ZeroTime]

OnNeutral(b, t) ==
  IF b.state = "half_open"
  THEN [b EXCEPT !.probeInFlight = FALSE, !.lastProbeAt = t]
  ELSE b

ObserveOutcome(b, t, outcome, cooldown) ==
  CASE outcome = "success" -> OnSuccess(Advance(b, t))
    [] outcome = "failure" -> OnFailure(Advance(b, t), t, cooldown)
    [] outcome = "neutral" -> OnNeutral(Advance(b, t), t)

=============================================================================
