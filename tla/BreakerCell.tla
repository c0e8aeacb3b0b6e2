---------------------------- MODULE BreakerCell ----------------------------
(***************************************************************************)
(* One breaker shared by any number of request goroutines.  The calls may  *)
(* come in any order: results of requests that were sent before the        *)
(* breaker opened arrive while it is open or half open, and nobody is      *)
(* obliged to report a probe.                                              *)
(*                                                                         *)
(* No instant is read under the mutex.  choose reads the clock before it   *)
(* begins to scan the backends, and ObserveWithCooldownResult evaluates    *)
(* time.Now() before Observe takes the mutex, so every call may come with  *)
(* an instant up to MaxSkew ticks in the past, and two calls with their    *)
(* instants the wrong way round.                                           *)
(***************************************************************************)
EXTENDS Breaker

CONSTANTS Cooldowns,  \* durations Observe may be called with
          MaxSkew,    \* how old the instant of a call can be
          MaxTime,    \* bound on the clock
          MaxLog      \* bound on the results reported since the last closing

ASSUME CellAssumption ==
  /\ Cooldowns \subseteq Nat
  /\ MaxSkew \in Nat /\ MaxTime \in Instant /\ MaxLog \in Nat

VARIABLES breaker,
          clock,
          grantedAt,  \* instant of the last probe granted since the last closing
          log         \* successes (FALSE) and failures (TRUE) since the last closing

vars == <<breaker, clock, grantedAt, log>>

Init ==
  /\ breaker = NewBreaker
  /\ clock = 1
  /\ grantedAt = ZeroTime
  /\ log = <<>>

CallInstants == {t \in (clock - MaxSkew)..clock : t > 0}

----------------------------------------------------------------------------
Tick ==
  /\ clock < MaxTime
  /\ clock' = clock + 1
  /\ UNCHANGED <<breaker, grantedAt, log>>

\* Snapshot reads the breaker, but moves an expired one to half open first.
Snapshot(t) ==
  /\ breaker' = Advance(breaker, t)
  /\ UNCHANGED <<clock, grantedAt, log>>

TryAcquireProbe(t) ==
  /\ breaker' = AcquireProbe(breaker, t)
  /\ grantedAt' = IF ProbeAllowed(Advance(breaker, t), t) THEN t ELSE grantedAt
  /\ UNCHANGED <<clock, log>>

Observe(t, outcome, cooldown) ==
  /\ Len(log) < MaxLog
  /\ breaker' = ObserveOutcome(breaker, t, outcome, cooldown)
  /\ LET closing == outcome = "success" /\ Advance(breaker, t).state = "half_open"
     IN  /\ log' = IF closing THEN <<>>
                   ELSE IF outcome = "neutral" THEN log
                   ELSE Append(log, outcome = "failure")
         /\ grantedAt' = IF closing THEN ZeroTime ELSE grantedAt
  /\ UNCHANGED clock

Next ==
  \/ Tick
  \/ \E t \in CallInstants : Snapshot(t)
  \/ \E t \in CallInstants : TryAcquireProbe(t)
  \/ \E t \in CallInstants, outcome \in BreakerOutcomes, cooldown \in Cooldowns :
       Observe(t, outcome, cooldown)

Spec == Init /\ [][Next]_vars

----------------------------------------------------------------------------
(***************************************************************************)
(* The record has its type and the window never outgrows WindowSize.       *)
(***************************************************************************)
TypeOK ==
  /\ breaker \in Breakers
  /\ Len(breaker.recent) =< WindowSize
  /\ clock \in Instant
  /\ grantedAt \in Nat
  /\ log \in Seq(BOOLEAN)

(***************************************************************************)
(* A closed breaker has not yet seen ConsecutiveFailures failures in a     *)
(* row: no order of late successes, failures and neutral results lets the  *)
(* threshold pass without opening it (shouldOpenLocked).                   *)
(***************************************************************************)
TripsInTime ==
  breaker.state = "closed" => breaker.consecutiveFails < ConsecutiveFailures

(***************************************************************************)
(* However many failures are reported late to a breaker that is open, each *)
(* setting openUntil again (reopenLocked), and in whatever order their     *)
(* instants were read, its expiry is never further away than the longest   *)
(* cooldown from now, and never missing.                                   *)
(***************************************************************************)
NeverStuckOpen ==
  breaker.state = "open" =>
    /\ breaker.openUntil # ZeroTime
    /\ \E cooldown \in Cooldowns : breaker.openUntil =< clock + cooldown

(***************************************************************************)
(* A probe is marked in flight only while half open, and a closed breaker  *)
(* has forgotten the previous episode: whatever order the calls came in,   *)
(* the next half-open episode starts with its probe free.                  *)
(***************************************************************************)
EpisodesAreSeparate ==
  /\ breaker.probeInFlight => breaker.state = "half_open"
  /\ breaker.state = "closed" =>
       breaker.openUntil = ZeroTime /\ breaker.lastProbeAt = ZeroTime

(***************************************************************************)
(* The window the failure rate is computed from holds exactly the latest   *)
(* WindowSize results reported since the breaker last closed, oldest       *)
(* first, those reported while it was open included (recordLocked).        *)
(***************************************************************************)
WindowFaithful ==
  LET n == Len(log)
      m == IF n =< WindowSize THEN n ELSE WindowSize
  IN  breaker.recent = SubSeq(log, n - m + 1, n)

(***************************************************************************)
(* The breaker never leaves "open" before openUntil, whoever calls and     *)
(* whatever result arrives: a success of a request sent before the         *)
(* breaker opened does not close it early.                                 *)
(***************************************************************************)
NoEarlyExit ==
  [][breaker.state = "open" /\ breaker'.state # "open"
       => clock >= breaker.openUntil]_vars

(***************************************************************************)
(* Two probes granted without a closing between them are at least          *)
(* HalfOpenProbeInterval apart, less the age of a report: a neutral result *)
(* releases the probe and dates it with its own instant, which may lie     *)
(* before the probe was granted.  No sequence of late results and stale    *)
(* instants adds up to more than that.                                     *)
(***************************************************************************)
ProbeSpacing ==
  [][~breaker.probeInFlight /\ breaker'.probeInFlight /\ grantedAt # ZeroTime
       => grantedAt' - grantedAt >= HalfOpenProbeInterval - MaxSkew]_vars

=============================================================================
