------------------------------ MODULE Routing ------------------------------
(***************************************************************************)
(* The data of a routing decision and the functions on it: the statistics  *)
(* of a backend (stats.go), what one scan of the backends records of each  *)
(* of them, and how the backend is picked (router.go).                     *)
(*                                                                         *)
(* Backends are numbered in the order of their names, which is the order   *)
(* NewRouter sorts them in.  All share one breaker configuration.          *)
(***************************************************************************)
EXTENDS Breaker

CONSTANTS NumBackends,
          Prefer,      \* the preferred backend, 0 when none is configured
          MinSamples   \* first tokens measured before the EWMA counts

ASSUME RoutingAssumption ==
  /\ NumBackends \in Nat \ {0}
  /\ Prefer \in 0..NumBackends
  /\ MinSamples \in Nat \ {0}

Backends == 1..NumBackends
NoBackend == 0

----------------------------------------------------------------------------
(***************************************************************************)
(* Statistics.  Whole milliseconds become a few levels, the number of      *)
(* samples is counted up to MinSamples, and a weighted average of two      *)
(* levels is any level between them.                                       *)
(***************************************************************************)
Stats == [ewma : Nat, samples : 0..MinSamples, cooldownUntil : Nat]

NoStats == [ewma |-> 0, samples |-> 0, cooldownUntil |-> ZeroTime]

EwmaAfter(stat, ttft) ==
  IF ttft = 0 THEN {stat.ewma}
  ELSE IF stat.samples = 0 \/ stat.ewma = 0 THEN {ttft}
  ELSE (stat.ewma..ttft) \union (ttft..stat.ewma)

\* ttft = 0: no first token was measured.
ObserveStats(stat, t, ttft, ewma, failed, cooldown) ==
  [ ewma          |-> ewma,
    samples       |-> IF ttft > 0 /\ stat.samples < MinSamples
                      THEN stat.samples + 1 ELSE stat.samples,
    cooldownUntil |-> IF failed THEN t + cooldown ELSE stat.cooldownUntil ]

InCooldown(stat, t) == t < stat.cooldownUntil

----------------------------------------------------------------------------
(***************************************************************************)
(* One candidate of a scan.  score = 0 stands for MaxFloat64, "no score".  *)
(***************************************************************************)
Candidates ==
  [ name      : Backends,
    state     : BreakerStates,
    eligible  : BOOLEAN,
    score     : Nat,
    recoverAt : Nat ]

Eligible(breaker, stat, t) ==
  CASE breaker.state = "open"      -> FALSE
    [] breaker.state = "half_open" -> ProbeAllowed(breaker, t)
    [] breaker.state = "closed"    -> ~InCooldown(stat, t)

Ready(breaker, stat, t) ==
  /\ breaker.state = "closed"
  /\ ~InCooldown(stat, t)
  /\ stat.samples >= MinSamples
  /\ stat.ewma > 0

Candidate(b, breaker, stat, t) ==
  [ name      |-> b,
    state     |-> breaker.state,
    eligible  |-> Eligible(breaker, stat, t),
    score     |-> IF Ready(breaker, stat, t) THEN stat.ewma ELSE 0,
    recoverAt |-> IF breaker.state = "open" THEN breaker.openUntil
                  ELSE stat.cooldownUntil ]

----------------------------------------------------------------------------
(***************************************************************************)
(* The three ways to pick.  seen is the sequence of candidates, one per    *)
(* backend, and E the indices that are still eligible.                     *)
(***************************************************************************)
TieBreak(a, b) ==
  \/ a.name = Prefer
  \/ /\ b.name # Prefer
     /\ \/ a.state = "closed" /\ b.state # "closed"
        \/ (a.state = "closed" <=> b.state = "closed") /\ a.name < b.name

PickNoStatsSlip(E) == CHOOSE i \in E : \A j \in E : i =< j

PickNoStats(E) ==
  IF Prefer \in E THEN Prefer ELSE CHOOSE i \in E : \A j \in E : i =< j

PickBest(seen, E) ==
  LET scored == {i \in E : seen[i].score > 0}
  IN  IF scored = {} THEN PickNoStats(E)
      ELSE CHOOSE i \in scored : \A j \in scored \ {i} :
             \/ seen[i].score < seen[j].score
             \/ seen[i].score = seen[j].score /\ TieBreak(seen[i], seen[j])

PickMostRecoverable(seen) ==
  CHOOSE i \in DOMAIN seen : \A j \in DOMAIN seen \ {i} :
    \/ seen[i].recoverAt < seen[j].recoverAt
    \/ seen[i].recoverAt = seen[j].recoverAt /\ TieBreak(seen[i], seen[j])

=============================================================================
