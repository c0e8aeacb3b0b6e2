------------------------------- MODULE Router -------------------------------
(***************************************************************************)
(* The router shared by all request goroutines.  choose() reads the clock  *)
(* once, scans the backends one by one (the statistics and the breaker of  *)
(* each under a lock of their own) and then picks, reserving the probe of  *)
(* a half-open backend with one more locked call per try.                  *)
(* ObserveWithCooldownResult updates the statistics and the breaker under  *)
(* two different locks, and reads the clock for each before it takes the   *)
(* lock.  Everything in between may be interleaved, so reports reach a     *)
(* breaker with instants of the past, and not in the order of the clock.   *)
(*                                                                         *)
(* The callers of this module keep the contract of Choose: each decision   *)
(* is reported once, after any delay and with any result.  RoutedStream    *)
(* has the real caller.                                                    *)
(*                                                                         *)
(* The record req[r] holds the local variables of the call that request r  *)
(* is in:                                                                  *)
(*   pc        "idle", "scanning", "reading", "picking", "decided",        *)
(*             "reporting"                                                 *)
(*   at        choose's now; "reporting": when the statistics were updated *)
(*   stat      the statistics just read, whose breaker is read next        *)
(*   seen      the candidates scanned so far                               *)
(*   left      the eligible indices not yet tried                          *)
(*   choice    the backend chosen                                          *)
(*   admitted  it was chosen as eligible, not as "most recoverable"        *)
(*   probe     its probe slot was taken for this request                   *)
(*   outcome, cooldown  what the second half of the report will say        *)
(***************************************************************************)
EXTENDS Routing

CONSTANTS Requests,
          TTFTs,             \* measured times to first token, 0 for none
          DefaultCooldowns,  \* the configured cooldown after jitter
          RetryAfters,       \* upstream Retry-After, 0 for none
          MaxTime            \* bound on the clock

ASSUME RouterAssumption ==
  /\ TTFTs \subseteq Nat
  /\ DefaultCooldowns \subseteq Nat
  /\ RetryAfters \subseteq Nat
  /\ MaxTime \in Instant

VARIABLES now, breakers, stats, req,
          openedAt  \* when a breaker that is not closed left "closed" (history)

routerVars == <<now, breakers, stats, req, openedAt>>

Idle ==
  [ pc |-> "idle", at |-> ZeroTime, stat |-> NoStats, seen |-> <<>>, left |-> {},
    choice |-> NoBackend, admitted |-> FALSE, probe |-> FALSE,
    outcome |-> "neutral", cooldown |-> 0 ]

RouterInit ==
  /\ now = 1
  /\ breakers = [b \in Backends |-> NewBreaker]
  /\ stats = [b \in Backends |-> NoStats]
  /\ req = [r \in Requests |-> Idle]
  /\ openedAt = [b \in Backends |-> ZeroTime]

----------------------------------------------------------------------------
Tick ==
  /\ now < MaxTime
  /\ now' = now + 1
  /\ UNCHANGED <<breakers, stats, req, openedAt>>

\* Explain, BreakerSnapshot and the debug endpoints read a breaker as
\* choose does, which moves an expired one to half open.  They too read the
\* clock before the lock; an older instant moves it just so, or not at all.
Inspect(b) ==
  /\ breakers' = [breakers EXCEPT ![b] = Advance(@, now)]
  /\ UNCHANGED <<now, stats, req, openedAt>>

----------------------------------------------------------------------------
(***************************************************************************)
(* Choose.                                                                 *)
(***************************************************************************)
ChooseBegin(r) ==
  /\ req[r].pc = "idle"
  /\ req' = [req EXCEPT ![r] = [Idle EXCEPT !.pc = "scanning", !.at = now]]
  /\ UNCHANGED <<now, breakers, stats, openedAt>>

\* One turn of buildCandidates' loop: the statistics under one lock, then the
\* breaker under another.
ReadStats(r) ==
  /\ req[r].pc = "scanning"
  /\ req' = [req EXCEPT ![r].pc = "reading", ![r].stat = stats[Len(req[r].seen) + 1]]
  /\ UNCHANGED <<now, breakers, stats, openedAt>>

ScanSlip(r) ==
  LET b       == Len(req[r].seen) + 1
      breaker == Advance(breakers[b], req[r].at)
      cand    == Candidate(b, breaker, req[r].stat, req[r].at)
  IN  /\ req[r].pc = "reading"
      /\ breakers' = [breakers EXCEPT ![b] = breaker]
      /\ req' = [req EXCEPT ![r].seen = Append(@, cand), ![r].stat = NoStats,
                            ![r].left = IF cand.eligible THEN @ \union {b} ELSE @,
                            ![r].pc = IF b > NumBackends THEN "picking" ELSE "scanning"]
      /\ UNCHANGED <<now, stats, openedAt>>

Scan(r) ==
  LET b       == Len(req[r].seen) + 1
      breaker == Advance(breakers[b], req[r].at)
      cand    == Candidate(b, breaker, req[r].stat, req[r].at)
  IN  /\ req[r].pc = "reading"
      /\ breakers' = [breakers EXCEPT ![b] = breaker]
      /\ req' = [req EXCEPT ![r].seen = Append(@, cand), ![r].stat = NoStats,
                            ![r].left = IF cand.eligible THEN @ \union {b} ELSE @,
                            ![r].pc = IF b = NumBackends THEN "picking" ELSE "scanning"]
      /\ UNCHANGED <<now, stats, openedAt>>

Decide(r, b, admitted, probe) ==
  req' = [req EXCEPT ![r].pc = "decided", ![r].choice = b,
                     ![r].admitted = admitted, ![r].probe = probe,
                     ![r].seen = <<>>, ![r].left = {}]

\* The best of the eligible candidates, when its breaker was closed.
PickClosed(r) ==
  LET b == PickBest(req[r].seen, req[r].left)
  IN  /\ req[r].pc = "picking"
      /\ req[r].left # {}
      /\ req[r].seen[b].state # "half_open"
      /\ Decide(r, b, TRUE, FALSE)
      /\ UNCHANGED <<now, breakers, stats, openedAt>>

\* The best candidate was half open: reserve its probe, or try the next.
PickHalfOpenSlip(r) ==
  LET b == PickBest(req[r].seen, req[r].left)
  IN  /\ req[r].pc = "picking"
      /\ req[r].left # {}
      /\ req[r].seen[b].state = "half_open"
      /\ breakers' = [breakers EXCEPT ![b] = AcquireProbe(@, req[r].at)]
      /\ Decide(r, b, TRUE, ProbeAllowed(Advance(breakers[b], req[r].at), req[r].at))
      /\ UNCHANGED <<now, stats, openedAt>>

PickHalfOpen(r) ==
  LET b == PickBest(req[r].seen, req[r].left)
  IN  /\ req[r].pc = "picking"
      /\ req[r].left # {}
      /\ req[r].seen[b].state = "half_open"
      /\ breakers' = [breakers EXCEPT ![b] = AcquireProbe(@, req[r].at)]
      /\ IF Acquired(breakers[b], req[r].at)
         THEN Decide(r, b, TRUE, Advance(breakers[b], req[r].at).state = "half_open")
         ELSE req' = [req EXCEPT ![r].left = @ \ {b}]
      /\ UNCHANGED <<now, stats, openedAt>>

\* No candidate is left: the one that recovers first, without a probe.
PickFallback(r) ==
  /\ req[r].pc = "picking"
  /\ req[r].left = {}
  /\ Decide(r, PickMostRecoverable(req[r].seen), FALSE, FALSE)
  /\ UNCHANGED <<now, breakers, stats, openedAt>>

Choose(r) ==
  \/ ChooseBegin(r)
  \/ ReadStats(r)
  \/ Scan(r)
  \/ PickClosed(r)
  \/ PickHalfOpen(r)
  \/ PickFallback(r)

----------------------------------------------------------------------------
(***************************************************************************)
(* ObserveWithCooldownResult.                                              *)
(***************************************************************************)
\* What time.Now() may have given since an earlier instant.  It is an argument of
\* each Observe, evaluated before Observe waits for its lock.
ReadSince(earlier) == earlier..now

CooldownDurations(retryAfter) ==
  IF retryAfter > 0 THEN {retryAfter} ELSE DefaultCooldowns

ReportStats(r, t, outcome, ttft, retryAfter) ==
  LET b      == req[r].choice
      failed == outcome = "failure"
  IN  /\ req[r].pc = "decided"
      /\ \E cooldown \in IF failed THEN CooldownDurations(retryAfter) ELSE {0},
            ewma \in EwmaAfter(stats[b], ttft) :
           /\ stats' = [stats EXCEPT ![b] =
                          ObserveStats(@, t, ttft, ewma, failed, cooldown)]
           /\ req' = [req EXCEPT ![r] =
                [Idle EXCEPT !.pc = "reporting", !.at = now, !.choice = b,
                             !.probe = req[r].probe, !.outcome = outcome,
                             !.cooldown = cooldown]]
      /\ UNCHANGED <<now, breakers, openedAt>>

\* openedAt once the breaker of b has become after.
OpenedAtWith(b, after) ==
  [openedAt EXCEPT ![b] = IF after.state = "closed" THEN ZeroTime
                          ELSE IF breakers[b].state = "closed" THEN now ELSE @]

ReportBreakerSlip(r, t) ==
  LET b     == req[r].choice
      after == ObserveOutcome(breakers[b], t, req[r].outcome, req[r].cooldown)
  IN  /\ req[r].pc = "reporting"
      /\ IF req[r].outcome = "neutral" THEN UNCHANGED <<breakers, openedAt>>
         ELSE /\ breakers' = [breakers EXCEPT ![b] = after]
              /\ openedAt' = OpenedAtWith(b, after)
      /\ req' = [req EXCEPT ![r] = Idle]
      /\ UNCHANGED <<now, stats>>

ReportBreaker(r, t) ==
  LET b     == req[r].choice
      after == ObserveOutcome(breakers[b], t, req[r].outcome, req[r].cooldown)
  IN  /\ req[r].pc = "reporting"
      /\ breakers' = [breakers EXCEPT ![b] = after]
      /\ openedAt' = OpenedAtWith(b, after)
      /\ req' = [req EXCEPT ![r] = Idle]
      /\ UNCHANGED <<now, stats>>

\* Any result: a first token may have been measured whatever came of the
\* stream after it, and only a failure carries a Retry-After.
Report(r) ==
  \E t \in ReadSince(req[r].at) :
    \/ \E outcome \in BreakerOutcomes, ttft \in TTFTs, retryAfter \in RetryAfters :
         /\ outcome # "failure" => retryAfter = 0
         /\ ReportStats(r, t, outcome, ttft, retryAfter)
    \/ ReportBreaker(r, t)

RouterNext ==
  \/ Tick
  \/ \E b \in Backends : Inspect(b)
  \/ \E r \in Requests : Choose(r) \/ Report(r)

RouterSpec == RouterInit /\ [][RouterNext]_routerVars

\* Requests keep coming, and each is served and reported.
FairRouterSpec ==
  /\ RouterSpec
  /\ WF_routerVars(Tick)
  /\ \A r \in Requests : WF_routerVars(Choose(r)) /\ WF_routerVars(Report(r))

----------------------------------------------------------------------------
RequestRecords ==
  [ pc : {"idle", "scanning", "reading", "picking", "decided", "reporting"},
    at : Nat, stat : Stats, seen : Seq(Candidates), left : SUBSET Backends,
    choice : Backends \union {NoBackend}, admitted : BOOLEAN, probe : BOOLEAN,
    outcome : BreakerOutcomes, cooldown : Nat ]

(***************************************************************************)
(* The types; a scan never reads past the last backend, and a pick is      *)
(* made only from a full scan.                                             *)
(***************************************************************************)
RouterTypeOK ==
  /\ now \in Instant
  /\ breakers \in [Backends -> Breakers]
  /\ stats \in [Backends -> Stats]
  /\ req \in [Requests -> RequestRecords]
  /\ openedAt \in [Backends -> Nat]
  /\ \A r \in Requests :
       /\ req[r].pc \in {"scanning", "reading"} => Len(req[r].seen) < NumBackends
       /\ req[r].pc = "picking" => Len(req[r].seen) = NumBackends
       /\ req[r].pc \in {"decided", "reporting"} <=> req[r].choice # NoBackend

(***************************************************************************)
(* A probe marked in flight has a request that took it and has not         *)
(* finished its report: callers that report every decision never leave the *)
(* flag behind, in whatever order stale results clear and set it.          *)
(***************************************************************************)
ProbeOwned ==
  \A b \in Backends : breakers[b].probeInFlight =>
    \E r \in Requests : req[r].choice = b /\ req[r].probe

(***************************************************************************)
(* A request that was let through to a backend as eligible, without a      *)
(* probe, while the backend's breaker is not closed, was overtaken: the    *)
(* breaker opened no earlier, by the clock, than the instant of the        *)
(* decision.  (The report that opened it may carry an earlier instant.)    *)
(***************************************************************************)
StaleAtWorst ==
  \A r \in Requests :
    LET b == req[r].choice
    IN  (req[r].pc = "decided" /\ req[r].admitted /\ ~req[r].probe
           /\ breakers[b].state # "closed")
         => openedAt[b] >= req[r].at

(***************************************************************************)
(* Failback: when the cooldown of the preferred backend is over and its    *)
(* probe is free, a request tries it eventually ("selected the flaky       *)
(* backend again after cooldown", safety_validation_test.go:139, where the *)
(* flaky backend is the preferred one).                                    *)
(***************************************************************************)
Failback ==
  Prefer # NoBackend =>
    (ProbeAllowed(breakers[Prefer], now) ~> ~ProbeAllowed(breakers[Prefer], now))

=============================================================================
