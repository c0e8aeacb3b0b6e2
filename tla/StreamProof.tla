---------------------------- MODULE StreamProof -----------------------------
(***************************************************************************)
(* The safety properties of RoutedStream for any number of backends, any   *)
(* set of requests and any configuration that passes the loader.           *)
(*                                                                         *)
(* The invariant adds to the router's own (RouterProof) what each request  *)
(* knows of the router call it is in.  A step of a request is a step of    *)
(* the router for it and a change of its own record: CallStep says what    *)
(* both must satisfy, and then there is one lemma per action.              *)
(***************************************************************************)
EXTENDS RoutedStream, RouterProof

CallRecords ==
  [ phase : Phases, ctx : {"live"} \union ContextEnds, deadline : Nat, mark : Nat,
    backend : Backends \union {NoBackend}, attempt : Nat,
    status : Statuses, retryAfter : Nat, reports : Nat,
    dropped : Backends \union {NoBackend} ]

(***************************************************************************)
(* The parts of the invariant, of a request's record c and its router      *)
(* record q.  Placed: the phase and the router's call agree.  Counted: the *)
(* attempts that have been reported.  Bounded: some backend's policy       *)
(* allows the attempts so far, and between two attempts one more.  Timed:  *)
(* TimersWithinBudget, of one request.  Kept: only a request that is over  *)
(* has dropped a probe.                                                    *)
(***************************************************************************)
Between == {"new", "choosing", "rechoosing", "backoff"}
Within  == {"generating", "await", "observing", "streaming", "closing"}

Placed(c, q) ==
  /\ c.phase \in {"new", "done"} => q = Idle
  /\ c.phase \in {"generating", "await", "backoff", "streaming"} => q.pc = "decided"
  /\ c.phase \in {"observing", "closing"} => q.pc \in {"decided", "reporting"}
  /\ c.phase \in {"choosing", "rechoosing"} => q.pc # "reporting"
  /\ c.phase \in Within => q.choice = c.backend
  /\ c.phase = "rechoosing" => c.backend \in Backends

Counted(c) ==
  /\ c.phase \in Between => c.reports = c.attempt
  /\ c.phase = "rechoosing" => c.attempt > 0
  /\ c.phase \in Within => c.reports = c.attempt - 1
  /\ c.phase = "done" => \/ c.reports = c.attempt
                         \/ c.status = "client_cancel" /\ c.reports = c.attempt - 1

Bounded(c) ==
  /\ \E b \in Backends : c.attempt =< Policies[b]["attempts"]
  /\ c.phase \in Between => \E b \in Backends : c.attempt < Policies[b]["attempts"]

Timed(c) ==
  c.phase \in {"await", "backoff"} /\ now < c.deadline => c.mark \in 1..c.deadline

Kept(c) == c.phase # "done" => c.dropped = NoBackend

Consistent(c, q) == Placed(c, q) /\ Counted(c) /\ Bounded(c) /\ Timed(c) /\ Kept(c)

SInv ==
  /\ RInv
  /\ call \in [Requests -> CallRecords]
  /\ \A r \in Requests : Consistent(call[r], req[r])
  /\ ProbeAccounted

(* What the runs check follows.                                            *)
LEMMA SImplied ==
  SInv => /\ StreamTypeOK /\ EveryAttemptReported /\ ProbeAccounted
          /\ TimersWithinBudget /\ StaleAtWorst
<1> SUFFICES ASSUME SInv
             PROVE  /\ StreamTypeOK /\ EveryAttemptReported /\ ProbeAccounted
                    /\ TimersWithinBudget /\ StaleAtWorst
  OBVIOUS
<1>1. StreamTypeOK
  BY DEF SInv, StreamTypeOK, CallRecords, Consistent, Placed, Bounded, Within
<1>2. EveryAttemptReported
  BY DEF SInv, EveryAttemptReported, Consistent, Counted
<1>3. TimersWithinBudget
  BY DEF SInv, TimersWithinBudget, Consistent, Timed
<1> QED BY <1>1, <1>2, <1>3, Implied DEF SInv

(* Every backend's policy is usable, and so is that of an attempt.         *)
LEMMA PoliciesType == \A b \in Backends : Usable(Policies[b])
BY StreamAssumption, PoliciesUsable DEF Policies

(***************************************************************************)
(* A step of request r: what must hold of the router, of its own record    *)
(* and of the probes.                                                      *)
(***************************************************************************)
LEMMA CallStep ==
  ASSUME SInv, NEW r \in Requests, RInv', now' = now,
         call' \in [Requests -> CallRecords],
         \A s \in Requests \ {r} : call'[s] = call[s] /\ req'[s] = req[s],
         call[r].phase # "done", Consistent(call[r], req[r])',
         \A b \in Backends : breakers'[b].probeInFlight =>
           \/ req'[r].choice = b /\ req'[r].probe
           \/ call'[r].dropped = b
           \/ breakers[b].probeInFlight /\ ~(req[r].choice = b /\ req[r].probe)
  PROVE  SInv'
<1>1. ASSUME NEW s \in Requests \ {r} PROVE Consistent(call[s], req[s])'
  BY DEF SInv, Consistent, Timed, Placed, Counted, Bounded, Kept
<1>2. ProbeAccounted'
  <2> SUFFICES ASSUME NEW b \in Backends, breakers'[b].probeInFlight
               PROVE  \E s \in Requests : \/ req'[s].choice = b /\ req'[s].probe
                                          \/ call'[s].dropped = b
    BY DEF ProbeAccounted
  <2>1. CASE (req'[r].choice = b /\ req'[r].probe) \/ call'[r].dropped = b
    BY <2>1
  <2>2. CASE breakers[b].probeInFlight /\ ~(req[r].choice = b /\ req[r].probe)
    <3>1. PICK s \in Requests : (req[s].choice = b /\ req[s].probe) \/ call[s].dropped = b
      BY <2>2 DEF SInv, ProbeAccounted
    <3>2. call[r].dropped # b
      BY DEF SInv, Consistent, Kept, Backends, NoBackend
    <3> QED BY <2>2, <3>1, <3>2
  <2> QED BY <2>1, <2>2
<1> QED BY <1>1, <1>2 DEF SInv

(* A step of which the router sees nothing: r's record becomes c.          *)
LEMMA RecordStep ==
  ASSUME SInv, NEW r \in Requests, NEW c \in CallRecords, UNCHANGED routerVars,
         call' = [call EXCEPT ![r] = c], call[r].phase # "done", Consistent(c, req[r])
  PROVE  SInv'
<1>1. /\ RInv' /\ now' = now /\ req' = req /\ breakers' = breakers
  BY UnchangedRInv DEF SInv, routerVars
<1>2. /\ call' \in [Requests -> CallRecords] /\ call'[r] = c
      /\ \A s \in Requests \ {r} : call'[s] = call[s]
  BY DEF SInv
<1>3. Consistent(call[r], req[r])'
  BY <1>1, <1>2 DEF Consistent, Placed, Counted, Bounded, Timed, Kept
<1>4. \A b \in Backends : breakers'[b].probeInFlight =>
        \/ req'[r].choice = b /\ req'[r].probe
        \/ breakers[b].probeInFlight /\ ~(req[r].choice = b /\ req[r].probe)
  BY <1>1
<1> QED BY <1>1, <1>2, <1>3, <1>4, CallStep

(* A step of the router for r that r's own record knows nothing of.        *)
LEMMA RouterCallStep ==
  ASSUME SInv, NEW r \in Requests, RInv', Passes(r), now' = now, UNCHANGED call,
         call[r].phase # "done", Placed(call[r], req'[r])
  PROVE  SInv'
<1>1. Consistent(call[r], req[r])'
  BY DEF SInv, Consistent, Placed, Counted, Bounded, Timed, Kept
<1>2. call' \in [Requests -> CallRecords]
  BY DEF SInv
<1> QED BY <1>1, <1>2, CallStep DEF Passes

----------------------------------------------------------------------------
(* A router and requests that are new.                                     *)
LEMMA InitSInv == Init => SInv
<1> SUFFICES ASSUME Init PROVE SInv
  OBVIOUS
<1>1. RInv
  BY InitRInv DEF Init
<1>2. /\ Fresh \in CallRecords
      /\ Fresh.phase = "new" /\ Fresh.reports = 0 /\ Fresh.attempt = 0
      /\ Fresh.dropped = NoBackend
  BY DEF Fresh, CallRecords, Phases, Statuses, ZeroTime
<1>3. \E b \in Backends : 0 < Policies[b]["attempts"] /\ 0 =< Policies[b]["attempts"]
  <2>1. 1 \in Backends
    BY RoutingAssumption DEF Backends
  <2>2. Policies[1]["attempts"] \in Nat /\ Policies[1]["attempts"] > 0
    BY <2>1, PoliciesType DEF Usable, Fields, RetryFields
  <2> QED BY <2>1, <2>2
<1>4. Consistent(Fresh, Idle)
  BY <1>2, <1>3 DEF Consistent, Placed, Counted, Bounded, Timed, Kept, Between, Within
<1>5. ProbeAccounted
  BY DEF Init, RouterInit, ProbeAccounted, NewBreaker
<1>6. \A r \in Requests : call[r] = Fresh /\ req[r] = Idle
  BY DEF Init, RouterInit
<1>7. call \in [Requests -> CallRecords]
  BY <1>2 DEF Init
<1> HIDE DEF Init
<1> QED BY <1>1, <1>4, <1>5, <1>6, <1>7 DEF SInv, Consistent, Placed, Counted, Bounded, Timed, Kept

(* Time passes: what has to be before a deadline has less time for it.     *)
LEMMA TickSInv == SInv /\ Tick /\ UNCHANGED call => SInv'
<1> SUFFICES ASSUME SInv, Tick, UNCHANGED call PROVE SInv'
  OBVIOUS
<1>1. RInv'
  BY TickRInv DEF SInv
<1>2. req' = req /\ breakers' = breakers /\ now' > now /\ now' \in Nat /\ now \in Nat
  BY DEF Tick, SInv, RInv, Instant
<1>3. ASSUME NEW r \in Requests PROVE Consistent(call[r], req[r])'
  <2>1. call[r] \in CallRecords /\ Consistent(call[r], req[r])
    BY DEF SInv
  <2>2. now' < call[r].deadline => now < call[r].deadline
    BY <1>2, <2>1 DEF CallRecords
  <2> QED BY <1>2, <2>1, <2>2 DEF Consistent, Placed, Counted, Bounded, Timed, Kept
<1> QED BY <1>1, <1>2, <1>3 DEF SInv, ProbeAccounted

(* The context of a request ends.                                          *)
LEMMA EndsSInv ==
  ASSUME SInv, NEW r \in Requests, NEW status \in ContextEnds,
         Underway(r), Ends(r, status), UNCHANGED routerVars
  PROVE  SInv'
<1>1. call[r] \in CallRecords /\ Consistent(call[r], req[r]) /\ call[r].phase # "done"
  BY DEF SInv, Underway
<1>2. PICK c : c = [call[r] EXCEPT !.ctx = status]
  OBVIOUS
<1>3. c \in CallRecords /\ Consistent(c, req[r])
  BY <1>1, <1>2 DEF CallRecords, Consistent, Placed, Counted, Bounded, Timed, Kept
<1>4. call' = [call EXCEPT ![r] = c]
  BY <1>2 DEF Ends
<1> QED BY <1>1, <1>3, <1>4, RecordStep

(* Explain scans the backends, and the request is under way.               *)
LEMMA StartSInv ==
  ASSUME SInv, NEW r \in Requests, Start(r) PROVE SInv'
<1>1. /\ call[r] \in CallRecords /\ Consistent(call[r], req[r]) /\ call[r].phase = "new"
      /\ now \in Instant /\ now \in Nat /\ now =< now
  BY DEF SInv, RInv, Start, Instant
<1>2. /\ breakers' = [b \in Backends |-> Advance(breakers[b], now)]
      /\ now' = now /\ stats' = stats /\ req' = req /\ openedAt' = openedAt
      /\ openedAt \in [Backends -> Nat]
  BY DEF Start, SInv, RInv
<1>3. ASSUME NEW b \in Backends
      PROVE  /\ Coherent(breakers'[b])
             /\ \A s \in Nat : Overtaken(breakers[b], openedAt[b], s)
                              => Overtaken(breakers'[b], openedAt[b], s)
             /\ breakers'[b].probeInFlight => breakers[b].probeInFlight
  <2>1. PICK a : a = breakers[b] /\ Coherent(a)
    BY DEF SInv, RInv
  <2>2. PICK n \in Instant : n = now
    BY <1>1
  <2>3. /\ Coherent(Advance(a, n))
        /\ \A s : Overtaken(a, openedAt[b], s) => Overtaken(Advance(a, n), openedAt[b], s)
        /\ Advance(a, n).probeInFlight => a.probeInFlight
    BY <2>1, AdvanceCoherent, LooksOvertake
  <2> QED BY <1>2, <2>1, <2>2, <2>3
<1>4. RInv'
  <2>1. Forwards
    BY <1>2, <1>3 DEF Forwards
  <2>2. breakers' \in [Backends -> Breakers]
    BY <1>2, <1>3 DEF Coherent
  <2> QED BY <1>1, <1>2, <2>1, <2>2, QuietStep DEF SInv
<1>5. PICK explained \in Backends :
        call' = [call EXCEPT ![r].phase = "choosing",
                             ![r].deadline = now + Policies[explained]["total"]]
  BY DEF Start
<1>6. PICK total \in Nat : total = Policies[explained]["total"]
  BY PoliciesType DEF Usable, Fields, TimeoutFields
<1> DEFINE c == [call[r] EXCEPT !.phase = "choosing", !.deadline = now + total]
<1>7. c \in CallRecords
  <2>1. now + total \in Nat /\ "choosing" \in Phases
    BY <1>1 DEF Phases
  <2> QED BY <1>1, <2>1 DEF CallRecords
<1>8. call' \in [Requests -> CallRecords] /\ call'[r] = c
      /\ \A s \in Requests \ {r} : call'[s] = call[s] /\ req'[s] = req[s]
  BY <1>2, <1>5, <1>6, <1>7 DEF SInv
<1>9. c.phase = "choosing" /\ c.reports = call[r].reports /\ c.attempt = call[r].attempt
      /\ c.dropped = call[r].dropped
  BY <1>1 DEF CallRecords
<1> HIDE DEF c
<1>10. Consistent(call[r], req[r])'
  BY <1>1, <1>2, <1>8, <1>9, IdleType
     DEF Consistent, Placed, Counted, Bounded, Timed, Kept, Between, Within
<1>11. \A b \in Backends : breakers'[b].probeInFlight =>
         breakers[b].probeInFlight /\ ~(req[r].choice = b /\ req[r].probe)
  BY <1>1, <1>3, IdleType DEF Consistent, Placed, Backends, NoBackend
<1> QED BY <1>1, <1>2, <1>4, <1>8, <1>10, <1>11, CallStep

(* A step of Choose for a request that is choosing.                        *)
LEMMA ChooseStepSInv ==
  ASSUME SInv, NEW r \in Requests, ChooseStep(r) PROVE SInv'
<1>1. /\ call[r].phase \in {"choosing", "rechoosing"} /\ Choose(r) /\ UNCHANGED call
      /\ Consistent(call[r], req[r]) /\ req[r] \in RequestRecords
  BY DEF ChooseStep, SInv, RInv
<1>2. RInv' /\ Passes(r)
  BY <1>1, ChooseRInv DEF SInv
<1>3. now' = now /\ req'[r].pc # "reporting"
  <2>1. CASE ChooseBegin(r)
    BY <1>1, <2>1 DEF ChooseBegin, SInv, RInv, Idle
  <2>2. CASE ReadStats(r)
    BY <1>1, <2>2 DEF ReadStats, SInv, RInv, RequestRecords
  <2>3. CASE Scan(r)
    BY <1>1, <2>3 DEF Scan, SInv, RInv, RequestRecords
  <2>4. CASE PickClosed(r)
    BY <1>1, <2>4 DEF PickClosed, Decide, SInv, RInv, RequestRecords
  <2>5. CASE PickHalfOpen(r)
    <3>1. now' = now
      BY <2>5 DEF PickHalfOpen
    <3>2. req \in [Requests -> RequestRecords]
      BY DEF SInv, RInv
    <3>3. PICK b, admitted, probe :
            Decide(r, b, admitted, probe) \/ req' = [req EXCEPT ![r].left = @ \ {b}]
      BY <2>5 DEF PickHalfOpen
    <3>4. req[r].pc # "reporting"
      BY <2>5 DEF PickHalfOpen
    <3>5. CASE Decide(r, b, admitted, probe)
      BY <3>1, <3>2, <3>5 DEF Decide, RequestRecords
    <3>6. CASE req' = [req EXCEPT ![r].left = @ \ {b}]
      BY <3>1, <3>2, <3>4, <3>6 DEF RequestRecords
    <3> QED BY <3>3, <3>5, <3>6
  <2>6. CASE PickFallback(r)
    BY <1>1, <2>6 DEF PickFallback, Decide, SInv, RInv, RequestRecords
  <2> QED BY <1>1, <2>1, <2>2, <2>3, <2>4, <2>5, <2>6 DEF Choose
<1>4. Placed(call[r], req'[r])
  BY <1>1, <1>3 DEF Consistent, Placed, Within
<1> QED BY <1>1, <1>2, <1>3, <1>4, RouterCallStep

(* What the invariant says of one request.                                 *)
LEMMA Known ==
  ASSUME SInv, NEW r \in Requests
  PROVE  /\ call[r] \in CallRecords /\ Consistent(call[r], req[r])
         /\ req[r] \in RequestRecords /\ Staged(req[r])
         /\ now \in Nat /\ now > 0 /\ call \in [Requests -> CallRecords]
BY DEF SInv, RInv, Instant

(* A decision is acted on: one more attempt (StreamText is called).        *)
LEMMA LaunchSInv ==
  ASSUME SInv, NEW r \in Requests, Launch(r) PROVE SInv'
<1>1. call[r].phase = "choosing" /\ req[r].pc = "decided" /\ UNCHANGED routerVars
  BY DEF Launch
<1>2. PICK p \in CallRecords : p = call[r]
  BY Known
<1>3. /\ Consistent(p, req[r]) /\ req[r].choice \in Backends /\ p.phase = "choosing"
      /\ now \in Nat
  BY <1>1, <1>2, Known DEF Staged, RequestRecords, NoBackend
<1>4. PICK c : c = [p EXCEPT !.phase = "generating", !.backend = req[r].choice,
                             !.attempt = @ + 1]
  OBVIOUS
<1>5. call' = [call EXCEPT ![r] = c]
  BY <1>2, <1>4, Known DEF Launch
<1>6. "generating" \in Phases /\ p.attempt + 1 \in Nat
  BY DEF Phases, CallRecords
<1>7. c \in CallRecords
  BY <1>3, <1>4, <1>6 DEF CallRecords
<1>8. Consistent(c, req[r])
  <2>1. /\ c.phase = "generating" /\ c.attempt = p.attempt + 1 /\ c.reports = p.reports
        /\ c.backend = req[r].choice /\ c.dropped = p.dropped
    BY <1>4 DEF CallRecords
  <2>2. Placed(c, req[r]) /\ Timed(c) /\ Kept(c)
    BY <1>1, <1>3, <2>1 DEF Consistent, Placed, Timed, Kept
  <2>3. p.attempt \in Nat /\ p.reports = p.attempt
    BY <1>3 DEF CallRecords, Consistent, Counted, Between
  <2>4. Counted(c)
    BY <2>1, <2>3 DEF Counted, Between, Within
  <2>5. PICK b \in Backends : p.attempt < Policies[b]["attempts"]
    BY <1>3 DEF Consistent, Bounded, Between
  <2>6. Policies[b]["attempts"] \in Nat
    BY PoliciesType DEF Usable, Fields, RetryFields
  <2>7. Bounded(c)
    BY <2>1, <2>3, <2>5, <2>6 DEF Bounded, Between
  <2> QED BY <2>2, <2>4, <2>7 DEF Consistent
<1> QED BY <1>1, <1>5, <1>7, <1>8, RecordStep

(* StreamText returns, and the watchdog's timer is made (PhaseTimeout).    *)
LEMMA StreamTextReturnsSInv ==
  ASSUME SInv, NEW r \in Requests, StreamTextReturns(r) PROVE SInv'
<1>1. call[r].phase = "generating" /\ UNCHANGED routerVars
  BY DEF StreamTextReturns
<1>2. PICK p \in CallRecords : p = call[r]
  BY Known
<1>3. /\ Consistent(p, req[r]) /\ p.backend = req[r].choice /\ p.phase = "generating"
      /\ req[r].pc = "decided" /\ req[r].choice \in Backends
      /\ now \in Nat /\ p.deadline \in Nat
  BY <1>1, <1>2, Known
     DEF Staged, RequestRecords, NoBackend, Consistent, Placed, Within, CallRecords
<1>4. PICK ttft \in Nat : ttft = PolicyOf(r)["ttft"] /\ ttft > 0
  BY <1>2, <1>3, PoliciesType DEF PolicyOf, Usable, Fields, TimeoutFields
<1>5. PICK at : at = TimerAt(PhaseTimeout(p.deadline, now, ttft))
  OBVIOUS
<1>6. at \in Nat /\ (now < p.deadline => at \in 1..p.deadline)
  <2>1. PICK t \in Nat, deadline \in Nat : t = now /\ deadline = p.deadline
    BY <1>3
  <2>2. PICK bounded : bounded = PhaseTimeout(deadline, t, ttft)
    OBVIOUS
  <2>3. bounded \in 0..ttft /\ (t < deadline => bounded > 0 /\ t + bounded =< deadline)
    BY <1>4, <2>2, PhaseTimeoutBounds
  <2> QED BY <1>3, <1>5, <2>1, <2>2, <2>3 DEF TimerAt, ZeroTime
<1>7. PICK c : c = [p EXCEPT !.phase = "await", !.mark = at]
  OBVIOUS
<1>8. call' = [call EXCEPT ![r] = c]
  BY <1>2, <1>4, <1>5, <1>7, Known DEF StreamTextReturns
<1>9. "await" \in Phases
  BY DEF Phases
<1>10. c \in CallRecords
  BY <1>6, <1>7, <1>9 DEF CallRecords
<1>11. /\ c.phase = "await" /\ c.mark = at /\ c.attempt = p.attempt /\ c.reports = p.reports
       /\ c.backend = p.backend /\ c.dropped = p.dropped /\ c.deadline = p.deadline
  BY <1>7 DEF CallRecords
<1>12. Consistent(c, req[r])
  BY <1>3, <1>6, <1>11
     DEF Consistent, Placed, Counted, Bounded, Timed, Kept, Between, Within
<1> QED BY <1>1, <1>8, <1>10, <1>12, RecordStep

(* The first token is there.                                               *)
LEMMA FirstTokenSInv ==
  ASSUME SInv, NEW r \in Requests, FirstToken(r) PROVE SInv'
<1>1. call[r].phase = "await" /\ UNCHANGED routerVars
  BY DEF FirstToken
<1>2. PICK p \in CallRecords : p = call[r] /\ Consistent(p, req[r])
  BY Known
<1>3. PICK c : c = [p EXCEPT !.phase = "streaming", !.mark = ZeroTime]
  OBVIOUS
<1>4. call' = [call EXCEPT ![r] = c]
  BY <1>2, <1>3, Known DEF FirstToken
<1>5. "streaming" \in Phases /\ ZeroTime \in Nat
  BY DEF Phases, ZeroTime
<1>6. c \in CallRecords
  BY <1>3, <1>5 DEF CallRecords
<1>7. /\ c.phase = "streaming" /\ c.attempt = p.attempt /\ c.reports = p.reports
      /\ c.backend = p.backend /\ c.dropped = p.dropped
  BY <1>3 DEF CallRecords
<1>8. Consistent(c, req[r])
  BY <1>1, <1>2, <1>7
     DEF Consistent, Placed, Counted, Bounded, Timed, Kept, Between, Within
<1> QED BY <1>1, <1>4, <1>6, <1>8, RecordStep

(* An attempt has failed and is about to be reported.                      *)
LEMMA FailsSInv ==
  ASSUME SInv, NEW r \in Requests, NEW status \in Statuses, NEW retryAfter \in Nat,
         call[r].phase = "await", Fails(r, status, retryAfter)
  PROVE  SInv'
<1>1. UNCHANGED routerVars
  BY DEF Fails
<1>2. PICK p \in CallRecords : p = call[r] /\ Consistent(p, req[r])
  BY Known
<1>3. PICK c : c = [p EXCEPT !.phase = "observing", !.mark = now,
                             !.status = status, !.retryAfter = retryAfter]
  OBVIOUS
<1>4. call' = [call EXCEPT ![r] = c]
  BY <1>2, <1>3, Known DEF Fails
<1>5. "observing" \in Phases /\ now \in Nat
  BY Known DEF Phases
<1>6. c \in CallRecords
  BY <1>3, <1>5 DEF CallRecords
<1>7. /\ c.phase = "observing" /\ c.attempt = p.attempt /\ c.reports = p.reports
      /\ c.backend = p.backend /\ c.dropped = p.dropped
  BY <1>3 DEF CallRecords
<1>8. Consistent(c, req[r])
  BY <1>2, <1>7
     DEF Consistent, Placed, Counted, Bounded, Timed, Kept, Between, Within
<1> QED BY <1>1, <1>4, <1>6, <1>8, RecordStep

(* The request gives up, with or without a probe in its hands; it has      *)
(* reported every attempt, or was left by its client during the last.      *)
LEMMA ReturnSInv ==
  ASSUME SInv, NEW r \in Requests, NEW status \in Statuses, call[r].phase # "done",
         \/ call[r].reports = call[r].attempt
         \/ status = "client_cancel" /\ call[r].reports = call[r].attempt - 1,
         Return(r, status)
  PROVE  SInv'
<1>1. PICK p \in CallRecords : p = call[r] /\ Consistent(p, req[r])
  BY Known
<1>2. PICK dropped : dropped = IF req[r].probe THEN req[r].choice ELSE NoBackend
  OBVIOUS
<1>3. dropped \in Backends \union {NoBackend}
  BY <1>2, Known DEF RequestRecords
<1>4. PICK c : c = [Fresh EXCEPT !.phase = "done", !.status = status, !.attempt = p.attempt,
                                 !.reports = p.reports, !.dropped = dropped]
  OBVIOUS
<1>5. /\ call' = [call EXCEPT ![r] = c] /\ req' = [req EXCEPT ![r] = Idle]
      /\ now' = now /\ breakers' = breakers /\ stats' = stats /\ openedAt' = openedAt
  BY <1>1, <1>2, <1>4, Known DEF Return
<1>6. Fresh \in CallRecords /\ "done" \in Phases
  BY DEF Fresh, CallRecords, Phases, Statuses, ZeroTime
<1>7. c \in CallRecords
  BY <1>3, <1>4, <1>6 DEF CallRecords
<1>8. /\ c.phase = "done" /\ c.status = status /\ c.attempt = p.attempt
      /\ c.reports = p.reports /\ c.dropped = dropped
  BY <1>4, <1>6 DEF CallRecords
<1>9. /\ call' \in [Requests -> CallRecords] /\ call'[r] = c
      /\ req' \in [Requests -> RequestRecords] /\ req'[r] = Idle
      /\ \A s \in Requests \ {r} : call'[s] = call[s] /\ req'[s] = req[s]
  BY <1>5, <1>7, Known, IdleType DEF SInv, RInv
<1>10. RInv'
  <2>1. /\ Forwards /\ breakers' \in [Backends -> Breakers] /\ stats' \in [Backends -> Stats]
        /\ now \in Nat
    BY <1>5, Unmoved DEF SInv, RInv, Instant
  <2>2. (ScanSound(req[r]) /\ Staged(req[r]) /\ Current(req[r]))'
    BY <1>5, <1>9, <2>1, IdleType, EmptySeq DEF ScanSound, Staged, Current, Backends
  <2> QED BY <1>5, <1>9, <2>1, <2>2, RequestStep DEF SInv
<1>11. Consistent(call[r], req[r])'
  <2>1. Placed(c, Idle) /\ Counted(c) /\ Bounded(c) /\ Kept(c)
    BY <1>1, <1>8 DEF Consistent, Placed, Counted, Bounded, Kept, Between, Within
  <2> QED BY <1>8, <1>9, <2>1 DEF Consistent, Placed, Counted, Bounded, Timed, Kept
<1>12. ASSUME NEW b \in Backends, breakers'[b].probeInFlight
       PROVE  \/ call'[r].dropped = b
              \/ breakers[b].probeInFlight /\ ~(req[r].choice = b /\ req[r].probe)
  BY <1>2, <1>5, <1>8, <1>9, <1>12
<1> QED BY <1>5, <1>9, <1>10, <1>11, <1>12, CallStep

(* The first half of a report.                                             *)
LEMMA ObserveStatsStepSInv ==
  ASSUME SInv, NEW r \in Requests, ObserveStatsStep(r) PROVE SInv'
<1>1. PICK p \in CallRecords : p = call[r] /\ Consistent(p, req[r])
  BY Known
<1>2. /\ p.phase \in {"observing", "closing"}
      /\ p.retryAfter \in Nat /\ p.mark \in Nat /\ now \in Nat
  BY <1>1, Known DEF ObserveStatsStep, CallRecords
<1>3. PICK t \in Nat, ttft \in Nat, outcome \in BreakerOutcomes, retryAfter \in Nat :
        ReportStats(r, t, outcome, ttft, retryAfter)
  <2>1. OutcomeOf(p.status) \in BreakerOutcomes
    BY DEF OutcomeOf, BreakerOutcomes
  <2>2. PICK t \in ReadSince(p.mark), ttft \in IF p.phase = "closing" THEN TTFTs ELSE {0} :
          ReportStats(r, t, OutcomeOf(p.status), ttft, p.retryAfter)
    BY <1>1 DEF ObserveStatsStep
  <2>3. ttft \in Nat /\ t \in Nat
    BY <1>2, RouterAssumption DEF ReadSince
  <2> QED BY <1>2, <2>1, <2>2, <2>3
<1>4. RInv' /\ Passes(r)
  BY <1>3, ReportStatsRInv DEF SInv
<1>5. now' = now /\ req'[r].pc = "reporting" /\ req'[r].choice = req[r].choice
  <2>1. req \in [Requests -> RequestRecords]
    BY DEF SInv, RInv
  <2>2. PICK cooldown :
          req' = [req EXCEPT ![r] =
                   [Idle EXCEPT !.pc = "reporting", !.at = now, !.choice = req[r].choice,
                                !.probe = req[r].probe, !.outcome = outcome,
                                !.cooldown = cooldown]]
    BY <1>3 DEF ReportStats
  <2> QED BY <1>3, <2>1, <2>2 DEF ReportStats, Idle
<1>6. PICK c : c = [p EXCEPT !.mark = ZeroTime]
  OBVIOUS
<1>7. c \in CallRecords
  BY <1>6 DEF CallRecords, ZeroTime
<1>8. /\ c.phase = p.phase /\ c.attempt = p.attempt /\ c.reports = p.reports
      /\ c.status = p.status /\ c.backend = p.backend /\ c.dropped = p.dropped
  BY <1>6 DEF CallRecords
<1>9. /\ call' \in [Requests -> CallRecords] /\ call'[r] = c
      /\ \A s \in Requests \ {r} : call'[s] = call[s] /\ req'[s] = req[s]
  <2>1. call' = [call EXCEPT ![r] = c]
    BY <1>1, <1>6, Known DEF ObserveStatsStep
  <2> QED BY <1>4, <1>7, <2>1 DEF SInv, Passes
<1>10. Consistent(call[r], req[r])'
  <2>1. Placed(c, req'[r])
    BY <1>1, <1>2, <1>5, <1>8 DEF Consistent, Placed, Within
  <2>2. Counted(c) /\ Bounded(c) /\ Kept(c)
    BY <1>1, <1>2, <1>8 DEF Consistent, Counted, Bounded, Kept
  <2> QED BY <1>2, <1>8, <1>9, <2>1, <2>2
          DEF Consistent, Placed, Counted, Bounded, Timed, Kept
<1> QED BY <1>1, <1>2, <1>4, <1>5, <1>9, <1>10, CallStep DEF Passes

(* The second half, after which a retry may be looked for.                 *)
LEMMA RetryObservedSInv ==
  ASSUME SInv, NEW r \in Requests, RetryObserved(r) PROVE SInv'
<1>1. /\ call[r].phase = "observing" /\ MayRetry(r) /\ ObserveBreakerStep(r)
      /\ req[r].pc = "reporting" /\ now' = now /\ req' = [req EXCEPT ![r] = Idle]
  BY DEF RetryObserved, ObserveBreakerStep, ReportBreaker
<1>2. PICK p \in CallRecords : p = call[r] /\ Consistent(p, req[r])
  BY Known
<1>3. p.backend \in Backends /\ p.attempt < Policies[p.backend]["attempts"]
  <2>1. p.backend = req[r].choice /\ req[r].choice \in Backends
    BY <1>1, <1>2, Known DEF Consistent, Placed, Within, Staged, RequestRecords, NoBackend
  <2> QED BY <1>1, <1>2, <2>1 DEF MayRetry, ShouldRetry, PolicyOf
<1>4. PICK c : c = [p EXCEPT !.phase = "rechoosing", !.reports = @ + 1]
  OBVIOUS
<1>5. call' = [call EXCEPT ![r] = c]
  BY <1>2, <1>4, Known DEF RetryObserved
<1>6. "rechoosing" \in Phases /\ p.reports + 1 \in Nat
  BY DEF Phases, CallRecords
<1>7. c \in CallRecords
  BY <1>4, <1>6 DEF CallRecords
<1>8. /\ c.phase = "rechoosing" /\ c.attempt = p.attempt /\ c.reports = p.reports + 1
      /\ c.backend = p.backend /\ c.dropped = p.dropped
  BY <1>4 DEF CallRecords
<1>9. RInv' /\ Passes(r)
  BY <1>1, ObserveBreakerRInv DEF SInv, ObserveBreakerStep
<1>10. /\ call' \in [Requests -> CallRecords] /\ call'[r] = c /\ req'[r] = Idle
       /\ \A s \in Requests \ {r} : call'[s] = call[s] /\ req'[s] = req[s]
  BY <1>1, <1>5, <1>7 DEF SInv, RInv
<1>11. Consistent(call[r], req[r])'
  <2>1. Placed(c, Idle) /\ Kept(c)
    BY <1>1, <1>2, <1>3, <1>8, IdleType DEF Consistent, Placed, Kept, Within
  <2>2. Counted(c)
    <3>1. p.reports = p.attempt - 1 /\ p.attempt \in Nat /\ p.attempt > 0
      BY <1>1, <1>2 DEF Consistent, Counted, Within, CallRecords
    <3> QED BY <1>8, <3>1 DEF Counted, Between, Within
  <2>3. Bounded(c)
    BY <1>2, <1>3, <1>8 DEF Consistent, Bounded
  <2> QED BY <1>8, <1>10, <2>1, <2>2, <2>3
          DEF Consistent, Placed, Counted, Bounded, Timed, Kept
<1> QED BY <1>1, <1>9, <1>10, <1>11, CallStep DEF Passes

(* The second half, after which the request is over.                       *)
LEMMA LastObservedSInv ==
  ASSUME SInv, NEW r \in Requests, LastObserved(r) PROVE SInv'
<1>1. /\ call[r].phase \in {"observing", "closing"} /\ ObserveBreakerStep(r)
      /\ now' = now /\ req' = [req EXCEPT ![r] = Idle]
  BY DEF LastObserved, ObserveBreakerStep, ReportBreaker
<1>2. PICK p \in CallRecords : p = call[r] /\ Consistent(p, req[r])
  BY Known
<1>3. PICK c : c = [Fresh EXCEPT !.phase = "done", !.status = p.status,
                                 !.attempt = p.attempt, !.reports = p.reports + 1]
  OBVIOUS
<1>4. call' = [call EXCEPT ![r] = c]
  BY <1>2, <1>3, Known DEF LastObserved
<1>5. Fresh \in CallRecords /\ "done" \in Phases /\ p.reports + 1 \in Nat
  BY DEF Fresh, CallRecords, Phases, Statuses, ZeroTime
<1>6. c \in CallRecords
  BY <1>3, <1>5 DEF CallRecords
<1>7. c.phase = "done" /\ c.attempt = p.attempt /\ c.reports = p.reports + 1
  BY <1>3, <1>5 DEF CallRecords
<1>8. RInv' /\ Passes(r)
  BY <1>1, ObserveBreakerRInv DEF SInv, ObserveBreakerStep
<1>9. /\ call' \in [Requests -> CallRecords] /\ call'[r] = c /\ req'[r] = Idle
      /\ \A s \in Requests \ {r} : call'[s] = call[s] /\ req'[s] = req[s]
  BY <1>1, <1>4, <1>6 DEF SInv, RInv
<1>10. Consistent(call[r], req[r])'
  <2>1. p.reports = p.attempt - 1 /\ p.attempt \in Nat
    BY <1>1, <1>2 DEF Consistent, Counted, Within, CallRecords
  <2>2. Placed(c, Idle) /\ Counted(c) /\ Bounded(c) /\ Kept(c)
    BY <1>2, <1>7, <2>1 DEF Consistent, Placed, Counted, Bounded, Kept, Between, Within
  <2> QED BY <1>7, <1>9, <2>2 DEF Consistent, Placed, Counted, Bounded, Timed, Kept
<1> QED BY <1>1, <1>8, <1>9, <1>10, CallStep DEF Passes

(* Another backend was chosen: at once, or after a delay that is never     *)
(* more than what is left of the total timeout (waitForRetryBackoff).      *)
LEMMA OtherBackendSInv ==
  ASSUME SInv, NEW r \in Requests, OtherBackend(r) PROVE SInv'
<1>1. call[r].phase = "rechoosing" /\ req[r].pc = "decided" /\ UNCHANGED routerVars
  BY DEF OtherBackend
<1>2. PICK p \in CallRecords : p = call[r] /\ Consistent(p, req[r])
  BY Known
<1>3. /\ p.backend \in Backends /\ p.phase = "rechoosing" /\ p.reports = p.attempt
      /\ p.attempt - 1 \in Nat /\ p.attempt \in Nat /\ p.retryAfter \in Nat /\ p.deadline \in Nat /\ now \in Nat
  BY <1>1, <1>2, Known DEF Consistent, Placed, Counted, Between, CallRecords
<1>4. PICK policy : policy = PolicyOf(r) /\ Usable(policy)
  BY <1>2, <1>3, PoliciesType DEF PolicyOf
<1>5. PICK delay \in Backoffs(policy, p.attempt - 1, p.retryAfter) :
        LET bounded == PhaseTimeout(p.deadline, now, delay)
        IN  call' = [call EXCEPT ![r].phase = IF delay = 0 THEN "choosing" ELSE "backoff",
                       ![r].mark = TimerAt(IF bounded > 0 THEN bounded ELSE delay),
                       ![r].status = NoStatus, ![r].retryAfter = 0]
  BY <1>2, <1>4 DEF OtherBackend

<1>6. delay \in Nat
  <2>1. PICK attempt \in Nat, asked \in Nat : attempt = p.attempt - 1 /\ asked = p.retryAfter
    BY <1>3
  <2> QED BY <1>4, <1>5, <2>1, BackoffsBounds
<1>7. PICK phase, at :
        /\ phase = IF delay = 0 THEN "choosing" ELSE "backoff"
        /\ call' = [call EXCEPT ![r].phase = phase, ![r].mark = at,
                                ![r].status = NoStatus, ![r].retryAfter = 0]
        /\ at \in Nat
        /\ delay # 0 /\ now < p.deadline => at \in 1..p.deadline
  <2>1. PICK t \in Nat, deadline \in Nat : t = now /\ deadline = p.deadline
    BY <1>3
  <2>2. PICK bounded : bounded = PhaseTimeout(deadline, t, delay)
    OBVIOUS
  <2>3. /\ bounded \in 0..delay
        /\ t < deadline /\ delay > 0 => bounded > 0 /\ t + bounded =< deadline
    BY <1>6, <2>2, PhaseTimeoutBounds
  <2>4. PICK at : at = TimerAt(IF bounded > 0 THEN bounded ELSE delay)
    OBVIOUS
  <2>5. at \in Nat /\ (delay # 0 /\ now < p.deadline => at \in 1..p.deadline)
    BY <1>6, <2>1, <2>3, <2>4 DEF TimerAt, ZeroTime
  <2> QED BY <1>5, <2>1, <2>2, <2>4, <2>5
<1>8. PICK c : c = [p EXCEPT !.phase = phase, !.mark = at, !.status = NoStatus,
                             !.retryAfter = 0]
  OBVIOUS
<1>9. call' = [call EXCEPT ![r] = c]
  BY <1>2, <1>7, <1>8, Known
<1>10. phase \in Phases /\ NoStatus \in Statuses
  BY <1>7 DEF Phases, Statuses
<1>11. c \in CallRecords
  BY <1>7, <1>8, <1>10 DEF CallRecords
<1>12. /\ c.phase = phase /\ c.attempt = p.attempt /\ c.reports = p.reports /\ c.mark = at
       /\ c.backend = p.backend /\ c.dropped = p.dropped /\ c.deadline = p.deadline
  BY <1>8 DEF CallRecords
<1>13. Placed(c, req[r]) /\ Timed(c) /\ Kept(c)
  BY <1>1, <1>2, <1>3, <1>7, <1>12 DEF Consistent, Placed, Timed, Kept, Within
<1>14. Counted(c) /\ Bounded(c)
  BY <1>2, <1>3, <1>7, <1>12 DEF Consistent, Counted, Bounded, Between, Within
<1> QED BY <1>1, <1>9, <1>11, <1>13, <1>14, RecordStep DEF Consistent

(* The backoff is over.                                                    *)
LEMMA BackoffOverSInv ==
  ASSUME SInv, NEW r \in Requests, BackoffOver(r) PROVE SInv'
<1>1. call[r].phase = "backoff" /\ UNCHANGED routerVars
  BY DEF BackoffOver
<1>2. PICK p \in CallRecords : p = call[r] /\ Consistent(p, req[r])
  BY Known
<1>3. PICK c : c = [p EXCEPT !.phase = "choosing", !.mark = ZeroTime]
  OBVIOUS
<1>4. call' = [call EXCEPT ![r] = c]
  BY <1>2, <1>3, Known DEF BackoffOver
<1>5. "choosing" \in Phases /\ ZeroTime \in Nat
  BY DEF Phases, ZeroTime
<1>6. c \in CallRecords
  BY <1>3, <1>5 DEF CallRecords
<1>7. /\ c.phase = "choosing" /\ c.attempt = p.attempt /\ c.reports = p.reports
      /\ c.backend = p.backend /\ c.dropped = p.dropped
  BY <1>3 DEF CallRecords
<1>8. Consistent(c, req[r])
  BY <1>1, <1>2, <1>7
     DEF Consistent, Placed, Counted, Bounded, Timed, Kept, Between, Within
<1> QED BY <1>1, <1>4, <1>6, <1>8, RecordStep

(* The stream is over or was cut off.                                      *)
LEMMA StreamEndsSInv ==
  ASSUME SInv, NEW r \in Requests, NEW status \in Statuses, NEW retryAfter \in Nat,
         StreamEnds(r, status, retryAfter)
  PROVE  SInv'
<1>1. call[r].phase = "streaming" /\ UNCHANGED routerVars
  BY DEF StreamEnds
<1>2. PICK p \in CallRecords : p = call[r] /\ Consistent(p, req[r])
  BY Known
<1>3. PICK c : c = [p EXCEPT !.phase = "closing", !.mark = now, !.status = status,
                             !.retryAfter = retryAfter]
  OBVIOUS
<1>4. call' = [call EXCEPT ![r] = c]
  BY <1>2, <1>3, Known DEF StreamEnds
<1>5. "closing" \in Phases /\ now \in Nat
  BY Known DEF Phases
<1>6. c \in CallRecords
  BY <1>3, <1>5 DEF CallRecords
<1>7. /\ c.phase = "closing" /\ c.attempt = p.attempt /\ c.reports = p.reports
      /\ c.backend = p.backend /\ c.dropped = p.dropped
  BY <1>3 DEF CallRecords
<1>8. Consistent(c, req[r])
  BY <1>1, <1>2, <1>7
     DEF Consistent, Placed, Counted, Bounded, Timed, Kept, Between, Within
<1> QED BY <1>1, <1>4, <1>6, <1>8, RecordStep

----------------------------------------------------------------------------
(* The statuses a step gives are statuses.                                 *)
LEMMA StatusesGiven ==
  /\ ContextEnds \subseteq Statuses /\ UpstreamFailures \subseteq Statuses
  /\ {"ok", "internal_error"} \subseteq Statuses
  /\ "timeout" \in ContextEnds /\ "client_cancel" \in ContextEnds
BY StreamAssumption DEF ContextEnds, Statuses

(* What the goroutine does by itself keeps the invariant.                  *)
LEMMA OwnStepSInv ==
  ASSUME SInv, NEW r \in Requests, OwnStep(r) PROVE SInv'
<1>1. CASE ChooseStep(r)
  BY <1>1, ChooseStepSInv
<1>2. CASE Launch(r)
  BY <1>2, LaunchSInv
<1>3. CASE WatchdogFires(r) \/ AwaitTimesOut(r)
  <2>1. "timeout" \in Statuses /\ 0 \in Nat
    BY StatusesGiven
  <2>2. call[r].phase = "await" /\ Fails(r, "timeout", 0)
    BY <1>3 DEF WatchdogFires, AwaitTimesOut
  <2> QED BY <2>1, <2>2, FailsSInv
<1>4. CASE AwaitCancelled(r)
  <2>1. /\ call[r].phase = "await" /\ Return(r, "client_cancel")
        /\ call[r].reports = call[r].attempt - 1
    BY <1>4, Known DEF AwaitCancelled, Consistent, Counted, Within
  <2>2. "client_cancel" \in Statuses
    BY StatusesGiven
  <2> QED BY <2>1, <2>2, ReturnSInv
<1>5. CASE ObserveStatsStep(r)
  BY <1>5, ObserveStatsStepSInv
<1>6. CASE RetryObserved(r)
  BY <1>6, RetryObservedSInv
<1>7. CASE LastObserved(r)
  BY <1>7, LastObservedSInv
<1>8. CASE SameBackend(r)
  <2>1. PICK status \in Statuses : status = call[r].status
    BY Known DEF CallRecords
  <2>2. /\ call[r].phase = "rechoosing" /\ Return(r, status)
        /\ call[r].reports = call[r].attempt
    BY <1>8, <2>1, Known DEF SameBackend, Consistent, Counted, Between
  <2> QED BY <2>2, ReturnSInv
<1>9. CASE OtherBackend(r)
  BY <1>9, OtherBackendSInv
<1>10. CASE BackoffOver(r)
  BY <1>10, BackoffOverSInv
<1>11. CASE BackoffFails(r)
  <2>1. PICK status \in ContextEnds : Return(r, status)
    BY <1>11 DEF BackoffFails
  <2>2. call[r].phase = "backoff" /\ call[r].reports = call[r].attempt
    BY <1>11, Known DEF BackoffFails, Consistent, Counted, Between
  <2>3. status \in Statuses
    BY StatusesGiven
  <2> QED BY <2>1, <2>2, <2>3, ReturnSInv
<1>12. CASE StreamCutOff(r)
  <2>1. PICK status \in ContextEnds : StreamEnds(r, status, 0)
    BY <1>12 DEF StreamCutOff
  <2>2. status \in Statuses /\ 0 \in Nat
    BY StatusesGiven
  <2> QED BY <2>1, <2>2, StreamEndsSInv
<1> QED BY <1>1, <1>2, <1>3, <1>4, <1>5, <1>6, <1>7, <1>8, <1>9, <1>10, <1>11, <1>12
        DEF OwnStep

(* So does what the upstream does.                                         *)
LEMMA UpstreamStepSInv ==
  ASSUME SInv, NEW r \in Requests, UpstreamStep(r) PROVE SInv'
<1>1. CASE StreamTextReturns(r)
  BY <1>1, StreamTextReturnsSInv
<1>2. CASE FirstToken(r)
  BY <1>2, FirstTokenSInv
<1>3. CASE UpstreamFails(r)
  <2>1. PICK status \in UpstreamFailures, retryAfter \in RetryAfters :
          Fails(r, status, retryAfter)
    BY <1>3 DEF UpstreamFails
  <2>2. call[r].phase = "await" /\ status \in Statuses /\ retryAfter \in Nat
    BY <1>3, StatusesGiven, RouterAssumption DEF UpstreamFails
  <2> QED BY <2>1, <2>2, FailsSInv
<1>4. CASE StreamOver(r)
  <2>1. PICK status \in UpstreamFailures \union {"ok", "internal_error"},
             retryAfter \in RetryAfters : StreamEnds(r, status, retryAfter)
    BY <1>4 DEF StreamOver
  <2>2. status \in Statuses /\ retryAfter \in Nat
    BY StatusesGiven, RouterAssumption
  <2> QED BY <2>1, <2>2, StreamEndsSInv
<1> QED BY <1>1, <1>2, <1>3, <1>4 DEF UpstreamStep

(* Every step keeps the invariant.                                         *)
LEMMA NextSInv == SInv /\ [Next]_vars => SInv'
<1> SUFFICES ASSUME SInv, [Next]_vars PROVE SInv'
  OBVIOUS
<1>1. CASE Tick /\ UNCHANGED call
  BY <1>1, TickSInv
<1>2. ASSUME NEW r \in Requests, Start(r) PROVE SInv'
  BY <1>2, StartSInv
<1>3. ASSUME NEW r \in Requests, ClientLeaves(r) \/ DeadlinePasses(r) PROVE SInv'
  <2>1. \E status \in ContextEnds : Ends(r, status)
    BY <1>3, StatusesGiven DEF ClientLeaves, DeadlinePasses
  <2>2. Underway(r) /\ UNCHANGED routerVars
    BY <1>3 DEF ClientLeaves, DeadlinePasses
  <2> QED BY <2>1, <2>2, EndsSInv
<1>4. ASSUME NEW r \in Requests, OwnStep(r) \/ UpstreamStep(r) PROVE SInv'
  BY <1>4, OwnStepSInv, UpstreamStepSInv
<1>5. CASE UNCHANGED vars
  <2>1. UNCHANGED routerVars /\ call' = call
    BY <1>5 DEF vars, routerVars
  <2>2. RInv' /\ now' = now /\ req' = req /\ breakers' = breakers
    BY <2>1, UnchangedRInv DEF SInv, routerVars
  <2> QED BY <2>1, <2>2 DEF SInv, Consistent, Placed, Counted, Bounded, Timed, Kept,
                            ProbeAccounted
<1> QED BY <1>1, <1>2, <1>3, <1>4, <1>5 DEF Next

\* The invariant holds in every state of every run of the attempt loop.
LEMMA StreamInvariant == SafeSpec => []SInv
BY InitSInv, NextSInv, PTL DEF SafeSpec

----------------------------------------------------------------------------
(* The types; no request makes more attempts than some backend's policy    *)
(* allows, and its phase and its call of the router agree.                 *)
THEOREM StreamTypes == SafeSpec => []StreamTypeOK
BY StreamInvariant, SImplied, PTL

(* However a request ends, its attempts were reported once each, but for   *)
(* the last of a client that left before the first token.                  *)
THEOREM AttemptsAreReported == SafeSpec => []EveryAttemptReported
BY StreamInvariant, SImplied, PTL

(* A probe in flight has an owner, or was dropped in one of the three      *)
(* known ways.                                                             *)
THEOREM ProbesAreAccounted == SafeSpec => []ProbeAccounted
BY StreamInvariant, SImplied, PTL

(* No watchdog and no backoff outlasts the total timeout, for any numbers  *)
(* of the configuration and any Retry-After.                               *)
THEOREM TimersAreWithinBudget == SafeSpec => []TimersWithinBudget
BY StreamInvariant, SImplied, PTL

(* The real caller of the router is let through without a probe only to a  *)
(* backend whose breaker is closed, or opened, by the clock, no earlier    *)
(* than the decision was made for; whatever instants the reports of other  *)
(* requests come with.                                                     *)
THEOREM StreamStalenessIsBounded == SafeSpec => []StaleAtWorst
BY StreamInvariant, SImplied, PTL

(* After the first token there is no further attempt: the one step that    *)
(* makes one needs a request that is choosing, and the others keep the     *)
(* number.                                                                 *)
THEOREM TokensEndRetries == SafeSpec => NoRetryAfterToken
<1> DEFINE Streamed(r) == call[r].phase \in {"streaming", "closing"}
           Held(r) == /\ call'[r].phase \in {"streaming", "closing", "done"}
                      /\ call'[r].attempt = call[r].attempt
<1>1. ASSUME SInv, [Next]_vars, NEW r \in Requests, Streamed(r) PROVE Held(r)
  <2>1. CASE UNCHANGED call
    BY <1>1, <2>1
  <2>2. ASSUME NEW s \in Requests,
               \/ Start(s) \/ ClientLeaves(s) \/ DeadlinePasses(s)
               \/ OwnStep(s) \/ UpstreamStep(s)
        PROVE  Held(r)
    <3>1. call \in [Requests -> CallRecords] /\ call[r] \in CallRecords
      BY <1>1 DEF SInv
    <3>2. CASE Start(s) \/ Launch(s) \/ OtherBackend(s) \/ BackoffOver(s)
      BY <1>1, <3>1, <3>2 DEF Start, Launch, OtherBackend, BackoffOver, CallRecords
    <3>3. CASE ClientLeaves(s) \/ DeadlinePasses(s)
      BY <1>1, <3>1, <3>3 DEF ClientLeaves, DeadlinePasses, Ends, CallRecords
    <3>4. CASE ChooseStep(s) \/ ObserveStatsStep(s)
      BY <1>1, <3>1, <3>4 DEF ChooseStep, ObserveStatsStep, CallRecords
    <3>5. CASE WatchdogFires(s) \/ AwaitTimesOut(s) \/ UpstreamFails(s)
      BY <1>1, <3>1, <3>5 DEF WatchdogFires, AwaitTimesOut, UpstreamFails, Fails, CallRecords
    <3>6. CASE StreamTextReturns(s) \/ FirstToken(s)
      BY <1>1, <3>1, <3>6 DEF StreamTextReturns, FirstToken, CallRecords
    <3>7. CASE AwaitCancelled(s) \/ SameBackend(s) \/ BackoffFails(s)
      BY <1>1, <3>1, <3>7 DEF AwaitCancelled, SameBackend, BackoffFails, Return, CallRecords
    <3>8. CASE RetryObserved(s)
      BY <1>1, <3>1, <3>8 DEF RetryObserved, CallRecords
    <3>9. CASE LastObserved(s)
      BY <1>1, <3>1, <3>9 DEF LastObserved, Fresh, CallRecords
    <3>10. CASE StreamOver(s) \/ StreamCutOff(s)
      <4>1. \E status, retryAfter : StreamEnds(s, status, retryAfter)
        BY <3>10 DEF StreamOver, StreamCutOff
      <4> QED BY <1>1, <3>1, <4>1 DEF StreamEnds, CallRecords
    <3> QED BY <2>2, <3>2, <3>3, <3>4, <3>5, <3>6, <3>7, <3>8, <3>9, <3>10
            DEF OwnStep, UpstreamStep
  <2> QED BY <1>1, <2>1, <2>2 DEF Next, vars
<1>2. SInv /\ [Next]_vars =>
        [\A r \in Requests : Streamed(r) => Held(r)]_vars
  BY <1>1
<1> QED BY <1>2, StreamInvariant, PTL DEF SafeSpec, NoRetryAfterToken

=============================================================================
