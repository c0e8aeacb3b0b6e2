---------------------------- MODULE RoutedStream ----------------------------
(***************************************************************************)
(* The caller of the router: the goroutine of a streaming request, from    *)
(* the moment its execution context is made (executionContextForRequest)   *)
(* over the attempts of prepareBackendStream to the end of the stream.     *)
(* The backend and the client are the environment: StreamText returns, a   *)
(* token comes, an attempt fails or the client leaves at any time.         *)
(* A timer fires at its instant or at any time after it.                   *)
(*                                                                         *)
(* call[r] holds the local variables of request r:                         *)
(*   phase     "new"         not begun                                     *)
(*             "choosing"    in Choose, or about to call StreamText        *)
(*             "generating"  in StreamText, which has not returned         *)
(*             "await"       in waitForFirstToken                          *)
(*             "observing"   reporting an attempt that got no token        *)
(*             "rechoosing"  in the second Choose of a turn of the loop    *)
(*             "backoff"     in waitForRetryBackoff                        *)
(*             "streaming"   the first token is out, more may follow       *)
(*             "closing"     reporting the end of the stream               *)
(*             "done"                                                      *)
(*   ctx       "live", or the status its end gives (ctx.Err)               *)
(*   deadline  of the execution context                                    *)
(*   mark      await, backoff: when the timer fires, 0 for no timer;       *)
(*             observing, closing: when the attempt ended                  *)
(*   backend, attempt, status, retryAfter   of the current attempt         *)
(*   reports   attempts reported to the router so far (history)            *)
(*   dropped   the backend whose probe it held when it returned without    *)
(*             reporting its last decision (history)                       *)
(***************************************************************************)
EXTENDS Router, Policy

CONSTANTS Global,          \* the numbers of the routing section
          Overrides,       \* each backend's own, or Unset
          UpstreamFailures \* those of AdapterFailures an upstream may give

\* What an upstream can answer instead of a token (statusForAdapterError).
AdapterFailures ==
  {"rate_limited", "timeout", "auth_failed", "bad_request", "upstream_error"}

ASSUME StreamAssumption ==
  /\ Global \in [Fields -> Nat]
  /\ Overrides \in [Backends -> [Fields -> Nat \union {Unset}]]
  /\ UpstreamFailures \subseteq AdapterFailures

\* timeoutPolicyFor and retryPolicyFor of each backend.
Policies == [b \in Backends |-> ServerPolicy(Global, Overrides[b])]

VARIABLE call

vars == <<now, breakers, stats, req, openedAt, call>>

ContextEnds == {"client_cancel", "timeout"}

\* No attempt has failed, or the failed one is being retried.
NoStatus == ""

Fresh ==
  [ phase |-> "new", ctx |-> "live", deadline |-> ZeroTime, mark |-> ZeroTime,
    backend |-> NoBackend, attempt |-> 0, status |-> NoStatus, retryAfter |-> 0,
    reports |-> 0, dropped |-> NoBackend ]

Init == RouterInit /\ call = [r \in Requests |-> Fresh]

----------------------------------------------------------------------------
TimerAt(delay) == IF delay = 0 THEN ZeroTime ELSE now + delay

Fires(r) == call[r].mark # ZeroTime /\ now >= call[r].mark

\* The policy of the backend that an attempt was launched on.
PolicyOf(r) == Policies[call[r].backend]

MayRetry(r) == ShouldRetry(PolicyOf(r), call[r].status, call[r].attempt)

OutcomeOf(status) ==
  IF status \in {"rate_limited", "timeout", "auth_failed", "upstream_error"} THEN "failure"
  ELSE IF status = "ok" THEN "success" ELSE "neutral"

----------------------------------------------------------------------------
(***************************************************************************)
(* Steps of the environment of a request.                                  *)
(***************************************************************************)
Ends(r, status) == call' = [call EXCEPT ![r].ctx = status]

Underway(r) == call[r].phase \notin {"new", "done"}

ClientLeaves(r) ==
  /\ Underway(r) /\ call[r].ctx = "live"
  /\ Ends(r, "client_cancel")
  /\ UNCHANGED routerVars

DeadlinePasses(r) ==
  /\ Underway(r) /\ call[r].ctx = "live"
  /\ now >= call[r].deadline
  /\ Ends(r, "timeout")
  /\ UNCHANGED routerVars

----------------------------------------------------------------------------
(***************************************************************************)
(* Entering the loop, and its calls of Choose.                             *)
(***************************************************************************)
\* Explain scans the backends before the budget is made, and the total timeout is
\* that of the backend it names.  Whatever its scan has seen, it names one of them;
\* Choose may name another.
Start(r) ==
  /\ call[r].phase = "new"
  /\ breakers' = [b \in Backends |-> Advance(breakers[b], now)]
  /\ \E explained \in Backends :
       LET deadline == now + Policies[explained]["total"]
       IN  /\ deadline =< MaxTime
           /\ call' = [call EXCEPT ![r].phase = "choosing", ![r].deadline = deadline]
  /\ UNCHANGED <<now, stats, req, openedAt>>

ChooseStep(r) ==
  /\ call[r].phase \in {"choosing", "rechoosing"}
  /\ Choose(r)
  /\ UNCHANGED call

Launch(r) ==
  /\ call[r].phase = "choosing"
  /\ req[r].pc = "decided"
  /\ call' = [call EXCEPT ![r].phase = "generating", ![r].backend = req[r].choice,
                          ![r].attempt = @ + 1]
  /\ UNCHANGED routerVars

\* The watchdog's timer is made only now.
StreamTextReturns(r) ==
  /\ call[r].phase = "generating"
  /\ call' = [call EXCEPT ![r].phase = "await",
                          ![r].mark = TimerAt(PhaseTimeout(call[r].deadline, now, PolicyOf(r)["ttft"]))]
  /\ UNCHANGED routerVars

----------------------------------------------------------------------------
(***************************************************************************)
(* waitForFirstToken: its select takes any case that is ready.             *)
(***************************************************************************)
FirstToken(r) ==
  /\ call[r].phase = "await"
  /\ call' = [call EXCEPT ![r].phase = "streaming", ![r].mark = ZeroTime]
  /\ UNCHANGED routerVars

Fails(r, status, retryAfter) ==
  /\ call' = [call EXCEPT ![r].phase = "observing", ![r].mark = now,
                          ![r].status = status, ![r].retryAfter = retryAfter]
  /\ UNCHANGED routerVars

UpstreamFails(r) ==
  /\ call[r].phase = "await"
  /\ \E status \in UpstreamFailures, retryAfter \in RetryAfters :
       /\ status # "rate_limited" => retryAfter = 0
       /\ Fails(r, status, retryAfter)

WatchdogFires(r) ==
  /\ call[r].phase = "await" /\ Fires(r)
  /\ Fails(r, "timeout", 0)

\* prepareBackendStream and its caller return; the decision that req[r] holds
\* is dropped.
Return(r, status) ==
  /\ call' = [call EXCEPT ![r] = [Fresh EXCEPT !.phase = "done", !.status = status,
                !.attempt = call[r].attempt, !.reports = call[r].reports,
                !.dropped = IF req[r].probe THEN req[r].choice ELSE NoBackend]]
  /\ req' = [req EXCEPT ![r] = Idle]
  /\ UNCHANGED <<now, breakers, stats, openedAt>>

AwaitUnreportedSlip(r) ==
  /\ call[r].phase = "await" /\ call[r].ctx = "timeout"
  /\ Return(r, "timeout")

AwaitTimerOnlySlip(r) ==
  /\ call[r].phase = "await" /\ call[r].ctx = "timeout" /\ Fires(r)
  /\ Fails(r, "timeout", 0)

AwaitTimesOut(r) ==
  /\ call[r].phase = "await" /\ call[r].ctx = "timeout"
  /\ Fails(r, "timeout", 0)

\* A cancelled request returns before its attempt is observed.
AwaitCancelled(r) ==
  /\ call[r].phase = "await" /\ call[r].ctx = "client_cancel"
  /\ Return(r, "client_cancel")

----------------------------------------------------------------------------
(***************************************************************************)
(* observeRouteWithError, and what follows it.                             *)
(***************************************************************************)
ObserveStatsStep(r) ==
  /\ call[r].phase \in {"observing", "closing"}
  /\ \E t \in ReadSince(call[r].mark),
        ttft \in IF call[r].phase = "closing" THEN TTFTs ELSE {0} :
       ReportStats(r, t, OutcomeOf(call[r].status), ttft, call[r].retryAfter)
  /\ call' = [call EXCEPT ![r].mark = ZeroTime]

ObserveBreakerStep(r) == \E t \in ReadSince(req[r].at) : ReportBreaker(r, t)

RetryObservedSlip(r) ==
  /\ call[r].phase \in {"observing", "closing"}
  /\ MayRetry(r)
  /\ ObserveBreakerStep(r)
  /\ call' = [call EXCEPT ![r].phase = "rechoosing", ![r].reports = @ + 1]

RetryObserved(r) ==
  /\ call[r].phase = "observing"
  /\ MayRetry(r)
  /\ ObserveBreakerStep(r)
  /\ call' = [call EXCEPT ![r].phase = "rechoosing", ![r].reports = @ + 1]

\* A terminal status, or the stream was over: done.
LastObserved(r) ==
  /\ \/ call[r].phase = "closing"
     \/ call[r].phase = "observing" /\ ~MayRetry(r)
  /\ ObserveBreakerStep(r)
  /\ call' = [call EXCEPT ![r] = [Fresh EXCEPT !.phase = "done", !.status = call[r].status,
                !.attempt = call[r].attempt, !.reports = call[r].reports + 1]]

----------------------------------------------------------------------------
(***************************************************************************)
(* The second Choose of a turn, and the backoff before the next attempt.   *)
(***************************************************************************)
SameBackend(r) ==
  /\ call[r].phase = "rechoosing"
  /\ req[r].pc = "decided" /\ req[r].choice = call[r].backend
  /\ Return(r, call[r].status)

OtherBackend(r) ==
  /\ call[r].phase = "rechoosing"
  /\ req[r].pc = "decided" /\ req[r].choice # call[r].backend
  /\ \E delay \in Backoffs(PolicyOf(r), call[r].attempt - 1, call[r].retryAfter) :
       LET bounded == PhaseTimeout(call[r].deadline, now, delay)
       IN  call' = [call EXCEPT ![r].phase = IF delay = 0 THEN "choosing" ELSE "backoff",
                      ![r].mark = TimerAt(IF bounded > 0 THEN bounded ELSE delay),
                      ![r].status = NoStatus, ![r].retryAfter = 0]
  /\ UNCHANGED routerVars

BackoffOver(r) ==
  /\ call[r].phase = "backoff" /\ Fires(r) /\ now < call[r].deadline
  /\ call' = [call EXCEPT ![r].phase = "choosing", ![r].mark = ZeroTime]
  /\ UNCHANGED routerVars

BackoffFails(r) ==
  /\ call[r].phase = "backoff"
  /\ \E status \in ContextEnds :
       /\ \/ status = call[r].ctx
          \/ status = "timeout" /\ Fires(r) /\ now >= call[r].deadline
       /\ Return(r, status)

----------------------------------------------------------------------------
(***************************************************************************)
(* The rest of the stream, in one step: the upstream finishes or fails, it *)
(* idles, a write to the client fails, or the context ends.                *)
(***************************************************************************)
StreamEnds(r, status, retryAfter) ==
  /\ call[r].phase = "streaming"
  /\ call' = [call EXCEPT ![r].phase = "closing", ![r].mark = now,
                          ![r].status = status, ![r].retryAfter = retryAfter]
  /\ UNCHANGED routerVars

StreamOver(r) ==
  \E status \in UpstreamFailures \union {"ok", "internal_error"}, retryAfter \in RetryAfters :
    /\ status # "rate_limited" => retryAfter = 0
    /\ StreamEnds(r, status, retryAfter)

StreamCutOff(r) == call[r].ctx \in ContextEnds /\ StreamEnds(r, call[r].ctx, 0)

----------------------------------------------------------------------------
\* What the goroutine does when nobody else moves.
OwnStep(r) ==
  \/ ChooseStep(r)
  \/ Launch(r)
  \/ WatchdogFires(r)
  \/ AwaitTimesOut(r)
  \/ AwaitCancelled(r)
  \/ ObserveStatsStep(r)
  \/ RetryObserved(r)
  \/ LastObserved(r)
  \/ SameBackend(r)
  \/ OtherBackend(r)
  \/ BackoffOver(r)
  \/ BackoffFails(r)
  \/ StreamCutOff(r)

UpstreamStep(r) ==
  \/ StreamTextReturns(r)
  \/ FirstToken(r)
  \/ UpstreamFails(r)
  \/ StreamOver(r)

Next ==
  \/ Tick /\ UNCHANGED call
  \/ \E r \in Requests :
       Start(r) \/ ClientLeaves(r) \/ DeadlinePasses(r) \/ OwnStep(r) \/ UpstreamStep(r)

SafeSpec == Init /\ [][Next]_vars

\* The clock runs, goroutines are scheduled, contexts end at their deadline,
\* and StreamText returns when its context has ended.  Nothing is asked of
\* the upstream or the client.
Spec ==
  /\ SafeSpec
  /\ WF_vars(Tick /\ UNCHANGED call)
  /\ \A r \in Requests :
       /\ WF_vars(OwnStep(r))
       /\ WF_vars(DeadlinePasses(r))
       /\ WF_vars(call[r].ctx # "live" /\ StreamTextReturns(r))

----------------------------------------------------------------------------
Phases == {"new", "choosing", "generating", "await", "observing", "rechoosing",
           "backoff", "streaming", "closing", "done"}
Statuses == AdapterFailures \union ContextEnds \union {NoStatus, "ok", "internal_error"}

(***************************************************************************)
(* Types, the bound on attempts (that of some backend, when they differ),  *)
(* and the agreement between a request's phase and the router call it is   *)
(* in.                                                                     *)
(***************************************************************************)
StreamTypeOK ==
  /\ call \in [Requests ->
       [ phase : Phases, ctx : {"live"} \union ContextEnds, deadline : Nat, mark : Nat,
         backend : Backends \union {NoBackend}, attempt : Nat,
         status : Statuses, retryAfter : Nat, reports : Nat,
         dropped : Backends \union {NoBackend} ]]
  /\ \A r \in Requests :
       /\ \E b \in Backends : call[r].attempt =< Policies[b]["attempts"]
       /\ call[r].phase \in {"new", "done"} => req[r] = Idle
       /\ call[r].phase \in {"generating", "await", "backoff", "streaming"}
            => req[r].pc = "decided"
       /\ call[r].phase \in {"generating", "await", "observing", "streaming", "closing"}
            => req[r].choice = call[r].backend

(***************************************************************************)
(* Every attempt is reported to the router once, whatever way the request  *)
(* ends; the one exception is the attempt a client abandons before its     *)
(* first token.                                                            *)
(***************************************************************************)
EveryAttemptReported ==
  \A r \in Requests : call[r].phase = "done" =>
    \/ call[r].reports = call[r].attempt
    \/ call[r].status = "client_cancel" /\ call[r].reports = call[r].attempt - 1

(***************************************************************************)
(* A probe in flight that no request owns was dropped: by a client that    *)
(* left before the first token, by a second Choose that came back with the *)
(* same backend, or by a backoff that did not end.  No order of stale      *)
(* results, half-open transitions and retries loses one.                   *)
(***************************************************************************)
ProbeAccounted ==
  \A b \in Backends : breakers[b].probeInFlight =>
    \E r \in Requests : (req[r].choice = b /\ req[r].probe) \/ call[r].dropped = b

(***************************************************************************)
(* "Once any token has been streamed to the client, CloudInfer will not    *)
(* retry the request on another backend" (README.md:137).                  *)
(***************************************************************************)
NoRetryAfterToken ==
  [][\A r \in Requests : call[r].phase \in {"streaming", "closing"} =>
       /\ call'[r].phase \in {"streaming", "closing", "done"}
       /\ call'[r].attempt = call[r].attempt]_vars

(***************************************************************************)
(* While the total timeout has not passed, every attempt waits under a     *)
(* watchdog, and no watchdog and no backoff runs past that timeout,        *)
(* whichever backends' policies the total, the watchdog and the delay came *)
(* from, and whatever an upstream asked for with Retry-After.              *)
(***************************************************************************)
TimersWithinBudget ==
  \A r \in Requests :
    call[r].phase \in {"await", "backoff"} /\ now < call[r].deadline =>
      call[r].mark \in 1..call[r].deadline

(***************************************************************************)
(* Every request ends, although its upstream may hang in StreamText,       *)
(* before the first token, or between two tokens.                          *)
(***************************************************************************)
RequestEnds ==
  \A r \in Requests : call[r].phase # "new" ~> call[r].phase = "done"

----------------------------------------------------------------------------
(***************************************************************************)
(* What the repository says of the program and the code does not do.       *)
(***************************************************************************)

(***************************************************************************)
(* "... selected the flaky backend again after cooldown"                   *)
(* (safety_validation_test.go:139): a half-open backend that no request is *)
(* busy with can be probed once its probe interval is over.                *)
(***************************************************************************)
SelectableAgain ==
  \A b \in Backends :
    (/\ breakers[b].state = "half_open"
     /\ now >= breakers[b].lastProbeAt + HalfOpenProbeInterval
     /\ \A r \in Requests : req[r].choice # b)
      => ProbeAllowed(breakers[b], now)

=============================================================================
