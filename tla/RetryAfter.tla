----------------------------- MODULE RetryAfter -----------------------------
(***************************************************************************)
(* A monitor beside the router: until when an upstream has asked, with     *)
(* Retry-After, not to be called.                                          *)
(***************************************************************************)
EXTENDS Router

VARIABLE notBefore

monitorVars == <<now, breakers, stats, req, openedAt, notBefore>>

MonitorInit == RouterInit /\ notBefore = [b \in Backends |-> ZeroTime]

\* The wait runs from the instant that the report of the header has read, and
\* binds once the statistics know of it.
Promise(r, t) ==
  \E retryAfter \in RetryAfters \ {0}, ttft \in TTFTs :
    /\ ReportStats(r, t, "failure", ttft, retryAfter)
    /\ notBefore' = [notBefore EXCEPT ![req[r].choice] =
                       IF t + retryAfter > @ THEN t + retryAfter ELSE @]

MonitorNext ==
  \/ Tick /\ UNCHANGED notBefore
  \/ \E r \in Requests : Choose(r) /\ UNCHANGED notBefore
  \/ \E r \in Requests : \E t \in ReadSince(req[r].at) :
       \/ Promise(r, t)
       \/ ReportBreaker(r, t) /\ UNCHANGED notBefore
       \/ \E outcome \in BreakerOutcomes, ttft \in TTFTs :
            ReportStats(r, t, outcome, ttft, 0) /\ UNCHANGED notBefore

MonitorSpec == MonitorInit /\ [][MonitorNext]_monitorVars

(***************************************************************************)
(* While a Retry-After runs, the backend is not eligible for a new         *)
(* decision ("honors explicit Retry-After-style cooldown overrides ... and *)
(* avoids hammering while the backend remains in backoff",                 *)
(* safety_validation_test.go:184).                                         *)
(***************************************************************************)
RetryAfterHonoured ==
  \A b \in Backends : now < notBefore[b] =>
    ~Eligible(Advance(breakers[b], now), stats[b], now)

=============================================================================
