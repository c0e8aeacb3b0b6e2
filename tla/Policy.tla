------------------------------- MODULE Policy -------------------------------
(***************************************************************************)
(* The numbers that govern a request, as pure functions: from what the     *)
(* configuration says of a backend to the policies that the router and the *)
(* server use, and from those to timers, delays and retries.               *)
(*                                                                         *)
(* A policy is a function on Fields.  A duration is a number of ticks, a   *)
(* fraction (jitter, rate) a number of Scale-ths.  What the configuration  *)
(* leaves out is Unset; an unset pointer of a backend's section is Unset   *)
(* too.                                                                    *)
(***************************************************************************)
EXTENDS Integers

CONSTANTS Unset,
          Default,   \* the constants of the packages and of config.Load
          Scale

TimeoutFields == {"total", "ttft", "idle"}
RetryFields   == {"attempts", "base", "max", "jitter"}
BreakerFields == {"fails", "window", "rate", "probe"}
Fields        == TimeoutFields \union RetryFields \union BreakerFields

ASSUME PolicyAssumption ==
  /\ Unset \notin Int
  /\ Scale \in Nat \ {0}
  /\ Default \in [Fields -> Nat \ {0}]
  /\ Default["max"] >= Default["base"]
  /\ Default["jitter"] =< Scale /\ Default["rate"] =< Scale

Smaller(x, y) == IF x < y THEN x ELSE y
Larger(x, y) == IF x > y THEN x ELSE y

----------------------------------------------------------------------------
(***************************************************************************)
(* The three Normalize methods.                                            *)
(***************************************************************************)
Positive(p, f) == IF p[f] =< 0 THEN Default[f] ELSE p[f]

NormalizeSlip(p) ==
  [f \in Fields |->
     CASE f = "jitter" -> Smaller(Larger(p[f], 0), Scale)
       [] f = "rate"   -> IF p[f] > Scale THEN Default[f] ELSE Positive(p, f)
       [] OTHER        -> Positive(p, f)]

Normalize(p) ==
  [f \in Fields |->
     CASE f = "jitter" -> Smaller(Larger(p[f], 0), Scale)
       [] f = "max"    -> Larger(Positive(p, "max"), Positive(p, "base"))
       [] f = "rate"   -> IF p[f] > Scale THEN Default[f] ELSE Positive(p, f)
       [] OTHER        -> Positive(p, f)]

(***************************************************************************)
(* From the configuration to a backend's policy: buildBackendRoutingPolicy *)
(* puts a backend's own values over the global ones, resolveBackendPolicy  *)
(* takes the router's own policy for a part that has only zeroes.  The     *)
(* retry part is never taken for zero: main always sets its JitterSource.  *)
(***************************************************************************)
Given(global, override) ==
  [f \in Fields |-> IF override[f] = Unset THEN global[f] ELSE override[f]]

AllZero(p, part) == \A f \in part : p[f] = 0

RouterPolicy(global, override) ==
  LET policy == Given(global, override)
      own(part) == IF AllZero(policy, part) THEN Normalize(global) ELSE Normalize(policy)
  IN  [f \in Fields |->
         CASE f \in TimeoutFields -> own(TimeoutFields)[f]
           [] f \in BreakerFields -> own(BreakerFields)[f]
           [] OTHER               -> Normalize(policy)[f]]

(***************************************************************************)
(* timeoutPolicyFor and retryPolicyFor: the server starts from the         *)
(* router's policy of the backend, lets positive global values win over    *)
(* it, and a backend's own values over both.                               *)
(***************************************************************************)
ServerPolicySlip(global, override) ==
  LET router == RouterPolicy(global, override)
  IN  Normalize([f \in Fields |->
        IF global[f] > 0 THEN global[f]
        ELSE IF override[f] # Unset THEN override[f]
        ELSE router[f]])

ServerPolicy(global, override) ==
  LET router == RouterPolicy(global, override)
  IN  Normalize([f \in Fields |->
        IF override[f] # Unset THEN override[f]
        ELSE IF global[f] > 0 THEN global[f]
        ELSE router[f]])

----------------------------------------------------------------------------
(***************************************************************************)
(* retry.go.                                                               *)
(***************************************************************************)
ShouldRetrySlip(p, status, attempts) ==
  /\ attempts =< p["attempts"]
  /\ status \in {"rate_limited", "timeout", "upstream_error"}

ShouldRetry(p, status, attempts) ==
  /\ attempts < p["attempts"]
  /\ status \in {"rate_limited", "timeout", "upstream_error"}

\* The base, doubled once per attempt and capped each time.
DoubledSlip(base, max, attempts) ==
  LET d[n \in 0..attempts] == IF n = 0 THEN base ELSE 2 * d[n - 1]
  IN  d[attempts]

Doubled(base, max, attempts) ==
  LET d[n \in 0..attempts] == IF n = 0 THEN base ELSE Smaller(2 * d[n - 1], max)
  IN  d[attempts]

\* x / y, as math.Round rounds it.
Rounded(x, y) == (2 * x + y) \div (2 * y)

\* applyDurationJitter: sample / Scale is what the source of chance gave.
Jittered(d, fraction, sample) ==
  IF d =< 0 \/ fraction =< 0 THEN d
  ELSE Rounded(d * (Scale * Scale + (2 * sample - Scale) * fraction), Scale * Scale)

Backoff(p, attempt, retryAfter, sample) ==
  IF retryAfter =< 0 /\ attempt = 0 THEN 0
  ELSE Jittered(Larger(Doubled(p["base"], p["max"], attempt), retryAfter),
                p["jitter"], sample)

Backoffs(p, attempt, retryAfter) ==
  {Backoff(p, attempt, retryAfter, sample) : sample \in 0..Scale}

----------------------------------------------------------------------------
(***************************************************************************)
(* timeouts.go.  A deadline of 0 is the budget without one.                *)
(***************************************************************************)
Remaining(deadline, t) == IF deadline = 0 THEN 0 ELSE Larger(deadline - t, 0)

PhaseTimeoutSlip(deadline, t, phase) ==
  IF phase =< 0 THEN 0 ELSE Larger(Remaining(deadline, t), phase)

\* 0: no timer is made.
PhaseTimeout(deadline, t, phase) ==
  IF phase =< 0 THEN 0 ELSE Smaller(Remaining(deadline, t), phase)

=============================================================================
