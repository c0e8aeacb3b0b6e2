---------------------------- MODULE MCRetryAfter ----------------------------
(* Two requests that fail on the same backend, one with a Retry-After      *)
(* longer than the configured cooldown.                                    *)
EXTENDS RetryAfter

CONSTANTS r1, r2

MCRequests == {r1, r2}

=============================================================================
