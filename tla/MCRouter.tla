------------------------------ MODULE MCRouter ------------------------------
(* The router on its own, shared by the runs on it: two requests on two    *)
(* backends, of which the second is the preferred one.                     *)
EXTENDS Router

CONSTANTS r1, r2

\* The VIEW of the run with thresholds of one, where a failure opens a closed breaker
\* whatever came before it: its window and its counter change nothing that follows.
\* openedAt is history, which no action and no property of that run reads.
WhatMatters ==
  << now, stats, req,
     [b \in Backends |->
        [breakers[b] EXCEPT !.recent = <<>>, !.consecutiveFails = 0]] >>

=============================================================================
