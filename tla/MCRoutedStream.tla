--------------------------- MODULE MCRoutedStream ---------------------------
(* Requests through two backends.                                          *)
EXTENDS RoutedStream, TLC

CONSTANTS r1, r2

\* In the order of the package's defaults: a retry, a first backoff below the cap.
MCDefault ==
  [total |-> 1, ttft |-> 1, idle |-> 1, attempts |-> 2, base |-> 1, max |-> 2,
   jitter |-> 1, fails |-> 1, window |-> 1, rate |-> 1, probe |-> 1]

\* A file that leaves everything to the defaults but has no jitter.
Plain == [f \in Fields |-> 0]
NoOverrides == [b \in Backends |-> [f \in Fields |-> Unset]]

\* Three attempts that wait with jitter; the second backend gives up sooner, has a
\* shorter total timeout and all of its backoff at the mercy of jitter.
Generous == [Plain EXCEPT !["total"] = 3, !["attempts"] = 3, !["jitter"] = 2]
Impatient ==
  [NoOverrides EXCEPT ![2] = [@ EXCEPT !["total"] = 2, !["attempts"] = 2, !["jitter"] = 4]]

\* The second backend allows one attempt: an attempt that is retried is one on the
\* first.
OneAttempt == [NoOverrides EXCEPT ![2] = [@ EXCEPT !["attempts"] = 1]]

Longer == [Plain EXCEPT !["total"] = 2]

MCRequests == {r1, r2}
Symmetry == Permutations(MCRequests)

=============================================================================
