--------------------------- MODULE StreamContract ---------------------------
(***************************************************************************)
(* What a routed stream promises its client, without goroutines, channels  *)
(* or contexts: the tokens the upstream sends arrive one by one, in order  *)
(* and without a gap, until one outcome ends the stream; the outcome is    *)
(* "ok" only if the upstream finished and the client has every token.      *)
(* A lenient stream may also end as "ok" before that.                      *)
(* Pipe implements this.                                                   *)
(***************************************************************************)
EXTENDS Integers

CONSTANT Failures  \* the outcomes other than "ok"

VARIABLES sent,      \* tokens the upstream has sent
          upstream,  \* "open", "whole" once it has finished, "broken"
          received,  \* tokens the client has received: the first ones sent
          outcome,   \* "none" while the stream goes on
          lenient    \* may the stream be cut and called "ok"?

contractVars == <<sent, upstream, received, outcome, lenient>>

Init ==
  /\ sent = 0 /\ received = 0
  /\ upstream = "open"
  /\ outcome = "none"
  /\ lenient \in BOOLEAN

\* The upstream does not know what has become of the client.
Send ==
  /\ upstream = "open"
  /\ sent' = sent + 1
  /\ upstream' \in {"open", "whole"}
  /\ UNCHANGED <<received, outcome, lenient>>

Finish ==
  /\ upstream = "open"
  /\ upstream' \in {"whole", "broken"}
  /\ UNCHANGED <<sent, received, outcome, lenient>>

Deliver ==
  /\ outcome = "none"
  /\ received < sent
  /\ received' = received + 1
  /\ UNCHANGED <<sent, upstream, outcome, lenient>>

Fail ==
  /\ outcome = "none"
  /\ outcome' \in Failures
  /\ UNCHANGED <<sent, upstream, received, lenient>>

\* A client that asked for the whole text at once gets it here.
Complete ==
  /\ outcome = "none"
  /\ upstream = "whole"
  /\ outcome' = "ok"
  /\ received' = sent
  /\ UNCHANGED <<sent, upstream, lenient>>

CompleteCut ==
  /\ outcome = "none" /\ lenient
  /\ outcome' = "ok"
  /\ received' \in received..sent
  /\ UNCHANGED <<sent, upstream, lenient>>

Next == Send \/ Finish \/ Deliver \/ Fail \/ Complete \/ CompleteCut

Safe == Init /\ [][Next]_contractVars

=============================================================================
