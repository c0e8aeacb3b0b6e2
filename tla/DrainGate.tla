----------------------------- MODULE DrainGate -----------------------------
(***************************************************************************)
(* What the drain bookkeeping promises, without counters or flags: a gate  *)
(* that streams pass while it is open, and that shutdown closes once.      *)
(* After the server has called itself drained no stream is in progress and *)
(* none will ever start.  DrainState implements this.                      *)
(***************************************************************************)
CONSTANT Streams

VARIABLES open,    \* may streams still enter?
          active,  \* the streams in progress
          phase    \* of the shutdown

gateVars == <<open, active, phase>>

Init ==
  /\ open = TRUE
  /\ active = {}
  /\ phase = "serving"

Enter(s) ==
  /\ open
  /\ active' = active \union {s}
  /\ UNCHANGED <<open, phase>>

Leave(s) ==
  /\ active' = active \ {s}
  /\ UNCHANGED <<open, phase>>

CloseGate ==
  /\ phase = "serving"
  /\ open' = FALSE
  /\ phase' = "draining"
  /\ UNCHANGED active

Finish ==
  /\ phase = "draining"
  /\ active = {}
  /\ phase' = "drained"
  /\ UNCHANGED <<open, active>>

GiveUp ==
  /\ phase = "draining"
  /\ phase' = "forced"
  /\ UNCHANGED <<open, active>>

Next ==
  \/ \E s \in Streams \ active : Enter(s)
  \/ \E s \in active : Leave(s)
  \/ CloseGate
  \/ Finish
  \/ GiveUp

Safe == Init /\ [][Next]_gateVars

=============================================================================
