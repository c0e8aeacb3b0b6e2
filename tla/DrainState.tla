---------------------------- MODULE DrainState -----------------------------
(***************************************************************************)
(* lifecycle.DrainState and its callers: the streaming handlers, which     *)
(* acquire and release a place, and main, which starts the drain and polls *)
(* for its end.  The type is lock-free, so every atomic load, store and    *)
(* add is a step of its own.  Shutdown has the rest of main.               *)
(*                                                                         *)
(* A handler between two atomics is at                                     *)
(*   "idle"        before TryAcquireStream,                                *)
(*   "checked"     after the first load said the server is not draining,   *)
(*   "counted"     after inFlight.Add(1),                                  *)
(*   "backing_out" after the second load said the server is draining,      *)
(*   "streaming"   between TryAcquireStream's true and ReleaseStream,      *)
(*   "refused"     after TryAcquireStream's false.                         *)
(***************************************************************************)
EXTENDS Integers, FiniteSets

CONSTANT Streams  \* the handler goroutines; each serves any number of requests

ASSUME StreamsAssumption == IsFiniteSet(Streams)

VARIABLES draining,
          inFlight,
          pc,           \* of each handler
          shutdown      \* of main

vars == <<draining, inFlight, pc, shutdown>>

PCs == {"idle", "checked", "counted", "backing_out", "streaming", "refused"}
Phases == {"serving", "waiting", "drained", "forced"}

Init ==
  /\ draining = FALSE
  /\ inFlight = 0
  /\ pc = [s \in Streams |-> "idle"]
  /\ shutdown = "serving"

Goto(s, from, to) ==
  /\ pc[s] = from
  /\ pc' = [pc EXCEPT ![s] = to]

----------------------------------------------------------------------------
(***************************************************************************)
(* TryAcquireStream and ReleaseStream.                                     *)
(***************************************************************************)
LoadDraining(s) ==
  /\ Goto(s, "idle", IF draining THEN "refused" ELSE "checked")
  /\ UNCHANGED <<draining, inFlight, shutdown>>

CountUpSlip(s) ==
  /\ Goto(s, "checked", "streaming")
  /\ inFlight' = inFlight + 1
  /\ UNCHANGED <<draining, shutdown>>

CountUp(s) ==
  /\ Goto(s, "checked", "counted")
  /\ inFlight' = inFlight + 1
  /\ UNCHANGED <<draining, shutdown>>

RecheckSlip(s) ==
  /\ Goto(s, "counted", IF draining THEN "refused" ELSE "streaming")
  /\ UNCHANGED <<draining, inFlight, shutdown>>

Recheck(s) ==
  /\ Goto(s, "counted", IF draining THEN "backing_out" ELSE "streaming")
  /\ UNCHANGED <<draining, inFlight, shutdown>>

BackOut(s) ==
  /\ Goto(s, "backing_out", "refused")
  /\ inFlight' = inFlight - 1
  /\ UNCHANGED <<draining, shutdown>>

\* The clamp is a store of its own in the code.  CountExact shows that the
\* counter is positive here, so the store never happens.
ReleaseStream(s) ==
  /\ Goto(s, "streaming", "idle")
  /\ inFlight' = IF inFlight - 1 < 0 THEN 0 ELSE inFlight - 1
  /\ UNCHANGED <<draining, shutdown>>

----------------------------------------------------------------------------
(***************************************************************************)
(* main: StartDrain raises the flag (the deadline it stores first is only  *)
(* reported, never acted on); Wait looks at the counter now and at every   *)
(* tick until it reads 0 or its context ends.                              *)
(***************************************************************************)
StartDrainSlip ==
  /\ shutdown = "serving"
  /\ shutdown' = "waiting"
  /\ UNCHANGED <<draining, inFlight, pc>>

StartDrain ==
  /\ shutdown = "serving"
  /\ draining' = TRUE
  /\ shutdown' = "waiting"
  /\ UNCHANGED <<inFlight, pc>>

PollInFlight ==
  /\ shutdown = "waiting"
  /\ inFlight = 0
  /\ shutdown' = "drained"
  /\ UNCHANGED <<draining, inFlight, pc>>

WaitExpires ==
  /\ shutdown = "waiting"
  /\ shutdown' = "forced"
  /\ UNCHANGED <<draining, inFlight, pc>>

----------------------------------------------------------------------------
Acquire(s) == LoadDraining(s) \/ CountUp(s) \/ Recheck(s) \/ BackOut(s)

Next ==
  \/ \E s \in Streams : Acquire(s) \/ ReleaseStream(s)
  \/ StartDrain
  \/ PollInFlight
  \/ WaitExpires

SafeSpec == Init /\ [][Next]_vars

----------------------------------------------------------------------------
(***************************************************************************)
(* The counter is a count: never negative, whatever the handlers and the   *)
(* shutdown interleave (TryAcquireStream's decrement is not clamped).      *)
(***************************************************************************)
TypeOK ==
  /\ draining \in BOOLEAN
  /\ inFlight \in Nat
  /\ pc \in [Streams -> PCs]
  /\ shutdown \in Phases

Counted == {s \in Streams : pc[s] \in {"counted", "backing_out", "streaming"}}

(***************************************************************************)
(* inFlight is exactly the number of handlers past Add(1) that have not    *)
(* decremented yet: no path through TryAcquireStream and ReleaseStream     *)
(* loses or repeats a count, and the clamp in ReleaseStream never hides    *)
(* one.                                                                    *)
(***************************************************************************)
CountExact == inFlight = Cardinality(Counted)

(***************************************************************************)
(* When Wait has returned true no stream is in progress, and the flag that *)
(* turns every later TryAcquireStream away is up.  A handler may have read *)
(* the flag before StartDrain and counted itself after Wait read 0: the    *)
(* second load is what keeps it out.                                       *)
(***************************************************************************)
DrainedIsFinal ==
  shutdown = "drained" => draining /\ \A s \in Streams : pc[s] # "streaming"

(***************************************************************************)
(* The atomics implement the gate: a handler enters at its second load.    *)
(***************************************************************************)
Gate == INSTANCE DrainGate WITH
  open   <- ~draining,
  active <- {s \in Streams : pc[s] = "streaming"},
  phase  <- IF shutdown = "waiting" THEN "draining" ELSE shutdown

ImplementsGate == Gate!Safe

=============================================================================
