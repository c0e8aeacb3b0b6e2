--------------------------- MODULE ShutdownProof ----------------------------
(***************************************************************************)
(* First the drain on its own: for any finite set of handlers the in-flight*)
(* counter is exact, nothing streams after Wait has returned true, and the *)
(* atomics implement the gate of DrainGate.  Then main's sequence, for     *)
(* every grace period, window and timeout: it keeps the promises of the    *)
(* drain, flips the readiness before anybody is turned away, cuts no       *)
(* stream before the grace period is over, and is gone at most MaxShutdown *)
(* and MaxFlush after it.                                                  *)
(***************************************************************************)
EXTENDS Shutdown, FiniteSetTheorems, TLAPS

(***************************************************************************)
(* The inductive invariant.  DrainedIsFinal alone is not inductive: it     *)
(* needs to know that the flag is up once main waits, and that a handler   *)
(* which streams is counted, hence that main cannot have read 0.           *)
(***************************************************************************)
FlagUp == shutdown # "serving" => draining

IInv == TypeOK /\ CountExact /\ FlagUp /\ DrainedIsFinal

----------------------------------------------------------------------------
\* Counting handlers: what happens to the number of counted handlers when
\* one of them enters, leaves or keeps its place in the set.
LEMMA CountedFinite == IsFiniteSet(Counted) /\ Cardinality(Counted) \in Nat
<1>1. Counted \subseteq Streams
  BY DEF Counted
<1>2. IsFiniteSet(Counted)
  BY <1>1, StreamsAssumption, FS_Subset
<1> QED
  BY <1>2, FS_CardinalityType

\* One more member makes a finite set larger by one.
LEMMA CountMore ==
  ASSUME NEW s \in Streams, s \notin Counted, Counted' = Counted \union {s}
  PROVE  Cardinality(Counted)' = Cardinality(Counted) + 1
BY CountedFinite, FS_AddElement

\* One member less makes a finite set smaller by one.
LEMMA CountLess ==
  ASSUME NEW s \in Streams, s \in Counted, Counted' = Counted \ {s}
  PROVE  /\ Cardinality(Counted)' = Cardinality(Counted) - 1
         /\ Cardinality(Counted) > 0
<1>1. Cardinality(Counted)' = Cardinality(Counted) - 1
  BY CountedFinite, FS_RemoveElement
<1>2. Cardinality(Counted) # 0
  BY CountedFinite, FS_EmptySet
<1> QED
  BY <1>1, <1>2, CountedFinite

----------------------------------------------------------------------------
\* Before the first request the counter is 0 and nobody is inside.
LEMMA InitIInv == Init => IInv
<1> SUFFICES ASSUME Init PROVE IInv
  OBVIOUS
<1>1. Counted = {}
  BY DEF Init, Counted
<1>2. CountExact
  BY <1>1, FS_EmptySet DEF Init, CountExact
<1> QED
  BY <1>2 DEF Init, IInv, TypeOK, FlagUp, DrainedIsFinal, PCs, Phases

\* Each atomic operation of the drain keeps its invariant.
LEMMA NextIInv == IInv /\ [Next]_vars => IInv'
<1> SUFFICES ASSUME IInv, [Next]_vars PROVE IInv'
  OBVIOUS
<1> USE DEF IInv, TypeOK, PCs, Phases
<1>1. ASSUME NEW s \in Streams, LoadDraining(s) PROVE IInv'
  <2>1. Counted' = Counted
    BY <1>1 DEF LoadDraining, Goto, Counted
  <2>2. CountExact'
    BY <1>1, <2>1 DEF LoadDraining, CountExact
  <2> QED
    BY <1>1, <2>2 DEF LoadDraining, Goto, FlagUp, DrainedIsFinal
<1>2. ASSUME NEW s \in Streams, CountUp(s) PROVE IInv'
  <2>1. s \notin Counted /\ Counted' = Counted \union {s}
    BY <1>2 DEF CountUp, Goto, Counted
  <2>2. CountExact'
    BY <1>2, <2>1, CountMore DEF CountUp, CountExact
  <2> QED
    BY <1>2, <2>2 DEF CountUp, Goto, FlagUp, DrainedIsFinal
<1>3. ASSUME NEW s \in Streams, Recheck(s) PROVE IInv'
  <2>1. Counted' = Counted
    BY <1>3 DEF Recheck, Goto, Counted
  <2>2. CountExact'
    BY <1>3, <2>1 DEF Recheck, CountExact
  <2> QED
    BY <1>3, <2>2 DEF Recheck, Goto, FlagUp, DrainedIsFinal
<1>4. ASSUME NEW s \in Streams, BackOut(s) PROVE IInv'
  <2>1. s \in Counted /\ Counted' = Counted \ {s}
    BY <1>4 DEF BackOut, Goto, Counted
  <2>2. /\ Cardinality(Counted)' = inFlight - 1
        /\ inFlight > 0
    BY <2>1, CountLess DEF CountExact
  <2>3. CountExact' /\ inFlight' \in Nat
    BY <1>4, <2>2 DEF BackOut, CountExact
  <2> QED
    BY <1>4, <2>3 DEF BackOut, Goto, FlagUp, DrainedIsFinal
<1>5. ASSUME NEW s \in Streams, ReleaseStream(s) PROVE IInv'
  <2>1. s \in Counted /\ Counted' = Counted \ {s}
    BY <1>5 DEF ReleaseStream, Goto, Counted
  <2>2. /\ Cardinality(Counted)' = inFlight - 1
        /\ inFlight > 0
    BY <2>1, CountLess DEF CountExact
  <2>3. CountExact' /\ inFlight' \in Nat
    BY <1>5, <2>2 DEF ReleaseStream, CountExact
  <2> QED
    BY <1>5, <2>3 DEF ReleaseStream, Goto, FlagUp, DrainedIsFinal
<1>6. CASE StartDrain
  <2>1. Counted' = Counted
    BY <1>6 DEF StartDrain, Counted
  <2>2. CountExact'
    BY <1>6, <2>1 DEF StartDrain, CountExact
  <2> QED
    BY <1>6, <2>2 DEF StartDrain, FlagUp, DrainedIsFinal
<1>7. CASE PollInFlight
  <2>1. Counted' = Counted
    BY <1>7 DEF PollInFlight, Counted
  <2>2. CountExact'
    BY <1>7, <2>1 DEF PollInFlight, CountExact
  <2>3. Counted = {}
    BY <1>7, CountedFinite, FS_EmptySet DEF PollInFlight, CountExact
  <2>4. DrainedIsFinal'
    BY <1>7, <2>3 DEF PollInFlight, DrainedIsFinal, FlagUp, Counted
  <2> QED
    BY <1>7, <2>2, <2>4 DEF PollInFlight, FlagUp
<1>8. CASE WaitExpires
  <2>1. Counted' = Counted
    BY <1>8 DEF WaitExpires, Counted
  <2>2. CountExact'
    BY <1>8, <2>1 DEF WaitExpires, CountExact
  <2> QED
    BY <1>8, <2>2 DEF WaitExpires, FlagUp, DrainedIsFinal
<1>9. CASE UNCHANGED vars
  <2>1. Counted' = Counted
    BY <1>9 DEF vars, Counted
  <2>2. CountExact'
    BY <1>9, <2>1 DEF vars, CountExact
  <2> QED
    BY <1>9, <2>2 DEF vars, FlagUp, DrainedIsFinal
<1> QED
  BY <1>1, <1>2, <1>3, <1>4, <1>5, <1>6, <1>7, <1>8, <1>9 DEF Next, Acquire

\* The drain's invariant holds in every state of every run.
LEMMA Invariant == SafeSpec => []IInv
BY InitIInv, NextIInv, PTL DEF SafeSpec

----------------------------------------------------------------------------
(***************************************************************************)
(* The counter never goes negative, for any number of handlers.            *)
(***************************************************************************)
THEOREM CounterType == SafeSpec => []TypeOK
<1>1. IInv => TypeOK
  BY DEF IInv
<1> QED
  BY <1>1, Invariant, PTL

(***************************************************************************)
(* The counter is exact, for any number of handlers: Add(1) and Add(-1)    *)
(* are always paired.                                                      *)
(***************************************************************************)
THEOREM CountExactAlways == SafeSpec => []CountExact
<1>1. IInv => CountExact
  BY DEF IInv
<1> QED
  BY <1>1, Invariant, PTL

(***************************************************************************)
(* Nothing streams once Wait has returned true, for any number of          *)
(* handlers and any interleaving of TryAcquireStream with StartDrain.      *)
(***************************************************************************)
THEOREM DrainedIsFinalAlways == SafeSpec => []DrainedIsFinal
<1>1. IInv => DrainedIsFinal
  BY DEF IInv
<1> QED
  BY <1>1, Invariant, PTL

----------------------------------------------------------------------------
\* The drain starts as an open gate with nobody inside.
LEMMA InitGate == Init => Gate!Init
BY DEF Init, Gate!Init

\* A step of the drain is a step of the gate or hidden from it.
LEMMA NextGate == IInv /\ [Next]_vars => [Gate!Next]_(Gate!gateVars)
<1> DEFINE active == {s \in Streams : pc[s] = "streaming"}
<1> SUFFICES ASSUME IInv, [Next]_vars PROVE [Gate!Next]_(Gate!gateVars)
  OBVIOUS
<1>0. pc \in [Streams -> PCs]
  BY DEF IInv, TypeOK
<1>1. ASSUME NEW s \in Streams, LoadDraining(s) \/ CountUp(s) \/ BackOut(s)
      PROVE  UNCHANGED Gate!gateVars
  <2>1. active' = active
    BY <1>0, <1>1 DEF LoadDraining, CountUp, BackOut, Goto
  <2> QED
    BY <1>1, <2>1 DEF LoadDraining, CountUp, BackOut, Gate!gateVars
<1>2. ASSUME NEW s \in Streams, Recheck(s), draining PROVE UNCHANGED Gate!gateVars
  <2>1. active' = active
    BY <1>0, <1>2 DEF Recheck, Goto
  <2> QED
    BY <1>2, <2>1 DEF Recheck, Gate!gateVars
<1>3. ASSUME NEW s \in Streams, Recheck(s), ~draining PROVE Gate!Next
  <2>1. active' = active \union {s} /\ s \notin active
    BY <1>0, <1>3 DEF Recheck, Goto
  <2>2. Gate!Enter(s)
    BY <1>3, <2>1 DEF Recheck, Gate!Enter
  <2> QED
    BY <2>1, <2>2 DEF Gate!Next
<1>4. ASSUME NEW s \in Streams, ReleaseStream(s) PROVE Gate!Next
  <2>1. active' = active \ {s} /\ s \in active
    BY <1>0, <1>4 DEF ReleaseStream, Goto
  <2>2. Gate!Leave(s)
    BY <1>4, <2>1 DEF ReleaseStream, Gate!Leave
  <2> QED
    BY <2>1, <2>2 DEF Gate!Next
<1>5. CASE StartDrain
  BY <1>5 DEF StartDrain, Gate!Next, Gate!CloseGate
<1>6. CASE PollInFlight
  <2>1. Counted = {}
    BY <1>6, CountedFinite, FS_EmptySet DEF PollInFlight, IInv, CountExact
  <2>2. active = {}
    BY <2>1 DEF Counted
  <2> QED
    BY <1>6, <2>2 DEF PollInFlight, Gate!Next, Gate!Finish
<1>7. CASE WaitExpires
  BY <1>7 DEF WaitExpires, Gate!Next, Gate!GiveUp
<1>8. CASE UNCHANGED vars
  BY <1>8 DEF vars, Gate!gateVars
<1> QED
  BY <1>1, <1>2, <1>3, <1>4, <1>5, <1>6, <1>7, <1>8 DEF Next, Acquire

(***************************************************************************)
(* The lock-free drain implements the gate of DrainGate, for any number of *)
(* handlers: a handler enters at its second load of the flag, which is     *)
(* after it counted itself.                                                *)
(***************************************************************************)
THEOREM DrainImplementsGate == SafeSpec => ImplementsGate
BY Invariant, InitGate, NextGate, PTL DEF SafeSpec, ImplementsGate, Gate!Safe

----------------------------------------------------------------------------
(***************************************************************************)
(* Main's sequence.                                                        *)
(***************************************************************************)

\* A step of the shutdown is a step of the drain or leaves the drain alone.
LEMMA DrainStep == [ShutdownNext]_shutdownVars => [Next]_vars
<1> SUFFICES ASSUME ShutdownNext PROVE [Next]_vars
  BY DEF shutdownVars, vars
<1>1. ASSUME Streaming PROVE Next
  BY <1>1 DEF Streaming, Next
<1>2. ASSUME NEW h \in Singles, SingleStarts(h) \/ SingleEnds(h) PROVE UNCHANGED vars
  BY <1>2 DEF SingleStarts, SingleEnds, SingleStep
<1>3. ASSUME DrainStarts \/ Drained \/ DrainExpires PROVE Next
  BY <1>3 DEF DrainStarts, Drained, DrainExpires, Next
<1>4. ASSUME Signal \/ WindowOver \/ StopsCleanly \/ StopExpires \/ Exit \/ Tick
      PROVE  UNCHANGED vars
  BY <1>4 DEF Signal, WindowOver, StopsCleanly, StopExpires, Exit, Tick
<1> QED
  BY <1>1, <1>2, <1>3, <1>4 DEF ShutdownNext, MainNext

(***************************************************************************)
(* What is proved of the drain on its own holds under main's sequence.     *)
(***************************************************************************)
THEOREM ShutdownDrains == ShutdownSafeSpec => SafeSpec
BY DrainStep, PTL DEF ShutdownSafeSpec, SafeSpec, ShutdownInit

----------------------------------------------------------------------------
(***************************************************************************)
(* The inductive invariant: which phase of the drain belongs to which      *)
(* place in main, who may be turned away, and how late it may be where.    *)
(* Timing is where the promptness of main's timers comes in: the clock     *)
(* cannot pass Grace while main waits or sits out the window, because the  *)
(* window is not longer than the grace period.                             *)
(***************************************************************************)
Sequence ==
  /\ main = "serving" <=> ~unready
  /\ main \in {"serving", "signalled"} => shutdown = "serving" /\ ~draining
  /\ shutdown = "forced" => elapsed >= Grace

Refusals ==
  /\ \A s \in Streams : pc[s] \in {"backing_out", "refused"} => draining
  /\ \A h \in Singles : single[h] = "refused" => draining

Timing ==
  /\ main \in {"serving", "signalled"} => elapsed = 0
  /\ main \in {"draining", "window"} => elapsed =< Grace
  /\ main = "stopping" => elapsed =< stopBy
  /\ stopBy =< Grace + MaxShutdown
  /\ main = "flushing" => elapsed =< flushBy
  /\ flushBy =< Grace + MaxShutdown + MaxFlush
  /\ main = "exited" => elapsed =< Grace + MaxShutdown + MaxFlush

SInv == ShutdownTypeOK /\ IInv /\ Sequence /\ Refusals /\ Timing

\* The sequence starts ready and serving.
LEMMA InitSInv == ShutdownInit => SInv
<1> SUFFICES ASSUME ShutdownInit PROVE SInv
  OBVIOUS
<1>1. IInv
  BY InitIInv DEF ShutdownInit
<1>2. ShutdownTypeOK
  BY <1>1 DEF ShutdownInit, Init, ShutdownTypeOK, IInv
<1>3. Refusals
  BY DEF ShutdownInit, Init, Refusals
<1>4. Sequence /\ Timing
  BY ShutdownAssumption DEF ShutdownInit, Init, Sequence, Timing
<1> QED
  BY <1>1, <1>2, <1>3, <1>4 DEF SInv

\* A step of the handlers that carry streams.
LEMMA StreamingSInv == SInv /\ Streaming => SInv'
<1> SUFFICES ASSUME SInv, Streaming PROVE SInv'
  OBVIOUS
<1> USE DEF SInv
<1>1. IInv'
  BY NextIInv DEF Streaming, Next
<1>2. UNCHANGED <<mainVars, elapsed, single, draining, shutdown>>
  BY DEF Streaming, Acquire, LoadDraining, CountUp, Recheck, BackOut, ReleaseStream
<1>3. \A t \in Streams : pc'[t] \in {"backing_out", "refused"} => draining
  BY DEF Streaming, Acquire, LoadDraining, CountUp, Recheck, BackOut, ReleaseStream,
     Goto, Refusals, IInv, TypeOK
<1>4. ShutdownTypeOK' /\ Sequence' /\ Timing'
  BY <1>1, <1>2 DEF mainVars, IInv, ShutdownTypeOK, Sequence, Timing
<1>5. Refusals'
  BY <1>2, <1>3 DEF Refusals
<1> QED
  BY <1>1, <1>4, <1>5

\* A step of the handlers that carry no streams.
LEMMA SingleSInv == ASSUME SInv, NEW h \in Singles, SingleStarts(h) \/ SingleEnds(h)
                    PROVE  SInv'
<1> USE DEF SInv
<1>1. IInv'
  BY NextIInv DEF SingleStarts, SingleEnds, SingleStep
<1>2. UNCHANGED <<mainVars, elapsed, vars>>
  BY DEF SingleStarts, SingleEnds, SingleStep
<1>3. /\ single' \in [Singles -> {"idle", "running", "refused"}]
      /\ \A g \in Singles : single'[g] = "refused" => draining
  BY DEF SingleStarts, SingleEnds, SingleStep, ShutdownTypeOK, Refusals
<1> QED
  BY <1>1, <1>2, <1>3
  DEF mainVars, vars, IInv, ShutdownTypeOK, Sequence, Refusals, Timing

\* Each step of main, of a handler and of the clock keeps the sequence.
LEMMA NextSInv == SInv /\ [ShutdownNext]_shutdownVars => SInv'
<1> SUFFICES ASSUME SInv, [ShutdownNext]_shutdownVars PROVE SInv'
  OBVIOUS
<1>0. IInv' /\ TypeOK'
  BY DrainStep, NextIInv DEF SInv, IInv
<1> USE <1>0, ShutdownAssumption
    DEF SInv, ShutdownTypeOK, Sequence, Refusals, Timing, MainStep, vars, mainVars
<1>1. CASE Signal
  BY <1>1 DEF Signal
<1>2. CASE DrainStarts
  BY <1>2 DEF DrainStarts, StartDrain
<1>3. CASE Drained
  BY <1>3 DEF Drained, PollInFlight
<1>4. CASE DrainExpires
  BY <1>4 DEF DrainExpires, WaitExpires
<1>5. CASE WindowOver
  BY <1>5 DEF WindowOver, ShutdownTimeout
<1>6. CASE StopsCleanly
  BY <1>6 DEF StopsCleanly
<1>7. CASE StopExpires
  <2>1. Busy \subseteq Streams \union Singles
    BY DEF Busy
  <2> QED
    BY <1>7, <2>1 DEF StopExpires
<1>8. CASE Exit
  BY <1>8 DEF Exit
<1>9. CASE Tick
  BY <1>9 DEF Tick, MainIsDue
<1>10. CASE UNCHANGED shutdownVars
  BY <1>10 DEF shutdownVars
<1> QED
  BY <1>1, <1>2, <1>3, <1>4, <1>5, <1>6, <1>7, <1>8, <1>9, <1>10, StreamingSInv, SingleSInv
  DEF ShutdownNext, MainNext

\* The invariant of the shutdown holds in every state of every run.
LEMMA ShutdownInvariant == ShutdownSafeSpec => []SInv
BY InitSInv, NextSInv, PTL DEF ShutdownSafeSpec

----------------------------------------------------------------------------
(***************************************************************************)
(* Types, and where main is when Wait has answered and when it cuts.       *)
(***************************************************************************)
THEOREM ShutdownTypes == ShutdownSafeSpec => []ShutdownTypeOK
<1>1. SInv => ShutdownTypeOK
  BY DEF SInv
<1> QED
  BY <1>1, ShutdownInvariant, PTL

(***************************************************************************)
(* /readyz answers 503 before the first request is turned away.            *)
(***************************************************************************)
THEOREM UnreadyFirst == ShutdownSafeSpec => []UnreadyBeforeRefusing
<1>1. SInv => UnreadyBeforeRefusing
  BY DEF SInv, ShutdownTypeOK, Sequence, Refusals, UnreadyBeforeRefusing
<1> QED
  BY <1>1, ShutdownInvariant, PTL

(***************************************************************************)
(* No stream is cut before the grace period is over: if Wait answered that *)
(* the streams are drained there is none to cut (DrainedIsFinal), and if   *)
(* it gave up, the period was over.                                        *)
(***************************************************************************)
THEOREM GraceIsGiven == ShutdownSafeSpec => []NoStreamCutEarly
<1>1. SInv => NoStreamCutEarly
  <2> SUFFICES ASSUME SInv, NEW s \in Streams, s \in cut, pc[s] = "streaming"
               PROVE  elapsed >= Grace
    BY DEF NoStreamCutEarly
  <2>1. shutdown \in {"drained", "forced"}
    BY DEF SInv, ShutdownTypeOK
  <2>2. shutdown # "drained"
    BY DEF SInv, IInv, DrainedIsFinal
  <2> QED
    BY <2>1, <2>2 DEF SInv, Sequence
<1> QED
  BY <1>1, ShutdownInvariant, PTL

(***************************************************************************)
(* The process never outlives the grace period by more than the timeouts   *)
(* of server.Shutdown and of its deferred shutdownTracing.                 *)
(***************************************************************************)
THEOREM ExitsInTime == ShutdownSafeSpec => []ExitInTime
<1>1. SInv => ExitInTime
  BY ShutdownAssumption DEF SInv, ShutdownTypeOK, Timing, ExitInTime
<1> QED
  BY <1>1, ShutdownInvariant, PTL

=============================================================================
