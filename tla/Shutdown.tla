------------------------------ MODULE Shutdown ------------------------------
(***************************************************************************)
(* The end of the process: main's sequence after SIGTERM or SIGINT, put    *)
(* around DrainState.  A streamed request is a handler of DrainState; a    *)
(* request that is not streamed only looks at the flag when it comes in    *)
(* and is not counted.  Both may go on for ever.  Behind the sequence come *)
(* main's deferred calls: the backends' clients are closed, which waits    *)
(* for nothing, and tracing is shut down, which sends the spans it still   *)
(* holds under a timeout of its own.                                       *)
(*                                                                         *)
(* elapsed counts the time since the signal.  main's own timers are taken  *)
(* to be prompt: the clock does not pass an instant main waits for.        *)
(***************************************************************************)
EXTENDS DrainState

CONSTANTS Singles,      \* the handlers of requests that are not streamed
          Grace,        \* server_shutdown_grace_seconds
          MinWindow,    \* minDrainWindow
          MaxShutdown,  \* shutdownTimeout
          MaxFlush      \* the timeout of shutdownTracing

\* Validation asks for at least a second of grace, which is the window.
ASSUME ShutdownAssumption ==
  /\ IsFiniteSet(Singles) /\ Singles \intersect Streams = {}
  /\ Grace \in Nat /\ MinWindow \in 1..Grace /\ MaxShutdown \in Nat \ {0}
  /\ MaxFlush \in Nat

VARIABLES
  unready,  \* RuntimeState.draining: /readyz answers 503
  main,     \* "serving", "signalled", "draining" (in Wait), "window",
            \* "stopping" (in server.Shutdown), "flushing" (in
            \* shutdownTracing), "exited"
  elapsed,
  stopBy,   \* the deadline of server.Shutdown
  flushBy,  \* the deadline of shutdownTracing
  single,   \* of each request that is not streamed: "idle", "running", "refused"
  cut       \* the requests that server.Close cuts off

mainVars == <<unready, main, stopBy, flushBy, cut>>
shutdownVars == <<vars, mainVars, elapsed, single>>

ShutdownInit ==
  /\ Init
  /\ unready = FALSE /\ main = "serving"
  /\ elapsed = 0 /\ stopBy = 0 /\ flushBy = 0
  /\ single = [h \in Singles |-> "idle"]
  /\ cut = {}

----------------------------------------------------------------------------
(***************************************************************************)
(* The handlers.                                                           *)
(***************************************************************************)
Streaming ==
  /\ main # "exited"
  /\ \E s \in Streams : Acquire(s) \/ ReleaseStream(s)
  /\ UNCHANGED <<mainVars, elapsed, single>>

SingleStep(h, from, to) ==
  /\ main # "exited"
  /\ single[h] = from
  /\ single' = [single EXCEPT ![h] = to]
  /\ UNCHANGED <<vars, mainVars, elapsed>>

SingleStarts(h) == SingleStep(h, "idle", IF draining THEN "refused" ELSE "running")

SingleEnds(h) == SingleStep(h, "running", "idle")

Busy ==
  {s \in Streams : pc[s] \notin {"idle", "refused"}} \union
  {h \in Singles : single[h] = "running"}

----------------------------------------------------------------------------
(***************************************************************************)
(* main.                                                                   *)
(***************************************************************************)
MainStep(from, to) ==
  /\ main = from /\ main' = to
  /\ UNCHANGED <<elapsed, single>>

\* runtime.StartDrain; the drain deadline is Grace from here.
SignalSlip ==
  /\ MainStep("serving", "signalled")
  /\ UNCHANGED <<vars, unready, stopBy, flushBy, cut>>

Signal ==
  /\ MainStep("serving", "signalled")
  /\ unready' = TRUE
  /\ UNCHANGED <<vars, stopBy, flushBy, cut>>

DrainStarts ==
  /\ MainStep("signalled", "draining")
  /\ StartDrain
  /\ UNCHANGED <<unready, stopBy, flushBy, cut>>

DrainedSlip ==
  /\ MainStep("draining", "window")
  /\ UNCHANGED <<vars, unready, stopBy, flushBy, cut>>

Drained ==
  /\ MainStep("draining", "window")
  /\ PollInFlight
  /\ UNCHANGED <<unready, stopBy, flushBy, cut>>

DrainExpiresSlip ==
  /\ elapsed >= MinWindow
  /\ MainStep("draining", "window")
  /\ WaitExpires
  /\ UNCHANGED <<unready, stopBy, flushBy, cut>>

DrainExpires ==
  /\ elapsed >= Grace
  /\ MainStep("draining", "window")
  /\ WaitExpires
  /\ UNCHANGED <<unready, stopBy, flushBy, cut>>

ShutdownTimeoutSlip ==
  IF Grace - elapsed \in 1..MaxShutdown THEN Grace - elapsed ELSE Grace

\* What is left of the grace period, but not more than MaxShutdown; all of
\* MaxShutdown when nothing is left.
ShutdownTimeout ==
  IF Grace - elapsed \in 1..MaxShutdown THEN Grace - elapsed ELSE MaxShutdown

WindowOver ==
  /\ elapsed >= MinWindow
  /\ MainStep("window", "stopping")
  /\ stopBy' = elapsed + ShutdownTimeout
  /\ UNCHANGED <<vars, unready, flushBy, cut>>

\* server.Shutdown returns when every connection is idle.
StopsCleanly ==
  /\ Busy = {}
  /\ MainStep("stopping", "flushing")
  /\ flushBy' = elapsed + MaxFlush
  /\ UNCHANGED <<vars, unready, stopBy, cut>>

StopExpiresSlip ==
  /\ elapsed >= stopBy /\ Busy = {}
  /\ MainStep("stopping", "flushing")
  /\ flushBy' = elapsed + MaxFlush
  /\ UNCHANGED <<vars, unready, stopBy, cut>>

\* server.Close closes every connection; their handlers may still run.
StopExpires ==
  /\ elapsed >= stopBy
  /\ MainStep("stopping", "flushing")
  /\ flushBy' = elapsed + MaxFlush
  /\ cut' = Busy
  /\ UNCHANGED <<vars, unready, stopBy>>

\* shutdownTracing returns: its spans are sent, its context has ended, or
\* no exporter is configured.  main returns.
Exit ==
  /\ MainStep("flushing", "exited")
  /\ UNCHANGED <<vars, unready, stopBy, flushBy, cut>>

\* main does not wait: between two of its calls, or at a timer that is due.
MainIsDue ==
  \/ main = "signalled"
  \/ main = "draining" /\ elapsed >= Grace
  \/ main = "window" /\ elapsed >= MinWindow
  \/ main = "stopping" /\ elapsed >= stopBy
  \/ main = "flushing" /\ elapsed >= flushBy

Tick ==
  /\ main \notin {"serving", "exited"} /\ ~MainIsDue
  /\ elapsed' = elapsed + 1
  /\ UNCHANGED <<vars, mainVars, single>>

----------------------------------------------------------------------------
MainNext ==
  \/ DrainStarts \/ Drained \/ DrainExpires \/ WindowOver \/ StopsCleanly \/ StopExpires
  \/ Exit

ShutdownNext ==
  \/ Streaming
  \/ \E h \in Singles : SingleStarts(h) \/ SingleEnds(h)
  \/ Signal
  \/ MainNext
  \/ Tick

ShutdownSafeSpec == ShutdownInit /\ [][ShutdownNext]_shutdownVars

\* Time passes and main runs.  No request is taken to end.
ShutdownSpec ==
  /\ ShutdownSafeSpec
  /\ WF_shutdownVars(MainNext) /\ WF_shutdownVars(Tick)

----------------------------------------------------------------------------
(***************************************************************************)
(* Types, the drain's among them; Wait has an answer exactly when main has *)
(* gone past it, and only server.Close cuts.                               *)
(***************************************************************************)
ShutdownTypeOK ==
  /\ TypeOK
  /\ unready \in BOOLEAN
  /\ main \in {"serving", "signalled", "draining", "window", "stopping", "flushing", "exited"}
  /\ elapsed \in Nat /\ stopBy \in Nat /\ flushBy \in Nat
  /\ single \in [Singles -> {"idle", "running", "refused"}]
  /\ cut \subseteq Streams \union Singles
  /\ main \in {"window", "stopping", "flushing", "exited"} <=> shutdown \in {"drained", "forced"}
  /\ cut # {} => main \in {"flushing", "exited"}

(***************************************************************************)
(* Nobody is turned away while /readyz still sends traffic here: the       *)
(* readiness flips before the drain starts.                                *)
(***************************************************************************)
UnreadyBeforeRefusing ==
  (\E s \in Streams : pc[s] = "refused") \/ (\E h \in Singles : single[h] = "refused")
    => unready

(***************************************************************************)
(* A stream that a handler was let in for is cut only when the whole grace *)
(* period has passed (docs/SIDECAR.md:73), however early Wait returned.    *)
(***************************************************************************)
NoStreamCutEarly ==
  (\E s \in Streams : s \in cut /\ pc[s] = "streaming") => elapsed >= Grace

(***************************************************************************)
(* The process is gone when the grace period, the timeout of               *)
(* server.Shutdown and that of shutdownTracing are over, whatever its      *)
(* requests and the collector of its spans do.  A supervisor must leave it *)
(* that long: ten seconds more than the grace period.                      *)
(***************************************************************************)
ExitInTime == elapsed =< Grace + MaxShutdown + MaxFlush

(***************************************************************************)
(* And it does exit.                                                       *)
(***************************************************************************)
ShutdownEnds == main = "signalled" ~> main = "exited"

=============================================================================
