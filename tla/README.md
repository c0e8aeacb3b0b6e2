# CloudInfer in TLA+

CloudInfer is an HTTP gateway in front of several LLM backends. A request is
routed to a backend by measured latency and by circuit breakers, is retried on
another backend as long as no token has reached the client, and is streamed
under three timeouts; on SIGTERM the process drains its streams before it stops.
This directory holds TLA+ models of that logic, translated from the Go source
under `src/`, the TLC runs that check them, and TLAPS proofs.

## 1. Inventory

| Part | Source | State | Operations | Modelled |
|---|---|---|---|---|
| circuit breaker | `internal/routing/breaker.go` | per backend: state, `openUntil`, consecutive failures, sliding window, probe flag, instant of the last probe | `Snapshot`, `TryAcquireProbe`, `Observe` | yes |
| statistics | `internal/routing/stats.go` | per backend: EWMA of the time to first token, samples, `cooldownUntil`, totals | `Observe`, `Snapshot`, `CooldownDuration` | what routing reads |
| router | `internal/routing/router.go` | the breakers and the statistics | `Choose`, `Explain`, `ObserveWithCooldownResult`, `BreakerSnapshot` | partly |
| retry and timeout policies | `internal/routing/retry.go`, `timeouts.go` | none | `ShouldRetry`, `Backoff`, `PhaseTimeout`, `Normalize` | yes |
| attempt loop | `internal/api/routed_stream.go` | locals of a request goroutine, its contexts and timers | `executionContextForRequest`, `prepareBackendStream`, `waitForFirstToken`, `waitForNextStreamEvent`, `waitForRetryBackoff` | partly |
| chat endpoint | `internal/api/openai_chat.go` | locals of a handler | admit, stream, report | partly |
| responses endpoint | `internal/api/handlers_responses.go` | locals of a handler | stream or collect | partly |
| stream wrapper | `internal/backends/wrap/wrap.go` | a goroutine and two channels | `StreamText` | yes |
| provider adapters | `internal/adapters/{openai,vertex}` | a producer goroutine and its channel | `Generate`, `Recv`, `Close` | all but the building of requests |
| drain state | `internal/lifecycle/drain.go` | three atomics | `TryAcquireStream`, `ReleaseStream`, `StartDrain`, `Wait` | yes |
| process start and stop | `cmd/cloudinfer/main.go`, `internal/api/runtime.go`, `handlers.go` | readiness flags, HTTP server | start of the backends, shutdown sequence, `/readyz` | partly |
| configuration | `internal/config` | none after start | defaults, legacy form, overrides, validation | what backends and routing need |
| metrics, telemetry, tracing, debug pages | `internal/metrics`, `internal/telemetry`, `internal/otel`, `internal/http`, `internal/api/debug.go` | counters, rings | output | no: nothing in the control flow reads them (except that a debug page's look at a breaker can move it, see `Inspect`, and that the exit waits for the exporter of traces, see Shutdown) |
| legacy backends, event types, deployment, codelab | `internal/backends/{openai,vertex}`, `internal/openai`, `deploy`, `smoke`, `codelab` | | | no |

How the parts interact. One goroutine per request calls the router (a plain
method call; the router locks per backend, never over a whole decision), starts
the backend's stream (two channels that a goroutine of the wrapper feeds from a
goroutine of the adapter), waits on the channels, its context and a timer in one
`select`, and reports how the attempt ended to the router. The router's breakers
and statistics are the only state requests share; a decision and its report are
connected by nothing but the caller's discipline. The drain state is shared by
the handlers and `main`.

What is hard here, part by part, and the property that captures it:

* *Breaker.* Results come late: a success or failure of a request sent before the
  breaker opened arrives while it is open, half open or in a later episode.
  Instants come late too: `choose` passes the time it read before it scanned, and a
  report evaluates `time.Now()` before `Observe` has its lock (router.go:393), so two
  reports may be applied against the order of the clock.
  An open breaker must be left by time alone (`NoEarlyExit`), must be able to be
  left soon, although every late failure sets its expiry again (`NeverStuckOpen`), probes must be spaced (`ProbeSpacing`), episodes must
  not leak into each other (`EpisodesAreSeparate`, `WindowFaithful`), and the
  threshold must not be overrun (`TripsInTime`).
* *Router.* A scan is not atomic and its result is used after the locks are
  released (`StaleAtWorst`); the probe of a half-open backend is a token that
  passes from the breaker to a request and back (`ProbeOwned`); a backend that
  recovers must be found again (`Failback`); an upstream's Retry-After must hold
  (`RetryAfterHonoured`).
* *Attempt loop.* Many ways out, each with its own duty to report
  (`EveryAttemptReported`, `ProbeAccounted`, `SelectableAgain`); timers and
  cancellation race with tokens (`NoRetryAfterToken`, `RequestEnds`); the total, the
  watchdog and the backoff may come from three backends' policies
  (`TimersWithinBudget`).
* *Stream.* Three goroutines, two unbuffered channels, one buffered one, two
  contexts and a timer that race in one `select`: no token may be lost
  (`NoTokenLost`), a stream that was cut must not pass for a whole one
  (`ChatOkIsWhole`, `OkIsWhole`), the upstream must not be blamed for what it did
  not do (`NoFalseBlame`), a deadline must not pass for a client that left
  (`NoFalseCancel`), nobody may be left behind on a channel
  (`GoroutinesReleased`), and no upstream may keep a handler
  (`OnlyClientBlocks`).
* *Payloads.* A scanner that carries a name and lines from one line to the next, four
  dialects, and two places where the producer guesses (`StreamIntact`,
  `ErrorNoticed`).
* *Policies and start.* Three layers resolve a backend's numbers, each with its own idea
  of "not given" (`PolicyAsWritten`, `StartupTypeOK`); doubling, cap, Retry-After and
  jitter make a delay (`BackoffInBounds`); some backends fail to start, and readiness
  must not promise what the router cannot keep (`ReadyMeansBackend`).
* *Drain and shutdown.* Lock-free check-then-act (`DrainedIsFinal`, `CountExact`);
  readiness must flip first (`UnreadyBeforeRefusing`), streams must get their grace
  period whatever the drain reports (`NoStreamCutEarly`), and the process must
  end, in time (`ShutdownEnds`, `ExitInTime`).

`PROJECT.json` lists the hazards one by one at their source lines.

## 2. Modules

```
Breaker ──── BreakerCell ──── MCBreakerCell      BreakerProof (theorems on BreakerCell)
   │
Routing ──── Router ─┬─────── MCRouter           RouterProof (theorems on Router)
                     ├─ RetryAfter ── MCRetryAfter
                     └─ RoutedStream ─ MCRoutedStream   StreamProof
Policy ──┬── RoutedStream
         └── Startup ── MCStartup                StartupProof
Producers ── MCProducers                         ProducersProof
StreamContract <── Pipe ────── MCPipe            PipeProof
DrainGate <── DrainState ─ Shutdown ─ MCShutdown ShutdownProof (drain and shutdown)

OperatorLemmas: lemmas on the operators of Breaker and Policy, cited by
BreakerProof, RouterProof, StreamProof and StartupProof
```

* **Breaker** has the record of one breaker and its methods as functions on the
  record. Every method of the Go type holds the mutex from start to end, so each
  is atomic. `ObserveOutcome` is `Observe`, `AcquireProbe`/`Acquired` are the
  effect and the result of `TryAcquireProbe`, `Advance` is `advanceLocked`. The
  failure rate's threshold is the rational `RateNum / RateDen`. The counter of
  consecutive failures, which the code only compares with its threshold, stops there;
  `lastTransitionAt`, which only a debug page shows, is left out.
* **BreakerCell** is one breaker under any caller: any order of calls, any result,
  and, for each of the three calls, an instant that may be `MaxSkew` old
  (`CallInstants`): none is read under the mutex. Two history variables (`grantedAt`, `log`) say when the last probe was
  granted and what has been reported since the last closing.
* **Routing** has the statistics, a scan's view of a backend and the three ways to
  pick (`pickBestCandidate`, `pickNoStats`, `pickMostRecoverable`) as pure
  operators. Latencies are a few levels and a weighted mean of two levels is any
  level between them, so no property depends on the weight. Backends are numbered
  in the order in which `NewRouter` sorts their names.
* **Router** is `choose` and `ObserveWithCooldownResult` at the grain of the locks:
  reading the clock, reading a backend's statistics, reading its breaker (which
  may move it to half open), picking, reserving a probe, updating the statistics,
  updating the breaker are separate steps; what a goroutine remembers in between
  is in `req[r]`. The clock is read before the lock: each half of a report carries any
  instant since the goroutine got there (`ReadSince`), which in this module is `choose`'s
  instant for the statistics, a little earlier than the code can have it, and in RoutedStream
  the end of the attempt. `openedAt` is history: when, by the clock, a breaker that
  is not closed has opened. `Inspect` is the side effect of `Explain` and the debug pages.
* **RetryAfter** is a monitor beside Router that remembers the latest instant an
  upstream asked to be left alone until, counted from the instant of its report.
* **Policy** has the numbers that govern a request as functions: a policy is a function
  on twelve names (durations in ticks, fractions in `Scale`-ths). `Normalize` is the three
  methods of that name, `RouterPolicy` what `buildBackendRoutingPolicy`,
  `NewRouter` and `resolveBackendPolicy` do together, `ServerPolicy` what the server
  makes of it again in `timeoutPolicyFor` and `retryPolicyFor`; then `ShouldRetry`,
  `Backoff` with its jitter, `PhaseTimeout`. No state.
* **Startup** is one process from its configuration file to its answers: `Load` (defaults,
  the legacy form, `Validate`), `main`'s loop over the backends, any of which may fail to
  initialise, `NewRouter`, the listener that may fail, `Ready`, and who answers a
  request: a backend of the router, the one that `pickDisabled` names, or the mock.
* **Producers** is what Pipe leaves out: from the lines, texts or the body that an
  upstream sends to the text that the consumer gets. `name` and `data` are the scanner's two
  variables, `sentSoFar` that of the Vertex producer. `said`, `trouble` and `guess`
  are history: what the upstream meant, whether it reported an error or sent what cannot be
  read, and whether the producer's rule had to guess. The upstream may send any
  event, with or without a name, split into one or two data lines, an error also under the
  name of another event, and may close or break at any line.
* **RoutedStream** puts the real caller on top of Router: `prepareBackendStream`'s
  loop with its early returns, `StreamText` as a call that blocks until the
  upstream answers, the `select` of `waitForFirstToken` (any ready case), the
  report and second `Choose`, the backoff, the rest of the stream as one step with
  any of its outcomes, and the execution context with its deadline. The upstream
  and the client are unconstrained. Each backend has the policy that Policy
  computes for it; `Explain`, which takes no probe, may name any backend, so the total
  timeout may be any backend's. `call[r]` holds the goroutine's locals; its `mark` is the
  instant at which the watchdog was set or, afterwards, at which the attempt ended.
* **Pipe** is the stream that RoutedStream takes as one step, seen from inside. It
  follows one attempt from `StreamText` on. The *producer* is the goroutine of
  an adapter, the *wrapper* that of `StreamText`, the *reader* the handler, for each of
  the three endpoints that read a stream: chat, streamed response, collected
  response (`endpoint`). Tokens are numbers. A send on an unbuffered channel is one step of
  both sides (`RecvToken`, `TakeToken`); `errBuf` is the buffer of `errCh`; the reader's
  `select` is the disjunction of `TakeToken`, `TakeError`, `SeeTokensClosed`,
  `SeeErrorsClosed`, `SeeContext` and `TimerFires`; `open` are the channel variables
  that are not nil. Writes to the client can take for ever or fail (but for the error
  response after a failed first token or collection, which is one step). A parsed
  event is a token, an end or an error; what is in it is in Producers.
* **StreamContract** is what a stream promises, without goroutines: tokens arrive in
  order and without a gap, one outcome ends the stream, and "ok" means that the
  upstream finished and the client has everything. A *lenient* stream may be cut
  and called "ok"; `ImplementsContract` needs that for responses, not for chats.
* **DrainState** has every atomic operation of the drain state as a step of the
  handler or of `main` that performs it; **DrainGate** is what it promises: a gate
  that streams pass until it is closed, and "drained" only when nobody is inside
  and nobody can come in. `ImplementsGate` maps `open` to `~draining` and `active`
  to the handlers past their second load.
* **Shutdown** extends DrainState by the rest of `main`'s sequence: readiness, drain,
  minimum window, `server.Shutdown` with its timeout, `server.Close`, the deferred calls
  ("flushing": `shutdownTracing` may take until a timeout of its own; closing the backends'
  clients waits for nothing), and by requests that are not streamed, which nobody counts. A handler's first look at `Draining()`
  is the same load as the one in `TryAcquireStream`.

Definitions whose names end in `Slip` are the following definition with one
plausible bug (a dropped re-check, an off-by-one, a missing reset). No specification uses
them; each shows that a property notices the bug.

## 3. Runs

| Run | Module / cfg | Shows |
|---|---|---|
| breaker_cell | MCBreakerCell | seven properties of one breaker |
| shutdown | MCShutdown | the drain's counter, finality and gate; order, grace and end of the shutdown |
| failback | MCFailback | two requests, two backends: types, ownership of probes, and that the preferred backend is tried again after its cooldown when no backend has an EWMA score |
| pipe | MCPipe | eight properties of one stream at each kind of endpoint, up to three tokens |
| producers | MCProducers | the text comes out as it was sent unless the producer guessed, and a stream fails exactly when something was wrong with it |
| startup | MCStartup | accepted files give usable policies, as they are written (a `ttft_timeout_ms` of 0 apart); delays are in bounds; readiness means a backend |
| stream | MCRoutedStream | one request, two backends with different policies, three attempts: reporting, timers, no retry after a token, every request ends |
| two_streams | MCTwoStreams | two requests over two shared backends, each retried when its first attempt fails on the first: which returns can orphan a probe, and staleness of the picks |
| starvation | MCStarvation | *violation* of `Failback` once a healthy backend has a score |
| retry_after | MCRetryAfter | *violation* of `RetryAfterHonoured` |
| probe_leak | MCProbeLeak | *violation* of `SelectableAgain` |
| pipe_cut | MCPipeCut | *violation* of `OkIsWhole` by a response |

### Bounds

`MaxTime` bounds the clock, `MaxLog` the results since the last closing,
`MaxSkew` the age of a call's instant; nothing else is cut off.

* breaker_cell: threshold 2, window 3, rate 2/3, probe interval 3, cooldowns 0 and
  2, eight instants, skew 1. A breaker can open by either rule, expire, be probed
  twice, reopen and close, with results of the first episode arriving in the
  second, a later one with an earlier instant than the one before it; the window overflows.
* shutdown: three streaming handlers, each serving any number of streams until it is
  refused: one can be on its way in while a second leaves and a third is turned
  away; one handler that does not stream. Grace 4, window 1, timeouts 2 and 2, so that
  a drain can end early enough for the full timeout, for a part of it, or too late.
* pipe: three tokens, so that each goroutine has one in hand at a time; an
  error that counts as a timeout's kind and one that is the upstream's fault.
* failback, starvation: liveness on a bounded clock: time stops at `MaxTime`, after
  the cooldown of any failure that the property speaks of (a probe is *allowed*
  only once the cooldown is over), and requests go on for ever. `failback` takes states
  for one (its VIEW) that differ only in `openedAt`, a history no action reads, and in a
  breaker's window and counter, which decide nothing where one failure opens a breaker.
* producers: two letters, texts of one or two, four in all, and four events, so that a
  text can begin with the one before it, twice over, and an event can follow a ping, an
  error under another name or a broken one.
* startup: every list of up to two backends (names missing, blank or equal, types
  wrong or with blanks, sections incomplete) without numbers, every legacy form, all
  combinations of missing, zero and other numbers of one part at a time, global
  and of a backend, and every single number out of its range. The three parts
  of a policy do not meet in the code, so they are not combined.
* stream: three attempts on one backend's policy, two on the other's, totals 3 and 2,
  backoff 1 to 2 ticks with jitter of a half and of all of it, Retry-After 2, five
  instants, so that every timer can fire before, at and after the deadline and a
  backoff can be cut by it. A request starts only while its deadline lies
  within the clock's bound, so the bound cannot keep it from ending.
* two_streams: two attempts on the first backend's policy and one on the second's (a request
  that is retried came from the first), three instants, a total timeout that is all
  the time there is, one kind of failure ("timeout"): the kinds differ only in
  `ShouldRetry` and `OutcomeOf`, which `stream` covers.

Symmetry is used on requests in the safety runs only. `CHECK_DEADLOCK FALSE` is
said where everything ends: when the process has exited, a stream is over, or
all requests are done.

### Fairness

* Shutdown: time passes and `main` runs. No request is assumed to end: `Wait` and
  `server.Shutdown` have deadlines of their own. For `ExitInTime` alone `main`'s timers
  are taken to be prompt: the clock waits for them.
* Pipe: goroutines are scheduled, the execution context has a deadline
  (`executionContextForRequest`), HTTP calls and reads return when their context
  has ended. Nothing is assumed of the upstream, nor of the client: a write may
  take for ever, because the server sets no write timeout. `OnlyClientBlocks` says
  that this is all that can keep a handler; `RequestEnds` of RoutedStream, which
  takes the rest of a stream as one step, assumes that the client reads.
* RoutedStream: the clock runs, a goroutine that can move does, a context ends at
  its deadline, and `StreamText` returns once its context has ended (the HTTP
  clients take the context). Nothing is assumed of the upstream or the client, who
  may stay silent for ever.
* Router: the clock runs, and requests keep coming and are reported; in `failback`
  this is the assumption that there is traffic.

Elsewhere a timer fires at its instant or at any time after it; nothing bounds how late.

## 4. Proofs

TLAPS proves, for every value of the constants that the `ASSUME`s allow (any
thresholds, cooldowns, skew; any number of backends, any set of requests; any
finite set of handlers; streams of any length; any set of configuration files;
texts of any letters, in any number of events), every invariant and every action
property that the passing runs check, and the three implementations. Each proof has
one inductive invariant, one lemma or step per action, and is proved from the
assumptions that the models name (`BreakerConfigAssumption`, `PolicyAssumption`,
`StreamAssumption`, ...), which TLC evaluates on the instances.

* `OperatorLemmas`: what the operators of Breaker and Policy do, without a state
  machine. `Coherent` joins the properties of a breaker's record, which need one
  another (`AdvanceCoherent`, `AcquireCoherent`, `ObserveCoherent`, `ObserveProbe`, `ObserveReleases`).
  `NormalizeUsable` and `PoliciesUsable` say that what comes out of `Normalize` has no
  threshold, timeout or number of attempts that is 0; `DoubledBounds`, `JitteredBounds`,
  `BackoffsBounds` and `PhaseTimeoutBounds` bound every delay. Doubling is a recursive
  function; that it exists, with its range, is shown by the least number for which it would
  not (`LeastNatural`, `IterationExists`), as the induction theorems are out of reach.
* `BreakerProof`: type correctness, `TripsInTime`, `NeverStuckOpen`,
  `EpisodesAreSeparate`, `NoEarlyExit`, `ProbeSpacing` and `WindowFaithful`. The inductive
  invariant `IInv` joins `Coherent` with the facts that relate the record to the clock
  and the history: no probe was granted after now, the expiry of an open breaker is within
  reach (`NeverStuckOpen` is its own induction hypothesis), and the breaker's last
  probe is at most `MaxSkew` older than the last one granted. The latter is what `ProbeSpacing`
  rests on: a neutral result dates the probe with its own instant, which may lie before
  the probe but not further back than its age. So the code keeps `HalfOpenProbeInterval`
  only up to the time a report waits for the lock. `NeverStuckOpen` holds because every
  expiry is an instant of the past plus one cooldown. `WindowFaithful` says
  that the window is the end of the log; `LatestGrows` shows that appending a result and
  dropping the oldest commutes with taking the end, and `WindowSteps` that nothing
  but a recorded result changes the window and that closing empties it, as it does the log.
* `RouterProof`: `RouterTypeOK`, `ProbeOwned` and `StaleAtWorst`. First, that each of the
  three ways to pick names a candidate it was given (a finite set of numbers, compared
  by score and tie-break, has a best one). Then the invariant `RInv`. `StaleAtWorst` speaks of
  a request that has decided; what makes it inductive is `ScanSound`, that every
  candidate a scan has noted as closed is still closed or *overtaken*: it opened no earlier, by
  the clock (`openedAt`), than the instant the scan uses. The instant that the breaker's record
  takes from the report would not do, as it may be older. A breaker's moves keep that
  (`LooksOvertake`, `ReportsOvertake`, `OneMoves`), and one lemma (`RequestStep`) says what a step of a request has to
  satisfy, whichever it is. `ProbeOwned` holds because a report clears the flag before the
  request forgets its probe. `RInv` is about the router under any caller: each action
  also states which requests it leaves alone (`Passes`), so that StreamProof can cite it.
* `StreamProof`: `StreamTypeOK`, `EveryAttemptReported`, `ProbeAccounted`,
  `TimersWithinBudget`, `NoRetryAfterToken`, and `StaleAtWorst` once more under the real
  caller. A step of RoutedStream is a step of the router and a change of one request's
  locals. The invariant `SInv` is `RInv` and, per request, that its phase agrees with the router
  call it is in (`Placed`), that the reports are the attempts but for the one under way
  (`Counted`), that some backend's policy allows the attempts so far (`Bounded`), that
  the timer ends within the deadline (`Timed`), and that only a request which is over has
  dropped a probe (`Kept`). `CallStep` is the frame: what a step has to satisfy, of the
  router, of its own record and of the probes, so that the other requests and
  `ProbeAccounted` take care of themselves.
* `StartupProof`: `StartupTypeOK`, `ReadyMeansBackend`, `PolicyAsWritten` and
  `BackoffInBounds`, for every set of files whose fields have their types
  (`StartupAssumption`; any number may be missing, negative or out of range, until `Validate`
  has looked at it). First the three layers that resolve a number are shown to mean what the file
  does (`RouterPolicyMeant`, `ServerPolicyMeant`; with 0 for the default, which of
  `ttft_timeout_ms` the property leaves out) and a doubled delay to be a power of
  two (`DoubledIsPower`); then the invariant `PInv` follows the process through its phases:
  what was read, what `Validate` let pass, which names the loop is past, what the
  router was built from, and who answers.
* `ProducersProof`: `ProducersTypeOK`, `StreamIntact` and `ErrorNoticed`. The hard part
  is that an event is in pieces: the lines of one that are still to come are those
  after the ones the scanner holds (`Taken`, `Rest`, `NextOfRest`, `LinesBegin`), so that a blank
  line always completes exactly one event. The invariant `LInv` says this
  (`Scanning`), that up to there what was sent is what was said (`Faithful`; for
  the Vertex producer, which compares texts, by `ConcatPrefix`), and that an error seen
  or missed is accounted for (`Judged`; `Verdicts` is what the two parsers make of an event).
* `PipeProof`: types, `NoTokenLost`, `ChatOkIsWhole`, `NoFalseBlame`, `NoFalseCancel` and
  `ImplementsContract`. That a chat ends as "ok" only when it is whole depends on what
  the two closed channels mean, and so on why the wrapper has left: the invariant says where
  each token is (`Chain`), that a wrapper which left early without an error did so
  because the context ended, and what kind of error is on its way after what end
  (`Errors`), and what a reader that has seen a channel closed may conclude (`Reader`). The
  chat endpoint's second look at the context is the step that uses it.
* `ShutdownProof`: of the drain, type correctness, `CountExact`, `DrainedIsFinal` and
  `ImplementsGate`. `DrainedIsFinal` alone is not inductive: the invariant adds that
  the flag is up once `main` has left "serving", and that a handler that streams is
  counted, so that `main` cannot have read 0. The counting steps cite the
  library's theorems on cardinality. Of the shutdown: `main`'s sequence is a behaviour of
  the drain (`ShutdownDrains`), `ShutdownTypeOK`, `UnreadyBeforeRefusing`,
  `NoStreamCutEarly` and `ExitInTime`. `NoStreamCutEarly` joins the two: if `Wait` said "drained",
  there is no stream (`DrainedIsFinal`, by the drain's invariant); if it gave up, the
  grace period was over (`Sequence`). `ExitInTime` follows the deadlines from one phase to the
  next (`Timing`): the grace period, then the timeout of `server.Shutdown`, then that of
  `shutdownTracing`.

Only model-checked: liveness (`ShutdownEnds`, `GoroutinesReleased`, `OnlyClientBlocks`,
`RequestEnds`, `Failback`), which with `ENABLED` is beyond the prover, and the four findings,
which are counterexamples. The values of recursive functions on data (the text of a
whole stream, a power of two) are proved only as far as the least counterexample carries.

## 5. Findings

Each is a run that TLC ends with a counterexample; `PROJECT.json` quotes the lines.

1. **A dropped decision keeps the probe** (`probe_leak`). `prepareBackendStream`
   returns without reporting a decision when the client leaves before the first
   token, when the second `Choose` names the same backend, and when the backoff fails. If
   that decision had reserved the probe of a half-open backend, the flag is never
   cleared: the backend can be reached again only when no backend is eligible.
   The shortest trace goes through the second way: the cooldown ends between the
   report and the second `Choose`. `two_streams` shows that these three are all.
2. **A half-open backend loses against every scored one** (`starvation`). Half-open
   candidates have no score, so with one healthy, measured backend they are never
   probed. `failback` shows that without scores the failback works.
3. **Retry-After can be cut short** (`retry_after`): `cooldownUntil` is overwritten by
   any later failure's shorter cooldown.
4. **A response that was cut is recorded as "ok"** (`pipe_cut`). The wrapper drops what it
   has in hand when the context ends and closes both channels; a reader that sees
   the closings before the context takes the stream for finished. The chat endpoint looks
   at the context once more (`pipe` and the proof show that this is enough), the
   responses endpoint does not.

Seen while modelling, without a run:

* The watchdog starts after the upstream has answered: `StreamText` is
  synchronous up to the response headers and the timer is made after it, so a backend
  that is slow to answer at all is left only at the total timeout (README.md:134 of
  the repository speaks of abandoning a slow backend).
* A producer sends on an unbuffered channel without looking at the context. If the
  wrapper leaves while it holds a token, it stays blocked; it reads no more
  (`GoroutinesReleased`).
* The second `Choose` of a retry may return a backend that is not eligible, although
  README.md:135 speaks of the next eligible one. It is made before the
  backoff, so a long Retry-After of the failed backend delays the attempt on another.
* README.md:312-313 of the repository says that `ttft_timeout_ms: 0` disables the fallback;
  `Normalize`, through which every policy passes, makes it the default of 1.5 s, so the
  watchdog always runs. `PolicyAsWritten` leaves this number out (`Disputed`): it claims
  neither meaning.
* An error event under a name that `parseResponsesEvent` does not know is not looked at (the
  exception in `ErrorNoticed`).
* The probe interval is kept only up to the age of a report's instant (`ProbeSpacing`).
* A backend whose type has blanks around it passes `Validate`, which trims, and is
  then passed over by `main`, which does not: the process is ready and answers with the
  mock (the exception in `ReadyMeansBackend`). With all backends failed, `/readyz` says
  503, and requests that come all the same get the mock's answer with 200.
* A chat completion that is not streamed is always the mock's "hello" (openai_chat.go:81).
* A backend's breaker section with only zeroes gets the global numbers, where a single
  zero means the default (the exception in `PolicyAsWritten`).
* Jitter is applied last: a delay can undercut the Retry-After it was raised to
  (`BackoffInBounds` says by how much).
* A stream that the upstream closes without a terminal event, or ends with
  `response.failed`, counts as complete. A Vertex delta that repeats the one before it
  is dropped (the exceptions in `StreamIntact`).
* docs/SIDECAR.md:73 says that new connections are no longer accepted after SIGTERM,
  while the listener stays open until the drain and the window are over, and
  requests are answered 503; with the base manifests the grace period equals
  `terminationGracePeriodSeconds`, so a forced shutdown, which may take five seconds
  more in `server.Shutdown` and, with an OTLP endpoint, another five in
  `shutdownTracing` (`ExitInTime`), does not get to its end.

## 6. Not modelled, and the plan

Left out for good: texts of reasons and notes, JSON and SSE layout, metrics,
logs, traces, totals and rates that only debug pages show, and legacy code that `main`
does not wire. Within Router all breakers have one configuration (Startup says that
each gets the numbers meant for it); `lastErrorCategory`, `lastTransitionAt` and the
stored drain deadline are only shown. Of the adapters, the building of requests and the mapping of status
codes to classes of errors are left out; of the configuration, the rules about the
server's address and the debug pages, which are one flag of a file (`rest`).

What is on disk was built in this order: Breaker, drain, Routing and Router,
RoutedStream, Pipe, Shutdown, Policy, Startup, Producers; the proofs followed the
models. Next, in this order:

1. RoutedStream's rest of a stream as an abstraction of Pipe: its outcomes are those
   of Pipe's reader.
2. Admission at the two endpoints (first look at the flag, parsing errors, missing
   flusher) composed with RoutedStream, so that every way out of a handler releases
   its place in the drain and its attempt's context.
