------------------------------ MODULE Startup ------------------------------
(***************************************************************************)
(* From a configuration file to a process that answers: config.Load with   *)
(* its defaults, the legacy form of the file and Validate; main's loop     *)
(* over the backends; the router and the policies it resolves; the         *)
(* listener; and who answers a request then.                               *)
(*                                                                         *)
(* A file is a record:                                                     *)
(*   rest      the settings with no part in this module are valid          *)
(*   backend   "none", "openai", "vertex", "other": the legacy form        *)
(*   vertex    "absent", "partly", "complete": the top-level section       *)
(*   openaiKey the top-level section names the key's variable              *)
(*   enabled   routing.enabled: "unset", "on", "off"                       *)
(*   ewma      routing.policy is "ewma_ttft"                               *)
(*   prefer    a name, or NoName                                           *)
(*   global    the numbers of the routing section                          *)
(*   entries   the backends: name, kind (the type, without blanks around   *)
(*             it), padded (it has some), complete (its own section is),   *)
(*             override (the numbers of its routing section)               *)
(* Names are numbers in the order of the names; NoName is a blank one.     *)
(***************************************************************************)
EXTENDS Policy, FiniteSetsExt, Functions, Sequences

CONSTANTS Files,
          RetryAfters  \* what an upstream may ask for, 0 for nothing

NoName == 0
Mock == 0

\* What a file may say, before Validate has looked at it.
Settings == [Fields -> Int \union {Unset}]

EntryRecords ==
  [ name : Nat, kind : {"vertex", "openai", "other"}, padded : BOOLEAN,
    complete : BOOLEAN, override : Settings ]

FileRecords ==
  [ rest : BOOLEAN, backend : {"none", "openai", "vertex", "other"},
    vertex : {"absent", "partly", "complete"}, openaiKey : BOOLEAN,
    enabled : {"unset", "on", "off"}, ewma : BOOLEAN, prefer : Nat,
    global : Settings, entries : Seq(EntryRecords) ]

ASSUME StartupAssumption == Files \subseteq FileRecords /\ RetryAfters \subseteq Nat

VARIABLES file,         \* as it was written (history)
          cfg,          \* the file after Load
          phase,        \* "reading", "loaded", "starting", "built", "serving", "exited"
          started,      \* entries main's loop is past
          initialised, failed,  \* names with a backendStatus
          router,       \* the policy of each of its backends; <<>>: nil
          answer        \* the last answer: from whom, and was it a single chat

vars == <<file, cfg, phase, started, initialised, failed, router, answer>>

NoAnswer == [from |-> Mock, single |-> TRUE]

Init ==
  /\ file \in Files
  /\ cfg = file
  /\ phase = "reading"
  /\ started = 0
  /\ initialised = {} /\ failed = {}
  /\ router = <<>>
  /\ answer = NoAnswer

----------------------------------------------------------------------------
(***************************************************************************)
(* Load.                                                                   *)
(***************************************************************************)
WithDefaults(global) ==
  [f \in Fields |-> IF global[f] = Unset THEN Default[f] ELSE global[f]]

NoOverride == [f \in Fields |-> Unset]

\* synthesizeLegacyBackends; the one backend has a name of its own.
Legacy(kind, complete) ==
  <<[name |-> 1, kind |-> kind, padded |-> FALSE, complete |-> complete,
     override |-> NoOverride]>>

Synthesized(c) ==
  IF c.entries # <<>> THEN c.entries
  ELSE IF c.backend = "openai" THEN Legacy("openai", c.openaiKey)
  ELSE IF c.backend = "vertex" \/ c.vertex # "absent"
       THEN Legacy("vertex", c.vertex = "complete")
  ELSE <<>>

Load ==
  /\ phase = "reading"
  /\ cfg' = [cfg EXCEPT !.global = WithDefaults(@), !.entries = Synthesized(cfg)]
  /\ phase' = "loaded"
  /\ UNCHANGED <<file, started, initialised, failed, router, answer>>

EffectiveRouting(c) ==
  IF c.enabled = "unset" THEN Len(c.entries) >= 2 ELSE c.enabled = "on"

ValidNumbers(p) ==
  \A f \in {g \in Fields : p[g] # Unset} :
    p[f] >= 0 /\ (f \in {"jitter", "rate"} => p[f] =< Scale)

ValidEntry(e) ==
  /\ e.name # NoName
  /\ e.kind \in {"vertex", "openai"}
  /\ e.complete
  /\ ValidNumbers(e.override)

Valid(c) ==
  /\ c.rest
  /\ c.backend # "other"
  /\ c.backend = "vertex" => c.vertex = "complete"
  /\ c.vertex # "partly"
  /\ c.backend = "openai" => c.openaiKey
  /\ EffectiveRouting(c) => Len(c.entries) >= 2 /\ c.ewma
  /\ ValidNumbers(c.global)
  /\ \A i \in DOMAIN c.entries : ValidEntry(c.entries[i])
  /\ \A i, j \in DOMAIN c.entries : i # j => c.entries[i].name # c.entries[j].name
  /\ c.prefer # NoName => \E i \in DOMAIN c.entries : c.entries[i].name = c.prefer

Refuse ==
  /\ phase = "loaded" /\ ~Valid(cfg)
  /\ phase' = "exited"
  /\ UNCHANGED <<file, cfg, started, initialised, failed, router, answer>>

Accept ==
  /\ phase = "loaded" /\ Valid(cfg)
  /\ phase' = "starting"
  /\ UNCHANGED <<file, cfg, started, initialised, failed, router, answer>>

----------------------------------------------------------------------------
(***************************************************************************)
(* main's loop.  Validate has trimmed the type; the switch here does not,  *)
(* and has no default.                                                     *)
(***************************************************************************)
Entry == cfg.entries[started + 1]

Initialise ==
  /\ phase = "starting" /\ started < Len(cfg.entries) /\ ~Entry.padded
  /\ started' = started + 1
  /\ initialised' = initialised \union {Entry.name}
  /\ UNCHANGED <<file, cfg, phase, failed, router, answer>>

\* No key in the environment, no credentials.
InitialiseFails ==
  /\ phase = "starting" /\ started < Len(cfg.entries) /\ ~Entry.padded
  /\ started' = started + 1
  /\ failed' = failed \union {Entry.name}
  /\ UNCHANGED <<file, cfg, phase, initialised, router, answer>>

PassOver ==
  /\ phase = "starting" /\ started < Len(cfg.entries) /\ Entry.padded
  /\ started' = started + 1
  /\ UNCHANGED <<file, cfg, phase, initialised, failed, router, answer>>

Override(c, name) ==
  LET i == CHOOSE i \in DOMAIN c.entries : c.entries[i].name = name
  IN  c.entries[i].override

BuildRouter ==
  /\ phase = "starting" /\ started = Len(cfg.entries)
  /\ router' = [b \in initialised |-> RouterPolicy(cfg.global, Override(cfg, b))]
  /\ phase' = "built"
  /\ UNCHANGED <<file, cfg, started, initialised, failed, answer>>

ListenFails ==
  /\ phase = "built"
  /\ phase' = "exited"
  /\ UNCHANGED <<file, cfg, started, initialised, failed, router, answer>>

\* net.Listen, SetListenerReady, Serve.
Listen ==
  /\ phase = "built"
  /\ phase' = "serving"
  /\ UNCHANGED <<file, cfg, started, initialised, failed, router, answer>>

----------------------------------------------------------------------------
(***************************************************************************)
(* runtime.go, and who answers.  Router has the choice of the enabled      *)
(* router; here it may be any of its backends.                             *)
(***************************************************************************)
BackendsReadySlip == failed = {}

BackendsReady == initialised \union failed = {} \/ initialised # {}

Ready == phase = "serving" /\ BackendsReady

PickDisabled == IF cfg.prefer \in initialised THEN cfg.prefer ELSE Min(initialised)

AnswerFrom(who, single) ==
  /\ phase = "serving"
  /\ answer' = [from |-> who, single |-> single]
  /\ UNCHANGED <<file, cfg, phase, started, initialised, failed, router>>

\* A chat completion that is not streamed never reaches a backend.
AnswerSingleChat == AnswerFrom(Mock, TRUE)

AnswerWithoutRouter == DOMAIN router = {} /\ AnswerFrom(Mock, FALSE)

AnswerRouted ==
  /\ EffectiveRouting(cfg)
  /\ \E b \in DOMAIN router : AnswerFrom(b, FALSE)

AnswerUnrouted ==
  /\ ~EffectiveRouting(cfg) /\ DOMAIN router # {}
  /\ AnswerFrom(PickDisabled, FALSE)

Next ==
  \/ Load \/ Refuse \/ Accept
  \/ Initialise \/ InitialiseFails \/ PassOver
  \/ BuildRouter \/ ListenFails \/ Listen
  \/ AnswerSingleChat \/ AnswerWithoutRouter \/ AnswerRouted \/ AnswerUnrouted

Spec == Init /\ [][Next]_vars

----------------------------------------------------------------------------
Names == {cfg.entries[i].name : i \in DOMAIN cfg.entries}

(***************************************************************************)
(* The types.  Each backend of a router has numbers that Breaker and       *)
(* RoutedStream may be instantiated with (their ASSUMEs): whatever file    *)
(* Validate lets pass, no threshold, timeout or number of attempts is 0,   *)
(* and the largest backoff is not below the first.                         *)
(***************************************************************************)
StartupTypeOK ==
  /\ phase \in {"reading", "loaded", "starting", "built", "serving", "exited"}
  /\ started \in 0..Len(cfg.entries)
  /\ initialised \intersect failed = {}
  /\ answer \in [from : Names \union {Mock}, single : BOOLEAN]
  /\ phase \in {"starting", "built", "serving"} =>
       initialised \union failed =
         {cfg.entries[i].name : i \in {j \in 1..started : ~cfg.entries[j].padded}}
  /\ phase \in {"built", "serving"} => DOMAIN router = initialised
  /\ \A b \in DOMAIN router :
       \A p \in {router[b], ServerPolicy(cfg.global, Override(cfg, b))} :
         /\ p \in [Fields -> Nat]
         /\ \A f \in Fields \ {"jitter"} : p[f] > 0
         /\ p["max"] >= p["base"] /\ p["rate"] =< Scale /\ p["jitter"] =< Scale

(***************************************************************************)
(* A backend is governed by the numbers of the file: its own where it has  *)
(* some, else the global ones, else the defaults, with 0 for the default.  *)
(* Three layers resolve them (buildBackendRoutingPolicy, NewRouter, the    *)
(* server's ...PolicyFor), two of them starting from the global values     *)
(* again; together they do what one would.  The exceptions are a breaker   *)
(* whose numbers are all 0, which gets the global ones, where a single 0   *)
(* means the default; and a ttft_timeout_ms that is written as 0.  The     *)
(* code takes it for the default like any other 0, while README.md:312     *)
(* says "set `0` to disable the fallback", so nothing is claimed of it.    *)
(***************************************************************************)
Written(override, f) ==
  IF override[f] # Unset THEN override[f]
  ELSE IF file.global[f] # Unset THEN file.global[f]
  ELSE Default[f]

Meant(override, f) ==
  LET or(g) == IF Written(override, g) = 0 THEN Default[g] ELSE Written(override, g)
  IN  CASE f = "jitter" -> Written(override, f)
        [] f = "max"    -> Larger(or("max"), or("base"))
        [] OTHER        -> or(f)

Disputed(own) == {f \in {"ttft"} : Written(own, f) = 0}

PolicyAsWritten ==
  phase = "built" =>
    \A b \in DOMAIN router :
      LET own    == Override(cfg, b)
          source == IF \A f \in BreakerFields : Written(own, f) = 0 THEN NoOverride ELSE own
      IN  /\ \A f \in (TimeoutFields \union RetryFields) \ Disputed(own) :
               ServerPolicy(cfg.global, own)[f] = Meant(own, f)
          /\ \A f \in BreakerFields : router[b][f] = Meant(source, f)

(***************************************************************************)
(* The delay before a retry: the base times a power of two, at most the    *)
(* maximum, at least what the upstream asked for, and then off by at most  *)
(* the jitter's share of it (and half a tick of rounding).  So jitter may  *)
(* exceed the maximum and undercut a Retry-After, by that much and no more.*)
(***************************************************************************)
TwoTo(n) ==
  LET power[i \in 0..n] == IF i = 0 THEN 1 ELSE 2 * power[i - 1]
  IN  power[n]

BackoffInBounds ==
  phase = "built" =>
    \A b \in DOMAIN router :
      LET p == ServerPolicy(cfg.global, Override(cfg, b))
      IN  \A attempt \in 0..(p["attempts"] - 1), asked \in RetryAfters :
            LET middle == IF attempt = 0 /\ asked = 0 THEN 0
                          ELSE Larger(Smaller(p["base"] * TwoTo(attempt), p["max"]), asked)
            IN  \A delay \in Backoffs(p, attempt, asked) :
                  /\ 2 * (delay - middle) * Scale =< 2 * p["jitter"] * middle + Scale
                  /\ 2 * (middle - delay) * Scale =< 2 * p["jitter"] * middle + Scale

(***************************************************************************)
(* "If backends are configured, CloudInfer is ready when at least one      *)
(* backend initialized successfully" (docs/SIDECAR.md:72), "If no backends *)
(* are configured, CloudInfer is ready in mock mode" (71): a process that  *)
(* says it is ready does not answer a stream with the mock while backends  *)
(* are configured.  The exception are backends whose type has blanks       *)
(* around it, which main passes over without a word.                       *)
(***************************************************************************)
ReadyMeansBackend ==
  /\ phase = "serving" =>
       (Ready <=> initialised # {} \/ \A i \in DOMAIN cfg.entries : cfg.entries[i].padded)
  /\ Ready /\ answer.from = Mock /\ ~answer.single =>
       \A i \in DOMAIN cfg.entries : cfg.entries[i].padded

=============================================================================
