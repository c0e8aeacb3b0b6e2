---------------------------- MODULE StartupProof ----------------------------
(***************************************************************************)
(* The safety properties of Startup for every set of files: what a file    *)
(* that Validate lets pass makes of the policies, and what a process that  *)
(* says it is ready has.                                                   *)
(*                                                                         *)
(* First the numbers, as facts about the functions of Policy: the three    *)
(* layers that resolve them do what one would, and a doubled delay is a    *)
(* power of two.  Then the process.                                        *)
(***************************************************************************)
EXTENDS Startup, OperatorLemmas

(* The powers of two are a function.                                       *)
LEMMA PowersOfTwo ==
  ASSUME NEW n \in Nat
  PROVE  \E power : /\ power \in [0..n -> Nat] /\ TwoTo(n) = power[n]
                    /\ \A i \in 0..n : power[i] = IF i = 0 THEN 1 ELSE 2 * power[i - 1]
<1> DEFINE step == [x \in Nat |-> 2 * x]
<1>1. step \in [Nat -> Nat] /\ 1 \in Nat /\ \A x \in Nat : step[x] = 2 * x
  OBVIOUS
<1> HIDE DEF step
<1>2. PICK d : Iterates(d, 1, step, n)
  BY <1>1, IterationExists
<1>3. ASSUME NEW i \in 0..n PROVE d[i] = IF i = 0 THEN 1 ELSE 2 * d[i - 1]
  <2>1. i # 0 => i - 1 \in 0..n /\ d[i - 1] \in Nat
    BY <1>2 DEF Iterates
  <2> QED BY <1>1, <1>2, <2>1 DEF Iterates
<1>4. d = [i \in 0..n |-> IF i = 0 THEN 1 ELSE 2 * d[i - 1]]
  BY <1>2, <1>3 DEF Iterates
<1> DEFINE power == CHOOSE power : power = [i \in 0..n |-> IF i = 0 THEN 1 ELSE 2 * power[i - 1]]
<1>5. power = [i \in 0..n |-> IF i = 0 THEN 1 ELSE 2 * power[i - 1]]
  BY <1>4
<1>6. TwoTo(n) = power[n]
  BY DEF TwoTo
<1> HIDE DEF power
<1>7. \A i \in 0..n : power[i] = IF i = 0 THEN 1 ELSE 2 * power[i - 1]
  BY <1>5
<1> DEFINE odd == {i \in 0..n : power[i] \notin Nat}
<1>8. odd = {}
  <2> SUFFICES ASSUME odd # {} PROVE FALSE
    OBVIOUS
  <2>1. PICK i \in odd : \A k \in odd : i =< k
    <3>1. odd \in SUBSET Nat
      OBVIOUS
    <3> HIDE DEF odd
    <3> QED BY <3>1, LeastNatural
  <2>2. i # 0
    BY <1>7, <2>1
  <2>3. i - 1 \in 0..n /\ power[i - 1] \in Nat
    BY <2>1, <2>2
  <2> QED BY <1>7, <2>1, <2>2, <2>3
<1>9. power \in [0..n -> Nat]
  BY <1>5, <1>8
<1> QED BY <1>6, <1>7, <1>9

(* Doubling with a cap each time is a power of two, capped once.           *)
LEMMA DoubledIsPower ==
  ASSUME NEW base \in Nat, NEW max \in Nat, base =< max, NEW n \in Nat
  PROVE  Doubled(base, max, n) = Smaller(base * TwoTo(n), max)
<1>1. PICK power : /\ power \in [0..n -> Nat] /\ TwoTo(n) = power[n]
                   /\ \A i \in 0..n : power[i] = IF i = 0 THEN 1 ELSE 2 * power[i - 1]
  BY PowersOfTwo
<1> DEFINE d == CHOOSE d : d = [i \in 0..n |-> IF i = 0 THEN base ELSE Smaller(2 * d[i - 1], max)]
           wrong == {i \in 0..n : d[i] # Smaller(base * power[i], max)}
<1>2. d = [i \in 0..n |-> IF i = 0 THEN base ELSE Smaller(2 * d[i - 1], max)]
  BY DoublingExists
<1>3. Doubled(base, max, n) = d[n]
  BY DEF Doubled
<1> HIDE DEF d
<1>4. \A i \in 0..n : d[i] = IF i = 0 THEN base ELSE Smaller(2 * d[i - 1], max)
  BY <1>2
<1>5. wrong = {}
  <2> SUFFICES ASSUME wrong # {} PROVE FALSE
    OBVIOUS
  <2>1. PICK i \in wrong : \A k \in wrong : i =< k
    <3>1. wrong \in SUBSET Nat
      OBVIOUS
    <3> HIDE DEF wrong
    <3> QED BY <3>1, LeastNatural
  <2>2. i # 0
    <3>1. d[0] = base /\ power[0] = 1
      BY <1>1, <1>4
    <3>2. d[0] = Smaller(base * power[0], max)
      BY <3>1 DEF Smaller
    <3> QED BY <2>1, <3>2
  <2>3. i - 1 \in 0..n /\ d[i - 1] = Smaller(base * power[i - 1], max)
    BY <2>1, <2>2
  <2>4. PICK x \in Nat : x = base * power[i - 1]
    BY <1>1, <2>3
  <2>5. power[i - 1] \in Nat /\ power[i] = 2 * power[i - 1]
    BY <1>1, <2>1, <2>2, <2>3
  <2>6. base * power[i] = 2 * x
    BY <2>4, <2>5
  <2>7. d[i] = Smaller(2 * Smaller(x, max), max)
    BY <1>4, <2>1, <2>2, <2>3, <2>4
  <2>8. Smaller(2 * Smaller(x, max), max) = Smaller(2 * x, max)
    BY DEF Smaller
  <2> QED BY <2>1, <2>6, <2>7, <2>8
<1>6. d[n] = Smaller(base * power[n], max)
  BY <1>5
<1> HIDE DEF wrong
<1> QED BY <1>1, <1>3, <1>6

(***************************************************************************)
(* The policy a server uses for a backend (ServerPolicy) and the router's  *)
(* breaker numbers, of a file that Validate has let pass: w holds what is  *)
(* written.                                                                *)
(***************************************************************************)
InScale(p) == \A f \in {"jitter", "rate"} : p[f] # Unset => p[f] =< Scale

\* What the server makes of a router's policy is what the file meant.
LEMMA ServerPolicyMeant ==
  ASSUME NEW global \in [Fields -> Nat], InScale(global),
         NEW override \in [Fields -> Nat \union {Unset}], InScale(override),
         NEW w, w = Given(global, override),
         NEW f \in TimeoutFields \union RetryFields
  PROVE  ServerPolicy(global, override)[f] =
           CASE f = "jitter" -> w[f]
             [] f = "max"    -> Larger(IF w["max"] = 0 THEN Default["max"] ELSE w["max"],
                                       IF w["base"] = 0 THEN Default["base"] ELSE w["base"])
             [] OTHER        -> IF w[f] = 0 THEN Default[f] ELSE w[f]
<1> DEFINE routed == RouterPolicy(global, override)
           m == [g \in Fields |-> IF override[g] # Unset THEN override[g]
                                  ELSE IF global[g] > 0 THEN global[g] ELSE routed[g]]
<1>1. /\ w \in [Fields -> Nat] /\ w["jitter"] =< Scale
      /\ \A g \in Fields : w[g] = IF override[g] = Unset THEN global[g] ELSE override[g]
  BY PolicyAssumption
     DEF Given, InScale, Fields, TimeoutFields, RetryFields, BreakerFields
<1>2. Usable(routed)
  BY PoliciesUsable
<1>3. ServerPolicy(global, override) = Normalize(m)
  BY DEF ServerPolicy
<1>4. \A g \in Fields : m[g] = IF override[g] # Unset THEN override[g]
                              ELSE IF global[g] > 0 THEN global[g] ELSE routed[g]
  OBVIOUS
<1>5. \A g \in Fields : global[g] \in Nat /\ Default[g] \in Nat \ {0}
  BY PolicyAssumption
<1>6. ASSUME NEW g \in TimeoutFields \union {"attempts", "base"}, w[g] = 0, global[g] = 0
      PROVE  routed[g] = Default[g]
  <2>1. /\ routed[g] \in {Normalize(global)[g], Normalize(w)[g]}
        /\ g \in Fields \ {"jitter", "max", "rate"}
    BY DEF RouterPolicy, Fields, TimeoutFields, RetryFields, BreakerFields
  <2>2. Normalize(global)[g] = Default[g] /\ Normalize(w)[g] = Default[g]
    BY <1>6, <2>1 DEF Normalize, Positive
  <2> QED BY <2>1, <2>2
<1>7. /\ routed["jitter"] = Normalize(w)["jitter"]
      /\ routed["max"] = Normalize(w)["max"] /\ routed["base"] = Normalize(w)["base"]
  BY DEF RouterPolicy, Fields, TimeoutFields, RetryFields, BreakerFields
<1>8. routed["jitter"] = w["jitter"]
  BY <1>1, <1>7, PolicyAssumption DEF Normalize, Fields, RetryFields, Smaller, Larger
<1>9. routed["max"] = Larger(Positive(w, "max"), Positive(w, "base"))
  BY <1>7 DEF Normalize, Fields, RetryFields
<1> HIDE DEF m, routed
<1>10. CASE f \in TimeoutFields \union {"attempts", "base"}
  <2>1. f \in Fields \ {"jitter", "max", "rate"}
    BY <1>10 DEF Fields, TimeoutFields, RetryFields
  <2>2. Normalize(m)[f] = IF m[f] =< 0 THEN Default[f] ELSE m[f]
    BY <2>1 DEF Normalize, Positive
  <2>3. w[f] = 0 /\ global[f] = 0 => routed[f] = Default[f]
    BY <1>6, <1>10
  <2>4. Normalize(m)[f] = IF w[f] = 0 THEN Default[f] ELSE w[f]
    BY <1>1, <1>4, <1>5, <2>1, <2>2, <2>3, PolicyAssumption
  <2> QED BY <1>3, <2>1, <2>4
<1>11. CASE f = "jitter"
  <2>1. m["jitter"] = w["jitter"]
    BY <1>1, <1>4, <1>5, <1>8, PolicyAssumption DEF Fields, RetryFields
  <2>2. Normalize(m)["jitter"] = w["jitter"]
    BY <1>1, <2>1, PolicyAssumption DEF Normalize, Fields, RetryFields, Smaller, Larger
  <2> QED BY <1>3, <1>11, <2>2
<1>12. CASE f = "max"
  <2> DEFINE max  == IF w["max"] = 0 THEN Default["max"] ELSE w["max"]
             base == IF w["base"] = 0 THEN Default["base"] ELSE w["base"]
  <2>1. {"max", "base"} \subseteq Fields
    BY DEF Fields, RetryFields
  <2>2. Positive(w, "max") = max /\ Positive(w, "base") = base
    BY <1>1, <2>1 DEF Positive
  <2>3. /\ max \in Nat \ {0} /\ base \in Nat \ {0}
        /\ w["max"] # 0 => max = w["max"]
        /\ w["max"] = 0 => max = Default["max"]
    BY <1>1, <1>5, <2>1
  <2>4. Positive(m, "base") = base
    <3>1. w["base"] = 0 /\ global["base"] = 0 => routed["base"] = Default["base"]
      BY <1>6
    <3> QED BY <1>1, <1>4, <1>5, <2>1, <3>1, PolicyAssumption DEF Positive
  <2> HIDE DEF max, base
  <2>5. m["max"] \in {max, Larger(max, base), 0} /\ (w["max"] # 0 => m["max"] = max)
        /\ (w["max"] = 0 => m["max"] \in {0, Larger(max, base)})
    BY <1>1, <1>4, <1>5, <1>9, <2>1, <2>2, <2>3, PolicyAssumption
  <2>6. Positive(m, "max") \in {max, Larger(max, base)}
    BY <2>3, <2>5 DEF Positive, Larger
  <2>7. Normalize(m)["max"] = Larger(Positive(m, "max"), base)
    BY <2>1, <2>4 DEF Normalize
  <2>8. Normalize(m)["max"] = Larger(max, base)
    BY <2>3, <2>6, <2>7 DEF Larger
  <2> QED BY <1>3, <1>12, <2>8 DEF max, base
<1> QED BY <1>10, <1>11, <1>12 DEF RetryFields

(* The router takes a breaker's numbers from the global section when the   *)
(* backend's are all 0, and otherwise as they are written.                 *)
LEMMA RouterPolicyMeant ==
  ASSUME NEW global \in [Fields -> Nat], InScale(global),
         NEW override \in [Fields -> Nat \union {Unset}], InScale(override),
         NEW w, w = Given(global, override), NEW f \in BreakerFields
  PROVE  RouterPolicy(global, override)[f] =
           LET v == IF \A g \in BreakerFields : w[g] = 0 THEN global[f] ELSE w[f]
           IN  IF v = 0 THEN Default[f] ELSE v
<1> DEFINE zero == \A g \in BreakerFields : w[g] = 0
           v == IF zero THEN global[f] ELSE w[f]
<1>1. /\ f \in Fields \ {"jitter", "max"} /\ "rate" \in Fields
      /\ Scale \in Nat /\ Scale > 0 /\ global[f] \in Nat /\ w[f] \in Nat
      /\ f = "rate" => global[f] =< Scale /\ w[f] =< Scale
  BY PolicyAssumption
     DEF Given, InScale, Fields, TimeoutFields, RetryFields, BreakerFields
<1>2. RouterPolicy(global, override)[f] = IF zero THEN Normalize(global)[f] ELSE Normalize(w)[f]
  BY DEF RouterPolicy, AllZero, Fields, TimeoutFields, RetryFields, BreakerFields
<1> HIDE DEF zero
<1>3. /\ Normalize(global)[f] = IF global[f] = 0 THEN Default[f] ELSE global[f]
      /\ Normalize(w)[f] = IF w[f] = 0 THEN Default[f] ELSE w[f]
  BY <1>1 DEF Normalize, Positive
<1>4. RouterPolicy(global, override)[f] = IF v = 0 THEN Default[f] ELSE v
  BY <1>2, <1>3
<1> QED BY <1>4 DEF zero

----------------------------------------------------------------------------
(***************************************************************************)
(* The inductive invariant.  Read: what Load has made of the file.         *)
(* Validated: nothing is started before Validate has passed.  Walked:      *)
(* which entries main's loop is past.  Built: the router has exactly the   *)
(* initialised backends, with their policies.  Answered: who may have      *)
(* answered.                                                               *)
(***************************************************************************)
Reached == {cfg.entries[i].name : i \in {j \in 1..started : ~cfg.entries[j].padded}}

Read ==
  /\ file \in FileRecords /\ cfg \in FileRecords
  /\ phase \in {"reading", "loaded", "starting", "built", "serving", "exited"}
  /\ IF phase = "reading" THEN cfg = file ELSE cfg.global = WithDefaults(file.global)

Validated ==
  /\ phase \in {"reading", "loaded"} => started = 0
  /\ phase \in {"starting", "built", "serving"} \/ started > 0 => Valid(cfg)

Walked ==
  /\ started \in 0..Len(cfg.entries)
  /\ initialised \union failed = Reached
  /\ initialised \intersect failed = {}
  /\ phase \in {"built", "serving"} => started = Len(cfg.entries)

Built ==
  /\ DOMAIN router \subseteq initialised
  /\ phase \in {"built", "serving"} => DOMAIN router = initialised
  /\ phase \in {"reading", "loaded", "starting"} => DOMAIN router = {}
  /\ \A b \in DOMAIN router : router[b] = RouterPolicy(cfg.global, Override(cfg, b))

Answered ==
  /\ answer \in [from : initialised \union {Mock}, single : BOOLEAN]
  /\ phase # "serving" => answer = NoAnswer
  /\ answer.from = Mock => answer.single \/ initialised = {}

PInv == Read /\ Validated /\ Walked /\ Built /\ Answered

(* The file after Load is still a file.                                    *)
LEMMA LoadType ==
  ASSUME NEW c \in FileRecords
  PROVE  /\ WithDefaults(c.global) \in Settings
         /\ Synthesized(c) \in Seq(EntryRecords)
<1>1. c.global \in Settings /\ c.entries \in Seq(EntryRecords) /\ c.openaiKey \in BOOLEAN
  BY DEF FileRecords
<1>2. WithDefaults(c.global) \in Settings
  BY <1>1, PolicyAssumption DEF WithDefaults, Settings
<1>3. ASSUME NEW kind \in {"openai", "vertex"}, NEW complete \in BOOLEAN
      PROVE  Legacy(kind, complete) \in Seq(EntryRecords)
  <2> DEFINE e == [name |-> 1, kind |-> kind, padded |-> FALSE, complete |-> complete,
                   override |-> NoOverride]
  <2>1. e \in EntryRecords
    BY DEF EntryRecords, NoOverride, Settings
  <2>2. Legacy(kind, complete) = <<e>>
    BY DEF Legacy
  <2> HIDE DEF e
  <2> QED BY <2>1, <2>2
<1>4. Synthesized(c) \in Seq(EntryRecords)
  <2>1. /\ Legacy("openai", c.openaiKey) \in Seq(EntryRecords)
        /\ Legacy("vertex", c.vertex = "complete") \in Seq(EntryRecords)
        /\ <<>> \in Seq(EntryRecords)
    <3>1. (c.vertex = "complete") \in BOOLEAN
      OBVIOUS
    <3> QED BY <1>1, <1>3, <3>1, EmptySeq
  <2> QED BY <1>1, <2>1 DEF Synthesized
<1> QED BY <1>2, <1>4

(* Before main's loop nothing is reached, initialised or failed.           *)
LEMMA NothingReached ==
  ASSUME PInv, started = 0
  PROVE  initialised = {} /\ failed = {} /\ Reached = {}
<1>1. Reached = {}
  BY DEF Reached
<1> QED BY <1>1 DEF PInv, Walked

(* The process begins with any of the files.                               *)
LEMMA InitPInv == Init => PInv
<1> SUFFICES ASSUME Init PROVE PInv
  OBVIOUS
<1>1. /\ file \in FileRecords /\ cfg = file /\ phase = "reading" /\ started = 0
      /\ initialised = {} /\ failed = {} /\ router = <<>> /\ answer = NoAnswer
  BY StartupAssumption DEF Init
<1>2. Reached = {} /\ Len(cfg.entries) \in Nat
  BY <1>1 DEF Reached, FileRecords
<1>3. Read /\ Validated
  BY <1>1 DEF Read, Validated
<1>4. Walked
  BY <1>1, <1>2 DEF Walked
<1>5. Built
  BY <1>1 DEF Built
<1>6. Answered
  BY <1>1 DEF Answered, NoAnswer
<1> QED BY <1>3, <1>4, <1>5, <1>6 DEF PInv

(* Load.                                                                   *)
LEMMA LoadPInv == PInv /\ Load => PInv'
<1> SUFFICES ASSUME PInv, Load PROVE PInv'
  OBVIOUS
<1>1. /\ phase = "reading" /\ phase' = "loaded" /\ cfg = file /\ started = 0
      /\ cfg \in FileRecords
      /\ cfg' = [cfg EXCEPT !.global = WithDefaults(@), !.entries = Synthesized(cfg)]
      /\ UNCHANGED <<file, started, initialised, failed, router, answer>>
  BY DEF Load, PInv, Read, Validated
<1>2. cfg' \in FileRecords /\ cfg'.global = WithDefaults(file.global)
  BY <1>1, LoadType DEF FileRecords
<1>3. Len(cfg'.entries) \in Nat
  BY <1>2 DEF FileRecords
<1>4. initialised = {} /\ failed = {}
  BY <1>1, NothingReached
<1>5. Reached' = {}
  BY <1>1 DEF Reached
<1>6. Read'
  BY <1>1, <1>2 DEF PInv, Read
<1>7. Validated'
  BY <1>1 DEF Validated
<1>8. Walked'
  BY <1>1, <1>3, <1>4, <1>5 DEF Walked
<1>9. Built'
  BY <1>1, <1>4 DEF PInv, Built
<1>10. Answered'
  BY <1>1 DEF PInv, Answered
<1> QED BY <1>6, <1>7, <1>8, <1>9, <1>10 DEF PInv

(* Validate.                                                               *)
LEMMA ValidatePInv == PInv /\ (Refuse \/ Accept) => PInv'
<1> SUFFICES ASSUME PInv, Refuse \/ Accept PROVE PInv'
  OBVIOUS
<1>1. /\ phase = "loaded" /\ started = 0
      /\ phase' = "exited" \/ (phase' = "starting" /\ Valid(cfg))
      /\ UNCHANGED <<file, cfg, started, initialised, failed, router, answer>>
  BY DEF Refuse, Accept, PInv, Validated
<1>2. Read' /\ Reached' = Reached
  BY <1>1 DEF PInv, Read, Reached
<1>3. Valid(cfg)' = Valid(cfg)
  BY <1>1 DEF Valid
<1>4. Validated' /\ Walked' /\ Answered'
  BY <1>1, <1>2, <1>3 DEF PInv, Validated, Walked, Answered
<1>5. Built'
  BY <1>1 DEF PInv, Built
<1> QED BY <1>2, <1>4, <1>5 DEF PInv

(* The entry that main's loop is at has a name that no entry before it has.*)
LEMMA EntryIsNew ==
  ASSUME PInv, phase = "starting", started < Len(cfg.entries)
  PROVE  /\ started + 1 \in DOMAIN cfg.entries /\ Entry.name \notin Reached
         /\ started \in Nat /\ Entry \in EntryRecords
<1>1. /\ cfg.entries \in Seq(EntryRecords) /\ started \in Nat
      /\ Valid(cfg) /\ started =< Len(cfg.entries)
  BY DEF PInv, Read, Walked, Validated, FileRecords
<1>2. /\ DOMAIN cfg.entries = 1..Len(cfg.entries)
      /\ \A i, j \in DOMAIN cfg.entries : i # j => cfg.entries[i].name # cfg.entries[j].name
  BY <1>1 DEF Valid
<1>3. started + 1 \in DOMAIN cfg.entries /\ \A i \in 1..started : i \in DOMAIN cfg.entries /\ i # started + 1
  BY <1>1, <1>2
<1>4. Entry \in EntryRecords
  BY <1>1, <1>3, ElementOfSeq DEF Entry
<1> QED BY <1>1, <1>2, <1>3, <1>4 DEF Reached, Entry

(* main's loop: the entry is initialised, fails, or is passed over.        *)
LEMMA LoopPInv == PInv /\ (Initialise \/ InitialiseFails \/ PassOver) => PInv'
<1> SUFFICES ASSUME PInv, Initialise \/ InitialiseFails \/ PassOver PROVE PInv'
  OBVIOUS
<1>1. /\ phase = "starting" /\ started < Len(cfg.entries) /\ started' = started + 1
      /\ UNCHANGED <<file, cfg, phase, router, answer>>
  BY DEF Initialise, InitialiseFails, PassOver
<1>2. /\ started \in Nat /\ Len(cfg.entries) \in Nat /\ Entry.name \notin Reached
      /\ initialised \union failed = Reached /\ initialised \intersect failed = {}
  BY <1>1, EntryIsNew DEF PInv, Walked, Read, FileRecords
<1>3. \A i \in 1..(started + 1) : i \in 1..started \/ i = started + 1
  BY <1>2
<1>4. /\ initialised' \intersect failed' = {}
      /\ initialised' \union failed' = Reached' /\ initialised \subseteq initialised'
  <2>1. CASE PassOver
    <3>1. Entry.padded /\ initialised' = initialised /\ failed' = failed
      BY <2>1 DEF PassOver
    <3>2. Reached' = Reached
      BY <1>1, <1>2, <1>3, <3>1 DEF Reached, Entry
    <3> QED BY <1>2, <3>1, <3>2
  <2>2. CASE Initialise \/ InitialiseFails
    <3>1. /\ ~Entry.padded
          /\ \/ initialised' = initialised \union {Entry.name} /\ failed' = failed
             \/ initialised' = initialised /\ failed' = failed \union {Entry.name}
      BY <2>2 DEF Initialise, InitialiseFails
    <3>2. Reached' = Reached \union {Entry.name}
      BY <1>1, <1>2, <1>3, <3>1 DEF Reached, Entry
    <3> QED BY <1>2, <3>1, <3>2
  <2> QED BY <2>1, <2>2
<1>5. Read'
  BY <1>1 DEF PInv, Read
<1>6. Validated'
  BY <1>1 DEF PInv, Validated, Valid
<1>7. Walked'
  BY <1>1, <1>2, <1>4 DEF Walked
<1>8. Built'
  BY <1>1, <1>4 DEF PInv, Built
<1>9. Answered'
  BY <1>1, <1>4 DEF PInv, Answered, NoAnswer
<1> QED BY <1>5, <1>6, <1>7, <1>8, <1>9 DEF PInv

(* The router is made of what was initialised.                             *)
LEMMA BuildRouterPInv == PInv /\ BuildRouter => PInv'
<1> SUFFICES ASSUME PInv, BuildRouter PROVE PInv'
  OBVIOUS
<1>1. /\ phase = "starting" /\ started = Len(cfg.entries) /\ phase' = "built"
      /\ router' = [b \in initialised |-> RouterPolicy(cfg.global, Override(cfg, b))]
      /\ UNCHANGED <<file, cfg, started, initialised, failed, answer>>
  BY DEF BuildRouter
<1>2. Reached' = Reached
  BY <1>1 DEF Reached
<1>3. Read' /\ Walked' /\ Answered'
  BY <1>1, <1>2 DEF PInv, Read, Walked, Answered
<1>4. Validated'
  BY <1>1 DEF PInv, Validated, Valid
<1>5. DOMAIN router' = initialised
  BY <1>1
<1>6. \A b \in DOMAIN router' : router'[b] = RouterPolicy(cfg.global, Override(cfg, b))
  BY <1>1
<1>7. Built'
  BY <1>1, <1>5, <1>6 DEF Built
<1> QED BY <1>3, <1>4, <1>7 DEF PInv

(* The listener.                                                           *)
LEMMA ListenPInv == PInv /\ (Listen \/ ListenFails) => PInv'
<1> SUFFICES ASSUME PInv, Listen \/ ListenFails PROVE PInv'
  OBVIOUS
<1>1. /\ phase = "built" /\ phase' \in {"serving", "exited"}
      /\ UNCHANGED <<file, cfg, started, initialised, failed, router, answer>>
  BY DEF Listen, ListenFails
<1>2. Reached' = Reached
  BY <1>1 DEF Reached
<1>3. Read' /\ Walked' /\ Answered'
  BY <1>1, <1>2 DEF PInv, Read, Walked, Answered
<1>4. Validated'
  BY <1>1 DEF PInv, Validated, Valid
<1>5. Built'
  BY <1>1 DEF PInv, Built
<1> QED BY <1>3, <1>4, <1>5 DEF PInv

(* A backend that is initialised has a name that passed Validate.          *)
LEMMA NamesAreNames ==
  ASSUME PInv, NEW b \in initialised
  PROVE  /\ Valid(cfg) /\ b \in Nat \ {Mock} /\ b \in Names
         /\ \E i \in DOMAIN cfg.entries : cfg.entries[i].name = b
<1>1. PICK i \in 1..started : b = cfg.entries[i].name
  BY DEF PInv, Walked, Reached
<1>2. /\ cfg.entries \in Seq(EntryRecords) /\ started \in 0..Len(cfg.entries)
  BY DEF PInv, Read, Walked, FileRecords
<1>3. i \in DOMAIN cfg.entries /\ started > 0
  BY <1>2
<1>4. Valid(cfg)
  BY <1>3 DEF PInv, Validated
<1>5. cfg.entries[i] \in EntryRecords /\ cfg.entries[i].name # NoName
  BY <1>2, <1>3, <1>4, ElementOfSeq DEF Valid, ValidEntry
<1> QED BY <1>1, <1>3, <1>4, <1>5 DEF EntryRecords, NoName, Mock, Names

(* Whoever answers is the mock or an initialised backend, and the mock     *)
(* only when it is asked for or there is nobody else.                      *)
LEMMA AnswerPInv ==
  PInv /\ (AnswerSingleChat \/ AnswerWithoutRouter \/ AnswerRouted \/ AnswerUnrouted) => PInv'
<1> SUFFICES ASSUME PInv,
                    AnswerSingleChat \/ AnswerWithoutRouter \/ AnswerRouted \/ AnswerUnrouted
             PROVE  PInv'
  OBVIOUS
<1>1. PICK who, single : AnswerFrom(who, single)
  BY DEF AnswerSingleChat, AnswerWithoutRouter, AnswerRouted, AnswerUnrouted
<1>2. /\ phase = "serving" /\ DOMAIN router = initialised
      /\ UNCHANGED <<file, cfg, phase, started, initialised, failed, router>>
  BY <1>1 DEF AnswerFrom, PInv, Built
<1>3. /\ answer' \in [from : initialised \union {Mock}, single : BOOLEAN]
      /\ answer'.from = Mock => answer'.single \/ initialised = {}
  <2>1. CASE AnswerSingleChat
    BY <2>1 DEF AnswerSingleChat, AnswerFrom
  <2>2. CASE AnswerWithoutRouter
    BY <1>2, <2>2 DEF AnswerWithoutRouter, AnswerFrom
  <2>3. CASE AnswerRouted
    <3>1. PICK b \in initialised : answer' = [from |-> b, single |-> FALSE]
      BY <1>2, <2>3 DEF AnswerRouted, AnswerFrom
    <3>2. b # Mock
      BY NamesAreNames
    <3> QED BY <3>1, <3>2
  <2>4. CASE AnswerUnrouted
    <3>1. initialised # {} /\ answer' = [from |-> PickDisabled, single |-> FALSE]
      BY <1>2, <2>4 DEF AnswerUnrouted, AnswerFrom
    <3>2. initialised \in SUBSET Nat
      BY NamesAreNames
    <3>3. PickDisabled \in initialised
      <4>1. \E x \in initialised : \A y \in initialised : x =< y
        BY <3>1, <3>2, LeastNatural
      <4> QED BY <4>1 DEF PickDisabled, Min
    <3>4. PickDisabled # Mock
      BY <3>3, NamesAreNames
    <3> QED BY <3>1, <3>3, <3>4
  <2> QED BY <2>1, <2>2, <2>3, <2>4
<1>4. Reached' = Reached
  BY <1>2 DEF Reached
<1>5. Read' /\ Walked' /\ Built'
  BY <1>2, <1>4 DEF PInv, Read, Walked, Built
<1>6. Validated'
  BY <1>2 DEF PInv, Validated, Valid
<1>7. Answered'
  BY <1>2, <1>3 DEF Answered
<1> QED BY <1>5, <1>6, <1>7 DEF PInv

(* Every step keeps the invariant.                                         *)
LEMMA NextPInv == PInv /\ [Next]_vars => PInv'
<1> SUFFICES ASSUME PInv, [Next]_vars PROVE PInv'
  OBVIOUS
<1>1. CASE Next
  BY <1>1, LoadPInv, ValidatePInv, LoopPInv, BuildRouterPInv, ListenPInv, AnswerPInv DEF Next
<1>2. CASE UNCHANGED vars
  <2>1. UNCHANGED <<file, cfg, phase, started, initialised, failed, router, answer>>
    BY <1>2 DEF vars
  <2>2. Reached' = Reached /\ Valid(cfg)' = Valid(cfg)
    BY <2>1 DEF Reached, Valid
  <2> QED BY <2>1, <2>2 DEF PInv, Read, Validated, Walked, Built, Answered
<1> QED BY <1>1, <1>2

\* The invariant holds in every state of every run of the process.
LEMMA StartupInvariant == Spec => []PInv
BY InitPInv, NextPInv, PTL DEF Spec

----------------------------------------------------------------------------
(* What a backend of the router has for numbers: those of a valid file,    *)
(* with the defaults for what the routing section leaves out.              *)
LEMMA ValidatedNumbers ==
  ASSUME PInv, NEW b \in initialised
  PROVE  /\ cfg.global = WithDefaults(file.global) /\ file.global \in Settings
         /\ cfg.global \in [Fields -> Nat] /\ InScale(cfg.global)
         /\ Override(cfg, b) \in [Fields -> Nat \union {Unset}] /\ InScale(Override(cfg, b))
<1>1. started > 0 /\ phase # "reading"
  <2>1. PICK i \in 1..started : b = cfg.entries[i].name
    BY DEF PInv, Walked, Reached
  <2>2. started \in Nat
    BY DEF PInv, Walked, Read, FileRecords
  <2>3. started > 0
    BY <2>1, <2>2
  <2> QED BY <2>3 DEF PInv, Validated
<1>2. /\ cfg.global = WithDefaults(file.global) /\ file.global \in Settings
      /\ cfg.global \in Settings /\ cfg.entries \in Seq(EntryRecords)
  BY <1>1 DEF PInv, Read, FileRecords
<1>3. ValidNumbers(cfg.global) /\ \A i \in DOMAIN cfg.entries : ValidEntry(cfg.entries[i])
  BY NamesAreNames DEF Valid
<1>4. \A f \in Fields : cfg.global[f] # Unset
  BY <1>2, PolicyAssumption DEF WithDefaults
<1>5. cfg.global \in [Fields -> Nat] /\ InScale(cfg.global)
  BY <1>2, <1>3, <1>4 DEF ValidNumbers, Settings, InScale, Fields, RetryFields, BreakerFields
<1>6. PICK i \in DOMAIN cfg.entries : Override(cfg, b) = cfg.entries[i].override
  BY NamesAreNames DEF Override
<1>7. Override(cfg, b) \in Settings /\ ValidNumbers(Override(cfg, b))
  <2>1. cfg.entries[i] \in EntryRecords
    BY <1>2, ElementOfSeq
  <2> QED BY <1>3, <1>6, <2>1 DEF ValidEntry, EntryRecords
<1>8. Override(cfg, b) \in [Fields -> Nat \union {Unset}] /\ InScale(Override(cfg, b))
  BY <1>7 DEF ValidNumbers, Settings, InScale, Fields, RetryFields, BreakerFields
<1> QED BY <1>2, <1>5, <1>8

(* The types, and the numbers that a router and a server work with: no     *)
(* valid file gives a threshold, a timeout or a number of attempts of 0.   *)
THEOREM StartupTypes == Spec => []StartupTypeOK
<1>1. PInv => StartupTypeOK
  <2> SUFFICES ASSUME PInv PROVE StartupTypeOK
    OBVIOUS
  <2>1. ASSUME NEW b \in DOMAIN router,
               NEW p \in {router[b], ServerPolicy(cfg.global, Override(cfg, b))}
        PROVE  /\ p \in [Fields -> Nat]
               /\ \A f \in Fields \ {"jitter"} : p[f] > 0
               /\ p["max"] >= p["base"] /\ p["rate"] =< Scale /\ p["jitter"] =< Scale
    <3>1. b \in initialised /\ router[b] = RouterPolicy(cfg.global, Override(cfg, b))
      BY DEF PInv, Built
    <3>2. PICK global \in [Fields -> Nat], override \in [Fields -> Nat \union {Unset}] :
            global = cfg.global /\ override = Override(cfg, b)
      BY <3>1, ValidatedNumbers
    <3>3. Usable(RouterPolicy(global, override)) /\ Usable(ServerPolicy(global, override))
      BY PoliciesUsable
    <3>4. Usable(p)
      BY <3>1, <3>2, <3>3
    <3> QED BY <3>4 DEF Usable, Fields, RetryFields
  <2>2. answer \in [from : Names \union {Mock}, single : BOOLEAN]
    BY NamesAreNames DEF PInv, Answered
  <2> QED BY <2>1, <2>2 DEF PInv, Read, Walked, Built, Reached, StartupTypeOK
<1> QED BY <1>1, StartupInvariant, PTL

(* A process says it is ready exactly when a backend works or none is      *)
(* configured, and then no stream is answered by the mock in the place of  *)
(* a configured backend (BackendsReady, Ready, handleChatCompletions).     *)
THEOREM ReadinessIsTrue == Spec => []ReadyMeansBackend
<1>1. PInv => ReadyMeansBackend
  <2> SUFFICES ASSUME PInv PROVE ReadyMeansBackend
    OBVIOUS
  <2>1. CASE phase = "serving"
    <3>1. /\ started = Len(cfg.entries) /\ cfg.entries \in Seq(EntryRecords)
          /\ initialised \union failed = Reached
      BY <2>1 DEF PInv, Walked, Read, FileRecords
    <3>2. Reached = {} <=> \A i \in DOMAIN cfg.entries : cfg.entries[i].padded
      <4> DEFINE working == {j \in 1..started : ~cfg.entries[j].padded}
      <4>1. DOMAIN cfg.entries = 1..started
        BY <3>1
      <4>2. working = {} <=> \A i \in DOMAIN cfg.entries : cfg.entries[i].padded
        BY <4>1
      <4>3. Reached = {} <=> working = {}
        BY DEF Reached
      <4> QED BY <4>2, <4>3
    <3>3. Ready <=> initialised # {} \/ \A i \in DOMAIN cfg.entries : cfg.entries[i].padded
      BY <2>1, <3>1, <3>2 DEF Ready, BackendsReady
    <3>4. answer.from = Mock /\ ~answer.single => initialised = {}
      BY DEF PInv, Answered
    <3> QED BY <2>1, <3>3, <3>4 DEF ReadyMeansBackend
  <2>2. CASE phase # "serving"
    BY <2>2 DEF ReadyMeansBackend, Ready
  <2> QED BY <2>1, <2>2
<1> QED BY <1>1, StartupInvariant, PTL

(* Every backend of every valid file is governed by the numbers that are   *)
(* written for it, through all three layers that resolve them.  Of a       *)
(* ttft_timeout_ms of 0, which the README gives another meaning than the   *)
(* code, the property says nothing.                                        *)
THEOREM PoliciesAsWritten == Spec => []PolicyAsWritten
<1>1. PInv => PolicyAsWritten
  <2> SUFFICES ASSUME PInv, phase = "built", NEW b \in DOMAIN router
               PROVE  LET own    == Override(cfg, b)
                          source == IF \A f \in BreakerFields : Written(own, f) = 0
                                    THEN NoOverride ELSE own
                      IN  /\ \A f \in (TimeoutFields \union RetryFields) \ Disputed(own) :
                               ServerPolicy(cfg.global, own)[f] = Meant(own, f)
                          /\ \A f \in BreakerFields : router[b][f] = Meant(source, f)
    BY DEF PolicyAsWritten
  <2>1. b \in initialised /\ router[b] = RouterPolicy(cfg.global, Override(cfg, b))
    BY DEF PInv, Built
  <2>2. PICK global \in [Fields -> Nat], own \in [Fields -> Nat \union {Unset}] :
          /\ global = cfg.global /\ own = Override(cfg, b)
          /\ InScale(global) /\ InScale(own)
    BY <2>1, ValidatedNumbers
  <2>3. PICK w : w = Given(global, own)
    OBVIOUS
  <2>4. \A f \in Fields : global[f] = IF file.global[f] # Unset THEN file.global[f] ELSE Default[f]
    BY <2>1, <2>2, ValidatedNumbers DEF WithDefaults
  <2>5. \A f \in Fields : Written(own, f) = w[f]
    BY <2>3, <2>4 DEF Written, Given
  <2>6. \A f \in Fields : Written(NoOverride, f) = global[f]
    BY <2>4 DEF Written, NoOverride
  <2>7. /\ TimeoutFields \union RetryFields \subseteq Fields /\ BreakerFields \subseteq Fields
        /\ "jitter" \in Fields /\ "max" \in Fields /\ "base" \in Fields
        /\ "jitter" \notin BreakerFields /\ "max" \notin BreakerFields
    BY DEF Fields, TimeoutFields, RetryFields, BreakerFields
  <2>8. ASSUME NEW f \in TimeoutFields \union RetryFields
        PROVE  ServerPolicy(global, own)[f] = Meant(own, f)
    <3>1. Meant(own, f) =
            CASE f = "jitter" -> w[f]
              [] f = "max"    -> Larger(IF w["max"] = 0 THEN Default["max"] ELSE w["max"],
                                        IF w["base"] = 0 THEN Default["base"] ELSE w["base"])
              [] OTHER        -> IF w[f] = 0 THEN Default[f] ELSE w[f]
      BY <2>5, <2>7 DEF Meant
    <3> QED BY <2>2, <2>3, <3>1, ServerPolicyMeant
  <2> DEFINE source == IF \A f \in BreakerFields : Written(own, f) = 0 THEN NoOverride ELSE own
  <2>9. ASSUME NEW f \in BreakerFields
        PROVE  RouterPolicy(global, own)[f] = Meant(source, f)
    <3>1. RouterPolicy(global, own)[f] =
            LET v == IF \A g \in BreakerFields : w[g] = 0 THEN global[f] ELSE w[f]
            IN  IF v = 0 THEN Default[f] ELSE v
      BY <2>2, <2>3, RouterPolicyMeant
    <3>2. Meant(source, f) = IF Written(source, f) = 0 THEN Default[f] ELSE Written(source, f)
      BY <2>7 DEF Meant
    <3>3. Written(source, f) = IF \A g \in BreakerFields : w[g] = 0 THEN global[f] ELSE w[f]
      BY <2>5, <2>6, <2>7
    <3> QED BY <3>1, <3>2, <3>3
  <2> QED BY <2>1, <2>2, <2>8, <2>9
<1> QED BY <1>1, StartupInvariant, PTL

(* No retry waits shorter or longer than its doubled base, its cap and     *)
(* what the upstream asked for say, but for the share of jitter.           *)
THEOREM BackoffsAreInBounds == Spec => []BackoffInBounds
<1>1. PInv => BackoffInBounds
  <2> SUFFICES ASSUME PInv, phase = "built", NEW b \in DOMAIN router,
                      NEW p, p = ServerPolicy(cfg.global, Override(cfg, b)),
                      NEW attempt \in 0..(p["attempts"] - 1), NEW asked \in RetryAfters,
                      NEW delay \in Backoffs(p, attempt, asked)
               PROVE  LET middle == IF attempt = 0 /\ asked = 0 THEN 0
                                    ELSE Larger(Smaller(p["base"] * TwoTo(attempt), p["max"]),
                                                asked)
                      IN  /\ 2 * (delay - middle) * Scale =< 2 * p["jitter"] * middle + Scale
                          /\ 2 * (middle - delay) * Scale =< 2 * p["jitter"] * middle + Scale
    BY DEF BackoffInBounds
  <2>1. b \in initialised
    BY DEF PInv, Built
  <2>2. PICK global \in [Fields -> Nat], override \in [Fields -> Nat \union {Unset}] :
          global = cfg.global /\ override = Override(cfg, b)
    BY <2>1, ValidatedNumbers
  <2>3. Usable(p)
    BY <2>2, PoliciesUsable
  <2>4. /\ p["base"] \in Nat /\ p["max"] \in Nat /\ p["base"] =< p["max"]
        /\ attempt \in Nat /\ asked \in Nat
    BY <2>3, StartupAssumption DEF Usable, Fields, RetryFields
  <2>5. Doubled(p["base"], p["max"], attempt) = Smaller(p["base"] * TwoTo(attempt), p["max"])
    BY <2>4, DoubledIsPower
  <2> QED BY <2>3, <2>4, <2>5, BackoffsBounds
<1> QED BY <1>1, StartupInvariant, PTL

=============================================================================
