---------------------------- MODULE RouterProof -----------------------------
(***************************************************************************)
(* The safety properties of Router for any number of backends, any set of  *)
(* requests and any breaker configuration: the types, the ownership of     *)
(* probes, and how stale a pick can be.                                    *)
(*                                                                         *)
(* First the three ways to pick: each names a candidate it was given.      *)
(* Then the invariant, which relates what a request remembers of its scan  *)
(* to what the breakers have done since.                                   *)
(***************************************************************************)
EXTENDS Router, OperatorLemmas

(* Among candidates of the same score one beats the others: the preferred  *)
(* one, else the first closed one, else the first.                         *)
LEMMA TieBreakDecides ==
  ASSUME NEW seen, NEW T \in SUBSET Nat, T # {},
         \A i \in T : seen[i].name = i
  PROVE  \E i \in T : \A j \in T \ {i} : TieBreak(seen[i], seen[j])
<1> DEFINE closed == {i \in T : seen[i].state = "closed"}
<1>1. CASE Prefer \in T
  BY <1>1 DEF TieBreak
<1>2. CASE Prefer \notin T /\ closed # {}
  <2>1. closed \in SUBSET Nat
    OBVIOUS
  <2>2. PICK i \in closed : \A j \in closed : i =< j
    BY <1>2, <2>1, LeastNatural
  <2>3. \A j \in T \ {i} : TieBreak(seen[i], seen[j])
    BY <1>2, <2>2 DEF TieBreak
  <2> QED BY <2>2, <2>3
<1>3. CASE Prefer \notin T /\ closed = {}
  <2>1. PICK i \in T : \A j \in T : i =< j
    BY LeastNatural
  <2>2. ASSUME NEW j \in T \ {i} PROVE TieBreak(seen[i], seen[j])
    <3>1. seen[i].state # "closed" /\ seen[j].state # "closed"
      BY <1>3
    <3>2. seen[j].name # Prefer /\ seen[i].name < seen[j].name
      BY <1>3, <2>1
    <3> QED BY <3>1, <3>2 DEF TieBreak
  <2> QED BY <2>2
<1> QED BY <1>1, <1>2, <1>3

(* Whatever number the candidates are compared by, one is best.            *)
LEMMA OneIsBest ==
  ASSUME NEW seen, NEW T \in SUBSET Nat, T # {}, NEW rank \in [T -> Nat],
         \A i \in T : seen[i].name = i
  PROVE  \E i \in T : \A j \in T \ {i} :
            rank[i] < rank[j] \/ (rank[i] = rank[j] /\ TieBreak(seen[i], seen[j]))
<1> DEFINE ranks == {rank[i] : i \in T}
<1>1. ranks \in SUBSET Nat /\ ranks # {}
  OBVIOUS
<1>2. PICK n \in ranks : \A m \in ranks : n =< m
  <2> HIDE DEF ranks
  <2> QED BY <1>1, LeastNatural
<1> DEFINE tied == {i \in T : rank[i] = n}
<1>3. tied \in SUBSET Nat /\ tied # {} /\ \A i \in tied : seen[i].name = i
  BY <1>2
<1>4. PICK i \in tied : \A j \in tied \ {i} : TieBreak(seen[i], seen[j])
  <2> HIDE DEF tied
  <2> QED BY <1>3, TieBreakDecides
<1>5. \A j \in T \ {i} : n < rank[j] \/ j \in tied \ {i}
  BY <1>1, <1>2
<1> QED BY <1>4, <1>5

(* Without scores the pick is one of the candidates (pickNoStats).         *)
LEMMA PickNoStatsIn ==
  ASSUME NEW E \in SUBSET Nat, E # {} PROVE PickNoStats(E) \in E
<1>1. \E i \in E : \A j \in E : i =< j
  BY LeastNatural
<1> QED BY <1>1 DEF PickNoStats

(* The best candidate is one that is still eligible (pickBestCandidate).   *)
LEMMA PickBestIn ==
  ASSUME NEW seen, NEW E \in SUBSET Nat, E # {},
         \A i \in E : seen[i].name = i /\ seen[i].score \in Nat
  PROVE  PickBest(seen, E) \in E
<1> DEFINE scored == {i \in E : seen[i].score > 0}
<1>1. CASE scored = {}
  BY <1>1, PickNoStatsIn DEF PickBest
<1>2. CASE scored # {}
  <2> DEFINE rank == [i \in scored |-> seen[i].score]
  <2>1. /\ scored \in SUBSET Nat /\ rank \in [scored -> Nat]
        /\ \A i \in scored : seen[i].name = i
    OBVIOUS
  <2>2. \E i \in scored : \A j \in scored \ {i} :
           rank[i] < rank[j] \/ (rank[i] = rank[j] /\ TieBreak(seen[i], seen[j]))
    <3> HIDE DEF rank, scored
    <3> QED BY <1>2, <2>1, OneIsBest
  <2>3. \E i \in scored : \A j \in scored \ {i} :
           \/ seen[i].score < seen[j].score
           \/ seen[i].score = seen[j].score /\ TieBreak(seen[i], seen[j])
    BY <2>2
  <2> QED BY <1>2, <2>3 DEF PickBest
<1> QED BY <1>1, <1>2

(* The last resort is one of the scanned backends (pickMostRecoverable).   *)
LEMMA PickMostRecoverableIn ==
  ASSUME NEW seen \in Seq(Candidates), seen # <<>>,
         \A i \in 1..Len(seen) : seen[i].name = i
  PROVE  PickMostRecoverable(seen) \in 1..Len(seen)
<1> DEFINE D == 1..Len(seen)
           rank == [i \in D |-> seen[i].recoverAt]
<1>1. DOMAIN seen = D /\ D \in SUBSET Nat /\ D # {} /\ \A i \in D : seen[i] \in Candidates
  BY ElementOfSeq
<1>2. rank \in [D -> Nat] /\ \A i \in D : seen[i].name = i
  BY <1>1 DEF Candidates
<1>3. \E i \in D : \A j \in D \ {i} :
         rank[i] < rank[j] \/ (rank[i] = rank[j] /\ TieBreak(seen[i], seen[j]))
  <2> HIDE DEF rank, D
  <2> QED BY <1>1, <1>2, OneIsBest
<1>4. \E i \in D : \A j \in D \ {i} :
         \/ seen[i].recoverAt < seen[j].recoverAt
         \/ seen[i].recoverAt = seen[j].recoverAt /\ TieBreak(seen[i], seen[j])
  BY <1>3
<1> HIDE DEF D
<1>5. PickMostRecoverable(seen) \in D
  BY <1>1, <1>4 DEF PickMostRecoverable
<1> QED BY <1>5 DEF D

----------------------------------------------------------------------------
(***************************************************************************)
(* The inductive invariant.  Overtaken: whoever found a breaker closed at  *)
(* s may find it otherwise only because it opened at s or later, by the    *)
(* clock and not by the instant its report came with.  ScanSound:          *)
(* what a request has noted of its scan, and that each candidate it noted  *)
(* as closed is closed or overtaken.  Staged: how much it has scanned and  *)
(* whether it has decided.  Current: StaleAtWorst, of one request.         *)
(***************************************************************************)
Overtaken(breaker, opened, s) == breaker.state = "closed" \/ opened >= s

ScanSound(q) ==
  /\ q.at =< now
  /\ q.pc # "idle" => q.at \in Instant
  /\ q.left \subseteq 1..Len(q.seen)
  /\ \A i \in 1..Len(q.seen) : q.seen[i].name = i
  /\ \A i \in q.left : q.seen[i].state # "open"
  /\ \A i \in Backends :
       i =< Len(q.seen) /\ q.seen[i].state = "closed"
         => Overtaken(breakers[i], openedAt[i], q.at)

Staged(q) ==
  /\ q.pc \in {"scanning", "reading"} => Len(q.seen) < NumBackends
  /\ q.pc = "picking" => Len(q.seen) = NumBackends
  /\ q.pc \in {"decided", "reporting"} <=> q.choice # NoBackend

Current(q) ==
  q.pc = "decided" /\ q.admitted /\ ~q.probe
    => Overtaken(breakers[q.choice], openedAt[q.choice], q.at)

RInv ==
  /\ now \in Instant
  /\ breakers \in [Backends -> Breakers]
  /\ stats \in [Backends -> Stats]
  /\ req \in [Requests -> RequestRecords]
  /\ openedAt \in [Backends -> Nat]
  /\ \A b \in Backends : Coherent(breakers[b])
  /\ \A r \in Requests : ScanSound(req[r]) /\ Staged(req[r]) /\ Current(req[r])

(* What the runs check follows.                                            *)
LEMMA Implied == RInv => RouterTypeOK /\ StaleAtWorst
<1> SUFFICES ASSUME RInv PROVE RouterTypeOK /\ StaleAtWorst
  OBVIOUS
<1>1. RouterTypeOK
  BY DEF RInv, RouterTypeOK, Staged
<1>2. StaleAtWorst
  BY DEF RInv, StaleAtWorst, Current, Overtaken
<1> QED BY <1>1, <1>2

(* A look at a breaker or a try for its probe leaves a closed one closed:  *)
(* any instant it was overtaken at before, it is after.                    *)
LEMMA LooksOvertake ==
  ASSUME NEW b, Coherent(b), NEW t \in Instant, NEW opened, NEW s, Overtaken(b, opened, s)
  PROVE  /\ Overtaken(Advance(b, t), opened, s)
         /\ Overtaken(AcquireProbe(b, t), opened, s)
<1>1. CASE b.state = "closed"
  BY <1>1, ClosedStays DEF Overtaken
<1>2. CASE opened >= s
  BY <1>2 DEF Overtaken
<1> QED BY <1>1, <1>2 DEF Overtaken

(* A report may open a closed one, but does so now: no instant that has    *)
(* passed is after that, whatever instant the report came with.            *)
LEMMA ReportsOvertake ==
  ASSUME NEW n \in Nat, NEW b, NEW o, NEW opened \in Nat, NEW s \in Nat, s =< n,
         Overtaken(b, opened, s)
  PROVE  Overtaken(o, IF o.state = "closed" THEN ZeroTime
                      ELSE IF b.state = "closed" THEN n ELSE opened, s)
BY DEF Overtaken

----------------------------------------------------------------------------
(* What a scan notes of a backend is a candidate, and an open one is never *)
(* noted as eligible (buildCandidates).                                    *)
LEMMA CandidateType ==
  ASSUME NEW b \in Backends, NEW breaker \in Breakers, NEW stat \in Stats, NEW t
  PROVE  /\ Candidate(b, breaker, stat, t) \in Candidates
         /\ Candidate(b, breaker, stat, t).name = b
         /\ Candidate(b, breaker, stat, t).state = breaker.state
         /\ Candidate(b, breaker, stat, t).eligible => breaker.state # "open"
<1>1. Eligible(breaker, stat, t) \in BOOLEAN
      /\ (Eligible(breaker, stat, t) => breaker.state # "open")
  <2>1. CASE breaker.state = "open"
    BY <2>1 DEF Eligible
  <2>2. CASE breaker.state = "half_open"
    BY <2>2 DEF Eligible, ProbeAllowed
  <2>3. CASE breaker.state = "closed"
    BY <2>3 DEF Eligible, InCooldown
  <2> QED BY <2>1, <2>2, <2>3 DEF Breakers, BreakerStates
<1>2. /\ (IF Ready(breaker, stat, t) THEN stat.ewma ELSE 0) \in Nat
      /\ (IF breaker.state = "open" THEN breaker.openUntil ELSE stat.cooldownUntil) \in Nat
  BY DEF Stats, Breakers
<1> QED BY <1>1, <1>2 DEF Candidate, Candidates, Breakers

(* A report leaves well-typed statistics (Stats.ObserveWithCooldown).      *)
LEMMA ObserveStatsType ==
  ASSUME NEW stat \in Stats, NEW t \in Nat, NEW ttft \in Nat,
         NEW ewma \in EwmaAfter(stat, ttft), NEW failed \in BOOLEAN,
         NEW cooldown \in Nat
  PROVE  ObserveStats(stat, t, ttft, ewma, failed, cooldown) \in Stats
<1>1. ewma \in Nat
  BY DEF EwmaAfter, Stats
<1>2. (IF ttft > 0 /\ stat.samples < MinSamples THEN stat.samples + 1 ELSE stat.samples)
        \in 0..MinSamples
  BY RoutingAssumption DEF Stats
<1>3. (IF failed THEN t + cooldown ELSE stat.cooldownUntil) \in Nat
  <2>1. CASE failed = TRUE
    BY <2>1
  <2>2. CASE failed = FALSE
    BY <2>2 DEF Stats
  <2> QED BY <2>1, <2>2
<1> QED BY <1>1, <1>2, <1>3 DEF ObserveStats, Stats

(***************************************************************************)
(* A pick, whatever it rests on, names a backend.                          *)
(***************************************************************************)
LEMMA PickTypes ==
  ASSUME RInv, NEW r \in Requests, req[r].pc = "picking"
  PROVE  /\ req[r].left # {} => /\ PickBest(req[r].seen, req[r].left) \in req[r].left
                               /\ PickBest(req[r].seen, req[r].left) \in Backends
         /\ PickMostRecoverable(req[r].seen) \in Backends
<1> DEFINE seen == req[r].seen
           left == req[r].left
<1>1. /\ seen \in Seq(Candidates) /\ Len(seen) = NumBackends
      /\ left \in SUBSET Nat /\ left \subseteq 1..NumBackends
      /\ \A i \in 1..Len(seen) : seen[i].name = i
  BY RoutingAssumption DEF RInv, RequestRecords, Staged, ScanSound, Backends
<1>2. \A i \in 1..Len(seen) : seen[i] \in Candidates
  BY <1>1, ElementOfSeq
<1>3. \A i \in left : seen[i].name = i /\ seen[i].score \in Nat
  BY <1>1, <1>2 DEF Candidates
<1>4. seen # <<>>
  BY <1>1, RoutingAssumption, EmptySeq
<1> HIDE DEF seen, left
<1>5. left # {} => PickBest(seen, left) \in left
  BY <1>1, <1>3, PickBestIn
<1>6. PickMostRecoverable(seen) \in 1..Len(seen)
  BY <1>1, <1>4, PickMostRecoverableIn
<1> QED BY <1>1, <1>5, <1>6 DEF seen, left, Backends

----------------------------------------------------------------------------
(***************************************************************************)
(* Every step of a request replaces its own record and moves at most one   *)
(* breaker.  What the record and that breaker must satisfy for the         *)
(* invariant to survive is the same for all of them.                       *)
(***************************************************************************)
Forwards ==
  /\ openedAt' \in [Backends -> Nat]
  /\ \A b \in Backends :
       /\ Coherent(breakers'[b])
       /\ \A s \in Nat : s =< now /\ Overtaken(breakers[b], openedAt[b], s)
                           => Overtaken(breakers'[b], openedAt'[b], s)

(* Nobody else's record changes, and a probe that is in flight now is r's  *)
(* or was in flight before and not r's.                                    *)
Passes(r) ==
  /\ \A s \in Requests \ {r} : req'[s] = req[s]
  /\ \A b \in Backends : breakers'[b].probeInFlight =>
       \/ req'[r].choice = b /\ req'[r].probe
       \/ breakers[b].probeInFlight /\ ~(req[r].choice = b /\ req[r].probe)

(* A scan that was sound stays so while breakers move forwards.            *)
LEMMA ScanKept ==
  ASSUME NEW q \in RequestRecords, ScanSound(q), now \in Instant, Forwards,
         now' \in Instant, now' >= now
  PROVE  ScanSound(q)'
<1>1. q.at \in Nat /\ q.at =< now /\ q.at =< now'
  BY DEF RequestRecords, ScanSound, Instant
<1>2. ASSUME NEW i \in Backends, i =< Len(q.seen), q.seen[i].state = "closed"
      PROVE  Overtaken(breakers'[i], openedAt'[i], q.at)
  BY <1>1, <1>2 DEF ScanSound, Forwards
<1> QED BY <1>1, <1>2 DEF ScanSound

(* So does what was decided.                                               *)
LEMMA CurrentKept ==
  ASSUME NEW q \in RequestRecords, ScanSound(q), Staged(q), Current(q), Forwards
  PROVE  Current(q)'
<1> SUFFICES ASSUME q.pc = "decided", q.admitted, ~q.probe
             PROVE  Overtaken(breakers'[q.choice], openedAt'[q.choice], q.at)
  BY DEF Current
<1>1. q.choice \in Backends /\ q.at \in Nat /\ q.at =< now
  BY DEF RequestRecords, ScanSound, Staged, NoBackend
<1>2. Overtaken(breakers[q.choice], openedAt[q.choice], q.at)
  BY DEF Current
<1> QED BY <1>1, <1>2 DEF Forwards

(* A step of request r.                                                    *)
LEMMA RequestStep ==
  ASSUME RInv, NEW r \in Requests,
         req' \in [Requests -> RequestRecords],
         \A s \in Requests \ {r} : req'[s] = req[s],
         now' = now, stats' \in [Backends -> Stats],
         breakers' \in [Backends -> Breakers], Forwards,
         (ScanSound(req[r]) /\ Staged(req[r]) /\ Current(req[r]))'
  PROVE  RInv'
<1>1. now \in Instant /\ now' \in Instant /\ now' >= now
  BY DEF RInv, Instant
<1>2. openedAt' \in [Backends -> Nat] /\ \A b \in Backends : Coherent(breakers'[b])
  BY DEF Forwards
<1>3. ASSUME NEW s \in Requests \ {r}
      PROVE  (ScanSound(req[s]) /\ Staged(req[s]) /\ Current(req[s]))'
  <2>1. PICK c \in RequestRecords : c = req[s]
    BY DEF RInv
  <2>2. ScanSound(c) /\ Staged(c) /\ Current(c)
    BY <2>1 DEF RInv
  <2>3. ScanSound(c)' /\ Staged(c) /\ Current(c)'
    BY <1>1, <2>2, ScanKept, CurrentKept
  <2> QED BY <2>1, <2>3 DEF ScanSound, Staged, Current
<1> QED BY <1>1, <1>2, <1>3 DEF RInv

(* A step that leaves every request where it is.                           *)
LEMMA QuietStep ==
  ASSUME RInv, req' = req, stats' = stats, now' \in Instant, now' >= now,
         breakers' \in [Backends -> Breakers], Forwards
  PROVE  RInv'
<1>1. openedAt' \in [Backends -> Nat] /\ \A b \in Backends : Coherent(breakers'[b])
  BY DEF Forwards
<1>2. ASSUME NEW r \in Requests
      PROVE  (ScanSound(req[r]) /\ Staged(req[r]) /\ Current(req[r]))'
  <2>1. PICK c \in RequestRecords : c = req[r]
    BY DEF RInv
  <2>2. now \in Instant /\ ScanSound(c) /\ Staged(c) /\ Current(c)
    BY <2>1 DEF RInv
  <2>3. ScanSound(c)' /\ Staged(c) /\ Current(c)'
    BY <2>2, ScanKept, CurrentKept
  <2> QED BY <2>1, <2>3 DEF ScanSound, Staged, Current
<1> QED BY <1>1, <1>2 DEF RInv

(* Breakers that do not move have not moved backwards.                     *)
LEMMA Unmoved == RInv /\ UNCHANGED <<breakers, openedAt>> => Forwards
BY DEF RInv, Forwards

(* One breaker moves.                                                      *)
LEMMA OneMoves ==
  ASSUME RInv, NEW b \in Backends, NEW o, breakers' = [breakers EXCEPT ![b] = o],
         Coherent(o),
         openedAt' \in [Backends -> Nat],
         \A c \in Backends \ {b} : openedAt'[c] = openedAt[c],
         \A s \in Nat : s =< now /\ Overtaken(breakers[b], openedAt[b], s)
                          => Overtaken(o, openedAt'[b], s)
  PROVE  /\ breakers' \in [Backends -> Breakers]
         /\ breakers'[b] = o
         /\ \A c \in Backends \ {b} : breakers'[c] = breakers[c]
         /\ Forwards
<1>1. o \in Breakers
  BY DEF Coherent
<1>2. /\ breakers' \in [Backends -> Breakers]
      /\ breakers'[b] = o
      /\ \A c \in Backends \ {b} : breakers'[c] = breakers[c]
  BY <1>1 DEF RInv
<1>3. Forwards
  <2> SUFFICES ASSUME NEW c \in Backends
               PROVE  /\ Coherent(breakers'[c])
                      /\ \A s \in Nat : s =< now /\ Overtaken(breakers[c], openedAt[c], s)
                                          => Overtaken(breakers'[c], openedAt'[c], s)
    BY DEF Forwards
  <2>1. CASE c = b
    BY <1>2, <2>1
  <2>2. CASE c # b
    BY <1>2, <2>2 DEF RInv
  <2> QED BY <2>1, <2>2
<1> QED BY <1>2, <1>3

(* One breaker is looked at, or asked for its probe.                       *)
LEMMA OneLook ==
  ASSUME RInv, NEW b \in Backends, NEW t \in Instant, NEW o,
         o \in {Advance(breakers[b], t), AcquireProbe(breakers[b], t)},
         breakers' = [breakers EXCEPT ![b] = o], openedAt' = openedAt
  PROVE  /\ Coherent(o)
         /\ breakers' \in [Backends -> Breakers]
         /\ breakers'[b] = o
         /\ \A c \in Backends \ {b} : breakers'[c] = breakers[c]
         /\ Forwards
<1>1. Coherent(breakers[b]) /\ openedAt \in [Backends -> Nat]
  BY DEF RInv
<1>2. Coherent(o)
  BY <1>1, AdvanceCoherent, AcquireCoherent
<1>3. \A s \in Nat : Overtaken(breakers[b], openedAt[b], s) => Overtaken(o, openedAt[b], s)
  BY <1>1, LooksOvertake
<1> QED BY <1>1, <1>2, <1>3, OneMoves

----------------------------------------------------------------------------
(* A request outside of any call of the router.                           *)
LEMMA IdleType ==
  /\ Idle \in RequestRecords
  /\ Idle.pc = "idle" /\ Idle.at = 0 /\ Idle.seen = <<>> /\ Idle.left = {}
  /\ Idle.choice = NoBackend
BY RoutingAssumption, EmptySeq
   DEF Idle, RequestRecords, Stats, NoStats, NoBackend, BreakerOutcomes, ZeroTime

(* A new router keeps the invariant.                                      *)
LEMMA InitRInv == RouterInit => RInv
<1> SUFFICES ASSUME RouterInit PROVE RInv
  OBVIOUS
<1>1. Coherent(NewBreaker)
  BY NewCoherent
<1>2. Idle \in RequestRecords
  BY IdleType
<1>3. NoStats \in Stats /\ now \in Instant
  BY RoutingAssumption DEF Stats, NoStats, ZeroTime, RouterInit, Instant
<1>4. openedAt \in [Backends -> Nat] /\ \A b \in Backends : Coherent(breakers[b])
  BY <1>1 DEF RouterInit, ZeroTime
<1>5. ScanSound(Idle) /\ Staged(Idle) /\ Current(Idle)
  BY <1>3, EmptySeq, RoutingAssumption
     DEF ScanSound, Staged, Current, Idle, NoBackend, ZeroTime, Instant, Backends
<1>6. breakers \in [Backends -> Breakers]
  BY <1>1 DEF RouterInit, Coherent
<1> QED BY <1>2, <1>3, <1>4, <1>5, <1>6 DEF RInv, RouterInit

(* Time passes.                                                           *)
LEMMA TickRInv == RInv /\ Tick => RInv'
<1> SUFFICES ASSUME RInv, Tick PROVE RInv'
  OBVIOUS
<1>1. now' \in Instant /\ now' >= now /\ req' = req /\ stats' = stats
      /\ breakers' = breakers /\ openedAt' = openedAt
  BY DEF Tick, RInv, Instant
<1> QED BY <1>1, Unmoved, QuietStep DEF RInv

(* Explain or a debug page looks at a breaker.                            *)
LEMMA InspectRInv ==
  ASSUME RInv, NEW b \in Backends, Inspect(b)
  PROVE  /\ RInv' /\ req' = req
         /\ \A c \in Backends : breakers'[c].probeInFlight => breakers[c].probeInFlight
<1> DEFINE o == Advance(breakers[b], now)
<1>1. now \in Instant /\ Coherent(breakers[b])
  BY DEF RInv
<1>2. now =< now
  BY <1>1 DEF Instant
<1>3. o.probeInFlight => breakers[b].probeInFlight
  BY <1>1, AdvanceCoherent
<1>4. /\ breakers' = [breakers EXCEPT ![b] = o]
      /\ now' = now /\ req' = req /\ stats' = stats /\ openedAt' = openedAt
  BY DEF Inspect
<1>5. /\ breakers' \in [Backends -> Breakers]
      /\ breakers'[b] = o
      /\ \A c \in Backends \ {b} : breakers'[c] = breakers[c]
      /\ Forwards
  BY <1>1, <1>4, OneLook
<1> HIDE DEF o
<1>6. \A c \in Backends : breakers'[c].probeInFlight => breakers[c].probeInFlight
  BY <1>3, <1>5
<1> QED BY <1>1, <1>2, <1>4, <1>5, <1>6, QuietStep

(* choose() reads the clock.                                               *)
LEMMA ChooseBeginRInv ==
  ASSUME RInv, NEW r \in Requests, ChooseBegin(r) PROVE RInv' /\ Passes(r)
<1> DEFINE q == [Idle EXCEPT !.pc = "scanning", !.at = now]
<1>1. now \in Instant /\ req[r].choice = NoBackend
  BY DEF ChooseBegin, RInv, Staged
<1>2. now \in Nat
  BY <1>1 DEF Instant
<1>3. /\ q \in RequestRecords
      /\ q.pc = "scanning" /\ q.at = now /\ q.seen = <<>> /\ q.left = {}
      /\ q.choice = NoBackend
  BY <1>2, IdleType DEF RequestRecords
<1> HIDE DEF q
<1>4. /\ now' = now /\ breakers' = breakers /\ stats' = stats /\ openedAt' = openedAt
      /\ req' = [req EXCEPT ![r] = q]
  BY DEF ChooseBegin, q
<1>5. /\ req' \in [Requests -> RequestRecords]
      /\ req'[r] = q
      /\ \A s \in Requests \ {r} : req'[s] = req[s]
  BY <1>3, <1>4 DEF RInv
<1>6. (ScanSound(req[r]) /\ Staged(req[r]) /\ Current(req[r]))'
  BY <1>1, <1>2, <1>3, <1>4, <1>5, EmptySeq, RoutingAssumption
     DEF ScanSound, Staged, Current, NoBackend, Instant, Backends
<1>7. Forwards /\ breakers' \in [Backends -> Breakers] /\ stats' \in [Backends -> Stats]
  BY <1>4, Unmoved DEF RInv
<1>8. \A b \in Backends : breakers'[b].probeInFlight =>
        breakers[b].probeInFlight /\ ~(req[r].choice = b /\ req[r].probe)
  BY <1>1, <1>4 DEF Backends, NoBackend
<1> QED BY <1>4, <1>5, <1>6, <1>7, <1>8, RequestStep DEF Passes

(* The statistics of the next backend are read.                            *)
LEMMA ReadStatsRInv ==
  ASSUME RInv, NEW r \in Requests, ReadStats(r) PROVE RInv' /\ Passes(r)
<1> DEFINE p == req[r]
           b == Len(p.seen) + 1
           q == [p EXCEPT !.pc = "reading", !.stat = stats[b]]
<1>1. p \in RequestRecords /\ ScanSound(p) /\ Staged(p) /\ p.pc = "scanning"
  BY DEF ReadStats, RInv
<1>2. p.choice = NoBackend /\ b \in Backends
  BY <1>1, RoutingAssumption, LenProperties DEF Staged, RequestRecords, Backends
<1>3. stats[b] \in Stats
  BY <1>2 DEF RInv
<1>4. /\ now' = now /\ breakers' = breakers /\ stats' = stats /\ openedAt' = openedAt
      /\ req' = [req EXCEPT ![r] = q]
  BY DEF ReadStats, RInv
<1> HIDE DEF b
<1>5. q \in RequestRecords
  BY <1>1, <1>3 DEF RequestRecords
<1>6. /\ req' \in [Requests -> RequestRecords]
      /\ req'[r] = q
      /\ \A s \in Requests \ {r} : req'[s] = req[s]
  BY <1>4, <1>5 DEF RInv
<1>7. /\ q.pc = "reading" /\ q.at = p.at /\ q.seen = p.seen /\ q.left = p.left
      /\ q.choice = p.choice
  BY <1>1 DEF RequestRecords
<1> HIDE DEF p, q
<1>8. (ScanSound(req[r]) /\ Staged(req[r]) /\ Current(req[r]))'
  BY <1>1, <1>2, <1>4, <1>6, <1>7 DEF ScanSound, Staged, Current
<1>9. Forwards /\ breakers' \in [Backends -> Breakers] /\ stats' \in [Backends -> Stats]
  BY <1>4, Unmoved DEF RInv
<1>10. \A c \in Backends : breakers'[c].probeInFlight =>
         breakers[c].probeInFlight /\ ~(req[r].choice = c /\ req[r].probe)
  BY <1>2, <1>4 DEF Backends, NoBackend, p
<1> QED BY <1>4, <1>6, <1>8, <1>9, <1>10, RequestStep DEF Passes

(* The breaker of the next backend is read, and the backend is noted as a  *)
(* candidate: its breaker is, at that moment, in the state noted.          *)
LEMMA ScanRInv ==
  ASSUME RInv, NEW r \in Requests, Scan(r) PROVE RInv' /\ Passes(r)
<1> DEFINE p == req[r]
           b == Len(p.seen) + 1
           o == Advance(breakers[b], p.at)
           cand == Candidate(b, o, p.stat, p.at)
           seen == Append(p.seen, cand)
           left == IF cand.eligible THEN p.left \union {b} ELSE p.left
           pc == IF b = NumBackends THEN "picking" ELSE "scanning"
           q == [p EXCEPT !.seen = seen, !.stat = NoStats, !.left = left, !.pc = pc]
<1>1. p \in RequestRecords /\ ScanSound(p) /\ Staged(p) /\ p.pc = "reading"
  BY DEF Scan, RInv
<1>2. /\ p.choice = NoBackend /\ b \in Backends /\ b =< NumBackends
      /\ p.at \in Instant /\ p.at =< now /\ p.at \in Nat /\ now \in Instant
  BY <1>1, RoutingAssumption, LenProperties
     DEF Staged, ScanSound, RequestRecords, Backends, RInv
<1>3. /\ now' = now /\ stats' = stats /\ openedAt' = openedAt
      /\ breakers' = [breakers EXCEPT ![b] = o]
      /\ req' = [req EXCEPT ![r] = q]
  BY DEF Scan, RInv
<1>4. Coherent(breakers[b])
  BY <1>2 DEF RInv
<1> HIDE DEF p, b
<1>5. o.probeInFlight => breakers[b].probeInFlight
  BY <1>2, <1>4, AdvanceCoherent
<1>6. /\ Coherent(o)
      /\ breakers' \in [Backends -> Breakers]
      /\ breakers'[b] = o
      /\ \A c \in Backends \ {b} : breakers'[c] = breakers[c]
      /\ Forwards
  BY <1>2, <1>3, OneLook
<1> HIDE DEF o
<1>7. /\ cand \in Candidates /\ cand.name = b /\ cand.state = o.state
      /\ cand.eligible => cand.state # "open"
  <2>1. o \in Breakers /\ p.stat \in Stats
    BY <1>1, <1>6 DEF RequestRecords, Coherent
  <2> QED BY <1>2, <2>1, CandidateType
<1> HIDE DEF cand
<1>8. /\ seen \in Seq(Candidates) /\ Len(seen) = b /\ seen[b] = cand
      /\ \A i \in 1..Len(p.seen) : seen[i] = p.seen[i]
  BY <1>1, <1>7, AppendProperties DEF RequestRecords, b
<1> HIDE DEF seen
<1>9. b \in Nat /\ b \in 1..b /\ Len(p.seen) = b - 1 /\ 1..b = 1..(b - 1) \union {b}
  BY <1>1, <1>2, LenProperties DEF RequestRecords, b, Backends
<1>10. /\ left \in SUBSET Backends /\ left \subseteq 1..b
       /\ \A i \in left : seen[i].state # "open"
  <2>1. /\ p.left \in SUBSET Backends /\ p.left \subseteq 1..(b - 1)
        /\ \A i \in p.left : p.seen[i].state # "open"
    BY <1>1, <1>9 DEF RequestRecords, ScanSound
  <2>2. CASE cand.eligible
    BY <1>2, <1>7, <1>8, <1>9, <2>1, <2>2
  <2>3. CASE ~cand.eligible
    BY <1>8, <1>9, <2>1, <2>3
  <2> QED BY <2>2, <2>3
<1> HIDE DEF left
<1>11. /\ q \in RequestRecords
       /\ q.pc = pc /\ q.at = p.at /\ q.seen = seen /\ q.left = left
       /\ q.choice = NoBackend
  <2>1. NoStats \in Stats
    BY RoutingAssumption DEF NoStats, Stats, ZeroTime
  <2> QED BY <1>1, <1>2, <1>8, <1>10, <2>1 DEF RequestRecords
<1>12. /\ req' \in [Requests -> RequestRecords]
       /\ req'[r] = q
       /\ \A s \in Requests \ {r} : req'[s] = req[s]
  BY <1>3, <1>11 DEF RInv
<1> HIDE DEF q
<1>13. ScanSound(req[r])'
  <2>1. \A i \in 1..Len(seen) : seen[i].name = i
    BY <1>1, <1>7, <1>8, <1>9 DEF ScanSound
  <2>2. ASSUME NEW i \in Backends, i =< b, seen[i].state = "closed"
        PROVE  Overtaken(breakers'[i], openedAt'[i], p.at)
    <3>1. CASE i = b
      BY <1>6, <1>7, <1>8, <2>2, <3>1 DEF Overtaken
    <3>2. CASE i # b
      <4>1. i \in 1..Len(p.seen)
        BY <1>9, <2>2, <3>2 DEF Backends
      <4>2. Overtaken(breakers[i], openedAt[i], p.at)
        BY <1>1, <1>8, <1>9, <2>2, <4>1 DEF ScanSound
      <4> QED BY <1>2, <1>6, <4>2 DEF Forwards
    <3> QED BY <3>1, <3>2
  <2> QED BY <1>2, <1>3, <1>8, <1>10, <1>11, <1>12, <2>1, <2>2 DEF ScanSound
<1>14. (Staged(req[r]) /\ Current(req[r]))'
  BY <1>2, <1>8, <1>9, <1>11, <1>12, RoutingAssumption DEF Staged, Current, Backends
<1>15. \A c \in Backends : breakers'[c].probeInFlight =>
         breakers[c].probeInFlight /\ ~(req[r].choice = c /\ req[r].probe)
  BY <1>2, <1>5, <1>6 DEF Backends, NoBackend, p
<1>16. stats' \in [Backends -> Stats]
  BY <1>3 DEF RInv
<1> QED BY <1>3, <1>6, <1>12, <1>13, <1>14, <1>15, <1>16, RequestStep DEF Passes

(* A decision, whichever way it was made.                                  *)
LEMMA DecideStep ==
  ASSUME RInv, NEW r \in Requests, req[r].pc = "picking",
         NEW b \in Backends, NEW admitted \in BOOLEAN, NEW probe \in BOOLEAN,
         Decide(r, b, admitted, probe), now' = now, stats' = stats,
         breakers' \in [Backends -> Breakers], Forwards,
         admitted /\ ~probe => Overtaken(breakers'[b], openedAt'[b], req[r].at),
         \A c \in Backends : breakers'[c].probeInFlight =>
            breakers[c].probeInFlight \/ (c = b /\ probe)
  PROVE  RInv' /\ Passes(r)
<1> DEFINE p == req[r]
           q == [p EXCEPT !.pc = "decided", !.choice = b, !.admitted = admitted,
                          !.probe = probe, !.seen = <<>>, !.left = {}]
<1>1. /\ p \in RequestRecords /\ ScanSound(p) /\ Staged(p) /\ p.pc = "picking"
      /\ now \in Instant
  BY DEF RInv
<1>2. /\ p.choice = NoBackend /\ b # NoBackend
      /\ p.at \in Instant /\ p.at =< now
  BY <1>1 DEF Staged, ScanSound, Backends, NoBackend
<1>3. req' = [req EXCEPT ![r] = q]
  BY DEF Decide, RInv
<1> HIDE DEF p
<1>4. /\ q \in RequestRecords
      /\ q.pc = "decided" /\ q.at = p.at /\ q.seen = <<>> /\ q.left = {}
      /\ q.choice = b /\ q.admitted = admitted /\ q.probe = probe
  BY <1>1, EmptySeq DEF RequestRecords
<1>5. /\ req' \in [Requests -> RequestRecords]
      /\ req'[r] = q
      /\ \A s \in Requests \ {r} : req'[s] = req[s]
  BY <1>3, <1>4 DEF RInv
<1> HIDE DEF q
<1>6. ScanSound(req[r])'
  BY <1>2, <1>4, <1>5, EmptySeq, RoutingAssumption DEF ScanSound, Backends
<1>7. Staged(req[r])'
  BY <1>2, <1>4, <1>5 DEF Staged
<1>8. Current(req[r])'
  BY <1>4, <1>5 DEF Current, p
<1>9. ASSUME NEW c \in Backends, breakers'[c].probeInFlight
      PROVE  \/ req'[r].choice = c /\ req'[r].probe
             \/ breakers[c].probeInFlight /\ ~(req[r].choice = c /\ req[r].probe)
  BY <1>2, <1>4, <1>5, <1>9 DEF Backends, NoBackend, p
<1>10. stats' \in [Backends -> Stats]
  BY DEF RInv
<1> QED BY <1>5, <1>6, <1>7, <1>8, <1>9, <1>10, RequestStep DEF Passes

(* The candidate noted as eligible was not open, so it was closed.         *)
LEMMA PickClosedRInv ==
  ASSUME RInv, NEW r \in Requests, PickClosed(r) PROVE RInv' /\ Passes(r)
<1> DEFINE best == PickBest(req[r].seen, req[r].left)
<1>1. /\ req[r].pc = "picking" /\ req[r].left # {}
      /\ req[r].seen[best].state # "half_open"
      /\ Decide(r, best, TRUE, FALSE)
      /\ now' = now /\ stats' = stats /\ breakers' = breakers /\ openedAt' = openedAt
  BY DEF PickClosed
<1>2. best \in req[r].left /\ best \in Backends
  BY <1>1, PickTypes
<1> HIDE DEF best
<1>3. PICK b \in Backends : b = best
  BY <1>2
<1>4. req[r] \in RequestRecords /\ ScanSound(req[r]) /\ Staged(req[r])
  BY DEF RInv
<1>5. req[r].seen[b] \in Candidates /\ b =< Len(req[r].seen)
  BY <1>2, <1>3, <1>4, ElementOfSeq DEF ScanSound, RequestRecords
<1>6. req[r].seen[b].state = "closed"
  BY <1>1, <1>2, <1>3, <1>4, <1>5 DEF ScanSound, Candidates, BreakerStates
<1>7. Overtaken(breakers'[b], openedAt'[b], req[r].at)
  BY <1>1, <1>4, <1>5, <1>6 DEF ScanSound
<1>8. Forwards /\ breakers' \in [Backends -> Breakers]
  BY <1>1, Unmoved DEF RInv
<1> QED BY <1>1, <1>3, <1>7, <1>8, DecideStep

(* The probe is taken for this request, or the breaker has closed since,   *)
(* or the backend is given up and the next one is tried.                   *)
LEMMA PickHalfOpenRInv ==
  ASSUME RInv, NEW r \in Requests, PickHalfOpen(r) PROVE RInv' /\ Passes(r)
<1> DEFINE best == PickBest(req[r].seen, req[r].left)
           p == req[r]
<1>1. /\ p.pc = "picking" /\ p.left # {} /\ now' = now /\ stats' = stats
      /\ openedAt' = openedAt
  BY DEF PickHalfOpen
<1>2. best \in Backends
  BY <1>1, PickTypes
<1>3. PICK b \in Backends : b = best
  BY <1>2
<1>4. /\ p \in RequestRecords /\ ScanSound(p) /\ Staged(p)
      /\ now \in Instant /\ Coherent(breakers[b])
  BY DEF RInv
<1>5. p.at \in Instant /\ p.at =< now /\ p.at \in Nat
  BY <1>1, <1>4 DEF ScanSound, Instant
<1> DEFINE a == Advance(breakers[b], p.at)
           o == AcquireProbe(breakers[b], p.at)
<1>6. /\ breakers' = [breakers EXCEPT ![b] = o]
      /\ IF Acquired(breakers[b], p.at)
         THEN Decide(r, b, TRUE, a.state = "half_open")
         ELSE req' = [req EXCEPT ![r].left = @ \ {b}]
  BY <1>3 DEF PickHalfOpen
<1>8. a.probeInFlight => breakers[b].probeInFlight
  BY <1>4, <1>5, AdvanceCoherent
<1>9. Acquired(breakers[b], p.at) => a.state = "closed" \/ ProbeAllowed(a, p.at)
  BY DEF Acquired
<1>10. /\ a.state = "closed" => o = a
       /\ ~ProbeAllowed(a, p.at) => o = a
  BY DEF AcquireProbe, ProbeAllowed
<1>11. ProbeAllowed(a, p.at) => a.state = "half_open"
  BY DEF ProbeAllowed
<1>12. /\ breakers' \in [Backends -> Breakers]
       /\ breakers'[b] = o
       /\ \A c \in Backends \ {b} : breakers'[c] = breakers[c]
       /\ Forwards
  BY <1>1, <1>5, <1>6, OneLook
<1> HIDE DEF best, a, o
<1>13. CASE ~Acquired(breakers[b], p.at)
  <2> DEFINE q == [p EXCEPT !.left = @ \ {b}]
  <2>1. req' = [req EXCEPT ![r] = q]
    BY <1>6, <1>13 DEF RInv
  <2>2. q \in RequestRecords
    BY <1>4 DEF RequestRecords
  <2>3. /\ q.pc = p.pc /\ q.at = p.at /\ q.seen = p.seen /\ q.choice = p.choice
        /\ q.left = p.left \ {b} /\ p.choice = NoBackend
    BY <1>1, <1>4 DEF RequestRecords, Staged
  <2>4. /\ req' \in [Requests -> RequestRecords]
        /\ req'[r] = q
        /\ \A s \in Requests \ {r} : req'[s] = req[s]
    BY <2>1, <2>2 DEF RInv
  <2>5. \A i \in Backends :
          i =< Len(p.seen) /\ p.seen[i].state = "closed"
            => Overtaken(breakers'[i], openedAt'[i], p.at)
    BY <1>4, <1>5, <1>12 DEF ScanSound, Forwards
  <2>6. \A c \in Backends : breakers'[c].probeInFlight =>
          breakers[c].probeInFlight /\ ~(p.choice = c /\ p.probe)
    <3>1. ~ProbeAllowed(a, p.at)
      BY <1>13 DEF Acquired, a
    <3> QED BY <1>8, <1>10, <1>12, <2>3, <3>1 DEF Backends, NoBackend
  <2> HIDE DEF q, p
  <2>7. ScanSound(req[r])'
    BY <1>1, <1>4, <1>5, <2>3, <2>4, <2>5 DEF ScanSound
  <2>8. (Staged(req[r]) /\ Current(req[r]))'
    BY <1>1, <1>4, <2>3, <2>4 DEF Staged, Current
  <2>9. \A c \in Backends : breakers'[c].probeInFlight =>
          breakers[c].probeInFlight /\ ~(req[r].choice = c /\ req[r].probe)
    BY <2>6 DEF p
  <2>10. stats' \in [Backends -> Stats]
    BY <1>1 DEF RInv
  <2> QED BY <1>1, <1>12, <2>4, <2>7, <2>8, <2>9, <2>10, RequestStep DEF Passes
<1>14. CASE Acquired(breakers[b], p.at) /\ a.state = "closed"
  <2>1. Decide(r, b, TRUE, FALSE)
    BY <1>6, <1>14
  <2>2. Overtaken(breakers'[b], openedAt'[b], p.at)
    BY <1>10, <1>12, <1>14 DEF Overtaken
  <2>3. \A c \in Backends : breakers'[c].probeInFlight => breakers[c].probeInFlight
    BY <1>8, <1>10, <1>12, <1>14
  <2> QED BY <1>1, <1>12, <2>1, <2>2, <2>3, DecideStep
<1>15. CASE Acquired(breakers[b], p.at) /\ a.state # "closed"
  <2>1. Decide(r, b, TRUE, TRUE)
    BY <1>6, <1>9, <1>11, <1>15
  <2>2. \A c \in Backends : breakers'[c].probeInFlight =>
          breakers[c].probeInFlight \/ c = b
    BY <1>12
  <2> QED BY <1>1, <1>12, <2>1, <2>2, DecideStep
<1> QED BY <1>13, <1>14, <1>15

(* No candidate is left: nothing is claimed of the backend that is named.  *)
LEMMA PickFallbackRInv ==
  ASSUME RInv, NEW r \in Requests, PickFallback(r) PROVE RInv' /\ Passes(r)
<1> DEFINE last == PickMostRecoverable(req[r].seen)
<1>1. /\ req[r].pc = "picking" /\ Decide(r, last, FALSE, FALSE)
      /\ now' = now /\ stats' = stats /\ breakers' = breakers /\ openedAt' = openedAt
  BY DEF PickFallback
<1>2. last \in Backends
  BY <1>1, PickTypes
<1> HIDE DEF last
<1>3. PICK b \in Backends : b = last
  BY <1>2
<1>4. Forwards /\ breakers' \in [Backends -> Breakers]
  BY <1>1, Unmoved DEF RInv
<1> QED BY <1>1, <1>3, <1>4, DecideStep

----------------------------------------------------------------------------
(* The first half of a report updates the statistics; the request still    *)
(* owns its probe.                                                         *)
LEMMA ReportStatsRInv ==
  ASSUME RInv, NEW r \in Requests, NEW outcome \in BreakerOutcomes,
         NEW t \in Nat, NEW ttft \in Nat, NEW retryAfter \in Nat,
         ReportStats(r, t, outcome, ttft, retryAfter)
  PROVE  RInv' /\ Passes(r)
<1> DEFINE p == req[r]
           failed == outcome = "failure"
<1>1. /\ p \in RequestRecords /\ Staged(p) /\ p.pc = "decided"
      /\ now \in Nat /\ now \in Instant /\ stats \in [Backends -> Stats]
  BY DEF RInv, ReportStats, Instant
<1>2. p.choice \in Backends /\ stats[p.choice] \in Stats
  BY <1>1 DEF Staged, RequestRecords, NoBackend
<1>3. PICK cooldown \in IF failed THEN CooldownDurations(retryAfter) ELSE {0},
           ewma \in EwmaAfter(stats[p.choice], ttft) :
        /\ stats' = [stats EXCEPT ![p.choice] = ObserveStats(@, t, ttft, ewma, failed, cooldown)]
        /\ req' = [req EXCEPT ![r] =
             [Idle EXCEPT !.pc = "reporting", !.at = now, !.choice = p.choice,
                          !.probe = p.probe, !.outcome = outcome, !.cooldown = cooldown]]
  BY DEF ReportStats
<1>4. cooldown \in Nat /\ ttft \in Nat
  BY RouterAssumption DEF CooldownDurations
<1>5. failed \in BOOLEAN
  OBVIOUS
<1> HIDE DEF failed, p
<1>6. ObserveStats(stats[p.choice], t, ttft, ewma, failed, cooldown) \in Stats
  BY <1>1, <1>2, <1>4, <1>5, ObserveStatsType
<1>7. stats' \in [Backends -> Stats]
  BY <1>1, <1>3, <1>6
<1> DEFINE q == [Idle EXCEPT !.pc = "reporting", !.at = now, !.choice = p.choice,
                             !.probe = p.probe, !.outcome = outcome, !.cooldown = cooldown]
<1>8. /\ q \in RequestRecords
      /\ q.pc = "reporting" /\ q.at = now /\ q.seen = <<>> /\ q.left = {}
      /\ q.choice = p.choice /\ q.probe = p.probe
  BY <1>1, <1>2, <1>4, IdleType DEF RequestRecords
<1>9. /\ now' = now /\ breakers' = breakers /\ openedAt' = openedAt
      /\ req' = [req EXCEPT ![r] = q]
  BY <1>3 DEF ReportStats
<1> HIDE DEF q
<1>10. /\ req' \in [Requests -> RequestRecords]
       /\ req'[r] = q
       /\ \A s \in Requests \ {r} : req'[s] = req[s]
  BY <1>8, <1>9 DEF RInv
<1>11. (ScanSound(req[r]) /\ Staged(req[r]) /\ Current(req[r]))'
  BY <1>1, <1>2, <1>8, <1>9, <1>10, EmptySeq
     DEF ScanSound, Staged, Current, Backends, NoBackend
<1>12. Forwards /\ breakers' \in [Backends -> Breakers]
  BY <1>9, Unmoved DEF RInv
<1>13. ASSUME NEW b \in Backends, breakers'[b].probeInFlight
       PROVE  \/ req'[r].choice = b /\ req'[r].probe
              \/ breakers[b].probeInFlight /\ ~(req[r].choice = b /\ req[r].probe)
  BY <1>8, <1>9, <1>10, <1>13 DEF p
<1> QED BY <1>7, <1>9, <1>10, <1>11, <1>12, <1>13, RequestStep DEF Passes

(* The second half updates the breaker, which leaves no probe in flight:   *)
(* the request may let go of it.                                           *)
LEMMA ReportBreakerRInv ==
  ASSUME RInv, NEW r \in Requests, NEW t \in Instant, ReportBreaker(r, t)
  PROVE  RInv' /\ Passes(r)
<1> DEFINE p == req[r]
<1>1. /\ p \in RequestRecords /\ Staged(p) /\ p.pc = "reporting"
      /\ now \in Instant /\ now \in Nat
      /\ breakers \in [Backends -> Breakers] /\ openedAt \in [Backends -> Nat]
  BY DEF RInv, ReportBreaker, Instant
<1>2. PICK b \in Backends : b = p.choice
  BY <1>1 DEF Staged, RequestRecords, NoBackend
<1> DEFINE o == ObserveOutcome(breakers[b], t, p.outcome, p.cooldown)
           opened == IF o.state = "closed" THEN ZeroTime
                     ELSE IF breakers[b].state = "closed" THEN now ELSE openedAt[b]
<1>3. Coherent(breakers[b]) /\ p.outcome \in BreakerOutcomes /\ p.cooldown \in Nat
  BY <1>1 DEF RInv, RequestRecords
<1>4. /\ breakers' = [breakers EXCEPT ![b] = o]
      /\ openedAt' = [openedAt EXCEPT ![b] = opened]
      /\ req' = [req EXCEPT ![r] = Idle] /\ now' = now /\ stats' = stats
  BY <1>1, <1>2 DEF ReportBreaker, OpenedAtWith
<1>5. Coherent(o) /\ o.probeInFlight = FALSE
  <2> HIDE DEF p
  <2> QED BY <1>3, ObserveCoherent, ObserveReleases
<1> HIDE DEF o
<1>6. /\ breakers' \in [Backends -> Breakers]
      /\ breakers'[b] = o
      /\ \A c \in Backends \ {b} : breakers'[c] = breakers[c]
      /\ Forwards
  <2>1. opened \in Nat
    BY <1>1 DEF ZeroTime
  <2>2. \A s \in Nat : s =< now /\ Overtaken(breakers[b], openedAt[b], s)
                         => Overtaken(o, opened, s)
    BY <1>1, ReportsOvertake
  <2> HIDE DEF opened
  <2>3. /\ openedAt' \in [Backends -> Nat] /\ openedAt'[b] = opened
        /\ \A c \in Backends \ {b} : openedAt'[c] = openedAt[c]
    BY <1>1, <1>4, <2>1
  <2> QED BY <1>4, <1>5, <2>2, <2>3, OneMoves
<1>7. /\ req' \in [Requests -> RequestRecords]
      /\ req'[r] = Idle
      /\ \A s \in Requests \ {r} : req'[s] = req[s]
  BY <1>4, IdleType DEF RInv
<1>8. (ScanSound(req[r]) /\ Staged(req[r]) /\ Current(req[r]))'
  BY <1>1, <1>4, <1>7, IdleType, EmptySeq DEF ScanSound, Staged, Current, Backends
<1>9. \A c \in Backends : breakers'[c].probeInFlight =>
         breakers[c].probeInFlight /\ ~(req[r].choice = c /\ req[r].probe)
  BY <1>2, <1>5, <1>6
<1>10. stats' \in [Backends -> Stats]
  BY <1>4 DEF RInv
<1> QED BY <1>4, <1>6, <1>7, <1>8, <1>9, <1>10, RequestStep DEF Passes

----------------------------------------------------------------------------
(* The calls as the callers see them.                                      *)
LEMMA ChooseRInv ==
  ASSUME RInv, NEW r \in Requests, Choose(r) PROVE RInv' /\ Passes(r)
BY ChooseBeginRInv, ReadStatsRInv, ScanRInv, PickClosedRInv, PickHalfOpenRInv,
   PickFallbackRInv DEF Choose

\* The instant of the second half was read since the first.
LEMMA ObserveBreakerRInv ==
  ASSUME RInv, NEW r \in Requests, NEW t \in ReadSince(req[r].at), ReportBreaker(r, t)
  PROVE  RInv' /\ Passes(r)
<1>1. req[r].at \in Instant /\ now \in Nat
  BY DEF RInv, ScanSound, ReportBreaker, Instant
<1>2. t \in Instant
  BY <1>1 DEF ReadSince, Instant
<1> QED BY <1>2, ReportBreakerRInv

\* A report's steps keep the invariant, whichever caller makes them.
LEMMA ReportRInv ==
  ASSUME RInv, NEW r \in Requests, Report(r) PROVE RInv' /\ Passes(r)
<1>1. req[r].at \in Nat /\ now \in Nat
  BY DEF RInv, RequestRecords, Instant
<1>2. ASSUME NEW t \in ReadSince(req[r].at), NEW outcome \in BreakerOutcomes,
             NEW ttft \in TTFTs, NEW retryAfter \in RetryAfters,
             ReportStats(r, t, outcome, ttft, retryAfter)
      PROVE  RInv' /\ Passes(r)
  BY <1>1, <1>2, RouterAssumption, ReportStatsRInv DEF ReadSince
<1>3. ASSUME NEW t \in ReadSince(req[r].at), ReportBreaker(r, t)
      PROVE  RInv' /\ Passes(r)
  BY <1>3, ObserveBreakerRInv
<1> QED BY <1>2, <1>3 DEF Report

\* A step that leaves the router alone keeps the invariant.
LEMMA UnchangedRInv == RInv /\ UNCHANGED routerVars => RInv'
<1> SUFFICES ASSUME RInv, UNCHANGED routerVars PROVE RInv'
  OBVIOUS
<1>1. /\ req' = req /\ stats' = stats /\ breakers' = breakers /\ now' = now
      /\ openedAt' = openedAt /\ now \in Instant /\ now >= now
  BY DEF routerVars, RInv, Instant
<1> QED BY <1>1, Unmoved, QuietStep DEF RInv

(* Every step keeps the invariant.                                         *)
LEMMA NextRInv == RInv /\ [RouterNext]_routerVars => RInv'
<1> SUFFICES ASSUME RInv, [RouterNext]_routerVars PROVE RInv'
  OBVIOUS
<1>1. CASE Tick
  BY <1>1, TickRInv
<1>2. ASSUME NEW b \in Backends, Inspect(b) PROVE RInv'
  BY <1>2, InspectRInv
<1>3. ASSUME NEW r \in Requests, Choose(r) PROVE RInv'
  BY <1>3, ChooseRInv
<1>4. ASSUME NEW r \in Requests, Report(r) PROVE RInv'
  BY <1>4, ReportRInv
<1>5. CASE UNCHANGED routerVars
  BY <1>5, UnchangedRInv
<1> QED BY <1>1, <1>2, <1>3, <1>4, <1>5 DEF RouterNext

\* The invariant holds in every state of every run of the router.
LEMMA RouterInvariant == RouterSpec => []RInv
BY InitRInv, NextRInv, PTL DEF RouterSpec

(* The types, for any number of backends and requests; a scan never reads  *)
(* past the last backend and a pick is made from a full one.               *)
THEOREM RouterTypes == RouterSpec => []RouterTypeOK
BY RouterInvariant, Implied, PTL

(* Who owns a probe still owns it, or hands it back.                       *)
LEMMA OwnersStay ==
  ASSUME RInv, ProbeOwned, NEW r \in Requests, Passes(r) PROVE ProbeOwned'
<1> SUFFICES ASSUME NEW b \in Backends, breakers'[b].probeInFlight
             PROVE  \E s \in Requests : req'[s].choice = b /\ req'[s].probe
  BY DEF ProbeOwned
<1>1. CASE req'[r].choice = b /\ req'[r].probe
  BY <1>1
<1>2. CASE breakers[b].probeInFlight /\ ~(req[r].choice = b /\ req[r].probe)
  <2>1. PICK s \in Requests : req[s].choice = b /\ req[s].probe
    BY <1>2 DEF ProbeOwned
  <2> QED BY <1>2, <2>1 DEF Passes
<1> QED BY <1>1, <1>2 DEF Passes

(* A probe in flight always has a request that will report it: with        *)
(* callers that report each decision, no backend is locked out by a probe  *)
(* that nobody remembers (choose, TryAcquireProbe, Observe).               *)
THEOREM ProbesAreOwned == RouterSpec => []ProbeOwned
<1>1. RouterInit => ProbeOwned
  BY DEF RouterInit, ProbeOwned, NewBreaker
<1>2. RInv /\ ProbeOwned /\ [RouterNext]_routerVars => ProbeOwned'
  <2> SUFFICES ASSUME RInv, ProbeOwned, [RouterNext]_routerVars PROVE ProbeOwned'
    OBVIOUS
  <2>1. CASE Tick
    BY <2>1 DEF Tick, ProbeOwned
  <2>2. ASSUME NEW b \in Backends, Inspect(b) PROVE ProbeOwned'
    BY <2>2, InspectRInv DEF ProbeOwned
  <2>3. ASSUME NEW r \in Requests, Choose(r) \/ Report(r) PROVE ProbeOwned'
    BY <2>3, ChooseRInv, ReportRInv, OwnersStay
  <2>4. CASE UNCHANGED routerVars
    BY <2>4 DEF routerVars, ProbeOwned
  <2> QED BY <2>1, <2>2, <2>3, <2>4 DEF RouterNext
<1> QED BY <1>1, <1>2, RouterInvariant, PTL DEF RouterSpec

(* However the scan, the pick and the reports of others interleave, a      *)
(* request let through without a probe finds the breaker closed, or the    *)
(* breaker opened, by the clock, no earlier than the instant it decided    *)
(* at: also when the report that opened it came with an older instant.     *)
THEOREM StalenessIsBounded == RouterSpec => []StaleAtWorst
BY RouterInvariant, Implied, PTL

=============================================================================
