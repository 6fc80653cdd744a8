------------------------- MODULE ReviewBoundsProofs -------------------------
(***************************************************************************)
(* How long a gate may go on, what a call leaves behind when it ends or is *)
(* interrupted, and what a PASS is about: the type of the state, the bound *)
(* on the reviews a gate decides on, the round a resumed review keeps, the *)
(* answers that are on disk, and that every change that passes was shown,  *)
(* for any number of files, phases, rounds and escalations.                *)
(***************************************************************************)
EXTENDS ReviewControllerProofs, FiniteSetTheorems

USE DEF vars, world, past

LoopFields ==
  {"st", "idx", "done", "round", "gateRound", "epoch", "epochRound", "esc", "repairs",
   "exhausted", "why", "last", "hist", "pending", "strat", "ckpt", "recs", "reopens",
   "judged", "setbacks"}
CkptFields == {"print", "plan", "got", "round", "gateRound", "epoch", "epochRound"}
CallFields ==
  {"base", "code", "budget", "submits", "tested", "gate", "runs", "mutated", "touched",
   "proof", "print", "plan", "review", "sup", "why"}

-----------------------------------------------------------------------------
(* The parts of the inductive invariant that are about one loop record.    *)

Result == (SUBSET Finding) \cup {Unusable}
Counter(m) ==
  /\ m.round \in Nat /\ m.gateRound \in Nat /\ m.epoch \in Nat /\ m.epochRound \in Nat
  /\ m.esc \in Nat /\ m.repairs \in Nat /\ m.judged \in Nat /\ m.setbacks \in Nat
Checkpoint(c) ==
  /\ CkptFields \subseteq DOMAIN c
  /\ c.round \in Nat /\ c.gateRound \in Nat /\ c.epoch \in Nat /\ c.epochRound \in Nat
  /\ c.got \in Seq(Result)
Guided(m) ==
  /\ m.pending \in Reconsiders \cup {NoStrategy} /\ m.strat \in Strategy \cup {NoStrategy}
  /\ m.hist \in Seq(SUBSET Finding)
Typed(m) ==
  /\ LoopFields \subseteq DOMAIN m /\ Counter(m) /\ Checkpoint(m.ckpt) /\ Guided(m)
  /\ m.idx \in 0..NPhases /\ m.reopens \in 0..MaxReopens
  /\ m.exhausted \in BOOLEAN /\ m.why \in {"none", "usage", "converged", "other"}
  /\ m.recs \in [0..NPhases -> Tree \cup {NoTree}]

\* A review that was counted and is not decided on yet.
Begun(m) == m.ckpt.print # NoPrint

\* Reviews that all epochs up to e allow together, but for setbacks.
Granted(e) == MaxRounds + PostRounds * e
\* Those of the epochs before e.
Before(e) == IF e = 0 THEN 0 ELSE Granted(e - 1)

\* A gate that may go on.
Ongoing(m) ==
  ~m.exhausted /\ m.esc = m.epoch /\ m.esc <= MaxEscalations /\ m.repairs <= MaxGateRepairs

\* It has a decision left, and has decided on no more reviews than it counted;
\* one under way counts as the round its checkpoint says.
Within(m) ==
  /\ Ongoing(m)
  /\ m.judged < Granted(m.epoch) + m.setbacks
  /\ m.judged <= Before(m.epoch) + m.epochRound + m.setbacks
  /\ Begun(m) =>
       /\ m.judged < Before(m.epoch) + m.epochRound + m.setbacks
       /\ m.ckpt.round = m.round /\ m.ckpt.gateRound = m.gateRound
       /\ m.ckpt.epoch = m.epoch /\ m.ckpt.epochRound = m.epochRound

\* A review was decided on, and nothing has come of it yet.
Decided(m) ==
  /\ Ongoing(m) /\ ~Begun(m)
  /\ m.judged <= Granted(m.epoch) + m.setbacks
  /\ m.judged <= Before(m.epoch) + m.epochRound + m.setbacks

Bounded(m) ==
  /\ m.judged <= Granted(m.esc) + m.setbacks
  /\ m.esc <= MaxEscalations /\ m.repairs <= MaxGateRepairs + 1

\* A record at rest.
Settled(m) ==
  /\ Typed(m) /\ Bounded(m)
  /\ m.exhausted => m.st = "HUMAN_REQUIRED"
  /\ ~Terminal(m) => Within(m)

-----------------------------------------------------------------------------
(* What a call has collected, and the inductive invariant.                 *)

Undecided == {"gate", "recollect", "judge", "chunks", "saveChunk", "verify", "denied"}
Ruled == {"supervise", "ruling"}
Paying == {"chunks", "saveChunk"}

CallTyped ==
  /\ CallFields \subseteq DOMAIN call /\ call.code \in Tree /\ call.budget \in Budget
  /\ call.runs \in 0..(MaxStabilise + 1)
  /\ pc \in {"gate", "recollect"} => call.runs <= MaxStabilise
  /\ pc \in Paying => call.plan \in Seq(SUBSET File)
  /\ pc = "denied" => call.why \in {"usage", "other"}
  /\ pc = "verify" => IsFailed(call.review) \/ (Begun(mem) /\ call.review \subseteq Finding)
  /\ pc = "ruling" => call.sup \in Strategy \cup {NoHelp, AskHuman}

\* What is on disk of the review under way is what is in memory, less the chunk
\* that is being saved.
Resumable ==
  /\ pc \in {"gate", "recollect", "judge"} => mem.ckpt = disk.ckpt
  /\ pc \in Paying =>
       /\ mem.ckpt.print = call.print /\ Begun(mem)
       /\ disk.ckpt.print = call.print =>
            /\ disk.ckpt.round = mem.round /\ disk.ckpt.gateRound = mem.gateRound
            /\ disk.ckpt.epochRound = mem.epochRound
            /\ disk.ckpt.plan = call.plan => Len(disk.ckpt.got) <= Len(mem.ckpt.got)

Convergence ==
  /\ Settled(disk)
  /\ pc # "idle" =>
       /\ Typed(mem) /\ pc \in Undecided \cup Ruled \cup {"complete"}
       /\ pc \in Undecided => Within(mem)
       /\ pc \in Ruled \cup {"complete"} => Decided(mem)
       /\ pc \in Ruled => CanEscalate(mem)
       /\ CallTyped /\ Resumable

\* What is around the loop.
Surroundings ==
  /\ tree \in Tree /\ art \in 0..MaxArtifact
  /\ limits \subseteq {"usage", "calls"} /\ strayed \subseteq File
  /\ mishaps \in 0..MaxMishaps

-----------------------------------------------------------------------------
(* What is granted, by epochs.                                             *)

LEMMA GrantedGrows ==
  ASSUME NEW e \in Nat
  PROVE  /\ Granted(e) \in Nat /\ Granted(0) = MaxRounds /\ MaxRounds > 0
         /\ Granted(e + 1) >= Granted(e) + 1
         /\ Before(e) \in Nat /\ Before(e + 1) = Granted(e)
<1>1. /\ MaxRounds \in Nat /\ MaxRounds > 0 /\ PostRounds \in Nat /\ PostRounds > 0
  BY ControllerAssumption
<1>2. \A n \in Nat : PostRounds * n \in Nat
  BY <1>1
<1>3. PostRounds * (e + 1) = PostRounds * e + PostRounds
  BY <1>1
<1>4. PostRounds * 0 = 0
  BY <1>1
<1>5. \A n \in Nat : Granted(n) \in Nat
  BY <1>1, <1>2 DEF Granted
<1>6. Granted(e + 1) = Granted(e) + PostRounds
  <2>1. MaxRounds + (PostRounds * e + PostRounds) = MaxRounds + PostRounds * e + PostRounds
    BY <1>1, <1>2
  <2> QED
    BY <1>3, <2>1 DEF Granted
<1>7. Before(e) \in Nat /\ Before(e + 1) = Granted(e)
  BY <1>5 DEF Before
<1>8. Granted(0) = MaxRounds
  BY <1>1, <1>4 DEF Granted
<1> QED
  BY <1>1, <1>5, <1>6, <1>7, <1>8

\* An epoch's reviews are among what is granted up to it.
LEMMA EpochIsGranted ==
  ASSUME NEW m, m.epoch \in Nat
  PROVE  Before(m.epoch) + EpochBudget(m) = Granted(m.epoch) /\ EpochBudget(m) \in Nat
<1>1. MaxRounds \in Nat /\ PostRounds \in Nat
  BY ControllerAssumption
<1>2. CASE m.epoch = 0
  BY <1>1, <1>2, GrantedGrows DEF Before, EpochBudget
<1>3. CASE m.epoch # 0
  <2> DEFINE e == m.epoch - 1
  <2>1. e \in Nat /\ m.epoch = e + 1
    BY <1>3
  <2>2. PostRounds * (e + 1) = PostRounds * e + PostRounds /\ PostRounds * e \in Nat
    BY <1>1, <2>1
  <2>3. Granted(e + 1) = Granted(e) + PostRounds
    BY <1>1, <2>2 DEF Granted
  <2>4. Before(m.epoch) = Granted(e) /\ EpochBudget(m) = PostRounds
    BY <1>3 DEF Before, EpochBudget
  <2> QED
    BY <1>1, <2>1, <2>3, <2>4
<1> QED
  BY <1>2, <1>3

-----------------------------------------------------------------------------
(* What a change of a record leaves as it was.                             *)

\* n has the counters, the checkpoint and the standing of m.
SameCounts(n, m) ==
  /\ n.round = m.round /\ n.gateRound = m.gateRound /\ n.epoch = m.epoch
  /\ n.epochRound = m.epochRound /\ n.esc = m.esc /\ n.repairs = m.repairs
  /\ n.judged = m.judged /\ n.setbacks = m.setbacks /\ n.exhausted = m.exhausted
  /\ n.ckpt = m.ckpt

LEMMA SameWithin ==
  ASSUME NEW n, NEW m, SameCounts(n, m)
  PROVE  /\ Within(m) => Within(n)
         /\ Bounded(m) => Bounded(n)
         /\ Decided(m) => Decided(n)
  BY DEF SameCounts, Within, Bounded, Decided, Ongoing, Begun

\* What may go on is bounded.
LEMMA WithinBounded ==
  ASSUME NEW m, Typed(m), Within(m) \/ Decided(m)
  PROVE  Bounded(m)
<1>1. Counter(m) /\ m.esc = m.epoch /\ m.esc <= MaxEscalations /\ m.repairs <= MaxGateRepairs
  BY DEF Typed, Within, Decided, Ongoing
<1>2. Granted(m.epoch) \in Nat
  BY <1>1, GrantedGrows DEF Counter
<1>3. m.judged <= Granted(m.epoch) + m.setbacks
  <2>1. m.judged \in Nat /\ m.setbacks \in Nat
    BY <1>1 DEF Counter
  <2> HIDE DEF Granted
  <2>2. m.judged < Granted(m.epoch) + m.setbacks \/ m.judged <= Granted(m.epoch) + m.setbacks
    BY DEF Within, Decided
  <2> QED
    BY <1>2, <2>1, <2>2
<1>4. MaxGateRepairs \in Nat
  BY ControllerAssumption
<1> QED
  BY <1>1, <1>3, <1>4 DEF Bounded, Counter

LEMMA ToTyped ==
  ASSUME NEW m, Typed(m), NEW s
  PROVE  Typed(To(m, s)) /\ SameCounts(To(m, s), m)
<1>1. /\ DOMAIN To(m, s) = DOMAIN m /\ SameCounts(To(m, s), m)
      /\ To(m, s).pending = m.pending /\ To(m, s).strat = m.strat /\ To(m, s).hist = m.hist
      /\ To(m, s).idx = m.idx /\ To(m, s).reopens = m.reopens /\ To(m, s).recs = m.recs
      /\ To(m, s).why \in {m.why, "none"}
  BY DEF To, Typed, LoopFields, SameCounts
<1> QED
  BY <1>1 DEF Typed, Counter, Guided, SameCounts

LEMMA StopTyped ==
  ASSUME NEW m, Typed(m), NEW why \in {"usage", "converged", "other"}
  PROVE  Typed(Stop(m, why)) /\ SameCounts(Stop(m, why), m)
<1> DEFINE t == To(m, "HUMAN_REQUIRED")
<1>1. Typed(t) /\ SameCounts(t, m)
  BY ToTyped
<1> HIDE DEF t
<1>2. Stop(m, why) = [t EXCEPT !.why = why]
  BY DEF Stop, t
<1> QED
  BY <1>1, <1>2 DEF Typed, Counter, Guided, LoopFields, SameCounts

LEMMA ExhaustTyped ==
  ASSUME NEW m, Typed(m)
  PROVE  /\ Typed(Exhaust(m)) /\ Exhaust(m).exhausted
         /\ Bounded(m) => Bounded(Exhaust(m))
<1> DEFINE s == Stop(m, "converged")
<1>1. Typed(s) /\ SameCounts(s, m)
  BY StopTyped
<1> HIDE DEF s
<1>2. Exhaust(m) = [s EXCEPT !.exhausted = TRUE]
  BY DEF Exhaust, s
<1> QED
  BY <1>1, <1>2 DEF Typed, Counter, Guided, LoopFields, SameCounts, Bounded

\* A gate failure that counts as a repair.
LEMMA RepairTyped ==
  ASSUME NEW m, Typed(m), Within(m)
  PROVE  LET n == CountRepair(m) IN
           Typed(n) /\ Bounded(n) /\ (~RepairsSpent(n) => Within(n))
<1> DEFINE n == CountRepair(m)
<1>1. /\ DOMAIN n = DOMAIN m /\ n.repairs = m.repairs + 1
      /\ \A f \in LoopFields \ {"repairs"} : n[f] = m[f]
  BY DEF CountRepair, Typed, LoopFields
<1> HIDE DEF n
<1>2. Typed(n)
  BY <1>1 DEF Typed, Counter, Guided, LoopFields
<1>3. Bounded(m) /\ m.repairs \in Nat /\ m.repairs <= MaxGateRepairs /\ MaxGateRepairs \in Nat
  BY WithinBounded, ControllerAssumption DEF Typed, Counter, Within, Ongoing
<1>4. Bounded(n)
  BY <1>1, <1>3 DEF Bounded, LoopFields
<1>5. ~RepairsSpent(n) => Within(n)
  BY <1>1, <1>3 DEF RepairsSpent, Within, Ongoing, Begun, LoopFields
<1> QED
  BY <1>2, <1>4, <1>5 DEF n

\* Evidence that is dropped or staged.
LEMMA ProofTyped ==
  ASSUME Typed(mem), call.code \in Tree
  PROVE  /\ Typed(WithoutProof(mem)) /\ SameCounts(WithoutProof(mem), mem)
         /\ Typed(Staged) /\ SameCounts(Staged, mem)
<1>1. ASSUME NEW t \in Tree \cup {NoTree}
      PROVE  LET n == [mem EXCEPT !.recs[mem.idx] = t] IN Typed(n) /\ SameCounts(n, mem)
  <2> DEFINE n == [mem EXCEPT !.recs[mem.idx] = t]
  <2>1. /\ DOMAIN n = DOMAIN mem /\ n.recs = [mem.recs EXCEPT ![mem.idx] = t]
        /\ \A f \in LoopFields \ {"recs"} : n[f] = mem[f]
    BY DEF Typed, LoopFields
  <2>2. n.recs \in [0..NPhases -> Tree \cup {NoTree}]
    BY <2>1 DEF Typed
  <2> HIDE DEF n
  <2>3. Typed(n) /\ SameCounts(n, mem)
    BY <2>1, <2>2 DEF Typed, Counter, Guided, LoopFields, SameCounts
  <2> QED
    BY <2>3 DEF n
<1>2. WithoutProof(mem) = [mem EXCEPT !.recs[mem.idx] = NoTree]
  BY DEF WithoutProof
<1>3. Staged \in {mem, [mem EXCEPT !.recs[mem.idx] = call.code]}
  BY DEF Staged
<1>4. SameCounts(mem, mem)
  BY DEF SameCounts
<1> QED
  BY <1>1, <1>2, <1>3, <1>4

-----------------------------------------------------------------------------
(* Records that a call leaves behind.                                      *)

\* A gate that may go on is at rest whatever its state.
LEMMA WithinSettles ==
  ASSUME NEW m, Typed(m), Within(m)
  PROVE  Settled(m) /\ \A s : Settled(To(m, s))
         /\ \A why \in {"usage", "converged", "other"} : Settled(Stop(m, why))
<1>1. ASSUME NEW n, Typed(n), Within(n)
      PROVE  Settled(n)
  BY <1>1, WithinBounded DEF Settled, Within, Ongoing
<1>2. ASSUME NEW s
      PROVE  Settled(To(m, s))
  BY <1>1, ToTyped, SameWithin
<1>3. ASSUME NEW why \in {"usage", "converged", "other"}
      PROVE  Settled(Stop(m, why))
  BY <1>1, StopTyped, SameWithin
<1> QED
  BY <1>1, <1>2, <1>3

\* A gate that was given up is at rest.
LEMMA ExhaustSettles ==
  ASSUME NEW m, Typed(m), Bounded(m), OnPhase(m), m.st \in {"REVIEWING", "SUPERVISING"}
  PROVE  Settled(Exhaust(m))
  BY ExhaustTyped, ExhaustKeeps DEF Settled, Terminal

\* A gate with nothing counted yet.
Renewed(m) ==
  /\ m.epoch = 0 /\ m.epochRound = 0 /\ m.esc = 0 /\ m.repairs = 0
  /\ m.judged = 0 /\ m.setbacks = 0 /\ m.ckpt = NoCheckpoint /\ ~m.exhausted

LEMMA RenewedWithin ==
  ASSUME NEW m, Renewed(m)
  PROVE  Within(m)
<1>1. Granted(0) \in Nat /\ Granted(0) > 0 /\ Before(0) = 0
  BY GrantedGrows DEF Before
<1>2. MaxEscalations \in Nat /\ MaxGateRepairs \in Nat
  BY ControllerAssumption
<1>3. ~Begun(m)
  BY DEF Renewed, Begun, NoCheckpoint
<1>4. Ongoing(m)
  BY <1>2 DEF Renewed, Ongoing
<1> HIDE DEF Granted, Before
<1> QED
  BY <1>1, <1>3, <1>4 DEF Renewed, Within

LEMMA FreshTyped ==
  ASSUME NEW m, Typed(m)
  PROVE  /\ Typed(FreshGate(m)) /\ FreshGate(m).ckpt = NoCheckpoint
         /\ ~m.exhausted => Renewed(FreshGate(m))
         /\ FreshGate(m).exhausted = m.exhausted
         /\ Renewed([FreshGate(m) EXCEPT !.exhausted = FALSE])
<1> DEFINE n == FreshGate(m)
           Zero == {"gateRound", "repairs", "epoch", "epochRound", "esc", "judged", "setbacks"}
           Reset == Zero \cup {"hist", "pending", "strat", "ckpt"}
<1>1. /\ DOMAIN n = DOMAIN m /\ \A f \in Zero : n[f] = 0
      /\ n.hist = << >> /\ n.pending = NoStrategy /\ n.strat = NoStrategy
      /\ n.ckpt = NoCheckpoint /\ \A f \in LoopFields \ Reset : n[f] = m[f]
  BY DEF FreshGate, Typed, LoopFields
<1>2. Checkpoint(NoCheckpoint)
  <2>1. << >> \in Seq(Result)
    OBVIOUS
  <2> QED
    BY <2>1 DEF NoCheckpoint, Checkpoint, CkptFields
<1>3. << >> \in Seq(SUBSET Finding)
  OBVIOUS
<1> HIDE DEF n
<1>4. Typed(n)
  BY <1>1, <1>2, <1>3 DEF Typed, Counter, Guided, LoopFields
<1>5. LET e == [n EXCEPT !.exhausted = FALSE] IN Renewed(e)
  BY <1>1 DEF Renewed, Typed, LoopFields
<1>6. n.exhausted = m.exhausted /\ (~m.exhausted => Renewed(n))
  BY <1>1 DEF Renewed, LoopFields
<1> QED
  BY <1>1, <1>4, <1>5, <1>6 DEF n

\* The last save of a call.
LEMMA FinishSettles ==
  ASSUME Convergence, NEW m, Settled(m), NEW a, Finish(m, a)
  PROVE  Convergence'
<1>1. pc' = "idle" /\ disk' \in {disk, m}
  BY DEF Finish, Leave
<1>2. Settled(disk)
  BY DEF Convergence
<1>3. Settled(disk)'
  BY <1>1, <1>2 DEF Settled, Typed, Counter, Checkpoint, Guided, Bounded, Terminal, Within, Ongoing,
     Begun
<1> QED
  BY <1>1, <1>3 DEF Convergence

-----------------------------------------------------------------------------
(* What is around the loop keeps its type.                                 *)

LEMMA TreeKeeps ==
  ASSUME tree \in Tree, NEW f \in File, NEW v \in Version[f]
  PROVE  [tree EXCEPT ![f] = v] \in Tree
<1> DEFINE t == [tree EXCEPT ![f] = v]
           All == UNION {Version[g] : g \in File}
<1>1. v \in All /\ tree \in [File -> All] /\ \A g \in File : tree[g] \in Version[g]
  BY DEF Tree
<1> HIDE DEF All
<1>2. t \in [File -> All] /\ \A g \in File : t[g] \in Version[g]
  BY <1>1
<1> QED
  BY <1>2 DEF Tree, All

LEMMA SurroundingsInit == Init => Surroundings
<1>1. Baseline \in Tree
  <2>1. \A f \in File : 0 \in Version[f]
    BY ControllerAssumption DEF File
  <2> DEFINE All == UNION {Version[g] : g \in File}
  <2>2. \A f \in File : 0 \in All
    BY <2>1
  <2> HIDE DEF All
  <2>3. Baseline \in [File -> All] /\ \A f \in File : Baseline[f] \in Version[f]
    BY <2>1, <2>2 DEF Baseline
  <2> QED
    BY <2>3 DEF Tree, All
<1> QED
  BY <1>1, ControllerAssumption DEF Init, Surroundings

\* Trouble is counted up to its bound, and spending uses up known ceilings.
LEMMA GoesBounded ==
  ASSUME mishaps \in 0..MaxMishaps, NEW k, Goes(k)
  PROVE  mishaps' \in 0..MaxMishaps
  BY ControllerAssumption DEF Goes

LEMMA SpendsBounded ==
  ASSUME Surroundings, NEW c, Spends(c)
  PROVE  mishaps' \in 0..MaxMishaps /\ limits' \subseteq {"usage", "calls"}
  BY GoesBounded DEF Spends, Surroundings

LEMMA FinishBounded ==
  ASSUME Surroundings, UNCHANGED << world, limits, past >>,
         \/ mishaps' = mishaps
         \/ \E k : Goes(k)
         \/ \E m, a : Finish(m, a) \/ FinishDenied(m, a)
  PROVE  Surroundings'
<1>1. mishaps' = mishaps \/ \E k : Goes(k)
  BY DEF Finish, FinishDenied
<1>2. mishaps' \in 0..MaxMishaps
  BY <1>1, GoesBounded DEF Surroundings
<1> QED
  BY <1>2 DEF Surroundings

LEMMA SurroundingsStep ==
  ASSUME Surroundings, [Next]_vars
  PROVE  Surroundings'
<1>1. CASE Worker
  <2>1. ASSUME NEW f \in File, NEW v \in Version[f], Edit(f, v) \/ StrayEdit(f, v)
        PROVE  Surroundings'
    <3>1. /\ tree' = [tree EXCEPT ![f] = v] /\ art' = art /\ limits' = limits
          /\ mishaps' = mishaps \/ Goes("stray")
          /\ strayed' \in {strayed, strayed \cup {f}}
      BY <2>1 DEF Edit, StrayEdit
    <3> QED
      BY <3>1, TreeKeeps, GoesBounded DEF Surroundings
  <2>2. ASSUME NEW a \in 0..MaxArtifact, WriteArtifact(a)
        PROVE  Surroundings'
    <3>1. /\ art' = a /\ UNCHANGED << tree, limits, strayed >>
          /\ mishaps' = mishaps \/ Goes("artifact")
      BY <2>2 DEF WriteArtifact
    <3> QED
      BY <3>1, GoesBounded DEF Surroundings
  <2> QED
    BY <1>1, <2>1, <2>2 DEF Worker
<1>2. CASE Open
  BY <1>2, FinishBounded DEF Open, RefuseTerminal, OpenUnattributed, OpenUnchanged,
     OpenInvalidEvidence, OpenDrifted, OpenGate
<1>3. CASE Gate
  <2>1. ASSUME NEW run, NEW f \in File, NEW v \in Version[f], RunMutatingGate(run, f, v)
        PROVE  Surroundings'
    BY <2>1, TreeKeeps DEF RunMutatingGate, Surroundings
  <2> QED
    BY <1>3, <2>1, FinishBounded DEF Gate, RunGate, RecollectSame, RecollectChanged, RecollectFails
<1>4. CASE Judge
  BY <1>4, FinishBounded DEF Judge, CancelGate, GateFailed, RefuseStaleProof, RefuseEvidence,
     RefuseRepeat, StartReview
<1>5. CASE Review
  <2>1. ASSUME NEW result, PayChunk(result)
        PROVE  Surroundings'
    BY <2>1, SpendsBounded DEF PayChunk, Surroundings
  <2>2. CASE CancelReview \/ RefuseChunk \/ SaveChunk \/ Aggregate
    BY <2>2, FinishBounded DEF CancelReview, RefuseChunk, Refused, Fails, SaveChunk, Aggregate
  <2>3. CASE Denied \/ RefuseArtifact \/ RefuseFailed \/ Decide \/ PassLoop
             \/ \E boundary \in Tree \cup {NoTree} : CompletePhase(boundary)
    BY <2>3, FinishBounded DEF Denied, RefuseArtifact, RefuseFailed, Decide, PassLoop, CompletePhase
  <2> QED
    BY <1>5, <2>1, <2>2, <2>3 DEF Review
<1>6. CASE Supervise
  <2>1. ASSUME NEW ruling, PaySupervisor(ruling)
        PROVE  Surroundings'
    BY <2>1, SpendsBounded DEF PaySupervisor, Surroundings
  <2> QED
    BY <1>6, <2>1, FinishBounded DEF Supervise, SupervisorOut, RefuseSupervisor, ApplyRuling
<1>7. CASE Vanish
  BY <1>7, FinishBounded DEF Vanish
<1>8. CASE Human
  BY <1>8 DEF Human, ReopenGate, OverrideBudget, Surroundings
<1>9. CASE UNCHANGED vars
  BY <1>9 DEF Surroundings
<1> QED
  BY <1>1, <1>2, <1>3, <1>4, <1>5, <1>6, <1>7, <1>8, <1>9 DEF Next, Call

-----------------------------------------------------------------------------
(* Actions that touch no record but by ending the call.                    *)

LEMMA BoundsInit == Init => Convergence
<1> SUFFICES ASSUME Init
             PROVE  Settled(disk)
  BY DEF Init, Convergence
<1> DEFINE m == NewLoop
<1>1. /\ LoopFields \subseteq DOMAIN m /\ Renewed(m) /\ Counter(m) /\ m.ckpt = NoCheckpoint
      /\ m.idx = 0 /\ m.reopens = 0 /\ m.exhausted = FALSE /\ m.why = "none"
      /\ m.pending = NoStrategy /\ m.strat = NoStrategy /\ m.hist = << >>
      /\ m.recs = [s \in 0..NPhases |-> NoTree]
  BY DEF NewLoop, LoopFields, Renewed, Counter
<1>2. Checkpoint(NoCheckpoint)
  <2>1. << >> \in Seq(Result)
    OBVIOUS
  <2> QED
    BY <2>1 DEF NoCheckpoint, Checkpoint, CkptFields
<1>3. << >> \in Seq(SUBSET Finding) /\ NPhases \in Nat /\ MaxReopens \in Nat
  BY ControllerAssumption
<1> HIDE DEF m
<1>4. Typed(m)
  <2>1. m.recs \in [0..NPhases -> Tree \cup {NoTree}]
    BY <1>1
  <2>2. m.idx \in 0..NPhases /\ m.reopens \in 0..MaxReopens
    BY <1>1, <1>3
  <2>3. Checkpoint(m.ckpt) /\ Guided(m)
    BY <1>1, <1>2, <1>3 DEF Guided
  <2> QED
    BY <1>1, <2>1, <2>2, <2>3 DEF Typed
<1>5. Settled(m)
  BY <1>1, <1>4, RenewedWithin, WithinSettles
<1> QED
  BY <1>5 DEF Init, m

\* Nothing of a loop changes.
LEMMA BoundsKept ==
  ASSUME Convergence, disk' = disk, mem' = mem, pc' = pc,
         call' = call \/ \E x : call' = [call EXCEPT !.touched = x]
  PROVE  Convergence'
<1>1. /\ DOMAIN call' = DOMAIN call \/ pc = "idle"
      /\ pc # "idle" => \A f \in CallFields \ {"touched"} : call'[f] = call[f]
  BY DEF Convergence, CallTyped, CallFields
<1>2. pc # "idle" => CallTyped' /\ Resumable'
  BY <1>1 DEF Convergence, CallTyped, Resumable, Begun, CallFields
<1> QED
  BY <1>2 DEF Convergence, Settled, Typed, Counter, Checkpoint, Guided, Bounded, Terminal, Within,
     Decided, Ongoing, Begun, CanEscalate

LEMMA BoundsWorker ==
  ASSUME Convergence, Worker
  PROVE  Convergence'
<1>1. /\ disk' = disk /\ mem' = mem /\ pc' = pc
      /\ call' = call \/ call' = [call EXCEPT !.touched = TRUE]
  BY DEF Worker, Edit, StrayEdit, WriteArtifact
<1> QED
  BY <1>1, BoundsKept

\* What a call loads may go on.
LEMMA ReviewingWithin ==
  ASSUME Convergence, ~Terminal(disk)
  PROVE  /\ Typed(Reviewing) /\ Within(Reviewing) /\ SameCounts(Reviewing, disk)
         /\ Typed(disk) /\ Within(disk)
<1>1. Typed(disk) /\ Within(disk)
  BY DEF Convergence, Settled
<1> QED
  BY <1>1, ToTyped, SameWithin DEF Reviewing

LEMMA BoundsOpen ==
  ASSUME Lifecycle, Convergence, Surroundings, Open
  PROVE  Convergence'
<1>1. CASE RefuseTerminal
  BY <1>1, BoundsKept DEF RefuseTerminal
<1>2. CASE OpenUnattributed
  <2>1. ~Terminal(disk) /\ Finish(Stop(Reviewing, "other"), "HUMAN_REQUIRED")
    BY <1>2 DEF OpenUnattributed
  <2> QED
    BY <2>1, ReviewingWithin, WithinSettles, FinishSettles
<1>3. ASSUME NEW base \in Tree, OpenUnchanged(base) \/ OpenInvalidEvidence(base)
      PROVE  Convergence'
  <2>1. ~Terminal(disk)
        /\ (Finish(disk, "NO_PROGRESS") \/ Finish(To(Reviewing, "REWORK"), "REWORK"))
    BY <1>3 DEF OpenUnchanged, OpenInvalidEvidence, Collects
  <2> QED
    BY <2>1, ReviewingWithin, WithinSettles, FinishSettles
<1>4. ASSUME NEW base \in Tree, OpenDrifted(base)
      PROVE  Convergence'
  <2> DEFINE m == CountRepair(Reviewing)
  <2>1. /\ ~Terminal(disk)
        /\ \/ RepairsSpent(m) /\ Finish(Exhaust(m), "HUMAN_REQUIRED")
           \/ ~RepairsSpent(m) /\ Finish(To(m, "REWORK"), "REWORK")
    BY <1>4 DEF OpenDrifted, Collects
  <2>2. Typed(m) /\ Bounded(m) /\ (~RepairsSpent(m) => Within(m))
    BY <2>1, ReviewingWithin, RepairTyped
  <2>3. OnPhase(m) /\ m.st = "REVIEWING"
    BY <2>1, ReviewingLoop DEF CountRepair, OnPhase, Fields
  <2> HIDE DEF m
  <2> QED
    BY <2>1, <2>2, <2>3, ExhaustSettles, WithinSettles, FinishSettles
<1>5. ASSUME NEW base \in Tree, NEW b \in Budget, NEW submits \in BOOLEAN,
             OpenGate(base, b, submits)
      PROVE  Convergence'
  <2>1. /\ ~Terminal(disk) /\ pc' = "gate" /\ mem' = Reviewing /\ disk' = disk
        /\ CallFields \subseteq DOMAIN call' /\ call'.code = tree /\ call'.runs = 0
    BY <1>5 DEF OpenGate, Collects, CallFields
  <2>2. Typed(mem') /\ Within(mem') /\ mem'.ckpt = disk.ckpt
    BY <2>1, ReviewingWithin DEF SameCounts
  <2>3. call'.budget \in Budget /\ tree \in Tree /\ MaxStabilise \in Nat
    BY <1>5, ControllerAssumption DEF OpenGate, Surroundings
  <2>4. CallTyped' /\ Resumable'
    BY <2>1, <2>2, <2>3 DEF CallTyped, Resumable, Paying
  <2> QED
    BY <2>1, <2>2, <2>4 DEF Convergence, Settled, Typed, Counter, Checkpoint, Guided, Bounded,
       Terminal, Within, Ongoing, Begun, Undecided, Ruled
<1> QED
  BY <1>1, <1>2, <1>3, <1>4, <1>5 DEF Open

-----------------------------------------------------------------------------
(* Diffs and how they are cut.                                             *)

LEMMA FilesAreFinite ==
  ASSUME NEW files \in SUBSET File
  PROVE  IsFiniteSet(files) /\ Cardinality(files) \in Nat
<1>1. File = 1..Len(Version) /\ Len(Version) \in Nat
  BY ControllerAssumption, LenProperties DEF File
<1>2. IsFiniteSet(File)
  BY <1>1, FS_Interval
<1> QED
  BY <1>2, FS_Subset, FS_CardinalityType

\* A reduced diff leaves files out, it adds none.
LEMMA ShownChanged ==
  ASSUME NEW m, NEW base, NEW code, NEW now, NEW b
  PROVE  Shown(m, base, code, now, b) \subseteq Changed(base, code)
<1>1. \A files, post : Reduced(m, files, post, b) \subseteq files
  BY DEF Reduced
<1> QED
  BY <1>1 DEF Shown

LEMMA ChunksTyped ==
  ASSUME NEW files \in SUBSET File, NEW b \in Budget
  PROVE  /\ ChunkCount(files, b.size) \in Nat \ {0}
         /\ Chunks(files, b) \in Seq(SUBSET File)
         /\ Len(Chunks(files, b)) = ChunkCount(files, b.size)
<1> DEFINE n == ChunkCount(files, b.size)
           c == Cardinality(files)
<1>1. c \in Nat /\ b.size \in Nat \ {0}
  BY FilesAreFinite, ControllerAssumption
<1>2. n \in Nat \ {0}
  <2> HIDE DEF c
  <2>1. CASE c <= b.size
    BY <2>1 DEF ChunkCount, c
  <2>2. CASE ~(c <= b.size)
    <3> DEFINE s == b.size
               q == (c + s - 1) \div s
    <3>1. n = q
      BY <2>2 DEF ChunkCount, c
    <3>2. s \in Nat /\ s > 0 /\ c \in Nat /\ c >= s
      BY <1>1, <2>2
    <3> HIDE DEF s, n
    <3>3. q \in Nat /\ q > 0
      BY <3>2
    <3> QED
      BY <3>1, <3>3
  <2> QED
    BY <2>1, <2>2
<1> HIDE DEF n
<1>3. Chunks(files, b) = [i \in 1..n |-> {f \in files : Rank(f, files) \div b.size = i - 1}]
  BY DEF Chunks, n
<1>4. Chunks(files, b) \in [1..n -> SUBSET File]
  BY <1>3
<1> HIDE DEF c
<1> QED
  BY <1>2, <1>4, SeqDef, LenProperties DEF n

-----------------------------------------------------------------------------
(* Calls that go on.                                                       *)

LEMMA BoundsGoOn ==
  ASSUME Convergence, disk' = disk \/ Settled(disk'), pc' \in Undecided \cup Ruled \cup {"complete"},
         Typed(mem'), CallTyped', Resumable',
         pc' \in Undecided => Within(mem'),
         pc' \in Ruled \cup {"complete"} => Decided(mem'),
         pc' \in Ruled => CanEscalate(mem')
  PROVE  Convergence'
<1>1. Settled(disk)'
  BY DEF Convergence, Settled, Typed, Counter, Checkpoint, Guided, Bounded, Terminal, Within,
     Ongoing, Begun
<1>2. /\ Typed(mem)' /\ (pc' \in Undecided => Within(mem)')
      /\ (pc' \in Ruled \cup {"complete"} => Decided(mem)') /\ (pc' \in Ruled => CanEscalate(mem)')
  BY DEF Typed, Counter, Checkpoint, Guided, Within, Decided, Ongoing, Begun, CanEscalate
<1>3. (pc # "idle")' => pc' \in Undecided \cup Ruled \cup {"complete"}
  OBVIOUS
<1> QED
  BY <1>1, <1>2, <1>3 DEF Convergence, Undecided, Ruled

LEMMA BoundsGate ==
  ASSUME Lifecycle, Convergence, Surroundings, Gate
  PROVE  Convergence'
<1>1. CASE RecollectSame \/ \E run : \/ RunGate(run)
                                     \/ \E f, v : RunMutatingGate(run, f, v)
  <2>1. /\ pc \in {"gate", "recollect"} /\ pc' \in {"recollect", "judge"}
        /\ disk' = disk /\ mem' = mem
        /\ call' = call \/ \E t, run : call' = [call EXCEPT !.tested = t, !.gate = run]
    BY <1>1 DEF RecollectSame, RunGate, RunMutatingGate
  <2>2. /\ CallFields \subseteq DOMAIN call' /\ call'.code = call.code
        /\ call'.budget = call.budget /\ call'.runs = call.runs
    BY <2>1 DEF Convergence, CallTyped, CallFields
  <2>3. Typed(mem) /\ Within(mem) /\ CallTyped /\ Resumable
    BY <2>1 DEF Convergence, Undecided
  <2>4. CallTyped' /\ Resumable'
    BY <2>1, <2>2, <2>3 DEF CallTyped, Resumable, Paying
  <2> QED
    BY <2>1, <2>3, <2>4, BoundsGoOn DEF Undecided, Ruled
<1>2. CASE RecollectChanged
  <2> DEFINE m == WithoutProof(mem)
  <2>1. pc = "recollect" /\ Typed(mem) /\ Within(mem) /\ CallTyped /\ Resumable
    BY <1>2 DEF RecollectChanged, Convergence, Undecided
  <2>2. Typed(m) /\ Within(m) /\ m.ckpt = mem.ckpt
    BY <2>1, ProofTyped, SameWithin DEF CallTyped, SameCounts
  <2> HIDE DEF m
  <2>3. \/ Finish(m, "NO_PROGRESS")
        \/ Finish(Stop(m, "other"), "HUMAN_REQUIRED")
        \/ /\ disk' = disk /\ mem' = m /\ pc' \in {"gate", "judge"}
           /\ pc' = "gate" => call.runs # MaxStabilise
           /\ call' = [call EXCEPT !.code = tree, !.mutated = TRUE, !.runs = @ + 1]
    BY <1>2 DEF RecollectChanged, m
  <2>4. CASE Finish(m, "NO_PROGRESS") \/ Finish(Stop(m, "other"), "HUMAN_REQUIRED")
    BY <2>2, <2>4, WithinSettles, FinishSettles
  <2>5. CASE /\ disk' = disk /\ mem' = m /\ pc' \in {"gate", "judge"}
             /\ pc' = "gate" => call.runs # MaxStabilise
             /\ call' = [call EXCEPT !.code = tree, !.mutated = TRUE, !.runs = @ + 1]
    <3>1. /\ CallFields \subseteq DOMAIN call' /\ call'.code = tree /\ tree \in Tree
          /\ call'.budget = call.budget /\ call'.runs = call.runs + 1
      BY <2>1, <2>5 DEF CallTyped, CallFields, Surroundings
    <3>2. /\ MaxStabilise \in Nat /\ call.runs \in 0..(MaxStabilise + 1)
          /\ call.runs <= MaxStabilise /\ call.budget \in Budget
      BY <2>1, ControllerAssumption DEF CallTyped
    <3>3. CallTyped'
      BY <2>5, <3>1, <3>2 DEF CallTyped, Paying
    <3>4. Resumable'
      BY <2>1, <2>2, <2>5 DEF Resumable, Paying
    <3> QED
      BY <2>2, <2>5, <3>3, <3>4, BoundsGoOn DEF Undecided, Ruled
  <2> QED
    BY <2>3, <2>4, <2>5
<1>3. CASE RecollectFails
  <2>1. Typed(mem) /\ Within(mem) /\ Finish(Stop(mem, "other"), "HUMAN_REQUIRED")
    BY <1>3 DEF RecollectFails, Convergence, Undecided
  <2> QED
    BY <2>1, WithinSettles, FinishSettles
<1> QED
  BY <1>1, <1>2, <1>3 DEF Gate

-----------------------------------------------------------------------------
(* The review that begins or is taken up again.                            *)

LEMMA PrintIsOne ==
  ASSUME NEW pending
  PROVE  Logical(pending) # NoPrint
<1>1. "base" \in DOMAIN Logical(pending)
  BY DEF Logical, RoundPrint
<1>2. DOMAIN NoPrint = {}
  BY DEF NoPrint
<1> QED
  BY <1>1, <1>2

\* A review that is taken up again keeps its counters; a new one counts one up.
LEMMA CountedTyped ==
  ASSUME Typed(mem), Within(mem), call.code \in Tree, NEW print, print # NoPrint
  PROVE  LET m == Counted(print) IN
           /\ Typed(m) /\ m.ckpt = mem.ckpt
           /\ Resumes(print) => SameCounts(m, mem)
           /\ ~Resumes(print) =>
                /\ m.epochRound = mem.epochRound + 1 /\ m.epoch = mem.epoch /\ m.esc = mem.esc
                /\ m.repairs = mem.repairs /\ m.judged = mem.judged
                /\ m.setbacks = mem.setbacks /\ m.exhausted = mem.exhausted
<1> DEFINE s == Staged
           m == Counted(print)
           Rounds == {"round", "gateRound", "epoch", "epochRound"}
<1>1. Typed(s) /\ SameCounts(s, mem)
  BY ProofTyped
<1>2. CASE Resumes(print)
  <2>1. Begun(mem)
    BY <1>2 DEF Resumes, Begun
  <2>2. /\ mem.ckpt.round = mem.round /\ mem.ckpt.gateRound = mem.gateRound
        /\ mem.ckpt.epoch = mem.epoch /\ mem.ckpt.epochRound = mem.epochRound
    BY <2>1 DEF Within
  <2>3. m = [s EXCEPT !.round = mem.ckpt.round, !.gateRound = mem.ckpt.gateRound,
                      !.epoch = mem.ckpt.epoch, !.epochRound = mem.ckpt.epochRound]
    BY <1>2 DEF Counted
  <2> HIDE DEF s, m
  <2>4. DOMAIN m = DOMAIN s /\ \A f \in LoopFields : m[f] = s[f]
    BY <1>1, <2>2, <2>3 DEF Typed, SameCounts, LoopFields
  <2>5. Typed(m)
    BY <1>1, <2>4 DEF Typed, Counter, Guided, LoopFields
  <2>6. SameCounts(m, mem)
    BY <1>1, <2>4 DEF SameCounts, LoopFields
  <2> QED
    BY <1>2, <2>5, <2>6 DEF SameCounts, m
<1>3. CASE ~Resumes(print)
  <2>1. m = [s EXCEPT !.round = @ + 1, !.gateRound = @ + 1, !.epochRound = @ + 1]
    BY <1>3 DEF Counted
  <2> HIDE DEF s, m
  <2>2. /\ DOMAIN m = DOMAIN s /\ \A f \in {"round", "gateRound", "epochRound"} : m[f] = s[f] + 1
        /\ \A f \in LoopFields \ {"round", "gateRound", "epochRound"} : m[f] = s[f]
    BY <1>1, <2>1 DEF Typed, LoopFields
  <2>3. Typed(m)
    <3>1. Counter(s)
      BY <1>1 DEF Typed
    <3>2. Counter(m)
      BY <2>2, <3>1 DEF Counter, LoopFields
    <3> QED
      BY <1>1, <2>2, <3>2 DEF Typed, Guided, LoopFields
  <2> QED
    BY <1>1, <1>3, <2>2, <2>3 DEF SameCounts, LoopFields, m
<1> QED
  BY <1>2, <1>3

\* What StartReview works on from then on.
LEMMA CheckpointedWithin ==
  ASSUME Typed(mem), Within(mem), call.code \in Tree, NEW print, print # NoPrint, NEW plan
  PROVE  LET m == Checkpointed(Counted(print), print, plan) IN
           /\ Typed(m) /\ Within(m) /\ m.ckpt.print = print
           /\ mem.ckpt.print = print =>
                /\ m.round = mem.ckpt.round /\ m.gateRound = mem.ckpt.gateRound
                /\ m.epochRound = mem.ckpt.epochRound
                /\ mem.ckpt.plan = plan => m.ckpt = mem.ckpt
<1> DEFINE c == Counted(print)
           m == Checkpointed(c, print, plan)
           new == [print |-> print, plan |-> plan, got |-> << >>, round |-> c.round,
                   gateRound |-> c.gateRound, epoch |-> c.epoch, epochRound |-> c.epochRound]
<1>1. /\ Typed(c) /\ c.ckpt = mem.ckpt
      /\ Resumes(print) => SameCounts(c, mem)
      /\ ~Resumes(print) =>
           /\ c.epochRound = mem.epochRound + 1 /\ c.epoch = mem.epoch /\ c.esc = mem.esc
           /\ c.repairs = mem.repairs /\ c.judged = mem.judged
           /\ c.setbacks = mem.setbacks /\ c.exhausted = mem.exhausted
  BY CountedTyped
<1>2. Resumes(print) = (mem.ckpt.print = print)
  BY DEF Resumes
<1>3. Begun(mem) =>
        /\ mem.ckpt.round = mem.round /\ mem.ckpt.gateRound = mem.gateRound
        /\ mem.ckpt.epoch = mem.epoch /\ mem.ckpt.epochRound = mem.epochRound
  BY DEF Within
<1>4. m = IF Resumes(print) /\ mem.ckpt.plan = plan THEN c ELSE [c EXCEPT !.ckpt = new]
  BY DEF Checkpointed
<1>5. Resumes(print) => Within(c) /\ Begun(mem)
  BY <1>1, <1>2, SameWithin DEF Begun
<1>6. Ongoing(c) /\ c.judged < Granted(c.epoch) + c.setbacks
      /\ c.judged < Before(c.epoch) + c.epochRound + c.setbacks
  <2>1. CASE Resumes(print)
    BY <1>1, <1>5, <2>1 DEF Within, Begun, SameCounts
  <2>2. CASE ~Resumes(print)
    <3> HIDE DEF c, m
    <3>1. Ongoing(c) /\ c.judged < Granted(c.epoch) + c.setbacks
      BY <1>1, <2>2 DEF Within, Ongoing
    <3>2. /\ c.judged <= Before(c.epoch) + mem.epochRound + c.setbacks
          /\ c.epochRound = mem.epochRound + 1
      BY <1>1, <2>2 DEF Within
    <3>3. mem.epochRound \in Nat /\ c.judged \in Nat /\ c.setbacks \in Nat /\ c.epoch \in Nat
      BY <1>1 DEF Typed, Counter
    <3>4. Before(c.epoch) \in Nat
      BY <3>3, GrantedGrows
    <3> HIDE DEF Before
    <3>5. c.judged < Before(c.epoch) + c.epochRound + c.setbacks
      BY <3>2, <3>3, <3>4
    <3> QED
      BY <3>1, <3>5
  <2> QED
    BY <2>1, <2>2
<1> HIDE DEF c, m
<1>7. CASE Resumes(print) /\ mem.ckpt.plan = plan
  BY <1>1, <1>2, <1>3, <1>4, <1>5, <1>7 DEF SameCounts, m, c
<1>8. CASE ~(Resumes(print) /\ mem.ckpt.plan = plan)
  <2>1. /\ DOMAIN m = DOMAIN c /\ m.ckpt = new /\ \A f \in LoopFields \ {"ckpt"} : m[f] = c[f]
    BY <1>1, <1>4, <1>8 DEF Typed, LoopFields
  <2>2. Checkpoint(new)
    <3>1. << >> \in Seq(Result)
      OBVIOUS
    <3> QED
      BY <1>1, <3>1 DEF Typed, Counter, Checkpoint, CkptFields
  <2>3. Typed(m)
    BY <1>1, <2>1, <2>2 DEF Typed, Counter, Guided, LoopFields
  <2>4. /\ new.print = print /\ new.round = c.round /\ new.gateRound = c.gateRound
        /\ new.epoch = c.epoch /\ new.epochRound = c.epochRound
    OBVIOUS
  <2> HIDE DEF new
  <2>5. Within(m)
    <3>1. m.judged < Before(m.epoch) + m.epochRound + m.setbacks
      BY <1>6, <2>1 DEF LoopFields
    <3>2. Ongoing(m) /\ m.judged < Granted(m.epoch) + m.setbacks
      BY <1>6, <2>1 DEF LoopFields, Ongoing
    <3>3. /\ m.ckpt.round = m.round /\ m.ckpt.gateRound = m.gateRound
          /\ m.ckpt.epoch = m.epoch /\ m.ckpt.epochRound = m.epochRound
      BY <2>1, <2>4 DEF LoopFields
    <3>4. m.judged \in Nat /\ m.epochRound \in Nat /\ m.setbacks \in Nat /\ Before(m.epoch) \in Nat
      BY <2>3, GrantedGrows DEF Typed, Counter
    <3> HIDE DEF Before
    <3>5. m.judged <= Before(m.epoch) + m.epochRound + m.setbacks
      BY <3>1, <3>4
    <3> QED
      BY <3>1, <3>2, <3>3, <3>5 DEF Within
  <2>6. mem.ckpt.print = print =>
          /\ m.round = mem.ckpt.round /\ m.gateRound = mem.ckpt.gateRound
          /\ m.epochRound = mem.ckpt.epochRound /\ mem.ckpt.plan # plan
    BY <1>1, <1>2, <1>3, <1>5, <1>8, <2>1 DEF SameCounts, LoopFields
  <2> QED
    BY <2>1, <2>3, <2>4, <2>5, <2>6 DEF m, c
<1> QED
  BY <1>7, <1>8 DEF m, c

LEMMA BoundsJudge ==
  ASSUME Lifecycle, Convergence, Surroundings, Judge
  PROVE  Convergence'
<1>1. pc = "judge"
  BY DEF Judge, CancelGate, GateFailed, RefuseStaleProof, RefuseEvidence, RefuseRepeat,
     StartReview, Accepted, GatePassed
<1>2. Typed(mem) /\ Within(mem) /\ CallTyped /\ Resumable /\ call.code \in Tree
  BY <1>1 DEF Convergence, Undecided, CallTyped
<1>3. Typed(Staged) /\ Within(Staged) /\ SameCounts(Staged, mem)
  BY <1>2, ProofTyped, SameWithin
<1>4. CASE CancelGate \/ RefuseStaleProof \/ RefuseEvidence \/ RefuseRepeat
  <2>1. \/ Finish(Stop(mem, "other"), "HUMAN_REQUIRED")
        \/ Finish(To(mem, "REWORK"), "REWORK")
        \/ Finish(To(Staged, "REWORK"), "REWORK")
        \/ Finish(Staged, "NO_PROGRESS")
    BY <1>4 DEF CancelGate, RefuseStaleProof, RefuseEvidence, RefuseRepeat
  <2> QED
    BY <1>2, <1>3, <2>1, WithinSettles, FinishSettles
<1>5. CASE GateFailed
  <2> DEFINE m == CountRepair(mem)
             r == [To(m, "REWORK") EXCEPT !.last = GatePrint]
  <2>1. \/ Finish(mem, "NO_PROGRESS")
        \/ RepairsSpent(m) /\ Finish(Exhaust(m), "HUMAN_REQUIRED")
        \/ ~RepairsSpent(m) /\ Finish(r, "REWORK")
    BY <1>5 DEF GateFailed
  <2>2. Typed(m) /\ Bounded(m) /\ (~RepairsSpent(m) => Within(m))
    BY <1>2, RepairTyped
  <2>3. OnPhase(m) /\ m.st = "REVIEWING"
    BY <1>1, StillReviewing
  <2>4. ~RepairsSpent(m) => Typed(r) /\ Within(r)
    <3> DEFINE t == To(m, "REWORK")
    <3>1. Typed(t) /\ SameCounts(t, m)
      BY <2>2, ToTyped
    <3> HIDE DEF t, m
    <3>2. r = [t EXCEPT !.last = GatePrint]
      BY DEF t
    <3>3. Typed(r) /\ SameCounts(r, m)
      BY <3>1, <3>2 DEF Typed, Counter, Guided, LoopFields, SameCounts
    <3> QED
      BY <2>2, <3>3, SameWithin
  <2> HIDE DEF m, r
  <2> QED
    BY <1>2, <2>1, <2>2, <2>3, <2>4, ExhaustSettles, WithinSettles, FinishSettles
<1>6. CASE StartReview
  <2> DEFINE print == Logical(mem.pending)
             shown == Shown(mem, call.base, call.code, tree, call.budget)
             plan == Chunks(shown, call.budget)
             begun == [call EXCEPT !.proof = Proof, !.print = print, !.plan = plan]
             next == Checkpointed(Counted(print), print, plan)
  <2>1. /\ disk' = disk
        /\ \/ /\ pc' = "verify" /\ mem' = Staged /\ call' = [begun EXCEPT !.review = Unusable]
           \/ pc' = "chunks" /\ mem' = next /\ call' = begun
    BY <1>6 DEF StartReview
  <2>2. print # NoPrint
    BY PrintIsOne
  <2>3. plan \in Seq(SUBSET File)
    BY <1>2, ShownChanged, ChunksTyped DEF Changed, CallTyped
  <2> HIDE DEF print, shown, plan
  <2>4. /\ Typed(next) /\ Within(next) /\ next.ckpt.print = print
        /\ mem.ckpt.print = print =>
             /\ next.round = mem.ckpt.round /\ next.gateRound = mem.ckpt.gateRound
             /\ next.epochRound = mem.ckpt.epochRound
             /\ mem.ckpt.plan = plan => next.ckpt = mem.ckpt
    BY <1>2, <2>2, CheckpointedWithin
  <2>5. /\ CallFields \subseteq DOMAIN call' /\ call'.code = call.code /\ call'.budget = call.budget
        /\ call'.runs = call.runs /\ call'.print = print /\ call'.plan = plan
        /\ pc' = "verify" => call'.review = Unusable
    BY <1>2, <2>1 DEF CallTyped, CallFields
  <2>6. CallTyped'
    BY <1>2, <2>1, <2>3, <2>5 DEF CallTyped, IsFailed, Paying
  <2> HIDE DEF next
  <2>7. Resumable'
    <3>1. mem.ckpt = disk.ckpt
      BY <1>1, <1>2 DEF Resumable
    <3>2. pc' = "chunks" => Begun(mem')
      BY <2>1, <2>2, <2>4 DEF Begun
    <3>3. mem.ckpt.got \in Seq(Result)
      BY <1>2 DEF Typed, Checkpoint
    <3>4. Len(mem.ckpt.got) <= Len(mem.ckpt.got)
      BY <3>3, LenProperties
    <3>5. pc' = "chunks" =>
            /\ mem'.ckpt.print = call'.print /\ Begun(mem)'
            /\ disk'.ckpt.print = call'.print =>
                 /\ disk'.ckpt.round = mem'.round /\ disk'.ckpt.gateRound = mem'.gateRound
                 /\ disk'.ckpt.epochRound = mem'.epochRound
                 /\ disk'.ckpt.plan = call'.plan => Len(disk'.ckpt.got) <= Len(mem'.ckpt.got)
      BY <2>1, <2>4, <2>5, <3>1, <3>2, <3>4 DEF Begun
    <3> QED
      BY <2>1, <3>5 DEF Resumable, Paying
  <2>8. Typed(mem') /\ Within(mem')
    BY <1>3, <2>1, <2>4
  <2> QED
    BY <2>1, <2>6, <2>7, <2>8, BoundsGoOn DEF Undecided, Ruled
<1> QED
  BY <1>4, <1>5, <1>6 DEF Judge

-----------------------------------------------------------------------------
(* The chunks.                                                             *)

\* A chunk's result is kept behind those before it.
LEMMA PaidTyped ==
  ASSUME Typed(mem), Within(mem), NEW result \in Result
  PROVE  LET m == [mem EXCEPT !.ckpt.got = Append(@, result)] IN
           /\ Typed(m) /\ Within(m) /\ m.ckpt.print = mem.ckpt.print
           /\ m.round = mem.round /\ m.gateRound = mem.gateRound /\ m.epochRound = mem.epochRound
           /\ Len(m.ckpt.got) = Len(mem.ckpt.got) + 1
<1> DEFINE m == [mem EXCEPT !.ckpt.got = Append(@, result)]
           c == [mem.ckpt EXCEPT !.got = Append(@, result)]
<1>1. mem.ckpt.got \in Seq(Result) /\ CkptFields \subseteq DOMAIN mem.ckpt
  BY DEF Typed, Checkpoint
<1>2. /\ Append(mem.ckpt.got, result) \in Seq(Result)
      /\ Len(Append(mem.ckpt.got, result)) = Len(mem.ckpt.got) + 1
  BY <1>1, AppendKeeps
<1>3. /\ DOMAIN c = DOMAIN mem.ckpt /\ c.got = Append(mem.ckpt.got, result)
      /\ \A f \in CkptFields \ {"got"} : c[f] = mem.ckpt[f]
  BY <1>1 DEF CkptFields
<1>4. /\ DOMAIN m = DOMAIN mem /\ m.ckpt = c /\ \A f \in LoopFields \ {"ckpt"} : m[f] = mem[f]
  BY DEF Typed, LoopFields
<1> HIDE DEF m, c
<1>5. Checkpoint(c)
  BY <1>1, <1>2, <1>3 DEF Typed, Checkpoint, CkptFields
<1>6. Typed(m)
  BY <1>4, <1>5 DEF Typed, Counter, Guided, LoopFields
<1>7. Within(m)
  BY <1>3, <1>4 DEF Within, Ongoing, Begun, LoopFields, CkptFields
<1> QED
  BY <1>2, <1>3, <1>4, <1>6, <1>7 DEF m, LoopFields, CkptFields

\* The findings of a review none of whose chunks failed.
LEMMA AggregatedFindings ==
  ASSUME NEW got \in Seq(Result)
  PROVE  LET results == {got[i] : i \in 1..Len(got)} IN
           (\E r \in results : IsFailed(r)) \/ UNION results \subseteq Finding
<1> SUFFICES ASSUME ~\E r \in {got[i] : i \in 1..Len(got)} : IsFailed(r),
                    NEW i \in 1..Len(got), NEW f \in got[i]
             PROVE  f \in Finding
  OBVIOUS
<1>1. got[i] \in Result
  BY LenProperties
<1>2. ~IsFailed(got[i])
  OBVIOUS
<1>3. got[i] # Unusable
  BY <1>2 DEF IsFailed
<1>4. got[i] \subseteq Finding
  BY <1>1, <1>3 DEF Result
<1> QED
  BY <1>4

LEMMA BoundsChunks ==
  ASSUME Lifecycle, Convergence,
         \/ \E result \in (SUBSET Finding) \cup {Unusable} : PayChunk(result)
         \/ CancelReview \/ RefuseChunk \/ SaveChunk \/ Aggregate
  PROVE  Convergence'
<1>1. pc \in Paying
  BY DEF PayChunk, CancelReview, RefuseChunk, MoreChunks, SaveChunk, Aggregate, Paying
<1>2. Typed(mem) /\ Within(mem) /\ CallTyped /\ Resumable /\ Begun(mem)
  BY <1>1 DEF Convergence, Undecided, Paying, Resumable
<1>3. ASSUME NEW x, \/ call' = call \/ call' = [call EXCEPT !.review = x]
                    \/ call' = [call EXCEPT !.why = x]
      PROVE  /\ CallFields \subseteq DOMAIN call'
             /\ \A f \in CallFields \ {"review", "why"} : call'[f] = call[f]
             /\ call' = [call EXCEPT !.review = x] => call'.review = x
             /\ call' = [call EXCEPT !.why = x] => call'.why = x
  BY <1>2, <1>3 DEF CallTyped, CallFields
<1>4. ASSUME NEW result \in Result, PayChunk(result)
      PROVE  Convergence'
  <2>1. /\ pc = "chunks" /\ pc' = "saveChunk" /\ disk' = disk /\ call' = call
        /\ mem' = [mem EXCEPT !.ckpt.got = Append(@, result)]
    BY <1>4 DEF PayChunk, MoreChunks
  <2>2. /\ Typed(mem') /\ Within(mem') /\ mem'.ckpt.print = mem.ckpt.print
        /\ mem'.round = mem.round /\ mem'.gateRound = mem.gateRound
        /\ mem'.epochRound = mem.epochRound
        /\ Len(mem'.ckpt.got) = Len(mem.ckpt.got) + 1
    BY <1>2, <2>1, PaidTyped
  <2>3. CallTyped'
    BY <1>2, <2>1 DEF CallTyped, Paying
  <2>4. Len(mem.ckpt.got) \in Nat
    BY <1>2, LenProperties DEF Typed, Checkpoint
  <2>5. Resumable'
    <3>1. disk.ckpt.print = call.print =>
            /\ disk.ckpt.round = mem.round /\ disk.ckpt.gateRound = mem.gateRound
            /\ disk.ckpt.epochRound = mem.epochRound
            /\ disk.ckpt.plan = call.plan => Len(disk.ckpt.got) <= Len(mem.ckpt.got)
      BY <1>1, <1>2 DEF Resumable
    <3>2. Settled(disk)
      BY DEF Convergence
    <3>3. Len(disk.ckpt.got) \in Nat
      BY <3>2, LenProperties DEF Settled, Typed, Checkpoint
    <3>4. Len(disk.ckpt.got) <= Len(mem.ckpt.got) => Len(disk.ckpt.got) <= Len(mem'.ckpt.got)
      BY <2>2, <2>4, <3>3
    <3> QED
      BY <1>1, <1>2, <2>1, <2>2, <3>1, <3>4 DEF Resumable, Paying, Begun
  <2> QED
    BY <2>1, <2>2, <2>3, <2>5, BoundsGoOn DEF Undecided, Ruled
<1>5. CASE CancelReview \/ RefuseChunk
  <2>1. /\ disk' = disk /\ mem' = mem
        /\ \/ pc' = "verify" /\ call' = [call EXCEPT !.review = Unusable]
           \/ pc' = "denied" /\ \E x \in {"usage", "other"} : call' = [call EXCEPT !.why = x]
    BY <1>5 DEF CancelReview, RefuseChunk, Refused, Fails
  <2>2. CallTyped'
    BY <1>2, <1>3, <2>1 DEF CallTyped, IsFailed, CallFields, Paying
  <2>3. Resumable'
    BY <2>1 DEF Resumable, Paying
  <2> QED
    BY <1>2, <2>1, <2>2, <2>3, BoundsGoOn DEF Undecided, Ruled
<1>6. CASE Aggregate
  <2> DEFINE results == {mem.ckpt.got[i] : i \in 1..Len(mem.ckpt.got)}
             review == IF \E r \in results : IsFailed(r) THEN Unusable ELSE UNION results
  <2>1. disk' = disk /\ mem' = mem /\ pc' = "verify" /\ call' = [call EXCEPT !.review = review]
    BY <1>6 DEF Aggregate
  <2>2. IsFailed(review) \/ review \subseteq Finding
    BY <1>2, AggregatedFindings DEF Typed, Checkpoint, IsFailed
  <2> HIDE DEF review
  <2>3. CallTyped'
    BY <1>2, <1>3, <2>1, <2>2 DEF CallTyped, IsFailed, CallFields, Paying, Begun
  <2>4. Resumable'
    BY <2>1 DEF Resumable, Paying
  <2> QED
    BY <1>2, <2>1, <2>3, <2>4, BoundsGoOn DEF Undecided, Ruled
<1>7. CASE SaveChunk
  <2>1. Settled(mem) /\ Settled(disk)
    BY <1>2, WithinSettles DEF Convergence
  <2>2. CASE pc' = "chunks" /\ disk' = mem /\ mem' = mem /\ call' = call
    <3>1. CallTyped'
      BY <1>1, <1>2, <2>2 DEF CallTyped, Paying
    <3>2. mem.ckpt.print = call.print
      BY <1>1, <1>2 DEF Resumable
    <3>3. /\ mem.ckpt.round = mem.round /\ mem.ckpt.gateRound = mem.gateRound
          /\ mem.ckpt.epochRound = mem.epochRound
      BY <1>2 DEF Within
    <3>4. Len(mem.ckpt.got) <= Len(mem.ckpt.got)
      BY <1>2, LenProperties DEF Typed, Checkpoint
    <3>5. Resumable'
      BY <1>2, <2>2, <3>2, <3>3, <3>4 DEF Resumable, Paying, Begun
    <3> QED
      BY <1>2, <2>1, <2>2, <3>1, <3>5, BoundsGoOn DEF Undecided, Ruled
  <2>3. CASE /\ pc' = "denied" /\ disk' \in {disk, mem} /\ mem' = mem
             /\ call' = [call EXCEPT !.why = "other"]
    <3>1. CallTyped'
      BY <1>2, <1>3, <2>3 DEF CallTyped, Paying, CallFields
    <3>2. Resumable'
      BY <2>3 DEF Resumable, Paying
    <3> QED
      BY <1>2, <2>1, <2>3, <3>1, <3>2, BoundsGoOn DEF Undecided, Ruled
  <2> QED
    BY <1>7, <2>2, <2>3 DEF SaveChunk
<1> QED
  BY <1>4, <1>5, <1>6, <1>7 DEF Result

-----------------------------------------------------------------------------
(* The decision.                                                           *)

\* What is recorded of a review: nothing is under way any more.
LEMMA ReviewedTyped ==
  ASSUME Typed(mem), Within(mem)
  PROVE  /\ Typed(Reviewed) /\ Within(Reviewed) /\ ~Begun(Reviewed)
         /\ Reviewed.epochRound = mem.epochRound /\ Reviewed.epoch = mem.epoch
         /\ Reviewed.judged = mem.judged /\ Reviewed.setbacks = mem.setbacks
<1> DEFINE m == Reviewed
<1>1. /\ DOMAIN m = DOMAIN mem /\ m.ckpt = NoCheckpoint
      /\ \A f \in LoopFields \ {"ckpt", "last"} : m[f] = mem[f]
  BY DEF Reviewed, Typed, LoopFields
<1>2. Checkpoint(NoCheckpoint) /\ NoCheckpoint.print = NoPrint
  <2>1. << >> \in Seq(Result)
    OBVIOUS
  <2> QED
    BY <2>1 DEF NoCheckpoint, Checkpoint, CkptFields
<1> HIDE DEF m
<1>3. Typed(m)
  BY <1>1, <1>2 DEF Typed, Counter, Guided, LoopFields
<1>4. Within(m) /\ ~Begun(m)
  BY <1>1, <1>2 DEF Within, Ongoing, Begun, LoopFields
<1> QED
  BY <1>1, <1>3, <1>4 DEF m, LoopFields

\* A review that was counted is decided on once, and goes to rework only when
\* its epoch has a round left.
LEMMA RecordedDecided ==
  ASSUME Typed(mem), Within(mem), Begun(mem), NEW review \in SUBSET Finding
  PROVE  LET m == Recorded(Reviewed, review) IN
           /\ Typed(m) /\ Decided(m)
           /\ CanEscalate(Reviewed) => CanEscalate(m)
           /\ ~EpochExhausted(Reviewed) => Within(m)
<1> DEFINE r == Reviewed
           m == Recorded(r, review)
<1>1. /\ Typed(r) /\ Within(r) /\ ~Begun(r) /\ r.epochRound = mem.epochRound
      /\ r.epoch = mem.epoch /\ r.judged = mem.judged /\ r.setbacks = mem.setbacks
  BY ReviewedTyped
<1> HIDE DEF r
<1>2. /\ DOMAIN m = DOMAIN r /\ m.pending = NoStrategy
      /\ m.hist = LastTwo(Append(r.hist, review)) /\ m.judged = r.judged + 1
      /\ \A f \in LoopFields \ {"pending", "hist", "judged"} : m[f] = r[f]
  BY <1>1 DEF Recorded, Typed, LoopFields
<1>3. m.hist \in Seq(SUBSET Finding)
  <2> DEFINE h == Append(r.hist, review)
  <2>1. h \in Seq(SUBSET Finding) /\ Len(h) \in Nat
    BY <1>1, AppendKeeps, LenProperties DEF Typed, Guided
  <2> HIDE DEF h
  <2>2. CASE Len(h) > 2
    <3>1. \A i \in (Len(h) - 1)..Len(h) : h[i] \in SUBSET Finding
      BY <2>1, <2>2, LenProperties
    <3>2. SubSeq(h, Len(h) - 1, Len(h)) \in Seq(SUBSET Finding)
      BY <2>1, <2>2, <3>1, SubSeqProperties
    <3> QED
      BY <1>2, <2>2, <3>2 DEF LastTwo, h
  <2>3. CASE ~(Len(h) > 2)
    BY <1>2, <2>1, <2>3 DEF LastTwo, h
  <2> QED
    BY <2>2, <2>3
<1> HIDE DEF m
<1>4. Counter(r) /\ Granted(r.epoch) \in Nat /\ Before(r.epoch) \in Nat
  BY <1>1, GrantedGrows DEF Typed, Counter
<1>5. Typed(m)
  <2>1. Counter(m)
    BY <1>2, <1>4 DEF Counter, LoopFields
  <2> QED
    BY <1>1, <1>2, <1>3, <2>1 DEF Typed, Guided, LoopFields
<1>6. /\ r.judged < Granted(r.epoch) + r.setbacks
      /\ r.judged < Before(r.epoch) + r.epochRound + r.setbacks
  BY <1>1 DEF Within
<1>7. /\ m.epoch = r.epoch /\ m.epochRound = r.epochRound /\ m.setbacks = r.setbacks
      /\ m.esc = r.esc /\ m.repairs = r.repairs /\ m.exhausted = r.exhausted /\ m.ckpt = r.ckpt
  BY <1>2 DEF LoopFields
<1>8. Ongoing(m) /\ ~Begun(m)
  BY <1>1, <1>7 DEF Within, Ongoing, Begun
<1>9. /\ m.judged <= Granted(m.epoch) + m.setbacks
      /\ m.judged <= Before(m.epoch) + m.epochRound + m.setbacks
  <2> HIDE DEF Granted, Before
  <2> QED
    BY <1>2, <1>4, <1>6, <1>7 DEF Counter
<1>10. ASSUME ~EpochExhausted(r)
       PROVE  Within(m)
  <2>1. r.epochRound < EpochBudget(r) /\ EpochBudget(r) \in Nat
        /\ Before(r.epoch) + EpochBudget(r) = Granted(r.epoch)
    BY <1>4, <1>10, EpochIsGranted DEF EpochExhausted, Counter
  <2> HIDE DEF Granted, Before
  <2>2. Before(r.epoch) + r.epochRound + r.setbacks < Granted(r.epoch) + r.setbacks
    BY <1>4, <2>1 DEF Counter
  <2>3. m.judged < Granted(m.epoch) + m.setbacks
    BY <1>4, <1>7, <1>9, <2>2, <1>5 DEF Typed, Counter
  <2> QED
    BY <1>8, <1>9, <2>3 DEF Within
<1> QED
  BY <1>5, <1>7, <1>8, <1>9, <1>10 DEF Decided, CanEscalate, m, r

LEMMA BoundsDecide ==
  ASSUME Lifecycle, Convergence, Decide
  PROVE  Convergence'
<1> DEFINE m == Recorded(Reviewed, call.review)
           verdict == Verdict(Reviewed, call.review)
<1>1. /\ pc = "verify" /\ ~IsFailed(call.review) /\ call' = call
      /\ \/ verdict = "PASS" /\ pc' = "complete" /\ mem' = m /\ disk' = disk
         \/ verdict = "ESCALATE" /\ pc' = "supervise" /\ mem' = m /\ disk' = disk
      \/ /\ pc = "verify" /\ ~IsFailed(call.review)
         /\ \/ Finish(Exhaust(m), "HUMAN_REQUIRED")
            \/ /\ verdict \notin {"PASS", "ESCALATE", "HUMAN_REQUIRED"}
               /\ Finish(To(m, "REWORK"), "REWORK")
  BY DEF Decide, Verified
<1>2. Typed(mem) /\ Within(mem) /\ CallTyped /\ Begun(mem) /\ call.review \in SUBSET Finding
  BY <1>1 DEF Convergence, Undecided, CallTyped
<1>3. OnPhase(m) /\ m.st = "REVIEWING"
  BY <1>1, StillReviewing DEF Recorded, OnPhase, Fields
<1>4. verdict = "ESCALATE" => CanEscalate(Reviewed)
  BY DEF Verdict
<1>5. verdict \notin {"PASS", "ESCALATE", "HUMAN_REQUIRED"} => ~EpochExhausted(Reviewed)
  BY DEF Verdict
<1>6. /\ Typed(m) /\ Decided(m)
      /\ CanEscalate(Reviewed) => CanEscalate(m)
      /\ ~EpochExhausted(Reviewed) => Within(m)
  BY <1>2, RecordedDecided
<1> HIDE DEF m, verdict
<1>7. CASE Finish(Exhaust(m), "HUMAN_REQUIRED")
  BY <1>3, <1>6, <1>7, WithinBounded, ExhaustSettles, FinishSettles
<1>8. CASE /\ verdict \notin {"PASS", "ESCALATE", "HUMAN_REQUIRED"}
           /\ Finish(To(m, "REWORK"), "REWORK")
  BY <1>5, <1>6, <1>8, WithinSettles, FinishSettles
<1>9. CASE /\ call' = call /\ mem' = m /\ disk' = disk
           /\ pc' = "complete" \/ (pc' = "supervise" /\ verdict = "ESCALATE")
  <2>1. CallTyped'
    BY <1>2, <1>9 DEF CallTyped, Paying
  <2>2. Resumable'
    BY <1>9 DEF Resumable, Paying
  <2> QED
    BY <1>4, <1>6, <1>9, <2>1, <2>2, BoundsGoOn DEF Undecided, Ruled
<1> QED
  BY <1>1, <1>7, <1>8, <1>9

\* A phase that passed leaves nothing counted for the next gate.
LEMMA BoundsComplete ==
  ASSUME Lifecycle, Convergence, NEW boundary \in Tree \cup {NoTree}, CompletePhase(boundary)
  PROVE  Convergence'
<1> DEFINE entry == [files |-> Changed(call.base, call.code), boundary |-> boundary]
           t == To(mem, "READY_FOR_WORK")
           f == FreshGate(t)
           m == [f EXCEPT !.done = Append(@, entry), !.idx = @ + 1, !.last = NoPrint]
<1>1. pc = "complete" /\ ~FinalGate(mem) /\ Finish(m, "PHASE_PASS")
  BY DEF CompletePhase
<1>2. Typed(mem) /\ Decided(mem)
  BY <1>1 DEF Convergence
<1>3. Typed(t) /\ ~t.exhausted /\ t.idx = mem.idx
  <2>1. ~mem.exhausted
    BY <1>2 DEF Decided, Ongoing
  <2>2. t.idx = mem.idx
    BY <1>2 DEF To, Typed, LoopFields
  <2> QED
    BY <1>2, <2>1, <2>2, ToTyped DEF SameCounts
<1>4. f.idx = t.idx
  BY <1>3 DEF FreshGate, Typed, LoopFields
<1> HIDE DEF t
<1>5. Typed(f) /\ Renewed(f) /\ f.idx = mem.idx
  BY <1>3, <1>4, FreshTyped
<1>6. mem.idx \in 0..NPhases /\ mem.idx # NPhases
  BY <1>1, <1>2 DEF Typed, FinalGate
<1> HIDE DEF f, entry
<1>7. /\ DOMAIN m = DOMAIN f /\ m.idx = f.idx + 1
      /\ \A x \in LoopFields \ {"done", "idx", "last"} : m[x] = f[x]
  BY <1>5 DEF Typed, LoopFields
<1> HIDE DEF m
<1>8. m.idx \in 0..NPhases
  BY <1>5, <1>6, <1>7, ControllerAssumption
<1>9. Typed(m) /\ Renewed(m)
  BY <1>5, <1>7, <1>8 DEF Typed, Counter, Guided, Renewed, LoopFields
<1> QED
  BY <1>1, <1>9, RenewedWithin, WithinSettles, FinishSettles DEF m, f, t, entry

LEMMA BoundsReview ==
  ASSUME Lifecycle, Convergence, Review
  PROVE  Convergence'
<1>1. CASE \/ \E result \in (SUBSET Finding) \cup {Unusable} : PayChunk(result)
           \/ CancelReview \/ RefuseChunk \/ SaveChunk \/ Aggregate
  BY <1>1, BoundsChunks
<1>2. CASE Denied
  <2> DEFINE s == Stop(mem, call.why)
  <2>1. pc = "denied" /\ pc' = "idle" /\ disk' \in {disk, s}
    BY <1>2 DEF Denied, FinishDenied, Leave
  <2>2. Typed(mem) /\ Within(mem) /\ call.why \in {"usage", "other"} /\ Settled(disk)
    BY <2>1 DEF Convergence, Undecided, CallTyped
  <2>3. Settled(s)
    BY <2>2, WithinSettles
  <2> HIDE DEF s
  <2>4. Settled(disk')
    BY <2>1, <2>2, <2>3
  <2> QED
    BY <2>1, <2>4 DEF Convergence, Settled, Typed, Counter, Checkpoint, Guided, Bounded, Terminal,
       Within, Ongoing, Begun
<1>3. CASE RefuseArtifact
  <2> DEFINE t == To(mem, "REWORK")
             m == [t EXCEPT !.ckpt = NoCheckpoint, !.last = NoPrint]
  <2>1. pc = "verify" /\ Finish(m, "REWORK")
    BY <1>3 DEF RefuseArtifact
  <2>2. Typed(t) /\ Within(t)
    BY <2>1, ToTyped, SameWithin DEF Convergence, Undecided
  <2> HIDE DEF t
  <2>3. Checkpoint(NoCheckpoint) /\ NoCheckpoint.print = NoPrint
    <3>1. << >> \in Seq(Result)
      OBVIOUS
    <3> QED
      BY <3>1 DEF NoCheckpoint, Checkpoint, CkptFields
  <2>4. /\ DOMAIN m = DOMAIN t /\ m.ckpt = NoCheckpoint
        /\ \A x \in LoopFields \ {"ckpt", "last"} : m[x] = t[x]
    BY <2>2 DEF Typed, LoopFields
  <2> HIDE DEF m
  <2>5. Typed(m) /\ Within(m)
    BY <2>2, <2>3, <2>4 DEF Typed, Counter, Guided, Within, Ongoing, Begun, LoopFields
  <2> QED
    BY <2>1, <2>5, WithinSettles, FinishSettles
<1>4. CASE RefuseFailed
  <2>1. pc = "verify" /\ Finish(Stop(Reviewed, "other"), "HUMAN_REQUIRED")
    BY <1>4 DEF RefuseFailed, Verified
  <2>2. Typed(Reviewed) /\ Within(Reviewed)
    BY <2>1, ReviewedTyped DEF Convergence, Undecided
  <2> QED
    BY <2>1, <2>2, WithinSettles, FinishSettles
<1>5. CASE Decide
  BY <1>5, BoundsDecide
<1>6. CASE PassLoop
  <2> DEFINE m == To(mem, "PASS")
  <2>1. pc = "complete" /\ Finish(m, "PASS")
    BY <1>6 DEF PassLoop
  <2>2. Typed(mem) /\ Decided(mem)
    BY <2>1 DEF Convergence
  <2>3. m.st = "PASS"
    BY <2>1, StillReviewing, FromReviewing
  <2>4. Typed(m) /\ Bounded(m) /\ ~m.exhausted
    BY <2>2, ToTyped, SameWithin, WithinBounded DEF Decided, Ongoing, SameCounts
  <2> HIDE DEF m
  <2>5. Settled(m)
    BY <2>3, <2>4 DEF Settled, Terminal
  <2> QED
    BY <2>1, <2>5, FinishSettles
<1>7. ASSUME NEW boundary \in Tree \cup {NoTree}, CompletePhase(boundary)
      PROVE  Convergence'
  BY <1>7, BoundsComplete
<1> QED
  BY <1>1, <1>2, <1>3, <1>4, <1>5, <1>6, <1>7 DEF Review

-----------------------------------------------------------------------------
(* The Supervisor, interruptions and humans.                               *)

\* A Supervisor call that brings nothing gives the decision back.
LEMMA SetbackWithin ==
  ASSUME Typed(mem), Decided(mem)
  PROVE  LET m == [mem EXCEPT !.setbacks = @ + 1] IN Typed(m) /\ Within(m)
<1> DEFINE m == [mem EXCEPT !.setbacks = @ + 1]
<1>1. /\ DOMAIN m = DOMAIN mem /\ m.setbacks = mem.setbacks + 1
      /\ \A f \in LoopFields \ {"setbacks"} : m[f] = mem[f]
  BY DEF Typed, LoopFields
<1>2. Counter(mem) /\ Granted(mem.epoch) \in Nat /\ Before(mem.epoch) \in Nat
  BY GrantedGrows DEF Typed, Counter
<1> HIDE DEF m
<1>3. Typed(m)
  <2>1. Counter(m)
    BY <1>1, <1>2 DEF Counter, LoopFields
  <2> QED
    BY <1>1, <2>1 DEF Typed, Guided, LoopFields
<1>4. /\ mem.judged <= Granted(mem.epoch) + mem.setbacks
      /\ mem.judged <= Before(mem.epoch) + mem.epochRound + mem.setbacks
  BY DEF Decided
<1>5. Ongoing(m) /\ ~Begun(m)
  BY <1>1 DEF Decided, Ongoing, Begun, LoopFields
<1>6. /\ m.judged = mem.judged /\ m.epoch = mem.epoch /\ m.epochRound = mem.epochRound
  BY <1>1 DEF LoopFields
<1>7. /\ m.judged < Granted(m.epoch) + m.setbacks
      /\ m.judged <= Before(m.epoch) + m.epochRound + m.setbacks
  <2> HIDE DEF Granted, Before
  <2> QED
    BY <1>1, <1>2, <1>4, <1>6 DEF Counter
<1> QED
  BY <1>3, <1>5, <1>7 DEF Within, m

\* A new strategy brings a new epoch, with rounds of its own.
LEMMA NewEpochWithin ==
  ASSUME Typed(mem), Decided(mem), CanEscalate(mem), NEW ruling \in Strategy
  PROVE  Typed(NewEpoch(mem, ruling)) /\ Within(NewEpoch(mem, ruling))
<1> DEFINE t == To(mem, "SUPERVISING")
           m == NewEpoch(mem, ruling)
           Set == {"strat", "esc", "epoch", "epochRound", "hist", "pending"}
<1>1. Typed(t) /\ Decided(t) /\ t.esc = mem.esc
  BY ToTyped, SameWithin DEF SameCounts
<1> HIDE DEF t
<1>2. m = [t EXCEPT !.strat = ruling, !.esc = @ + 1, !.epoch = @ + 1, !.epochRound = 0,
                    !.hist = << >>,
                    !.pending = IF ruling \in Reconsiders THEN ruling ELSE NoStrategy]
  BY DEF NewEpoch, t
<1>3. /\ DOMAIN m = DOMAIN t /\ m.strat = ruling /\ m.esc = t.esc + 1 /\ m.epoch = t.epoch + 1
      /\ m.epochRound = 0 /\ m.hist = << >> /\ m.pending \in Reconsiders \cup {NoStrategy}
      /\ \A f \in LoopFields \ Set : m[f] = t[f]
  BY <1>1, <1>2 DEF Typed, LoopFields
<1> HIDE DEF m
<1>4. Counter(t)
  BY <1>1 DEF Typed
<1>5. Typed(m)
  <2>1. Counter(m)
    BY <1>3, <1>4 DEF Counter, LoopFields
  <2>2. m.hist \in Seq(SUBSET Finding)
    BY <1>3
  <2> QED
    BY <1>1, <1>3, <2>1, <2>2 DEF Typed, Guided, LoopFields
<1>6. Ongoing(m) /\ ~Begun(m)
  <2>1. t.esc < MaxEscalations
    BY <1>1 DEF CanEscalate
  <2>2. t.esc \in Nat /\ MaxEscalations \in Nat
    BY <1>4, ControllerAssumption DEF Counter
  <2>3. m.repairs = t.repairs /\ m.exhausted = t.exhausted /\ m.ckpt = t.ckpt
    BY <1>3 DEF LoopFields
  <2>4. t.esc = t.epoch /\ t.repairs <= MaxGateRepairs /\ ~t.exhausted /\ ~Begun(t)
    BY <1>1 DEF Decided, Ongoing
  <2>5. ~Begun(m)
    BY <2>3, <2>4 DEF Begun
  <2>6. m.esc = m.epoch /\ m.esc <= MaxEscalations
    BY <1>3, <2>1, <2>2, <2>4
  <2> QED
    BY <2>3, <2>4, <2>5, <2>6 DEF Ongoing
<1>7. /\ m.judged < Granted(m.epoch) + m.setbacks
      /\ m.judged <= Before(m.epoch) + m.epochRound + m.setbacks
  <2>1. /\ Granted(t.epoch) \in Nat /\ Granted(t.epoch + 1) >= Granted(t.epoch) + 1
        /\ Granted(t.epoch + 1) \in Nat /\ Before(t.epoch + 1) = Granted(t.epoch)
    BY <1>4, GrantedGrows DEF Counter
  <2>2. t.judged <= Granted(t.epoch) + t.setbacks
    BY <1>1 DEF Decided
  <2>3. m.judged = t.judged /\ m.setbacks = t.setbacks
    BY <1>3 DEF LoopFields
  <2> HIDE DEF Granted, Before
  <2> QED
    BY <1>3, <1>4, <2>1, <2>2, <2>3 DEF Counter
<1> QED
  BY <1>5, <1>6, <1>7 DEF Within, m

LEMMA BoundsRuling ==
  ASSUME Lifecycle, Convergence, ApplyRuling
  PROVE  Convergence'
<1> DEFINE ruling == call.sup
           supervised == To(mem, "SUPERVISING")
           out == [mem EXCEPT !.setbacks = @ + 1]
           asked == [supervised EXCEPT !.esc = @ + 1]
           epoch == NewEpoch(mem, ruling)
<1>1. /\ pc = "ruling"
      /\ \/ Finish(To(out, "REWORK"), "REWORK")
         \/ Finish(Exhaust(asked), "HUMAN_REQUIRED")
         \/ Finish(Exhaust(supervised), "HUMAN_REQUIRED")
         \/ ruling \notin {NoHelp, AskHuman} /\ Finish(To(epoch, "REWORK"), "REWORK")
  BY DEF ApplyRuling
<1>2. /\ Typed(mem) /\ Decided(mem) /\ CanEscalate(mem)
      /\ ruling \in Strategy \cup {NoHelp, AskHuman}
  BY <1>1 DEF Convergence, CallTyped, Ruled
<1>3. OnPhase(supervised) /\ supervised.st = "SUPERVISING"
  BY <1>1, StillReviewing, Supervised
<1>4. Typed(supervised) /\ Decided(supervised) /\ Bounded(supervised) /\ SameCounts(supervised, mem)
  BY <1>2, ToTyped, SameWithin, WithinBounded
<1>5. Typed(asked) /\ Bounded(asked) /\ OnPhase(asked) /\ asked.st = "SUPERVISING"
  <2> HIDE DEF supervised
  <2>1. /\ DOMAIN asked = DOMAIN supervised /\ asked.esc = supervised.esc + 1
        /\ \A f \in LoopFields \ {"esc"} : asked[f] = supervised[f]
    BY <1>4 DEF Typed, LoopFields
  <2>2. Counter(supervised) /\ supervised.epoch = supervised.esc /\ supervised.esc < MaxEscalations
    BY <1>2, <1>4 DEF Typed, Decided, Ongoing, CanEscalate, SameCounts
  <2>3. /\ Granted(supervised.esc) \in Nat /\ Granted(supervised.esc + 1) \in Nat
        /\ Granted(supervised.esc + 1) >= Granted(supervised.esc) + 1
    BY <2>2, GrantedGrows DEF Counter
  <2>4. supervised.judged <= Granted(supervised.esc) + supervised.setbacks
        /\ supervised.repairs <= MaxGateRepairs + 1
    BY <1>4 DEF Bounded
  <2>5. OnPhase(asked) /\ asked.st = "SUPERVISING"
    BY <1>3, <2>1 DEF OnPhase, Fields, LoopFields
  <2> HIDE DEF asked
  <2>6. Typed(asked)
    <3>1. Counter(asked)
      BY <2>1, <2>2 DEF Counter, LoopFields
    <3> QED
      BY <1>4, <2>1, <3>1 DEF Typed, Guided, LoopFields
  <2>7. /\ asked.judged = supervised.judged /\ asked.setbacks = supervised.setbacks
        /\ asked.repairs = supervised.repairs
    BY <2>1 DEF LoopFields
  <2>8. asked.judged <= Granted(asked.esc) + asked.setbacks
    <3> HIDE DEF Granted
    <3> QED
      BY <2>1, <2>2, <2>3, <2>4, <2>7 DEF Counter
  <2>9. asked.esc <= MaxEscalations
    BY <2>1, <2>2, ControllerAssumption DEF Counter
  <2> QED
    BY <2>4, <2>5, <2>6, <2>7, <2>8, <2>9 DEF Bounded
<1>6. Settled(Exhaust(asked)) /\ Settled(Exhaust(supervised))
  BY <1>3, <1>4, <1>5, ExhaustSettles
<1>7. Settled(To(out, "REWORK"))
  BY <1>2, SetbackWithin, WithinSettles
<1>8. ruling \notin {NoHelp, AskHuman} => Settled(To(epoch, "REWORK"))
  BY <1>2, NewEpochWithin, WithinSettles
<1> HIDE DEF ruling, supervised, out, asked, epoch
<1> QED
  BY <1>1, <1>6, <1>7, <1>8, FinishSettles

LEMMA BoundsSupervise ==
  ASSUME Lifecycle, Convergence, Supervise
  PROVE  Convergence'
<1>1. CASE SupervisorOut \/ \E ruling \in Strategy \cup {AskHuman} : PaySupervisor(ruling)
  <2>1. /\ pc = "supervise" /\ pc' = "ruling" /\ disk' = disk /\ mem' = mem
        /\ \E x \in Strategy \cup {NoHelp, AskHuman} : call' = [call EXCEPT !.sup = x]
    BY <1>1 DEF SupervisorOut, PaySupervisor
  <2>2. Typed(mem) /\ Decided(mem) /\ CanEscalate(mem) /\ CallTyped
    BY <2>1 DEF Convergence, Ruled
  <2>3. /\ CallFields \subseteq DOMAIN call' /\ call'.sup \in Strategy \cup {NoHelp, AskHuman}
        /\ \A f \in CallFields \ {"sup"} : call'[f] = call[f]
    BY <2>1, <2>2 DEF CallTyped, CallFields
  <2>4. CallTyped' /\ Resumable'
    BY <2>1, <2>2, <2>3 DEF CallTyped, Resumable, Paying, CallFields
  <2> QED
    BY <2>1, <2>2, <2>4, BoundsGoOn DEF Undecided, Ruled
<1>2. CASE RefuseSupervisor
  <2>1. /\ pc = "supervise" /\ pc' = "denied" /\ disk' = disk
        /\ mem' = [mem EXCEPT !.setbacks = @ + 1]
        /\ \E x \in {"usage", "other"} : call' = [call EXCEPT !.why = x]
    BY <1>2 DEF RefuseSupervisor
  <2>2. Typed(mem) /\ Decided(mem) /\ CallTyped
    BY <2>1 DEF Convergence, Ruled
  <2>3. Typed(mem') /\ Within(mem')
    BY <2>1, <2>2, SetbackWithin
  <2>4. /\ CallFields \subseteq DOMAIN call' /\ call'.why \in {"usage", "other"}
        /\ \A f \in CallFields \ {"why"} : call'[f] = call[f]
    BY <2>1, <2>2 DEF CallTyped, CallFields
  <2>5. CallTyped' /\ Resumable'
    BY <2>1, <2>2, <2>4 DEF CallTyped, Resumable, Paying, CallFields
  <2> QED
    BY <2>1, <2>3, <2>5, BoundsGoOn DEF Undecided, Ruled
<1>3. CASE ApplyRuling
  BY <1>3, BoundsRuling
<1> QED
  BY <1>1, <1>2, <1>3 DEF Supervise

LEMMA BoundsHuman ==
  ASSUME Lifecycle, Convergence, Human
  PROVE  Convergence'
<1> DEFINE t == To(To(disk, "REVIEWING"), "REWORK")
           f == FreshGate(t)
           m == [f EXCEPT !.exhausted = FALSE, !.reopens = @ + 1]
<1>1. Settled(disk) /\ Typed(disk)
  BY DEF Convergence, Settled
<1>2. Typed(t) /\ SameCounts(t, disk) /\ t.reopens = disk.reopens
  <2>1. Typed(To(disk, "REVIEWING")) /\ SameCounts(To(disk, "REVIEWING"), disk)
    BY <1>1, ToTyped
  <2>2. Typed(t) /\ SameCounts(t, To(disk, "REVIEWING"))
    BY <2>1, ToTyped
  <2>3. t.reopens = disk.reopens
    BY <1>1 DEF To, Typed, LoopFields
  <2> QED
    BY <2>1, <2>2, <2>3 DEF SameCounts
<1>3. CASE ReopenGate
  <2>1. pc = "idle" /\ pc' = "idle" /\ disk' = m /\ disk.reopens < MaxReopens
    BY <1>3 DEF ReopenGate
  <2>2. f.reopens = t.reopens
    BY <1>2 DEF FreshGate, Typed, LoopFields
  <2> HIDE DEF t
  <2>3. Typed(f) /\ Renewed([f EXCEPT !.exhausted = FALSE]) /\ f.reopens = disk.reopens
    BY <1>2, <2>2, FreshTyped
  <2> HIDE DEF f
  <2>4. /\ DOMAIN m = DOMAIN f /\ m.reopens = disk.reopens + 1 /\ m.exhausted = FALSE
        /\ \A x \in LoopFields \ {"reopens", "exhausted"} : m[x] = f[x]
    BY <2>3 DEF Typed, LoopFields
  <2>5. Renewed(m)
    BY <2>3, <2>4 DEF Renewed, Typed, LoopFields
  <2> HIDE DEF m
  <2>6. m.reopens \in 0..MaxReopens
    BY <1>1, <2>1, <2>4, ControllerAssumption DEF Typed
  <2>7. Typed(m)
    BY <2>3, <2>4, <2>6 DEF Typed, Counter, Guided, LoopFields
  <2>8. Settled(disk')
    BY <2>1, <2>5, <2>7, RenewedWithin, WithinSettles
  <2> QED
    BY <2>1, <2>8 DEF Convergence, Settled, Typed, Counter, Checkpoint, Guided, Bounded, Terminal,
       Within, Ongoing, Begun
<1>4. CASE OverrideBudget
  <2>1. pc = "idle" /\ pc' = "idle"
        /\ \/ disk' = disk
           \/ disk' = t /\ disk.st = "HUMAN_REQUIRED" /\ ~disk.exhausted
    BY <1>4 DEF OverrideBudget
  <2> HIDE DEF t
  <2>2. Settled(disk')
    BY <1>1, <1>2, <2>1, SameWithin, WithinSettles DEF Settled, Terminal
  <2> QED
    BY <2>1, <2>2 DEF Convergence, Settled, Typed, Counter, Checkpoint, Guided, Bounded, Terminal,
       Within, Ongoing, Begun
<1> QED
  BY <1>3, <1>4 DEF Human

-----------------------------------------------------------------------------
(* The inductive invariant holds.                                          *)

LEMMA BoundsStep ==
  ASSUME Lifecycle, Convergence, Surroundings, [Next]_vars
  PROVE  Convergence'
<1>1. CASE Worker \/ Open \/ Gate \/ Judge
  BY <1>1, BoundsWorker, BoundsOpen, BoundsGate, BoundsJudge
<1>2. CASE Review \/ Supervise \/ Human
  BY <1>2, BoundsReview, BoundsSupervise, BoundsHuman
<1>3. CASE Vanish
  <2>1. pc' = "idle" /\ disk' = disk
    BY <1>3 DEF Vanish, Leave
  <2> QED
    BY <2>1 DEF Convergence, Settled, Typed, Counter, Checkpoint, Guided, Bounded, Terminal,
       Within, Ongoing, Begun
<1>4. CASE UNCHANGED vars
  BY <1>4, BoundsKept
<1> QED
  BY <1>1, <1>2, <1>3, <1>4 DEF Next, Call

LEMMA ConvergenceHolds == Spec => [](Lifecycle /\ Convergence /\ Surroundings)
<1>1. Init => Convergence /\ Surroundings
  BY BoundsInit, SurroundingsInit
<1>2. Lifecycle /\ (Convergence /\ Surroundings) /\ [Next]_vars => (Convergence /\ Surroundings)'
  BY BoundsStep, SurroundingsStep
<1> QED
  BY <1>1, <1>2, LifecycleHolds, PTL DEF Spec

-----------------------------------------------------------------------------
(* What was read, and the record a call works on only while it runs.       *)

Idle == pc = "idle" => mem = NoLoop

LEMMA IdleStep ==
  ASSUME Idle, [Next]_vars
  PROVE  Idle'
<1>1. CASE pc' = "idle"
  <2>1. mem' = NoLoop \/ (pc = "idle" /\ mem' = mem)
    BY <1>1 DEF Next, Call, Worker, Edit, StrayEdit, WriteArtifact, Open, RefuseTerminal,
       OpenUnattributed, OpenUnchanged, OpenInvalidEvidence, OpenDrifted, OpenGate, Gate, RunGate,
       RunMutatingGate, RecollectSame, RecollectChanged, RecollectFails, Judge, CancelGate,
       GateFailed, RefuseStaleProof, RefuseEvidence, RefuseRepeat, StartReview, Review, PayChunk,
       CancelReview, RefuseChunk, Refused, Fails, SaveChunk, Aggregate, Denied, FinishDenied,
       RefuseArtifact, RefuseFailed, Decide, PassLoop, CompletePhase, Supervise, PaySupervisor,
       SupervisorOut, RefuseSupervisor, ApplyRuling, Vanish, Human, ReopenGate, OverrideBudget,
       Finish, Leave
  <2> QED
    BY <2>1 DEF Idle
<1>2. CASE pc' # "idle"
  BY <1>2 DEF Idle
<1> QED
  BY <1>1, <1>2

\* A Reviewer is shown files, at the contents they had when they were collected.
Shows == covered \subseteq File \X Nat

LEMMA ShowsStep ==
  ASSUME Convergence, Shows, [Next]_vars
  PROVE  Shows'
<1>1. ASSUME NEW result, PayChunk(result)
      PROVE  Shows'
  <2>1. /\ pc = "chunks" /\ NextChunk <= Len(call.plan)
        /\ covered' \in {covered, covered \cup {<< f, call.code[f] >> : f \in call.plan[NextChunk]}}
    BY <1>1 DEF PayChunk, MoreChunks
  <2>2. /\ call.plan \in Seq(SUBSET File) /\ call.code \in Tree
        /\ mem.ckpt.got \in Seq(Result)
    BY <2>1 DEF Convergence, CallTyped, Paying, Undecided, Typed, Checkpoint
  <2>3. NextChunk \in 1..Len(call.plan)
    BY <2>1, <2>2, LenProperties DEF NextChunk
  <2>4. call.plan[NextChunk] \subseteq File
    BY <2>2, <2>3, LenProperties
  <2>5. \A f \in File : call.code[f] \in Nat
    <3>1. \A f \in File : Version[f] \subseteq Nat
      BY ControllerAssumption, LenProperties DEF File
    <3> QED
      BY <2>2, <3>1 DEF Tree
  <2> QED
    BY <2>1, <2>4, <2>5 DEF Shows
<1>2. ASSUME ~\E result \in (SUBSET Finding) \cup {Unusable} : PayChunk(result)
      PROVE  covered' = covered
  BY <1>2 DEF Next, Call, Worker, Edit, StrayEdit, WriteArtifact, Open, RefuseTerminal,
     OpenUnattributed, OpenUnchanged, OpenInvalidEvidence, OpenDrifted, OpenGate, Gate, RunGate,
     RunMutatingGate, RecollectSame, RecollectChanged, RecollectFails, Judge, CancelGate,
     GateFailed, RefuseStaleProof, RefuseEvidence, RefuseRepeat, StartReview, Review,
     CancelReview, RefuseChunk, Refused, Fails, SaveChunk, Aggregate, Denied,
     RefuseArtifact, RefuseFailed, Decide, PassLoop, CompletePhase, Supervise, PaySupervisor,
     SupervisorOut, RefuseSupervisor, ApplyRuling, Vanish, Human, ReopenGate, OverrideBudget
<1> QED
  BY <1>1, <1>2 DEF Shows

-----------------------------------------------------------------------------
(* The theorems.                                                           *)

\* Every variable stays within its type; in particular the phases that passed are
\* as many as the loop is past, and reopens stay within MAX_HUMAN_REOPENS.
THEOREM ControllerTyped == Spec => []TypeOK
<1>1. Init => Idle /\ Shows
  BY DEF Init, Idle, Shows
<1>2. Convergence /\ (Idle /\ Shows) /\ [Next]_vars => (Idle /\ Shows)'
  BY IdleStep, ShowsStep
<1>3. Lifecycle /\ Convergence /\ Surroundings /\ Idle /\ Shows => TypeOK
  <2> SUFFICES ASSUME Lifecycle, Convergence, Surroundings, Idle, Shows
               PROVE  TypeOK
    OBVIOUS
  <2>1. ASSUME NEW m, Typed(m), OnPhase(m), m.st \in State
        PROVE  LoopOK(m)
    <3>1. Len(m.done) = m.idx
      BY <2>1 DEF OnPhase, Lifecycle
    <3>2. \A i \in 1..Len(m.hist) : m.hist[i] \subseteq Finding
      BY <2>1, LenProperties DEF Typed, Guided
    <3> QED
      BY <2>1, <3>1, <3>2 DEF LoopOK, Typed, Counter, Guided
  <2>2. LoopOK(disk)
    BY <2>1 DEF Lifecycle, Convergence, Settled, Resting, State
  <2>3. pc # "idle" => LoopOK(mem) /\ mem # NoLoop
    <3>1. pc # "idle" => LoopOK(mem) /\ "st" \in DOMAIN mem
      BY <2>1 DEF Lifecycle, Convergence, State, OnPhase, Fields
    <3>2. DOMAIN NoLoop = {}
      BY DEF NoLoop
    <3> QED
      BY <3>1, <3>2
  <2>4. pc \in Stage
    BY DEF Convergence, Stage, Undecided, Ruled
  <2>5. \A m \in Loops : LoopOK(m)
    BY <2>2, <2>3 DEF Loops
  <2>6. (pc = "idle") = (mem = NoLoop)
    BY <2>3 DEF Idle
  <2> QED
    BY <2>4, <2>5, <2>6 DEF TypeOK, Surroundings, Shows
<1> QED
  BY <1>1, <1>2, <1>3, ConvergenceHolds, PTL DEF Spec

\* A gate converges or is given up: it decides on at most the reviews its epochs
\* grant and one more per Supervisor call that brought no strategy, however often
\* a review is interrupted and resumed, a Gate fails, or a save is lost
\* (reviewPolicy.js:106-194, controller.js:1239-1326).
THEOREM GatesConverge == Spec => []RoundsAreBounded
<1>1. Convergence => RoundsAreBounded
  <2> SUFFICES ASSUME Convergence
               PROVE  RoundsAreBounded
    OBVIOUS
  <2>1. Bounded(disk)
    BY DEF Convergence, Settled
  <2>2. pc # "idle" => Bounded(mem)
    BY WithinBounded DEF Convergence
  <2>3. pc # "idle" => call.runs <= MaxStabilise + 1
    BY ControllerAssumption DEF Convergence, CallTyped
  <2> QED
    BY <2>1, <2>2, <2>3 DEF RoundsAreBounded, Loops, Bounded, Granted
<1> QED
  BY <1>1, ConvergenceHolds, PTL

\* A review that was interrupted is taken up in the round it was counted in, for
\* any plan, budget and kind of interruption (reviewerRunner.js:66-74).
THEOREM ResumedRoundsAreKept == Spec => []ResumedKeepsItsRound
<1>1. Convergence => ResumedKeepsItsRound
  BY DEF Convergence, Resumable, Paying, ResumedKeepsItsRound
<1> QED
  BY <1>1, ConvergenceHolds, PTL

\* What is on disk of a review is never paid for again (reviewerRunner.js:154-166).
THEOREM ChunksArePaidOnce == Spec => SavedChunksAreNotPaidAgain
<1> DEFINE Saved == pc = "chunks" /\ pc' = "saveChunk" /\ disk.ckpt.print = call.print
                      => disk.ckpt.plan # call.plan \/ NextChunk > Len(disk.ckpt.got)
<1>1. Convergence /\ [Next]_vars => [Saved]_vars
  <2> SUFFICES ASSUME Convergence, pc = "chunks", disk.ckpt.print = call.print,
                      disk.ckpt.plan = call.plan
               PROVE  NextChunk > Len(disk.ckpt.got)
    OBVIOUS
  <2>1. Len(disk.ckpt.got) <= Len(mem.ckpt.got)
    BY DEF Convergence, Resumable, Paying
  <2>2. disk.ckpt.got \in Seq(Result) /\ mem.ckpt.got \in Seq(Result)
    BY DEF Convergence, Settled, Typed, Checkpoint
  <2>3. Len(disk.ckpt.got) \in Nat /\ Len(mem.ckpt.got) \in Nat
    BY <2>2, LenProperties
  <2> QED
    BY <2>1, <2>3 DEF NextChunk
<1> QED
  BY <1>1, ConvergenceHolds, PTL DEF Spec, SavedChunksAreNotPaidAgain

-----------------------------------------------------------------------------
(* What the Worker was told is on disk.                                    *)

\* The state that an answer stands for.
Stands(m, a) ==
  /\ a \in {"PASS", "REWORK", "HUMAN_REQUIRED"} => m.st = a
  /\ a = "PHASE_PASS" => m.st = "READY_FOR_WORK" /\ m.idx > 0
  /\ a # "DENIED_UNSAVED"

LEMMA FinishIsDurable ==
  ASSUME NEW m, NEW a, Stands(m, a), Finish(m, a)
  PROVE  AnswersAreDurable'
<1>1. \/ disk' = m /\ answer' = a
      \/ answer' = "error"
  BY DEF Finish, Leave
<1> QED
  BY <1>1 DEF AnswersAreDurable, Stands

LEMMA ReworkIsDurable ==
  ASSUME NEW m, OnPhase(m), m.st = "REVIEWING", Finish(To(m, "REWORK"), "REWORK")
  PROVE  AnswersAreDurable'
<1>1. Stands(To(m, "REWORK"), "REWORK")
  BY FromReviewing DEF Stands
<1> QED
  BY <1>1, FinishIsDurable

LEMMA StopIsDurable ==
  ASSUME NEW m, OnPhase(m), m.st \in {"REVIEWING", "SUPERVISING"},
         \/ Finish(Exhaust(m), "HUMAN_REQUIRED")
         \/ \E why : Finish(Stop(m, why), "HUMAN_REQUIRED")
  PROVE  AnswersAreDurable'
<1>1. Stands(Exhaust(m), "HUMAN_REQUIRED") /\ \A why : Stands(Stop(m, why), "HUMAN_REQUIRED")
  BY StopKeeps, ExhaustKeeps DEF Stands
<1> QED
  BY <1>1, FinishIsDurable

LEMMA NoProgressIsDurable ==
  ASSUME NEW m, Finish(m, "NO_PROGRESS")
  PROVE  AnswersAreDurable'
  BY FinishIsDurable DEF Stands

\* A call that goes on has answered nothing, and answers nothing it did not save.
LEMMA DurableWhileRunning ==
  ASSUME pc' # "idle" \/ answer' \in {"error", "overridden", "reopened", "TERMINAL"}
  PROVE  AnswersAreDurable'
  BY DEF AnswersAreDurable

LEMMA DurableOpen ==
  ASSUME Lifecycle, Open
  PROVE  AnswersAreDurable'
<1>1. CASE RefuseTerminal
  BY <1>1, DurableWhileRunning DEF RefuseTerminal
<1>2. CASE OpenUnattributed
  BY <1>2, ReviewingLoop, StopIsDurable DEF OpenUnattributed
<1>3. ASSUME NEW base \in Tree, OpenUnchanged(base) \/ OpenInvalidEvidence(base)
      PROVE  AnswersAreDurable'
  BY <1>3, ReviewingLoop, ReworkIsDurable, NoProgressIsDurable
     DEF OpenUnchanged, OpenInvalidEvidence, Collects
<1>4. ASSUME NEW base \in Tree, OpenDrifted(base)
      PROVE  AnswersAreDurable'
  <2> DEFINE m == CountRepair(Reviewing)
  <2>1. ~Terminal(disk) /\ (Finish(Exhaust(m), "HUMAN_REQUIRED") \/ Finish(To(m, "REWORK"), "REWORK"))
    BY <1>4 DEF OpenDrifted, Collects
  <2>2. OnPhase(m) /\ m.st = "REVIEWING"
    BY <2>1, ReviewingLoop DEF CountRepair, OnPhase, Fields
  <2> QED
    BY <2>1, <2>2, ReworkIsDurable, StopIsDurable
<1>5. ASSUME NEW base \in Tree, NEW b \in Budget, NEW submits \in BOOLEAN,
             OpenGate(base, b, submits)
      PROVE  AnswersAreDurable'
  BY <1>5, DurableWhileRunning DEF OpenGate
<1> QED
  BY <1>1, <1>2, <1>3, <1>4, <1>5 DEF Open

LEMMA DurableGateJudge ==
  ASSUME Lifecycle, Gate \/ Judge
  PROVE  AnswersAreDurable'
<1>1. pc # "idle"
  BY DEF Gate, RunGate, RunMutatingGate, RecollectSame, RecollectChanged, RecollectFails,
     Judge, CancelGate, GateFailed, RefuseStaleProof, RefuseEvidence, RefuseRepeat,
     StartReview, Accepted, GatePassed
<1>2. CASE pc' # "idle"
  BY <1>2, DurableWhileRunning
<1>3. CASE pc' = "idle" /\ ~GateFailed
  <2>1. \E m \in {mem, WithoutProof(mem), Staged} :
          \/ Finish(m, "NO_PROGRESS") \/ Finish(To(m, "REWORK"), "REWORK")
          \/ Finish(Stop(m, "other"), "HUMAN_REQUIRED")
    BY <1>1, <1>3 DEF Gate, RunGate, RunMutatingGate, RecollectSame, RecollectChanged,
       RecollectFails, Judge, CancelGate, RefuseStaleProof, RefuseEvidence, RefuseRepeat, StartReview
  <2> QED
    BY <1>1, <2>1, StillReviewing, ReworkIsDurable, StopIsDurable, NoProgressIsDurable
<1>4. CASE GateFailed
  <2> DEFINE m == CountRepair(mem)
             r == [To(m, "REWORK") EXCEPT !.last = GatePrint]
  <2>1. \/ Finish(mem, "NO_PROGRESS")
        \/ Finish(Exhaust(m), "HUMAN_REQUIRED")
        \/ Finish(r, "REWORK")
    BY <1>4 DEF GateFailed
  <2>2. OnPhase(m) /\ m.st = "REVIEWING"
    BY <1>1, StillReviewing
  <2>3. OnPhase(To(m, "REWORK")) /\ To(m, "REWORK").st = "REWORK"
    BY <2>2, ToKeeps, FromReviewing
  <2>4. Stands(r, "REWORK")
    BY <2>3 DEF Stands, OnPhase, Fields
  <2> QED
    BY <2>1, <2>2, <2>4, FinishIsDurable, StopIsDurable, NoProgressIsDurable
<1> QED
  BY <1>2, <1>3, <1>4

LEMMA DurableReview ==
  ASSUME Lifecycle, Convergence, Review
  PROVE  AnswersAreDurable'
<1>1. CASE pc' # "idle"
  BY <1>1, DurableWhileRunning
<1>2. CASE Denied
  <2> DEFINE s == Stop(mem, call.why)
  <2>1. pc = "denied" /\ pc' = "idle"
        /\ \/ disk' = s /\ answer' = "HUMAN_REQUIRED"
           \/ disk' \in {disk, s} /\ answer' = "DENIED_UNSAVED"
    BY <1>2 DEF Denied, FinishDenied, Leave
  <2>2. OnPhase(s) /\ s.st = "HUMAN_REQUIRED" /\ ~Terminal(disk)
    BY <2>1, StillReviewing, StopKeeps DEF Lifecycle
  <2>3. ~s.exhausted
    <3>1. Typed(mem) /\ ~mem.exhausted /\ call.why \in {"usage", "other"}
      BY <2>1 DEF Convergence, Undecided, Within, Ongoing, CallTyped
    <3> QED
      BY <3>1, StopTyped DEF SameCounts
  <2> HIDE DEF s
  <2> QED
    BY <2>1, <2>2, <2>3 DEF AnswersAreDurable, Terminal
<1>3. CASE RefuseArtifact
  <2> DEFINE m == [To(mem, "REWORK") EXCEPT !.ckpt = NoCheckpoint, !.last = NoPrint]
  <2>1. pc # "idle" /\ Finish(m, "REWORK")
    BY <1>3 DEF RefuseArtifact
  <2>2. OnPhase(To(mem, "REWORK")) /\ To(mem, "REWORK").st = "REWORK"
    BY <2>1, StillReviewing, ToKeeps, FromReviewing
  <2>3. Stands(m, "REWORK")
    BY <2>2 DEF Stands, OnPhase, Fields
  <2> QED
    BY <2>1, <2>3, FinishIsDurable
<1>4. CASE RefuseFailed
  <2>1. pc # "idle" /\ Finish(Stop(Reviewed, "other"), "HUMAN_REQUIRED")
    BY <1>4 DEF RefuseFailed, Verified
  <2> QED
    BY <2>1, StillReviewing, StopIsDurable
<1>5. CASE Decide /\ pc' = "idle"
  <2> DEFINE m == Recorded(Reviewed, call.review)
  <2>1. pc # "idle"
    BY <1>5 DEF Decide, Verified
  <2>2. OnPhase(m) /\ m.st = "REVIEWING"
    BY <2>1, StillReviewing DEF Recorded, OnPhase, Fields
  <2>3. Finish(Exhaust(m), "HUMAN_REQUIRED") \/ Finish(To(m, "REWORK"), "REWORK")
    BY <1>5 DEF Decide
  <2> QED
    BY <2>2, <2>3, ReworkIsDurable, StopIsDurable
<1>6. CASE PassLoop
  <2>1. pc # "idle" /\ Finish(To(mem, "PASS"), "PASS")
    BY <1>6 DEF PassLoop
  <2>2. Stands(To(mem, "PASS"), "PASS")
    BY <2>1, StillReviewing, FromReviewing DEF Stands
  <2> QED
    BY <2>1, <2>2, FinishIsDurable
<1>7. ASSUME NEW boundary \in Tree \cup {NoTree}, CompletePhase(boundary)
      PROVE  AnswersAreDurable'
  <2> DEFINE entry == [files |-> Changed(call.base, call.code), boundary |-> boundary]
             f == FreshGate(To(mem, "READY_FOR_WORK"))
             m == [f EXCEPT !.done = Append(@, entry), !.idx = @ + 1, !.last = NoPrint]
  <2>1. pc = "complete" /\ Finish(m, "PHASE_PASS")
    BY <1>7 DEF CompletePhase
  <2>2. OnPhase(To(mem, "READY_FOR_WORK")) /\ To(mem, "READY_FOR_WORK").st = "READY_FOR_WORK"
    BY <2>1, StillReviewing, ToKeeps, FromReviewing
  <2>3. OnPhase(f) /\ f.st = "READY_FOR_WORK" /\ f.idx = disk.idx
    BY <2>2, FreshKeeps DEF OnPhase
  <2>4. disk.idx \in Nat
    BY LenProperties DEF Lifecycle
  <2>5. m.st = "READY_FOR_WORK" /\ m.idx > 0
    BY <2>3, <2>4 DEF OnPhase, Fields
  <2> HIDE DEF m
  <2>6. Stands(m, "PHASE_PASS")
    BY <2>5 DEF Stands
  <2> QED
    BY <2>1, <2>6, FinishIsDurable
<1> QED
  BY <1>1, <1>2, <1>3, <1>4, <1>5, <1>6, <1>7 DEF Review, PayChunk, CancelReview, RefuseChunk,
     Refused, Fails, SaveChunk, Aggregate

LEMMA DurableSupervise ==
  ASSUME Lifecycle, Supervise
  PROVE  AnswersAreDurable'
<1>1. CASE SupervisorOut \/ RefuseSupervisor \/ \E ruling : PaySupervisor(ruling)
  BY <1>1, DurableWhileRunning DEF SupervisorOut, RefuseSupervisor, PaySupervisor
<1>2. CASE ApplyRuling
  <2> DEFINE supervised == To(mem, "SUPERVISING")
             out == [mem EXCEPT !.setbacks = @ + 1]
             asked == [supervised EXCEPT !.esc = @ + 1]
             epoch == NewEpoch(mem, call.sup)
  <2>1. pc # "idle"
        /\ \/ Finish(To(out, "REWORK"), "REWORK")
           \/ Finish(Exhaust(asked), "HUMAN_REQUIRED")
           \/ Finish(Exhaust(supervised), "HUMAN_REQUIRED")
           \/ Finish(To(epoch, "REWORK"), "REWORK")
    BY <1>2 DEF ApplyRuling
  <2>2. OnPhase(out) /\ out.st = "REVIEWING"
    BY <2>1, StillReviewing DEF OnPhase, Fields
  <2>3. /\ OnPhase(supervised) /\ supervised.st = "SUPERVISING"
        /\ OnPhase(epoch) /\ epoch.st = "SUPERVISING"
    BY <2>1, StillReviewing, Supervised
  <2>4. OnPhase(asked) /\ asked.st = "SUPERVISING"
    BY <2>3 DEF OnPhase, Fields
  <2>5. Stands(To(epoch, "REWORK"), "REWORK")
    BY <2>3, FromSupervising DEF Stands
  <2> HIDE DEF supervised, out, asked, epoch
  <2> QED
    BY <2>1, <2>2, <2>3, <2>4, <2>5, FinishIsDurable, ReworkIsDurable, StopIsDurable
<1> QED
  BY <1>1, <1>2 DEF Supervise

\* The Worker was told what the file says; a denial whose save failed is the
\* exception, and leaves a loop that can still be called (controller.js:1360-1369).
THEOREM AnswersHold == Spec => []AnswersAreDurable
<1>1. Init => AnswersAreDurable
  BY DEF Init, AnswersAreDurable
<1>2. Lifecycle /\ Convergence /\ AnswersAreDurable /\ [Next]_vars => AnswersAreDurable'
  <2> SUFFICES ASSUME Lifecycle, Convergence, AnswersAreDurable, [Next]_vars
               PROVE  AnswersAreDurable'
    OBVIOUS
  <2>1. CASE Worker \/ UNCHANGED vars
    <3>1. disk' = disk /\ answer' = answer /\ pc' = pc
      BY <2>1 DEF Worker, Edit, StrayEdit, WriteArtifact
    <3> QED
      BY <3>1 DEF AnswersAreDurable, Terminal
  <2>2. CASE Open \/ Gate \/ Judge
    BY <2>2, DurableOpen, DurableGateJudge
  <2>3. CASE Review \/ Supervise
    BY <2>3, DurableReview, DurableSupervise
  <2>4. CASE Vanish \/ Human
    BY <2>4, DurableWhileRunning DEF Vanish, Leave, Human, ReopenGate, OverrideBudget
  <2> QED
    BY <2>1, <2>2, <2>3, <2>4 DEF Next, Call
<1> QED
  BY <1>1, <1>2, ConvergenceHolds, PTL DEF Spec

-----------------------------------------------------------------------------
(* What a PASS is about was shown to a Reviewer.                           *)

\* File f was shown to a Reviewer that answered, at content v.
Read(f, v) == << f, v >> \in covered

\* The chunks of a checkpoint that did not fail were read, at the contents its
\* round is about.
ChunksRead(c) ==
  c.print # NoPrint =>
    \A i \in 1..Len(c.got) :
      /\ i \in 1..Len(c.plan)
      /\ IsFailed(c.got[i]) \/ \A f \in c.plan[i] : Read(f, c.print.code[f])

\* All that differs from the boundary of the last phase and from the tree at
\* begin, but for what was edited behind a review, was read.
LastBoundary == IF disk.done = << >> THEN NoTree ELSE disk.done[Len(disk.done)].boundary
BoundaryRead ==
  LastBoundary # NoTree =>
    \A f \in File \ strayed : LastBoundary[f] = 0 \/ Read(f, LastBoundary[f])

\* The files that a review leaves open.
Unread(f) == f \in Changed(call.base, call.code) \ strayed /\ ~Read(f, call.code[f])
Planned(f) == \E i \in 1..Len(call.plan) : f \in call.plan[i]

\* The inductive invariant.
Coverage ==
  /\ ChunksRead(disk.ckpt) /\ BoundaryRead
  /\ pc # "idle" =>
       /\ ChunksRead(mem.ckpt) /\ call.base \in {PhaseBaseline(disk), Baseline}
       /\ pc \in {"judge"} \cup UnderReview => \A f \in File \ strayed : tree[f] = call.code[f]
       /\ pc \in Paying =>
            /\ mem.ckpt.plan = call.plan /\ call.print.code = call.code
            /\ \A f \in File : Unread(f) => Planned(f)
       /\ pc \in {"verify", "complete"} /\ ~IsFailed(call.review) =>
            \A f \in File : ~Unread(f)

-----------------------------------------------------------------------------
(* Every file that changed is in a chunk, or was left out with reason.     *)

LEMMA Quotient ==
  ASSUME NEW a \in Nat, NEW s \in Nat \ {0}
  PROVE  LET q == a \div s IN q \in Nat /\ s * q <= a /\ a < s * q + s
<1> DEFINE q == a \div s
<1>1. q \in Nat
  OBVIOUS
<1>2. a = s * q + (a % s) /\ 0 <= a % s /\ a % s < s
  OBVIOUS
<1> QED
  BY <1>1, <1>2

LEMMA SmallerFactor ==
  ASSUME NEW s \in Nat \ {0}, NEW p \in Nat, NEW q \in Nat, s * p < s * q
  PROVE  p + 1 <= q
<1> SUFFICES ASSUME q <= p
             PROVE  FALSE
  OBVIOUS
<1>1. PICK d \in Nat : p = q + d
  <2>1. p - q \in Nat /\ p = q + (p - q)
    OBVIOUS
  <2> QED
    BY <2>1
<1>2. s * p = s * q + s * d /\ s * d \in Nat /\ s * q \in Nat
  BY <1>1
<1> QED
  BY <1>2

\* Rank r of c files, s to a chunk.
LEMMA ChunkOfRank ==
  ASSUME NEW c \in Nat, NEW r \in Nat, r < c, NEW s \in Nat \ {0}
  PROVE  (r \div s) + 1 <= (c + s - 1) \div s
<1> DEFINE p == r \div s
           q == (c + s - 1) \div s
<1>1. c + s - 1 \in Nat
  OBVIOUS
<1>2. p \in Nat /\ s * p <= r
  BY Quotient
<1>3. q \in Nat /\ c + s - 1 < s * q + s
  BY <1>1, Quotient
<1> HIDE DEF p, q
<1>4. s * p \in Nat /\ s * q \in Nat
  BY <1>2, <1>3
<1>5. s * p < s * q
  BY <1>2, <1>3, <1>4
<1>6. p + 1 <= q
  BY <1>2, <1>3, <1>5, SmallerFactor
<1> QED
  BY <1>6 DEF p, q

LEMMA ChunksCover ==
  ASSUME NEW files \in SUBSET File, NEW b \in Budget, NEW f \in files
  PROVE  \E i \in 1..Len(Chunks(files, b)) : f \in Chunks(files, b)[i]
<1> DEFINE c == Cardinality(files)
           before == {g \in files : g < f}
           r == Rank(f, files)
           s == b.size
           i == (r \div s) + 1
<1>1. /\ c \in Nat /\ s \in Nat \ {0} /\ IsFiniteSet(files)
  BY FilesAreFinite, ControllerAssumption
<1>2. r \in Nat /\ r < c
  <2>1. f \in Nat
    BY ControllerAssumption, LenProperties DEF File
  <2>2. before \subseteq files /\ before # files
    BY <2>1
  <2>3. Cardinality(before) <= c /\ Cardinality(before) \in Nat /\ Cardinality(before) # c
    BY <1>1, <2>2, FS_Subset, FS_CardinalityType
  <2>4. r = Cardinality(before)
    BY DEF Rank
  <2> QED
    BY <1>1, <2>3, <2>4
<1>3. i \in 1..ChunkCount(files, s)
  <2>1. r \div s \in Nat
    BY <1>1, <1>2
  <2>2. CASE c <= s
    <3>1. s * (r \div s) <= r
      BY <1>1, <1>2, Quotient
    <3>2. s * (r \div s) < s * 1
      BY <1>1, <1>2, <2>1, <2>2, <3>1
    <3>3. r \div s + 1 <= 1
      BY <1>1, <2>1, <3>2, SmallerFactor
    <3>4. ChunkCount(files, s) = 1
      BY <2>2 DEF ChunkCount
    <3> QED
      BY <2>1, <3>3, <3>4
  <2>3. CASE ~(c <= s)
    <3>1. ChunkCount(files, s) = (c + s - 1) \div s
      BY <2>3 DEF ChunkCount
    <3>2. i <= (c + s - 1) \div s
      BY <1>1, <1>2, ChunkOfRank
    <3>3. (c + s - 1) \div s \in Nat
      BY <1>1, Quotient
    <3> HIDE DEF i
    <3>4. i \in Nat /\ i >= 1
      BY <2>1 DEF i
    <3> QED
      BY <3>1, <3>2, <3>3, <3>4
  <2> QED
    BY <2>2, <2>3
<1> HIDE DEF r
<1>4. r \div s = i - 1
  <2>1. r \div s \in Nat
    BY <1>1, <1>2
  <2> QED
    BY <2>1
<1> HIDE DEF i
<1>5. Chunks(files, b)[i] = {g \in files : Rank(g, files) \div s = i - 1}
  BY <1>3 DEF Chunks
<1>6. f \in Chunks(files, b)[i]
  BY <1>4, <1>5 DEF r
<1> QED
  BY <1>3, <1>6, ChunksTyped

\* What is left out of the final diff is as the last phase left it.
LEMMA LeftOut ==
  ASSUME NEW m, NEW base, NEW code, NEW now, NEW b,
         NEW f \in Changed(base, code), f \notin Shown(m, base, code, now, b)
  PROVE  /\ FinalGate(m) /\ m.done # << >> /\ m.done[Len(m.done)].boundary # NoTree
         /\ f \notin Changed(m.done[Len(m.done)].boundary, now)
<1> DEFINE files == Changed(base, code)
           boundary == IF m.done = << >> THEN NoTree ELSE m.done[Len(m.done)].boundary
           post == Changed(boundary, now)
           kept == Reduced(m, files, post, b)
<1>1. ASSUME f \in post
      PROVE  kept = {} \/ f \in kept
  <2> HIDE DEF files, post
  <2> QED
    BY <1>1 DEF Reduced, files
<1>2. FinalGate(m) /\ Oversized(files, b) /\ boundary # NoTree /\ kept # {} /\ f \notin kept
  BY DEF Shown
<1> QED
  BY <1>1, <1>2

-----------------------------------------------------------------------------
(* Every step keeps what was read.                                         *)

\* What was read stays read; who edits behind a review stays noted.
LEMMA PastGrows ==
  ASSUME [Next]_vars
  PROVE  /\ covered \subseteq covered' /\ strayed \subseteq strayed'
         /\ covered' = covered \/ \E result \in (SUBSET Finding) \cup {Unusable} : PayChunk(result)
         /\ strayed' = strayed \/ \E f \in File : \E v \in Version[f] : StrayEdit(f, v)
  BY DEF Next, Call, Worker, Edit, StrayEdit, WriteArtifact, Open, RefuseTerminal,
     OpenUnattributed, OpenUnchanged, OpenInvalidEvidence, OpenDrifted, OpenGate, Gate, RunGate,
     RunMutatingGate, RecollectSame, RecollectChanged, RecollectFails, Judge, CancelGate,
     GateFailed, RefuseStaleProof, RefuseEvidence, RefuseRepeat, StartReview, Review, PayChunk,
     CancelReview, RefuseChunk, Refused, Fails, SaveChunk, Aggregate, Denied,
     RefuseArtifact, RefuseFailed, Decide, PassLoop, CompletePhase, Supervise, PaySupervisor,
     SupervisorOut, RefuseSupervisor, ApplyRuling, Vanish, Human, ReopenGate, OverrideBudget

LEMMA BoundaryKept ==
  ASSUME BoundaryRead, SamePhase, covered \subseteq covered', strayed \subseteq strayed'
  PROVE  BoundaryRead' /\ PhaseBaseline(disk)' = PhaseBaseline(disk)
  BY DEF BoundaryRead, LastBoundary, SamePhase, Read, PhaseBaseline

LEMMA ChunksKept ==
  ASSUME covered \subseteq covered'
  PROVE  /\ ChunksRead(disk.ckpt) /\ disk'.ckpt = disk.ckpt => ChunksRead(disk.ckpt)'
         /\ ChunksRead(mem.ckpt) /\ disk'.ckpt = mem.ckpt => ChunksRead(disk.ckpt)'
         /\ ChunksRead(mem.ckpt) /\ mem'.ckpt = mem.ckpt => ChunksRead(mem.ckpt)'
         /\ ChunksRead(disk.ckpt) /\ mem'.ckpt = disk.ckpt => ChunksRead(mem.ckpt)'
         /\ disk'.ckpt = NoCheckpoint => ChunksRead(disk.ckpt)'
         /\ mem'.ckpt = NoCheckpoint => ChunksRead(mem.ckpt)'
<1>1. NoCheckpoint.print = NoPrint
  BY DEF NoCheckpoint
<1> QED
  BY <1>1 DEF ChunksRead, Read

\* A checkpoint survives whatever else of a record is set.
LEMMA CkptKept ==
  ASSUME NEW m, LoopFields \subseteq DOMAIN m
  PROVE  /\ \A s : To(m, s).ckpt = m.ckpt /\ LoopFields \subseteq DOMAIN To(m, s)
         /\ \A why : Stop(m, why).ckpt = m.ckpt /\ LoopFields \subseteq DOMAIN Stop(m, why)
         /\ Exhaust(m).ckpt = m.ckpt
         /\ CountRepair(m).ckpt = m.ckpt /\ LoopFields \subseteq DOMAIN CountRepair(m)
         /\ \A ruling : /\ NewEpoch(m, ruling).ckpt = m.ckpt
                        /\ LoopFields \subseteq DOMAIN NewEpoch(m, ruling)
         /\ \A review : /\ Recorded(m, review).ckpt = m.ckpt
                        /\ LoopFields \subseteq DOMAIN Recorded(m, review)
         /\ FreshGate(m).ckpt = NoCheckpoint /\ LoopFields \subseteq DOMAIN FreshGate(m)
<1>1. ASSUME NEW n, LoopFields \subseteq DOMAIN n, NEW s
      PROVE  To(n, s).ckpt = n.ckpt /\ LoopFields \subseteq DOMAIN To(n, s)
  BY <1>1 DEF To, LoopFields
<1>2. ASSUME NEW why
      PROVE  Stop(m, why).ckpt = m.ckpt /\ LoopFields \subseteq DOMAIN Stop(m, why)
  <2> DEFINE t == To(m, "HUMAN_REQUIRED")
  <2>1. t.ckpt = m.ckpt /\ LoopFields \subseteq DOMAIN t
    BY <1>1
  <2>2. Stop(m, why) = [t EXCEPT !.why = why]
    BY DEF Stop
  <2> HIDE DEF t
  <2> QED
    BY <2>1, <2>2 DEF LoopFields
<1>3. Exhaust(m).ckpt = m.ckpt
  <2> DEFINE t == Stop(m, "converged")
  <2>1. t.ckpt = m.ckpt /\ LoopFields \subseteq DOMAIN t
    BY <1>2
  <2>2. Exhaust(m) = [t EXCEPT !.exhausted = TRUE]
    BY DEF Exhaust
  <2> HIDE DEF t
  <2> QED
    BY <2>1, <2>2 DEF LoopFields
<1>4. CountRepair(m).ckpt = m.ckpt /\ LoopFields \subseteq DOMAIN CountRepair(m)
  BY DEF CountRepair, LoopFields
<1>5. ASSUME NEW ruling
      PROVE  /\ NewEpoch(m, ruling).ckpt = m.ckpt
             /\ LoopFields \subseteq DOMAIN NewEpoch(m, ruling)
  <2> DEFINE t == To(m, "SUPERVISING")
  <2>1. t.ckpt = m.ckpt /\ LoopFields \subseteq DOMAIN t
    BY <1>1
  <2> HIDE DEF t
  <2> QED
    BY <2>1 DEF NewEpoch, t, LoopFields
<1>6. ASSUME NEW review
      PROVE  Recorded(m, review).ckpt = m.ckpt /\ LoopFields \subseteq DOMAIN Recorded(m, review)
  BY DEF Recorded, LoopFields
<1>7. FreshGate(m).ckpt = NoCheckpoint /\ LoopFields \subseteq DOMAIN FreshGate(m)
  BY DEF FreshGate, LoopFields
<1> QED
  BY <1>1, <1>2, <1>3, <1>4, <1>5, <1>6, <1>7

\* The checkpoints a call that ends may leave behind.
Ckpts == {disk.ckpt, NoCheckpoint} \cup (IF pc = "idle" THEN {} ELSE {mem.ckpt})

LEMMA FinishCkpt ==
  ASSUME NEW m, m.ckpt \in Ckpts, NEW a, Finish(m, a)
  PROVE  disk'.ckpt \in Ckpts
  BY DEF Finish, Ckpts

LEMMA EndsWithCkpt ==
  ASSUME Lifecycle, Convergence, [Next]_vars, pc' = "idle"
  PROVE  disk'.ckpt \in Ckpts
<1>1. LoopFields \subseteq DOMAIN disk
  BY DEF Convergence, Settled, Typed
<1>2. pc # "idle" => LoopFields \subseteq DOMAIN mem
  BY DEF Convergence, Typed
<1>3. ASSUME disk' = disk
      PROVE  disk'.ckpt \in Ckpts
  BY <1>3 DEF Ckpts
<1>4. CASE Open
  <2>1. LoopFields \subseteq DOMAIN Reviewing /\ Reviewing.ckpt = disk.ckpt
    BY <1>1, CkptKept DEF Reviewing
  <2>2. disk' = disk
        \/ \E m, a : Finish(m, a) /\ (m \in {disk, To(Reviewing, "REWORK"), Stop(Reviewing, "other"),
                       Exhaust(CountRepair(Reviewing)), To(CountRepair(Reviewing), "REWORK")})
    BY <1>4 DEF Open, RefuseTerminal, OpenUnattributed, OpenUnchanged, OpenInvalidEvidence,
       OpenDrifted, OpenGate
  <2>3. LoopFields \subseteq DOMAIN CountRepair(Reviewing) /\ CountRepair(Reviewing).ckpt = disk.ckpt
    BY <2>1, CkptKept
  <2>4. \A m \in {disk, To(Reviewing, "REWORK"), Stop(Reviewing, "other"),
                  Exhaust(CountRepair(Reviewing)), To(CountRepair(Reviewing), "REWORK")} :
          m.ckpt \in Ckpts
    BY <2>1, <2>3, CkptKept DEF Ckpts
  <2> QED
    BY <1>3, <2>2, <2>4, FinishCkpt
<1>5. CASE Gate \/ Judge
  <2>1. pc # "idle"
    BY <1>5 DEF Gate, RunGate, RunMutatingGate, RecollectSame, RecollectChanged, RecollectFails,
       Judge, CancelGate, GateFailed, RefuseStaleProof, RefuseEvidence, RefuseRepeat,
       StartReview, Accepted, GatePassed
  <2> DEFINE Kept == {mem, WithoutProof(mem), Staged, CountRepair(mem)}
             Ends(m) == {m, To(m, "REWORK"), Stop(m, "other"), Exhaust(m),
                         [To(m, "REWORK") EXCEPT !.last = GatePrint]}
  <2>2. \E m \in Kept : \E n \in Ends(m) : \E a : Finish(n, a)
    BY <1>5 DEF Gate, RunGate, RunMutatingGate, RecollectSame, RecollectChanged, RecollectFails,
       Judge, CancelGate, GateFailed, RefuseStaleProof, RefuseEvidence, RefuseRepeat, StartReview
  <2>3. \A m \in Kept : LoopFields \subseteq DOMAIN m /\ m.ckpt = mem.ckpt
    <3>1. /\ LoopFields \subseteq DOMAIN WithoutProof(mem) /\ WithoutProof(mem).ckpt = mem.ckpt
          /\ LoopFields \subseteq DOMAIN Staged /\ Staged.ckpt = mem.ckpt
      BY <1>2, <2>1 DEF WithoutProof, Staged, LoopFields
    <3> QED
      BY <1>2, <2>1, <3>1, CkptKept
  <2>4. ASSUME NEW m \in Kept, NEW n \in Ends(m)
        PROVE  n.ckpt \in Ckpts
    <3>1. LoopFields \subseteq DOMAIN m /\ m.ckpt = mem.ckpt
      BY <2>3
    <3> DEFINE t == To(m, "REWORK")
    <3>2. LoopFields \subseteq DOMAIN t /\ t.ckpt = mem.ckpt
      BY <3>1, CkptKept
    <3> HIDE DEF t
    <3>3. [t EXCEPT !.last = GatePrint].ckpt = mem.ckpt
      BY <3>2 DEF LoopFields
    <3>4. n \in {m, t, Stop(m, "other"), Exhaust(m), [t EXCEPT !.last = GatePrint]}
      BY DEF t
    <3>5. Stop(m, "other").ckpt = mem.ckpt /\ Exhaust(m).ckpt = mem.ckpt
      BY <3>1, CkptKept
    <3>6. n.ckpt = mem.ckpt
      BY <3>1, <3>2, <3>3, <3>4, <3>5
    <3> QED
      BY <2>1, <3>6 DEF Ckpts
  <2> HIDE DEF Kept, Ends
  <2> QED
    BY <2>2, <2>4, FinishCkpt
<1>6. CASE Review
  <2>1. pc # "idle"
    BY <1>6 DEF Review, PayChunk, CancelReview, RefuseChunk, MoreChunks, SaveChunk, Aggregate,
       Denied, RefuseArtifact, RefuseFailed, Decide, Verified, PassLoop, CompletePhase
  <2>2. LoopFields \subseteq DOMAIN Reviewed /\ Reviewed.ckpt = NoCheckpoint
    BY <1>2, <2>1 DEF Reviewed, LoopFields
  <2> DEFINE r == Recorded(Reviewed, call.review)
             t == To(mem, "REWORK")
             f == FreshGate(To(mem, "READY_FOR_WORK"))
             Entry(b) == [files |-> Changed(call.base, call.code), boundary |-> b]
  <2>3. \/ disk' \in {disk, Stop(mem, call.why)}
        \/ \E a : Finish([t EXCEPT !.ckpt = NoCheckpoint, !.last = NoPrint], a)
        \/ \E a : \/ Finish(Stop(Reviewed, "other"), a) \/ Finish(Exhaust(r), a)
                  \/ Finish(To(r, "REWORK"), a) \/ Finish(To(mem, "PASS"), a)
        \/ \E a, b : Finish([f EXCEPT !.done = Append(@, Entry(b)), !.idx = @ + 1,
                                      !.last = NoPrint], a)
    BY <1>6 DEF Review, PayChunk, CancelReview, RefuseChunk, Refused, Fails, SaveChunk, Aggregate,
       Denied, FinishDenied, RefuseArtifact, RefuseFailed, Decide, PassLoop, CompletePhase
  <2>4. LoopFields \subseteq DOMAIN r /\ r.ckpt = NoCheckpoint
    BY <2>2, CkptKept
  <2>5. LoopFields \subseteq DOMAIN f /\ f.ckpt = NoCheckpoint /\ LoopFields \subseteq DOMAIN t
    BY <1>2, <2>1, CkptKept
  <2> HIDE DEF r, t, f
  <2>6. Stop(mem, call.why).ckpt \in Ckpts /\ To(mem, "PASS").ckpt \in Ckpts
    BY <1>2, <2>1, CkptKept DEF Ckpts
  <2>7. [t EXCEPT !.ckpt = NoCheckpoint, !.last = NoPrint].ckpt \in Ckpts
    BY <2>5 DEF Ckpts, LoopFields
  <2>8. \A b : [f EXCEPT !.done = Append(@, Entry(b)), !.idx = @ + 1,
                         !.last = NoPrint].ckpt \in Ckpts
    BY <2>5 DEF Ckpts, LoopFields
  <2>9. /\ Stop(Reviewed, "other").ckpt \in Ckpts /\ Exhaust(r).ckpt \in Ckpts
        /\ To(r, "REWORK").ckpt \in Ckpts
    BY <2>2, <2>4, CkptKept DEF Ckpts
  <2> HIDE DEF Entry
  <2> QED
    BY <1>3, <2>3, <2>6, <2>7, <2>8, <2>9, FinishCkpt
<1>7. CASE Supervise
  <2> DEFINE supervised == To(mem, "SUPERVISING")
             out == [mem EXCEPT !.setbacks = @ + 1]
             asked == [supervised EXCEPT !.esc = @ + 1]
             epoch == NewEpoch(mem, call.sup)
  <2>1. pc # "idle" /\ \E a : \/ Finish(To(out, "REWORK"), a) \/ Finish(Exhaust(asked), a)
                              \/ Finish(Exhaust(supervised), a) \/ Finish(To(epoch, "REWORK"), a)
    BY <1>7 DEF Supervise, SupervisorOut, PaySupervisor, RefuseSupervisor, ApplyRuling
  <2>2. /\ LoopFields \subseteq DOMAIN supervised /\ supervised.ckpt = mem.ckpt
        /\ LoopFields \subseteq DOMAIN epoch /\ epoch.ckpt = mem.ckpt
    BY <1>2, <2>1, CkptKept
  <2> HIDE DEF supervised, epoch
  <2>3. /\ LoopFields \subseteq DOMAIN out /\ out.ckpt = mem.ckpt
        /\ LoopFields \subseteq DOMAIN asked /\ asked.ckpt = mem.ckpt
    BY <1>2, <2>1, <2>2 DEF LoopFields
  <2> HIDE DEF out, asked
  <2>4. /\ To(out, "REWORK").ckpt \in Ckpts /\ Exhaust(asked).ckpt \in Ckpts
        /\ Exhaust(supervised).ckpt \in Ckpts /\ To(epoch, "REWORK").ckpt \in Ckpts
    BY <2>1, <2>2, <2>3, CkptKept DEF Ckpts
  <2> QED
    BY <2>1, <2>4, FinishCkpt
<1>8. CASE Human
  <2> DEFINE t == To(To(disk, "REVIEWING"), "REWORK")
             f == FreshGate(t)
             m == [f EXCEPT !.exhausted = FALSE, !.reopens = @ + 1]
  <2>1. disk' \in {disk, t, m}
    BY <1>8 DEF Human, ReopenGate, OverrideBudget
  <2>2. LoopFields \subseteq DOMAIN To(disk, "REVIEWING") /\ To(disk, "REVIEWING").ckpt = disk.ckpt
    BY <1>1, CkptKept
  <2>3. LoopFields \subseteq DOMAIN t /\ t.ckpt = disk.ckpt
    BY <2>2, CkptKept
  <2> HIDE DEF t
  <2>4. LoopFields \subseteq DOMAIN f /\ f.ckpt = NoCheckpoint
    BY <2>3, CkptKept
  <2> HIDE DEF f
  <2>5. m.ckpt = NoCheckpoint
    BY <2>4 DEF LoopFields
  <2> HIDE DEF m
  <2> QED
    BY <2>1, <2>3, <2>5 DEF Ckpts
<1>9. CASE Worker \/ Vanish \/ UNCHANGED vars
  <2>1. disk' = disk
    BY <1>9 DEF Worker, Edit, StrayEdit, WriteArtifact, Vanish
  <2> QED
    BY <1>3, <2>1
<1> QED
  BY <1>4, <1>5, <1>6, <1>7, <1>8, <1>9 DEF Next, Call

\* A call that ended leaves only what was read to build on.
LEMMA CoverageEnds ==
  ASSUME Coverage, covered \subseteq covered', strayed \subseteq strayed', SamePhase,
         pc' = "idle", disk'.ckpt \in Ckpts
  PROVE  Coverage'
<1>1. BoundaryRead'
  BY BoundaryKept DEF Coverage
<1>2. ChunksRead(disk.ckpt)'
  BY ChunksKept DEF Coverage, Ckpts
<1> QED
  BY <1>1, <1>2 DEF Coverage

\* A call that goes on with what it collected.
LEMMA CoverageGoesOn ==
  ASSUME Coverage, covered \subseteq covered', strayed \subseteq strayed', SamePhase,
         pc # "idle", disk'.ckpt \in {disk.ckpt, mem.ckpt}, call'.base = call.base,
         ChunksRead(mem.ckpt)',
         pc' \in {"judge"} \cup UnderReview => \A f \in File \ strayed' : tree'[f] = call'.code[f],
         pc' \in Paying =>
           /\ mem'.ckpt.plan = call'.plan /\ call'.print.code = call'.code
           /\ \A f \in File : Unread(f)' => Planned(f)',
         pc' \in {"verify", "complete"} /\ ~IsFailed(call'.review) => \A f \in File : ~Unread(f)'
  PROVE  Coverage'
<1>1. BoundaryRead' /\ PhaseBaseline(disk)' = PhaseBaseline(disk)
  BY BoundaryKept DEF Coverage
<1>2. ChunksRead(disk.ckpt)'
  BY ChunksKept DEF Coverage
<1>3. call'.base \in {PhaseBaseline(disk), Baseline}' 
  BY <1>1 DEF Coverage, Baseline
<1> QED
  BY <1>1, <1>2, <1>3 DEF Coverage

\* Nothing becomes unread while the collection stays.
LEMMA StaysRead ==
  ASSUME covered \subseteq covered', strayed \subseteq strayed',
         call'.base = call.base, call'.code = call.code, NEW f, Unread(f)'
  PROVE  Unread(f)
  BY DEF Unread, Read, Changed

LEMMA CoverageWorker ==
  ASSUME Lifecycle, Convergence, Coverage, Worker
  PROVE  Coverage'
<1>1. /\ covered' = covered /\ strayed \subseteq strayed' /\ disk' = disk /\ mem' = mem /\ pc' = pc
      /\ call' = call \/ (pc \in {"gate", "recollect"} /\ call' = [call EXCEPT !.touched = TRUE])
  BY DEF Worker, Edit, StrayEdit, WriteArtifact
<1>2. SamePhase
  BY <1>1 DEF SamePhase
<1>3. CASE pc = "idle"
  BY <1>1, <1>2, <1>3, CoverageEnds DEF Ckpts
<1>4. CASE pc # "idle"
  <2>1. ChunksRead(mem.ckpt)'
    BY <1>1, <1>4, ChunksKept DEF Coverage
  <2>2. CallFields \subseteq DOMAIN call
    BY <1>4 DEF Convergence, CallTyped
  <2>3. \A x \in CallFields \ {"touched"} : call'[x] = call[x]
    BY <1>1, <2>2 DEF CallFields
  <2>4. /\ call'.base = call.base /\ call'.code = call.code /\ call'.plan = call.plan
        /\ call'.print = call.print /\ call'.review = call.review
    BY <2>3 DEF CallFields
  <2>5. pc' \in {"judge"} \cup UnderReview => \A f \in File \ strayed' : tree'[f] = call'.code[f]
    <3> SUFFICES ASSUME pc \in {"judge"} \cup UnderReview, NEW f \in File \ strayed'
                 PROVE  tree'[f] = call'.code[f]
      BY <1>1
    <3>1. f \in File \ strayed /\ tree[f] = call.code[f]
      BY <1>1, <1>4 DEF Coverage
    <3>2. tree'[f] = tree[f]
      <4>1. CASE UNCHANGED tree
        BY <4>1
      <4>2. ASSUME NEW g \in File, NEW v \in Version[g], StrayEdit(g, v)
            PROVE  tree'[f] = tree[f]
        <5>1. tree' = [tree EXCEPT ![g] = v] /\ strayed' = strayed \cup {g}
          BY <4>2, <1>1 DEF StrayEdit, UnderReview
        <5> QED
          BY <5>1
      <4> QED
        BY <1>4, <4>1, <4>2 DEF Worker, Edit, WriteArtifact
    <3> QED
      BY <2>4, <3>1, <3>2
  <2>6. \A f : Unread(f)' => Unread(f)
    BY <1>1, <2>4, StaysRead
  <2>7. \A f : Planned(f) => Planned(f)'
    BY <2>4 DEF Planned
  <2> QED
    BY <1>1, <1>2, <1>4, <2>1, <2>4, <2>5, <2>6, <2>7, CoverageGoesOn DEF Coverage
<1> QED
  BY <1>3, <1>4

\* The Gate, while nothing is under review yet.
LEMMA CoverageGate ==
  ASSUME Lifecycle, Convergence, Coverage, Gate, SamePhase, pc' # "idle"
  PROVE  Coverage'
<1>1. /\ pc \in {"gate", "recollect"} /\ pc' \in {"gate", "recollect", "judge"}
      /\ disk' = disk /\ covered' = covered /\ strayed' = strayed
      /\ mem' \in {mem, WithoutProof(mem)}
  BY DEF Gate, RunGate, RunMutatingGate, RecollectSame, RecollectChanged, RecollectFails, Finish,
     Leave
<1>2. CallFields \subseteq DOMAIN call /\ Typed(mem)
  BY <1>1 DEF Convergence, CallTyped
<1>3. mem'.ckpt = mem.ckpt
  BY <1>1, <1>2 DEF WithoutProof, Typed, LoopFields
<1>4. ChunksRead(mem.ckpt)'
  BY <1>1, <1>3, ChunksKept DEF Coverage
<1>5. \/ call' = call
      \/ \E t, run : call' = [call EXCEPT !.tested = t, !.gate = run]
      \/ call' = [call EXCEPT !.code = tree, !.mutated = TRUE, !.runs = @ + 1]
  BY DEF Gate, RunGate, RunMutatingGate, RecollectSame, RecollectChanged, RecollectFails, Finish,
     Leave
<1>6. call'.base = call.base
  BY <1>2, <1>5 DEF CallFields
<1>7. pc' = "judge" => tree' = call'.code
  <2>1. CASE RecollectSame
    BY <2>1 DEF RecollectSame
  <2>2. CASE RecollectChanged
    <3>1. tree' = tree /\ call' = [call EXCEPT !.code = tree, !.mutated = TRUE, !.runs = @ + 1]
      BY <2>2 DEF RecollectChanged, Finish, Leave
    <3> QED
      BY <1>2, <3>1 DEF CallFields
  <2> QED
    BY <2>1, <2>2 DEF Gate, RunGate, RunMutatingGate, RecollectFails, Finish, Leave
<1> QED
  BY <1>1, <1>4, <1>6, <1>7, CoverageGoesOn DEF UnderReview, Paying

\* The review that begins has every changed file in a chunk, unless it is left
\* out of the final diff because the last phase left it as it is now.
LEMMA CoverageStarts ==
  ASSUME Lifecycle, Convergence, Coverage, StartReview, SamePhase
  PROVE  Coverage'
<1> DEFINE print == Logical(mem.pending)
           shown == Shown(mem, call.base, call.code, tree, call.budget)
           plan == Chunks(shown, call.budget)
           begun == [call EXCEPT !.proof = Proof, !.print = print, !.plan = plan]
           next == Checkpointed(Counted(print), print, plan)
<1>1. /\ pc = "judge" /\ disk' = disk /\ covered' = covered /\ strayed' = strayed /\ tree' = tree
      /\ \/ /\ pc' = "verify" /\ mem' = Staged /\ call' = [begun EXCEPT !.review = Unusable]
         \/ pc' = "chunks" /\ mem' = next /\ call' = begun
  BY DEF StartReview, Accepted, GatePassed
<1>2. Typed(mem) /\ Within(mem) /\ CallTyped /\ call.code \in Tree /\ call.budget \in Budget
  BY <1>1 DEF Convergence, Undecided, CallTyped
<1>3. print # NoPrint /\ print.code = call.code
  BY PrintIsOne DEF Logical, RoundPrint
<1>4. shown \in SUBSET File
  BY ShownChanged DEF Changed
<1> HIDE DEF print
<1>5. /\ call'.base = call.base /\ call'.code = call.code /\ call'.plan = plan
      /\ call'.print = print /\ (pc' = "verify" => call'.review = Unusable)
  <2> HIDE DEF plan
  <2> QED
    BY <1>1, <1>2 DEF CallTyped, CallFields
<1>6. pc' = "chunks" => \A f \in File : Unread(f)' => Planned(f)'
  <2> SUFFICES ASSUME NEW f \in File, Unread(f)'
               PROVE  Planned(f)'
    OBVIOUS
  <2>1. Unread(f)
    BY <1>1, <1>5, StaysRead
  <2>2. f \in Changed(call.base, call.code) /\ f \notin strayed /\ ~Read(f, call.code[f])
    BY <2>1 DEF Unread
  <2>3. f \in shown
    <3> SUFFICES ASSUME f \notin shown
                 PROVE  FALSE
      OBVIOUS
    <3>1. /\ FinalGate(mem) /\ mem.done # << >> /\ mem.done[Len(mem.done)].boundary # NoTree
          /\ f \notin Changed(mem.done[Len(mem.done)].boundary, tree)
      BY <2>2, LeftOut
    <3>2. mem.done = disk.done /\ mem.idx = disk.idx
      BY <1>1, StillReviewing DEF OnPhase
    <3>3. LastBoundary # NoTree /\ LastBoundary[f] = tree[f] /\ FinalGate(disk)
      BY <3>1, <3>2 DEF LastBoundary, Changed, FinalGate
    <3>4. tree[f] = call.code[f]
      BY <1>1, <2>2 DEF Coverage
    <3>5. call.code[f] = 0
      BY <2>2, <3>3, <3>4 DEF Coverage, BoundaryRead
    <3>6. call.base = Baseline
      <4>1. PhaseBaseline(disk) = Baseline
        BY <3>3, ControllerAssumption DEF PhaseBaseline, FinalGate
      <4> QED
        BY <1>1, <4>1 DEF Coverage
    <3> QED
      BY <2>2, <3>5, <3>6 DEF Changed, Baseline
  <2>4. \E i \in 1..Len(plan) : f \in plan[i]
    BY <1>2, <1>4, <2>3, ChunksCover
  <2> HIDE DEF plan
  <2> QED
    BY <1>5, <2>4 DEF Planned
<1> HIDE DEF plan
<1>7. pc' = "chunks" => mem'.ckpt.plan = plan /\ ChunksRead(mem.ckpt)'
  <2> SUFFICES ASSUME pc' = "chunks"
               PROVE  mem'.ckpt.plan = plan /\ ChunksRead(mem.ckpt)'
    OBVIOUS
  <2> DEFINE c == Counted(print)
             new == [print |-> print, plan |-> plan, got |-> << >>, round |-> c.round,
                     gateRound |-> c.gateRound, epoch |-> c.epoch, epochRound |-> c.epochRound]
  <2>1. Typed(c) /\ c.ckpt = mem.ckpt
    BY <1>2, <1>3, CountedTyped
  <2>2. mem' = IF Resumes(print) /\ mem.ckpt.plan = plan THEN c ELSE [c EXCEPT !.ckpt = new]
    BY <1>1 DEF Checkpointed
  <2> HIDE DEF c
  <2>3. CASE Resumes(print) /\ mem.ckpt.plan = plan
    <3>1. mem'.ckpt = mem.ckpt
      BY <2>1, <2>2, <2>3
    <3> QED
      BY <1>1, <2>3, <3>1, ChunksKept DEF Coverage
  <2>4. CASE ~(Resumes(print) /\ mem.ckpt.plan = plan)
    <3>1. mem'.ckpt = new
      BY <2>1, <2>2, <2>4 DEF Typed, LoopFields
    <3>2. new.got = << >> /\ new.plan = plan
      OBVIOUS
    <3> HIDE DEF new
    <3>3. mem'.ckpt.got = << >> /\ mem'.ckpt.plan = plan
      BY <3>1, <3>2
    <3>4. Len(<< >>) = 0
      OBVIOUS
    <3> QED
      BY <3>3, <3>4 DEF ChunksRead
  <2> QED
    BY <2>3, <2>4
<1>8. pc' = "verify" => ChunksRead(mem.ckpt)'
  <2> SUFFICES ASSUME pc' = "verify"
               PROVE  ChunksRead(mem.ckpt)'
    OBVIOUS
  <2>1. mem'.ckpt = mem.ckpt
    BY <1>1, <1>2, ProofTyped DEF SameCounts
  <2> QED
    BY <1>1, <2>1, ChunksKept DEF Coverage
<1>9. \A f \in File \ strayed' : tree'[f] = call'.code[f]
  BY <1>1, <1>5 DEF Coverage
<1>10. IsFailed(Unusable)
  BY DEF IsFailed
<1> HIDE DEF begun, next
<1> QED
  BY <1>1, <1>3, <1>5, <1>6, <1>7, <1>8, <1>9, <1>10, CoverageGoesOn DEF Paying

\* A chunk that was answered was read.
LEMMA CoveragePays ==
  ASSUME Lifecycle, Convergence, Coverage, NEW result, PayChunk(result), SamePhase
  PROVE  Coverage'
<1>1. /\ pc = "chunks" /\ pc' = "saveChunk" /\ NextChunk <= Len(call.plan)
      /\ disk' = disk /\ call' = call /\ tree' = tree /\ strayed' = strayed
      /\ mem' = [mem EXCEPT !.ckpt.got = Append(@, result)]
      /\ covered' = IF IsFailed(result) THEN covered
                    ELSE covered \cup {<< f, call.code[f] >> : f \in call.plan[NextChunk]}
  BY DEF PayChunk, MoreChunks
<1>2. /\ Typed(mem) /\ mem.ckpt.got \in Seq(Result) /\ call.plan \in Seq(SUBSET File)
      /\ mem.ckpt.print = call.print
  BY <1>1 DEF Convergence, Undecided, Typed, Checkpoint, CallTyped, Resumable, Paying
<1>3. /\ ChunksRead(mem.ckpt) /\ mem.ckpt.plan = call.plan /\ call.print.code = call.code
      /\ \A f \in File : Unread(f) => Planned(f)
      /\ \A f \in File \ strayed : tree[f] = call.code[f]
  BY <1>1 DEF Coverage, Paying, UnderReview
<1> DEFINE got == mem.ckpt.got
           more == Append(got, result)
<1>4. /\ Len(got) \in Nat /\ Len(more) = Len(got) + 1 /\ more[Len(got) + 1] = result
      /\ \A i \in 1..Len(got) : more[i] = got[i]
  BY <1>2, LenProperties
<1>5. /\ mem'.ckpt.print = mem.ckpt.print /\ mem'.ckpt.plan = mem.ckpt.plan /\ mem'.ckpt.got = more
  <2> HIDE DEF more
  <2>1. mem' = [mem EXCEPT !.ckpt = [mem.ckpt EXCEPT !.got = more]]
    BY <1>1 DEF more
  <2> QED
    BY <1>2, <2>1 DEF Typed, Checkpoint, LoopFields, CkptFields
<1>6. covered \subseteq covered'
  BY <1>1
<1>7. NextChunk = Len(got) + 1 /\ NextChunk \in 1..Len(call.plan)
  BY <1>1, <1>2, <1>4, LenProperties DEF NextChunk
<1>8. ChunksRead(mem.ckpt)'
  <2> SUFFICES ASSUME mem.ckpt.print # NoPrint, NEW i \in 1..Len(more)
               PROVE  /\ i \in 1..Len(mem.ckpt.plan)
                      /\ \/ IsFailed(more[i])
                         \/ \A f \in mem.ckpt.plan[i] : << f, mem.ckpt.print.code[f] >> \in covered'
    BY <1>5 DEF ChunksRead, Read
  <2>1. CASE i \in 1..Len(got)
    <3>1. /\ i \in 1..Len(mem.ckpt.plan)
          /\ \/ IsFailed(got[i])
             \/ \A f \in mem.ckpt.plan[i] : << f, mem.ckpt.print.code[f] >> \in covered
      BY <1>3, <2>1 DEF ChunksRead, Read
    <3> QED
      BY <1>4, <1>6, <2>1, <3>1
  <2>2. CASE i = NextChunk
    <3>1. more[i] = result
      BY <1>4, <1>7, <2>2
    <3>2. ~IsFailed(result) => \A f \in call.plan[i] : << f, call.code[f] >> \in covered'
      BY <1>1, <2>2
    <3> HIDE DEF more
    <3> QED
      BY <1>2, <1>3, <1>7, <2>2, <3>1, <3>2
  <2>3. i \in 1..Len(got) \/ i = NextChunk
    BY <1>4, <1>7
  <2> QED
    BY <2>1, <2>2, <2>3
<1>9. \A f \in File : Unread(f)' => Planned(f)'
  <2>1. \A f : Unread(f)' => Unread(f)
    BY <1>1, <1>6, StaysRead
  <2> QED
    BY <1>1, <1>3, <2>1 DEF Planned
<1> HIDE DEF got, more
<1> QED
  BY <1>1, <1>3, <1>5, <1>6, <1>8, <1>9, CoverageGoesOn DEF Paying

\* A review whose chunks were all read leaves nothing unread.
LEMMA CoverageAggregates ==
  ASSUME Lifecycle, Convergence, Coverage, Aggregate, SamePhase
  PROVE  Coverage'
<1> DEFINE results == {mem.ckpt.got[i] : i \in 1..Len(mem.ckpt.got)}
           review == IF \E r \in results : IsFailed(r) THEN Unusable ELSE UNION results
<1>1. /\ pc = "chunks" /\ pc' = "verify" /\ ~MoreChunks
      /\ disk' = disk /\ mem' = mem /\ tree' = tree /\ strayed' = strayed /\ covered' = covered
      /\ call' = [call EXCEPT !.review = review]
  BY DEF Aggregate
<1>2. /\ mem.ckpt.got \in Seq(Result) /\ call.plan \in Seq(SUBSET File)
      /\ mem.ckpt.print = call.print /\ Begun(mem) /\ CallFields \subseteq DOMAIN call
  BY <1>1 DEF Convergence, Undecided, Typed, Checkpoint, CallTyped, Resumable, Paying
<1>3. /\ ChunksRead(mem.ckpt) /\ mem.ckpt.plan = call.plan /\ call.print.code = call.code
      /\ \A f \in File : Unread(f) => Planned(f)
      /\ \A f \in File \ strayed : tree[f] = call.code[f]
  BY <1>1 DEF Coverage, Paying, UnderReview
<1>4. ASSUME ~IsFailed(review), NEW f \in File
      PROVE  ~Unread(f)
  <2>1. ~\E r \in results : IsFailed(r)
    BY <1>4 DEF IsFailed
  <2>2. NextChunk > Len(call.plan)
    <3>1. ~(NextChunk <= Len(call.plan))
      BY <1>1, <2>1 DEF MoreChunks
    <3>2. NextChunk \in Nat /\ Len(call.plan) \in Nat
      BY <1>2, LenProperties DEF NextChunk
    <3> QED
      BY <3>1, <3>2
  <2>3. \A i \in 1..Len(call.plan) : i \in 1..Len(mem.ckpt.got)
    BY <1>2, <2>2, LenProperties DEF NextChunk
  <2>4. SUFFICES ASSUME Unread(f)
                 PROVE  FALSE
    OBVIOUS
  <2>5. PICK i \in 1..Len(call.plan) : f \in call.plan[i]
    BY <1>3, <2>4 DEF Planned
  <2>6. i \in 1..Len(mem.ckpt.got) /\ ~IsFailed(mem.ckpt.got[i])
    BY <2>1, <2>3
  <2>7. Read(f, call.code[f])
    BY <1>2, <1>3, <2>5, <2>6 DEF ChunksRead, Begun
  <2> QED
    BY <2>4, <2>7 DEF Unread
<1> HIDE DEF review
<1>5. /\ call'.base = call.base /\ call'.code = call.code /\ call'.review = review
  BY <1>1, <1>2 DEF CallFields
<1>6. ~IsFailed(call'.review) => \A f \in File : ~Unread(f)'
  <2>1. \A f : Unread(f)' => Unread(f)
    BY <1>1, <1>5, StaysRead
  <2> QED
    BY <1>4, <1>5, <2>1
<1>7. ChunksRead(mem.ckpt)'
  BY <1>1, <1>3, ChunksKept
<1> QED
  BY <1>1, <1>3, <1>5, <1>6, <1>7, CoverageGoesOn DEF Paying

\* The other steps of a review and of its escalation.
LEMMA CoverageReview ==
  ASSUME Lifecycle, Convergence, Coverage, SamePhase, pc' # "idle",
         CancelReview \/ RefuseChunk \/ SaveChunk \/ Decide \/ Supervise
  PROVE  Coverage'
<1>1. /\ pc \in UnderReview /\ pc' \in UnderReview /\ tree' = tree
      /\ strayed' = strayed /\ covered' = covered
      /\ disk' \in {disk, mem}
      /\ pc' \in Paying => pc \in Paying /\ mem' = mem /\ call' = call
      /\ pc' = "verify" => call' = [call EXCEPT !.review = Unusable]
      /\ pc' = "complete" => pc = "verify" /\ call' = call /\ ~IsFailed(call.review)
      /\ \/ mem' = mem \/ mem' = [mem EXCEPT !.setbacks = @ + 1]
         \/ mem' = Recorded(Reviewed, call.review)
      /\ call' = call \/ \E x : \/ call' = [call EXCEPT !.review = x]
                                \/ call' = [call EXCEPT !.why = x]
                                \/ call' = [call EXCEPT !.sup = x]
  BY DEF CancelReview, RefuseChunk, MoreChunks, Refused, Fails, SaveChunk, Decide, Verified, Finish,
     Leave, Supervise, SupervisorOut, PaySupervisor, RefuseSupervisor, ApplyRuling, UnderReview,
     Paying
<1>2. CallFields \subseteq DOMAIN call /\ Typed(mem)
  BY <1>1 DEF Convergence, CallTyped, UnderReview
<1>3. ChunksRead(mem.ckpt)'
  <2>1. mem'.ckpt \in {mem.ckpt, NoCheckpoint}
    <3>1. LoopFields \subseteq DOMAIN Reviewed /\ Reviewed.ckpt = NoCheckpoint
      BY <1>2 DEF Reviewed, Typed, LoopFields
    <3>2. Recorded(Reviewed, call.review).ckpt = NoCheckpoint
      BY <3>1, CkptKept
    <3>3. [mem EXCEPT !.setbacks = @ + 1].ckpt = mem.ckpt
      BY <1>2 DEF Typed, LoopFields
    <3> QED
      BY <1>1, <3>2, <3>3
  <2> QED
    BY <1>1, <2>1, ChunksKept DEF Coverage, UnderReview
<1>4. /\ call'.base = call.base /\ call'.code = call.code
      /\ pc' = "verify" => call'.review = Unusable
  BY <1>1, <1>2 DEF CallFields
<1>5. \A f : Unread(f)' => Unread(f)
  BY <1>1, <1>4, StaysRead
<1>6. \A f \in File \ strayed : tree[f] = call.code[f]
  BY <1>1 DEF Coverage, UnderReview
<1>7. pc' \in Paying => /\ mem'.ckpt.plan = call'.plan /\ call'.print.code = call'.code
                        /\ \A f \in File : Unread(f)' => Planned(f)'
  <2> SUFFICES ASSUME pc' \in Paying
               PROVE  /\ mem'.ckpt.plan = call'.plan /\ call'.print.code = call'.code
                      /\ \A f \in File : Unread(f)' => Planned(f)'
    OBVIOUS
  <2>1. /\ mem.ckpt.plan = call.plan /\ call.print.code = call.code
        /\ \A f \in File : Unread(f) => Planned(f)
    BY <1>1 DEF Coverage, Paying
  <2> QED
    BY <1>1, <1>5, <2>1 DEF Planned
<1>8. pc' \in {"verify", "complete"} /\ ~IsFailed(call'.review) => \A f \in File : ~Unread(f)'
  BY <1>1, <1>4, <1>5 DEF Coverage, IsFailed
<1> QED
  BY <1>1, <1>3, <1>4, <1>6, <1>7, <1>8, CoverageGoesOn DEF UnderReview

\* The boundary of a phase that passed: what its review left alone is as the
\* boundary or the tree before it was.
LEMMA CoverageCompletes ==
  ASSUME Lifecycle, Convergence, Faithful, Coverage,
         NEW boundary \in Tree \cup {NoTree}, CompletePhase(boundary)
  PROVE  Coverage'
<1> DEFINE entry == [files |-> Changed(call.base, call.code), boundary |-> boundary]
           f == FreshGate(To(mem, "READY_FOR_WORK"))
           m == [f EXCEPT !.done = Append(@, entry), !.idx = @ + 1, !.last = NoPrint]
<1>1. /\ pc = "complete" /\ pc' = "idle" /\ boundary \in {tree, NoTree}
      /\ disk' \in {disk, m} /\ covered' = covered /\ strayed' = strayed
  BY DEF CompletePhase, Finish, Leave
<1>2. CASE disk' = disk
  BY <1>1, <1>2, CoverageEnds DEF SamePhase, Ckpts
<1>3. CASE disk' = m
  <2>1. OnPhase(f) /\ f.ckpt = NoCheckpoint
    <3>1. OnPhase(To(mem, "READY_FOR_WORK"))
      BY <1>1, StillReviewing, ToKeeps
    <3>2. LoopFields \subseteq DOMAIN mem
      BY <1>1 DEF Convergence, Typed
    <3>3. LoopFields \subseteq DOMAIN To(mem, "READY_FOR_WORK")
      BY <3>2, CkptKept
    <3> QED
      BY <3>1, <3>3, FreshKeeps, CkptKept
  <2>2. entry \in Phase /\ entry.boundary = boundary
    BY DEF Phase, Changed
  <2> HIDE DEF f, entry
  <2>3. m.done = Append(disk.done, entry) /\ m.ckpt = NoCheckpoint
    BY <2>1 DEF OnPhase, Fields
  <2> HIDE DEF m
  <2>4. /\ m.done # << >> /\ m.done[Len(m.done)] = entry
    <3>1. disk.done \in Seq(Phase)
      BY DEF Lifecycle
    <3>2. /\ Len(m.done) = Len(disk.done) + 1 /\ m.done[Len(disk.done) + 1] = entry
          /\ Len(disk.done) \in Nat
      BY <2>2, <2>3, <3>1, AppendKeeps, LenProperties
    <3>3. Len(<< >>) = 0
      OBVIOUS
    <3> QED
      BY <3>2, <3>3
  <2>5. LastBoundary' = boundary
    BY <1>3, <2>2, <2>4 DEF LastBoundary
  <2>6. BoundaryRead'
    <3> SUFFICES ASSUME boundary # NoTree, NEW g \in File \ strayed, ~Read(g, boundary[g])
                 PROVE  boundary[g] = 0
      BY <1>1, <2>5 DEF BoundaryRead, Read
    <3>1. boundary[g] = call.code[g]
      BY <1>1 DEF Coverage, UnderReview
    <3>2. ~IsFailed(call.review)
      BY <1>1 DEF Faithful, IsFailed, Unusable
    <3>3. ~Unread(g)
      BY <1>1, <3>2 DEF Coverage
    <3>4. call.code[g] = call.base[g]
      BY <3>1, <3>3 DEF Unread, Changed
    <3>5. CASE call.base = Baseline
      BY <3>1, <3>4, <3>5 DEF Baseline
    <3>6. CASE call.base # Baseline
      <4>1. /\ call.base = PhaseBaseline(disk) /\ disk.idx \in 1..(NPhases - 1)
            /\ disk.done[disk.idx].boundary # NoTree
            /\ call.base = disk.done[disk.idx].boundary
        BY <1>1, <3>6 DEF Coverage, PhaseBaseline
      <4>2. disk.idx = Len(disk.done) /\ disk.done # << >>
        <5>1. Len(<< >>) = 0
          OBVIOUS
        <5> QED
          BY <4>1, <5>1 DEF Lifecycle
      <4>3. call.base = LastBoundary /\ LastBoundary # NoTree
        BY <4>1, <4>2 DEF LastBoundary
      <4> QED
        BY <3>1, <3>4, <4>3 DEF Coverage, BoundaryRead
    <3> QED
      BY <3>5, <3>6
  <2>7. ChunksRead(disk.ckpt)'
    BY <1>1, <1>3, <2>3, ChunksKept
  <2> QED
    BY <1>1, <2>6, <2>7 DEF Coverage
<1> QED
  BY <1>1, <1>2, <1>3

LEMMA CoverageStep ==
  ASSUME Lifecycle, Convergence, Faithful, Coverage, [Next]_vars
  PROVE  Coverage'
<1>1. CASE \E boundary \in Tree \cup {NoTree} : CompletePhase(boundary)
  BY <1>1, CoverageCompletes
<1>2. CASE ~\E boundary \in Tree \cup {NoTree} : CompletePhase(boundary)
  <2>1. SamePhase /\ covered \subseteq covered' /\ strayed \subseteq strayed'
    BY <1>2, LifeStep, PastGrows
  <2>2. CASE pc' = "idle"
    BY <2>1, <2>2, EndsWithCkpt, CoverageEnds
  <2>3. CASE pc' # "idle"
    <3>1. CASE Worker
      BY <3>1, CoverageWorker
    <3>2. CASE Open
      <4>1. PICK base \in Tree, b \in Budget, submits \in BOOLEAN : OpenGate(base, b, submits)
        BY <2>3, <3>2 DEF Open, RefuseTerminal, OpenUnattributed, OpenUnchanged,
           OpenInvalidEvidence, OpenDrifted, Finish, Leave
      <4>2. /\ pc = "idle" /\ pc' = "gate" /\ mem' = Reviewing /\ disk' = disk
            /\ base \in {PhaseBaseline(disk), Baseline} /\ call'.base = base
        BY <4>1 DEF OpenGate, Collects
      <4>3. mem'.ckpt = disk.ckpt
        <5>1. LoopFields \subseteq DOMAIN disk
          BY DEF Convergence, Settled, Typed
        <5> QED
          BY <4>2, <5>1, CkptKept DEF Reviewing
      <4>4. ChunksRead(disk.ckpt)' /\ ChunksRead(mem.ckpt)'
        BY <2>1, <4>2, <4>3, ChunksKept DEF Coverage
      <4>5. BoundaryRead' /\ PhaseBaseline(disk)' = PhaseBaseline(disk)
        BY <2>1, BoundaryKept DEF Coverage
      <4> QED
        BY <4>2, <4>4, <4>5 DEF Coverage, UnderReview, Paying, Baseline
    <3>3. CASE Gate
      BY <2>1, <2>3, <3>3, CoverageGate
    <3>4. CASE Judge
      <4>1. StartReview
        BY <2>3, <3>4 DEF Judge, CancelGate, GateFailed, RefuseStaleProof, RefuseEvidence,
           RefuseRepeat, Finish, Leave
      <4> QED
        BY <2>1, <4>1, CoverageStarts
    <3>5. CASE Review
      <4>1. \/ \E result : PayChunk(result)
            \/ Aggregate \/ CancelReview \/ RefuseChunk \/ SaveChunk \/ Decide
        BY <1>2, <2>3, <3>5 DEF Review, Denied, FinishDenied, RefuseArtifact, RefuseFailed,
           PassLoop, Finish, Leave
      <4> QED
        BY <2>1, <2>3, <4>1, CoveragePays, CoverageAggregates, CoverageReview
    <3>6. CASE Supervise
      BY <2>1, <2>3, <3>6, CoverageReview
    <3>7. CASE Vanish \/ Human
      BY <2>3, <3>7 DEF Vanish, Leave, Human, ReopenGate, OverrideBudget
    <3>8. CASE UNCHANGED vars
      BY <3>8 DEF Coverage, ChunksRead, BoundaryRead, LastBoundary, Read, Unread, Planned,
         PhaseBaseline, Paying, UnderReview
    <3> QED
      BY <3>1, <3>2, <3>3, <3>4, <3>5, <3>6, <3>7, <3>8 DEF Next, Call
  <2> QED
    BY <2>2, <2>3
<1> QED
  BY <1>1, <1>2

\* What the last gate passes was shown to a Reviewer that answered, file by file
\* and at the content that passes, in that gate or, where the final diff leaves a
\* file out, in a phase before (finalDiffReducer.js:3-12); only what was edited
\* behind a review is excepted.
THEOREM PassIsReviewed == Spec => []PassCoversEveryChange
<1>1. Init => Coverage
  BY DEF Init, Coverage, ChunksRead, BoundaryRead, LastBoundary, NewLoop, NoCheckpoint
<1>2. Lifecycle /\ Convergence /\ Faithful /\ Coverage /\ [Next]_vars => Coverage'
  BY CoverageStep
<1>3. Faithful /\ Coverage => PassCoversEveryChange
  <2> SUFFICES ASSUME Faithful, Coverage, pc = "complete",
                      NEW f \in Changed(call.base, call.code) \ strayed
               PROVE  << f, call.code[f] >> \in covered
    BY DEF PassCoversEveryChange
  <2>1. ~IsFailed(call.review)
    BY DEF Faithful, IsFailed, Unusable
  <2>2. f \in File /\ ~Unread(f)
    BY <2>1 DEF Coverage, Changed
  <2> QED
    BY <2>2 DEF Unread, Read
<1>4. Init => Faithful
  BY DEF Init, Faithful
<1>5. Lifecycle /\ Faithful /\ [Next]_vars => Faithful'
  BY FaithfulStep
<1> QED
  BY <1>1, <1>2, <1>3, <1>4, <1>5, ConvergenceHolds, PTL DEF Spec

=============================================================================
