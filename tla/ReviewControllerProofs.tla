----------------------- MODULE ReviewControllerProofs -----------------------
(***************************************************************************)
(* The life cycle of a review loop, proved for any number of files,        *)
(* phases, rounds, escalations and reopens, any review budget and any      *)
(* trouble on the way.                                                     *)
(*                                                                         *)
(* Loop records are only ever built by EXCEPT from the one of begin: what  *)
(* the proofs need of their type is that they have the fields they read.   *)
(***************************************************************************)
EXTENDS ReviewController, SequenceTheorems, TLAPS

Fields == {"st", "idx", "done", "exhausted", "why", "reopens", "ckpt", "recs"}

\* m has those fields, and is in the phase that the loop on disk is in.
OnPhase(m) ==
  Fields \subseteq DOMAIN m /\ m.idx = disk.idx /\ m.done = disk.done
Phase == [files : SUBSET File, boundary : Tree \cup {NoTree}]

\* The states a record on disk may be in: SUPERVISING is only passed through.
Resting == {"READY_FOR_WORK", "REVIEWING", "REWORK", "PASS", "HUMAN_REQUIRED"}

\* The inductive invariant: what a call works on is under review and in the
\* phase of the loop on disk, and that loop has not ended.
Lifecycle ==
  /\ OnPhase(disk) /\ disk.st \in Resting
  /\ disk.done \in Seq(Phase) /\ disk.idx = Len(disk.done)
  /\ pc # "idle" => OnPhase(mem) /\ mem.st = "REVIEWING" /\ ~Terminal(disk)

USE DEF vars, world, past

-----------------------------------------------------------------------------
(* The moves of the life cycle.                                            *)

\* A move changes the state and the reason, nothing else.
LEMMA ToKeeps ==
  ASSUME NEW m, OnPhase(m), NEW s
  PROVE  /\ OnPhase(To(m, s))
         /\ To(m, s).exhausted = m.exhausted /\ To(m, s).reopens = m.reopens
  BY DEF To, OnPhase, Fields

\* From REVIEWING a call may go wherever a call ends.
LEMMA FromReviewing ==
  ASSUME NEW m, OnPhase(m), m.st = "REVIEWING",
         NEW s \in {"READY_FOR_WORK", "REVIEWING", "PASS", "REWORK", "SUPERVISING", "HUMAN_REQUIRED"}
  PROVE  To(m, s).st = s
<1>1. Moves["REVIEWING"] = {"READY_FOR_WORK", "PASS", "REWORK", "SUPERVISING", "HUMAN_REQUIRED"}
  BY DEF Moves
<1> QED
  BY <1>1 DEF To, OnPhase, Fields

\* From SUPERVISING it ends in REWORK or with a human.
LEMMA FromSupervising ==
  ASSUME NEW m, OnPhase(m), m.st = "SUPERVISING", NEW s \in {"REWORK", "HUMAN_REQUIRED"}
  PROVE  To(m, s).st = s
<1>1. Moves["SUPERVISING"] = {"REWORK", "REVIEWING", "HUMAN_REQUIRED"}
  BY DEF Moves
<1> QED
  BY <1>1 DEF To, OnPhase, Fields

\* Every loop that has not ended, and one that stopped for a human, can be
\* reviewed.
LEMMA ToReviewing ==
  ASSUME NEW m, OnPhase(m), m.st \in Resting \ {"PASS"}
  PROVE  To(m, "REVIEWING").st = "REVIEWING"
<1>1. "REVIEWING" \in Moves["READY_FOR_WORK"] /\ "REVIEWING" \in Moves["REWORK"]
      /\ "REVIEWING" \in Moves["HUMAN_REQUIRED"]
  BY DEF Moves
<1> QED
  BY <1>1 DEF To, OnPhase, Fields, Resting

\* A stop is a move to HUMAN_REQUIRED with a reason.
LEMMA StopKeeps ==
  ASSUME NEW m, OnPhase(m), m.st \in {"REVIEWING", "SUPERVISING"}, NEW why
  PROVE  /\ OnPhase(Stop(m, why)) /\ Stop(m, why).st = "HUMAN_REQUIRED"
<1>1. OnPhase(To(m, "HUMAN_REQUIRED")) /\ To(m, "HUMAN_REQUIRED").st = "HUMAN_REQUIRED"
  BY ToKeeps, FromReviewing, FromSupervising
<1> QED
  BY <1>1 DEF Stop, OnPhase, Fields

\* An exhausted gate is a stop too.
LEMMA ExhaustKeeps ==
  ASSUME NEW m, OnPhase(m), m.st \in {"REVIEWING", "SUPERVISING"}
  PROVE  OnPhase(Exhaust(m)) /\ Exhaust(m).st = "HUMAN_REQUIRED"
<1>1. OnPhase(Stop(m, "converged")) /\ Stop(m, "converged").st = "HUMAN_REQUIRED"
  BY StopKeeps
<1> QED
  BY <1>1 DEF Exhaust, OnPhase, Fields

\* Renewing the counters of a gate moves nothing.
LEMMA FreshKeeps ==
  ASSUME NEW m, OnPhase(m)
  PROVE  /\ OnPhase(FreshGate(m)) /\ FreshGate(m).st = m.st
         /\ FreshGate(m).reopens = m.reopens
  BY DEF FreshGate, OnPhase, Fields

\* The loop on disk is where it was, with the phases that it has passed.
SamePhase == disk'.idx = disk.idx /\ disk'.done = disk.done

-----------------------------------------------------------------------------
(* Every action keeps the life cycle.                                      *)

\* A call that ends leaves a loop at rest.
LEMMA FinishRests ==
  ASSUME Lifecycle, NEW m, OnPhase(m), m.st \in Resting, NEW a, Finish(m, a)
  PROVE  Lifecycle' /\ SamePhase
  BY DEF Finish, Leave, Lifecycle, OnPhase, SamePhase

LEMMA LifeInit == Init => Lifecycle
<1>1. /\ Fields \subseteq DOMAIN NewLoop /\ NewLoop.st = "READY_FOR_WORK"
      /\ NewLoop.idx = 0 /\ NewLoop.done = << >>
  BY DEF NewLoop, Fields
<1>2. << >> \in Seq(Phase) /\ Len(<< >>) = 0
  OBVIOUS
<1> QED
  BY <1>1, <1>2 DEF Init, Lifecycle, Resting, OnPhase

\* What the Worker and others do to the tree is none of the loop's business.
LEMMA WorkerStep ==
  ASSUME Lifecycle, Worker
  PROVE  Lifecycle' /\ disk' = disk
<1>1. disk' = disk /\ mem' = mem /\ pc' = pc
  BY DEF Worker, Edit, StrayEdit, WriteArtifact
<1> QED
  BY <1>1 DEF Lifecycle, OnPhase

\* What a call makes of the record it loaded.
LEMMA ReviewingLoop ==
  ASSUME Lifecycle, ~Terminal(disk)
  PROVE  OnPhase(Reviewing) /\ Reviewing.st = "REVIEWING"
<1>1. disk.st \in Resting \ {"PASS"}
  BY DEF Lifecycle, Terminal, OnPhase
<1> QED
  BY <1>1, ToKeeps, ToReviewing DEF Reviewing, Lifecycle

LEMMA OpenStep ==
  ASSUME Lifecycle, Open
  PROVE  Lifecycle' /\ SamePhase
<1>1. CASE RefuseTerminal
  BY <1>1 DEF RefuseTerminal, Lifecycle, OnPhase, SamePhase
<1>2. CASE OpenUnattributed
  <2>1. ~Terminal(disk) /\ Finish(Stop(Reviewing, "other"), "HUMAN_REQUIRED")
    BY <1>2 DEF OpenUnattributed
  <2> QED
    BY <2>1, ReviewingLoop, StopKeeps, FinishRests DEF Resting
<1>3. ASSUME NEW base \in Tree, OpenUnchanged(base)
      PROVE  Lifecycle' /\ SamePhase
  BY <1>3, FinishRests DEF OpenUnchanged, Lifecycle
<1>4. ASSUME NEW base \in Tree, OpenInvalidEvidence(base)
      PROVE  Lifecycle' /\ SamePhase
  <2>1. ~Terminal(disk) /\ Finish(To(Reviewing, "REWORK"), "REWORK")
    BY <1>4 DEF OpenInvalidEvidence, Collects
  <2>2. OnPhase(To(Reviewing, "REWORK")) /\ To(Reviewing, "REWORK").st = "REWORK"
    BY <2>1, ReviewingLoop, ToKeeps, FromReviewing
  <2> QED
    BY <2>1, <2>2, FinishRests DEF Resting
<1>5. ASSUME NEW base \in Tree, OpenDrifted(base)
      PROVE  Lifecycle' /\ SamePhase
  <2> DEFINE m == CountRepair(Reviewing)
  <2>1. ~Terminal(disk) /\ (Finish(Exhaust(m), "HUMAN_REQUIRED") \/ Finish(To(m, "REWORK"), "REWORK"))
    BY <1>5 DEF OpenDrifted, Collects
  <2>2. OnPhase(m) /\ m.st = "REVIEWING"
    BY <2>1, ReviewingLoop DEF CountRepair, OnPhase, Fields
  <2>3. OnPhase(To(m, "REWORK")) /\ To(m, "REWORK").st = "REWORK"
    BY <2>2, ToKeeps, FromReviewing
  <2>4. OnPhase(Exhaust(m)) /\ Exhaust(m).st = "HUMAN_REQUIRED"
    BY <2>2, ExhaustKeeps
  <2> QED
    BY <2>1, <2>3, <2>4, FinishRests DEF Resting
<1>6. ASSUME NEW base \in Tree, NEW b \in Budget, NEW submits \in BOOLEAN,
             OpenGate(base, b, submits)
      PROVE  Lifecycle' /\ SamePhase
  <2>1. ~Terminal(disk) /\ mem' = Reviewing /\ disk' = disk
    BY <1>6 DEF OpenGate, Collects
  <2> QED
    BY <2>1, ReviewingLoop DEF Lifecycle, Terminal, OnPhase, SamePhase
<1> QED
  BY <1>1, <1>2, <1>3, <1>4, <1>5, <1>6 DEF Open

\* A call that goes on keeps its record under review, and the file as it is.
LEMMA GoesOn ==
  ASSUME Lifecycle, pc # "idle", disk' = disk, OnPhase(mem'), mem'.st = "REVIEWING"
  PROVE  Lifecycle' /\ SamePhase
  BY DEF Lifecycle, Terminal, OnPhase, SamePhase

\* A call that ends in REWORK, or stops for a human, with what it worked on.
LEMMA EndsInRework ==
  ASSUME Lifecycle, NEW m, OnPhase(m), m.st = "REVIEWING", Finish(To(m, "REWORK"), "REWORK")
  PROVE  Lifecycle' /\ SamePhase
  BY ToKeeps, FromReviewing, FinishRests DEF Resting

LEMMA EndsWithHuman ==
  ASSUME Lifecycle, NEW m, OnPhase(m), m.st = "REVIEWING",
         \/ Finish(Exhaust(m), "HUMAN_REQUIRED")
         \/ \E why : Finish(Stop(m, why), "HUMAN_REQUIRED")
  PROVE  Lifecycle' /\ SamePhase
<1>1. CASE Finish(Exhaust(m), "HUMAN_REQUIRED")
  BY <1>1, ExhaustKeeps, FinishRests DEF Resting
<1>2. ASSUME NEW why, Finish(Stop(m, why), "HUMAN_REQUIRED")
      PROVE  Lifecycle' /\ SamePhase
  BY <1>2, StopKeeps, FinishRests DEF Resting
<1> QED
  BY <1>1, <1>2

\* What stays under review whatever else of a record is set.
LEMMA StillReviewing ==
  ASSUME Lifecycle, pc # "idle"
  PROVE  /\ OnPhase(mem) /\ mem.st = "REVIEWING"
         /\ OnPhase(WithoutProof(mem)) /\ WithoutProof(mem).st = "REVIEWING"
         /\ OnPhase(CountRepair(mem)) /\ CountRepair(mem).st = "REVIEWING"
         /\ OnPhase(Staged) /\ Staged.st = "REVIEWING"
         /\ OnPhase(Reviewed) /\ Reviewed.st = "REVIEWING"
<1>1. OnPhase(mem) /\ mem.st = "REVIEWING"
  BY DEF Lifecycle
<1> QED
  BY <1>1 DEF WithoutProof, CountRepair, Staged, Reviewed, OnPhase, Fields

LEMMA GateStep ==
  ASSUME Lifecycle, Gate
  PROVE  Lifecycle' /\ SamePhase
<1>1. CASE RecollectSame \/ \E run \in GateRun :
             RunGate(run) \/ \E f \in File : \E v \in Version[f] : RunMutatingGate(run, f, v)
  <2>1. pc # "idle" /\ disk' = disk /\ mem' = mem
    BY <1>1 DEF RecollectSame, RunGate, RunMutatingGate
  <2> QED
    BY <2>1, StillReviewing, GoesOn
<1>2. CASE RecollectChanged
  <2> DEFINE m == WithoutProof(mem)
  <2>1. pc # "idle" /\ OnPhase(m) /\ m.st = "REVIEWING" /\ m.st \in Resting
    BY <1>2, StillReviewing DEF RecollectChanged, Resting
  <2>2. \/ Finish(m, "NO_PROGRESS")
        \/ Finish(Stop(m, "other"), "HUMAN_REQUIRED")
        \/ disk' = disk /\ mem' = m
    BY <1>2 DEF RecollectChanged
  <2> QED
    BY <2>1, <2>2, FinishRests, EndsWithHuman, GoesOn
<1>3. CASE RecollectFails
  <2>1. pc # "idle" /\ Finish(Stop(mem, "other"), "HUMAN_REQUIRED")
    BY <1>3 DEF RecollectFails
  <2> QED
    BY <2>1, StillReviewing, EndsWithHuman
<1> QED
  BY <1>1, <1>2, <1>3 DEF Gate

LEMMA JudgeStep ==
  ASSUME Lifecycle, Judge
  PROVE  Lifecycle' /\ SamePhase
<1>1. CASE CancelGate
  <2>1. pc # "idle" /\ Finish(Stop(mem, "other"), "HUMAN_REQUIRED")
    BY <1>1 DEF CancelGate
  <2> QED
    BY <2>1, StillReviewing, EndsWithHuman
<1>2. CASE GateFailed
  <2> DEFINE m == CountRepair(mem)
             r == [To(m, "REWORK") EXCEPT !.last = GatePrint]
  <2>1. pc # "idle" /\ OnPhase(m) /\ m.st = "REVIEWING" /\ OnPhase(mem) /\ mem.st \in Resting
    BY <1>2, StillReviewing DEF GateFailed, Resting
  <2>2. Finish(mem, "NO_PROGRESS") \/ Finish(Exhaust(m), "HUMAN_REQUIRED") \/ Finish(r, "REWORK")
    BY <1>2 DEF GateFailed
  <2>3. OnPhase(To(m, "REWORK")) /\ To(m, "REWORK").st = "REWORK"
    BY <2>1, ToKeeps, FromReviewing
  <2>4. OnPhase(r) /\ r.st \in Resting
    BY <2>3 DEF OnPhase, Fields, Resting
  <2> QED
    BY <2>1, <2>2, <2>4, FinishRests, EndsWithHuman
<1>3. CASE RefuseStaleProof \/ RefuseEvidence
  <2>1. pc # "idle" /\ (Finish(To(mem, "REWORK"), "REWORK") \/ Finish(To(Staged, "REWORK"), "REWORK"))
    BY <1>3 DEF RefuseStaleProof, RefuseEvidence, GatePassed
  <2> QED
    BY <2>1, StillReviewing, EndsInRework
<1>4. CASE RefuseRepeat
  <2>1. pc # "idle" /\ Finish(Staged, "NO_PROGRESS")
    BY <1>4 DEF RefuseRepeat, Accepted, GatePassed
  <2> QED
    BY <2>1, StillReviewing, FinishRests DEF Resting
<1>5. CASE StartReview
  <2>1. pc # "idle" /\ disk' = disk
    BY <1>5 DEF StartReview, Accepted, GatePassed
  <2>2. \/ mem' = Staged
        \/ \E print, plan : mem' = Checkpointed(Counted(print), print, plan)
    BY <1>5 DEF StartReview
  <2>3. ASSUME NEW print
        PROVE  OnPhase(Counted(print)) /\ Counted(print).st = "REVIEWING"
    BY <2>1, StillReviewing DEF Counted, OnPhase, Fields
  <2>4. ASSUME NEW print, NEW plan
        PROVE  LET m == Checkpointed(Counted(print), print, plan)
               IN OnPhase(m) /\ m.st = "REVIEWING"
    BY <2>3 DEF Checkpointed, OnPhase, Fields
  <2>5. OnPhase(mem') /\ mem'.st = "REVIEWING"
    BY <2>1, <2>2, <2>4, StillReviewing
  <2> QED
    BY <2>1, <2>5, GoesOn
<1> QED
  BY <1>1, <1>2, <1>3, <1>4, <1>5 DEF Judge

\* What was in a sequence stays in front of what is appended.
LEMMA AppendKeeps ==
  ASSUME NEW S, NEW s \in Seq(S), NEW e \in S
  PROVE  /\ Append(s, e) \in Seq(S) /\ Len(Append(s, e)) = Len(s) + 1
         /\ Append(s, e)[Len(s) + 1] = e
         /\ SubSeq(Append(s, e), 1, Len(s)) = s
<1> DEFINE t == Append(s, e)
           front == SubSeq(t, 1, Len(s))
<1>1. Len(s) \in Nat /\ \A i \in 1 .. Len(s) : s[i] \in S
  BY LenProperties
<1>2. t \in Seq(S) /\ Len(t) = Len(s) + 1 /\ t[Len(s) + 1] = e /\ \A i \in 1 .. Len(s) : t[i] = s[i]
  BY AppendProperties
<1>3. \A i \in 1 .. Len(s) : t[i] \in S
  BY <1>1, <1>2
<1> HIDE DEF t
<1>4. /\ front \in Seq(S) /\ Len(front) = Len(s)
      /\ \A i \in 1 .. Len(s) - 1 + 1 : front[i] = t[1 + i - 1]
  BY <1>1, <1>3, SubSeqProperties
<1>5. \A i \in 1 .. Len(s) : front[i] = s[i]
  BY <1>1, <1>2, <1>4
<1>6. front = s
  BY <1>4, <1>5, SeqEqual
<1> QED
  BY <1>2, <1>6 DEF t

\* The phase that passed is appended to those before it.
LEMMA CompletePhaseStep ==
  ASSUME Lifecycle, NEW boundary \in Tree \cup {NoTree}, CompletePhase(boundary)
  PROVE  /\ Lifecycle'
         /\ disk'.idx # disk.idx =>
              /\ pc = "complete" /\ disk'.idx = disk.idx + 1
              /\ SubSeq(disk'.done, 1, disk.idx) = disk.done
              /\ disk'.done[disk'.idx].files = Changed(call.base, call.code)
<1> DEFINE entry == [files |-> Changed(call.base, call.code), boundary |-> boundary]
           fresh == FreshGate(To(mem, "READY_FOR_WORK"))
           m == [fresh EXCEPT !.done = Append(@, entry), !.idx = @ + 1, !.last = NoPrint]
<1>1. pc = "complete" /\ Finish(m, "PHASE_PASS")
  BY DEF CompletePhase
<1>2. OnPhase(fresh) /\ fresh.st = "READY_FOR_WORK"
  <2>1. OnPhase(To(mem, "READY_FOR_WORK")) /\ To(mem, "READY_FOR_WORK").st = "READY_FOR_WORK"
    BY <1>1, StillReviewing, ToKeeps, FromReviewing
  <2> QED
    BY <2>1, FreshKeeps
<1>3. /\ Fields \subseteq DOMAIN m /\ m.st = "READY_FOR_WORK"
      /\ m.idx = disk.idx + 1 /\ m.done = Append(disk.done, entry)
  BY <1>2 DEF OnPhase, Fields
<1>4. entry \in Phase
  BY DEF Phase, Changed
<1> HIDE DEF m
<1>5. /\ m.done \in Seq(Phase) /\ m.idx = Len(m.done)
      /\ m.done[m.idx].files = Changed(call.base, call.code)
      /\ SubSeq(m.done, 1, disk.idx) = disk.done
  <2>1. disk.done \in Seq(Phase) /\ disk.idx = Len(disk.done)
    BY DEF Lifecycle
  <2>2. entry.files = Changed(call.base, call.code)
    OBVIOUS
  <2> HIDE DEF entry
  <2>3. /\ Append(disk.done, entry) \in Seq(Phase)
        /\ Len(Append(disk.done, entry)) = disk.idx + 1
        /\ Append(disk.done, entry)[disk.idx + 1] = entry
        /\ SubSeq(Append(disk.done, entry), 1, disk.idx) = disk.done
    BY <1>4, <2>1, AppendKeeps
  <2> QED
    BY <1>3, <2>2, <2>3
<1>6. disk' \in {disk, m} /\ pc' = "idle"
  BY <1>1 DEF Finish, Leave
<1>7. CASE disk' = disk
  BY <1>6, <1>7 DEF Lifecycle, OnPhase
<1>8. CASE disk' = m
  <2>1. Lifecycle'
    BY <1>3, <1>5, <1>6, <1>8 DEF Lifecycle, OnPhase, Resting
  <2> QED
    BY <1>1, <1>3, <1>5, <1>8, <2>1
<1> QED
  BY <1>6, <1>7, <1>8

LEMMA ReviewStep ==
  ASSUME Lifecycle, Review, ~(\E boundary \in Tree \cup {NoTree} : CompletePhase(boundary))
  PROVE  Lifecycle' /\ SamePhase
<1>1. CASE CancelReview \/ RefuseChunk \/ Aggregate
  <2>1. pc # "idle" /\ disk' = disk /\ mem' = mem
    BY <1>1 DEF CancelReview, RefuseChunk, Aggregate, MoreChunks, Refused, Fails
  <2> QED
    BY <2>1, StillReviewing, GoesOn
<1>2. ASSUME NEW result, PayChunk(result)
      PROVE  Lifecycle' /\ SamePhase
  <2>1. pc # "idle" /\ disk' = disk /\ mem' = [mem EXCEPT !.ckpt.got = Append(@, result)]
    BY <1>2 DEF PayChunk, MoreChunks
  <2>2. OnPhase(mem') /\ mem'.st = "REVIEWING"
    BY <2>1, StillReviewing DEF OnPhase, Fields
  <2> QED
    BY <2>1, <2>2, GoesOn
<1>3. CASE SaveChunk
  <2>1. pc # "idle" /\ mem' = mem /\ disk' \in {disk, mem}
    BY <1>3 DEF SaveChunk
  <2> QED
    BY <2>1, StillReviewing DEF Lifecycle, OnPhase, Resting, Terminal, SamePhase
<1>4. CASE Denied
  <2> DEFINE m == Stop(mem, call.why)
  <2>1. pc # "idle" /\ disk' \in {disk, m} /\ pc' = "idle"
    BY <1>4 DEF Denied, FinishDenied, Leave
  <2>2. OnPhase(m) /\ m.st = "HUMAN_REQUIRED"
    BY <2>1, StillReviewing, StopKeeps
  <2> QED
    BY <2>1, <2>2 DEF Lifecycle, OnPhase, Resting, SamePhase
<1>5. CASE RefuseArtifact
  <2> DEFINE m == [To(mem, "REWORK") EXCEPT !.ckpt = NoCheckpoint, !.last = NoPrint]
  <2>1. pc # "idle" /\ Finish(m, "REWORK")
    BY <1>5 DEF RefuseArtifact
  <2>2. OnPhase(To(mem, "REWORK")) /\ To(mem, "REWORK").st = "REWORK"
    BY <2>1, StillReviewing, ToKeeps, FromReviewing
  <2>3. OnPhase(m) /\ m.st \in Resting
    BY <2>2 DEF OnPhase, Fields, Resting
  <2> QED
    BY <2>1, <2>3, FinishRests
<1>6. CASE RefuseFailed
  <2>1. pc # "idle" /\ Finish(Stop(Reviewed, "other"), "HUMAN_REQUIRED")
    BY <1>6 DEF RefuseFailed, Verified
  <2> QED
    BY <2>1, StillReviewing, EndsWithHuman
<1>7. CASE Decide
  <2> DEFINE m == Recorded(Reviewed, call.review)
  <2>1. pc # "idle"
    BY <1>7 DEF Decide, Verified
  <2>2. OnPhase(m) /\ m.st = "REVIEWING"
    BY <2>1, StillReviewing DEF Recorded, OnPhase, Fields
  <2>3. \/ disk' = disk /\ mem' = m
        \/ Finish(Exhaust(m), "HUMAN_REQUIRED")
        \/ Finish(To(m, "REWORK"), "REWORK")
    BY <1>7 DEF Decide
  <2> QED
    BY <2>1, <2>2, <2>3, GoesOn, EndsWithHuman, EndsInRework
<1>8. CASE PassLoop
  <2>1. pc # "idle" /\ Finish(To(mem, "PASS"), "PASS")
    BY <1>8 DEF PassLoop
  <2>2. OnPhase(To(mem, "PASS")) /\ To(mem, "PASS").st = "PASS"
    BY <2>1, StillReviewing, ToKeeps, FromReviewing
  <2> QED
    BY <2>1, <2>2, FinishRests DEF Resting
<1> QED
  BY <1>1, <1>2, <1>3, <1>4, <1>5, <1>6, <1>7, <1>8 DEF Review

\* A ruling passes through SUPERVISING.
LEMMA Supervised ==
  ASSUME NEW m, OnPhase(m), m.st = "REVIEWING", NEW ruling
  PROVE  /\ OnPhase(To(m, "SUPERVISING")) /\ To(m, "SUPERVISING").st = "SUPERVISING"
         /\ OnPhase(NewEpoch(m, ruling)) /\ NewEpoch(m, ruling).st = "SUPERVISING"
<1>1. OnPhase(To(m, "SUPERVISING")) /\ To(m, "SUPERVISING").st = "SUPERVISING"
  BY ToKeeps, FromReviewing
<1> QED
  BY <1>1 DEF NewEpoch, OnPhase, Fields

LEMMA SuperviseStep ==
  ASSUME Lifecycle, Supervise
  PROVE  Lifecycle' /\ SamePhase
<1>1. ASSUME SupervisorOut \/ RefuseSupervisor \/ \E ruling : PaySupervisor(ruling)
      PROVE  Lifecycle' /\ SamePhase
  <2>1. pc # "idle" /\ disk' = disk /\ (mem' = mem \/ mem' = [mem EXCEPT !.setbacks = @ + 1])
    BY <1>1 DEF SupervisorOut, RefuseSupervisor, PaySupervisor
  <2>2. OnPhase(mem') /\ mem'.st = "REVIEWING"
    BY <2>1, StillReviewing DEF OnPhase, Fields
  <2> QED
    BY <2>1, <2>2, GoesOn
<1>2. CASE ApplyRuling
  <2> DEFINE ruling == call.sup
             supervised == To(mem, "SUPERVISING")
             out == [mem EXCEPT !.setbacks = @ + 1]
             asked == [supervised EXCEPT !.esc = @ + 1]
             epoch == NewEpoch(mem, ruling)
  <2>1. pc # "idle"
    BY <1>2 DEF ApplyRuling
  <2>2. \/ Finish(To(out, "REWORK"), "REWORK")
        \/ Finish(Exhaust(asked), "HUMAN_REQUIRED")
        \/ Finish(Exhaust(supervised), "HUMAN_REQUIRED")
        \/ Finish(To(epoch, "REWORK"), "REWORK")
    BY <1>2 DEF ApplyRuling
  <2>3. OnPhase(out) /\ out.st = "REVIEWING"
    BY <2>1, StillReviewing DEF OnPhase, Fields
  <2>4. /\ OnPhase(supervised) /\ supervised.st = "SUPERVISING"
        /\ OnPhase(epoch) /\ epoch.st = "SUPERVISING"
    BY <2>1, StillReviewing, Supervised
  <2>5. OnPhase(asked) /\ asked.st = "SUPERVISING"
    BY <2>4 DEF OnPhase, Fields
  <2>6. OnPhase(To(epoch, "REWORK")) /\ To(epoch, "REWORK").st = "REWORK"
    BY <2>4, ToKeeps, FromSupervising
  <2>7. /\ OnPhase(Exhaust(asked)) /\ Exhaust(asked).st = "HUMAN_REQUIRED"
        /\ OnPhase(Exhaust(supervised)) /\ Exhaust(supervised).st = "HUMAN_REQUIRED"
    BY <2>4, <2>5, ExhaustKeeps
  <2> QED
    BY <2>2, <2>3, <2>6, <2>7, EndsInRework, FinishRests DEF Resting
<1> QED
  BY <1>1, <1>2 DEF Supervise

\* Humans move a loop that stopped, by two moves of the life cycle.
LEMMA Reopened ==
  ASSUME Lifecycle, disk.st = "HUMAN_REQUIRED"
  PROVE  LET m == To(To(disk, "REVIEWING"), "REWORK") IN OnPhase(m) /\ m.st = "REWORK"
         /\ m.reopens = disk.reopens
<1>1. LET m == To(disk, "REVIEWING") IN OnPhase(m) /\ m.st = "REVIEWING" /\ m.reopens = disk.reopens
  BY ToKeeps, ToReviewing DEF Lifecycle, Resting
<1> QED
  BY <1>1, ToKeeps, FromReviewing

LEMMA HumanStep ==
  ASSUME Lifecycle, Human
  PROVE  Lifecycle' /\ SamePhase
<1>1. CASE ReopenGate
  <2> DEFINE m == FreshGate(To(To(disk, "REVIEWING"), "REWORK"))
             r == [m EXCEPT !.exhausted = FALSE, !.reopens = @ + 1]
  <2>1. pc' = "idle" /\ disk' = r /\ disk.st = "HUMAN_REQUIRED"
    BY <1>1 DEF ReopenGate
  <2>2. OnPhase(m) /\ m.st = "REWORK"
    BY <2>1, Reopened, FreshKeeps
  <2>3. OnPhase(r) /\ r.st = "REWORK"
    BY <2>2 DEF OnPhase, Fields
  <2> QED
    BY <2>1, <2>3 DEF Lifecycle, OnPhase, Resting, SamePhase
<1>2. CASE OverrideBudget
  <2> DEFINE m == To(To(disk, "REVIEWING"), "REWORK")
  <2>1. pc' = "idle" /\ (disk' = disk \/ (disk' = m /\ disk.st = "HUMAN_REQUIRED"))
    BY <1>2 DEF OverrideBudget
  <2> QED
    BY <2>1, Reopened DEF Lifecycle, OnPhase, Resting, SamePhase
<1> QED
  BY <1>1, <1>2 DEF Human

\* Every step keeps the life cycle, and only CompletePhase moves to another phase.
LEMMA LifeStep ==
  ASSUME Lifecycle, [Next]_vars
  PROVE  /\ Lifecycle'
         /\ SamePhase \/ \E boundary \in Tree \cup {NoTree} : CompletePhase(boundary)
<1>1. CASE Worker
  BY <1>1, WorkerStep DEF SamePhase
<1>2. CASE Open
  BY <1>2, OpenStep
<1>3. CASE Gate \/ Judge
  BY <1>3, GateStep, JudgeStep
<1>4. CASE Review
  BY <1>4, ReviewStep, CompletePhaseStep
<1>5. CASE Supervise
  BY <1>5, SuperviseStep
<1>6. CASE Vanish
  BY <1>6 DEF Vanish, Leave, Lifecycle, OnPhase, SamePhase
<1>7. CASE Human
  BY <1>7, HumanStep
<1>8. CASE UNCHANGED vars
  BY <1>8 DEF Lifecycle, OnPhase, Terminal, SamePhase
<1> QED
  BY <1>1, <1>2, <1>3, <1>4, <1>5, <1>6, <1>7, <1>8 DEF Next, Call

LEMMA LifecycleHolds == Spec => []Lifecycle
<1>1. Lifecycle /\ [Next]_vars => Lifecycle'
  BY LifeStep
<1> QED
  BY <1>1, LifeInit, PTL DEF Spec

-----------------------------------------------------------------------------
(* The theorems.                                                           *)

\* recordTransition never throws (state.js:122): from whatever state a call, a
\* reopen or an override starts, it asks only for moves of the life cycle.
THEOREM LifeCycleIsLegal == Spec => []NoIllegalTransition
<1>1. Lifecycle => NoIllegalTransition
  BY DEF Lifecycle, NoIllegalTransition, Loops, Resting
<1> QED
  BY <1>1, LifecycleHolds, PTL

\* What has ended stays ended, until a human reopens it and that MaxReopens
\* times (gateReopen.js:23-33): no call has an ended loop in hand, and the
\* ceiling override leaves exhausted gates alone (budgetOverride.js:131-136).
THEOREM EndedStaysEnded == Spec => OnlyHumansReopen
<1> DEFINE Reopening == Terminal(disk) /\ disk' # disk =>
             /\ disk.st = "HUMAN_REQUIRED" /\ disk.reopens < MaxReopens
             /\ disk'.reopens = disk.reopens + 1 /\ limits' = limits
<1>1. Lifecycle /\ [Next]_vars => [Reopening]_vars
  <2> SUFFICES ASSUME Lifecycle, [Next]_vars, Terminal(disk), disk' # disk
               PROVE  /\ disk.st = "HUMAN_REQUIRED" /\ disk.reopens < MaxReopens
                      /\ disk'.reopens = disk.reopens + 1 /\ limits' = limits
    OBVIOUS
  <2>1. pc = "idle"
    BY DEF Lifecycle
  <2>2. ~Worker /\ ~Vanish /\ ~UNCHANGED vars
    BY <2>1, WorkerStep DEF Vanish
  <2>3. ~Open
    BY DEF Open, RefuseTerminal, OpenUnattributed, OpenUnchanged, OpenInvalidEvidence,
       OpenDrifted, OpenGate, Collects
  <2>4. ~Gate /\ ~Judge
    BY <2>1 DEF Gate, RunGate, RunMutatingGate, RecollectSame, RecollectChanged, RecollectFails,
       Judge, CancelGate, GateFailed, RefuseStaleProof, RefuseEvidence, RefuseRepeat, StartReview,
       Accepted, GatePassed
  <2>5. ~Review
    BY <2>1 DEF Review, PayChunk, CancelReview, RefuseChunk, SaveChunk, Aggregate, Denied,
       MoreChunks, RefuseArtifact, RefuseFailed, Decide, Verified, PassLoop, CompletePhase
  <2>6. ~Supervise
    BY <2>1 DEF Supervise, PaySupervisor, SupervisorOut, RefuseSupervisor, ApplyRuling
  <2>7. CASE ReopenGate
    <3> DEFINE m == FreshGate(To(To(disk, "REVIEWING"), "REWORK"))
    <3>1. disk.st = "HUMAN_REQUIRED" /\ disk.reopens < MaxReopens /\ limits' = limits
          /\ disk' = [m EXCEPT !.exhausted = FALSE, !.reopens = @ + 1]
      BY <2>7 DEF ReopenGate
    <3>2. OnPhase(m) /\ m.reopens = disk.reopens
      BY <3>1, Reopened, FreshKeeps
    <3> QED
      BY <3>1, <3>2 DEF OnPhase, Fields
  <2>8. CASE OverrideBudget
    BY <2>8 DEF OverrideBudget, Terminal
  <2> QED
    BY <2>2, <2>3, <2>4, <2>5, <2>6, <2>7, <2>8 DEF Next, Call, Human
<1> QED
  BY <1>1, LifecycleHolds, PTL DEF Spec, OnlyHumansReopen

\* The phases that passed are a sequence that only grows, by the phase just
\* reviewed (controller.js:330-334).
THEOREM PhasesAreKept == Spec => PhasesOnlyAdvance
<1> DEFINE Advance == disk'.idx # disk.idx =>
             /\ pc = "complete" /\ disk'.idx = disk.idx + 1
             /\ SubSeq(disk'.done, 1, disk.idx) = disk.done
             /\ disk'.done[disk'.idx].files = Changed(call.base, call.code)
<1>1. Lifecycle /\ [Next]_vars => [Advance]_vars
  BY LifeStep, CompletePhaseStep DEF SamePhase
<1> QED
  BY <1>1, LifecycleHolds, PTL DEF Spec, PhasesOnlyAdvance

-----------------------------------------------------------------------------
(* What passes is one state.                                               *)

\* Once the evidence is accepted, and until the call ends.
UnderReview == {"chunks", "saveChunk", "verify", "complete", "supervise", "ruling", "denied"}
Collected == {"code", "tested", "touched", "gate", "proof", "review"}

TestedAsCollected == call.tested = call.code \/ call.touched
ProofInForce == mem.idx \in Proven => mem.recs[mem.idx] = call.code /\ call.proof # NoProof

\* The inductive invariant: from the collection on, the tree is what was
\* collected unless somebody touched it; from the Gate on it is what the Gate
\* ran on; from StartReview on the proof in force is of that very tree.
Faithful ==
  pc # "idle" =>
    /\ Collected \subseteq DOMAIN call /\ call.touched \in BOOLEAN
    /\ pc = "gate" => tree = call.code \/ call.touched
    /\ pc = "recollect" => tree # call.code \/ TestedAsCollected
    /\ pc = "judge" => CallVerdict = "FAIL" \/ TestedAsCollected
    /\ pc \in UnderReview => CallVerdict # "FAIL" /\ TestedAsCollected /\ ProofInForce
    /\ pc = "complete" => call.review = {} /\ mem.ckpt = NoCheckpoint

LEMMA FaithfulWhenIdle ==
  ASSUME pc' = "idle"
  PROVE  Faithful'
  BY DEF Faithful

\* A step of a review that leaves alone what the Gate and the evidence said.
LEMMA ReviewGoesOn ==
  ASSUME Faithful, pc \in UnderReview, pc' \in UnderReview \ {"complete"},
         mem'.idx = mem.idx, mem'.recs = mem.recs,
         Collected \subseteq DOMAIN call', call'.code = call.code, call'.tested = call.tested,
         call'.touched = call.touched, call'.gate = call.gate, call'.proof = call.proof
  PROVE  Faithful'
  BY DEF Faithful, UnderReview, TestedAsCollected, ProofInForce, CallVerdict

LEMMA FaithfulWorker ==
  ASSUME Faithful, Worker
  PROVE  Faithful'
<1>1. ASSUME NEW f \in File, NEW v \in Version[f], Edit(f, v)
      PROVE  Faithful'
  BY <1>1 DEF Edit, Faithful
<1>2. ASSUME NEW f \in File, NEW v \in Version[f], StrayEdit(f, v)
      PROVE  Faithful'
  <2>1. pc # "idle" /\ pc' = pc /\ mem' = mem
    BY <1>2 DEF StrayEdit
  <2>2. CASE pc \in {"gate", "recollect"}
    <3>1. call' = [call EXCEPT !.touched = TRUE]
      BY <1>2, <2>2 DEF StrayEdit
    <3>2. Collected \subseteq DOMAIN call' /\ call'.touched = TRUE
      BY <2>1, <3>1 DEF Faithful, Collected
    <3> QED
      BY <2>1, <2>2, <3>2 DEF Faithful, UnderReview, TestedAsCollected
  <2>3. CASE pc \notin {"gate", "recollect"}
    <3>1. call' = call
      BY <1>2, <2>3 DEF StrayEdit
    <3> QED
      BY <2>1, <2>3, <3>1 DEF Faithful, TestedAsCollected, ProofInForce, CallVerdict
  <2> QED
    BY <2>2, <2>3
<1>3. ASSUME NEW a \in 0 .. MaxArtifact, WriteArtifact(a)
      PROVE  Faithful'
  BY <1>3 DEF WriteArtifact, Faithful, TestedAsCollected, ProofInForce, CallVerdict
<1> QED
  BY <1>1, <1>2, <1>3 DEF Worker

LEMMA FaithfulGate ==
  ASSUME Faithful, Gate
  PROVE  Faithful'
<1>1. ASSUME NEW run, RunGate(run)
      PROVE  Faithful'
  <2>1. /\ pc = "gate" /\ pc' = "recollect" /\ tree' = tree
        /\ call' = [call EXCEPT !.tested = tree, !.gate = run]
    BY <1>1 DEF RunGate
  <2>2. /\ Collected \subseteq DOMAIN call' /\ call'.tested = tree /\ call'.code = call.code
        /\ call'.touched = call.touched
    BY <2>1 DEF Faithful, Collected
  <2> QED
    BY <2>1, <2>2 DEF Faithful, TestedAsCollected, UnderReview
<1>2. ASSUME NEW run, NEW f \in File, NEW v \in Version[f], RunMutatingGate(run, f, v)
      PROVE  Faithful'
  <2>1. /\ pc = "gate" /\ pc' = "recollect"
        /\ call' = [call EXCEPT !.tested = tree, !.gate = run]
    BY <1>2 DEF RunMutatingGate
  <2>2. /\ Collected \subseteq DOMAIN call' /\ call'.tested = tree /\ call'.code = call.code
        /\ call'.touched = call.touched
    BY <2>1 DEF Faithful, Collected
  <2> QED
    BY <2>1, <2>2 DEF Faithful, TestedAsCollected, UnderReview
<1>3. CASE RecollectSame
  BY <1>3 DEF RecollectSame, Faithful, TestedAsCollected, UnderReview
<1>4. CASE RecollectChanged
  <2>1. CASE pc' = "idle"
    BY <2>1, FaithfulWhenIdle
  <2>2. CASE pc' # "idle"
    <3>1. /\ pc = "recollect" /\ tree' = tree
          /\ call' = [call EXCEPT !.code = tree, !.mutated = TRUE, !.runs = @ + 1]
          /\ pc' = "gate" \/ (pc' = "judge" /\ CallVerdict = "FAIL")
      BY <1>4, <2>2 DEF RecollectChanged, Finish, Leave
    <3>2. /\ Collected \subseteq DOMAIN call' /\ call'.code = tree /\ call'.gate = call.gate
          /\ call'.touched = call.touched
      BY <3>1 DEF Faithful, Collected
    <3> QED
      BY <3>1, <3>2 DEF Faithful, UnderReview, CallVerdict
  <2> QED
    BY <2>1, <2>2
<1>5. CASE RecollectFails
  BY <1>5, FaithfulWhenIdle DEF RecollectFails, Finish, Leave
<1> QED
  BY <1>1, <1>2, <1>3, <1>4, <1>5 DEF Gate

LEMMA FaithfulJudge ==
  ASSUME Lifecycle, Faithful, Judge
  PROVE  Faithful'
<1>1. CASE CancelGate \/ GateFailed \/ RefuseStaleProof \/ RefuseEvidence \/ RefuseRepeat
  BY <1>1, FaithfulWhenIdle DEF CancelGate, GateFailed, RefuseStaleProof, RefuseEvidence,
     RefuseRepeat, Finish, Leave
<1>2. CASE StartReview
  <2>1. /\ pc = "judge" /\ CallVerdict # "FAIL" /\ ~Missing /\ ~Unreadable
        /\ pc' \in {"verify", "chunks"}
    BY <1>2 DEF StartReview, Accepted, GatePassed
  <2>2. OnPhase(mem) /\ OnPhase(Staged)
    BY <2>1, StillReviewing
  <2>3. /\ Collected \subseteq DOMAIN call' /\ call'.code = call.code
        /\ call'.tested = call.tested /\ call'.touched = call.touched
        /\ call'.gate = call.gate /\ call'.proof = Proof
    <3>1. Collected \subseteq DOMAIN call
      BY <2>1 DEF Faithful
    <3>2. \E print, plan, review :
             \/ call' = [[call EXCEPT !.proof = Proof, !.print = print, !.plan = plan]
                           EXCEPT !.review = review]
             \/ call' = [call EXCEPT !.proof = Proof, !.print = print, !.plan = plan]
      BY <1>2 DEF StartReview
    <3> QED
      BY <3>1, <3>2 DEF Collected
  <2>4. mem'.idx = Staged.idx /\ mem'.recs = Staged.recs
    <3>1. \/ mem' = Staged
          \/ \E print, plan : mem' = Checkpointed(Counted(print), print, plan)
      BY <1>2 DEF StartReview
    <3>2. ASSUME NEW print
          PROVE  Counted(print).idx = Staged.idx /\ Counted(print).recs = Staged.recs
                 /\ Fields \subseteq DOMAIN Counted(print)
      BY <2>2 DEF Counted, OnPhase, Fields
    <3>3. ASSUME NEW print, NEW plan
          PROVE  LET m == Checkpointed(Counted(print), print, plan)
                 IN m.idx = Staged.idx /\ m.recs = Staged.recs
      BY <3>2 DEF Checkpointed, Fields
    <3> QED
      BY <3>1, <3>3
  <2>5. Staged.idx = mem.idx
    BY <2>2 DEF OnPhase
  <2>6. mem.idx \in Proven => Staged.recs[mem.idx] = call.code /\ Proof # NoProof
    BY <2>1 DEF Missing, Unreadable, Proof, NoProof
  <2> QED
    BY <2>1, <2>3, <2>4, <2>5, <2>6 DEF Faithful, UnderReview, TestedAsCollected, ProofInForce,
       CallVerdict
<1> QED
  BY <1>1, <1>2 DEF Judge

LEMMA FaithfulReview ==
  ASSUME Lifecycle, Faithful, Review
  PROVE  Faithful'
<1>1. CASE pc' = "idle"
  BY <1>1, FaithfulWhenIdle
<1>2. CASE CancelReview \/ RefuseChunk \/ SaveChunk \/ Aggregate
  <2>1. /\ pc \in UnderReview /\ pc' \in UnderReview \ {"complete"} /\ mem' = mem
        /\ \/ call' = call
           \/ \E x : call' = [call EXCEPT !.review = x]
           \/ \E x : call' = [call EXCEPT !.why = x]
    BY <1>2 DEF CancelReview, RefuseChunk, SaveChunk, Aggregate, MoreChunks, Refused, Fails, UnderReview
  <2>2. /\ Collected \subseteq DOMAIN call' /\ call'.code = call.code
        /\ call'.tested = call.tested /\ call'.touched = call.touched
        /\ call'.gate = call.gate /\ call'.proof = call.proof
    BY <2>1 DEF Faithful, Collected, UnderReview
  <2> QED
    BY <2>1, <2>2, ReviewGoesOn
<1>3. ASSUME NEW result, PayChunk(result)
      PROVE  Faithful'
  <2>1. /\ pc \in UnderReview /\ pc' \in UnderReview \ {"complete"} /\ call' = call
        /\ mem' = [mem EXCEPT !.ckpt.got = Append(@, result)] /\ pc # "idle"
    BY <1>3 DEF PayChunk, MoreChunks, UnderReview
  <2>2. mem'.idx = mem.idx /\ mem'.recs = mem.recs
    BY <2>1, StillReviewing DEF OnPhase, Fields
  <2>3. Collected \subseteq DOMAIN call'
    BY <2>1 DEF Faithful
  <2> QED
    BY <2>1, <2>2, <2>3, ReviewGoesOn
<1>4. CASE Decide /\ pc' # "idle"
  <2> DEFINE m == Recorded(Reviewed, call.review)
  <2>1. /\ pc = "verify" /\ mem' = m /\ call' = call
        /\ \/ pc' = "complete" /\ Verdict(Reviewed, call.review) = "PASS"
           \/ pc' = "supervise"
    BY <1>4 DEF Decide, Verified, Finish, Leave
  <2>2. m.idx = mem.idx /\ m.recs = mem.recs /\ m.ckpt = NoCheckpoint
    <3>1. /\ Fields \subseteq DOMAIN Reviewed /\ Reviewed.idx = mem.idx
          /\ Reviewed.recs = mem.recs /\ Reviewed.ckpt = NoCheckpoint
      BY <2>1, StillReviewing DEF Reviewed, OnPhase, Fields
    <3> QED
      BY <3>1 DEF Recorded, Fields
  <2>3. Verdict(Reviewed, call.review) = "PASS" => call.review = {}
    BY DEF Verdict
  <2> QED
    BY <2>1, <2>2, <2>3 DEF Faithful, UnderReview, TestedAsCollected, ProofInForce, CallVerdict
<1> QED
  BY <1>1, <1>2, <1>3, <1>4 DEF Review, Denied, FinishDenied, RefuseArtifact, RefuseFailed, PassLoop,
     CompletePhase, Finish, Leave

LEMMA FaithfulSupervise ==
  ASSUME Lifecycle, Faithful, Supervise
  PROVE  Faithful'
<1>1. ASSUME SupervisorOut \/ RefuseSupervisor \/ \E ruling : PaySupervisor(ruling)
      PROVE  Faithful'
  <2>1. /\ pc \in UnderReview /\ pc' \in UnderReview \ {"complete"} /\ pc # "idle"
        /\ mem' = mem \/ mem' = [mem EXCEPT !.setbacks = @ + 1]
        /\ \E x : call' = [call EXCEPT !.sup = x] \/ call' = [call EXCEPT !.why = x]
    BY <1>1 DEF SupervisorOut, RefuseSupervisor, PaySupervisor, UnderReview
  <2>2. mem'.idx = mem.idx /\ mem'.recs = mem.recs
    BY <2>1, StillReviewing DEF OnPhase, Fields
  <2>3. /\ Collected \subseteq DOMAIN call' /\ call'.code = call.code
        /\ call'.tested = call.tested /\ call'.touched = call.touched
        /\ call'.gate = call.gate /\ call'.proof = call.proof
    BY <2>1 DEF Faithful, Collected
  <2> QED
    BY <2>1, <2>2, <2>3, ReviewGoesOn
<1>2. CASE ApplyRuling
  BY <1>2, FaithfulWhenIdle DEF ApplyRuling, Finish, Leave
<1> QED
  BY <1>1, <1>2 DEF Supervise

LEMMA FaithfulStep ==
  ASSUME Lifecycle, Faithful, [Next]_vars
  PROVE  Faithful'
<1>1. CASE Worker \/ Gate
  BY <1>1, FaithfulWorker, FaithfulGate
<1>2. CASE Open
  <2>1. CASE pc' = "idle"
    BY <2>1, FaithfulWhenIdle
  <2>2. ASSUME NEW base \in Tree, NEW b \in Budget, NEW submits \in BOOLEAN,
               OpenGate(base, b, submits)
        PROVE  Faithful'
    <3>1. pc' = "gate" /\ tree' = tree /\ Collected \subseteq DOMAIN call' /\ call'.code = tree
          /\ call'.touched = FALSE
      BY <2>2 DEF OpenGate, Collected
    <3> QED
      BY <3>1 DEF Faithful, UnderReview
  <2> QED
    BY <1>2, <2>1, <2>2 DEF Open, RefuseTerminal, OpenUnattributed, OpenUnchanged,
       OpenInvalidEvidence, OpenDrifted, Finish, Leave
<1>3. CASE Judge \/ Review \/ Supervise
  BY <1>3, FaithfulJudge, FaithfulReview, FaithfulSupervise
<1>4. CASE Vanish \/ Human
  BY <1>4, FaithfulWhenIdle DEF Vanish, Leave, Human, ReopenGate, OverrideBudget
<1>5. CASE UNCHANGED vars
  BY <1>5 DEF Faithful, TestedAsCollected, ProofInForce, CallVerdict
<1> QED
  BY <1>1, <1>2, <1>3, <1>4, <1>5 DEF Next, Call

\* A Gate that does not fail fails only as it failed at begin.
LEMMA NoNewFailures ==
  ASSUME CallVerdict # "FAIL", NEW c \in Failing(call.gate)
  PROVE  call.gate[c].ids # {} /\ call.gate[c].ids \subseteq FailedBefore(BaselineGate, c)
<1> DEFINE before(d) == FailedBefore(BaselineGate, d)
<1>1. Comparable(BaselineGate, call.gate) /\ NewFailures(BaselineGate, call.gate) = {}
  BY DEF CallVerdict, GateVerdict
<1>2. call.gate[c].ids # {}
  BY <1>1 DEF Comparable, Reliable
<1>3. call.gate[c].ids \ before(c) = {}
  <2> HIDE DEF before
  <2> SUFFICES ASSUME NEW x \in call.gate[c].ids \ before(c)
               PROVE  FALSE
    OBVIOUS
  <2>1. x \in UNION {call.gate[d].ids \ before(d) : d \in Failing(call.gate)}
    OBVIOUS
  <2> QED
    BY <1>1, <2>1 DEF NewFailures, before
<1> QED
  BY <1>2, <1>3

\* What passes is one state (controller.js:777-899): the tree the Gate ran on is
\* the one collected for the Reviewer, unless it was touched behind the call, and
\* the proof in force is of that tree; no command fails in a way it did not at begin.
THEOREM PassIsOneState == Spec => []CertifiedAsOne
<1>1. Init => Faithful
  BY DEF Init, Faithful
<1>2. Faithful => CertifiedAsOne
  BY NoNewFailures DEF Faithful, CertifiedAsOne, UnderReview, TestedAsCollected, ProofInForce
<1>3. Lifecycle /\ Faithful /\ [Next]_vars => Faithful'
  BY FaithfulStep
<1> QED
  BY <1>1, <1>2, <1>3, LifecycleHolds, PTL DEF Spec
=============================================================================
