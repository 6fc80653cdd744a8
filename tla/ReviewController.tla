-------------------------- MODULE ReviewController --------------------------
(***************************************************************************)
(* The review controller of one loop (controller.js with reviewerRunner.js,*)
(* reviewPolicy.js, phaseState.js, state.js, gateReopen.js and             *)
(* budgetOverride.js).  A Worker edits a tree and calls reviewloop_review. *)
(* A call loads the durable loop record into memory, runs the Gate on the  *)
(* tree, binds evidence, pays for the chunks of one review, decides, and   *)
(* saves.  A phase that passes opens the next gate of the same loop; the   *)
(* last gate is the whole task's.                                          *)
(*                                                                         *)
(* Contents are abstract: a file has a version, a diff is the set of files *)
(* whose version differs from a baseline, a hash is the record of what it  *)
(* covers.  What a paid call does to the spend ledgers is SpendLedger's    *)
(* subject; here a call is answered, refused, or fails, and claims keeps   *)
(* the evidence it consumed.                                               *)
(***************************************************************************)
EXTENDS Integers, Sequences, FiniteSets, GatePolicy

CONSTANTS
  Version,         \* Version[f]: the contents file f may have, 0 at begin
  MaxArtifact,     \* the artifact is one of 1..MaxArtifact, or absent
  NPhases,         \* objective.phases.length
  MaxRounds,       \* objective.maxReviewRounds
  PostRounds,      \* POST_SUPERVISOR_REVIEW_ROUNDS
  MaxEscalations,  \* MAX_SUPERVISOR_ESCALATIONS
  MaxGateRepairs,  \* REVIEWLOOP_MAX_GATE_REPAIRS
  MaxStabilise,    \* MAX_GATE_STABILISE
  MaxReopens,      \* MAX_HUMAN_REOPENS
  Finding,         \* signatures of blocking findings
  Obligation,      \* finding -> the one frozen requirement it names, or itself
  Strategy,        \* guidance texts of the Supervisor
  Reconsiders,     \* those that recommend REVIEWER_RECONSIDER
  Proven,          \* gates with a required artifact evidence
  Budget,          \* review budgets [size, chunks]: files per chunk, chunks
  BaselineGate,    \* the Gate run at begin
  GateRun,         \* the Gate runs an instance explores
  Mishap,          \* kinds of trouble an instance explores
  MaxMishaps,      \* bound: how often something goes wrong
  MaxRound         \* bound: reviews of the whole loop

ASSUME ControllerAssumption ==
  /\ Version \in Seq(SUBSET Nat) /\ \A f \in DOMAIN Version : 0 \in Version[f]
  /\ MaxArtifact \in Nat /\ NPhases \in Nat
  /\ MaxRounds \in Nat \ {0} /\ PostRounds \in Nat \ {0} /\ MaxEscalations \in Nat
  /\ MaxGateRepairs \in Nat /\ MaxStabilise \in Nat /\ MaxReopens \in Nat
  /\ Obligation \in [Finding -> STRING]
  /\ Reconsiders \subseteq Strategy /\ Proven \subseteq 0..NPhases
  /\ Budget \subseteq [size : Nat \ {0}, chunks : Nat \ {0}]
  /\ MaxMishaps \in Nat /\ MaxRound \in Nat

File == DOMAIN Version
Tree == {t \in [File -> UNION {Version[f] : f \in File}] : \A f \in File : t[f] \in Version[f]}
Baseline == [f \in File |-> 0]     \* the tree at reviewloop_begin
NoTree == << >>

VARIABLES
  tree,      \* the Worker's tree
  art,       \* content of the artifact file named by evidence, 0 when absent
  disk,      \* the durable loop record (workflow.json, key reviewLoop)
  mem,       \* the copy the call under way works on
  call,      \* what the call under way has collected
  pc,        \* where the call stands
  answer,    \* what the last call told the Worker
  limits,    \* spend ceilings that are used up: "usage", "calls"
  claims,    \* evidence claims consumed by paid calls
  covered,   \* history: <<file, version>> shown to a Reviewer that answered
  strayed,   \* history: files edited while a review was running
  mishaps    \* history: how often something went wrong

vars == << tree, art, disk, mem, call, pc, answer, limits, claims, covered, strayed, mishaps >>
world == << tree, art >>
past == << covered, strayed >>

-----------------------------------------------------------------------------
(* The life cycle of a loop.                                               *)

Moves == [
  READY_FOR_WORK |-> {"REVIEWING"},
  REVIEWING      |-> {"READY_FOR_WORK", "PASS", "REWORK", "SUPERVISING", "HUMAN_REQUIRED"},
  REWORK         |-> {"REVIEWING"},
  SUPERVISING    |-> {"REWORK", "REVIEWING", "HUMAN_REQUIRED"},
  PASS           |-> {},
  HUMAN_REQUIRED |-> {"REVIEWING"},
  Illegal        |-> {} ]

\* recordTransition throws on a move the table does not have.
To(m, s) ==
  [m EXCEPT !.st = IF s = m.st \/ s \in Moves[m.st] THEN s ELSE "Illegal",
            !.why = IF s = "HUMAN_REQUIRED" THEN @ ELSE "none"]
Stop(m, why) == [To(m, "HUMAN_REQUIRED") EXCEPT !.why = why]
Exhaust(m) == [Stop(m, "converged") EXCEPT !.exhausted = TRUE]

NoPrint == << >>
NoCheckpoint == [print |-> NoPrint, plan |-> << >>, got |-> << >>,
                 round |-> 0, gateRound |-> 0, epoch |-> 0, epochRound |-> 0]
NoStrategy == "none"

NewLoop == [
  st |-> "READY_FOR_WORK", idx |-> 0, done |-> << >>,
  round |-> 0, gateRound |-> 0, epoch |-> 0, epochRound |-> 0, esc |-> 0, repairs |-> 0,
  exhausted |-> FALSE, why |-> "none", last |-> NoPrint, hist |-> << >>,
  pending |-> NoStrategy, strat |-> NoStrategy, ckpt |-> NoCheckpoint,
  recs |-> [s \in 0..NPhases |-> NoTree], reopens |-> 0,
  judged |-> 0, setbacks |-> 0 ]   \* history, of this gate: reviews decided on,
                                   \* Supervisor calls that brought no strategy

\* What every gate starts with, and what a human reopen restores.
FreshGate(m) ==
  [m EXCEPT !.gateRound = 0, !.repairs = 0, !.epoch = 0, !.epochRound = 0, !.esc = 0,
            !.hist = << >>, !.pending = NoStrategy, !.strat = NoStrategy, !.ckpt = NoCheckpoint,
            !.judged = 0, !.setbacks = 0]

Terminal(m) == m.st = "PASS" \/ (m.st = "HUMAN_REQUIRED" /\ m.exhausted)
FinalGate(m) == m.idx = NPhases

-----------------------------------------------------------------------------
(* Diffs, fingerprints, chunks.                                            *)

Changed(base, code) == {f \in File : base[f] # code[f]}

\* The boundary recorded by the phase before, if it recorded one.
PhaseBaseline(m) ==
  IF m.idx \in 1..(NPhases - 1) /\ m.done[m.idx].boundary # NoTree
  THEN m.done[m.idx].boundary ELSE Baseline

\* What a review is about: the delta, the Gate's outcome, the gate's scope,
\* the evidence and a Supervisor adjudication not yet considered.
RoundPrint(base, code, gate, scope, proof, pending) ==
  [base |-> base, code |-> code, gate |-> gate, scope |-> scope, proof |-> proof,
   pending |-> pending]

Rank(f, files) == Cardinality({g \in files : g < f})
ChunkCount(files, size) ==
  IF Cardinality(files) <= size THEN 1 ELSE (Cardinality(files) + size - 1) \div size
Oversized(files, b) == ChunkCount(files, b.size) > b.chunks
Chunks(files, b) ==
  [i \in 1..ChunkCount(files, b.size) |-> {f \in files : Rank(f, files) \div b.size = i - 1}]

\* reduceFinalDiff: of a final diff that no review can hold, keep what more or
\* fewer phases than one reviewed and what changed since the last boundary, then
\* the newest of the rest up to one chunk.  {} when nothing may be left out.
Reduced(m, files, post, b) ==
  LET phases(f) == {i \in 1..Len(m.done) : f \in m.done[i].files}
      must == {f \in files : Cardinality(phases(f)) # 1 \/ f \in post}
      newer(g, f) ==
        \E i \in phases(g), j \in phases(f) : j < i \/ (j = i /\ g < f)
      rest == files \ must
      fill == {f \in rest : Cardinality({g \in rest : newer(g, f)}) < b.size - Cardinality(must)}
      kept == must \cup fill
  IN IF kept = files \/ Oversized(kept, b) THEN {} ELSE kept

\* The files the Reviewer is shown: all that changed, or the reduced final diff.
Shown(m, base, code, now, b) ==
  LET files == Changed(base, code)
      boundary == IF m.done = << >> THEN NoTree ELSE m.done[Len(m.done)].boundary
      kept == IF FinalGate(m) /\ Oversized(files, b) /\ boundary # NoTree
              THEN Reduced(m, files, Changed(boundary, now), b) ELSE {}
  IN IF kept = {} THEN files ELSE kept

-----------------------------------------------------------------------------
(* How a call ends.                                                        *)

NoLoop == << >>
NoCall == << >>

Goes(kind) == kind \in Mishap /\ mishaps < MaxMishaps /\ mishaps' = mishaps + 1

\* A Reviewer's claim names its round: one of an earlier round is never
\* presented again.
LiveClaims(cs, m) == {c \in cs : c.role = "reviewer" => c.round >= m.round}

Leave(a) == pc' = "idle" /\ mem' = NoLoop /\ call' = NoCall /\ answer' = a

\* Mutant of Finish: a save that fails is answered as if it had not.
FinishUnchecked(m, a) ==
  /\ Leave(a)
  /\ \/ disk' = m /\ UNCHANGED mishaps
     \/ Goes("fault") /\ disk' \in {disk, m}
  /\ claims' = LiveClaims(claims, m)

\* The last save of a call, and the answer it stands for.  A save that fails
\* throws out of the call, and may have replaced the file all the same.
Finish(m, a) ==
  \/ /\ Leave(a)
     /\ disk' = m /\ claims' = LiveClaims(claims, m)
     /\ UNCHANGED mishaps
  \/ /\ Goes("fault") /\ Leave("error")
     /\ disk' \in {disk, m} /\ UNCHANGED claims

\* spendDenialResult: the answer is HUMAN_REQUIRED even when its save fails.
FinishDenied(m, why) ==
  LET stopped == Stop(m, why) IN
  \/ /\ Leave("HUMAN_REQUIRED")
     /\ disk' = stopped /\ claims' = LiveClaims(claims, stopped)
     /\ UNCHANGED mishaps
  \/ /\ Goes("fault") /\ Leave("DENIED_UNSAVED")
     /\ disk' \in {disk, stopped} /\ UNCHANGED claims

-----------------------------------------------------------------------------
(* The Worker, and others who touch the tree.                              *)

Edit(f, v) ==
  /\ pc = "idle" /\ ~Terminal(disk) /\ tree[f] # v
  /\ tree' = [tree EXCEPT ![f] = v]
  /\ UNCHANGED << art, disk, mem, call, pc, answer, limits, claims, past, mishaps >>

\* The tree changes while a call runs, by anyone the call does not keep out.
StrayEdit(f, v) ==
  /\ pc # "idle" /\ tree[f] # v
  /\ Goes("stray")
  /\ tree' = [tree EXCEPT ![f] = v]
  /\ IF pc \in {"gate", "recollect"}
     THEN call' = [call EXCEPT !.touched = TRUE] /\ UNCHANGED strayed
     ELSE strayed' = strayed \cup {f} /\ UNCHANGED call
  /\ UNCHANGED << art, disk, mem, pc, answer, limits, claims, covered >>

WriteArtifact(a) ==
  /\ a # art /\ Proven # {}
  /\ IF pc = "idle" THEN UNCHANGED mishaps /\ ~Terminal(disk) ELSE Goes("artifact")
  /\ art' = a
  /\ UNCHANGED << tree, disk, mem, call, pc, answer, limits, claims, past >>

-----------------------------------------------------------------------------
(* reviewloop_review: load, screen, collect the delta.                      *)

\* The loop has ended: the call only says so.
RefuseTerminal ==
  /\ pc = "idle" /\ Terminal(disk) /\ answer # "TERMINAL"
  /\ answer' = "TERMINAL"
  /\ UNCHANGED << world, disk, mem, call, pc, limits, claims, past, mishaps >>

\* The delta is taken against the last phase's boundary, or against the tree at
\* begin when that shows no change or cannot be attributed.
Collects(base) ==
  /\ pc = "idle" /\ ~Terminal(disk)
  /\ base \in {PhaseBaseline(disk), Baseline}
  /\ Changed(PhaseBaseline(disk), tree) = {} => base = Baseline

Reviewing == To(disk, "REVIEWING")

OpenUnchanged(base) ==
  /\ Collects(base) /\ Changed(base, tree) = {}
  /\ Finish(disk, "NO_PROGRESS")
  /\ UNCHANGED << world, limits, past >>

\* evidenceRework before the Gate: what was submitted is not evidence.
OpenInvalidEvidence(base) ==
  /\ Collects(base) /\ Changed(base, tree) # {}
  /\ Finish(To(Reviewing, "REWORK"), "REWORK")
  /\ UNCHANGED << world, limits, past >>

\* The Worker's changes cannot be told from what was there before.
OpenUnattributed ==
  /\ pc = "idle" /\ ~Terminal(disk) /\ tree # Baseline
  /\ Finish(Stop(Reviewing, "other"), "HUMAN_REQUIRED")
  /\ UNCHANGED << world, limits, past >>

\* Gate repairs are counted, and beyond the limit the gate is a human's.
CountRepair(m) == [m EXCEPT !.repairs = @ + 1]
RepairsSpent(m) == m.repairs > MaxGateRepairs

\* The verification manifest is not the frozen one any more.
OpenDrifted(base) ==
  /\ Collects(base) /\ Changed(base, tree) # {}
  /\ LET m == CountRepair(Reviewing) IN
       IF RepairsSpent(m) THEN Finish(Exhaust(m), "HUMAN_REQUIRED")
                          ELSE Finish(To(m, "REWORK"), "REWORK")
  /\ UNCHANGED << world, limits, past >>

OpenGate(base, b, submits) ==
  /\ Collects(base) /\ Changed(base, tree) # {}
  /\ submits => disk.idx \in Proven
  /\ pc' = "gate" /\ mem' = Reviewing /\ answer' = "none"
  /\ call' = [base |-> base, code |-> tree, budget |-> b, submits |-> submits,
              tested |-> NoTree, gate |-> << >>, runs |-> 0, mutated |-> FALSE,
              touched |-> FALSE, proof |-> 0, print |-> NoPrint,
              plan |-> << >>, review |-> {}, sup |-> NoStrategy, why |-> "none"]
  /\ UNCHANGED << world, disk, limits, claims, past, mishaps >>

-----------------------------------------------------------------------------
(* The Gate, and the tree it leaves behind.                                 *)

RunGate(run) ==
  /\ pc = "gate"
  /\ pc' = "recollect"
  /\ call' = [call EXCEPT !.tested = tree, !.gate = run]
  /\ UNCHANGED << world, disk, mem, answer, limits, claims, past, mishaps >>

\* The commands themselves may rewrite a file (formatter, codegen, snapshots),
\* every time they run.
RunMutatingGate(run, f, v) ==
  /\ pc = "gate" /\ tree[f] # v /\ "mutate" \in Mishap
  /\ pc' = "recollect" /\ tree' = [tree EXCEPT ![f] = v]
  /\ call' = [call EXCEPT !.tested = tree, !.gate = run]
  /\ UNCHANGED << art, disk, mem, answer, limits, claims, past, mishaps >>

\* The tree is as it was collected: this Gate run speaks of it.
RecollectSame ==
  /\ pc = "recollect" /\ tree = call.code
  /\ pc' = "judge"
  /\ UNCHANGED << world, disk, mem, call, answer, limits, claims, past, mishaps >>

CallVerdict == GateVerdict(BaselineGate, call.gate)

\* No proof of this gate survives a change of the code under review.
WithoutProof(m) == [m EXCEPT !.recs[m.idx] = NoTree]

\* The tree changed: adopt it, and run the Gate again unless it failed.
RecollectChanged ==
  /\ pc = "recollect" /\ tree # call.code
  /\ LET m == WithoutProof(mem)
         again == CallVerdict # "FAIL" IN
     IF Changed(call.base, tree) = {}
     THEN Finish(m, "NO_PROGRESS")
     ELSE IF again /\ call.runs = MaxStabilise
     THEN Finish(Stop(m, "other"), "HUMAN_REQUIRED")
     ELSE /\ pc' = IF again THEN "gate" ELSE "judge"
          /\ mem' = m
          /\ call' = [call EXCEPT !.code = tree, !.mutated = TRUE, !.runs = @ + 1]
          /\ UNCHANGED << disk, answer, claims, mishaps >>
  /\ UNCHANGED << world, limits, past >>

\* The post-Gate tree cannot be collected or attributed.
RecollectFails ==
  /\ pc = "recollect"
  /\ Finish(Stop(mem, "other"), "HUMAN_REQUIRED")
  /\ UNCHANGED << world, limits, past >>

-----------------------------------------------------------------------------
(* Between the Gate and the Reviewer.                                       *)

NoProof == 0
GatePrint == RoundPrint(call.base, call.code, Fingerprint(call.gate), mem.idx, NoProof, NoStrategy)

CancelGate ==
  /\ pc = "judge"
  /\ Finish(Stop(mem, "other"), "HUMAN_REQUIRED")
  /\ UNCHANGED << world, limits, past >>

GateFailed ==
  /\ pc = "judge" /\ CallVerdict = "FAIL"
  /\ IF mem.last = GatePrint
     THEN Finish(mem, "NO_PROGRESS")
     ELSE LET m == CountRepair(mem) IN
          IF RepairsSpent(m)
          THEN Finish(Exhaust(m), "HUMAN_REQUIRED")
          ELSE Finish([To(m, "REWORK") EXCEPT !.last = GatePrint], "REWORK")
  /\ UNCHANGED << world, limits, past >>

GatePassed == pc = "judge" /\ CallVerdict # "FAIL"
StaleProof == call.mutated /\ call.submits

\* The Gate changed the code that the evidence submitted with this call proves.
RefuseStaleProof ==
  /\ GatePassed /\ StaleProof
  /\ Finish(To(mem, "REWORK"), "REWORK")
  /\ UNCHANGED << world, limits, past >>

\* The evidence of this call, bound to the code it was submitted with.
Staged == IF call.submits THEN [mem EXCEPT !.recs[mem.idx] = call.code] ELSE mem
\* Mutant of Missing: any evidence of the gate will do.
MissingAtAll == mem.idx \in Proven /\ Staged.recs[mem.idx] = NoTree
Missing == mem.idx \in Proven /\ Staged.recs[mem.idx] # call.code
Unreadable == mem.idx \in Proven /\ art = 0
Proof == IF mem.idx \in Proven THEN art ELSE NoProof

\* Required evidence is missing (what was submitted is kept), or the artifact
\* it names cannot be captured (nothing is kept).
RefuseEvidence ==
  /\ GatePassed /\ ~StaleProof
  /\ \/ Missing /\ Finish(To(Staged, "REWORK"), "REWORK")
     \/ ~Missing /\ Unreadable /\ Finish(To(mem, "REWORK"), "REWORK")
  /\ UNCHANGED << world, limits, past >>

Accepted == GatePassed /\ ~StaleProof /\ ~Missing /\ ~Unreadable
Logical(pending) ==
  RoundPrint(call.base, call.code, Fingerprint(call.gate), mem.idx, Proof, pending)

\* This very state was reviewed last: nobody is asked again.
RefuseRepeat ==
  /\ Accepted /\ mem.last = Logical(mem.pending)
  /\ Finish(Staged, "NO_PROGRESS")
  /\ UNCHANGED << world, limits, past >>

Unusable == {"unusable"}     \* a review that has no findings to speak of: FAILED
IsFailed(review) == Unusable \subseteq review

\* Mutant of Resumes: only a review that has all its chunks is taken up again.
ResumesComplete(print) ==
  mem.ckpt.print = print /\ Len(mem.ckpt.got) = Len(mem.ckpt.plan)

\* A review begins, or resumes one that was interrupted: the checkpoint of the
\* same logical state gives its round back, and its chunks if they are cut the
\* same way.  A diff beyond the budget has failed before it costs anything.
Resumes(print) == mem.ckpt.print = print
\* Mutant of Counted: a review taken up again is a new round.
CountedAfresh(print) == [Staged EXCEPT !.round = @ + 1, !.gateRound = @ + 1, !.epochRound = @ + 1]

Counted(print) ==
  IF Resumes(print)
  THEN [Staged EXCEPT !.round = mem.ckpt.round, !.gateRound = mem.ckpt.gateRound,
                      !.epoch = mem.ckpt.epoch, !.epochRound = mem.ckpt.epochRound]
  ELSE [Staged EXCEPT !.round = @ + 1, !.gateRound = @ + 1, !.epochRound = @ + 1]

Checkpointed(m, print, plan) ==
  IF Resumes(print) /\ mem.ckpt.plan = plan THEN m
  ELSE [m EXCEPT !.ckpt = [print |-> print, plan |-> plan, got |-> << >>, round |-> m.round,
                           gateRound |-> m.gateRound, epoch |-> m.epoch,
                           epochRound |-> m.epochRound]]

StartReview ==
  /\ Accepted /\ mem.last # Logical(mem.pending)
  /\ LET print == Logical(mem.pending)
         shown == Shown(mem, call.base, call.code, tree, call.budget)
         plan == Chunks(shown, call.budget)
         begun == [call EXCEPT !.proof = Proof, !.print = print, !.plan = plan] IN
     IF Oversized(shown, call.budget)
     THEN /\ pc' = "verify" /\ mem' = Staged
          /\ call' = [begun EXCEPT !.review = Unusable]
     ELSE /\ pc' = "chunks" /\ call' = begun
          /\ Resumes(print) \/ mem.round < MaxRound
          /\ mem' = Checkpointed(Counted(print), print, plan)
  /\ UNCHANGED << world, disk, answer, limits, claims, past, mishaps >>

-----------------------------------------------------------------------------
(* Paid calls.                                                              *)

\* What a call is paid for: a Reviewer reads one chunk in one round, under one
\* Gate outcome, gate, proof and adjudication; a Supervisor rules on the
\* findings of one reviewed state.
ReviewerClaim(i) ==
  [role |-> "reviewer", round |-> mem.round, part |-> i,
   about |-> << {<< f, call.base[f], call.code[f] >> : f \in call.plan[i]}, Fingerprint(call.gate),
                mem.idx, call.print.proof, call.print.pending >>]
SupervisorClaim == [role |-> "supervisor", round |-> 0, part |-> 0,
                    about |-> << call.print, call.review >>]

\* An authorised call.  It may use a ceiling up; a call that is refused, or whose
\* provider fails, ends the review; a failure may leave its evidence consumed.
Allowed(claim) == limits = {} /\ claim \notin claims
Refused(claim) ==
  /\ ~Allowed(claim)
  /\ pc' = "denied"
  /\ call' = [call EXCEPT !.why = IF limits = {"usage"} THEN "usage" ELSE "other"]
  /\ UNCHANGED << world, disk, mem, answer, limits, claims, past, mishaps >>
Fails(claim) ==
  /\ Allowed(claim) /\ Goes("denied")
  /\ pc' = "denied"
  /\ call' = [call EXCEPT !.why = "other"]
  /\ claims' \in {claims, claims \cup {claim}}
  /\ UNCHANGED << world, disk, mem, answer, limits, past >>
Spends(claim) ==
  /\ Allowed(claim)
  /\ claims' = claims \cup {claim}
  /\ \/ UNCHANGED << limits, mishaps >>
     \/ Goes("ceiling") /\ limits' \in {limits \cup {l} : l \in {"usage", "calls"}}

NextChunk == Len(mem.ckpt.got) + 1
\* Mutant of MoreChunks: the last chunk is left out.
MoreChunksButLast == pc = "chunks" /\ NextChunk < Len(call.plan)
                      /\ ~(\E r \in {mem.ckpt.got[i] : i \in 1..Len(mem.ckpt.got)} : IsFailed(r))

MoreChunks == pc = "chunks" /\ NextChunk <= Len(call.plan)
               /\ ~(\E r \in {mem.ckpt.got[i] : i \in 1..Len(mem.ckpt.got)} : IsFailed(r))

\* The caller's cancellation is seen between two chunks.
CancelReview ==
  /\ MoreChunks /\ Goes("cancel")
  /\ pc' = "verify" /\ call' = [call EXCEPT !.review = Unusable]
  /\ UNCHANGED << world, disk, mem, answer, limits, claims, past >>

PayChunk(result) ==
  /\ MoreChunks
  /\ IF IsFailed(result) THEN "unusable" \in Mishap ELSE TRUE
  /\ Spends(ReviewerClaim(NextChunk))
  /\ mem' = [mem EXCEPT !.ckpt.got = Append(@, result)]
  /\ covered' = IF IsFailed(result) THEN covered
                ELSE covered \cup {<< f, call.code[f] >> : f \in call.plan[NextChunk]}
  /\ pc' = "saveChunk"
  /\ UNCHANGED << world, disk, call, answer, strayed >>

RefuseChunk == MoreChunks /\ (Refused(ReviewerClaim(NextChunk)) \/ Fails(ReviewerClaim(NextChunk)))

\* Durable before the next chunk; a save that fails ends the review.
SaveChunk ==
  /\ pc = "saveChunk"
  /\ \/ /\ pc' = "chunks" /\ disk' = mem /\ claims' = LiveClaims(claims, mem)
        /\ UNCHANGED << call, mishaps >>
     \/ /\ Goes("fault") /\ pc' = "denied" /\ disk' \in {disk, mem}
        /\ call' = [call EXCEPT !.why = "other"]
        /\ UNCHANGED claims
  /\ UNCHANGED << world, mem, answer, limits, past >>

\* The union of the chunks' findings, or the failure of one.
Aggregate ==
  /\ pc = "chunks" /\ ~MoreChunks
  /\ pc' = "verify"
  /\ LET results == {mem.ckpt.got[i] : i \in 1..Len(mem.ckpt.got)} IN
       call' = [call EXCEPT !.review = IF \E r \in results : IsFailed(r) THEN Unusable
                                       ELSE UNION results]
  /\ UNCHANGED << world, disk, mem, answer, limits, claims, past, mishaps >>

Denied ==
  /\ pc = "denied"
  /\ FinishDenied(mem, call.why)
  /\ UNCHANGED << world, limits, past >>

-----------------------------------------------------------------------------
(* The decision.                                                            *)

\* The artifact is not the one the Reviewer read: nothing is certified.
RefuseArtifact ==
  /\ pc = "verify" /\ mem.idx \in Proven /\ art # call.proof
  /\ Finish([To(mem, "REWORK") EXCEPT !.ckpt = NoCheckpoint, !.last = NoPrint], "REWORK")
  /\ UNCHANGED << world, limits, past >>

Verified == pc = "verify" /\ (mem.idx \in Proven => art = call.proof)

\* A consumed adjudication is no part of what counts as reviewed.
Reviewed == [mem EXCEPT !.last = [call.print EXCEPT !.pending = NoStrategy], !.ckpt = NoCheckpoint]

RefuseFailed ==
  /\ Verified /\ IsFailed(call.review)
  /\ Finish(Stop(Reviewed, "other"), "HUMAN_REQUIRED")
  /\ UNCHANGED << world, limits, past >>

\* evidenceBlockerRequirementIds: every blocker names one frozen requirement, no
\* two the same; otherwise nothing is inferred.
Requirements(review) ==
  LET ids == {Obligation[f] : f \in review} IN
  IF "none" \in ids \/ Cardinality(ids) # Cardinality(review) THEN {} ELSE ids

EpochBudget(m) == IF m.epoch = 0 THEN MaxRounds ELSE PostRounds
\* Mutant of EpochExhausted: one round too many.
EpochOverrun(m) == m.epochRound > EpochBudget(m)
EpochExhausted(m) == m.epochRound >= EpochBudget(m)
CanEscalate(m) == m.esc < MaxEscalations

Stagnates(m, review) ==
  LET n == Len(m.hist)
      same == n > 0 /\ m.hist[n] = review
      oscillates == n > 1 /\ m.hist[n] # review /\ m.hist[n - 1] = review
      sameEvidence == n > 0 /\ Requirements(review) # {}
                      /\ Requirements(m.hist[n]) = Requirements(review)
  IN same \/ oscillates \/ sameEvidence

Verdict(m, review) ==
  CASE review = {} -> "PASS"
    [] review # {} /\ CanEscalate(m) /\ (Stagnates(m, review) \/ EpochExhausted(m)) -> "ESCALATE"
    [] review # {} /\ ~CanEscalate(m) /\ EpochExhausted(m) -> "HUMAN_REQUIRED"
    [] OTHER -> "REWORK"

\* The last two findings of the current epoch are all that is looked at.
LastTwo(h) == IF Len(h) > 2 THEN SubSeq(h, Len(h) - 1, Len(h)) ELSE h
Recorded(m, review) ==
  [m EXCEPT !.pending = NoStrategy, !.hist = LastTwo(Append(@, review)), !.judged = @ + 1]

Decide ==
  /\ Verified /\ ~IsFailed(call.review)
  /\ LET m == Recorded(Reviewed, call.review)
         verdict == Verdict(Reviewed, call.review) IN
     CASE verdict = "PASS" ->
            pc' = "complete" /\ mem' = m /\ UNCHANGED << disk, call, answer, claims, mishaps >>
       [] verdict = "ESCALATE" ->
            pc' = "supervise" /\ mem' = m /\ UNCHANGED << disk, call, answer, claims, mishaps >>
       [] verdict = "HUMAN_REQUIRED" -> Finish(Exhaust(m), "HUMAN_REQUIRED")
       [] OTHER -> Finish(To(m, "REWORK"), "REWORK")
  /\ UNCHANGED << world, limits, past >>

\* Mutant of CompletePhase: the files of the whole task are those of the phase.
CompletePhaseFromBegin(boundary) ==
  /\ pc = "complete" /\ ~FinalGate(mem)
  /\ boundary \in {tree, NoTree}
  /\ LET entry == [files |-> Changed(Baseline, call.code), boundary |-> boundary] IN
       Finish([FreshGate(To(mem, "READY_FOR_WORK")) EXCEPT
                 !.done = Append(@, entry), !.idx = @ + 1, !.last = NoPrint], "PHASE_PASS")
  /\ UNCHANGED << world, limits, past >>

\* The boundary of the next phase is the tree as it is now; none when it holds
\* untracked files or cannot be captured.
CompletePhase(boundary) ==
  /\ pc = "complete" /\ ~FinalGate(mem)
  /\ boundary \in {tree, NoTree}
  /\ LET entry == [files |-> Changed(call.base, call.code), boundary |-> boundary] IN
       Finish([FreshGate(To(mem, "READY_FOR_WORK")) EXCEPT
                 !.done = Append(@, entry), !.idx = @ + 1, !.last = NoPrint], "PHASE_PASS")
  /\ UNCHANGED << world, limits, past >>

PassLoop ==
  /\ pc = "complete" /\ FinalGate(mem)
  /\ Finish(To(mem, "PASS"), "PASS")
  /\ UNCHANGED << world, limits, past >>

-----------------------------------------------------------------------------
(* The Supervisor.                                                          *)

NoHelp == "unavailable"        \* cancelled, failed, or not usable
AskHuman == "ask the human"

\* A transient failure brings no strategy and takes no escalation; it may have
\* consumed its evidence.
SupervisorOut ==
  /\ pc = "supervise" /\ Goes("outage")
  /\ claims' \in {claims, claims \cup {SupervisorClaim}}
  /\ pc' = "ruling" /\ call' = [call EXCEPT !.sup = NoHelp]
  /\ UNCHANGED << world, disk, mem, answer, limits, past >>

PaySupervisor(ruling) ==
  /\ pc = "supervise"
  /\ Spends(SupervisorClaim)
  /\ pc' = "ruling" /\ call' = [call EXCEPT !.sup = ruling]
  /\ UNCHANGED << world, disk, mem, answer, past >>

RefuseSupervisor ==
  /\ pc = "supervise"
  /\ \/ /\ ~Allowed(SupervisorClaim)
        /\ UNCHANGED << claims, mishaps >>
     \/ /\ Allowed(SupervisorClaim) /\ Goes("denied")
        /\ claims' \in {claims, claims \cup {SupervisorClaim}}
  /\ pc' = "denied"
  /\ mem' = [mem EXCEPT !.setbacks = @ + 1]
  /\ call' = [call EXCEPT !.why = IF limits = {"usage"} THEN "usage" ELSE "other"]
  /\ UNCHANGED << world, disk, answer, limits, past >>

\* A new strategy opens a new epoch; a repeated one, or a ruling that only a
\* human can help, ends the gate.
NewEpoch(m, ruling) ==
  [To(m, "SUPERVISING") EXCEPT
     !.strat = ruling, !.esc = @ + 1, !.epoch = @ + 1, !.epochRound = 0, !.hist = << >>,
     !.pending = IF ruling \in Reconsiders THEN ruling ELSE NoStrategy]

ApplyRuling ==
  /\ pc = "ruling"
  /\ LET ruling == call.sup
         supervised == To(mem, "SUPERVISING") IN
     CASE ruling = NoHelp ->
            Finish(To([mem EXCEPT !.setbacks = @ + 1], "REWORK"), "REWORK")
       [] ruling = AskHuman ->
            Finish(Exhaust([supervised EXCEPT !.esc = @ + 1]), "HUMAN_REQUIRED")
       [] ruling = mem.strat -> Finish(Exhaust(supervised), "HUMAN_REQUIRED")
       [] OTHER -> Finish(To(NewEpoch(mem, ruling), "REWORK"), "REWORK")
  /\ UNCHANGED << world, limits, past >>

-----------------------------------------------------------------------------
(* Crashes, and what humans may do.                                         *)

\* The process dies, or finds its lease lost and writes nothing more.
Vanish ==
  /\ pc # "idle" /\ Goes("crash")
  /\ Leave("error")
  /\ UNCHANGED << world, disk, limits, claims, past >>

\* Mutant of ReopenGate: as often as one likes.
ReopenGateAlways ==
  /\ pc = "idle" /\ disk.st = "HUMAN_REQUIRED" /\ disk.exhausted
  /\ disk' = [FreshGate(To(To(disk, "REVIEWING"), "REWORK")) EXCEPT
                !.exhausted = FALSE, !.reopens = @ + 1]
  /\ answer' = "reopened"
  /\ UNCHANGED << world, mem, call, pc, limits, claims, past, mishaps >>

\* reopenExhaustedGate: only an exhausted gate, only so often.
ReopenGate ==
  /\ pc = "idle" /\ disk.st = "HUMAN_REQUIRED" /\ disk.exhausted
  /\ disk.reopens < MaxReopens
  /\ disk' = [FreshGate(To(To(disk, "REVIEWING"), "REWORK")) EXCEPT
                !.exhausted = FALSE, !.reopens = @ + 1]
  /\ answer' = "reopened"
  /\ UNCHANGED << world, mem, call, pc, limits, claims, past, mishaps >>

\* Mutants of OverrideBudget: whatever stopped the loop; straight to REWORK.
OverrideBudgetAnyStop ==
  /\ pc = "idle" /\ "usage" \in limits
  /\ limits' = limits \ {"usage"}
  /\ disk' = IF disk.st = "HUMAN_REQUIRED" THEN To(To(disk, "REVIEWING"), "REWORK") ELSE disk
  /\ answer' = "overridden"
  /\ UNCHANGED << world, mem, call, pc, claims, past, mishaps >>

OverrideBudgetInOneMove ==
  /\ pc = "idle" /\ "usage" \in limits
  /\ limits' = limits \ {"usage"}
  /\ disk' = IF disk.st = "HUMAN_REQUIRED" /\ disk.why = "usage" /\ ~disk.exhausted
             THEN To(disk, "REWORK") ELSE disk
  /\ answer' = "overridden"
  /\ UNCHANGED << world, mem, call, pc, claims, past, mishaps >>

\* overrideLoopBudget: a higher usage ceiling.  It takes the loop out of
\* HUMAN_REQUIRED only when that ceiling is what stopped it.
OverrideBudget ==
  /\ pc = "idle" /\ "usage" \in limits
  /\ limits' = limits \ {"usage"}
  /\ disk' = IF disk.st = "HUMAN_REQUIRED" /\ disk.why = "usage" /\ ~disk.exhausted
                /\ "calls" \notin limits
             THEN To(To(disk, "REVIEWING"), "REWORK") ELSE disk
  /\ answer' = "overridden"
  /\ UNCHANGED << world, mem, call, pc, claims, past, mishaps >>

-----------------------------------------------------------------------------
Init ==
  /\ tree = Baseline /\ art = 0
  /\ disk = NewLoop /\ mem = NoLoop /\ call = NoCall /\ pc = "idle" /\ answer = "none"
  /\ limits = {} /\ claims = {} /\ covered = {} /\ strayed = {} /\ mishaps = 0

Worker ==
  \/ \E f \in File : \E v \in Version[f] : Edit(f, v) \/ StrayEdit(f, v)
  \/ \E a \in 0..MaxArtifact : WriteArtifact(a)

Open ==
  \/ RefuseTerminal \/ OpenUnattributed
  \/ \E base \in Tree : OpenUnchanged(base) \/ OpenInvalidEvidence(base) \/ OpenDrifted(base)
  \/ \E base \in Tree, b \in Budget, submits \in BOOLEAN : OpenGate(base, b, submits)

Gate ==
  \/ \E run \in GateRun :
       \/ RunGate(run)
       \/ \E f \in File : \E v \in Version[f] : RunMutatingGate(run, f, v)
  \/ RecollectSame \/ RecollectChanged \/ RecollectFails

Judge ==
  \/ CancelGate \/ GateFailed \/ RefuseStaleProof \/ RefuseEvidence \/ RefuseRepeat
  \/ StartReview

Review ==
  \/ \E result \in (SUBSET Finding) \cup {Unusable} : PayChunk(result)
  \/ CancelReview \/ RefuseChunk \/ SaveChunk \/ Aggregate \/ Denied
  \/ RefuseArtifact \/ RefuseFailed \/ Decide \/ PassLoop
  \/ \E boundary \in Tree \cup {NoTree} : CompletePhase(boundary)

Supervise ==
  \/ \E ruling \in Strategy \cup {AskHuman} : PaySupervisor(ruling)
  \/ SupervisorOut \/ RefuseSupervisor \/ ApplyRuling

Call == Gate \/ Judge \/ Review \/ Supervise
Human == ReopenGate \/ OverrideBudget
Next == Worker \/ Open \/ Call \/ Vanish \/ Human

Spec == Init /\ [][Next]_vars

-----------------------------------------------------------------------------
(* Properties.                                                              *)

State == {"READY_FOR_WORK", "REVIEWING", "REWORK", "SUPERVISING", "PASS", "HUMAN_REQUIRED",
          "Illegal"}
Stage == {"idle", "gate", "recollect", "judge", "chunks", "saveChunk", "verify", "complete",
          "supervise", "ruling", "denied"}
Loops == {disk} \cup (IF pc = "idle" THEN {} ELSE {mem})

LoopOK(m) ==
  /\ m.st \in State /\ m.idx \in 0..NPhases /\ Len(m.done) = m.idx
  /\ m.round \in Nat /\ m.gateRound \in Nat /\ m.epoch \in Nat /\ m.epochRound \in Nat
  /\ m.esc \in Nat /\ m.repairs \in Nat /\ m.reopens \in 0..MaxReopens
  /\ m.judged \in Nat /\ m.setbacks \in Nat
  /\ m.exhausted \in BOOLEAN /\ m.why \in {"none", "usage", "converged", "other"}
  /\ m.recs \in [0..NPhases -> Tree \cup {NoTree}]
  /\ m.pending \in Reconsiders \cup {NoStrategy} /\ m.strat \in Strategy \cup {NoStrategy}
  /\ \A i \in 1..Len(m.hist) : m.hist[i] \subseteq Finding

\* The type of the state.
TypeOK ==
  /\ tree \in Tree /\ art \in 0..MaxArtifact
  /\ pc \in Stage /\ (pc = "idle") = (mem = NoLoop)
  /\ \A m \in Loops : LoopOK(m)
  /\ limits \subseteq {"usage", "calls"} /\ strayed \subseteq File
  /\ covered \subseteq File \X Nat /\ mishaps \in 0..MaxMishaps

\* recordTransition never throws: whatever a loop went through, no call, reopen
\* or override asks for a move the life cycle does not have (state.js:122).
NoIllegalTransition == \A m \in Loops : m.st # "Illegal"

\* What passes is one state: the tree the Gate passed on is the tree whose diff
\* the Reviewer read, and the proof in force was submitted for that very tree,
\* even when the Gate rewrote files on its way (controller.js:777-899).  No
\* command fails on it that did not already fail so at begin.
CertifiedAsOne ==
  pc = "complete" =>
    /\ \A c \in Failing(call.gate) :
         call.gate[c].ids # {} /\ call.gate[c].ids \subseteq FailedBefore(BaselineGate, c)
    /\ call.tested = call.code \/ call.touched
    /\ mem.idx \in Proven => mem.recs[mem.idx] = call.code /\ call.proof # NoProof
    /\ call.review = {} /\ mem.ckpt = NoCheckpoint

\* The Reviewer was shown every file a PASS is about at the content it passes
\* with, although the final diff may leave out what one phase reviewed
\* (finalDiffReducer.js:3-12).  Files that change behind a review that is under
\* way are excepted: the boundary of the phase takes them in unseen.
PassCoversEveryChange ==
  pc = "complete" /\ FinalGate(mem) =>
    \A f \in Changed(call.base, call.code) \ strayed : << f, call.code[f] >> \in covered

\* A gate decides on no more reviews than its epochs allow, but for one more per
\* Supervisor call that brought no strategy; interruptions, resumed reviews and
\* Gate failures add none (reviewPolicy.js:106-194, controller.js:1239-1326).  A
\* Gate that rewrites the tree is run a bounded number of times in one call.
RoundsAreBounded ==
  /\ \A m \in Loops :
       /\ m.judged <= MaxRounds + PostRounds * m.esc + m.setbacks
       /\ m.esc <= MaxEscalations
       /\ m.repairs <= MaxGateRepairs + 1
  /\ pc # "idle" => call.runs <= MaxStabilise + 1

\* What has ended stays ended: a PASS for good, an exhausted gate until a human
\* reopens it, and that MaxReopens times, whatever is called in between and
\* whatever ceilings are raised (gateReopen.js:23-33, budgetOverride.js:131-136).
OnlyHumansReopen ==
  [][ Terminal(disk) /\ disk' # disk =>
        /\ disk.st = "HUMAN_REQUIRED" /\ disk.reopens < MaxReopens
        /\ disk'.reopens = disk.reopens + 1 /\ limits' = limits ]_vars

\* A phase that passed is never reopened or forgotten, and the loop moves on by
\* exactly the gate that was just reviewed (phaseState.js, controller.js:330-334).
PhasesOnlyAdvance ==
  [][ disk'.idx # disk.idx =>
        /\ pc = "complete" /\ disk'.idx = disk.idx + 1
        /\ SubSeq(disk'.done, 1, disk.idx) = disk.done
        /\ disk'.done[disk'.idx].files = Changed(call.base, call.code) ]_vars

\* A chunk whose review is on disk is not paid for again, whatever interrupted
\* the review and however often it is called again (reviewerRunner.js:154-166).
SavedChunksAreNotPaidAgain ==
  [][ pc = "chunks" /\ pc' = "saveChunk" /\ disk.ckpt.print = call.print
        => disk.ckpt.plan # call.plan \/ NextChunk > Len(disk.ckpt.got) ]_vars

\* A review taken up again counts as the review it continues (reviewerRunner.js:66-74).
ResumedKeepsItsRound ==
  pc \in {"chunks", "saveChunk"} /\ disk.ckpt.print = call.print =>
    /\ mem.round = disk.ckpt.round /\ mem.gateRound = disk.ckpt.gateRound
    /\ mem.epochRound = disk.ckpt.epochRound

\* The Worker was told what the file says, except for a denial that could not be
\* saved, and then the loop can still be called (controller.js:1360-1369).
AnswersAreDurable ==
  /\ answer \in {"PASS", "REWORK", "HUMAN_REQUIRED"} /\ pc = "idle" => disk.st = answer
  /\ answer = "PHASE_PASS" /\ pc = "idle" => disk.st = "READY_FOR_WORK" /\ disk.idx > 0
  /\ answer = "DENIED_UNSAVED" /\ pc = "idle" => ~Terminal(disk)

=============================================================================
