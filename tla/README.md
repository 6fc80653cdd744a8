# ReviewLoop: formal models

ReviewLoop lets a coding Worker submit its work to a Reviewer model, gate after
gate, under hard limits on what may be spent. What it promises is hard to test:
*no model call is ever paid twice or forgotten, whatever fails and whenever the
process dies*; *two processes never review the same loop at the same time*;
*what passes is the very tree that was tested and reviewed, whole*; *every loop
ends*. This directory models the protocols behind these promises in TLA+, checks
the models with TLC on small instances and proves their main properties with
TLAPS for all instances.

Source paths below are relative to the repository; the implementation is under
`src/`, documentation under `docs/`.

## 1. The system

| Component (source) | State | Operations | Correct when |
|---|---|---|---|
| Paid-call authority (`orchestrator/modelSpendAuthority.js`) | the call under way | `authorize`, `dispatch` | a call happens only when every gate let it through, and its outcome is accounted or blocks the loop |
| Reservation ledger (`orchestrator/modelSpendReservation.js`) | `modelSpendReservations` in workflow.json, a per-process cache | `reserve`, `reserveWithHumanRetryGrant`, `markDispatching`, `commitKnownSpend`, `markUnresolved`, `acknowledgeUnresolved`, `reconcileOnResume` | statuses only move forward; a dispatch in doubt is never forgotten; cache and disk agree |
| New-information ledger (`orchestrator/newInformation.js`) | evidence items with their consumed operations, a cache | `register`, `findEligibleUnconsumed`, `findConsumedEligible`, `consume` | one claim of new information pays for one call |
| Spend surface, Token Sentinel (`reviewloop/reviewSpend.js`) | spend records, the Sentinel latch, totals | `meteredCall`, `currentTotals`, `hasUnaccountedSpend` | ceilings hold; an anomalous call stops everything; status, record and latch are one write |
| Human recovery (`reviewloop/spendRecovery.js`) | acknowledgement, grant, exclusions in a reservation | `acknowledgeUnresolvedSpend`, amendment | one acknowledgement frees one retry, and exclusions are respected for good |
| Provider failover (`reviewloop/providerFailover.js`) | families tried and exhausted, retry count, durable attempt records | `meteredWithFailover` | a retry budget survives a crash; a family is tried once, and again only after a transient failure |
| Role routing and wiring (`orchestrator/roleRouting.js`, `reviewloop/providerWiring.js`, `agy/agyQuotaProbe.js`) | `quota-pools.json` shared by all servers, updates that could not be persisted, provider health in memory | `route`, `recordFailure`, `get`, `recordCooldown`, `recordReady`, the quota preflight | cooldowns are seen everywhere and not lost; health says what the last failure said |
| Loop lease (`reviewloop/loopLease.js`) | lock file, `.reclaim` guard file | acquire, renew, verify, reclaim, release | one reviewer at a time; a dead owner never wedges the loop |
| Durable snapshots (`orchestrator/atomicSnapshot.js`, `persistence.js`) | workflow.json | `atomicReplaceUtf8`, `updateWorkflowState` | a write is all or nothing, and what its caller is told is safe to act on |
| Controller (`reviewloop/controller.js`, `state.js`, `reviewPolicy.js`, `phaseState.js`, `gateReopen.js`, `budgetOverride.js`, `evidenceConvergence.js`) | `reviewLoop`: state, rounds, epoch, phase index, completed phases, gate repairs, reopens, escalations, evidence records | `review`, `reopen-gate`, `override-budget`, `spendDenialResult` | every path is bounded; no gate passes without test, evidence and review of the same tree; what has ended stays ended |
| Reviewer runner (`reviewerRunner.js`, `diffChunker.js`, `finalDiffReducer.js`) | chunk checkpoint | `runReviewerOverEvidence` | a resumed round repeats no chunk, counts once, and leaves nothing out |
| Objective and evidence (`objective.js`, `contractEvidence.js`, `artifactEvidence.js`, `taskBegin.js`) | objective, evidence records, artifact snapshots | parsing, binding | evidence counts only for the tree it was submitted for |
| Gate and its baseline (`gatePolicy.js`, `baselineDiffGate.js`, `gateFailureIdentity.js`) | the Gate run of begin | `runGate`, comparison | a new failure is never taken for an old one |
| Git evidence (`gitEvidence.js`) | the baseline of begin: a commit and digests of untracked files | `captureBaseline`, `collectWorkerDelta` | a complete delta holds all the Worker changed and nothing else |
| Usage accounting (`usageAccounting.js`, `tokenProfile.js`) | none | resolve usage | unknown usage is never taken for zero |
| Transports (`agy/agyClient.js`, `adapters/*`), MCP server, CLI, installer, doctor | child processes | calls | outside these models |

How they interact. The Worker calls `reviewloop_review` (MCP or CLI). The
controller takes the **lease**, loads the loop record, collects the Worker's
**delta** from Git, runs the **Gate** on the tree (collecting again when the Gate
rewrote it), binds the evidence to that tree and hands the diff to the
**reviewer runner**, which makes one `meteredWithFailover` call per chunk and
saves a checkpoint after each. Such a call **routes** to a family, and for each
attempt crosses the **spend surface**: `meteredCall` registers evidence,
`authorize` checks the latch, the ledgers, the exclusions and the policy,
consumes the evidence durably, reserves, and `dispatch` marks the reservation
DISPATCHING, calls the provider and settles. The controller then decides: PASS,
REWORK, a Supervisor, or a human; a phase that passes opens the next gate. All
ledgers and the loop record live in one `workflow.json`, written whole by
`updateWorkflowState` and kept in per-process caches; only the lease keeps two
processes from writing it from different caches. `acknowledge-spend`,
`reopen-gate` and `override-budget` run under the same lease.
`quota-pools.json` is shared by the servers of all loops, under a lock of its own.

Hard behaviours: a crash between any two durable writes; a write that takes
effect and still reports an error; caches that outlive what they cache; a lease
that expires under a live owner; a reclaim of a lock by several contenders, one
of which dies; retries that must not bill twice; a Gate that changes what it
tests; a review interrupted and taken up again on a tree that moved; counters of
rounds, repairs, epochs and escalations that bound each other; files that were
untracked at begin. `PROJECT.json` lists each hazard at its line with the
properties that watch it.

## 2. The modules

| Module | What it is |
|---|---|
| `SpendContract` | abstract specification: calls one at a time, none while one is in doubt, none over a ceiling, none after an anomaly |
| `SpendLedger` | the paid-call protocol: durable ledgers, per-process caches, lease ownership, human recovery, failed writes and crashes |
| `LoopLease` | the lease at the grain of single file operations |
| `GatePolicy` | what a Gate run amounts to: verdict, comparable failures, new failures |
| `ReviewController` | one loop from review to review, over `GatePolicy` |
| `GitEvidence` | baseline and delta over a repository: disk, index, ignored paths, HEAD |
| `ProviderFailover` | bounded failover of a metered call over the router and its registries |
| `MC*` | instances for TLC |
| `SpendLedgerTypes`, `SpendLedgerProofs`, `SpendContractProofs` | proofs about `SpendLedger`: its type, its safety, the refinement |
| `LoopLeaseProofs` | proofs about `LoopLease` |
| `ReviewControllerProofs`, `ReviewBoundsProofs` | proofs about `ReviewController`: legality and what passes; bounds, resumption and coverage |
| `GitEvidenceProofs`, `ProviderFailoverProofs` | proofs about `GitEvidence` and `ProviderFailover` |

`ReviewController` keeps of a paid call that it is answered, refused or fails and
what evidence it consumed; `SpendLedger` models what the call does to the ledgers,
`ProviderFailover` how it finds a family, and `LoopLease` why all of them may be
modelled with one caller per loop.

### SpendLedger and the code

- `res`, `claims`, `records`, `latch` are the keys of workflow.json: reservations,
  consumed pairs of the information ledger, spend records, Sentinel latch.
  `cache`, `cclaims`, `view` are the per-process copies
  (`ReservationLedger._cache`, `NewInformationLedger._cache`, `priorRecords` with
  `sessionRecords`). `physical` is what really happened at the provider; no process
  reads it except through its own call's return.
- One step is one durable write together with the memory changes that hang on its
  result. `WriteResult` gives each write the outcomes of `atomicReplaceUtf8`: done;
  old snapshot kept; new snapshot published but an error reported. After an error the
  process goes to `stopped`: the surface is thrown away and the result returned.
- `authorize` is one action per way of being justified (`AuthorizeFresh`,
  `AuthorizeFailover`, `AuthorizeHumanRetry`, `Deny`): its checks read memory only,
  and its first write is `Consume`. `Reserve`, `MarkDispatching`, `CallProvider`,
  `SettleKnown`, `SettleUnknown` follow the order of `authorize` and `dispatch`.
  `RecordCancelled` is the catch in `meteredCall` that appends a record for a
  cancelled call.
- `LoadAndReconcile` is `ensureReconciled`: the reconciliation stays in memory when
  its write fails.
- A payload is abstracted to what the protocol tells apart: usage is one number,
  evidence an id, a provider its family. `MapThenSumSet` is `foldTotals`.

### LoopLease and the code

- A claimant is a call in a process of its own and stands for its token and the
  inode it links. `lock` is the inode at the path; a renewal writes through the
  handle, so it is visible only while that inode is at the path (`left`).
- `Acquire`, `Link`, `Read` are the attempt loop; `CreateGuard`, `StampGuard`,
  `PeekGuard`, `TakeGuardOver`, `CheckUnderGuard`, `UnlinkStale`, `ReadGuard`,
  `DropGuard` are `withReclaimGuard` around `reclaimStaleLock` and
  `reclaimMalformedLock`, one file operation each. `open(guard,'wx')` and the write
  of its content are two steps, as they are in the code.
- `BeatRead` and `BeatWrite` are the renewal; `VerifyHeld` the probe before a paid
  dispatch; `ReadForRelease` and `Release` the release.
- Same host: the pid decides whether an owner is gone. Other host: the expiry does.
- `links`, `published`, `confirmer`, `takeovers` are history variables that no
  guard reads.

### ReviewController and the code

- `disk` is the loop record of workflow.json, `mem` the copy a call works on; `call` is
  what the call has collected so far and `pc` where it stands. A crash (`Vanish`) drops
  `mem` and `call`. A call saves at its end, after each chunk and when a phase passes;
  `Finish` and `FinishDenied` give each of the last saves its failed outcomes.
- One call is `Open*` (terminal loop, no change, invalid evidence, changes that cannot be
  attributed, plan drift, or on to the Gate), `RunGate` / `RunMutatingGate`, `Recollect*`
  (the stabilising loop, at most `MaxStabilise` times), `GateFailed` or `GatePassed` with
  the evidence checks (`RefuseStaleProof`, `RefuseEvidence`, `RefuseRepeat`), `StartReview`,
  the chunk loop (`PayChunk`, `SaveChunk`, `RefuseChunk`, `CancelReview`, `Aggregate`),
  `RefuseArtifact`, `RefuseFailed`, `Decide`, `CompletePhase` or `PassLoop`, and the
  Supervisor (`PaySupervisor`, `SupervisorOut`, `RefuseSupervisor`, `ApplyRuling`).
- `ReopenGate` and `OverrideBudget` are the operator's commands, with their guards.
- `To` is `recordTransition`: a move that is not in the table gives the state `Illegal`
  instead of an exception, so that a property can say it never happens.
- A file has a version, a diff is the set of files whose version differs from a baseline,
  a fingerprint is the record of what it covers (`RoundPrint`). `Chunks` splits a diff by files,
  `Reduced` is the reduced final diff.
- `covered` and `strayed` are history variables that no guard reads.

### GitEvidence and the code

- A digest stands for the content it is of. Contents are texts, binaries, texts above the
  size limit, symlinks and submodules. Git shows a tracked symlink as its target and of a
  submodule only the commit, so only submodules are opaque in a diff (`GitlinkIn`); an
  untracked one of either kind is never read. `Encodes` stands for any
  transform of a content. `Nested` are paths below a directory, which are read only where
  the platform can refuse links on the whole path (`Guarded`).
- `CaptureBaseline` and `CollectWorkerDelta` are one step each: the Worker waits for both.
  The helpers of the collection follow the code's order and carry its names where they have
  one (`Staged` is `leakedStaged` with `modifiedStagedBaseline`, `Doubtful` the files dropped
  by the three rules, `Shown` the paths of the re-scoped diff).
- One Git command of a collection may fail (non-zero exit) or be killed (which `runGit` takes
  for exit 0 without output), and one file may be unreadable just then.

### ProviderFailover and the code

- A process is one MCP server running one logical operation, perhaps again after a crash or
  a failure. `disk` is quota-pools.json, `pending` the updates a process could not persist,
  `health` its registry, `log` the durable attempt records, `op` the locals of
  `meteredWithFailover`.
- `Begin` restores budget and exhausted families from `log`; `Preflight` is the quota probe,
  which records the pools of a snapshot one by one (`Available` before `Depleted`) and at last
  that there was one;
  `Notice` and `Lift` are `get` on an expired cooldown, in two steps since it waits for the
  lock; `Dispatch`, `Denied`, `AuditFails`, `GiveUp` are what comes of a routing; `Answer`
  is an outcome and its record; `Backoff`, `Wake`, `Cancel`, `Failover` follow a failure.
- `Update` is `_update`: under the lock the latest file is read, changed and replaced; without
  it the change stays in `pending`.

## 3. What each run checks

| Run | Instance | Shows |
|---|---|---|
| `spend_ledger` | 2 processes, 3 reservations, 1 operation on 2 review states, 2 families, 1 write fault, 1 crash | the ledgers stay sound, nothing that reached the provider is forgotten, and the protocol implements `SpendContract` |
| `spend_progress` | a Reviewer and a Supervisor operation in one process, 3 reservations, 2 calls each, usage ceiling 2, 1 crash, fair | a retry grant pays only for its own operation; usage overshoots its ceiling by one call at most; a dispatch in doubt is settled or declared unresolved |
| `lease` | 2 calls on one host, a free or corrupt lock, 4 attempts, 1 crash, fair | two never hold the loop together unless a live reclaimer's guard was taken over; no late renewal overwrites a successor; confirmations follow publication; an abandoned lock is reclaimed, even when its reclaimer dies too |
| `review_rounds` | one gate, one file of three contents, 2 rounds, 1 round per later epoch, 2 escalations, 1 reopen, a Gate that was red at begin and may rewrite the file, 1 mishap of any kind | every path is bounded and legal, no new failure passes, answers are durable, a resumed review keeps its round, only a human reopens what ended |
| `review_files` | 2 phases and the final gate, two files, one or two chunks, evidence required in phase 2, 1 crash, stray edit or changed artifact | what passes is one state and was shown whole; phases only advance; no saved chunk is paid again |
| `evidence` | 2 files, 6 contents, any index and .gitignore, 2 steps of the Worker, 1 Git command that failed, 1 unreadable file | a complete delta misses nothing, shows nothing that was there before, and lays nothing to the Worker |
| `failover` | 2 processes sharing a pool, 2 families, 5 outcomes, 1 retry, 1 restart, 1 tick | budgets survive restarts, health is earned, cooldowns are neither lost nor ignored |
| `spend_recall`, `spend_cancelled`, `lease_fresh`, `git_killed`, `failover_spawn` | violations | the findings of section 6 |

The properties, by what could go wrong:

- *Money.* `SpendIsNeverLost`: what reached the provider is settled with its exact usage or
  blocks the loop. `NoHalfSettlement`: status, record, acknowledgement and latch are never
  half written. `ClaimSpentOnce`: billed calls never outnumber claims plus spent grants.
  `GrantDispatchesOnce`, `RetryStaysInOperation`: a grant is good for one dispatch, of its
  operation. `LedgersAgree`: the reviewing process's memory agrees with the disk and its
  authorization still holds when it dispatches. `HistoryIsKept`: nothing moves backwards.
  `ExcludedFamilyIsNotCalled`. `UsageOvershootsByOneCall`. `InDoubtIsResolved`.
  `ImplementsContract`: the refinement.
- *Ownership.* `SoleHolderUnlessGuardTaken`, `LeaseChangesHandsThroughFree`,
  `ConfirmationsFollowPublication`, `AbandonedLeaseIsReclaimed`.
- *The loop.* `NoIllegalTransition`: `recordTransition` never throws. `RoundsAreBounded`: a
  gate decides on no more reviews than its epochs allow, plus one per Supervisor call that
  brought no strategy. `OnlyHumansReopen`: a PASS is final, and an exhausted gate is
  reopened by its command alone and a bounded number of times. `PhasesOnlyAdvance`.
  `AnswersAreDurable`: the Worker is told what is on disk; a denial that could not be saved
  leaves a loop that can still be called. `ResumedKeepsItsRound`,
  `SavedChunksAreNotPaidAgain`.
- *What passes.* `CertifiedAsOne`: the tree the Gate tested, the tree in the Reviewer's diff
  and the tree the evidence was submitted for are one, and no command fails that did not fail
  so at begin. `PassCoversEveryChange`: every changed file was shown at the content it
  passes with. `CompleteDeltaMissesNothing`, `UntrackedContentIsNotEmitted`,
  `OnlyTheWorkersChanges`: the same for the delta itself.
- *Providers.* `NoFourthTransientCall`: one transient failure and two retries of a family per
  operation, however often it is restarted. `AuthHealthIsEarned`: a family is AUTH_FAILED
  only after a failure of its credentials that no other failure followed. `OneTryPerFamily`.
  `CooldownsSurvive`, `CooldownSeenEverywhere`: the shared pool file.

### Bounds

Spend: three reservations let an attempt fail, be acknowledged and be retried, and a
third try to reuse the same grant or claim; two calls allowed of three makes the ceiling
bite. Usage 1 and 2 around an anomaly limit of 1 hit both sides of the Sentinel and,
with a ceiling of 3, the usage gate; in `spend_progress`, where each operation has one
claim, the ceiling is 2, so that one call can reach it and the other must be refused. One
crash and one fault land at every step and in every order; a second crash only repeats a
resume, which starts from disk alone. `spend_ledger` uses the symmetry of processes,
reservations, families and, since its operation may cite either, review states: it has no
liveness property, and nothing in the module tells two of them apart. `spend_progress` has
one, and no symmetry.

Lease: two claimants, one of which may crash and one find a corrupt lock, reach every
branch of the reclaim but a guard stolen from a live reclaimer behind a third call, which is
the subject of `lease_fresh` with three. Four attempts is the code's own number, so that an
orphaned guard and then a stale lock fit into one acquisition. Clock values are capped where
nothing more can be told apart. The four safety properties are also theorems, for any
number of calls and hosts, so the small instance only has to catch a mistake in the model.

Controller: two rounds, one round per later epoch, two escalations with two strategies, one
of which asks for reconsideration, one reopen and one mishap let each counter reach its limit:
a second ruling may be new or repeated, and a third review after it has nobody left to ask.
One finding makes a review that passes and one that repeats itself; that findings shrink or
alternate only makes an epoch end later or sooner, which the theorems leave open. The Gate may rewrite the file each time it runs, so that its bound on re-runs is met;
its baseline run failed one test, and a command of the phase may fail a test of the same
name. In `review_files` two files with one file per chunk make a diff of one chunk, of two,
and one too large that must be reduced; two phases and the final gate give a file changed in
one phase, in both, or after both; a stray edit during the Gate makes evidence stale and one
during the review goes unseen, and the artifact may vanish under the Reviewer. With two
contents per file, a file changed after the last boundary has been changed in an earlier phase
or is new, so the reducer's rule for post-boundary files never decides alone. `MaxRound`
bounds the reviews of a loop: four are the two rounds and the two epochs of `review_rounds`,
three the gates of `review_files`.

Evidence: two files give a source and a copy; two steps give stage-then-edit,
ignore-then-edit, delete-and-create, copy-and-stage. Every content class has one member but
texts, which need two. Both files may be opened safely, so they are interchangeable; that a
nested path may not be is a constant the theorems leave open. The properties are about Git
commands that were not killed, so the passing run has commands that fail, and `git_killed`
those that are killed. Failover: one retry of the code's two still mixes auth and network
failures and is spent across a restart; two families make the
second the failover target and the router's alternative; a cooldown of one tick and a clock of
one tick let it expire once before, during and after a wait for the lock. The outcomes of the
first process are the two transient failures, a failure of the CLI, and an answer that leaves
its spend unresolved; the pool is all that is shared, so a second process only needs calls
that cool it. Two wider instances satisfy the same properties and are too large to run each
time: two retries (1.3 million states), and one process with two agy pools, which a snapshot
records in turn (1.8 million). The theorems cover every instance.

Deadlock is checked in the spend and lease runs. The other models may stop: a loop that passed
or ran out of mishaps and rounds, a repository after the last step allowed to the Worker, an
operation run as often as allowed.

### Fairness

`SpendLedger`: weak fairness of each process's own steps (a Worker calls
`reviewloop_review` again after every result and every crash, a running process keeps
running, a provider call ends by its timeout), and strong fairness of `AuthorizeStep`,
since a review that could make a call on every visit is not sent away for ever. No fairness
for faults, crashes, denials or the operator. `LoopLease`: weak fairness of `Tick` (time
passes) and of each claimant's step; none for crashes, heartbeats or verification. The
other models state safety only: that a call of the controller ends is bounded by
`RoundsAreBounded` (re-runs of the Gate) and by the finite chunk plan, and that a failover
ends by its attempt limit.

## 4. What is proved

All theorems hold for any number of processes, reservations, operations, families,
claimants, hosts, files, contents and phases, any limits, and any number of faults and
crashes. TLC also checked each inductive invariant on the instances of section 3.

Paid-call protocol (assumption of all but the first: `Displacement = FALSE`, i.e. a live
owner keeps its lease):

- `TypeCorrect`: `Spec => []TypeOK`.
- `LedgersAlwaysAgree`: the inductive invariant. `TypeOK` and the disk invariants are not
  inductive alone, since every write publishes a whole cache: one needs that at most one
  process reviews (`OneReviewer`), that its cache is the disk, or the disk reconciled
  when a swallowed write failed (`CacheAgrees`, `ViewAgrees`), that its open reservation
  is the only one (`InFlightAgrees`) and that what it was authorized on still holds
  (`AuthorizationHolds`, `GrantIsFree`). With them, each step transforms one map, and
  `Sound*` lemmas show what `WithReservation`, `WithDispatch` and `Reconciled` preserve.
- From it: `NothingHalfSettled`, `SpendAlwaysKept`, `GrantsDispatchOnce`,
  `HistoryAlwaysKept`, `ExclusionsHold`.
- `ClaimsPayOnce` and `RetriesStayInOperation` from `ClaimInv`, which counts: of each
  operation, the calls that may have been billed and that no human granted are no more than
  its claims (`ClaimsSuffice`), one fewer while an authorized call is on its way
  (`CallFits`). A failover consumes no claim, so its step needs to know that nothing of its
  operation was paid before: every recorded attempt is earlier (`AttemptIsLater`, from the
  maximum of a finite set), no billed call is without a record when
  one is authorized (`BilledIsRecorded`), and an earlier attempt proven to be zero was not billed
  (`ZeroIsFree`). Calls a human granted are mapped one to one to the grants that name them.
- `UsageStaysBounded` from `UsageInv`: until an authorized call is made, what was billed and
  not accepted as lost is below the ceiling. It assumes that a call's usage is bounded
  (`Usage` finite and not empty) and `MaxUsage > 0` (`reviewSpend.js:136` takes nothing
  else). The sum is a fold over a set, whose recursion no library theorem applies to here;
  `SumsAgree`, `SumsExist` and `UsageIsSum` derive it from `Smallest`: of a set of finite
  sets, one has no other below it, so a smallest counterexample does what induction would.
- `ContractImplemented`: initial states map to initial states, and every step to a
  `Dispatch`, `Account`, `Accept` or a stutter of `SpendContract`.

Lease (no assumption beyond `LeaseAssumption`):

- `LeaseTypeCorrect`: `Spec => []TypeOK`.
- `SoleHolder`: by `Exclusion`, inductive on one host while no live reclaimer's guard was
  taken over: holders have their lock at the path, whoever is between guard and removal
  has its guard at the path, and whoever is about to unlink faces a dead owner's lock.
- `ConfirmationsInOrder`: by `LastIsPublished` (the lock at the path is the last one
  linked), on any hosts, takeovers included.
- `LeaseHandover`: only `Link` puts a claimant at the path, and only at a free one.

Controller (no assumption beyond `ControllerAssumption`):

- `LifeCycleIsLegal`, `EndedStaysEnded`, `PhasesAreKept` rest on `Lifecycle`: the loop on
  disk rests in one of five states and has completed exactly as many phases as its index
  says; the copy a call works on is REVIEWING, on the phase of the disk, and the loop on disk
  has not ended. Without the last part a save could follow a PASS; without the second a
  completed phase could be written over another.
- `PassIsOneState` needs `Faithful` besides: what holds between tree, tested tree, collected
  tree, evidence and verdict at each place of a call. The property speaks of one place only
  (`complete`) and says nothing about how a call gets there through the stabilising loop.
  `NoNewFailures` is the lemma about `GateVerdict` that a verdict other than FAIL leaves only
  failures of begin.
- `GatesConverge` rests on `Convergence`. The property bounds the reviews a gate has decided on
  by its escalations; to be inductive it needs the epoch and the round within it: a gate that
  may go on has decided on no more than the earlier epochs grant, the rounds of this one and
  the Supervisor calls that brought no strategy (`Within`), one fewer while a review is under
  way (`Begun`). It needs `PostRounds \in Nat \ {0}` (`reviewPolicy.js:35` has 2): with no round
  after an escalation the bound is false.
- `ControllerTyped`, `ResumedRoundsAreKept`, `ChunksArePaidOnce` and `AnswersHold` come from
  the same invariant: the checkpoint on disk is that of the review in memory, less the chunk
  being saved (`Resumable`).
- `PassIsReviewed` needs `Coverage`: every chunk of a checkpoint that did not fail was read
  (`ChunksRead`), so was all in the boundary of the last phase (`BoundaryRead`), which the
  reduced final diff relies on, and what a review leaves open is in a chunk of its plan.
  `ChunksCover` is the lemma that the chunk plan leaves nothing out.

Git evidence (no assumption beyond `EvidenceAssumption`):

- `EvidenceTyped`, `DeltaMissesNothing`, `UntrackedStaysHome` and `WorkerIsNotBlamed` rest on
  `Evidence`. The properties speak of what was there at begin, the collection sees only the
  baseline: `Remembers` says that this holds the tracked tree of that moment, and a digest of
  every file untracked then unless it says itself that it is incomplete. `SoundUnlessKilled`
  is why a failing command fails the collection, and a killed one does not (finding 4).

Failover (no assumption beyond `FailoverAssumption`):

- `FailoversHold`: of `Failovers`, `Own` is about the state of one process, which no step of
  another touches. `Budget` lets the retry budget survive a restart: while it lasts, the log
  holds no more transient failures than the call accounts for, but one that is being dealt
  with, and a family the log shows as spent is one the call will not select. `Logged` says
  that the failure which spent a family stays its last record.
- From it `FailoverTyped`, `RetryBudgetHolds`, `HealthIsEarned`, `EachFamilyOnce`, and the
  action properties `CooldownsAreSeen` and `CooldownsAreKept` of the shared pool file.

Only model-checked: the liveness properties `InDoubtIsResolved` and `AbandonedLeaseIsReclaimed`
(liveness under fairness and ENABLED are beyond the prover), and the five violation runs.
Every invariant and action property of a passing run is stated by a theorem.

## 5. What is not modelled

*SpendLedger*: the cost ceiling (same shape as the usage ceiling); inference of the latch
from logs of older builds; failing reads; evidence registration (an operation may cite the
states of `EvidenceOf`); budget overrides (limits are constants); `cancelPreDispatch`, which
no caller uses. `updateWorkflowState` is one step: its unlocked read-modify-write is safe
only under the lease.

*LoopLease*: file errors other than "exists" and "absent".

*ReviewController*: texts, telemetry, safety events, resume packets and metrics; the parsing
and limits of contracts and objectives; where in a file a change is. Evidence is one artifact
per gate. An edit behind a running review (`StrayEdit`) is a mishap, not the Worker's rule.

*GitEvidence*: a killed `git stash create`; more than one failing command, or unreadable
file, per collection (trouble with the scoped diff hits both re-scopes); files that are
ignored and unseen throughout; renames detected by Git; submodule contents.

*ProviderFailover*: calls without a router (tests only); a claim written by an older build
without attempt records; lengths of time beyond "over or not yet"; takeover of the pool lock
from a dead owner; an unreadable pool file; the throttle and cache of the preflight, whose
result is "nothing learnt" or a snapshot of some of the agy pools. A permit is reduced to "every earlier
attempt is proven to have cost nothing and nothing is unresolved". The stale-health
revalidator is left out: in production it can clear only what a missing transport blocks all
the same. Effort selection and capability metadata choose how a family is called, not which.

Components not modelled are listed in `PROJECT.json` with their reasons: usage accounting is
arithmetic over provider reports; transports, MCP server, CLI, installer and doctor are input
and output around the modelled protocols. The rest of what is not mapped in modelled files is
prompts, payload parsing, report texts and argument checking.

## 6. Findings

1. `RecallYieldsDispatch` is violated: a crash between the durable claim and its
   reservation leaves a claim no re-call can use
   (`modelSpendAuthority.js:537`; `docs/ARCHITECTURE.md:617-619`).
2. `UnresolvedCanBeAcknowledged` is violated: a cancelled call leaves a spend record that
   makes `acknowledge-spend` refuse (`reviewSpend.js:1000`; `spendRecovery.js:156-160`).
3. `NeverUnlinksFreshLease` is violated: the guard is visible before it is stamped, so two
   reclaimers can be inside it (`loopLease.js:295`; comment at 272-275).
4. `OnlyExitZeroMeansNoChange` is violated: a git child killed by a signal closes with code
   null, which `runGit` takes for exit 0, so that a complete delta can miss a change
   (`gitEvidence.js:189`; header at 17-24). `gatePolicy.js:162` does the same with a Gate
   command.
5. `EveryCandidateIsReached` is violated: after AGY_ENOENT or AGY_SPAWN_FAILED the router
   selects the same family again, and the `tried` check ends the call with the other
   candidates untried (`providerFailover.js:301`; comment at 16-18; `providerWiring.js:539`).

## 7. Observations

Met while modelling, without a run of their own:

- The ownership probe runs once, before `meteredCall` (`providerFailover.js:336`); the four
  writes and the dispatch after it are not gated, where `docs/ARCHITECTURE.md:398-402` says
  that a lost lease stops every one of them. `ConfirmationsFollowPublication` bounds it: no
  later probe confirms a displaced owner.
- Files edited while the reviews of a phase run are taken into the phase's boundary unseen,
  and the reduced final diff may then leave them out, though `finalDiffReducer.js:3-12` calls
  every changed line covered. `PassCoversEveryChange` excepts them (`strayed`).
- A Supervisor call that fails takes no escalation and no epoch, so a gate can see more
  reviews than the longest path of `docs/ARCHITECTURE.md:470`; `RoundsAreBounded` counts them
  as `setbacks`.
- A Gate that fails without a nameable failure has the fingerprint of a pass; a review that
  was cancelled or FAILED latches its fingerprint. Either may turn the next identical call into
  NO_PROGRESS.
- `spendDenialResult` swallows the failure of its save (`controller.js:1369`), though the
  comment above it says that answer and disk can never disagree; `AnswersAreDurable` says
  what is left: the loop can be called again.
- A Gate command that prints a failure known at begin and then times out degrades to WARN.
- A tree put back to an earlier state registers the same Supervisor evidence again, whose
  denial neither escalates nor exhausts the gate.
- A file that was ignored at begin and is not any more is shown whole, old content included.
  On platforms without a whole-path link guard any new file in a directory makes the delta
  incomplete.
- A second family that uses up the shared transient budget is exhausted in memory only: after
  a restart it gets one more call, where `providerFailover.js:6-8` says that a crash grants none.
  `NoFourthTransientCall` holds all the same.
- An update of an expired cooldown that had to give up on the lock is "newer" than a cooldown
  another process recorded meanwhile and can erase it later (`roleRouting.js:151-160`,
  `226-239`). `CooldownsSurvive` and `CooldownSeenEverywhere` except exactly that.

## 8. Plan

Done: `SpendContract`, `SpendLedger` and the refinement; `LoopLease`; `ReviewController` with
`GatePolicy`; `GitEvidence`; `ProviderFailover`; the proofs of section 4. Left, in this order:

1. `Snapshot`: read, temporary file, rename and fsync, with `updateWorkflowState` split, shown
   to implement the atomic write the other modules assume while a lease is held.
2. The composition of `ReviewController` with `ProviderFailover` and `SpendLedger`, replacing
   the abstract answer of a paid call.
3. Usage accounting as operators against a reference definition.
