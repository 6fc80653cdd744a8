----------------------- MODULE ProviderFailoverProofs -----------------------
(***************************************************************************)
(* Bounded failover (providerFailover.js, roleRouting.js), for any number  *)
(* of processes, candidates, retries, ticks and restarts.                  *)
(*                                                                         *)
(* A process is answerable for the state it owns: its durable attempt log, *)
(* the health it keeps in memory, and the call it is in.  Own says what    *)
(* holds of that state, and no step of another process touches it.  What   *)
(* makes the retry budget survive a restart is in Budget: while the budget *)
(* of a call lasts, the log holds no more transient failures than the call *)
(* accounts for, and a family the log shows as spent is one the call will  *)
(* not select.  What makes health honest is that a spent family is never   *)
(* called again, so that the failure which spent it stays its last.        *)
(***************************************************************************)
EXTENDS ProviderFailover, FiniteSetTheorems, SequenceTheorems, TLAPS

-----------------------------------------------------------------------------
(* The inductive invariant.                                                 *)

Call == [tried : SUBSET Family, exhausted : SUBSET Family, used : Nat, n : Nat,
         family : Family \cup {None}, kind : Retryable \cup {None}, pool : Pool \cup {None},
         read : SUBSET Pool]

\* The types of what is shared, and the shape of what each process owns.
Shape ==
    /\ disk \in [Pool -> Entry]
    /\ pending \in [Process -> [Pool -> Entry \cup {None}]]
    /\ health \in [Process -> [Family -> {"READY", "UNAVAILABLE", "AUTH_FAILED"}]]
    /\ blocked \in [Process -> BOOLEAN]
    /\ pc \in [Process -> {"idle", "preflight", "depleted", "route", "lift", "call", "failure",
                           "backoff"}]
    /\ op \in [Process -> Call]
    /\ DOMAIN log = Process /\ DOMAIN human = Process /\ DOMAIN runs = Process
    /\ clock \in 0..MaxClock

\* The attempt log.  A family is spent once, by a transient failure that stays the
\* last thing that happened to it.
Logged(p) ==
    /\ log[p] \in Seq([family : Candidates(p), kind : Outcome[p]])
    /\ human[p] \subseteq Candidates(p) /\ runs[p] \in 0..MaxRuns[p]
    /\ \A f \in Family : Cardinality(Records(p, f, Transient)) <= Delays + 1
    /\ \A f \in Family : Cardinality(Records(p, f, Transient)) > Delays =>
           LatestIs(p, Records(p, f, Outcome[p]), Transient)

\* The health this process keeps.
Earned(p) ==
    \A f \in Family : health[p][f] = "AUTH_FAILED" =>
        LatestIs(p, Records(p, f, Outcome[p]), AuthFailure)

\* The stages of a call: who is being called is healthy and not spent; a failure
\* that is being dealt with is the last record.
Staged(p) ==
    /\ op[p].tried \subseteq Candidates(p) /\ op[p].exhausted \subseteq Candidates(p)
    /\ op[p].n <= MaxAttempts(p) /\ op[p].family \in Candidates(p) \cup {None}
    /\ pc[p] = "lift" => op[p].pool \in Pool
    /\ pc[p] = "call" => /\ op[p].family \in Candidates(p) \ op[p].exhausted
                         /\ Healthy(p, op[p].family)
    /\ pc[p] = "failure" =>
           /\ op[p].family \in Candidates(p) /\ op[p].kind \in Retryable
           /\ Len(log[p]) > 0
           /\ log[p][Len(log[p])] = [family |-> op[p].family, kind |-> op[p].kind]

\* All transient failures of the operation, and whether one is being dealt with.
Transients(p) == {i \in DOMAIN log[p] : log[p][i].kind \in Transient}
Failing(p) == pc[p] = "failure" /\ op[p].kind \in Transient

\* While the budget lasts the call accounts for every transient failure; a family
\* that is not exhausted has a call left.
Budget(p) ==
    pc[p] # "idle" =>
        /\ op[p].used < Delays =>
               Cardinality(Transients(p)) <= op[p].used + (IF Failing(p) THEN 1 ELSE 0)
        /\ \A f \in Family \ op[p].exhausted :
               \/ Cardinality(Records(p, f, Transient)) <= Delays
               \/ Failing(p) /\ f = op[p].family

\* Each attempt was of a family not tried before, or of one a retry gave back.
Tries(p) ==
    pc[p] # "idle" => op[p].n <= Cardinality(op[p].tried) + op[p].used

Own(p) == Logged(p) /\ Earned(p) /\ Staged(p) /\ Budget(p) /\ Tries(p)

Failovers == Shape /\ \A p \in Process : Own(p)

-----------------------------------------------------------------------------
(* The quota registry.                                                      *)

LEMMA RegistryEntries ==
  ASSUME clock \in 0..MaxClock
  PROVE  /\ Fresh \in Entry /\ Ready \in Entry
         /\ \A until \in Nat, usage \in BOOLEAN : Cooled(until, usage) \in Entry
         /\ \A e \in Entry : Reopened(e) \in Entry /\ Lifted(e) \in Entry
<1>1. Fresh \in Entry /\ Ready \in Entry
  BY FailoverAssumption DEF Fresh, Ready, Entry
<1>2. \A until \in Nat, usage \in BOOLEAN : Cooled(until, usage) \in Entry
  BY DEF Cooled, Entry
<1>3. \A e \in Entry : Reopened(e) \in Entry
  BY DEF Reopened, Entry
<1> QED
  BY <1>1, <1>2, <1>3 DEF Lifted

\* What a process sees of the pools is an entry for each.
LEMMA ViewTyped ==
  ASSUME Shape, NEW p \in Process
  PROVE  View(p) \in [Pool -> Entry]
<1> SUFFICES ASSUME NEW q \in Pool
             PROVE  (IF pending[p][q] # None /\ pending[p][q].at >= disk[q].at
                     THEN pending[p][q] ELSE disk[q]) \in Entry
  BY DEF View
<1>1. pending[p][q] \in Entry \cup {None} /\ disk[q] \in Entry
  BY DEF Shape
<1> QED
  BY <1>1

\* Without updates of its own a process sees the file.
LEMMA ViewOfTheFile ==
  ASSUME NEW p \in Process, NEW q \in Pool, pending[p][q] = None
  PROVE  View(p)[q] = disk[q]
BY DEF View

\* An update leaves the registry typed, whether it got the lock or not.
LEMMA UpdateTyped ==
  ASSUME Shape, NEW p \in Process, NEW q \in Pool, NEW e \in Entry, Update(p, q, e)
  PROVE  /\ disk' \in [Pool -> Entry]
         /\ pending' \in [Process -> [Pool -> Entry \cup {None}]]
<1>1. View(p) \in [Pool -> Entry]
  BY ViewTyped
<1>2. CASE /\ disk' = [View(p) EXCEPT ![q] = e]
           /\ pending' = [pending EXCEPT ![p] = [r \in Pool |-> None]]
  BY <1>1, <1>2 DEF Shape
<1>3. CASE /\ pending' = [pending EXCEPT ![p][q] = IF e # View(p)[q] THEN e ELSE @]
           /\ UNCHANGED disk
  <2>1. (IF e # View(p)[q] THEN e ELSE pending[p][q]) \in Entry \cup {None}
    BY DEF Shape
  <2> QED
    BY <1>3, <2>1 DEF Shape
<1> QED
  BY <1>2, <1>3 DEF Update

-----------------------------------------------------------------------------
(* The attempt records.                                                     *)

LEMMA TransientIsRetryable == Transient \subseteq Retryable /\ Transient \cap Unresolved = {}
BY DEF Transient, Retryable, Unresolved

\* There are only so many candidates and so many records.
LEMMA CandidatesAreFinite ==
  ASSUME NEW p \in Process
  PROVE  IsFiniteSet(Candidates(p)) /\ Candidates(p) \subseteq Family /\ MaxAttempts(p) \in Nat
<1>1. Policy[p] \in Seq(Family)
  BY FailoverAssumption
<1>2. Policy[p] \in [1..Len(Policy[p]) -> Family] /\ Len(Policy[p]) \in Nat
  BY <1>1
<1>3. IsFiniteSet(1..Len(Policy[p]))
  BY <1>2, FS_Interval
<1>4. Candidates(p) = {Policy[p][i] : i \in 1..Len(Policy[p])}
  BY <1>2 DEF Candidates, ToSet
<1>5. Policy[p] \in Surjection(1..Len(Policy[p]), Candidates(p))
  BY <1>2, <1>4 DEF Surjection
<1>6. IsFiniteSet(Candidates(p))
  BY <1>3, <1>5, FS_Surjection
<1> QED
  BY <1>2, <1>4, <1>6, FailoverAssumption DEF MaxAttempts

LEMMA LogIsASequence ==
  ASSUME NEW p \in Process, Logged(p)
  PROVE  /\ Len(log[p]) \in Nat /\ DOMAIN log[p] = 1..Len(log[p])
         /\ \A i \in 1..Len(log[p]) : log[p][i] \in [family : Candidates(p), kind : Outcome[p]]
<1> DEFINE R == [family : Candidates(p), kind : Outcome[p]]
<1>1. log[p] \in Seq(R)
  BY DEF Logged
<1> HIDE DEF R
<1>2. /\ Len(log[p]) \in Nat /\ DOMAIN log[p] = 1..Len(log[p])
      /\ \A i \in 1..Len(log[p]) : log[p][i] \in R
  BY <1>1
<1> QED
  BY <1>2 DEF R

LEMMA RecordsAreFinite ==
  ASSUME NEW p \in Process, Logged(p)
  PROVE  /\ IsFiniteSet(Transients(p)) /\ Cardinality(Transients(p)) \in Nat
         /\ \A f, kinds : /\ IsFiniteSet(Records(p, f, kinds))
                          /\ Cardinality(Records(p, f, kinds)) \in Nat
         /\ \A f : Cardinality(Records(p, f, Transient)) <= Cardinality(Transients(p))
<1>1. DOMAIN log[p] = 1..Len(log[p]) /\ Len(log[p]) \in Nat
  BY DEF Logged
<1>2. IsFiniteSet(DOMAIN log[p])
  <2>1. \A n \in Nat : IsFiniteSet(1..n)
    <3> SUFFICES ASSUME NEW n \in Nat PROVE IsFiniteSet(1..n)
      OBVIOUS
    <3>1. 1 \in Int /\ n \in Int
      OBVIOUS
    <3> QED
      BY <3>1, FS_Interval, Zenon
  <2> QED
    BY <1>1, <2>1, Zenon
<1>3. /\ Transients(p) \subseteq DOMAIN log[p]
      /\ \A f, kinds : Records(p, f, kinds) \subseteq DOMAIN log[p]
      /\ \A f : Records(p, f, Transient) \subseteq Transients(p)
  BY DEF Transients, Records
<1>4. IsFiniteSet(Transients(p)) /\ \A f, kinds : IsFiniteSet(Records(p, f, kinds))
  BY <1>2, <1>3, FS_Subset
<1>5. \A f : Cardinality(Records(p, f, Transient)) <= Cardinality(Transients(p))
  BY <1>3, <1>4, FS_Subset
<1> QED
  BY <1>4, <1>5, FS_CardinalityType

\* A further record counts for the family and the kind it is of, and for no other.
LEMMA AppendRecords ==
  ASSUME NEW p \in Process, Logged(p), NEW r, log'[p] = Append(log[p], r)
  PROVE  \A f, kinds :
           Records(p, f, kinds)' =
             IF r.family = f /\ r.kind \in kinds
             THEN Records(p, f, kinds) \cup {Len(log[p]) + 1} ELSE Records(p, f, kinds)
<1>1. /\ Len(log[p]) \in Nat /\ DOMAIN log[p] = 1..Len(log[p])
      /\ DOMAIN log'[p] = 1..(Len(log[p]) + 1)
      /\ \A i \in 1..Len(log[p]) : log'[p][i] = log[p][i]
      /\ log'[p][Len(log[p]) + 1] = r
  BY DEF Logged
<1> QED
  BY <1>1 DEF Records

\* What a count becomes by one more.
LEMMA OneMore ==
  ASSUME NEW S, IsFiniteSet(S), NEW x, x \notin S
  PROVE  Cardinality(S \cup {x}) = Cardinality(S) + 1
BY FS_AddElement

LEMMA AppendTransients ==
  ASSUME NEW p \in Process, Logged(p), NEW r, log'[p] = Append(log[p], r)
  PROVE  /\ r.kind \in Transient =>
              Cardinality(Transients(p))' = Cardinality(Transients(p)) + 1
         /\ r.kind \notin Transient =>
              Cardinality(Transients(p))' = Cardinality(Transients(p))
<1>1. /\ Len(log[p]) \in Nat /\ DOMAIN log[p] = 1..Len(log[p])
      /\ DOMAIN log'[p] = 1..(Len(log[p]) + 1)
      /\ \A i \in 1..Len(log[p]) : log'[p][i] = log[p][i]
      /\ log'[p][Len(log[p]) + 1] = r
  BY DEF Logged
<1>2. Len(log[p]) + 1 \notin Transients(p) /\ IsFiniteSet(Transients(p))
  <2>1. Len(log[p]) + 1 \notin Transients(p)
    BY <1>1 DEF Transients
  <2> QED
    BY <2>1, RecordsAreFinite
<1>3. CASE r.kind \in Transient
  <2>1. Transients(p)' = Transients(p) \cup {Len(log[p]) + 1}
    BY <1>1, <1>3 DEF Transients
  <2> QED
    BY <1>2, <1>3, <2>1, OneMore
<1>4. CASE r.kind \notin Transient
  <2>1. Transients(p)' = Transients(p)
    BY <1>1, <1>4 DEF Transients
  <2> QED
    BY <1>4, <2>1
<1> QED
  BY <1>3, <1>4

-----------------------------------------------------------------------------
(* What steps have in common.                                               *)

Stage == {"idle", "preflight", "depleted", "route", "lift", "call", "failure", "backoff"}

LEMMA GotoMoves ==
  ASSUME Shape, NEW p \in Process, NEW l \in Stage, Goto(p, l)
  PROVE  /\ pc' \in [Process -> Stage] /\ pc'[p] = l
         /\ \A q \in Process \ {p} : pc'[q] = pc[q]
BY DEF Shape, Goto, Stage

LEMMA EndMoves ==
  ASSUME Shape, NEW p \in Process, End(p)
  PROVE  /\ pc' \in [Process -> Stage] /\ pc'[p] = "idle"
         /\ op' \in [Process -> Call] /\ op'[p] = NoCall
         /\ \A q \in Process \ {p} : pc'[q] = pc[q] /\ op'[q] = op[q]
<1>1. NoCall \in Call
  BY DEF NoCall, Call
<1> QED
  BY <1>1 DEF Shape, End, Goto, Stage

\* The attempt log stays as it is when no attempt ends.
LEMMA LogStays ==
  ASSUME NEW p \in Process, log'[p] = log[p]
  PROVE  /\ \A f, kinds : Records(p, f, kinds)' = Records(p, f, kinds)
         /\ Transients(p)' = Transients(p)
         /\ \A S, kinds : LatestIs(p, S, kinds)' = LatestIs(p, S, kinds)
BY DEF Records, Transients, LatestIs

LEMMA LoggedStays ==
  ASSUME NEW p \in Process, Logged(p), log'[p] = log[p],
         human'[p] \subseteq Candidates(p), runs'[p] \in 0..MaxRuns[p]
  PROVE  Logged(p)'
<1>1. /\ \A f, kinds : Records(p, f, kinds)' = Records(p, f, kinds)
      /\ \A f : LatestIs(p, Records(p, f, Outcome[p]), Transient)'
                = LatestIs(p, Records(p, f, Outcome[p]), Transient)
  BY LogStays DEF LatestIs, Records
<1> QED
  BY <1>1 DEF Logged, Candidates

LEMMA EarnedStays ==
  ASSUME NEW p \in Process, Earned(p), log'[p] = log[p],
         \A f \in Family : health'[p][f] = "AUTH_FAILED" => health[p][f] = "AUTH_FAILED"
  PROVE  Earned(p)'
BY DEF Earned, LatestIs, Records

\* Nothing is promised of a call that is over.
LEMMA IdleIsSafe ==
  ASSUME NEW p \in Process, pc'[p] = "idle", op'[p] = NoCall
  PROVE  Staged(p)' /\ Budget(p)' /\ Tries(p)'
<1>1. MaxAttempts(p) \in Nat
  BY CandidatesAreFinite
<1>2. /\ NoCall.tried = {} /\ NoCall.exhausted = {} /\ NoCall.n = 0 /\ NoCall.family = None
  BY DEF NoCall
<1> QED
  BY <1>1, <1>2 DEF Staged, Budget, Tries, MaxAttempts, Candidates

\* A step of another process.
LEMMA OthersAreLeftAlone ==
  ASSUME NEW p \in Process, Own(p),
         log'[p] = log[p], human'[p] = human[p], runs'[p] = runs[p],
         health'[p] = health[p], pc'[p] = pc[p], op'[p] = op[p]
  PROVE  Own(p)'
<1>1. Logged(p)'
  BY LoggedStays DEF Own, Logged
<1>2. Earned(p)'
  BY EarnedStays DEF Own
<1>3. Staged(p)'
  BY DEF Own, Staged, Healthy, MaxAttempts, Candidates
<1>4. \A f : Cardinality(Records(p, f, Transient))' = Cardinality(Records(p, f, Transient))
      /\ Cardinality(Transients(p))' = Cardinality(Transients(p))
  BY LogStays
<1>5. Budget(p)' /\ Tries(p)'
  BY <1>4 DEF Own, Budget, Tries, Failing
<1> QED
  BY <1>1, <1>2, <1>3, <1>5 DEF Own

\* A process moves on in its call, and changes no more than the shared pools.
LEMMA Moves ==
  ASSUME Failovers, NEW p \in Process,
         op' \in [Process -> Call], pc' \in [Process -> Stage],
         \A q \in Process \ {p} : pc'[q] = pc[q] /\ op'[q] = op[q],
         UNCHANGED <<log, human, runs, health, blocked, clock>>,
         disk' \in [Pool -> Entry], pending' \in [Process -> [Pool -> Entry \cup {None}]],
         Staged(p)', Budget(p)', Tries(p)'
  PROVE  Failovers'
<1>1. Shape'
  BY DEF Failovers, Shape, Stage, Call
<1>2. Logged(p)' /\ Earned(p)'
  BY LoggedStays, EarnedStays DEF Failovers, Own, Logged
<1>3. \A q \in Process \ {p} : Own(q)'
  BY OthersAreLeftAlone DEF Failovers
<1> QED
  BY <1>1, <1>2, <1>3 DEF Failovers, Own

-----------------------------------------------------------------------------
(* The steps of a call.                                                     *)

\* Between attempts, with nothing of the call changed but the pool it looks at.
LEMMA CallGoesOn ==
  ASSUME Failovers, NEW p \in Process, log'[p] = log[p],
         pc[p] \in {"preflight", "depleted", "route", "lift", "backoff"},
         pc'[p] \in {"preflight", "depleted", "route", "lift", "backoff"},
         op'[p].tried = op[p].tried, op'[p].exhausted = op[p].exhausted,
         op'[p].used = op[p].used, op'[p].n = op[p].n, op'[p].family = op[p].family,
         pc'[p] = "lift" => op'[p].pool \in Pool
  PROVE  Staged(p)' /\ Budget(p)' /\ Tries(p)'
<1>1. Staged(p) /\ Budget(p) /\ Tries(p)
  BY DEF Failovers, Own
<1>2. \A f : Cardinality(Records(p, f, Transient))' = Cardinality(Records(p, f, Transient))
      /\ Cardinality(Transients(p))' = Cardinality(Transients(p))
  BY LogStays
<1>3. ~Failing(p) /\ ~Failing(p)'
  BY DEF Failing
<1>4. Budget(p)' /\ Tries(p)'
  BY <1>1, <1>2, <1>3 DEF Budget, Tries
<1>5. Staged(p)'
  BY <1>1 DEF Staged, MaxAttempts, Candidates
<1> QED
  BY <1>4, <1>5

LEMMA NoSnapshotKeeps ==
  ASSUME Failovers, NEW p \in Process, NoSnapshot(p)
  PROVE  Failovers'
<1>1. pc' \in [Process -> Stage] /\ pc'[p] = "route" /\ \A q \in Process \ {p} : pc'[q] = pc[q]
  BY GotoMoves DEF Failovers, NoSnapshot, Stage
<1>2. Staged(p)' /\ Budget(p)' /\ Tries(p)'
  BY <1>1, CallGoesOn DEF NoSnapshot, durable, memory
<1> QED
  BY <1>1, <1>2, Moves DEF NoSnapshot, durable, memory, Failovers, Shape

\* Recording a snapshot changes the shared pools, and of the call only what it has
\* recorded.
LEMMA PreflightMoves ==
  ASSUME Failovers, NEW p \in Process, NEW S \in SUBSET Pool,
         op' = [op EXCEPT ![p].read = S],
         pc[p] \in {"preflight", "depleted"},
         NEW l \in {"preflight", "depleted", "route"}, pc' = [pc EXCEPT ![p] = l],
         UNCHANGED <<log, blocked, human, health, runs, clock>>,
         disk' \in [Pool -> Entry], pending' \in [Process -> [Pool -> Entry \cup {None}]]
  PROVE  Failovers'
<1>1. op \in [Process -> Call] /\ pc \in [Process -> Stage]
  BY DEF Failovers, Shape, Stage
<1>2. /\ pc' \in [Process -> Stage] /\ pc'[p] = l
      /\ \A r \in Process \ {p} : pc'[r] = pc[r] /\ op'[r] = op[r]
  BY <1>1 DEF Stage
<1>3. /\ op' \in [Process -> Call]
      /\ op'[p].tried = op[p].tried /\ op'[p].exhausted = op[p].exhausted
      /\ op'[p].used = op[p].used /\ op'[p].n = op[p].n /\ op'[p].family = op[p].family
  BY <1>1 DEF Call
<1>4. Staged(p)' /\ Budget(p)' /\ Tries(p)'
  BY <1>2, <1>3, CallGoesOn
<1> QED
  BY <1>2, <1>3, <1>4, Moves

\* What a snapshot writes are entries.
LEMMA SnapshotEntries ==
  ASSUME Failovers, NEW p \in Process, NEW q \in Pool
  PROVE  /\ Ready \in Entry /\ View(p)[q] \in Entry /\ Lifted(View(p)[q]) \in Entry
         /\ \A n \in Cooldowns, known \in BOOLEAN : Cooled(clock + n, known) \in Entry
<1>1. clock \in 0..MaxClock /\ \A n \in Cooldowns : clock + n \in Nat
  BY FailoverAssumption DEF Failovers, Shape
<1>2. View(p)[q] \in Entry
  BY ViewTyped DEF Failovers
<1> QED
  BY <1>1, <1>2, RegistryEntries

LEMMA ReadSetsAreTyped ==
  ASSUME Failovers, NEW p \in Process
  PROVE  op[p].read \in SUBSET Pool
BY DEF Failovers, Shape, Call

LEMMA AvailableKeeps ==
  ASSUME Failovers, NEW p \in Process, NEW q \in Pool, Available(p, q)
  PROVE  Failovers'
<1>1. (\E e \in Entry : Update(p, q, e)) \/ UNCHANGED <<disk, pending>>
  BY SnapshotEntries DEF Available
<1>2. disk' \in [Pool -> Entry] /\ pending' \in [Process -> [Pool -> Entry \cup {None}]]
  BY <1>1, UpdateTyped DEF Failovers, Shape
<1>3. pc' = [pc EXCEPT ![p] = "preflight"]
  BY DEF Available, Failovers, Shape
<1>4. op[p].read \cup {q} \in SUBSET Pool
  BY ReadSetsAreTyped
<1> QED
  BY <1>2, <1>3, <1>4, PreflightMoves DEF Available, Reads

LEMMA DepletedKeeps ==
  ASSUME Failovers, NEW p \in Process, NEW q \in Pool, NEW n \in Cooldowns,
         NEW known \in BOOLEAN, Depleted(p, q, n, known)
  PROVE  Failovers'
<1>1. (\E e \in Entry : Update(p, q, e)) \/ UNCHANGED <<disk, pending>>
  BY SnapshotEntries DEF Depleted
<1>2. disk' \in [Pool -> Entry] /\ pending' \in [Process -> [Pool -> Entry \cup {None}]]
  BY <1>1, UpdateTyped DEF Failovers, Shape
<1>3. op[p].read \cup {q} \in SUBSET Pool
  BY ReadSetsAreTyped
<1> QED
  BY <1>2, <1>3, PreflightMoves DEF Depleted, Reads, Goto

LEMMA RecordUsageCheckKeeps ==
  ASSUME Failovers, NEW p \in Process, RecordUsageCheck(p)
  PROVE  Failovers'
<1>1. PICK q \in op[p].read : Update(p, q, View(p)[q])
  BY DEF RecordUsageCheck
<1>2. q \in Pool
  BY ReadSetsAreTyped
<1>3. disk' \in [Pool -> Entry] /\ pending' \in [Process -> [Pool -> Entry \cup {None}]]
  BY <1>1, <1>2, SnapshotEntries, UpdateTyped DEF Failovers
<1> QED
  BY <1>3, PreflightMoves, {} \in SUBSET Pool DEF RecordUsageCheck, Goto

LEMMA NoticeKeeps ==
  ASSUME Failovers, NEW p \in Process, Notice(p)
  PROVE  Failovers'
<1>1. pc' \in [Process -> Stage] /\ pc'[p] = "lift" /\ \A r \in Process \ {p} : pc'[r] = pc[r]
  BY GotoMoves DEF Failovers, Notice, Stage
<1>2. PICK q \in Lapsed(p) : op' = [op EXCEPT ![p].pool = q]
  BY DEF Notice
<1>3. q \in Pool
  <2>1. Policy[p] \in Seq(Family)
    BY FailoverAssumption
  <2>2. \A i \in DOMAIN Policy[p] : Policy[p][i] \in Family
    BY <2>1
  <2> QED
    BY <2>2, FailoverAssumption DEF Lapsed
<1>4. op \in [Process -> Call]
  BY DEF Failovers, Shape
<1>5. /\ op' \in [Process -> Call] /\ \A r \in Process \ {p} : op'[r] = op[r]
      /\ op'[p].tried = op[p].tried /\ op'[p].exhausted = op[p].exhausted
      /\ op'[p].used = op[p].used /\ op'[p].n = op[p].n /\ op'[p].family = op[p].family
      /\ op'[p].pool = q
  BY <1>2, <1>3, <1>4 DEF Call
<1>6. Staged(p)' /\ Budget(p)' /\ Tries(p)'
  BY <1>1, <1>3, <1>5, CallGoesOn DEF Notice, durable
<1> QED
  BY <1>1, <1>5, <1>6, Moves DEF Notice, durable, memory, Failovers, Shape

LEMMA LiftKeeps ==
  ASSUME Failovers, NEW p \in Process, Lift(p)
  PROVE  Failovers'
<1>1. pc' \in [Process -> Stage] /\ pc'[p] = "route" /\ \A r \in Process \ {p} : pc'[r] = pc[r]
  BY GotoMoves DEF Failovers, Lift, Stage
<1> DEFINE q == op[p].pool
<1>2. q \in Pool
  BY DEF Failovers, Own, Staged, Lift
<1>3. op \in [Process -> Call]
  BY DEF Failovers, Shape
<1>4. /\ op' \in [Process -> Call] /\ \A r \in Process \ {p} : op'[r] = op[r]
      /\ op'[p].tried = op[p].tried /\ op'[p].exhausted = op[p].exhausted
      /\ op'[p].used = op[p].used /\ op'[p].n = op[p].n /\ op'[p].family = op[p].family
  BY <1>3 DEF Lift, Call
<1>5. Staged(p)' /\ Budget(p)' /\ Tries(p)'
  BY <1>1, <1>4, CallGoesOn DEF Lift
<1>6. View(p) \in [Pool -> Entry] /\ clock \in 0..MaxClock
  BY ViewTyped DEF Failovers, Shape
<1>7. Lifted(View(p)[q]) \in Entry /\ Reopened(View(p)[q]) \in Entry
  BY <1>2, <1>6, RegistryEntries
<1>8. disk' \in [Pool -> Entry] /\ pending' \in [Process -> [Pool -> Entry \cup {None}]]
  <2>1. CASE /\ disk' = [View(p) EXCEPT ![q] = Lifted(@)]
             /\ pending' = [pending EXCEPT ![p] = [r \in Pool |-> None]]
    BY <1>2, <1>6, <1>7, <2>1 DEF Failovers, Shape
  <2>2. CASE /\ pending' = [pending EXCEPT ![p][q] = Reopened(View(p)[q])]
             /\ UNCHANGED disk
    BY <1>2, <1>7, <2>2 DEF Failovers, Shape
  <2> QED
    BY <2>1, <2>2 DEF Lift
<1> QED
  BY <1>1, <1>4, <1>5, <1>8, Moves DEF Lift, Failovers, Shape

\* The call ends without a result of its own.
LEMMA EndKeeps ==
  ASSUME Failovers, NEW p \in Process, End(p), UNCHANGED <<durable, memory, runs, clock>>
  PROVE  Failovers'
<1>1. /\ pc' \in [Process -> Stage] /\ pc'[p] = "idle"
      /\ op' \in [Process -> Call] /\ op'[p] = NoCall
      /\ \A q \in Process \ {p} : pc'[q] = pc[q] /\ op'[q] = op[q]
  BY EndMoves DEF Failovers
<1>2. Staged(p)' /\ Budget(p)' /\ Tries(p)'
  BY <1>1, IdleIsSafe
<1> QED
  BY <1>1, <1>2, Moves DEF durable, memory, Failovers, Shape

LEMMA WakeKeeps ==
  ASSUME Failovers, NEW p \in Process, Wake(p)
  PROVE  Failovers'
<1>1. pc' \in [Process -> Stage] /\ pc'[p] = "route" /\ \A q \in Process \ {p} : pc'[q] = pc[q]
  BY GotoMoves DEF Failovers, Wake, Stage
<1>2. Staged(p)' /\ Budget(p)' /\ Tries(p)'
  BY <1>1, CallGoesOn DEF Wake, durable, memory
<1> QED
  BY <1>1, <1>2, Moves DEF Wake, durable, memory, Failovers, Shape

\* Who is selected is a healthy candidate, not exhausted, on a pool not cooling.
LEMMA SelectedIsEligible ==
  ASSUME NEW p \in Process, NEW f \in Selected(p)
  PROVE  /\ f \in Candidates(p) /\ Healthy(p, f)
         /\ f \notin op[p].exhausted /\ ~Cooling(View(p)[PoolOf[f]])
BY DEF Selected, Skipped, Excluded, Candidates, ToSet

LEMMA DispatchKeeps ==
  ASSUME Failovers, NEW p \in Process, NEW f \in Selected(p), Dispatch(p, f)
  PROVE  Failovers'
<1>1. /\ f \in Candidates(p) /\ Healthy(p, f) /\ f \notin op[p].exhausted
      /\ Candidates(p) \subseteq Family /\ IsFiniteSet(Candidates(p)) /\ MaxAttempts(p) \in Nat
  BY SelectedIsEligible, CandidatesAreFinite
<1>2. pc' \in [Process -> Stage] /\ pc'[p] = "call" /\ \A q \in Process \ {p} : pc'[q] = pc[q]
  BY GotoMoves DEF Failovers, Dispatch, Stage
<1>3. op \in [Process -> Call] /\ Staged(p) /\ Budget(p) /\ Tries(p)
  BY DEF Failovers, Shape, Own
<1>4. op' = [op EXCEPT ![p].tried = @ \cup {f}, ![p].family = f, ![p].n = @ + 1]
      /\ pc[p] = "route" /\ op[p].n < MaxAttempts(p) /\ f \notin op[p].tried
      /\ UNCHANGED <<durable, memory, runs, clock>>
  BY DEF Dispatch, Routes
<1>5. /\ op' \in [Process -> Call] /\ \A r \in Process \ {p} : op'[r] = op[r]
      /\ op'[p].tried = op[p].tried \cup {f} /\ op'[p].exhausted = op[p].exhausted
      /\ op'[p].used = op[p].used /\ op'[p].n = op[p].n + 1 /\ op'[p].family = f
  BY <1>1, <1>3, <1>4 DEF Call
<1>6. op[p].n \in Nat /\ op[p].used \in Nat
  BY <1>3 DEF Call
<1>7. Staged(p)'
  <2>1. op'[p].n <= MaxAttempts(p)
    BY <1>1, <1>4, <1>5, <1>6
  <2>2. op'[p].tried \subseteq Candidates(p)
    BY <1>1, <1>3, <1>5 DEF Staged
  <2>3. op'[p].exhausted \subseteq Candidates(p)
    BY <1>3, <1>5 DEF Staged
  <2>4. op'[p].family \in Candidates(p) \ op'[p].exhausted /\ health'[p][op'[p].family] = "READY"
    BY <1>1, <1>4, <1>5 DEF Healthy, memory
  <2> QED
    BY <1>2, <2>1, <2>2, <2>3, <2>4 DEF Staged, Healthy, MaxAttempts, Candidates
<1>8. Budget(p)'
  <2>1. \A g : Cardinality(Records(p, g, Transient))' = Cardinality(Records(p, g, Transient))
        /\ Cardinality(Transients(p))' = Cardinality(Transients(p))
    BY <1>4, LogStays DEF durable
  <2>2. ~Failing(p) /\ ~Failing(p)'
    BY <1>2, <1>4 DEF Failing
  <2> QED
    BY <1>3, <1>4, <1>5, <2>1, <2>2 DEF Budget
<1>9. Tries(p)'
  <2>1. IsFiniteSet(op[p].tried)
    BY <1>1, <1>3, FS_Subset DEF Staged
  <2>2. Cardinality(op[p].tried) \in Nat
        /\ Cardinality(op'[p].tried) = Cardinality(op[p].tried) + 1
    BY <1>4, <1>5, <2>1, OneMore, FS_CardinalityType
  <2>3. op[p].n <= Cardinality(op[p].tried) + op[p].used
    BY <1>3, <1>4 DEF Tries
  <2> QED
    BY <1>5, <1>6, <2>2, <2>3 DEF Tries
<1> QED
  BY <1>2, <1>4, <1>5, <1>7, <1>8, <1>9, Moves DEF durable, memory, Failovers, Shape

\* A transient failure within the budget is accounted for.
LEMMA BackoffKeeps ==
  ASSUME Failovers, NEW p \in Process, Backoff(p)
  PROVE  Failovers'
<1> DEFINE f == op[p].family
<1>1. pc' \in [Process -> Stage] /\ pc'[p] = "backoff" /\ \A q \in Process \ {p} : pc'[q] = pc[q]
  BY GotoMoves DEF Failovers, Backoff, Stage
<1>2. /\ op \in [Process -> Call] /\ Logged(p) /\ Staged(p) /\ Budget(p) /\ Tries(p)
      /\ Candidates(p) \subseteq Family /\ IsFiniteSet(Candidates(p)) /\ MaxAttempts(p) \in Nat
      /\ Delays \in Nat
  BY CandidatesAreFinite, FailoverAssumption DEF Failovers, Shape, Own
<1>3. /\ pc[p] = "failure" /\ op[p].kind \in Transient /\ op[p].used < Delays
      /\ op' = [op EXCEPT ![p].used = @ + 1, ![p].tried = @ \ {op[p].family},
                          ![p].family = None, ![p].kind = None]
      /\ UNCHANGED <<durable, memory, runs, clock>>
  BY DEF Backoff, RetriesSameFamily
<1>4. /\ op' \in [Process -> Call] /\ \A r \in Process \ {p} : op'[r] = op[r]
      /\ op'[p].tried = op[p].tried \ {f} /\ op'[p].exhausted = op[p].exhausted
      /\ op'[p].used = op[p].used + 1 /\ op'[p].n = op[p].n /\ op'[p].family = None
  <2> DEFINE c == [op[p] EXCEPT !.used = @ + 1, !.tried = @ \ {op[p].family},
                                !.family = None, !.kind = None]
  <2>1. op[p] \in Call
    BY <1>2
  <2>2. c = [tried |-> op[p].tried \ {f}, exhausted |-> op[p].exhausted,
             used |-> op[p].used + 1, n |-> op[p].n, family |-> None, kind |-> None,
             pool |-> op[p].pool, read |-> op[p].read]
    <3> DEFINE o == op[p]
    <3>1. o = [tried |-> o.tried, exhausted |-> o.exhausted, used |-> o.used, n |-> o.n,
               family |-> o.family, kind |-> o.kind, pool |-> o.pool,
               read |-> o.read]
      BY <2>1 DEF Call
    <3>2. c = [o EXCEPT !.used = @ + 1, !.tried = @ \ {o.family}, !.family = None, !.kind = None]
      OBVIOUS
    <3> HIDE DEF o, c
    <3>3. c = [tried |-> o.tried \ {o.family}, exhausted |-> o.exhausted,
               used |-> o.used + 1, n |-> o.n, family |-> None, kind |-> None, pool |-> o.pool,
               read |-> o.read]
      BY <3>1, <3>2
    <3> QED
      BY <3>3 DEF o
  <2>3. op' = [op EXCEPT ![p] = c]
    BY <1>3, Zenon
  <2> HIDE DEF c
  <2> QED
    BY <1>2, <2>1, <2>2, <2>3 DEF Call
<1>5. op[p].n \in Nat /\ op[p].used \in Nat
  BY <1>2 DEF Call
<1>6. Staged(p)'
  BY <1>1, <1>2, <1>4 DEF Staged, MaxAttempts, Candidates
<1>7. Budget(p)'
  <2>1. \A g : Cardinality(Records(p, g, Transient))' = Cardinality(Records(p, g, Transient))
        /\ Cardinality(Transients(p))' = Cardinality(Transients(p))
    BY <1>3, LogStays DEF durable
  <2>2. Failing(p) /\ ~Failing(p)'
    BY <1>1, <1>3 DEF Failing
  <2>3. Cardinality(Transients(p)) <= op[p].used + 1
    BY <1>2, <1>3, <2>2 DEF Budget
  <2>4. /\ Cardinality(Transients(p)) \in Nat
        /\ \A g : Cardinality(Records(p, g, Transient)) \in Nat
        /\ \A g : Cardinality(Records(p, g, Transient)) <= Cardinality(Transients(p))
    BY <1>2, RecordsAreFinite
  <2>5. op[p].used + 1 <= Delays
    BY <1>2, <1>3, <1>5
  <2>6. \A g : Cardinality(Records(p, g, Transient)) <= Delays
    <3> SUFFICES ASSUME NEW g PROVE Cardinality(Records(p, g, Transient)) <= Delays
      OBVIOUS
    <3> DEFINE c == Cardinality(Records(p, g, Transient))
               t == Cardinality(Transients(p))
    <3>1. c \in Nat /\ t \in Nat /\ c <= t /\ t <= op[p].used + 1
      BY <2>3, <2>4
    <3> HIDE DEF c, t
    <3>2. c <= Delays
      BY <1>2, <1>5, <2>5, <3>1
    <3> QED
      BY <3>2 DEF c
  <2>7. Cardinality(Transients(p))' <= op'[p].used
    BY <1>4, <2>1, <2>3
  <2> QED
    <3>1. \A g \in Family : Cardinality(Records(p, g, Transient))' <= Delays
      BY <2>1, <2>6
    <3>2. op'[p].used \in Nat /\ op'[p].used = op'[p].used + 0
      BY <1>4, <1>5
    <3> QED
      BY <2>2, <2>7, <3>1, <3>2 DEF Budget
<1>8. Tries(p)'
  <2>1. IsFiniteSet(op[p].tried)
    BY <1>2, FS_Subset DEF Staged
  <2>2. /\ Cardinality(op[p].tried) \in Nat /\ Cardinality(op'[p].tried) \in Nat
        /\ Cardinality(op'[p].tried) >= Cardinality(op[p].tried) - 1
    <3>1. IsFiniteSet(op[p].tried \ {f})
          /\ Cardinality(op[p].tried \ {f}) =
               IF f \in op[p].tried THEN Cardinality(op[p].tried) - 1
               ELSE Cardinality(op[p].tried)
      BY <2>1, FS_RemoveElement
    <3>2. Cardinality(op[p].tried) \in Nat /\ Cardinality(op[p].tried \ {f}) \in Nat
      BY <2>1, <3>1, FS_CardinalityType
    <3> QED
      BY <1>4, <3>1, <3>2
  <2>3. op[p].n <= Cardinality(op[p].tried) + op[p].used
    BY <1>2, <1>3 DEF Tries
  <2> QED
    BY <1>4, <1>5, <2>2, <2>3 DEF Tries
<1> QED
  BY <1>1, <1>3, <1>4, <1>6, <1>7, <1>8, Moves DEF durable, memory, Failovers, Shape

\* The last record of a family, when it is the last of all.
LEMMA LastOfAll ==
  ASSUME NEW p \in Process, Logged(p), Len(log[p]) > 0, NEW kinds,
         log[p][Len(log[p])].kind \in kinds
  PROVE  LatestIs(p, Records(p, log[p][Len(log[p])].family, Outcome[p]), kinds)
<1> DEFINE n == Len(log[p])
<1>1. n \in Nat /\ DOMAIN log[p] = 1..n /\ n \in 1..n
  BY LogIsASequence
<1>2. log[p][n] \in [family : Candidates(p), kind : Outcome[p]]
  BY <1>1, LogIsASequence
<1>3. n \in Records(p, log[p][n].family, Outcome[p])
  BY <1>1, <1>2 DEF Records
<1>4. \A j \in Records(p, log[p][n].family, Outcome[p]) : j <= n
  BY <1>1 DEF Records
<1> QED
  BY <1>3, <1>4 DEF LatestIs

\* A failure that is not retried on the same family is recorded against it.
LEMMA FailoverKeeps ==
  ASSUME Failovers, NEW p \in Process, Failover(p)
  PROVE  Failovers'
<1> DEFINE f == op[p].family
           k == op[p].kind
<1>1. pc' \in [Process -> Stage] /\ pc'[p] = "route" /\ \A q \in Process \ {p} : pc'[q] = pc[q]
  BY GotoMoves DEF Failovers, Failover, Stage
<1>2. /\ Shape /\ Logged(p) /\ Earned(p) /\ Staged(p) /\ Budget(p) /\ Tries(p)
      /\ op \in [Process -> Call]
  BY DEF Failovers, Own, Shape
<1>3. /\ pc[p] = "failure" /\ ~RetriesSameFamily(p)
      /\ op' = [op EXCEPT ![p].exhausted = IF k \in Transient THEN @ \cup {f} ELSE @,
                          ![p].family = None, ![p].kind = None]
      /\ health' = IF RecordsFailure(p) /\ HealthAfter(k) # "READY"
                   THEN [health EXCEPT ![p][f] = HealthAfter(k)] ELSE health
      /\ UNCHANGED <<log, blocked, human, runs, clock>>
  BY DEF Failover
<1>4. f \in Candidates(p) /\ f \in Family /\ k \in Retryable /\ Len(log[p]) > 0
      /\ log[p][Len(log[p])] = [family |-> f, kind |-> k]
  BY <1>2, <1>3, CandidatesAreFinite DEF Staged
<1>5. /\ op' \in [Process -> Call] /\ \A r \in Process \ {p} : op'[r] = op[r]
      /\ op'[p].tried = op[p].tried /\ op'[p].used = op[p].used /\ op'[p].n = op[p].n
      /\ op'[p].family = None
      /\ op'[p].exhausted = IF k \in Transient THEN op[p].exhausted \cup {f} ELSE op[p].exhausted
  <2> DEFINE e == IF k \in Transient THEN op[p].exhausted \cup {f} ELSE op[p].exhausted
             c == [op[p] EXCEPT !.exhausted = e, !.family = None, !.kind = None]
  <2>1. op[p] \in Call /\ e \in SUBSET Family
    BY <1>2, <1>4 DEF Call
  <2>2. op' = [op EXCEPT ![p] = c]
    BY <1>3
  <2> HIDE DEF e
  <2>3. /\ c \in Call /\ c.tried = op[p].tried /\ c.used = op[p].used /\ c.n = op[p].n
        /\ c.family = None /\ c.exhausted = e
    BY <2>1 DEF Call
  <2> HIDE DEF c
  <2>4. op' \in [Process -> Call] /\ op'[p] = c /\ \A r \in Process \ {p} : op'[r] = op[r]
    BY <1>2, <2>2, <2>3
  <2> QED
    BY <2>3, <2>4 DEF e
<1>6. disk' \in [Pool -> Entry] /\ pending' \in [Process -> [Pool -> Entry \cup {None}]]
  <2>1. CASE k = "quota"
    <3>1. PICK n \in Cooldowns : Update(p, PoolOf[f], Cooled(clock + n, FALSE))
      BY <2>1 DEF Failover
    <3>2. Cooled(clock + n, FALSE) \in Entry
      <4>1. clock \in 0..MaxClock /\ clock + n \in Nat
        BY <1>2, FailoverAssumption DEF Shape
      <4> QED
        BY <4>1, RegistryEntries
    <3> QED
      BY <1>2, <1>4, <3>1, <3>2, UpdateTyped, FailoverAssumption
  <2>2. CASE k # "quota"
    BY <1>2, <2>2 DEF Failover, Shape
  <2> QED
    BY <2>1, <2>2
<1>7. /\ health' \in [Process -> [Family -> {"READY", "UNAVAILABLE", "AUTH_FAILED"}]]
      /\ \A q \in Process \ {p} : health'[q] = health[q]
      /\ \A g \in Family \ {f} : health'[p][g] = health[p][g]
      /\ health'[p][f] = "AUTH_FAILED" => health[p][f] = "AUTH_FAILED" \/ k \in AuthFailure
  <2>1. HealthAfter(k) \in {"READY", "UNAVAILABLE", "AUTH_FAILED"}
        /\ (HealthAfter(k) = "AUTH_FAILED" => k \in AuthFailure)
    BY DEF HealthAfter
  <2>2. health \in [Process -> [Family -> {"READY", "UNAVAILABLE", "AUTH_FAILED"}]]
    BY <1>2 DEF Shape
  <2> QED
    BY <1>3, <1>4, <2>1, <2>2
<1>8. Logged(p)' /\ Shape'
  <2>1. Logged(p)'
    BY <1>2, <1>3, LoggedStays DEF Logged
  <2> QED
    BY <1>1, <1>2, <1>3, <1>5, <1>6, <1>7, <2>1 DEF Shape, Stage
<1>9. Earned(p)'
  <2> SUFFICES ASSUME NEW g \in Family, health'[p][g] = "AUTH_FAILED"
               PROVE  LatestIs(p, Records(p, g, Outcome[p]), AuthFailure)'
    BY DEF Earned
  <2>1. LatestIs(p, Records(p, g, Outcome[p]), AuthFailure)
    <3>1. CASE health[p][g] = "AUTH_FAILED"
      BY <1>2, <3>1 DEF Earned
    <3>2. CASE g = f /\ k \in AuthFailure
      BY <1>2, <1>4, <3>2, LastOfAll
    <3> QED
      BY <1>7, <3>1, <3>2
  <2> QED
    BY <1>3, <2>1 DEF LatestIs, Records
<1>10. Staged(p)'
  BY <1>1, <1>2, <1>4, <1>5 DEF Staged, MaxAttempts, Candidates
<1>11. Budget(p)'
  <2>1. \A g : Cardinality(Records(p, g, Transient))' = Cardinality(Records(p, g, Transient))
        /\ Cardinality(Transients(p))' = Cardinality(Transients(p))
    BY <1>3, LogStays
  <2>2. ~Failing(p)' /\ (Failing(p) <=> k \in Transient)
    BY <1>1, <1>3 DEF Failing
  <2>3. CASE k \in Transient
    <3>1. ~(op[p].used < Delays)
      BY <1>3, <2>3 DEF RetriesSameFamily
    <3>2. \A g \in Family \ op'[p].exhausted : Cardinality(Records(p, g, Transient)) <= Delays
      BY <1>2, <1>3, <1>5, <2>3 DEF Budget
    <3> QED
      BY <1>5, <2>1, <2>2, <3>1, <3>2 DEF Budget
  <2>4. CASE k \notin Transient
    BY <1>2, <1>3, <1>5, <2>1, <2>2, <2>4 DEF Budget
  <2> QED
    BY <2>3, <2>4
<1>12. Tries(p)'
  BY <1>2, <1>3, <1>5 DEF Tries
<1>13. \A q \in Process \ {p} : Own(q)'
  BY <1>1, <1>3, <1>5, <1>7, OthersAreLeftAlone DEF Failovers
<1> QED
  BY <1>8, <1>9, <1>10, <1>11, <1>12, <1>13 DEF Failovers, Own

-----------------------------------------------------------------------------
(* The end of an attempt.                                                   *)

\* A record of a family that had a call left, and was healthy, keeps the log in
\* order and the health earned.
LEMMA RecordKeeps ==
  ASSUME NEW p \in Process, Logged(p), Earned(p),
         NEW f \in Candidates(p), NEW k \in Outcome[p],
         Cardinality(Records(p, f, Transient)) <= Delays, Healthy(p, f),
         log'[p] = Append(log[p], [family |-> f, kind |-> k]),
         human'[p] = human[p], runs'[p] = runs[p], health'[p] = health[p]
  PROVE  Logged(p)' /\ Earned(p)'
<1> DEFINE n == Len(log[p])
           r == [family |-> f, kind |-> k]
<1>1. /\ n \in Nat /\ DOMAIN log[p] = 1..n /\ Len(log'[p]) = n + 1
      /\ \A i \in 1..n : log'[p][i] = log[p][i]
      /\ log'[p][n + 1] = r
  BY LogIsASequence DEF Logged
<1>2. log'[p] \in Seq([family : Candidates(p), kind : Outcome[p]])
  <2> DEFINE R == [family : Candidates(p), kind : Outcome[p]]
  <2>1. log[p] \in Seq(R) /\ r \in R
    BY DEF Logged
  <2> HIDE DEF R, r
  <2>2. Append(log[p], r) \in Seq(R)
    BY <2>1
  <2> QED
    BY <2>2 DEF R, r
<1>3. \A g, kinds :
        Records(p, g, kinds)' = IF f = g /\ k \in kinds
                                THEN Records(p, g, kinds) \cup {n + 1} ELSE Records(p, g, kinds)
  <2>1. \A g, kinds :
          Records(p, g, kinds)' = IF r.family = g /\ r.kind \in kinds
                                  THEN Records(p, g, kinds) \cup {n + 1} ELSE Records(p, g, kinds)
    BY AppendRecords
  <2> QED
    BY <2>1
<1>4. \A g, kinds : /\ IsFiniteSet(Records(p, g, kinds))
                    /\ Cardinality(Records(p, g, kinds)) \in Nat
                    /\ n + 1 \notin Records(p, g, kinds)
  <2>1. \A g, kinds : n + 1 \notin Records(p, g, kinds)
    BY <1>1 DEF Records
  <2> QED
    BY <2>1, RecordsAreFinite
<1>5. \A g : Cardinality(Records(p, g, Transient))' =
               IF f = g /\ k \in Transient
               THEN Cardinality(Records(p, g, Transient)) + 1
               ELSE Cardinality(Records(p, g, Transient))
  BY <1>3, <1>4, OneMore
<1>6. Delays \in Nat
  BY FailoverAssumption
<1>7. \A g \in Family : Cardinality(Records(p, g, Transient))' <= Delays + 1
  <2>1. \A g \in Family : Cardinality(Records(p, g, Transient)) <= Delays + 1
    BY DEF Logged
  <2>2. CASE k \in Transient
    <3>1. Cardinality(Records(p, f, Transient)) + 1 <= Delays + 1
      BY <1>4, <1>6
    <3> QED
      BY <1>5, <2>1, <3>1
  <2>3. CASE k \notin Transient
    BY <1>5, <2>1, <2>3
  <2> QED
    BY <2>2, <2>3
\* The records of another family, and what the latest of them was, stay.
<1>8. ASSUME NEW g \in Family, g # f, NEW kinds
      PROVE  LatestIs(p, Records(p, g, Outcome[p]), kinds)
               => LatestIs(p, Records(p, g, Outcome[p]), kinds)'
  <2>1. Records(p, g, Outcome[p])' = Records(p, g, Outcome[p])
    BY <1>3, <1>8
  <2>2. \A i \in Records(p, g, Outcome[p]) : log'[p][i] = log[p][i]
    BY <1>1 DEF Records
  <2> QED
    BY <2>1, <2>2 DEF LatestIs
<1>9. k \in Transient => LatestIs(p, Records(p, f, Outcome[p]), Transient)'
  <2> SUFFICES ASSUME k \in Transient
               PROVE  LatestIs(p, Records(p, f, Outcome[p]), Transient)'
    OBVIOUS
  <2>1. Records(p, f, Outcome[p])' = Records(p, f, Outcome[p]) \cup {n + 1}
    BY <1>3
  <2>2. \A j \in Records(p, f, Outcome[p]) : j <= n + 1
    BY <1>1 DEF Records
  <2>3. log'[p][n + 1].kind \in Transient
    BY <1>1
  <2>4. n + 1 <= n + 1
    BY <1>1
  <2> QED
    BY <2>1, <2>2, <2>3, <2>4 DEF LatestIs
<1>10. ASSUME NEW g \in Family, Cardinality(Records(p, g, Transient))' > Delays
       PROVE  LatestIs(p, Records(p, g, Outcome[p]), Transient)'
  <2>1. CASE g = f
    <3>1. k \in Transient
      BY <1>4, <1>5, <1>6, <1>10, <2>1
    <3> QED
      BY <1>9, <2>1, <3>1
  <2>2. CASE g # f
    <3>1. Cardinality(Records(p, g, Transient)) > Delays
      BY <1>5, <1>10, <2>2
    <3>2. LatestIs(p, Records(p, g, Outcome[p]), Transient)
      BY <3>1 DEF Logged
    <3> QED
      BY <1>8, <2>2, <3>2
  <2> QED
    BY <2>1, <2>2
<1>11. Logged(p)'
  <2>1. human'[p] \subseteq Candidates(p) /\ runs'[p] \in 0..MaxRuns[p]
    BY DEF Logged
  <2>2. \A g \in Family : Cardinality(Records(p, g, Transient))' > Delays =>
          LatestIs(p, Records(p, g, Outcome[p]), Transient)'
    BY <1>10
  <2> QED
    BY <1>2, <1>7, <2>1, <2>2 DEF Logged, Candidates
<1>12. Earned(p)'
  <2> SUFFICES ASSUME NEW g \in Family, health'[p][g] = "AUTH_FAILED"
               PROVE  LatestIs(p, Records(p, g, Outcome[p]), AuthFailure)'
    BY DEF Earned
  <2>1. g # f /\ health[p][g] = "AUTH_FAILED"
    BY DEF Healthy
  <2>2. LatestIs(p, Records(p, g, Outcome[p]), AuthFailure)
    BY <2>1 DEF Earned
  <2> QED
    BY <1>8, <2>1, <2>2
<1> QED
  BY <1>11, <1>12

\* A call that cost what nobody knows leaves no record, and ends.
LEMMA UnresolvedKeeps ==
  ASSUME Failovers, NEW p \in Process, NEW k \in Unresolved, Answer(p, k)
  PROVE  Failovers'
<1>1. Shape /\ Logged(p) /\ Earned(p)
  BY DEF Failovers, Own
<1>2. /\ blocked' = [blocked EXCEPT ![p] = TRUE] /\ End(p)
      /\ health' = IF k = "isolation"
                   THEN [health EXCEPT ![p] = [f \in Family |-> IF f \in Agy THEN "UNAVAILABLE" ELSE @[f]]]
                   ELSE health
      /\ UNCHANGED <<log, disk, human, pending, runs, clock>>
  BY DEF Answer
<1>3. /\ pc' \in [Process -> Stage] /\ pc'[p] = "idle"
      /\ op' \in [Process -> Call] /\ op'[p] = NoCall
      /\ \A q \in Process \ {p} : pc'[q] = pc[q] /\ op'[q] = op[q]
  BY <1>1, <1>2, EndMoves
<1>4. /\ health' \in [Process -> [Family -> {"READY", "UNAVAILABLE", "AUTH_FAILED"}]]
      /\ \A q \in Process \ {p} : health'[q] = health[q]
      /\ \A f \in Family : health'[p][f] = "AUTH_FAILED" => health[p][f] = "AUTH_FAILED"
  <2>1. health \in [Process -> [Family -> {"READY", "UNAVAILABLE", "AUTH_FAILED"}]]
    BY <1>1 DEF Shape
  <2> QED
    BY <1>2, <2>1
<1>5. Shape'
  BY <1>1, <1>2, <1>3, <1>4 DEF Shape, Stage
<1>6. Logged(p)' /\ Earned(p)'
  BY <1>1, <1>2, <1>4, LoggedStays, EarnedStays DEF Logged
<1>7. Staged(p)' /\ Budget(p)' /\ Tries(p)'
  BY <1>3, IdleIsSafe
<1>8. \A q \in Process \ {p} : Own(q)'
  BY <1>2, <1>3, <1>4, OthersAreLeftAlone DEF Failovers
<1> QED
  BY <1>5, <1>6, <1>7, <1>8 DEF Failovers, Own

\* A call whose cost is known is recorded before the failure is acted on.
LEMMA RecordedKeeps ==
  ASSUME Failovers, NEW p \in Process, NEW k \in Outcome[p], k \notin Unresolved, Answer(p, k)
  PROVE  Failovers'
<1> DEFINE f == op[p].family
           r == [family |-> f, kind |-> k]
<1>1. /\ Shape /\ Logged(p) /\ Earned(p) /\ Staged(p) /\ Budget(p) /\ Tries(p)
      /\ op \in [Process -> Call]
  BY DEF Failovers, Own, Shape
<1>2. /\ pc[p] = "call" /\ log' = [log EXCEPT ![p] = Append(@, r)]
      /\ IF k \in Retryable
         THEN Goto(p, "failure") /\ op' = [op EXCEPT ![p].kind = k]
         ELSE End(p)
      /\ UNCHANGED <<blocked, health, disk, human, pending, runs, clock>>
  BY DEF Answer
<1>3. /\ DOMAIN log' = Process /\ log'[p] = Append(log[p], r)
      /\ \A q \in Process \ {p} : log'[q] = log[q]
  BY <1>1, <1>2 DEF Shape
<1>4. f \in Candidates(p) \ op[p].exhausted /\ f \in Family /\ Healthy(p, f)
  BY <1>1, <1>2, CandidatesAreFinite DEF Staged
<1>5. /\ ~Failing(p)
      /\ \A g \in Family \ op[p].exhausted : Cardinality(Records(p, g, Transient)) <= Delays
      /\ op[p].used < Delays => Cardinality(Transients(p)) <= op[p].used
  <2>1. ~Failing(p)
    BY <1>2 DEF Failing
  <2>2. op[p].used \in Nat /\ op[p].used + 0 = op[p].used
    BY <1>1 DEF Call
  <2> QED
    BY <1>1, <1>2, <2>1, <2>2 DEF Budget
<1>6. Logged(p)' /\ Earned(p)'
  BY <1>1, <1>2, <1>3, <1>4, <1>5, RecordKeeps
<1>7. /\ pc' \in [Process -> Stage] /\ op' \in [Process -> Call]
      /\ \A q \in Process \ {p} : pc'[q] = pc[q] /\ op'[q] = op[q]
      /\ Staged(p)' /\ Budget(p)' /\ Tries(p)'
  <2>1. CASE k \notin Retryable
    <3>1. End(p)
      BY <1>2, <2>1
    <3> QED
      BY <1>1, <3>1, EndMoves, IdleIsSafe
  <2>2. CASE k \in Retryable
    <3>1. /\ pc' \in [Process -> Stage] /\ pc'[p] = "failure"
          /\ \A q \in Process \ {p} : pc'[q] = pc[q]
      BY <1>1, <1>2, <2>2, GotoMoves DEF Stage
    <3>2. op' = [op EXCEPT ![p].kind = k]
      BY <1>2, <2>2
    <3>3. /\ op' \in [Process -> Call] /\ \A q \in Process \ {p} : op'[q] = op[q]
          /\ op'[p].tried = op[p].tried /\ op'[p].exhausted = op[p].exhausted
          /\ op'[p].used = op[p].used /\ op'[p].n = op[p].n /\ op'[p].family = f
          /\ op'[p].kind = k
      BY <1>1, <2>2, <3>2 DEF Call
    <3>4. Len(log'[p]) = Len(log[p]) + 1 /\ Len(log[p]) \in Nat /\ log'[p][Len(log'[p])] = r
      BY <1>1, <1>3, LogIsASequence DEF Logged
    <3>5. Staged(p)'
      <4>1. Staged(p) /\ Candidates(p)' = Candidates(p) /\ MaxAttempts(p)' = MaxAttempts(p)
        BY <1>1 DEF Candidates, MaxAttempts
      <4>2. Len(log'[p]) > 0 /\ op'[p].kind \in Retryable /\ op'[p].family \in Candidates(p)
        BY <1>4, <2>2, <3>3, <3>4
      <4> QED
        BY <3>1, <3>3, <3>4, <4>1, <4>2 DEF Staged
    <3>6. Budget(p)'
      <4>1. Failing(p)' <=> k \in Transient
        BY <3>1, <3>3 DEF Failing
      <4>2. \A g : g # f \/ k \notin Transient =>
              Cardinality(Records(p, g, Transient))' = Cardinality(Records(p, g, Transient))
        BY <1>1, <1>3, AppendRecords
      <4>3. /\ k \in Transient => Cardinality(Transients(p))' = Cardinality(Transients(p)) + 1
            /\ k \notin Transient => Cardinality(Transients(p))' = Cardinality(Transients(p))
        BY <1>1, <1>3, AppendTransients
      <4>4. /\ \A g \in Family \ op[p].exhausted :
                 \/ Cardinality(Records(p, g, Transient))' <= Delays
                 \/ Failing(p)' /\ g = f
        BY <1>5, <4>1, <4>2
      <4>5. op'[p].used < Delays =>
              Cardinality(Transients(p))' <= op'[p].used + (IF Failing(p)' THEN 1 ELSE 0)
        <5>1. Cardinality(Transients(p)) \in Nat /\ op[p].used \in Nat
          BY <1>1, RecordsAreFinite DEF Call
        <5>2. CASE k \in Transient
          BY <1>5, <3>3, <4>1, <4>3, <5>1, <5>2
        <5>3. CASE k \notin Transient
          BY <1>5, <3>3, <4>1, <4>3, <5>1, <5>3
        <5> QED
          BY <5>2, <5>3
      <4> QED
        BY <3>3, <4>4, <4>5 DEF Budget
    <3>7. Tries(p)'
      BY <1>1, <1>2, <3>3 DEF Tries
    <3> QED
      BY <3>1, <3>3, <3>5, <3>6, <3>7
  <2> QED
    BY <2>1, <2>2
<1>8. Shape'
  BY <1>1, <1>2, <1>3, <1>7 DEF Shape, Stage
<1>9. \A q \in Process \ {p} : Own(q)'
  BY <1>2, <1>3, <1>7, OthersAreLeftAlone DEF Failovers
<1> QED
  BY <1>6, <1>7, <1>8, <1>9 DEF Failovers, Own

-----------------------------------------------------------------------------
(* The start of a call, and the world around it.                            *)

\* Spent families are candidates that were called.
LEMMA SpentAreCandidates ==
  ASSUME NEW p \in Process, Logged(p)
  PROVE  /\ SpentFamilies(p) \subseteq Candidates(p)
         /\ \A f \in Family \ SpentFamilies(p) : Cardinality(Records(p, f, Transient)) <= Delays
<1>1. Delays \in Nat
  BY FailoverAssumption
<1>2. \A f : Cardinality(Records(p, f, Transient)) \in Nat
  BY RecordsAreFinite
<1>3. ASSUME NEW f \in SpentFamilies(p) PROVE f \in Candidates(p)
  <2>1. Cardinality(Records(p, f, Transient)) # 0
    BY <1>1, <1>3 DEF SpentFamilies
  <2>2. Records(p, f, Transient) # {}
    BY <2>1, FS_EmptySet
  <2>3. PICK i \in DOMAIN log[p] : log[p][i].family = f
    BY <2>2 DEF Records
  <2>4. log[p][i] \in [family : Candidates(p), kind : Outcome[p]]
    BY <2>3, LogIsASequence
  <2> QED
    BY <2>3, <2>4
<1>4. \A f \in Family \ SpentFamilies(p) : Cardinality(Records(p, f, Transient)) <= Delays
  BY <1>1, <1>2 DEF SpentFamilies
<1> QED
  BY <1>3, <1>4

\* A family that auth failures exhausted has an auth failure as its last record:
\* nothing was tried on it since.
LEMMA ExhaustedByItsLast ==
  ASSUME NEW p \in Process, Logged(p), NEW f \in SpentFamilies(p), ExhaustedByAuth(p, f)
  PROVE  LatestIs(p, Records(p, f, Outcome[p]), AuthFailure)
<1>1. /\ LatestIs(p, Records(p, f, Outcome[p]), Transient)
      /\ DOMAIN log[p] = 1..Len(log[p]) /\ Len(log[p]) \in Nat
      /\ \A i \in DOMAIN log[p] : log[p][i] \in [family : Candidates(p), kind : Outcome[p]]
  BY LogIsASequence DEF Logged, SpentFamilies
<1>2. PICK i \in Records(p, f, Transient) :
        log[p][i].kind = "transientAuth" /\ \A j \in Records(p, f, Transient) : j <= i
  BY DEF ExhaustedByAuth, LatestIs
<1>3. PICK j \in Records(p, f, Outcome[p]) :
        log[p][j].kind \in Transient /\ \A l \in Records(p, f, Outcome[p]) : l <= j
  BY <1>1 DEF LatestIs
<1>4. j \in Records(p, f, Transient) /\ i \in Records(p, f, Outcome[p])
  BY <1>1, <1>2, <1>3 DEF Records
<1>5. i \in Nat /\ j \in Nat
  BY <1>1, <1>4 DEF Records
<1>6. i = j
  BY <1>2, <1>3, <1>4, <1>5
<1> QED
  BY <1>2, <1>3, <1>4, <1>6 DEF LatestIs, AuthFailure

LEMMA BeginKeeps ==
  ASSUME Failovers, NEW p \in Process, Begin(p)
  PROVE  Failovers'
<1>1. Shape /\ Logged(p) /\ Earned(p) /\ op \in [Process -> Call]
  BY DEF Failovers, Own, Shape
<1>2. /\ runs[p] < MaxRuns[p] /\ op' = [op EXCEPT ![p] = Restored(p)]
      /\ health' = [health EXCEPT ![p] = [f \in Family |->
           IF f \in SpentFamilies(p) /\ ExhaustedByAuth(p, f) THEN "AUTH_FAILED" ELSE @[f]]]
      /\ runs' = [runs EXCEPT ![p] = @ + 1]
      /\ UNCHANGED <<disk, log, blocked, human, pending, clock>>
  BY DEF Begin, durable
<1>3. pc' \in [Process -> Stage] /\ pc'[p] = "preflight" /\ \A q \in Process \ {p} : pc'[q] = pc[q]
  BY <1>1, GotoMoves DEF Begin, Stage
<1>4. /\ Restored(p).tried = SpentFamilies(p) /\ Restored(p).exhausted = SpentFamilies(p)
      /\ Restored(p).used = Cardinality(Transients(p)) /\ Restored(p).n = 0
      /\ Restored(p).family = None /\ Restored(p) \in Call
  <2>1. Restored(p) = [tried |-> SpentFamilies(p), exhausted |-> SpentFamilies(p),
                       used |-> Cardinality(Transients(p)), n |-> 0,
                       family |-> None, kind |-> None, pool |-> None, read |-> {}]
    <3> DEFINE s == SpentFamilies(p)
               t == Cardinality(Transients(p))
    <3>1. Restored(p) = [NoCall EXCEPT !.tried = s, !.exhausted = s, !.used = t]
      BY DEF Restored, Transients
    <3> HIDE DEF s, t
    <3>2. [NoCall EXCEPT !.tried = s, !.exhausted = s, !.used = t]
            = [tried |-> s, exhausted |-> s, used |-> t, n |-> 0,
               family |-> None, kind |-> None, pool |-> None, read |-> {}]
      <4> DEFINE o == NoCall
      <4>1. /\ o = [tried |-> o.tried, exhausted |-> o.exhausted, used |-> o.used, n |-> o.n,
                    family |-> o.family, kind |-> o.kind, pool |-> o.pool,
                    read |-> o.read]
            /\ o.n = 0 /\ o.family = None /\ o.kind = None /\ o.pool = None /\ o.read = {}
        BY DEF NoCall
      <4> HIDE DEF o
      <4> DEFINE c == [o EXCEPT !.tried = s, !.exhausted = s, !.used = t]
      <4>2. /\ c = [x \in DOMAIN o |-> c[x]]
            /\ DOMAIN o = {"tried", "exhausted", "used", "n", "family", "kind", "pool",
                          "read"}
            /\ c.tried = s /\ c.exhausted = s /\ c.used = t /\ c.n = o.n
            /\ c.family = o.family /\ c.kind = o.kind /\ c.pool = o.pool
            /\ c.read = o.read
        BY <4>1
      <4> HIDE DEF c
      <4>3. c = [tried |-> s, exhausted |-> s, used |-> t, n |-> 0,
                 family |-> None, kind |-> None, pool |-> None, read |-> {}]
        BY <4>1, <4>2
      <4> QED
        BY <4>3 DEF o, c
    <3> QED
      BY <3>1, <3>2 DEF s, t
  <2>2. SpentFamilies(p) \subseteq Family /\ Cardinality(Transients(p)) \in Nat
    BY <1>1, RecordsAreFinite DEF SpentFamilies
  <2> QED
    BY <2>1, <2>2 DEF Call
<1>5. /\ op' \in [Process -> Call] /\ op'[p] = Restored(p)
      /\ \A q \in Process \ {p} : op'[q] = op[q]
  BY <1>1, <1>2, <1>4
<1>6. /\ health' \in [Process -> [Family -> {"READY", "UNAVAILABLE", "AUTH_FAILED"}]]
      /\ \A q \in Process \ {p} : health'[q] = health[q]
      /\ \A f \in Family : health'[p][f] =
           IF f \in SpentFamilies(p) /\ ExhaustedByAuth(p, f) THEN "AUTH_FAILED" ELSE health[p][f]
  <2>1. health \in [Process -> [Family -> {"READY", "UNAVAILABLE", "AUTH_FAILED"}]]
    BY <1>1 DEF Shape
  <2> QED
    BY <1>2, <2>1
<1>7. /\ DOMAIN runs' = Process /\ runs'[p] \in 0..MaxRuns[p]
      /\ \A q \in Process \ {p} : runs'[q] = runs[q]
  <2>1. runs[p] \in 0..MaxRuns[p] /\ DOMAIN runs = Process /\ MaxRuns[p] \in Nat
    BY <1>1, FailoverAssumption DEF Shape, Logged
  <2>2. runs'[p] = runs[p] + 1 /\ DOMAIN runs' = Process
        /\ \A q \in Process \ {p} : runs'[q] = runs[q]
    BY <1>2, <2>1
  <2> QED
    BY <1>2, <2>1, <2>2
<1>8. Shape'
  BY <1>1, <1>2, <1>3, <1>5, <1>6, <1>7 DEF Shape, Stage
<1>9. Logged(p)'
  BY <1>1, <1>2, <1>7, LoggedStays DEF Logged
<1>10. Earned(p)'
  <2> SUFFICES ASSUME NEW f \in Family, health'[p][f] = "AUTH_FAILED"
               PROVE  LatestIs(p, Records(p, f, Outcome[p]), AuthFailure)'
    BY DEF Earned
  <2>1. LatestIs(p, Records(p, f, Outcome[p]), AuthFailure)
    BY <1>1, <1>6, ExhaustedByItsLast DEF Earned
  <2> QED
    BY <1>2, <2>1 DEF LatestIs, Records
<1>11. Staged(p)'
  <2>1. SpentFamilies(p) \subseteq Candidates(p) /\ MaxAttempts(p) \in Nat
    BY <1>1, SpentAreCandidates, CandidatesAreFinite
  <2> QED
    BY <1>3, <1>4, <1>5, <2>1 DEF Staged, MaxAttempts, Candidates
<1>12. Budget(p)'
  <2>1. \A g : Cardinality(Records(p, g, Transient))' = Cardinality(Records(p, g, Transient))
        /\ Cardinality(Transients(p))' = Cardinality(Transients(p))
    BY <1>2, LogStays
  <2>2. /\ \A f \in Family \ SpentFamilies(p) : Cardinality(Records(p, f, Transient)) <= Delays
        /\ Cardinality(Transients(p)) \in Nat
    BY <1>1, SpentAreCandidates, RecordsAreFinite
  <2>3. ~Failing(p)'
    BY <1>3 DEF Failing
  <2>4. Cardinality(Transients(p))' <= op'[p].used + 0
    BY <1>4, <1>5, <2>1, <2>2
  <2> QED
    BY <1>4, <1>5, <2>1, <2>2, <2>3, <2>4 DEF Budget
<1>13. Tries(p)'
  <2>1. SpentFamilies(p) \subseteq Candidates(p) /\ IsFiniteSet(Candidates(p))
        /\ Cardinality(Transients(p)) \in Nat
    BY <1>1, SpentAreCandidates, CandidatesAreFinite, RecordsAreFinite
  <2>2. Cardinality(SpentFamilies(p)) \in Nat
    BY <2>1, FS_Subset, FS_CardinalityType
  <2>3. 0 <= Cardinality(SpentFamilies(p)) + Cardinality(Transients(p))
    BY <2>1, <2>2
  <2> QED
    BY <1>4, <1>5, <2>3 DEF Tries
<1>14. \A q \in Process \ {p} : Own(q)'
  BY <1>2, <1>3, <1>5, <1>6, <1>7, OthersAreLeftAlone DEF Failovers
<1> QED
  BY <1>8, <1>9, <1>10, <1>11, <1>12, <1>13, <1>14 DEF Failovers, Own

\* A restart forgets what was in memory; the log stays.
LEMMA RestartKeeps ==
  ASSUME Failovers, NEW p \in Process, NEW up \in Wirings, Restart(p, up)
  PROVE  Failovers'
<1>1. Shape /\ Logged(p) /\ Earned(p)
  BY DEF Failovers, Own
<1>2. /\ blocked' = [blocked EXCEPT ![p] = @ \/ pc[p] = "call"]
      /\ pending' = [pending EXCEPT ![p] = [q \in Pool |-> None]]
      /\ health' = [health EXCEPT ![p] = [f \in Family |-> IF f \in up THEN "READY" ELSE "UNAVAILABLE"]]
      /\ End(p) /\ UNCHANGED <<disk, log, human, runs, clock>>
  BY DEF Restart
<1>3. /\ pc' \in [Process -> Stage] /\ pc'[p] = "idle"
      /\ op' \in [Process -> Call] /\ op'[p] = NoCall
      /\ \A q \in Process \ {p} : pc'[q] = pc[q] /\ op'[q] = op[q]
  BY <1>1, <1>2, EndMoves
<1>4. /\ health' \in [Process -> [Family -> {"READY", "UNAVAILABLE", "AUTH_FAILED"}]]
      /\ \A q \in Process \ {p} : health'[q] = health[q]
      /\ \A f \in Family : health'[p][f] # "AUTH_FAILED"
  BY <1>1, <1>2 DEF Shape
<1>5. blocked' \in [Process -> BOOLEAN] /\ pending' \in [Process -> [Pool -> Entry \cup {None}]]
  BY <1>1, <1>2 DEF Shape
<1>6. Shape'
  BY <1>1, <1>2, <1>3, <1>4, <1>5 DEF Shape, Stage
<1>7. Logged(p)' /\ Earned(p)'
  BY <1>1, <1>2, <1>4, LoggedStays DEF Logged, Earned
<1>8. Staged(p)' /\ Budget(p)' /\ Tries(p)'
  BY <1>3, IdleIsSafe
<1>9. \A q \in Process \ {p} : Own(q)'
  BY <1>2, <1>3, <1>4, OthersAreLeftAlone DEF Failovers
<1> QED
  BY <1>6, <1>7, <1>8, <1>9 DEF Failovers, Own

LEMMA RecoverKeeps ==
  ASSUME Failovers, NEW p \in Process, NEW out, Recover(p, out)
  PROVE  Failovers'
<1>1. Shape /\ \A q \in Process : Own(q)
  BY DEF Failovers
<1>2. /\ blocked' = [blocked EXCEPT ![p] = FALSE]
      /\ human' = [human EXCEPT ![p] = @ \cup out] /\ out \subseteq Candidates(p)
      /\ UNCHANGED <<disk, log, memory, pc, op, runs, clock>>
  BY DEF Recover
<1>3. /\ DOMAIN human' = Process /\ human'[p] = human[p] \cup out
      /\ \A q \in Process \ {p} : human'[q] = human[q]
  BY <1>1, <1>2 DEF Shape
<1>4. Shape'
  BY <1>1, <1>2, <1>3 DEF Shape, memory
<1>5. ASSUME NEW q \in Process PROVE Own(q)'
  <2>1. human'[q] \subseteq Candidates(q)
    BY <1>1, <1>2, <1>3 DEF Own, Logged
  <2>2. Logged(q)' /\ Earned(q)'
    BY <1>1, <1>2, <2>1, LoggedStays, EarnedStays DEF Own, Logged, memory
  <2>3. \A f : Cardinality(Records(q, f, Transient))' = Cardinality(Records(q, f, Transient))
        /\ Cardinality(Transients(q))' = Cardinality(Transients(q))
    BY <1>2, LogStays
  <2>4. Staged(q)' /\ Budget(q)' /\ Tries(q)'
    BY <1>1, <1>2, <2>3 DEF Own, Staged, Budget, Tries, Failing, Healthy, MaxAttempts,
       Candidates, memory
  <2> QED
    BY <2>2, <2>4 DEF Own
<1> QED
  BY <1>4, <1>5 DEF Failovers

LEMMA ClockKeeps ==
  ASSUME Failovers, UNCHANGED <<durable, memory, pc, op, runs>>, clock' \in 0..MaxClock
  PROVE  Failovers'
<1>1. Shape'
  BY DEF Failovers, Shape, durable, memory
<1>2. \A p \in Process : Own(p)'
  BY OthersAreLeftAlone DEF Failovers, durable, memory
<1> QED
  BY <1>1, <1>2 DEF Failovers

LEMMA InitFailovers == Init => Failovers
<1> SUFFICES ASSUME Init PROVE Failovers
  OBVIOUS
<1>1. MaxClock \in Nat /\ Delays \in Nat /\ MaxRuns \in [Process -> Nat]
  BY FailoverAssumption
<1>2. clock \in 0..MaxClock
  BY <1>1 DEF Init
<1>3. Fresh \in Entry
  BY <1>2, RegistryEntries
<1>4. NoCall \in Call /\ NoCall.tried = {} /\ NoCall.exhausted = {} /\ NoCall.n = 0
      /\ NoCall.family = None
  BY DEF NoCall, Call
<1>5. health \in [Process -> {[f \in Family |-> IF f \in up THEN "READY" ELSE "UNAVAILABLE"] : up \in Wirings}]
  BY DEF Init
<1>6. /\ health \in [Process -> [Family -> {"READY", "UNAVAILABLE", "AUTH_FAILED"}]]
      /\ \A p \in Process, f \in Family : health[p][f] # "AUTH_FAILED"
  BY <1>5
<1>7. Shape
  BY <1>2, <1>3, <1>4, <1>6 DEF Init, Shape
<1>8. ASSUME NEW p \in Process PROVE Own(p)
  <2>1. log[p] = <<>> /\ human[p] = {} /\ runs[p] = 0 /\ pc[p] = "idle" /\ op[p] = NoCall
    BY DEF Init
  <2>2. \A f, kinds : Records(p, f, kinds) = {}
    BY <2>1 DEF Records
  <2>3. Logged(p)
    <3>1. \A f : Cardinality(Records(p, f, Transient)) = 0
      BY <2>2, FS_EmptySet
    <3>2. <<>> \in Seq([family : Candidates(p), kind : Outcome[p]])
      OBVIOUS
    <3>3. 0 \in 0..MaxRuns[p] /\ 0 <= Delays + 1 /\ ~(0 > Delays)
      BY <1>1
    <3> QED
      BY <2>1, <3>1, <3>2, <3>3 DEF Logged
  <2>4. MaxAttempts(p) \in Nat
    BY CandidatesAreFinite
  <2>5. Staged(p) /\ Budget(p) /\ Tries(p)
    BY <1>4, <2>1, <2>4 DEF Staged, Budget, Tries
  <2>6. Earned(p)
    BY <1>6 DEF Earned
  <2> QED
    BY <2>3, <2>5, <2>6 DEF Own
<1> QED
  BY <1>7, <1>8 DEF Failovers

LEMMA NextKeepsFailovers ==
  ASSUME Failovers, [Next]_vars
  PROVE  Failovers'
<1>1. CASE UNCHANGED vars
  <2>1. clock' \in 0..MaxClock
    BY <1>1 DEF vars, Failovers, Shape
  <2> QED
    BY <1>1, <2>1, ClockKeeps DEF vars
<1>2. CASE Tick
  <2>1. clock' \in 0..MaxClock
    BY <1>2, FailoverAssumption DEF Tick, Failovers, Shape
  <2> QED
    BY <1>2, <2>1, ClockKeeps DEF Tick
<1>3. ASSUME NEW p \in Process, Step(p) PROVE Failovers'
  <2>1. CASE Preflight(p)
    <3>1. AgyPools \subseteq Pool
      BY FailoverAssumption DEF AgyPools
    <3> QED
      BY <2>1, <3>1, NoSnapshotKeeps, RecordUsageCheckKeeps, AvailableKeeps, DepletedKeeps
      DEF Preflight
  <2>2. CASE Notice(p)
    BY <2>2, NoticeKeeps
  <2>3. CASE Lift(p)
    BY <2>3, LiftKeeps
  <2>4. CASE Denied(p) \/ GiveUp(p)
    BY <2>4, EndKeeps DEF Denied, GiveUp
  <2>5. CASE \E f \in Selected(p) : Dispatch(p, f)
    BY <2>5, DispatchKeeps
  <2>6. CASE \E k \in Outcome[p] : Answer(p, k)
    BY <2>6, UnresolvedKeeps, RecordedKeeps
  <2>7. CASE Backoff(p)
    BY <2>7, BackoffKeeps
  <2>8. CASE Wake(p)
    BY <2>8, WakeKeeps
  <2>9. CASE Failover(p)
    BY <2>9, FailoverKeeps
  <2> QED
    BY <1>3, <2>1, <2>2, <2>3, <2>4, <2>5, <2>6, <2>7, <2>8, <2>9 DEF Step
<1>4. ASSUME NEW p \in Process, AuditFails(p) \/ Cancel(p) PROVE Failovers'
  BY <1>4, EndKeeps DEF AuditFails, Cancel
<1> QED
  BY <1>1, <1>2, <1>3, <1>4, BeginKeeps, RestartKeeps, RecoverKeeps DEF Next

-----------------------------------------------------------------------------
(* The theorems.                                                            *)

\* Whatever process restarts, the log, the health and the call of each agree
\* (providerFailover.js, roleRouting.js).
THEOREM FailoversHold == Spec => []Failovers
<1> QED
  BY InitFailovers, NextKeepsFailovers, PTL DEF Spec

\* The state has its type: a call stays within its candidates and its attempts.
THEOREM FailoverTyped == Spec => []TypeOK
<1>1. Failovers => TypeOK
  <2> SUFFICES ASSUME Failovers PROVE TypeOK
    OBVIOUS
  <2>1. Shape /\ \A p \in Process : Logged(p) /\ Staged(p)
    BY DEF Failovers, Own
  <2>2. \A p \in Process : /\ op[p].n \in Nat /\ op[p].kind \in Retryable \cup {None}
                           /\ op[p].pool \in Pool \cup {None} /\ op[p].read \subseteq Pool
    BY <2>1 DEF Shape, Call
  <2>3. \A p \in Process : op[p].n \in 0..MaxAttempts(p)
    <3> TAKE p \in Process
    <3>1. op[p].n <= MaxAttempts(p) /\ op[p].n \in Nat /\ MaxAttempts(p) \in Nat
      BY <2>1, <2>2, CandidatesAreFinite DEF Staged
    <3> QED
      BY <3>1
  <2> QED
    BY <2>1, <2>2, <2>3 DEF Shape, Logged, Staged, TypeOK
<1> QED
  BY <1>1, FailoversHold, PTL

\* However often the process dies and the operation is called again, a family is
\* given one transient failure and its retries, no more.
THEOREM RetryBudgetHolds == Spec => []NoFourthTransientCall
<1>1. Failovers => NoFourthTransientCall
  BY DEF Failovers, Own, Logged, NoFourthTransientCall
<1> QED
  BY <1>1, FailoversHold, PTL

\* A family whose credentials are taken to be bad failed by them the last time.
THEOREM HealthIsEarned == Spec => []AuthHealthIsEarned
<1>1. Failovers => AuthHealthIsEarned
  BY DEF Failovers, Own, Earned, AuthHealthIsEarned
<1> QED
  BY <1>1, FailoversHold, PTL

\* Within a call each attempt is of a family not tried before, or paid for by the
\* retry budget.
THEOREM EachFamilyOnce == Spec => []OneTryPerFamily
<1>1. Failovers => OneTryPerFamily
  BY DEF Failovers, Own, Tries, OneTryPerFamily
<1> QED
  BY <1>1, FailoversHold, PTL

-----------------------------------------------------------------------------
(* Cooldowns.                                                               *)

\* Nothing but a dispatch brings a routed call to its provider.
LEMMA OnlyDispatchCalls ==
  ASSUME Failovers, [Next]_vars, NEW p \in Process, pc[p] = "route", pc'[p] = "call"
  PROVE  \E f \in Selected(p) : Dispatch(p, f)
<1>1. pc \in [Process -> Stage]
  BY DEF Failovers, Shape, Stage
<1>2. ASSUME NEW r \in Process, NEW l \in Stage \ {"call"}, Goto(r, l) PROVE FALSE
  BY <1>1, <1>2 DEF Goto
<1>3. ASSUME NEW r \in Process, End(r) PROVE FALSE
  BY <1>2, <1>3 DEF End, Stage
<1>4. CASE UNCHANGED vars \/ Tick
  BY <1>4 DEF vars, Tick
<1>5. ASSUME NEW r \in Process,
             \/ NoSnapshot(r) \/ Notice(r) \/ Lift(r) \/ Backoff(r) \/ Wake(r) \/ Failover(r)
             \/ Begin(r)
             \/ RecordUsageCheck(r) \/ \E q, n, known : Depleted(r, q, n, known)
      PROVE  FALSE
  BY <1>2, <1>5 DEF NoSnapshot, RecordUsageCheck, Depleted, Notice, Lift, Backoff, Wake, Failover, Begin, Stage
<1>6. ASSUME NEW r \in Process,
             \/ Denied(r) \/ GiveUp(r) \/ AuditFails(r) \/ Cancel(r)
             \/ \E up \in Wirings : Restart(r, up)
      PROVE  FALSE
  BY <1>3, <1>6 DEF Denied, GiveUp, AuditFails, Cancel, Restart
<1>7. ASSUME NEW r \in Process, NEW k, Answer(r, k) PROVE FALSE
  BY <1>2, <1>3, <1>7 DEF Answer, Stage
<1>8. ASSUME NEW r \in Process, (\E out : Recover(r, out)) \/ (\E q : Available(r, q))
      PROVE  FALSE
  BY <1>8 DEF Recover, Available
<1>9. ASSUME NEW r \in Process, NEW f \in Selected(r), Dispatch(r, f) PROVE r = p
  BY <1>1, <1>9 DEF Dispatch, Goto
<1> QED
  BY <1>4, <1>5, <1>6, <1>7, <1>8, <1>9 DEF Next, Step, Preflight

\* A call is not dispatched to a family whose pool cools, whichever process wrote
\* that down, unless this process could not persist what it knows of the pool.
THEOREM CooldownsAreSeen == Spec => CooldownSeenEverywhere
<1>1. ASSUME Failovers, [Next]_vars, NEW p \in Process, pc[p] = "route", pc'[p] = "call",
             Cooling(disk[PoolOf[op'[p].family]])
      PROVE  pending[p][PoolOf[op'[p].family]] # None
  <2>1. PICK f \in Selected(p) : Dispatch(p, f)
    BY <1>1, OnlyDispatchCalls
  <2>2. f \in Candidates(p) /\ f \in Family /\ PoolOf[f] \in Pool
        /\ ~Cooling(View(p)[PoolOf[f]])
    BY SelectedIsEligible, CandidatesAreFinite, FailoverAssumption
  <2>3. op'[p].family = f
    <3>1. op \in [Process -> Call]
      BY <1>1 DEF Failovers, Shape
    <3>2. op' = [op EXCEPT ![p].tried = @ \cup {f}, ![p].family = f, ![p].n = @ + 1]
      BY <2>1 DEF Dispatch
    <3> QED
      BY <3>1, <3>2 DEF Call
  <2> QED
    BY <1>1, <2>2, <2>3, ViewOfTheFile
<1>2. Failovers /\ [Next]_vars =>
        [\A p \in Process : pc[p] = "route" /\ pc'[p] = "call" =>
           LET q == PoolOf[op'[p].family] IN Cooling(disk[q]) => pending[p][q] # None]_vars
  BY <1>1
<1> QED
  BY <1>2, FailoversHold, PTL DEF Spec, CooldownSeenEverywhere

\* What may become of a cooldown that is on disk.
Survives(q) ==
    \/ disk'[q] = disk[q]
    \/ disk'[q].status = "COOLDOWN"
    \/ disk[q].usage /\ disk'[q] = Ready
    \/ \E p \in Process : pending[p][q] # None /\ pending'[p][q] = None

\* An update touches another pool only with what was waiting for the lock.
LEMMA UpdateSpares ==
  ASSUME Shape, NEW p \in Process, NEW r \in Pool, NEW e, Update(p, r, e), NEW q \in Pool,
         q = r /\ pending[p][q] = None =>
           e = disk[q] \/ e.status = "COOLDOWN" \/ (disk[q].usage /\ e = Ready)
  PROVE  Survives(q)
<1>1. CASE /\ disk' = [View(p) EXCEPT ![r] = e]
           /\ pending' = [pending EXCEPT ![p] = [s \in Pool |-> None]]
  <2>1. View(p) \in [Pool -> Entry] /\ pending \in [Process -> [Pool -> Entry \cup {None}]]
    BY ViewTyped DEF Shape
  <2>2. disk'[q] = (IF q = r THEN e ELSE View(p)[q]) /\ pending'[p][q] = None
    BY <1>1, <2>1
  <2>3. CASE pending[p][q] # None
    BY <2>2, <2>3 DEF Survives
  <2>4. CASE pending[p][q] = None
    BY <2>2, <2>4, ViewOfTheFile DEF Survives
  <2> QED
    BY <2>3, <2>4
<1>2. CASE UNCHANGED disk
  BY <1>2 DEF Survives
<1> QED
  BY <1>1, <1>2 DEF Update

LEMMA CooldownStays ==
  ASSUME Failovers, [Next]_vars, NEW q \in Pool, Cooling(disk[q])
  PROVE  Survives(q)
<1>1. Shape /\ clock \in 0..MaxClock /\ disk[q] \in Entry
  BY DEF Failovers, Shape
<1>2. Lifted(disk[q]) = disk[q]
  BY <1>1 DEF Lifted, Expired, Cooling, Entry
<1>3. \A until, usage : Cooled(until, usage).status = "COOLDOWN"
  BY DEF Cooled
<1>4. ASSUME UNCHANGED disk PROVE Survives(q)
  BY <1>4 DEF Survives
<1>5. ASSUME NEW p \in Process, NEW r \in Pool, Available(p, r) PROVE Survives(q)
  <2>1. CASE View(p)[r].usage /\ Update(p, r, Ready)
    <3>1. q = r /\ pending[p][q] = None => disk[q].usage
      BY <2>1, ViewOfTheFile
    <3> QED
      BY <1>1, <2>1, <3>1, UpdateSpares
  <2>2. CASE Update(p, r, Lifted(View(p)[r]))
    <3>1. q = r /\ pending[p][q] = None => Lifted(View(p)[r]) = disk[q]
      BY <1>2, ViewOfTheFile
    <3> QED
      BY <1>1, <2>2, <3>1, UpdateSpares
  <2> QED
    BY <1>4, <1>5, <2>1, <2>2 DEF Available
<1>11. ASSUME NEW p \in Process, NEW r \in Pool, NEW n, NEW known, Depleted(p, r, n, known)
       PROVE  Survives(q)
  <2>1. CASE Update(p, r, Cooled(clock + n, known))
    <3>1. Cooled(clock + n, known).status = "COOLDOWN"
      BY <1>3
    <3> QED
      BY <1>1, <2>1, <3>1, UpdateSpares
  <2> QED
    BY <1>4, <1>11, <2>1 DEF Depleted
<1>12. ASSUME NEW p \in Process, RecordUsageCheck(p) PROVE Survives(q)
  <2>1. PICK r \in op[p].read : Update(p, r, View(p)[r])
    BY <1>12 DEF RecordUsageCheck
  <2>2. r \in Pool
    BY ReadSetsAreTyped
  <2>3. q = r /\ pending[p][q] = None => View(p)[r] = disk[q]
    BY ViewOfTheFile
  <2> QED
    BY <1>1, <2>1, <2>2, <2>3, UpdateSpares
<1>6. ASSUME NEW p \in Process, Lift(p) PROVE Survives(q)
  <2> DEFINE r == op[p].pool
  <2>1. r \in Pool
    BY <1>6 DEF Failovers, Own, Staged, Lift
  <2>2. CASE /\ disk' = [View(p) EXCEPT ![r] = Lifted(@)]
             /\ pending' = [pending EXCEPT ![p] = [s \in Pool |-> None]]
    <3>1. Update(p, r, Lifted(View(p)[r]))
      BY <2>2 DEF Update
    <3>2. q = r /\ pending[p][q] = None => Lifted(View(p)[r]) = disk[q]
      BY <1>2, ViewOfTheFile
    <3> QED
      BY <1>1, <2>1, <3>1, <3>2, UpdateSpares
  <2> QED
    BY <1>4, <1>6, <2>2 DEF Lift
<1>7. ASSUME NEW p \in Process, Failover(p) PROVE Survives(q)
  <2>1. op[p].family \in Family
    BY <1>7, CandidatesAreFinite DEF Failovers, Own, Staged, Failover
  <2>2. PoolOf[op[p].family] \in Pool
    BY <2>1, FailoverAssumption
  <2>3. CASE \E n \in Cooldowns : Update(p, PoolOf[op[p].family], Cooled(clock + n, FALSE))
    <3>1. PICK n \in Cooldowns : Update(p, PoolOf[op[p].family], Cooled(clock + n, FALSE))
      BY <2>3
    <3>2. Cooled(clock + n, FALSE).status = "COOLDOWN"
      BY <1>3
    <3> QED
      BY <1>1, <2>2, <3>1, <3>2, UpdateSpares
  <2> QED
    BY <1>4, <1>7, <2>3 DEF Failover
<1>8. ASSUME NEW p \in Process,
             \/ NoSnapshot(p) \/ Notice(p) \/ Denied(p) \/ GiveUp(p) \/ Backoff(p) \/ Wake(p)
             \/ Begin(p) \/ AuditFails(p) \/ Cancel(p)
             \/ \E f \in Selected(p) : Dispatch(p, f)
             \/ \E k \in Outcome[p] : Answer(p, k)
             \/ \E up \in Wirings : Restart(p, up)
             \/ \E out : Recover(p, out)
      PROVE  UNCHANGED disk
  BY <1>8 DEF NoSnapshot, Notice, Denied, GiveUp, Backoff, Wake, Begin, AuditFails, Cancel,
     Dispatch, Answer, Restart, Recover, durable
<1>9. CASE UNCHANGED vars \/ Tick
  BY <1>4, <1>9 DEF vars, Tick, durable
<1>10. AgyPools \subseteq Pool
  BY FailoverAssumption DEF AgyPools
<1> QED
  BY <1>4, <1>5, <1>6, <1>7, <1>8, <1>9, <1>10, <1>11, <1>12 DEF Next, Step, Preflight

\* A cooldown on disk outlives what other processes write: what ends it is its
\* time, a snapshot of the kind that established it, or an update of the same pool
\* that had to wait for the lock.
THEOREM CooldownsAreKept == Spec => CooldownsSurvive
<1>1. Failovers /\ [Next]_vars =>
        [\A q \in Pool : Cooling(disk[q]) =>
           \/ disk'[q] = disk[q]
           \/ disk'[q].status = "COOLDOWN"
           \/ disk[q].usage /\ disk'[q] = Ready
           \/ \E p \in Process : pending[p][q] # None /\ pending'[p][q] = None]_vars
  BY CooldownStays DEF Survives
<1> QED
  BY <1>1, FailoversHold, PTL DEF Spec, CooldownsSurvive

=============================================================================
