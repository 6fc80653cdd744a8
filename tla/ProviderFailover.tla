------------------------- MODULE ProviderFailover --------------------------
(***************************************************************************)
(* Bounded failover of metered calls (providerFailover.js) over the role   *)
(* router and its registries (roleRouting.js) as providerWiring.js wires   *)
(* them.  A process is one MCP server that runs one logical operation of a *)
(* loop of its own, and runs it again when it ended without a review.      *)
(* Processes share quota-pools.json; health, and a pool update that never  *)
(* got the file's lock, live in the memory of a process.                   *)
(*                                                                         *)
(* Time is a clock of a few ticks.  The lock of quota-pools.json makes its *)
(* read-modify-write one step; what is left of it is the wait that times   *)
(* out.  A refresh precedes every read, so a process's view of the pools   *)
(* is the file with its unpersisted updates laid over it.  What a permit   *)
(* costs is the subject of SpendLedger: here an operation is allowed a     *)
(* further attempt while every earlier one is proven to have cost nothing. *)
(***************************************************************************)
EXTENDS Naturals, Sequences, FiniteSets, SequencesExt

CONSTANTS
    Process,
    Family,
    Agy,            \* the families served by the agy transport
    Pool,
    PoolOf,         \* family -> its quota pool
    Policy,         \* process -> candidates of its role, in order
    Wirings,        \* sets of families whose transport may come up at a start
    Delays,         \* same-family retries of a transient failure
    Outcome,        \* process -> outcomes of its calls that are considered
    Cooldowns,      \* ticks a cooldown may last
    MaxClock,       \* bound: ticks
    MaxRuns,        \* bound: calls of its operation, for each process
    None

ASSUME FailoverAssumption ==
    /\ Agy \subseteq Family
    /\ PoolOf \in [Family -> Pool]
    /\ Policy \in [Process -> Seq(Family)]
    /\ \A p \in Process : Len(Policy[p]) > 0 /\ IsInjective(Policy[p])
    /\ Wirings \subseteq SUBSET Family
    /\ Delays \in Nat /\ MaxClock \in Nat /\ MaxRuns \in [Process -> Nat]
    /\ Cooldowns \subseteq Nat \ {0}
    /\ None \notin Family \cup Pool

VARIABLES
    disk,       \* quota-pools.json
    pending,    \* process -> updates it could not persist
    health,     \* process -> health of each family (memory)
    log,        \* process -> durable attempt records of its operation
    blocked,    \* process -> unresolved spend stops further calls
    human,      \* process -> families a human recovery excluded
    pc,
    op,         \* process -> the call of meteredWithFailover it is in
    runs, clock

memory == <<pending, health>>
durable == <<disk, log, blocked, human>>
vars == <<durable, memory, pc, op, runs, clock>>

Goto(p, l) == pc' = [pc EXCEPT ![p] = l]

----------------------------------------------------------------------------
(* Outcomes of one physical call.                                          *)

\* transientKindOf: failures the transport proved safe on the same family.
Transient == {"transientAuth", "transientNetwork"}

\* Failures of an unauthenticated provider.
AuthFailure == {"transientAuth", "unauthenticated"}

\* Codes a failover may follow.
Retryable == Transient \cup {"unauthenticated", "unavailable", "spawn", "quota", "protocol"}

\* isMechanicallyZeroPreSend: the attempt is proven to have cost nothing.
ProvenZero == Transient \cup {"unauthenticated", "unavailable", "spawn", "quota", "badInput"}

\* What each transport can come back with.  Unknown usage, or an answer of an
\* agent that is not the isolated one, leaves the reservation unresolved.
Unresolved == {"unknown", "isolation"}
OfTransport(f) ==
    IF f \in Agy THEN Transient \cup Unresolved \cup {"success", "spawn", "quota", "badInput"}
    ELSE {"success", "unknown", "unauthenticated", "unavailable", "protocol"}

----------------------------------------------------------------------------
(* The quota registry.                                                     *)

Entry == [status : {"UNKNOWN", "READY", "COOLDOWN"}, at : 0..MaxClock,
          until : Nat, usage : BOOLEAN]

Fresh == [status |-> "UNKNOWN", at |-> 0, until |-> 0, usage |-> FALSE]

\* Mutant of View: the file is not read again.
ViewOfOwn(p) == [q \in Pool |-> IF pending[p][q] # None THEN pending[p][q] ELSE Fresh]

\* refresh and _overlayPending: the file as it is now, under the updates this
\* process could not persist that are no older.
View(p) ==
    [q \in Pool |-> IF pending[p][q] # None /\ pending[p][q].at >= disk[q].at
                    THEN pending[p][q] ELSE disk[q]]

Expired(e) == e.status = "COOLDOWN" /\ e.until <= clock
Cooling(e) == e.status = "COOLDOWN" /\ e.until > clock

Cooled(until, usage) == [status |-> "COOLDOWN", at |-> clock, until |-> until, usage |-> usage]
Reopened(e) == [e EXCEPT !.status = "UNKNOWN", !.at = clock, !.until = 0]
Ready == [status |-> "READY", at |-> clock, until |-> 0, usage |-> TRUE]

\* _update: under the lock the latest file is read, changed and replaced, and
\* whatever was pending goes with it.  A lock that cannot be had within the
\* wait leaves the change in this process.
Update(p, q, e) ==
    \/ /\ disk' = [View(p) EXCEPT ![q] = e]
       /\ pending' = [pending EXCEPT ![p] = [r \in Pool |-> None]]
    \/ /\ pending' = [pending EXCEPT ![p][q] = IF e # View(p)[q] THEN e ELSE @]
       /\ UNCHANGED disk

----------------------------------------------------------------------------
(* Routing.                                                                *)

Candidates(p) == ToSet(Policy[p])

\* providerAttemptBudget, at most PROVIDER_ATTEMPT_HARD_CEILING, and the retries.
MaxAttempts(p) == (IF Len(Policy[p]) > 16 THEN 16 ELSE Len(Policy[p])) + Delays

Healthy(p, f) == health[p][f] = "READY"

\* A family the router passes over.  Only health of a transport that was never
\* wired could be cleared by the revalidator, and such a family is passed over
\* all the same, so a revalidation changes nothing.
Excluded(p, f) == f \in op[p].exhausted \cup human[p]
Skipped(p, f) == Excluded(p, f) \/ Cooling(View(p)[PoolOf[f]]) \/ ~Healthy(p, f)

\* Every candidate before this position is passed over.
Reaches(p, i) == \A j \in 1..(i - 1) : Skipped(p, Policy[p][j])

\* The first family that is not passed over, or none.
Selected(p) ==
    {Policy[p][i] : i \in {j \in DOMAIN Policy[p] :
        Reaches(p, j) /\ ~Skipped(p, Policy[p][j])}}

\* A cooldown the router comes across whose time is over.
Lapsed(p) ==
    {PoolOf[Policy[p][i]] : i \in {j \in DOMAIN Policy[p] :
        /\ Reaches(p, j) /\ ~Excluded(p, Policy[p][j])
        /\ Expired(View(p)[PoolOf[Policy[p][j]]])}}

----------------------------------------------------------------------------
(* The start of a call: what the durable records restore.                  *)

\* Which attempts of a family ended so.
Records(p, f, kinds) ==
    {i \in DOMAIN log[p] : log[p][i].family = f /\ log[p][i].kind \in kinds}

\* The latest of them was of one of these kinds.
LatestIs(p, records, kinds) ==
    \E i \in records : log[p][i].kind \in kinds /\ \A j \in records : j <= i

\* Families whose initial transient failure and every retry were spent.
SpentFamilies(p) == {f \in Family : Cardinality(Records(p, f, Transient)) > Delays}

\* Mutant of ExhaustedByAuth: any auth failure among them counts.
ExhaustedByAnyAuth(p, f) == Records(p, f, {"transientAuth"}) # {}

\* The last transient failure is the one that spent the budget.
ExhaustedByAuth(p, f) == LatestIs(p, Records(p, f, Transient), {"transientAuth"})

NoCall == [tried |-> {}, exhausted |-> {}, used |-> 0, n |-> 0,
           family |-> None, kind |-> None, pool |-> None, read |-> {}]

End(p) == Goto(p, "idle") /\ op' = [op EXCEPT ![p] = NoCall]

\* Mutant of Restored: the retry budget starts afresh.
RestoredAfresh(p) == [NoCall EXCEPT !.used = 0]

\* Sequencing state rebuilt from the attempt records.
Restored(p) ==
    [NoCall EXCEPT !.tried = SpentFamilies(p), !.exhausted = SpentFamilies(p),
                       !.used = Cardinality({i \in DOMAIN log[p] : log[p][i].kind \in Transient})]

\* A family exhausted by auth failures is AUTH_FAILED again before any routing.
Begin(p) ==
    /\ pc[p] = "idle" /\ runs[p] < MaxRuns[p]
    /\ op' = [op EXCEPT ![p] = Restored(p)]
    /\ health' = [health EXCEPT ![p] = [f \in Family |->
           IF f \in SpentFamilies(p) /\ ExhaustedByAuth(p, f) THEN "AUTH_FAILED" ELSE @[f]]]
    /\ runs' = [runs EXCEPT ![p] = @ + 1]
    /\ Goto(p, "preflight")
    /\ UNCHANGED <<durable, pending, clock>>

\* Mutant of Lifted: the pool is reopened as it was seen to be.
LiftedAsSeen(e) == Reopened(e)

\* A cooldown whose time is over is lifted, unless another process has renewed it.
Lifted(e) == IF Expired(e) THEN Reopened(e) ELSE e

\* The quota preflight: nothing learnt, or a snapshot of the agy pools that is
\* recorded pool by pool, the pools with quota left before the exhausted ones.
NoSnapshot(p) ==
    /\ pc[p] = "preflight" /\ op[p].read = {} /\ Goto(p, "route")
    /\ UNCHANGED <<durable, memory, op, runs, clock>>

Reads(p, q) ==
    /\ q \notin op[p].read
    /\ op' = [op EXCEPT ![p].read = @ \cup {q}]
    /\ UNCHANGED <<log, blocked, human, health, runs, clock>>

\* Only a cooldown an earlier snapshot established is ended before its time.
Available(p, q) ==
    /\ pc[p] = "preflight" /\ Reads(p, q)
    /\ LET seen == View(p)[q]
       IN  IF seen.usage /\ seen.status # "READY" THEN Update(p, q, Ready)
           ELSE IF Expired(seen) THEN Update(p, q, Lifted(seen))
           ELSE UNCHANGED <<disk, pending>>
    /\ UNCHANGED pc

\* A cooldown the snapshot confirms is not written again; one whose end it does
\* not tell is an inferred backoff, which no snapshot ends.
Depleted(p, q, n, known) ==
    /\ pc[p] \in {"preflight", "depleted"} /\ Reads(p, q)
    /\ LET seen == View(p)[q]
           same == Cooling(seen) /\ seen.usage /\ (known => seen.until = clock + n)
       IN  IF same THEN UNCHANGED <<disk, pending>>
           ELSE Update(p, q, Cooled(clock + n, known))
    /\ Goto(p, "depleted")

\* recordUsageCheck changes no pool, but it writes the file, and what was pending.
RecordUsageCheck(p) ==
    /\ pc[p] \in {"preflight", "depleted"}
    /\ \E q \in op[p].read : Update(p, q, View(p)[q])
    /\ op' = [op EXCEPT ![p].read = {}]
    /\ Goto(p, "route")
    /\ UNCHANGED <<log, blocked, human, health, runs, clock>>

AgyPools == {PoolOf[f] : f \in Agy}

Preflight(p) ==
    \/ NoSnapshot(p) \/ RecordUsageCheck(p)
    \/ \E q \in AgyPools :
        Available(p, q) \/ \E n \in Cooldowns, known \in BOOLEAN : Depleted(p, q, n, known)

----------------------------------------------------------------------------
(* One attempt.                                                            *)

\* get(): a cooldown whose time is over is to be lifted, if it still is.
Notice(p) ==
    /\ pc[p] = "route" /\ op[p].n < MaxAttempts(p)
    /\ \E q \in Lapsed(p) : op' = [op EXCEPT ![p].pool = q]
    /\ Goto(p, "lift")
    /\ UNCHANGED <<durable, memory, runs, clock>>

\* Without the lock the pool is judged as it was seen before the wait.
Lift(p) ==
    /\ pc[p] = "lift" /\ Goto(p, "route")
    /\ LET q == op[p].pool
       IN  \/ /\ disk' = [View(p) EXCEPT ![q] = Lifted(@)]
              /\ pending' = [pending EXCEPT ![p] = [r \in Pool |-> None]]
           \/ /\ pending' = [pending EXCEPT ![p][q] = Reopened(View(p)[q])]
              /\ UNCHANGED disk
    /\ op' = [op EXCEPT ![p].pool = None]
    /\ UNCHANGED <<log, blocked, human, health, runs, clock>>

\* authorize: a later attempt reuses the evidence only while nothing was spent.
Authorised(p) == ~blocked[p] /\ \A i \in DOMAIN log[p] : log[p][i].kind \in ProvenZero

\* Mutant of Routes: nothing remembers the families of this call.
RoutesAgain(p, f) ==
    /\ pc[p] = "route" /\ op[p].n < MaxAttempts(p)
    /\ Lapsed(p) = {} /\ f \in Selected(p)

Routes(p, f) ==
    /\ pc[p] = "route" /\ op[p].n < MaxAttempts(p)
    /\ Lapsed(p) = {} /\ f \in Selected(p) \ op[p].tried

\* The selected family is tried, under a permit of its own.
Dispatch(p, f) ==
    /\ Routes(p, f) /\ Authorised(p)
    /\ op' = [op EXCEPT ![p].tried = @ \cup {f}, ![p].family = f, ![p].n = @ + 1]
    /\ Goto(p, "call")
    /\ UNCHANGED <<durable, memory, runs, clock>>

\* A spend denial is never dispatched and never retried.
Denied(p) ==
    /\ \E f \in Selected(p) : Routes(p, f)
    /\ ~Authorised(p)
    /\ End(p)
    /\ UNCHANGED <<durable, memory, runs, clock>>

\* A routing decision that cannot be written to the audit stops the call.
AuditFails(p) ==
    /\ pc[p] = "route" /\ op[p].n < MaxAttempts(p) /\ Lapsed(p) = {}
    /\ End(p)
    /\ UNCHANGED <<durable, memory, runs, clock>>

\* No attempt is left, no candidate is eligible, or the first eligible one has
\* been tried.
NobodyLeft(p) ==
    \/ op[p].n >= MaxAttempts(p)
    \/ Lapsed(p) = {} /\ Selected(p) \subseteq op[p].tried

GiveUp(p) ==
    /\ pc[p] = "route" /\ NobodyLeft(p)
    /\ End(p)
    /\ UNCHANGED <<durable, memory, runs, clock>>

\* The call ends.  Its record is durable before the failure is acted on; an
\* attempt of unknown cost has none, and blocks the loop.
Answer(p, k) ==
    /\ pc[p] = "call" /\ k \in Outcome[p] \cap OfTransport(op[p].family)
    /\ IF k \in Unresolved
       THEN /\ blocked' = [blocked EXCEPT ![p] = TRUE]
            /\ health' = IF k = "isolation"
                         THEN [health EXCEPT ![p] = [f \in Family |-> IF f \in Agy THEN "UNAVAILABLE" ELSE @[f]]]
                         ELSE health
            /\ End(p)
            /\ UNCHANGED log
       ELSE /\ log' = [log EXCEPT ![p] = Append(@, [family |-> op[p].family, kind |-> k])]
            /\ IF k \in Retryable
               THEN Goto(p, "failure") /\ op' = [op EXCEPT ![p].kind = k]
               ELSE End(p)
            /\ UNCHANGED <<blocked, health>>
    /\ UNCHANGED <<disk, human, pending, runs, clock>>

RetriesSameFamily(p) == op[p].kind \in Transient /\ op[p].used < Delays

\* A transient failure within the budget: the family may be tried again.
Backoff(p) ==
    /\ pc[p] = "failure" /\ RetriesSameFamily(p)
    /\ op' = [op EXCEPT ![p].used = @ + 1, ![p].tried = @ \ {op[p].family},
                        ![p].family = None, ![p].kind = None]
    /\ Goto(p, "backoff")
    /\ UNCHANGED <<durable, memory, runs, clock>>

Wake(p) ==
    /\ pc[p] = "backoff" /\ Goto(p, "route")
    /\ UNCHANGED <<durable, memory, op, runs, clock>>

Cancel(p) ==
    /\ pc[p] = "backoff" /\ End(p)
    /\ UNCHANGED <<durable, memory, runs, clock>>

\* Mutant of HealthAfter: the code of the failure is kept as the status.
HealthAfterCode(k) ==
    IF k \in AuthFailure \cup {"unavailable", "protocol"} THEN k ELSE "READY"

\* RoleRouter.recordFailure, by the code of the failure.
HealthAfter(k) ==
    IF k \in AuthFailure THEN "AUTH_FAILED"
    ELSE IF k \in {"unavailable", "protocol"} THEN "UNAVAILABLE"
    ELSE "READY"

\* A network outage is no news about the provider.
RecordsFailure(p) == op[p].kind # "transientNetwork"

Failover(p) ==
    /\ pc[p] = "failure" /\ ~RetriesSameFamily(p)
    /\ LET f == op[p].family
           k == op[p].kind
       IN  /\ op' = [op EXCEPT ![p].exhausted = IF k \in Transient THEN @ \cup {f} ELSE @,
                               ![p].family = None, ![p].kind = None]
           /\ health' = IF RecordsFailure(p) /\ HealthAfter(k) # "READY"
                        THEN [health EXCEPT ![p][f] = HealthAfter(k)] ELSE health
           /\ IF k = "quota"
              THEN \E n \in Cooldowns : Update(p, PoolOf[f], Cooled(clock + n, FALSE))
              ELSE UNCHANGED <<disk, pending>>
    /\ Goto(p, "route")
    /\ UNCHANGED <<log, blocked, human, runs, clock>>

----------------------------------------------------------------------------
(* The world around the call.                                              *)

\* The process dies, or is restarted; a call in flight leaves its reservation
\* dispatching.
Restart(p, up) ==
    /\ runs[p] \in 1..(MaxRuns[p] - 1)
    /\ blocked' = [blocked EXCEPT ![p] = @ \/ pc[p] = "call"]
    /\ pending' = [pending EXCEPT ![p] = [q \in Pool |-> None]]
    /\ health' = [health EXCEPT ![p] = [f \in Family |-> IF f \in up THEN "READY" ELSE "UNAVAILABLE"]]
    /\ End(p)
    /\ UNCHANGED <<disk, log, human, runs, clock>>

\* A human clears the unresolved spend and may exclude the family.
Recover(p, out) ==
    /\ pc[p] = "idle" /\ blocked[p] /\ out \subseteq Candidates(p)
    /\ blocked' = [blocked EXCEPT ![p] = FALSE]
    /\ human' = [human EXCEPT ![p] = @ \cup out]
    /\ UNCHANGED <<disk, log, memory, pc, op, runs, clock>>

Tick ==
    /\ clock < MaxClock /\ clock' = clock + 1
    /\ UNCHANGED <<durable, memory, pc, op, runs>>

Init ==
    /\ disk = [q \in Pool |-> Fresh]
    /\ pending = [p \in Process |-> [q \in Pool |-> None]]
    /\ health \in [Process -> {[f \in Family |-> IF f \in up THEN "READY" ELSE "UNAVAILABLE"] : up \in Wirings}]
    /\ log = [p \in Process |-> <<>>]
    /\ blocked = [p \in Process |-> FALSE]
    /\ human = [p \in Process |-> {}]
    /\ pc = [p \in Process |-> "idle"]
    /\ op = [p \in Process |-> NoCall]
    /\ runs = [p \in Process |-> 0]
    /\ clock = 0

Step(p) ==
    \/ Preflight(p) \/ Notice(p) \/ Lift(p) \/ Denied(p) \/ GiveUp(p)
    \/ (\E f \in Selected(p) : Dispatch(p, f))
    \/ (\E k \in Outcome[p] : Answer(p, k))
    \/ Backoff(p) \/ Wake(p) \/ Failover(p)

Next ==
    \/ \E p \in Process :
        \/ Step(p) \/ Begin(p) \/ AuditFails(p) \/ Cancel(p)
        \/ (\E up \in Wirings : Restart(p, up))
        \/ (\E out \in {{}} \cup {{f} : f \in Candidates(p)} : Recover(p, out))
    \/ Tick

Spec == Init /\ [][Next]_vars

----------------------------------------------------------------------------
(* Properties.                                                             *)

TypeOK ==
    /\ disk \in [Pool -> Entry]
    /\ pending \in [Process -> [Pool -> Entry \cup {None}]]
    /\ health \in [Process -> [Family -> {"READY", "UNAVAILABLE", "AUTH_FAILED"}]]
    /\ \A p \in Process : log[p] \in Seq([family : Candidates(p), kind : Outcome[p]])
    /\ blocked \in [Process -> BOOLEAN]
    /\ \A p \in Process : human[p] \subseteq Candidates(p)
    /\ pc \in [Process -> {"idle", "preflight", "depleted", "route", "lift", "call", "failure", "backoff"}]
    /\ \A p \in Process :
        /\ op[p].tried \subseteq Candidates(p) /\ op[p].exhausted \subseteq Candidates(p)
        /\ op[p].n \in 0..MaxAttempts(p)
        /\ op[p].family \in Candidates(p) \cup {None}
        /\ op[p].kind \in Retryable \cup {None}
        /\ op[p].pool \in Pool \cup {None} /\ op[p].read \subseteq Pool
    /\ \A p \in Process : runs[p] \in 0..MaxRuns[p]
    /\ clock \in 0..MaxClock

\* However often the process dies and the operation is called again, a family
\* is given one transient failure and its retries in an operation, no more.
NoFourthTransientCall ==
    \A p \in Process, f \in Family : Cardinality(Records(p, f, Transient)) <= Delays + 1

\* An AUTH_FAILED family is one whose last failure was of its credentials: an
\* earlier refresh race, or an outage after it, does not poison its health.
AuthHealthIsEarned ==
    \A p \in Process, f \in Family : health[p][f] = "AUTH_FAILED" =>
        LatestIs(p, Records(p, f, Outcome[p]), AuthFailure)

\* A cooldown on disk outlives the updates of other processes: what lifts it
\* is its time, a usage snapshot of the kind that established it, or an update
\* of the same pool that had to wait for the lock.
CooldownsSurvive ==
    [][\A q \in Pool : Cooling(disk[q]) =>
        \/ disk'[q] = disk[q]
        \/ disk'[q].status = "COOLDOWN"
        \/ disk[q].usage /\ disk'[q] = Ready
        \/ \E p \in Process : pending[p][q] # None /\ pending'[p][q] = None]_vars

\* A call is not dispatched to a family whose pool is cooling, whichever
\* process recorded it, unless this process could not persist what it knows.
CooldownSeenEverywhere ==
    [][\A p \in Process : pc[p] = "route" /\ pc'[p] = "call" =>
        LET q == PoolOf[op'[p].family] IN Cooling(disk[q]) => pending[p][q] # None]_vars

\* Within a call a family is called once, and again only after each of the
\* transient failures the budget absorbed.
OneTryPerFamily ==
    \A p \in Process : pc[p] # "idle" =>
        op[p].n <= Cardinality(op[p].tried) + op[p].used

\* Every candidate is reached while the earlier ones fail safely: a call gives
\* up only when each candidate has been tried or is passed over by the router.
EveryCandidateIsReached ==
    [][\A p \in Process : GiveUp(p) =>
        \A f \in Candidates(p) : f \in op[p].tried \/ Skipped(p, f)]_vars
============================================================================
