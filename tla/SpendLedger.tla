---------------------------- MODULE SpendLedger ----------------------------
(***************************************************************************)
(* The paid-call protocol of ReviewLoop: one loop's workflow.json, and the *)
(* processes that review the loop, each with its own in-memory copy of the *)
(* ledgers.  Every Reviewer or Supervisor call crosses                     *)
(*                                                                         *)
(*   authorize -> consume evidence -> RESERVED -> DISPATCHING -> call      *)
(*             -> SETTLED_KNOWN | UNRESOLVED                               *)
(*                                                                         *)
(* with a durable write, which may fail or be ambiguous, and a possible    *)
(* crash between any two of them.  Sources: modelSpendAuthority.js,        *)
(* modelSpendReservation.js, newInformation.js, reviewSpend.js,            *)
(* spendRecovery.js, providerFailover.js and the lease checks of           *)
(* controller.js.                                                          *)
(***************************************************************************)
EXTENDS Naturals, FiniteSets, FiniteSetsExt

CONSTANTS
    Process,        \* the processes that may review the loop
    Reservation,    \* reservation ids (randomUUID); finite, bounds the calls
    Operation,      \* logical calls: a chunk of a round, a supervision
    Role,           \* "reviewer" and "supervisor" in the code
    Family,         \* provider families a call may be routed to
    Evidence,       \* evidence ids
    RoleOf,         \* Operation -> Role
    EvidenceOf,     \* Operation -> the review states it may cite
    MaxCalls,       \* Role -> call ceiling
    MaxUsage,       \* usage-volume ceiling
    AnomalyLimit,   \* single-call usage above this trips the Token Sentinel
    Usage,          \* usage volumes a provider may report
    MaxFaults,      \* bound: failed or ambiguous durable writes
    MaxCrashes,     \* bound: process crashes
    Displacement,   \* may a remote contender reclaim a live owner's lease?
    None            \* no reservation, operation, process, ...

ASSUME NoneAssumption ==
    None \notin Process \cup Reservation \cup Operation \cup Family \cup Evidence
ASSUME ShapeAssumption ==
    /\ RoleOf \in [Operation -> Role]
    /\ EvidenceOf \in [Operation -> SUBSET Evidence]
    /\ MaxCalls \in [Role -> Nat]
    /\ Displacement \in BOOLEAN
ASSUME IdsAssumption == IsFiniteSet(Reservation)
ASSUME AmountAssumption ==
    /\ Usage \subseteq Nat
    /\ MaxUsage \in Nat /\ AnomalyLimit \in Nat
    /\ MaxFaults \in Nat /\ MaxCrashes \in Nat

VARIABLES
    res,        \* durable: modelSpendReservations
    claims,     \* durable: consumed <<operation, evidence>> pairs
    records,    \* durable: reviewLoopSpend, at most one record per reservation
    latch,      \* durable: the reservation that tripped the Sentinel, or None
    owner,      \* the process named by the lease file, or None
    pc,         \* where each process is
    cache,      \* ReservationLedger._cache of each process
    cclaims,    \* NewInformationLedger._cache of each process
    view,       \* priorRecords and sessionRecords of each process
    cur,        \* the call each process is making
    physical,   \* what really happened at the provider (known to no process)
    faults, crashes

durable == <<res, claims, records, latch>>
local   == <<cache, cclaims, view, cur>>
vars    == <<durable, owner, pc, local, physical, faults, crashes>>
-----------------------------------------------------------------------------
Status == {"ABSENT", "RESERVED", "DISPATCHING", "SETTLED_KNOWN", "UNRESOLVED",
           "CANCELLED_PRE_DISPATCH"}

\* A reservation.  zero: its settlement reason proves that nothing was spent.
\* src: humanRetrySourceReservationId.  ack, ev, excl, gFor, gUsed: the human
\* acknowledgement, its evidence, its routing exclusions and its retry grant.
Entry == [st: Status, op: Operation \cup {None}, fam: Family \cup {None},
          att: Nat, zero: BOOLEAN, src: Reservation \cup {None},
          ack: BOOLEAN, ev: Evidence \cup {None}, excl: SUBSET Family,
          gFor: Reservation \cup {None}, gUsed: BOOLEAN]

Blank == [st |-> "ABSENT", op |-> None, fam |-> None, att |-> 0, zero |-> FALSE,
          src |-> None, ack |-> FALSE, ev |-> None, excl |-> {}, gFor |-> None,
          gUsed |-> FALSE]

NoRecord == [kind |-> "none", usage |-> 0]
Unknown  == [kind |-> "unknown", usage |-> 0]
Known(u) == [kind |-> "known", usage |-> u]
Record   == {NoRecord, Unknown} \cup {Known(u) : u \in Usage \cup {0}}

\* What a dispatch can come back with: an abort before a byte was sent (or a
\* proven quota rejection), a result or failure with resolved usage, an outcome
\* whose usage is unknown, or the caller's own cancellation.
Outcome == {[kind |-> "zero", usage |-> 0], Unknown,
            [kind |-> "cancelled", usage |-> 0]} \cup {Known(u) : u \in Usage}

NoCall == [op |-> None, ev |-> None, fam |-> None, att |-> 0, src |-> None,
           rid |-> None]

NoLedger  == [r \in Reservation |-> Blank]
NoRecords == [r \in Reservation |-> NoRecord]
-----------------------------------------------------------------------------
Blocking(e) == e.st \in {"DISPATCHING", "UNRESOLVED"}
Acked(e)    == e.st = "UNRESOLVED" /\ e.ack

HasUnresolved(m) == \E r \in Reservation : Blocking(m[r]) /\ ~Acked(m[r])

Excluded(m) == UNION {m[r].excl : r \in {x \in Reservation : m[x].ack}}

\* Mutant of ProvenZero: any settled attempt counts as one that cost nothing.
ProvenZeroInferred(e) == e.st \in {"RESERVED", "CANCELLED_PRE_DISPATCH", "SETTLED_KNOWN"}

\* isProvenPreSendZero: the provider was mechanically never billed.
ProvenZero(e) == \/ e.st \in {"RESERVED", "CANCELLED_PRE_DISPATCH"}
                 \/ e.st = "SETTLED_KNOWN" /\ e.zero

Earlier(m, op, att) == {r \in Reservation : m[r].op = op /\ m[r].att < att}

\* Acknowledged reservations whose one-shot retry is still to be had.
Grants(m, op, ev) ==
    {r \in Reservation : /\ Acked(m[r]) /\ m[r].op = op /\ m[r].ev = ev
                         /\ ~m[r].gUsed /\ m[r].gFor = None}

GrantHeldBy(m, r) ==
    LET source == m[m[r].src]
    IN  Acked(source) /\ source.gFor = r /\ ~source.gUsed

\* Mutant of Reconciled: an interrupted dispatch is taken for one never sent.
ReconciledHopefully(m) ==
    [r \in Reservation |->
        IF m[r].st \in {"DISPATCHING", "RESERVED"}
        THEN [m[r] EXCEPT !.st = "CANCELLED_PRE_DISPATCH"] ELSE m[r]]

\* Mutant of Reconciled: only reservations never sent are looked at.
ReconciledReservedOnly(m) ==
    [r \in Reservation |->
        IF m[r].st = "RESERVED" THEN [m[r] EXCEPT !.st = "CANCELLED_PRE_DISPATCH"] ELSE m[r]]

\* reconcileOnResume: a dispatch that may have happened becomes UNRESOLVED, one
\* that cannot have happened is cancelled and gives its retry grant back.
Reconciled(m) ==
    [r \in Reservation |->
        LET e == m[r]
        IN  CASE e.st = "DISPATCHING" -> [e EXCEPT !.st = "UNRESOLVED"]
              [] e.st = "RESERVED"    -> [e EXCEPT !.st = "CANCELLED_PRE_DISPATCH"]
              [] Acked(e) /\ e.gFor # None /\ ~e.gUsed
                 /\ m[e.gFor].st = "RESERVED" /\ m[e.gFor].src = r
                                      -> [e EXCEPT !.gFor = None]
              [] OTHER                -> e]

CallsOf(role, m, recs) ==
    Cardinality({r \in Reservation : /\ recs[r].kind # "none"
                                     /\ m[r].op # None
                                     /\ RoleOf[m[r].op] = role})

UsageOf(recs) == MapThenSumSet(LAMBDA r : recs[r].usage, Reservation)

\* A settled call whose accounting record is gone (an older build's crash).
Unaccounted(m, recs) ==
    \E r \in Reservation : m[r].st = "SETTLED_KNOWN" /\ recs[r].kind = "none"
-----------------------------------------------------------------------------
\* A durable write succeeds, leaves the old snapshot, or publishes the new one
\* and still reports an error (the directory fsync after the rename failed).
WriteResult == IF faults < MaxFaults THEN {"ok", "failed", "ambiguous"} ELSE {"ok"}
Published(w) == w # "failed"
CountFault(w) == faults' = IF w = "ok" THEN faults ELSE faults + 1

\* The surface of a review ends with the first authorization error; nothing
\* reads its caches again.
Forget(p) ==
    /\ cache'   = [cache EXCEPT ![p] = NoLedger]
    /\ cclaims' = [cclaims EXCEPT ![p] = {}]
    /\ view'    = [view EXCEPT ![p] = NoRecords]
    /\ cur'     = [cur EXCEPT ![p] = NoCall]

Goto(p, l) == pc' = [pc EXCEPT ![p] = l]
Stop(p)    == Goto(p, "stopped") /\ Forget(p)

\* The lease file is absent, or names a process that is gone.
LeaseFree == \A q \in Process : owner = q => pc[q] = "closed"

Unused(r) == res[r] = Blank /\ \A p \in Process : cache[p][r] = Blank
IdsLeft   == \E r \in Reservation : Unused(r)
-----------------------------------------------------------------------------
Init ==
    /\ res = NoLedger /\ claims = {} /\ records = NoRecords /\ latch = None
    /\ owner = None
    /\ pc = [p \in Process |-> "closed"]
    /\ cache = [p \in Process |-> NoLedger]
    /\ cclaims = [p \in Process |-> {}]
    /\ view = [p \in Process |-> NoRecords]
    /\ cur = [p \in Process |-> NoCall]
    /\ physical = [r \in Reservation |-> NoRecord]
    /\ faults = 0 /\ crashes = 0

\* reviewloop_review takes the loop's lease.  Displacement stands for a remote
\* contender that finds the lease expired while its owner still runs.
Open(p) ==
    /\ pc[p] = "closed"
    /\ LeaseFree \/ Displacement
    /\ owner' = p
    /\ Goto(p, "open")
    /\ UNCHANGED <<durable, local, physical, faults, crashes>>

\* The first use of a new spend surface loads the ledgers and reconciles them;
\* the reconciliation stays in memory when its write fails, and the failure is
\* swallowed.
LoadAndReconcile(p, w) ==
    /\ pc[p] = "open"
    /\ w = "ok" \/ Reconciled(res) # res
    /\ cache'   = [cache EXCEPT ![p] = Reconciled(res)]
    /\ cclaims' = [cclaims EXCEPT ![p] = claims]
    /\ view'    = [view EXCEPT ![p] = records]
    /\ res' = IF Published(w) THEN Reconciled(res) ELSE res
    /\ CountFault(w)
    /\ Goto(p, "ready")
    /\ UNCHANGED <<claims, records, latch, owner, cur, physical, crashes>>

\* startAttempt of meteredWithFailover: one more than the highest recorded
\* attempt of the operation, or 2 when only its claim survived.
StartAttempt(p, op, ev) ==
    LET prior == {cache[p][r].att :
                    r \in {x \in Reservation : /\ view[p][x].kind # "none"
                                               /\ cache[p][x].op = op}}
    IN  IF prior # {} THEN Max(prior) + 1
        ELSE IF <<op, ev>> \in cclaims[p] THEN 2 ELSE 1

\* The next attempt of an operation: its first in this review, or the failover
\* after an attempt that ended in a retryable provider failure.
Attempting(p, op, ev, att) ==
    \/ /\ pc[p] = "ready"
       /\ ev \in EvidenceOf[op]
       /\ att = StartAttempt(p, op, ev)
    \/ /\ pc[p] = "retry"
       /\ op = cur[p].op /\ ev = cur[p].ev
       /\ att = cur[p].att + 1

\* Mutants of Permitted: an off-by-one call ceiling, no check of the human's
\* exclusions, an off-by-one usage ceiling.
PermittedOneTooMany(p, op, fam) ==
    /\ latch = None
    /\ ~HasUnresolved(cache[p])
    /\ fam \notin Excluded(cache[p])
    /\ CallsOf(RoleOf[op], cache[p], view[p]) <= MaxCalls[RoleOf[op]]
    /\ UsageOf(view[p]) < MaxUsage

PermittedAnyFamily(p, op, fam) ==
    /\ latch = None
    /\ ~HasUnresolved(cache[p])
    /\ CallsOf(RoleOf[op], cache[p], view[p]) < MaxCalls[RoleOf[op]]
    /\ UsageOf(view[p]) < MaxUsage

PermittedAtUsageLimit(p, op, fam) ==
    /\ latch = None
    /\ ~HasUnresolved(cache[p])
    /\ fam \notin Excluded(cache[p])
    /\ CallsOf(RoleOf[op], cache[p], view[p]) < MaxCalls[RoleOf[op]]
    /\ UsageOf(view[p]) <= MaxUsage

\* Everything meteredCall and authorize check before they look at evidence:
\* the Sentinel latch, unaccounted spend, unresolved spend, human exclusions
\* and the spend policy.
Permitted(p, op, fam) ==
    /\ latch = None
    /\ ~Unaccounted(cache[p], view[p])
    /\ ~HasUnresolved(cache[p])
    /\ fam \notin Excluded(cache[p])
    /\ CallsOf(RoleOf[op], cache[p], view[p]) < MaxCalls[RoleOf[op]]
    /\ UsageOf(view[p]) < MaxUsage

\* Which claim, if any, justifies an attempt.
FreshEvidence(p, op, ev) == <<op, ev>> \notin cclaims[p]

ProvenFailover(p, op, ev, att) ==
    /\ att > 1
    /\ <<op, ev>> \in cclaims[p]
    /\ Earlier(cache[p], op, att) # {}
    /\ \A r \in Earlier(cache[p], op, att) : ProvenZero(cache[p][r])

\* Mutant of HumanRetry: any free grant of the loop will do.
HumanRetryAnyGrant(p, op, ev, att, source) ==
    LET spent == {r \in Earlier(cache[p], op, att) : ~ProvenZero(cache[p][r])}
    IN  /\ att > 1
        /\ <<op, ev>> \in cclaims[p]
        /\ spent # {} /\ \A r \in spent : Acked(cache[p][r])
        /\ Acked(cache[p][source])
        /\ ~cache[p][source].gUsed /\ cache[p][source].gFor = None

HumanRetry(p, op, ev, att, source) ==
    LET spent == {r \in Earlier(cache[p], op, att) : ~ProvenZero(cache[p][r])}
    IN  /\ att > 1
        /\ <<op, ev>> \in cclaims[p]
        /\ spent # {} /\ \A r \in spent : Acked(cache[p][r])
        /\ Grants(cache[p], op, ev) = {source}

Justified(p, op, ev, att) ==
    \/ FreshEvidence(p, op, ev)
    \/ ProvenFailover(p, op, ev, att)
    \/ \E source \in Reservation : HumanRetry(p, op, ev, att, source)

Authorized(p, op, ev, fam, att) ==
    /\ owner = p                            \* assertLeaseHeld
    /\ Attempting(p, op, ev, att)
    /\ Permitted(p, op, fam)
    /\ IdsLeft
    /\ UNCHANGED <<durable, owner, cache, cclaims, view, physical, faults, crashes>>

Calling(op, ev, fam, att, source) ==
    [op |-> op, ev |-> ev, fam |-> fam, att |-> att, src |-> source, rid |-> None]

AuthorizeFresh(p, op, ev, fam, att) ==
    /\ Authorized(p, op, ev, fam, att)
    /\ FreshEvidence(p, op, ev)
    /\ cur' = [cur EXCEPT ![p] = Calling(op, ev, fam, att, None)]
    /\ Goto(p, "consume")

AuthorizeFailover(p, op, ev, fam, att) ==
    /\ Authorized(p, op, ev, fam, att)
    /\ ProvenFailover(p, op, ev, att)
    /\ cur' = [cur EXCEPT ![p] = Calling(op, ev, fam, att, None)]
    /\ Goto(p, "reserve")

AuthorizeHumanRetry(p, op, ev, fam, att, source) ==
    /\ Authorized(p, op, ev, fam, att)
    /\ HumanRetry(p, op, ev, att, source)
    /\ cur' = [cur EXCEPT ![p] = Calling(op, ev, fam, att, source)]
    /\ Goto(p, "reserve")

\* authorize throws: the review returns its denial.
Deny(p, op, ev, fam, att) ==
    /\ owner = p
    /\ Attempting(p, op, ev, att)
    /\ ~(Permitted(p, op, fam) /\ Justified(p, op, ev, att))
    /\ Stop(p)
    /\ UNCHANGED <<durable, owner, physical, faults, crashes>>

\* The claim is durable before the cache knows it, and before a reservation
\* exists.
Consume(p, w) ==
    LET claimed == cclaims[p] \cup {<<cur[p].op, cur[p].ev>>}
    IN  /\ pc[p] = "consume"
        /\ claims' = IF Published(w) THEN claimed ELSE claims
        /\ CountFault(w)
        /\ IF w = "ok"
           THEN /\ cclaims' = [cclaims EXCEPT ![p] = claimed]
                /\ Goto(p, "reserve")
                /\ UNCHANGED <<cache, view, cur>>
           ELSE Stop(p)
        /\ UNCHANGED <<res, records, latch, owner, physical, crashes>>

\* The map a reservation is written with: the new entry and, for a human retry,
\* the grant bound to it.
WithReservation(m, r, call) ==
    [x \in Reservation |->
        CASE x = r -> [Blank EXCEPT !.st = "RESERVED", !.op = call.op,
                          !.fam = call.fam, !.att = call.att, !.src = call.src]
          [] x = call.src /\ x # r -> [m[x] EXCEPT !.gFor = r]
          [] OTHER -> m[x]]

\* The whole map is written back from the cache.
Reserve(p, r, w) ==
    LET next == WithReservation(cache[p], r, cur[p])
    IN  /\ pc[p] = "reserve"
        /\ Unused(r)
        /\ res' = IF Published(w) THEN next ELSE res
        /\ CountFault(w)
        /\ IF w = "ok"
           THEN /\ cache' = [cache EXCEPT ![p] = next]
                /\ cur' = [cur EXCEPT ![p].rid = r]
                /\ Goto(p, "permit")
                /\ UNCHANGED <<cclaims, view>>
           ELSE Stop(p)
        /\ UNCHANGED <<claims, records, latch, owner, physical, crashes>>

\* Mutant of WithDispatch: the grant is left unspent.
WithDispatchGrantKept(m, r) == [m EXCEPT ![r].st = "DISPATCHING"]

\* The boundary after which a call may have happened.  A human retry spends its
\* grant here, and not when it was allocated.
WithDispatch(m, r) ==
    [x \in Reservation |->
        CASE x = r -> [m[x] EXCEPT !.st = "DISPATCHING"]
          [] x = m[r].src /\ x # r -> [m[x] EXCEPT !.gUsed = TRUE]
          [] OTHER -> m[x]]

\* Mutant of MarkDispatching: the boundary is noted in memory only.
MarkDispatchingInMemory(p, w) ==
    /\ pc[p] = "permit" /\ w = "ok"
    /\ cache' = [cache EXCEPT ![p] = WithDispatch(@, cur[p].rid)]
    /\ Goto(p, "call")
    /\ UNCHANGED <<durable, owner, cclaims, view, cur, physical, faults, crashes>>

MarkDispatching(p, w) ==
    LET r    == cur[p].rid
        next == WithDispatch(cache[p], r)
        held == cache[p][r].src = None \/ GrantHeldBy(cache[p], r)
    IN  /\ pc[p] = "permit"
        /\ res' = IF held /\ Published(w) THEN next ELSE res
        /\ CountFault(w)
        /\ IF held /\ w = "ok"
           THEN /\ cache' = [cache EXCEPT ![p] = next]
                /\ Goto(p, "call")
                /\ UNCHANGED <<cclaims, view, cur>>
           ELSE Stop(p)
        /\ UNCHANGED <<claims, records, latch, owner, physical, crashes>>

\* The provider call itself, bounded by the transport's timeout.
CallProvider(p, out) ==
    /\ pc[p] = "call"
    /\ physical' = [physical EXCEPT ![cur[p].rid] = out]
    /\ Goto(p, "settle")
    /\ UNCHANGED <<durable, owner, local, faults, crashes>>

\* Mutant of SettleKnown: the status is written first, the record by a second
\* write that may fail.
SettleKnownInTwoWrites(p, w, next) ==
    LET r     == cur[p].rid
        entry == [cache[p][r] EXCEPT !.st = "SETTLED_KNOWN",
                                     !.zero = (physical[r].kind = "zero")]
    IN  /\ pc[p] = "settle"
        /\ physical[r].kind \in {"zero", "known"}
        /\ res' = [res EXCEPT ![r] = entry]
        /\ records' = IF Published(w)
                      THEN [records EXCEPT ![r] = Known(physical[r].usage)] ELSE records
        /\ CountFault(w)
        /\ Stop(p)
        /\ UNCHANGED <<claims, latch, owner, physical, crashes>>

\* commitKnownSpend: the status, the spend record and the latch in one write,
\* into the durable map.  A known failure may be retried, an anomaly may not.
SettleKnown(p, w, next) ==
    LET r     == cur[p].rid
        used  == physical[r].usage
        entry == [cache[p][r] EXCEPT !.st = "SETTLED_KNOWN",
                                     !.zero = (physical[r].kind = "zero")]
        commit == /\ Published(w)
                  /\ res[r].st = "DISPATCHING" /\ records[r] = NoRecord
    IN  /\ pc[p] = "settle"
        /\ physical[r].kind \in {"zero", "known"}
        /\ next \in (IF physical[r].kind = "zero" THEN {"retry"} ELSE {"ready", "retry"})
        /\ res' = IF commit THEN [res EXCEPT ![r] = entry] ELSE res
        /\ records' = IF commit THEN [records EXCEPT ![r] = Known(used)] ELSE records
        /\ latch' = IF commit /\ used > AnomalyLimit /\ latch = None THEN r ELSE latch
        /\ CountFault(w)
        /\ IF commit /\ w = "ok" /\ used <= AnomalyLimit
           THEN /\ cache' = [cache EXCEPT ![p][r] = entry]
                /\ view' = [view EXCEPT ![p][r] = Known(used)]
                /\ Goto(p, next)
                /\ UNCHANGED <<cclaims, cur>>
           ELSE Stop(p)
        /\ UNCHANGED <<claims, owner, physical, crashes>>

\* markUnresolved: no outcome escapes while its usage is unknown, except the
\* caller's own cancellation.
SettleUnknown(p, w) ==
    LET r    == cur[p].rid
        next == [cache[p] EXCEPT ![r].st = "UNRESOLVED"]
    IN  /\ pc[p] = "settle"
        /\ physical[r].kind \in {"unknown", "cancelled"}
        /\ res' = IF Published(w) THEN next ELSE res
        /\ CountFault(w)
        /\ IF w = "ok" /\ physical[r].kind = "cancelled"
           THEN /\ cache' = [cache EXCEPT ![p] = next]
                /\ Goto(p, "cancelled")
                /\ UNCHANGED <<cclaims, view, cur>>
           ELSE Stop(p)
        /\ UNCHANGED <<claims, records, latch, owner, physical, crashes>>

\* A cancellation leaves dispatch as an ordinary error, so meteredCall appends
\* a spend record of unknown usage for the reservation it left UNRESOLVED.
RecordCancelled(p, w) ==
    /\ pc[p] = "cancelled"
    /\ records' = IF Published(w) THEN [records EXCEPT ![cur[p].rid] = Unknown]
                                  ELSE records
    /\ CountFault(w)
    /\ Stop(p)
    /\ UNCHANGED <<res, claims, latch, owner, physical, crashes>>

\* The review returns and its lease is released, if it is still its own.
Close(p) ==
    /\ pc[p] \in {"ready", "retry", "stopped"}
    /\ owner' = IF owner = p THEN None ELSE owner
    /\ Goto(p, "closed")
    /\ Forget(p)
    /\ UNCHANGED <<durable, physical, faults, crashes>>

\* The process dies.  The lease file stays; a call under way may or may not
\* have reached the provider.
Crash(p) ==
    /\ pc[p] # "closed"
    /\ crashes < MaxCrashes
    /\ crashes' = crashes + 1
    /\ \/ UNCHANGED physical
       \/ /\ pc[p] = "call"
          /\ physical' = [physical EXCEPT ![cur[p].rid] = Unknown]
    /\ Goto(p, "closed")
    /\ Forget(p)
    /\ UNCHANGED <<durable, owner, faults>>

\* Mutant of Acknowledge: the cited evidence is stored as a list.
AcknowledgeEvidenceList(r, excl) ==
    LET cited == {ev \in Evidence : <<res[r].op, ev>> \in claims}
    IN  /\ LeaseFree
        /\ res[r].st = "UNRESOLVED" /\ ~res[r].ack
        /\ records[r] = NoRecord
        /\ res' = [res EXCEPT ![r].ack = TRUE, ![r].ev = cited, ![r].excl = excl]
        /\ records' = [records EXCEPT ![r] = Unknown]
        /\ UNCHANGED <<claims, latch, owner, pc, local, physical, faults, crashes>>

\* acknowledge-spend, run by an operator under the lease: the acknowledgement,
\* the one-shot grant and the UNKNOWN record in one write.
Acknowledge(r, excl) ==
    LET cited == {ev \in Evidence : <<res[r].op, ev>> \in claims}
    IN  /\ LeaseFree
        /\ res[r].st = "UNRESOLVED" /\ ~res[r].ack
        /\ records[r] = NoRecord
        /\ \E ev \in cited :
             /\ cited = {ev}
             /\ res' = [res EXCEPT ![r].ack = TRUE, ![r].ev = ev, ![r].excl = excl]
        /\ records' = [records EXCEPT ![r] = Unknown]
        /\ UNCHANGED <<claims, latch, owner, pc, local, physical, faults, crashes>>

\* Acknowledging again only appends routing exclusions.
Amend(r, excl) ==
    /\ LeaseFree
    /\ Acked(res[r]) /\ records[r] = Unknown
    /\ ~(excl \subseteq res[r].excl)
    /\ res' = [res EXCEPT ![r].excl = @ \cup excl]
    /\ UNCHANGED <<claims, records, latch, owner, pc, local, physical, faults, crashes>>
-----------------------------------------------------------------------------
Attempt == 1 .. Cardinality(Reservation) + 2   \* every attempt number in reach

AuthorizeStep(p) ==
    \E op \in Operation, ev \in Evidence, fam \in Family, att \in Attempt :
        \/ AuthorizeFresh(p, op, ev, fam, att)
        \/ AuthorizeFailover(p, op, ev, fam, att)
        \/ \E source \in Reservation : AuthorizeHumanRetry(p, op, ev, fam, att, source)

DenyStep(p) ==
    \E op \in Operation, ev \in Evidence, fam \in Family, att \in Attempt :
        Deny(p, op, ev, fam, att)

WriteStep(p) ==
    \E w \in WriteResult :
        \/ LoadAndReconcile(p, w)
        \/ Consume(p, w)
        \/ \E r \in Reservation : Reserve(p, r, w)
        \/ MarkDispatching(p, w)
        \/ \E next \in {"ready", "retry"} : SettleKnown(p, w, next)
        \/ SettleUnknown(p, w)
        \/ RecordCancelled(p, w)

CallStep(p) == \E out \in Outcome : CallProvider(p, out)

Review(p) == \/ Open(p) \/ AuthorizeStep(p) \/ DenyStep(p) \/ WriteStep(p)
             \/ CallStep(p) \/ Close(p)

Human == \E r \in Reservation, excl \in SUBSET Family : Acknowledge(r, excl) \/ Amend(r, excl)

Next == (\E p \in Process : Review(p) \/ Crash(p)) \/ Human

Spec == Init /\ [][Next]_vars

\* The Worker calls reviewloop_review again after every result and every crash,
\* a process that runs keeps running, and a provider call ends by its timeout.
\* A review that could make a call on every visit makes it in the end.
Fairness ==
    \A p \in Process :
        /\ WF_vars(Open(p)) /\ WF_vars(WriteStep(p)) /\ WF_vars(CallStep(p))
        /\ WF_vars(Close(p)) /\ SF_vars(AuthorizeStep(p))

FairSpec == Spec /\ Fairness
-----------------------------------------------------------------------------
PcLabel == {"closed", "open", "ready", "retry", "consume", "reserve", "permit",
            "call", "settle", "cancelled", "stopped"}

CallInfo == [op: Operation \cup {None}, ev: Evidence \cup {None},
             fam: Family \cup {None}, att: Nat, src: Reservation \cup {None},
             rid: Reservation \cup {None}]

\* Every variable has the type its comment says.
TypeOK ==
    /\ res \in [Reservation -> Entry]
    /\ claims \subseteq Operation \X Evidence
    /\ records \in [Reservation -> Record]
    /\ latch \in Reservation \cup {None}
    /\ owner \in Process \cup {None}
    /\ pc \in [Process -> PcLabel]
    /\ cache \in [Process -> [Reservation -> Entry]]
    /\ cclaims \in [Process -> SUBSET (Operation \X Evidence)]
    /\ view \in [Process -> [Reservation -> Record]]
    /\ cur \in [Process -> CallInfo]
    /\ physical \in [Reservation -> Outcome \cup {NoRecord}]
    /\ faults \in Nat /\ crashes \in Nat

\* Whatever reached the provider is on disk: either a reservation that blocks
\* further spend until a human accepts it, or a settled one with a record of
\* exactly the usage the provider reported.
SpendIsNeverLost ==
    \A r \in Reservation : physical[r] # NoRecord =>
        \/ Blocking(res[r])
        \/ /\ res[r].st = "SETTLED_KNOWN"
           /\ records[r] = Known(physical[r].usage)

\* Status, spend record and Sentinel latch are written together or not at all:
\* a reservation is settled exactly when its exact usage is recorded, an
\* acknowledgement comes with its UNKNOWN record, and a record above the
\* single-call limit is never on disk without a latch.
NoHalfSettlement ==
    \A r \in Reservation :
        /\ (res[r].st = "SETTLED_KNOWN") <=> (records[r].kind = "known")
        /\ res[r].ack => res[r].st = "UNRESOLVED" /\ records[r] = Unknown
        /\ records[r].usage > AnomalyLimit => latch # None

\* One claim of new information pays for one call that may have been billed:
\* only a human's retry grant adds another, whatever crashed in between.
ClaimSpentOnce ==
    \A op \in Operation :
        LET billed == {r \in Reservation : /\ res[r].op = op
                                           /\ physical[r].kind \in {"known", "unknown", "cancelled"}}
            cited  == {ev \in Evidence : <<op, ev>> \in claims}
            grants == {r \in Reservation : res[r].op = op /\ res[r].gUsed}
        IN  Cardinality(billed) <= Cardinality(cited) + Cardinality(grants)

\* An acknowledgement is good for one dispatch: of the reservations made with
\* its grant, at most one ever passed the dispatch boundary, and then the grant
\* says so.
GrantDispatchesOnce ==
    \A s \in Reservation :
        LET sent == {r \in Reservation :
                        /\ res[r].src = s
                        /\ res[r].st \notin {"RESERVED", "CANCELLED_PRE_DISPATCH"}}
        IN  /\ Cardinality(sent) <= 1
            /\ sent # {} => res[s].gUsed /\ res[s].gFor \in sent

\* The invariant the proofs rest on (SpendLedgerProofs): with live leases
\* respected, the one process that reviews has in memory what is on disk, and
\* what it was authorized on is still so when it dispatches.
Deciding == {"ready", "retry", "consume", "reserve"}
InFlight == {"permit", "call", "settle", "cancelled"}

OneReviewer == \A p \in Process : pc[p] # "closed" => owner = p

\* Until a reconciliation is on disk, only memory has it; the first write of the
\* whole map publishes it.
CacheAgrees ==
    \A p \in Process :
        /\ pc[p] \in Deciding => cache[p] = Reconciled(res)
        /\ pc[p] \in InFlight => cache[p] = res

ViewAgrees ==
    \A p \in Process : pc[p] \in Deciding \cup InFlight =>
        view[p] = records /\ cclaims[p] = claims

\* While a call is in flight its reservation is the only open one, in the status
\* its step says.
StatusAt == [permit |-> "RESERVED", call |-> "DISPATCHING", settle |-> "DISPATCHING",
             cancelled |-> "UNRESOLVED"]

InFlightAgrees ==
    \A p \in Process : pc[p] \in InFlight =>
        /\ cur[p].rid \in Reservation
        /\ res[cur[p].rid].st = StatusAt[pc[p]]
        /\ res[cur[p].rid].op = cur[p].op /\ res[cur[p].rid].fam = cur[p].fam
        /\ \A r \in Reservation :
              res[r].st \in {"RESERVED", "DISPATCHING"} => r = cur[p].rid

AuthorizationHolds ==
    \A p \in Process :
        /\ pc[p] \in {"consume", "reserve", "permit"} =>
              /\ cur[p].op \in Operation
              /\ latch = None
              /\ ~HasUnresolved(cache[p])
              /\ CallsOf(RoleOf[cur[p].op], cache[p], view[p]) < MaxCalls[RoleOf[cur[p].op]]
        /\ pc[p] \in {"consume", "reserve", "permit", "call"} =>
              cur[p].fam \notin Excluded(cache[p])

\* The grant a human retry was authorized on is still free when it is bound.
GrantIsFree ==
    \A p \in Process : pc[p] \in {"consume", "reserve"} /\ cur[p].src # None =>
        LET source == cache[p][cur[p].src]
        IN  Acked(source) /\ ~source.gUsed /\ source.gFor = None

\* A reservation past the dispatch boundary has spent the grant it came from.
GrantIsSpent ==
    \A r, s \in Reservation :
        /\ res[r].src = s
        /\ res[r].st \notin {"ABSENT", "RESERVED", "CANCELLED_PRE_DISPATCH"}
        => res[s].gUsed /\ res[s].gFor = r

\* Only unresolved spend has a record of unknown usage, and every reservation
\* made names its operation.
RecordsAgree ==
    \A r \in Reservation :
        /\ records[r].kind = "unknown" => res[r].st = "UNRESOLVED"
        /\ IF res[r].st = "ABSENT" THEN res[r] = Blank ELSE res[r].op \in Operation

LedgersAgree ==
    /\ OneReviewer /\ CacheAgrees /\ ViewAgrees /\ InFlightAgrees
    /\ AuthorizationHolds /\ GrantIsFree /\ GrantIsSpent /\ RecordsAgree

\* A reservation only moves forward, and neither a restart nor a retry takes
\* back an unresolved, settled or cancelled one, an acknowledgement, a spent
\* grant or a routing exclusion.
Successors ==
    [s \in Status |->
        CASE s = "ABSENT"      -> {"RESERVED"}
          [] s = "RESERVED"    -> {"DISPATCHING", "CANCELLED_PRE_DISPATCH"}
          [] s = "DISPATCHING" -> {"SETTLED_KNOWN", "UNRESOLVED"}
          [] OTHER             -> {}]

HistoryIsKept ==
    [][\A r \in Reservation :
        /\ res'[r].st \in {res[r].st} \cup Successors[res[r].st]
        /\ res[r].ack => res'[r].ack /\ res[r].excl \subseteq res'[r].excl
        /\ res[r].gUsed => res'[r].gUsed]_vars

\* A family a human excluded while accepting a loss is never dispatched again
\* in the loop, for no role and by no process, resumed ones included.
ExcludedFamilyIsNotCalled ==
    [][\A r \in Reservation :
        (physical[r] = NoRecord /\ physical'[r] # NoRecord) =>
            res[r].fam \notin Excluded(res)]_vars

\* A retry a human granted repeats the operation it was granted for, on a later
\* attempt: an acknowledged loss of one operation never pays for another.
RetryStaysInOperation ==
    \A r \in Reservation : res[r].src # None =>
        /\ Acked(res[res[r].src])
        /\ res[res[r].src].op = res[r].op
        /\ res[res[r].src].att < res[r].att

\* The usage ceiling is overshot by at most the call that crossed it: what the
\* provider really billed, recorded or not yet, stays below the ceiling plus one
\* call, but for the losses a human accepted as unknown.
UsageOvershootsByOneCall ==
    UsageOf([r \in Reservation |-> IF Acked(res[r]) THEN NoRecord ELSE physical[r]])
        < MaxUsage + Max(Usage)

\* No dispatch stays open: again and again none is in doubt, since some later step
\* settles it or declares it unresolved (HistoryIsKept allows nothing else), in
\* this process or in the one that resumes after a crash.
InDoubtIsResolved == []<>(\A r \in Reservation : res[r].st # "DISPATCHING")

\* docs/ARCHITECTURE.md, one dispatch sequence: a re-call on an identical state
\* across crash and resume yields exactly one physical dispatch.
RecallYieldsDispatch == <>(\E r \in Reservation : physical[r] # NoRecord)

\* modelSpendAuthority.js: unresolved spend blocks the loop until a human clears
\* it, so a human can clear it.
UnresolvedCanBeAcknowledged ==
    \A r \in Reservation :
        res[r].st = "UNRESOLVED" /\ ~res[r].ack => records[r] = NoRecord

\* The protocol implements its contract: calls one at a time, none while one is
\* in doubt, none over a role's ceiling, none after an anomaly.
CallState(e) ==
    CASE Acked(e)                 -> "accepted"
      [] e.st = "SETTLED_KNOWN"   -> "accounted"
      [] Blocking(e) /\ ~Acked(e) -> "inDoubt"
      [] OTHER                    -> "idle"

CallRole(e) == IF CallState(e) = "idle" THEN None ELSE RoleOf[e.op]

Contract ==
    INSTANCE SpendContract WITH
        Call    <- Reservation,
        NoRole  <- None,
        state   <- [r \in Reservation |-> CallState(res[r])],
        role    <- [r \in Reservation |-> CallRole(res[r])],
        tripped <- (latch # None)

ImplementsContract == Contract!CSpec
=============================================================================
