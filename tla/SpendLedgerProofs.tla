------------------------- MODULE SpendLedgerProofs -------------------------
(***************************************************************************)
(* The safety of the paid-call protocol, proved for every number of        *)
(* processes, reservations, operations, families, ceilings, faults and     *)
(* crashes, while leases are respected (Displacement = FALSE).             *)
(*                                                                         *)
(* The argument: whoever reviews is alone (OneReviewer), so its memory     *)
(* agrees with the disk (CacheAgrees, ViewAgrees), so the whole map it     *)
(* writes back differs from the one on disk in its own reservation only,   *)
(* and each such difference keeps the ledgers on disk sound (Sound).       *)
(* What is paid is justified by counting (ClaimInv): a call that has no    *)
(* record yet belongs to the reviewer, whose attempt is later than every   *)
(* recorded one, so a failover that finds only proven zeros before it is   *)
(* the operation's first paid call, and its claim pays for it.             *)
(* Usage is a sum over a set (UsageInv).  The fold that defines it is      *)
(* shown to exist and to be unique by taking a smallest counterexample     *)
(* among the finitely many subsets, and so is every fact about it.         *)
(***************************************************************************)
EXTENDS SpendLedgerTypes

\* What is on disk, and what happened at the provider, fit together.
GrantsSpent(m) ==
    \A r, s \in Reservation :
        /\ m[r].src = s
        /\ m[r].st \notin {"ABSENT", "RESERVED", "CANCELLED_PRE_DISPATCH"}
        => m[s].gUsed /\ m[s].gFor = r

RecordsFit(m, recs) ==
    \A r \in Reservation :
        /\ recs[r].kind = "unknown" => m[r].st = "UNRESOLVED"
        /\ IF m[r].st = "ABSENT" THEN m[r] = Blank ELSE m[r].op \in Operation

Settlements(m, recs, l) ==
    \A r \in Reservation :
        /\ (m[r].st = "SETTLED_KNOWN") <=> (recs[r].kind = "known")
        /\ m[r].ack => m[r].st = "UNRESOLVED" /\ recs[r] = Unknown
        /\ recs[r].usage > AnomalyLimit => l # None

NothingLost(m, recs, ph) ==
    \A r \in Reservation : ph[r] # NoRecord =>
        \/ Blocking(m[r])
        \/ /\ m[r].st = "SETTLED_KNOWN"
           /\ recs[r] = Known(ph[r].usage)

Sound(m, recs, l, ph) ==
    /\ GrantsSpent(m) /\ RecordsFit(m, recs)
    /\ Settlements(m, recs, l) /\ NothingLost(m, recs, ph)

IInv == TypeInv /\ LedgersAgree /\ NoHalfSettlement /\ SpendIsNeverLost

\* The ledgers the invariant speaks of are sound, and sound ledgers are all it
\* asks of the disk.
LEMMA SoundDisk ==
  (GrantIsSpent /\ RecordsAgree /\ NoHalfSettlement /\ SpendIsNeverLost)
    <=> Sound(res, records, latch, physical)
BY DEF GrantIsSpent, RecordsAgree, NoHalfSettlement, SpendIsNeverLost, Sound, GrantsSpent,
   RecordsFit, Settlements, NothingLost
-----------------------------------------------------------------------------
\* What resuming does to each field of an entry.
LEMMA ReconciledFields ==
  ASSUME NEW m \in Ledger, NEW r \in Reservation
  PROVE  LET e == m[r]
             n == Reconciled(m)[r]
         IN  /\ n.op = e.op /\ n.fam = e.fam /\ n.att = e.att /\ n.src = e.src
             /\ n.ack = e.ack /\ n.ev = e.ev /\ n.excl = e.excl /\ n.gUsed = e.gUsed
             /\ n.zero = e.zero
             /\ e.st = "DISPATCHING" => n.st = "UNRESOLVED"
             /\ e.st = "RESERVED" => n.st = "CANCELLED_PRE_DISPATCH"
             /\ e.st \notin {"DISPATCHING", "RESERVED"} => n.st = e.st
             /\ n.gFor # e.gFor => ~e.gUsed /\ n.gFor = None
             /\ e.st = "ABSENT" => n = e
<1> DEFINE e == m[r]
           n == Reconciled(m)[r]
<1>1. e \in Entry
  BY DEF Ledger
<1>2. CASE e.st = "DISPATCHING"
  <2>1. n = [e EXCEPT !.st = "UNRESOLVED"]
    BY <1>2 DEF Reconciled, Acked
  <2> QED
    BY <1>1, <1>2, <2>1 DEF Entry
<1>3. CASE e.st = "RESERVED"
  <2>1. n = [e EXCEPT !.st = "CANCELLED_PRE_DISPATCH"]
    BY <1>3 DEF Reconciled, Acked
  <2> QED
    BY <1>1, <1>3, <2>1 DEF Entry
<1>4. CASE /\ e.st \notin {"DISPATCHING", "RESERVED"}
           /\ Acked(e) /\ e.gFor # None /\ ~e.gUsed
           /\ m[e.gFor].st = "RESERVED" /\ m[e.gFor].src = r
  <2>1. n = [e EXCEPT !.gFor = None]
    BY <1>4 DEF Reconciled, Acked
  <2> QED
    BY <1>1, <1>4, <2>1 DEF Entry, Acked
<1>5. CASE /\ e.st \notin {"DISPATCHING", "RESERVED"}
           /\ ~(/\ Acked(e) /\ e.gFor # None /\ ~e.gUsed
                /\ m[e.gFor].st = "RESERVED" /\ m[e.gFor].src = r)
  <2>1. n = e
    BY <1>5 DEF Reconciled, Acked
  <2> QED
    BY <1>5, <2>1
<1> QED
  BY <1>2, <1>3, <1>4, <1>5

\* A ledger with nothing open has nothing to reconcile, and a reconciled ledger
\* has nothing open.
LEMMA NothingOpen ==
  ASSUME NEW m \in Ledger,
         \A r \in Reservation : m[r].st \notin {"RESERVED", "DISPATCHING"}
  PROVE  Reconciled(m) = m
<1>1. ASSUME NEW r \in Reservation
      PROVE  Reconciled(m)[r] = m[r]
  <2>1. m[r].gFor \in Reservation \cup {None}
    BY DEF Ledger, Entry
  <2> QED
    BY <2>1 DEF Reconciled
<1>2. m = [r \in Reservation |-> m[r]]
  BY DEF Ledger
<1>3. Reconciled(m) = [r \in Reservation |-> Reconciled(m)[r]]
  BY DEF Reconciled
<1> QED
  BY <1>1, <1>2, <1>3

\* Resuming twice is resuming once.
LEMMA ReconciledTwice ==
  ASSUME NEW m \in Ledger
  PROVE  /\ \A r \in Reservation : Reconciled(m)[r].st \notin {"RESERVED", "DISPATCHING"}
         /\ Reconciled(Reconciled(m)) = Reconciled(m)
<1>1. ASSUME NEW r \in Reservation
      PROVE  Reconciled(m)[r].st \notin {"RESERVED", "DISPATCHING"}
  BY ReconciledFields
<1> QED
  BY <1>1, ReconciledType, NothingOpen

\* What the write of a new reservation does to each entry.
LEMMA WithReservationFields ==
  ASSUME NEW m \in Ledger, NEW r \in Reservation, NEW call \in CallInfo,
         NEW x \in Reservation, m[r] = Blank
  PROVE  LET n == WithReservation(m, r, call)[x]
         IN  /\ x = r => /\ n.st = "RESERVED" /\ n.op = call.op /\ n.fam = call.fam
                         /\ n.att = call.att /\ n.src = call.src
                         /\ ~n.ack /\ n.excl = {} /\ ~n.gUsed
             /\ x # r => /\ n.st = m[x].st /\ n.op = m[x].op /\ n.fam = m[x].fam
                         /\ n.att = m[x].att /\ n.src = m[x].src /\ n.zero = m[x].zero
                         /\ (x # call.src => n = m[x])
             /\ n.ack = m[x].ack /\ n.excl = m[x].excl /\ n.gUsed = m[x].gUsed
<1> DEFINE n == WithReservation(m, r, call)[x]
<1>1. m[x] \in Entry
  BY DEF Ledger
<1>2. CASE x = r
  <2>1. n = [Blank EXCEPT !.st = "RESERVED", !.op = call.op, !.fam = call.fam,
                          !.att = call.att, !.src = call.src]
    BY <1>2 DEF WithReservation
  <2>2. /\ n.st = "RESERVED" /\ n.op = call.op /\ n.fam = call.fam /\ n.att = call.att
        /\ n.src = call.src /\ n.ack = FALSE /\ n.excl = {} /\ n.gUsed = FALSE
    BY <2>1 DEF Blank
  <2>3. m[x].ack = FALSE /\ m[x].excl = {} /\ m[x].gUsed = FALSE
    BY <1>2 DEF Blank
  <2> QED
    BY <1>2, <2>2, <2>3
<1>3. CASE x # r /\ x = call.src
  <2>1. n = [m[x] EXCEPT !.gFor = r]
    BY <1>3 DEF WithReservation
  <2> QED
    BY <1>1, <1>3, <2>1 DEF Entry
<1>4. CASE x # r /\ x # call.src
  <2>1. n = m[x]
    BY <1>4 DEF WithReservation
  <2> QED
    BY <1>4, <2>1
<1> QED
  BY <1>2, <1>3, <1>4

\* What crossing the dispatch boundary does to each entry.
LEMMA WithDispatchFields ==
  ASSUME NEW m \in Ledger, NEW r \in Reservation, NEW x \in Reservation
  PROVE  LET n == WithDispatch(m, r)[x]
         IN  /\ x = r => n.st = "DISPATCHING"
             /\ x # r => n.st = m[x].st
             /\ n.op = m[x].op /\ n.fam = m[x].fam /\ n.att = m[x].att /\ n.src = m[x].src
             /\ n.ack = m[x].ack /\ n.excl = m[x].excl /\ n.gFor = m[x].gFor
             /\ m[x].gUsed => n.gUsed
             /\ (x # r /\ x = m[r].src) => n.gUsed
             /\ n.ev = m[x].ev /\ n.zero = m[x].zero
<1> DEFINE n == WithDispatch(m, r)[x]
<1>1. m[x] \in Entry
  BY DEF Ledger
<1>2. CASE x = r
  <2>1. n = [m[x] EXCEPT !.st = "DISPATCHING"]
    BY <1>2 DEF WithDispatch
  <2> QED
    BY <1>1, <1>2, <2>1 DEF Entry
<1>3. CASE x # r /\ x = m[r].src
  <2>1. n = [m[x] EXCEPT !.gUsed = TRUE]
    BY <1>3 DEF WithDispatch
  <2> QED
    BY <1>1, <1>3, <2>1 DEF Entry
<1>4. CASE x # r /\ x # m[r].src
  <2>1. n = m[x]
    BY <1>4 DEF WithDispatch
  <2> QED
    BY <1>4, <2>1
<1> QED
  BY <1>2, <1>3, <1>4
-----------------------------------------------------------------------------
\* Resuming keeps the ledgers sound: only what never left is cancelled.
LEMMA SoundReconciled ==
  ASSUME NEW m \in Ledger, NEW recs \in [Reservation -> Record], NEW l, NEW ph,
         Sound(m, recs, l, ph)
  PROVE  Sound(Reconciled(m), recs, l, ph)
<1> DEFINE n == Reconciled(m)
<1>1. GrantsSpent(n)
  BY ReconciledFields, NoneAssumption DEF Sound, GrantsSpent
<1>2. RecordsFit(n, recs)
  BY ReconciledFields DEF Sound, RecordsFit
<1>3. Settlements(n, recs, l)
  BY ReconciledFields DEF Sound, Settlements
<1>4. NothingLost(n, recs, ph)
  BY ReconciledFields DEF Sound, NothingLost, Blocking
<1> QED
  BY <1>1, <1>2, <1>3, <1>4 DEF Sound

\* So does the reservation of an unused id, on fresh evidence or on a free grant.
LEMMA SoundReserved ==
  ASSUME NEW m \in Ledger, NEW recs \in [Reservation -> Record], NEW l, NEW ph,
         Sound(m, recs, l, ph),
         NEW r \in Reservation, m[r] = Blank, NEW call \in CallInfo, call.op \in Operation,
         call.src # None => Acked(m[call.src]) /\ ~m[call.src].gUsed
  PROVE  Sound(WithReservation(m, r, call), recs, l, ph)
<1> DEFINE n == WithReservation(m, r, call)
<1>0. Blank.st = "ABSENT" /\ Blank.gUsed = FALSE /\ Blank.ack = FALSE
  BY DEF Blank
<1>1. GrantsSpent(n)
  <2> SUFFICES ASSUME NEW x \in Reservation, NEW s \in Reservation, n[x].src = s,
                      n[x].st \notin {"ABSENT", "RESERVED", "CANCELLED_PRE_DISPATCH"}
               PROVE  n[s].gUsed /\ n[s].gFor = x
    BY DEF GrantsSpent
  <2>1. x # r
    BY WithReservationFields
  <2>2. m[x].src = s /\ m[x].st \notin {"ABSENT", "RESERVED", "CANCELLED_PRE_DISPATCH"}
    BY <2>1, WithReservationFields
  <2>3. m[s].gUsed /\ m[s].gFor = x
    BY <2>2 DEF Sound, GrantsSpent
  <2>4. s # r /\ s # call.src
    BY <1>0, <2>3, NoneAssumption
  <2>5. n[s] = m[s]
    BY <2>4, WithReservationFields
  <2> QED
    BY <2>3, <2>5
<1>2. RecordsFit(n, recs)
  <2> SUFFICES ASSUME NEW x \in Reservation
               PROVE  /\ recs[x].kind = "unknown" => n[x].st = "UNRESOLVED"
                      /\ IF n[x].st = "ABSENT" THEN n[x] = Blank ELSE n[x].op \in Operation
    BY DEF RecordsFit
  <2>1. /\ recs[x].kind = "unknown" => m[x].st = "UNRESOLVED"
        /\ IF m[x].st = "ABSENT" THEN m[x] = Blank ELSE m[x].op \in Operation
    BY DEF Sound, RecordsFit
  <2>2. CASE x = r
    BY <1>0, <2>1, <2>2, WithReservationFields
  <2>3. CASE x # r /\ m[x].st # "ABSENT"
    BY <2>1, <2>3, WithReservationFields
  <2>4. CASE x # r /\ m[x].st = "ABSENT"
    <3>1. x # call.src
      BY <2>4, NoneAssumption DEF Acked
    <3>2. n[x] = m[x]
      BY <2>4, <3>1, WithReservationFields
    <3> QED
      BY <2>1, <2>4, <3>2
  <2> QED
    BY <2>2, <2>3, <2>4
<1>3. Settlements(n, recs, l)
  BY <1>0, WithReservationFields DEF Sound, Settlements
<1>4. NothingLost(n, recs, ph)
  BY <1>0, WithReservationFields DEF Sound, NothingLost, Blocking
<1> QED
  BY <1>1, <1>2, <1>3, <1>4 DEF Sound

\* So does the dispatch boundary, which spends the grant the reservation holds.
LEMMA SoundDispatched ==
  ASSUME NEW m \in Ledger, NEW recs \in [Reservation -> Record], NEW l, NEW ph,
         Sound(m, recs, l, ph),
         NEW r \in Reservation, m[r].st = "RESERVED",
         m[r].src = None \/ GrantHeldBy(m, r)
  PROVE  Sound(WithDispatch(m, r), recs, l, ph)
<1> DEFINE n == WithDispatch(m, r)
<1>1. GrantsSpent(n)
  <2> SUFFICES ASSUME NEW x \in Reservation, NEW s \in Reservation, n[x].src = s,
                      n[x].st \notin {"ABSENT", "RESERVED", "CANCELLED_PRE_DISPATCH"}
               PROVE  n[s].gUsed /\ n[s].gFor = x
    BY DEF GrantsSpent
  <2>1. m[x].src = s
    BY WithDispatchFields
  <2>2. CASE x = r
    <3>1. m[s].gFor = r /\ s # r
      BY <2>1, <2>2, NoneAssumption DEF GrantHeldBy, Acked
    <3> QED
      BY <2>1, <2>2, <3>1, WithDispatchFields
  <2>3. CASE x # r
    <3>1. m[s].gUsed /\ m[s].gFor = x
      BY <2>1, <2>3, WithDispatchFields DEF Sound, GrantsSpent
    <3> QED
      BY <3>1, WithDispatchFields
  <2> QED
    BY <2>2, <2>3
<1>2. RecordsFit(n, recs)
  <2> SUFFICES ASSUME NEW x \in Reservation
               PROVE  /\ recs[x].kind = "unknown" => n[x].st = "UNRESOLVED"
                      /\ IF n[x].st = "ABSENT" THEN n[x] = Blank ELSE n[x].op \in Operation
    BY DEF RecordsFit
  <2>1. /\ recs[x].kind = "unknown" => m[x].st = "UNRESOLVED"
        /\ IF m[x].st = "ABSENT" THEN m[x] = Blank ELSE m[x].op \in Operation
    BY DEF Sound, RecordsFit
  <2>2. CASE x = r
    BY <2>1, <2>2, WithDispatchFields
  <2>3. CASE x # r /\ x # m[r].src
    <3>1. n[x] = m[x]
      BY <2>3 DEF WithDispatch
    <3> QED
      BY <2>1, <3>1
  <2>4. CASE x # r /\ x = m[r].src
    <3>1. m[x].st = "UNRESOLVED"
      BY <2>4, NoneAssumption DEF GrantHeldBy, Acked
    <3> QED
      BY <2>1, <2>4, <3>1, WithDispatchFields
  <2> QED
    BY <2>2, <2>3, <2>4
<1>3. Settlements(n, recs, l)
  BY WithDispatchFields DEF Sound, Settlements
<1>4. NothingLost(n, recs, ph)
  BY WithDispatchFields DEF Sound, NothingLost, Blocking
<1> QED
  BY <1>1, <1>2, <1>3, <1>4 DEF Sound

\* A call reaches the provider only behind the boundary.
LEMMA SoundCalled ==
  ASSUME NEW m \in Ledger, NEW recs \in [Reservation -> Record], NEW l,
         NEW ph \in [Reservation -> Outcome \cup {NoRecord}], Sound(m, recs, l, ph),
         NEW r \in Reservation, m[r].st = "DISPATCHING", NEW out
  PROVE  Sound(m, recs, l, [ph EXCEPT ![r] = out])
<1>1. NothingLost(m, recs, [ph EXCEPT ![r] = out])
  BY DEF Sound, NothingLost, Blocking
<1> QED
  BY <1>1 DEF Sound

\* Status, record and latch of a settlement, published together.
LEMMA SoundSettled ==
  ASSUME NEW m \in Ledger, NEW recs \in [Reservation -> Record], NEW l,
         NEW ph \in [Reservation -> Outcome \cup {NoRecord}], Sound(m, recs, l, ph),
         NEW r \in Reservation, m[r].st = "DISPATCHING",
         NEW z \in BOOLEAN, NEW k,
         ph[r].usage > AnomalyLimit => k # None,
         l # None => k # None
  PROVE  Sound([m EXCEPT ![r] = [m[r] EXCEPT !.st = "SETTLED_KNOWN", !.zero = z]],
               [recs EXCEPT ![r] = Known(ph[r].usage)], k, ph)
<1> DEFINE e == [m[r] EXCEPT !.st = "SETTLED_KNOWN", !.zero = z]
           n == [m EXCEPT ![r] = e]
           u == Known(ph[r].usage)
           rs == [recs EXCEPT ![r] = u]
<1>1. m[r] \in Entry
  BY DEF Ledger
<1>2. /\ e.st = "SETTLED_KNOWN" /\ e.op = m[r].op /\ e.src = m[r].src /\ e.ack = m[r].ack
      /\ e.gUsed = m[r].gUsed /\ e.gFor = m[r].gFor
  BY <1>1 DEF Entry
<1>3. n[r] = e /\ \A x \in Reservation : x # r => n[x] = m[x]
  BY DEF Ledger
<1>4. rs[r] = u /\ \A x \in Reservation : x # r => rs[x] = recs[x]
  OBVIOUS
<1>5. u.kind = "known" /\ u.usage = ph[r].usage
  BY DEF Known
<1> HIDE DEF e, n, u, rs
<1>6. GrantsSpent(n)
  BY <1>2, <1>3 DEF Sound, GrantsSpent
<1>7. RecordsFit(n, rs)
  BY <1>2, <1>3, <1>4, <1>5 DEF Sound, RecordsFit
<1>8. Settlements(n, rs, k)
  BY <1>2, <1>3, <1>4, <1>5 DEF Sound, Settlements
<1>9. NothingLost(n, rs, ph)
  BY <1>2, <1>3, <1>4 DEF Sound, NothingLost, Blocking, u
<1> QED
  BY <1>6, <1>7, <1>8, <1>9 DEF Sound, n, rs, u, e

\* A dispatch whose usage is unknown keeps blocking.
LEMMA SoundUnresolved ==
  ASSUME NEW m \in Ledger, NEW recs \in [Reservation -> Record], NEW l, NEW ph,
         Sound(m, recs, l, ph), NEW r \in Reservation, m[r].st = "DISPATCHING"
  PROVE  Sound([m EXCEPT ![r].st = "UNRESOLVED"], recs, l, ph)
<1> DEFINE n == [m EXCEPT ![r].st = "UNRESOLVED"]
<1>1. m[r] \in Entry
  BY DEF Ledger
<1>2. /\ n[r].st = "UNRESOLVED" /\ n[r].op = m[r].op /\ n[r].src = m[r].src /\ n[r].ack = m[r].ack
      /\ n[r].gUsed = m[r].gUsed /\ n[r].gFor = m[r].gFor
  BY <1>1 DEF Entry, Ledger
<1>3. \A x \in Reservation : x # r => n[x] = m[x]
  BY DEF Ledger
<1> HIDE DEF n
<1>4. GrantsSpent(n)
  BY <1>2, <1>3 DEF Sound, GrantsSpent
<1>5. RecordsFit(n, recs)
  BY <1>2, <1>3 DEF Sound, RecordsFit
<1>6. Settlements(n, recs, l)
  BY <1>2, <1>3 DEF Sound, Settlements
<1>7. NothingLost(n, recs, ph)
  BY <1>2, <1>3 DEF Sound, NothingLost, Blocking
<1> QED
  BY <1>4, <1>5, <1>6, <1>7 DEF Sound, n

\* A record of unknown usage may join unresolved spend, acknowledged or not, and
\* an acknowledgement changes nothing the ledgers' soundness rests on.
LEMMA SoundUnknown ==
  ASSUME NEW m \in Ledger, NEW recs \in [Reservation -> Record], NEW l, NEW ph,
         Sound(m, recs, l, ph), NEW r \in Reservation, m[r].st = "UNRESOLVED",
         NEW e \in Entry, e.st = m[r].st, e.op = m[r].op, e.src = m[r].src, e.gUsed = m[r].gUsed,
         e.gFor = m[r].gFor
  PROVE  Sound([m EXCEPT ![r] = e], [recs EXCEPT ![r] = Unknown], l, ph)
<1> DEFINE n == [m EXCEPT ![r] = e]
           rs == [recs EXCEPT ![r] = Unknown]
<1>1. n[r] = e /\ \A x \in Reservation : x # r => n[x] = m[x]
  BY DEF Ledger
<1>2. rs[r] = Unknown /\ \A x \in Reservation : x # r => rs[x] = recs[x]
  OBVIOUS
<1>3. Unknown.kind = "unknown" /\ Unknown.usage = 0 /\ ~(0 > AnomalyLimit)
  BY AmountAssumption DEF Unknown
<1> HIDE DEF n, rs
<1>4. GrantsSpent(n)
  BY <1>1 DEF Sound, GrantsSpent
<1>5. RecordsFit(n, rs)
  BY <1>1, <1>2, <1>3 DEF Sound, RecordsFit
<1>6. Settlements(n, rs, l)
  BY <1>1, <1>2, <1>3 DEF Sound, Settlements
<1>7. NothingLost(n, rs, ph)
  BY <1>1, <1>2 DEF Sound, NothingLost, Blocking
<1> QED
  BY <1>4, <1>5, <1>6, <1>7 DEF Sound, n, rs
-----------------------------------------------------------------------------
\* What the invariant says of one process.
SurfaceOf(p) ==
    /\ pc[p] # "closed" => owner = p
    /\ pc[p] \in Deciding => cache[p] = Reconciled(res)
    /\ pc[p] \in InFlight =>
          /\ cache[p] = res
          /\ cur[p].rid \in Reservation
          /\ res[cur[p].rid].st = StatusAt[pc[p]]
          /\ res[cur[p].rid].op = cur[p].op /\ res[cur[p].rid].fam = cur[p].fam
          /\ \A r \in Reservation :
                res[r].st \in {"RESERVED", "DISPATCHING"} => r = cur[p].rid
    /\ pc[p] \in Deciding \cup InFlight => view[p] = records /\ cclaims[p] = claims
    /\ pc[p] \in {"consume", "reserve", "permit"} =>
          /\ cur[p].op \in Operation
          /\ latch = None
          /\ ~HasUnresolved(cache[p])
          /\ CallsOf(RoleOf[cur[p].op], cache[p], view[p]) < MaxCalls[RoleOf[cur[p].op]]
    /\ pc[p] \in {"consume", "reserve", "permit", "call"} =>
          cur[p].fam \notin Excluded(cache[p])
    /\ (pc[p] \in {"consume", "reserve"} /\ cur[p].src # None) =>
          /\ Acked(cache[p][cur[p].src]) /\ ~cache[p][cur[p].src].gUsed
          /\ cache[p][cur[p].src].gFor = None

\* The invariant is that of its processes and that of the disk, now and next.
LEMMA IInvParts ==
  /\ IInv <=> /\ TypeInv /\ Sound(res, records, latch, physical)
              /\ \A p \in Process : SurfaceOf(p)
  /\ IInv' <=> /\ TypeInv' /\ Sound(res', records', latch', physical')
               /\ \A p \in Process : SurfaceOf(p)'
<1> USE DEF IInv, LedgersAgree, OneReviewer, CacheAgrees, ViewAgrees, InFlightAgrees,
        AuthorizationHolds, GrantIsFree, SurfaceOf
<1>1. IInv <=> /\ TypeInv /\ Sound(res, records, latch, physical)
               /\ \A p \in Process : SurfaceOf(p)
  BY SoundDisk
<1>2. (GrantIsSpent /\ RecordsAgree /\ NoHalfSettlement /\ SpendIsNeverLost)'
        <=> Sound(res', records', latch', physical')
  BY DEF GrantIsSpent, RecordsAgree, NoHalfSettlement, SpendIsNeverLost, Sound, GrantsSpent,
     RecordsFit, Settlements, NothingLost
<1>3. IInv' <=> /\ TypeInv' /\ Sound(res', records', latch', physical')
                /\ \A p \in Process : SurfaceOf(p)'
  BY <1>2
<1> QED
  BY <1>1, <1>3

\* A record is absent, unknown or known.
LEMMA RecordKinds ==
  ASSUME NEW rec \in Record
  PROVE  rec.kind \in {"none", "unknown", "known"}
BY DEF Record, NoRecord, Unknown, Known

\* The policy checks look only at the fields a reservation does not change.
LEMMA SameExclusions ==
  ASSUME NEW m, NEW n,
         \A x \in Reservation : n[x].ack = m[x].ack /\ n[x].excl = m[x].excl
  PROVE  Excluded(n) = Excluded(m)
BY DEF Excluded

\* The call count of a role looks only at operations and records.
LEMMA SameCalls ==
  ASSUME NEW m, NEW n, NEW recs, NEW role,
         \A x \in Reservation : recs[x].kind # "none" => n[x].op = m[x].op
  PROVE  CallsOf(role, n, recs) = CallsOf(role, m, recs)
<1>1. {r \in Reservation : /\ recs[r].kind # "none" /\ n[r].op # None
                           /\ RoleOf[n[r].op] = role}
       = {r \in Reservation : /\ recs[r].kind # "none" /\ m[r].op # None
                              /\ RoleOf[m[r].op] = role}
  OBVIOUS
<1> QED
  BY <1>1 DEF CallsOf

\* Whoever reviews is alone, and a free lease means that nobody does.
LEMMA Alone ==
  ASSUME IInv
  PROVE  /\ \A p, q \in Process : pc[p] # "closed" /\ q # p => pc[q] = "closed"
         /\ LeaseFree => \A q \in Process : pc[q] = "closed"
BY DEF IInv, LedgersAgree, OneReviewer, LeaseFree

\* The empty loop satisfies the invariant.
LEMMA IInvInit == Init => IInv
<1> SUFFICES ASSUME Init PROVE IInv
  OBVIOUS
<1>1. TypeInv
  BY TypeInvInit
<1>2. \A r \in Reservation : res[r] = Blank /\ records[r] = NoRecord /\ physical[r] = NoRecord
  BY DEF Init, NoLedger, NoRecords
<1>3. /\ Blank.st = "ABSENT" /\ Blank.ack = FALSE
      /\ NoRecord.kind = "none" /\ NoRecord.usage = 0 /\ ~(0 > AnomalyLimit)
  BY AmountAssumption DEF Blank, NoRecord
<1>4. Sound(res, records, latch, physical)
  BY <1>2, <1>3 DEF Sound, GrantsSpent, RecordsFit, Settlements, NothingLost
<1>5. \A p \in Process : SurfaceOf(p)
  BY DEF Init, SurfaceOf, Deciding, InFlight
<1> QED
  BY <1>1, <1>4, <1>5, IInvParts

\* The types the step proofs use, gathered from the type invariant.
LEMMA Typed ==
  ASSUME TypeInv
  PROVE  /\ res \in Ledger /\ records \in [Reservation -> Record]
         /\ physical \in [Reservation -> Outcome \cup {NoRecord}]
         /\ pc \in [Process -> PcLabel] /\ cur \in [Process -> CallInfo]
         /\ cache \in [Process -> Ledger]
         /\ cclaims \in [Process -> SUBSET (Operation \X Evidence)]
         /\ view \in [Process -> [Reservation -> Record]]
         /\ \A p \in Process : cache[p] \in Ledger /\ cur[p] \in CallInfo
BY DEF TypeInv, TypeOK, Ledger

\* While leases are respected, every step keeps the invariant.
LEMMA IInvStep ==
  ASSUME Displacement = FALSE
  PROVE  IInv /\ [Next]_vars => IInv'
<1> SUFFICES ASSUME IInv, [Next]_vars PROVE IInv'
  OBVIOUS
<1>typ. TypeInv /\ TypeInv'
  BY TypeInvStep DEF IInv
<1>inv. Sound(res, records, latch, physical) /\ \A p \in Process : SurfaceOf(p)
  BY IInvParts
\* It is enough to look at the process that steps, and at the disk.
<1>one. ASSUME NEW p \in Process, \A q \in Process : q # p => pc'[q] = "closed",
               SurfaceOf(p)', Sound(res', records', latch', physical')
        PROVE  IInv'
  <2>1. ASSUME NEW q \in Process, q # p PROVE SurfaceOf(q)'
    BY <1>one, <2>1 DEF SurfaceOf, Deciding, InFlight
  <2> QED
    BY <1>one, <1>typ, <2>1, IInvParts
<1>goto. ASSUME NEW p \in Process, NEW l, Goto(p, l), pc[p] # "closed"
         PROVE  pc'[p] = l /\ \A q \in Process : q # p => pc'[q] = "closed"
  BY <1>goto, <1>typ, Typed, Alone DEF Goto
<1>stop. ASSUME NEW p \in Process, pc[p] # "closed", Stop(p), owner' = owner,
                Sound(res', records', latch', physical')
         PROVE  IInv'
  <2>1. pc'[p] = "stopped" /\ \A q \in Process : q # p => pc'[q] = "closed"
    BY <1>stop, <1>goto DEF Stop
  <2>2. SurfaceOf(p)'
    BY <1>stop, <1>inv, <2>1 DEF SurfaceOf, Deciding, InFlight
  <2> QED
    BY <1>stop, <1>one, <2>1, <2>2
<1>1. ASSUME NEW p \in Process, Open(p) PROVE IInv'
  <2>1. \A q \in Process : pc[q] = "closed"
    BY <1>1, Alone DEF Open
  <2>2. pc'[p] = "open" /\ \A q \in Process : q # p => pc'[q] = "closed"
    BY <1>1, <1>typ, <2>1, Typed DEF Open, Goto
  <2>3. SurfaceOf(p)'
    BY <1>1, <2>2 DEF Open, SurfaceOf, Deciding, InFlight
  <2> QED
    BY <1>1, <1>inv, <1>one, <2>2, <2>3 DEF Open, durable
<1>2. ASSUME NEW p \in Process, AuthorizeStep(p) PROVE IInv'
  <2>1. PICK op \in Operation, ev \in Evidence, fam \in Family, att \in Attempt,
             source \in Reservation \cup {None}, l \in {"consume", "reserve"} :
             /\ Authorized(p, op, ev, fam, att)
             /\ cur' = [cur EXCEPT ![p] = Calling(op, ev, fam, att, source)]
             /\ Goto(p, l)
             /\ source # None => HumanRetry(p, op, ev, att, source) /\ l = "reserve"
    BY <1>2, AuthorizeCases
  <2>2. pc[p] \in {"ready", "retry"}
    BY <2>1 DEF Authorized, Attempting
  <2>3. pc'[p] = l /\ \A q \in Process : q # p => pc'[q] = "closed"
    BY <1>goto, <2>1, <2>2
  <2>4. cur'[p] = Calling(op, ev, fam, att, source)
    BY <1>typ, <2>1, Typed
  <2>5. cur'[p].op = op /\ cur'[p].fam = fam /\ cur'[p].src = source
    BY <2>4 DEF Calling
  <2>6. source # None => /\ Acked(cache[p][source]) /\ ~cache[p][source].gUsed
                         /\ cache[p][source].gFor = None
    BY <2>1 DEF HumanRetry, Grants
  <2>7. /\ latch = None /\ ~HasUnresolved(cache[p]) /\ fam \notin Excluded(cache[p])
        /\ CallsOf(RoleOf[op], cache[p], view[p]) < MaxCalls[RoleOf[op]]
    BY <2>1 DEF Authorized, Permitted
  <2>8. UNCHANGED <<res, claims, records, latch, owner, cache, cclaims, view, physical>>
    BY <2>1 DEF Authorized, durable
  <2>9. SurfaceOf(p)'
    BY <1>inv, <2>2, <2>3, <2>5, <2>6, <2>7, <2>8
    DEF SurfaceOf, Deciding, InFlight
  <2> QED
    BY <1>inv, <1>one, <2>3, <2>8, <2>9
<1>3. ASSUME NEW p \in Process, DenyStep(p) PROVE IInv'
  BY <1>3, <1>inv, <1>stop DEF DenyStep, Deny, Attempting, durable
<1>4. ASSUME NEW p \in Process, NEW w \in WriteResult, LoadAndReconcile(p, w) PROVE IInv'
  <2>1. pc'[p] = "ready" /\ \A q \in Process : q # p => pc'[q] = "closed"
    BY <1>4, <1>goto DEF LoadAndReconcile
  <2>2. res \in Ledger /\ res' \in {res, Reconciled(res)}
    BY <1>4, <1>typ, Typed DEF LoadAndReconcile
  <2>3. Reconciled(res') = Reconciled(res)
    BY <2>2, ReconciledTwice
  <2>4. cache'[p] = Reconciled(res) /\ cclaims'[p] = claims /\ view'[p] = records
    BY <1>4, <1>typ, Typed DEF LoadAndReconcile
  <2>5. SurfaceOf(p)'
    BY <1>4, <1>inv, <2>1, <2>3, <2>4 DEF LoadAndReconcile, SurfaceOf, Deciding, InFlight
  <2>6. Sound(Reconciled(res), records, latch, physical)
    BY <1>inv, <1>typ, Typed, SoundReconciled
  <2>7. Sound(res', records', latch', physical')
    BY <1>4, <1>inv, <2>2, <2>6 DEF LoadAndReconcile
  <2> QED
    BY <1>one, <2>1, <2>5, <2>7
<1>5. ASSUME NEW p \in Process, NEW w \in WriteResult, Consume(p, w) PROVE IInv'
  <2>1. Sound(res', records', latch', physical')
    BY <1>5, <1>inv DEF Consume
  <2>2. CASE w = "ok"
    <3>1. pc'[p] = "reserve" /\ \A q \in Process : q # p => pc'[q] = "closed"
      BY <1>5, <1>goto, <2>2 DEF Consume
    <3>2. claims' = cclaims'[p]
      BY <1>5, <1>typ, <2>2, Typed DEF Consume, Published
    <3>3. SurfaceOf(p)'
      BY <1>5, <1>inv, <2>2, <3>1, <3>2
      DEF Consume, SurfaceOf, Deciding, InFlight
    <3> QED
      BY <1>one, <2>1, <3>1, <3>3
  <2>3. CASE w # "ok"
    BY <1>5, <1>stop, <2>1, <2>3 DEF Consume
  <2> QED
    BY <2>2, <2>3
<1>6. ASSUME NEW p \in Process, NEW w \in WriteResult, NEW r \in Reservation,
             Reserve(p, r, w)
      PROVE IInv'
  <2> DEFINE m == cache[p]
             next == WithReservation(m, r, cur[p])
  <2>1. /\ pc[p] = "reserve" /\ m = Reconciled(res) /\ m[r] = Blank /\ res[r] = Blank
        /\ view[p] = records /\ cclaims[p] = claims
    BY <1>6, <1>inv DEF Reserve, Unused, SurfaceOf, Deciding
  <2>2. m \in Ledger /\ cur[p] \in CallInfo
    BY <1>typ, Typed
  <2>3. /\ cur[p].op \in Operation
        /\ cur[p].src # None => Acked(m[cur[p].src]) /\ ~m[cur[p].src].gUsed
    BY <1>inv, <2>1 DEF SurfaceOf
  <2>4. Sound(m, records, latch, physical)
    BY <1>inv, <1>typ, <2>1, Typed, SoundReconciled
  <2>5. Sound(next, records, latch, physical)
    BY <1>typ, <2>1, <2>2, <2>3, <2>4, Typed, SoundReserved
  <2>6. Sound(res', records', latch', physical')
    BY <1>6, <1>inv, <2>5 DEF Reserve
  <2>7. CASE w = "ok"
    <3>1. pc'[p] = "permit" /\ \A q \in Process : q # p => pc'[q] = "closed"
      BY <1>6, <1>goto, <2>1, <2>7 DEF Reserve
    <3>2. cache'[p] = next /\ res' = next
      BY <1>6, <1>typ, <2>7, Typed DEF Reserve, Published
    <3>3. /\ cur'[p].rid = r /\ cur'[p].op = cur[p].op /\ cur'[p].fam = cur[p].fam
          /\ cur'[p].src = cur[p].src
      BY <1>6, <1>typ, <2>7, Typed DEF Reserve, CallInfo
    <3>4. UNCHANGED <<claims, records, latch, owner, cclaims, view>>
      BY <1>6, <2>7 DEF Reserve
    <3>5. next[r].st = "RESERVED" /\ next[r].op = cur[p].op /\ next[r].fam = cur[p].fam
      BY <2>1, <2>2, WithReservationFields
    <3>6. \A x \in Reservation : next[x].st \in {"RESERVED", "DISPATCHING"} => x = r
      BY <1>typ, <2>1, <2>2, Typed, ReconciledTwice, WithReservationFields
    <3>7. ~HasUnresolved(next)
      <4>1. ~HasUnresolved(m)
        BY <1>inv, <2>1 DEF SurfaceOf
      <4> QED
        BY <2>1, <2>2, <4>1, WithReservationFields DEF HasUnresolved, Blocking, Acked
    <3>8. Excluded(next) = Excluded(m)
      BY <2>1, <2>2, WithReservationFields, SameExclusions
    <3>9. CallsOf(RoleOf[cur[p].op], next, records) = CallsOf(RoleOf[cur[p].op], m, records)
      <4>1. records[r].kind = "none"
        <5>1. Blank.st = "ABSENT"
          BY DEF Blank
        <5> QED
          BY <1>inv, <1>typ, <2>1, <5>1, Typed, RecordKinds DEF Sound, RecordsFit, Settlements
      <4>2. \A x \in Reservation : records[x].kind # "none" => next[x].op = m[x].op
        BY <2>1, <2>2, <4>1, WithReservationFields
      <4> HIDE DEF next, m
      <4> QED
        BY <4>2, SameCalls
    <3> HIDE DEF next
    <3>10. SurfaceOf(p)'
      BY <1>inv, <2>1, <3>1, <3>2, <3>3, <3>4, <3>5, <3>6, <3>7, <3>8, <3>9
      DEF SurfaceOf, Deciding, InFlight, StatusAt
    <3> QED
      BY <1>one, <2>6, <3>1, <3>10
  <2>8. CASE w # "ok"
    BY <1>6, <1>stop, <2>1, <2>6, <2>8 DEF Reserve
  <2> QED
    BY <2>7, <2>8
<1>7. ASSUME NEW p \in Process, NEW w \in WriteResult, MarkDispatching(p, w) PROVE IInv'
  <2> DEFINE r == cur[p].rid
             next == WithDispatch(res, r)
  <2>1. /\ pc[p] = "permit" /\ cache[p] = res /\ r \in Reservation
        /\ res[r].st = "RESERVED" /\ view[p] = records /\ cclaims[p] = claims
        /\ \A x \in Reservation : res[x].st \in {"RESERVED", "DISPATCHING"} => x = r
    BY <1>7, <1>inv DEF MarkDispatching, SurfaceOf, InFlight, StatusAt
  <2>2. res \in Ledger
    BY <1>typ, Typed
  <2>3. (res[r].src = None \/ GrantHeldBy(res, r)) => Sound(next, records, latch, physical)
    BY <1>inv, <1>typ, <2>1, <2>2, Typed, SoundDispatched
  <2>4. Sound(res', records', latch', physical')
    BY <1>7, <1>inv, <2>1, <2>3 DEF MarkDispatching
  <2>5. CASE (res[r].src = None \/ GrantHeldBy(res, r)) /\ w = "ok"
    <3>1. pc'[p] = "call" /\ \A q \in Process : q # p => pc'[q] = "closed"
      BY <1>7, <1>goto, <2>1, <2>5 DEF MarkDispatching
    <3>2. cache'[p] = next /\ res' = next /\ UNCHANGED <<claims, records, latch, owner, cclaims, view, cur>>
      BY <1>7, <1>typ, <2>1, <2>5, Typed DEF MarkDispatching, Published
    <3>3. /\ next[r].st = "DISPATCHING" /\ next[r].op = res[r].op /\ next[r].fam = res[r].fam
          /\ \A x \in Reservation : next[x].st \in {"RESERVED", "DISPATCHING"} => x = r
      BY <2>1, <2>2, WithDispatchFields
    <3>4. Excluded(next) = Excluded(res)
      BY <2>1, <2>2, WithDispatchFields, SameExclusions
    <3> HIDE DEF next
    <3>5. SurfaceOf(p)'
      BY <1>inv, <2>1, <3>1, <3>2, <3>3, <3>4 DEF SurfaceOf, Deciding, InFlight, StatusAt
    <3> QED
      BY <1>one, <2>4, <3>1, <3>5
  <2>6. CASE ~((res[r].src = None \/ GrantHeldBy(res, r)) /\ w = "ok")
    BY <1>7, <1>stop, <2>1, <2>4, <2>6 DEF MarkDispatching
  <2> QED
    BY <2>5, <2>6
<1>8. ASSUME NEW p \in Process, NEW out \in Outcome, CallProvider(p, out) PROVE IInv'
  <2>1. /\ pc[p] = "call" /\ cur[p].rid \in Reservation
        /\ res[cur[p].rid].st = "DISPATCHING"
    BY <1>8, <1>inv DEF CallProvider, SurfaceOf, InFlight, StatusAt
  <2>2. Sound(res, records, latch, [physical EXCEPT ![cur[p].rid] = out])
    BY <1>inv, <1>typ, <2>1, Typed, SoundCalled
  <2>3. Sound(res', records', latch', physical')
    BY <1>8, <2>2 DEF CallProvider, durable
  <2>4. pc'[p] = "settle" /\ \A q \in Process : q # p => pc'[q] = "closed"
    BY <1>8, <1>goto, <2>1 DEF CallProvider
  <2>5. SurfaceOf(p)'
    BY <1>8, <1>inv, <2>1, <2>4
    DEF CallProvider, SurfaceOf, Deciding, InFlight, StatusAt, durable, local
  <2> QED
    BY <1>one, <2>3, <2>4, <2>5
<1>9. ASSUME NEW p \in Process, NEW w \in WriteResult, NEW next \in {"ready", "retry"},
             SettleKnown(p, w, next)
      PROVE IInv'
  <2> DEFINE r == cur[p].rid
             z == (physical[r].kind = "zero")
             entry == [res[r] EXCEPT !.st = "SETTLED_KNOWN", !.zero = z]
             settled == [res EXCEPT ![r] = entry]
             booked == [records EXCEPT ![r] = Known(physical[r].usage)]
             commit == /\ Published(w)
                       /\ res[r].st = "DISPATCHING" /\ records[r] = NoRecord
  <2>1. /\ pc[p] = "settle" /\ cache[p] = res /\ r \in Reservation
        /\ res[r].st = "DISPATCHING" /\ view[p] = records /\ cclaims[p] = claims
        /\ \A x \in Reservation : res[x].st \in {"RESERVED", "DISPATCHING"} => x = r
    BY <1>9, <1>inv DEF SettleKnown, SurfaceOf, InFlight, StatusAt
  <2>2. /\ res' = IF commit THEN settled ELSE res
        /\ records' = IF commit THEN booked ELSE records
        /\ latch' = IF commit /\ physical[r].usage > AnomalyLimit /\ latch = None
                    THEN r ELSE latch
        /\ UNCHANGED <<claims, owner, physical>>
    BY <1>9, <2>1 DEF SettleKnown
  <2>3. commit => Sound(settled, booked, latch', physical)
    <3>1. r # None
      BY <2>1, NoneAssumption
    <3>2. commit => /\ physical[r].usage > AnomalyLimit => latch' # None
                    /\ latch # None => latch' # None
      BY <2>2, <3>1
    <3>3. z \in BOOLEAN
      OBVIOUS
    <3> QED
      BY <1>inv, <1>typ, <2>1, <3>2, <3>3, Typed, SoundSettled
  <2>4. Sound(res', records', latch', physical')
    BY <1>inv, <2>2, <2>3
  <2>5. CASE commit /\ w = "ok" /\ physical[r].usage <= AnomalyLimit
    <3>1. pc'[p] = next /\ \A q \in Process : q # p => pc'[q] = "closed"
      BY <1>9, <1>goto, <2>1, <2>5 DEF SettleKnown
    <3>2. cache'[p] = settled /\ view'[p] = booked /\ cclaims'[p] = claims
      BY <1>9, <1>typ, <2>1, <2>5, Typed DEF SettleKnown
    <3>3. settled \in Ledger
      <4>1. res[r] \in Entry /\ res \in Ledger
        BY <1>typ, <2>1, Typed DEF Ledger
      <4>2. entry \in Entry
        BY <4>1, EntryUpdates DEF Status
      <4> HIDE DEF entry
      <4> QED
        BY <4>1, <4>2 DEF Ledger
    <3>4. \A x \in Reservation : settled[x].st \notin {"RESERVED", "DISPATCHING"}
      <4>1. res[r] \in Entry /\ res \in Ledger
        BY <1>typ, <2>1, Typed DEF Ledger
      <4>2. entry.st = "SETTLED_KNOWN"
        BY <4>1 DEF Entry
      <4>3. settled[r] = entry /\ \A x \in Reservation : x # r => settled[x] = res[x]
        BY <2>1, <4>1 DEF Ledger
      <4> HIDE DEF entry, settled
      <4> QED
        BY <2>1, <4>2, <4>3
    <3>5. Reconciled(settled) = settled
      BY <3>3, <3>4, NothingOpen
    <3> HIDE DEF settled, booked
    <3>6. SurfaceOf(p)'
      BY <1>inv, <2>1, <2>2, <2>5, <3>1, <3>2, <3>5 DEF SurfaceOf, Deciding, InFlight
    <3> QED
      BY <1>one, <2>4, <3>1, <3>6
  <2>6. CASE ~(commit /\ w = "ok" /\ physical[r].usage <= AnomalyLimit)
    <3>1. Stop(p)
      BY <1>9, <2>6 DEF SettleKnown
    <3> QED
      BY <1>stop, <2>1, <2>2, <2>4, <3>1
  <2> QED
    BY <2>5, <2>6
<1>10. ASSUME NEW p \in Process, NEW w \in WriteResult, SettleUnknown(p, w) PROVE IInv'
  <2> DEFINE r == cur[p].rid
             next == [res EXCEPT ![r].st = "UNRESOLVED"]
  <2>1. /\ pc[p] = "settle" /\ cache[p] = res /\ r \in Reservation
        /\ res[r].st = "DISPATCHING" /\ view[p] = records /\ cclaims[p] = claims
        /\ res[r].op = cur[p].op /\ res[r].fam = cur[p].fam
        /\ \A x \in Reservation : res[x].st \in {"RESERVED", "DISPATCHING"} => x = r
    BY <1>10, <1>inv DEF SettleUnknown, SurfaceOf, InFlight, StatusAt
  <2>2. Sound(next, records, latch, physical)
    BY <1>inv, <1>typ, <2>1, Typed, SoundUnresolved
  <2>3. Sound(res', records', latch', physical')
    BY <1>10, <1>inv, <2>1, <2>2 DEF SettleUnknown
  <2>4. CASE w = "ok" /\ physical[r].kind = "cancelled"
    <3>1. pc'[p] = "cancelled" /\ \A q \in Process : q # p => pc'[q] = "closed"
      BY <1>10, <1>goto, <2>1, <2>4 DEF SettleUnknown
    <3>2. /\ cache'[p] = next /\ res' = next
          /\ UNCHANGED <<claims, records, latch, owner, cclaims, view, cur>>
      BY <1>10, <1>typ, <2>1, <2>4, Typed DEF SettleUnknown, Published
    <3>3. res \in Ledger /\ res[r] \in Entry
      BY <1>typ, <2>1, Typed DEF Ledger
    <3>4. /\ next[r].st = "UNRESOLVED" /\ next[r].op = res[r].op /\ next[r].fam = res[r].fam
          /\ \A x \in Reservation : x # r => next[x] = res[x]
      BY <2>1, <3>3 DEF Ledger, Entry
    <3> HIDE DEF next
    <3>5. SurfaceOf(p)'
      BY <1>inv, <2>1, <3>1, <3>2, <3>4 DEF SurfaceOf, Deciding, InFlight, StatusAt
    <3> QED
      BY <1>one, <2>3, <3>1, <3>5
  <2>5. CASE ~(w = "ok" /\ physical[r].kind = "cancelled")
    BY <1>10, <1>stop, <2>1, <2>3, <2>5 DEF SettleUnknown
  <2> QED
    BY <2>4, <2>5
<1>11. ASSUME NEW p \in Process, NEW w \in WriteResult, RecordCancelled(p, w) PROVE IInv'
  <2> DEFINE r == cur[p].rid
  <2>1. pc[p] = "cancelled" /\ r \in Reservation /\ res[r].st = "UNRESOLVED"
    BY <1>11, <1>inv DEF RecordCancelled, SurfaceOf, InFlight, StatusAt
  <2>2. res \in Ledger /\ res[r] \in Entry /\ [res EXCEPT ![r] = res[r]] = res
    BY <1>typ, <2>1, Typed DEF Ledger
  <2>3. Sound([res EXCEPT ![r] = res[r]], [records EXCEPT ![r] = Unknown], latch, physical)
    BY <1>inv, <1>typ, <2>1, <2>2, Typed, SoundUnknown
  <2>4. Sound(res', records', latch', physical')
    BY <1>11, <1>inv, <2>2, <2>3 DEF RecordCancelled
  <2> QED
    BY <1>11, <1>stop, <2>1, <2>4 DEF RecordCancelled
<1>12. ASSUME NEW p \in Process, Close(p) PROVE IInv'
  <2>1. pc'[p] = "closed" /\ \A q \in Process : q # p => pc'[q] = "closed"
    BY <1>12, <1>goto DEF Close
  <2>2. SurfaceOf(p)'
    BY <2>1 DEF SurfaceOf, Deciding, InFlight
  <2> QED
    BY <1>12, <1>inv, <1>one, <2>1, <2>2 DEF Close, durable
<1>13. ASSUME NEW p \in Process, Crash(p) PROVE IInv'
  <2>1. pc'[p] = "closed" /\ \A q \in Process : q # p => pc'[q] = "closed"
    BY <1>13, <1>goto DEF Crash
  <2>2. SurfaceOf(p)'
    BY <2>1 DEF SurfaceOf, Deciding, InFlight
  <2>3. ASSUME pc[p] = "call"
        PROVE  Sound(res, records, latch, [physical EXCEPT ![cur[p].rid] = Unknown])
    <3>1. cur[p].rid \in Reservation /\ res[cur[p].rid].st = "DISPATCHING"
      BY <1>inv, <2>3 DEF SurfaceOf, InFlight, StatusAt
    <3> QED
      BY <1>inv, <1>typ, <3>1, Typed, SoundCalled
  <2>4. Sound(res', records', latch', physical')
    BY <1>13, <1>inv, <2>3 DEF Crash, durable
  <2> QED
    BY <1>one, <2>1, <2>2, <2>4
\* An operator's command finds nobody reviewing, and so do its effects.
<1>idle. ASSUME LeaseFree, pc' = pc, Sound(res', records', latch', physical') PROVE IInv'
  <2>1. \A q \in Process : pc'[q] = "closed"
    BY <1>idle, Alone
  <2>2. \A q \in Process : SurfaceOf(q)'
    BY <2>1 DEF SurfaceOf, Deciding, InFlight
  <2> QED
    BY <1>idle, <1>typ, <2>2, IInvParts
<1>14. ASSUME NEW r \in Reservation, NEW excl \in SUBSET Family, Acknowledge(r, excl)
       PROVE IInv'
  <2>1. PICK ev \in Evidence :
          res' = [res EXCEPT ![r].ack = TRUE, ![r].ev = ev, ![r].excl = excl]
    BY <1>14 DEF Acknowledge
  <2> DEFINE e == [res[r] EXCEPT !.ack = TRUE, !.ev = ev, !.excl = excl]
  <2>2. res \in Ledger /\ res[r] \in Entry
    BY <1>typ, Typed DEF Ledger
  <2>3. e \in Entry /\ e.st = res[r].st /\ e.op = res[r].op /\ e.src = res[r].src /\ e.gUsed = res[r].gUsed
        /\ e.gFor = res[r].gFor
    BY <2>2 DEF Entry
  <2>4. res' = [res EXCEPT ![r] = e]
    BY <2>1, <2>2 DEF Ledger
  <2>5. res[r].st = "UNRESOLVED"
    BY <1>14 DEF Acknowledge
  <2> HIDE DEF e
  <2>6. Sound([res EXCEPT ![r] = e], [records EXCEPT ![r] = Unknown], latch, physical)
    BY <1>inv, <1>typ, <2>2, <2>3, <2>5, Typed, SoundUnknown
  <2> QED
    BY <1>14, <1>idle, <2>4, <2>6 DEF Acknowledge
<1>15. ASSUME NEW r \in Reservation, NEW excl \in SUBSET Family, Amend(r, excl) PROVE IInv'
  <2> DEFINE e == [res[r] EXCEPT !.excl = res[r].excl \cup excl]
  <2>1. res \in Ledger /\ res[r] \in Entry
    BY <1>typ, Typed DEF Ledger
  <2>2. e \in Entry /\ e.st = res[r].st /\ e.op = res[r].op /\ e.src = res[r].src /\ e.gUsed = res[r].gUsed
        /\ e.gFor = res[r].gFor
    BY <2>1 DEF Entry
  <2>3. res' = [res EXCEPT ![r] = e]
    BY <1>15, <2>1 DEF Amend, Ledger
  <2>4. res[r].st = "UNRESOLVED" /\ [records EXCEPT ![r] = Unknown] = records
    BY <1>15, <1>typ, Typed DEF Amend, Acked
  <2> HIDE DEF e
  <2>5. Sound([res EXCEPT ![r] = e], [records EXCEPT ![r] = Unknown], latch, physical)
    BY <1>inv, <1>typ, <2>1, <2>2, <2>4, Typed, SoundUnknown
  <2> QED
    BY <1>15, <1>idle, <2>3, <2>4, <2>5 DEF Amend
<1>16. CASE UNCHANGED vars
  BY <1>typ, <1>inv, <1>16, IInvParts DEF vars, durable, local, SurfaceOf
<1> QED
  BY <1>1, <1>2, <1>3, <1>4, <1>5, <1>6, <1>7, <1>8, <1>9, <1>10, <1>11, <1>12, <1>13,
     <1>14, <1>15, <1>16
  DEF Next, Review, WriteStep, CallStep, Human
-----------------------------------------------------------------------------
\* The ledgers of a loop agree in memory and on disk, the invariant all the
\* theorems below rest on, whatever writes fail and whenever a process dies.
THEOREM LedgersAlwaysAgree ==
  ASSUME Displacement = FALSE
  PROVE  Spec => []LedgersAgree
<1>1. IInv /\ [Next]_vars => IInv'
  BY IInvStep
<1>2. IInv => LedgersAgree
  BY DEF IInv
<1> QED
  BY <1>1, <1>2, IInvInit, PTL DEF Spec

\* Status, spend record, acknowledgement and Sentinel latch are never half
\* written.
THEOREM NothingHalfSettled ==
  ASSUME Displacement = FALSE
  PROVE  Spec => []NoHalfSettlement
<1>1. IInv /\ [Next]_vars => IInv'
  BY IInvStep
<1>2. IInv => NoHalfSettlement
  BY DEF IInv
<1> QED
  BY <1>1, <1>2, IInvInit, PTL DEF Spec

\* What reached the provider is accounted for exactly or blocks the loop.
THEOREM SpendAlwaysKept ==
  ASSUME Displacement = FALSE
  PROVE  Spec => []SpendIsNeverLost
<1>1. IInv /\ [Next]_vars => IInv'
  BY IInvStep
<1>2. IInv => SpendIsNeverLost
  BY DEF IInv
<1> QED
  BY <1>1, <1>2, IInvInit, PTL DEF Spec

\* An acknowledgement is good for one dispatch.
THEOREM GrantsDispatchOnce ==
  ASSUME Displacement = FALSE
  PROVE  Spec => []GrantDispatchesOnce
<1>1. IInv /\ [Next]_vars => IInv'
  BY IInvStep
<1>2. ASSUME IInv PROVE GrantDispatchesOnce
  <2> SUFFICES ASSUME NEW s \in Reservation
               PROVE  LET sent == {r \in Reservation :
                                     /\ res[r].src = s
                                     /\ res[r].st \notin {"RESERVED", "CANCELLED_PRE_DISPATCH"}}
                      IN  /\ Cardinality(sent) <= 1
                          /\ sent # {} => res[s].gUsed /\ res[s].gFor \in sent
    BY DEF GrantDispatchesOnce
  <2> DEFINE sent == {r \in Reservation :
                        /\ res[r].src = s
                        /\ res[r].st \notin {"RESERVED", "CANCELLED_PRE_DISPATCH"}}
  <2>1. GrantIsSpent /\ RecordsAgree
    BY <1>2 DEF IInv, LedgersAgree
  <2>2. \A r \in sent : res[s].gUsed /\ res[s].gFor = r
    <3>1. \A r \in sent : res[r].st # "ABSENT"
      BY <2>1, NoneAssumption DEF RecordsAgree, Blank
    <3> QED
      BY <2>1, <3>1 DEF GrantIsSpent
  <2>3. CASE sent = {}
    BY <2>3, FS_EmptySet
  <2>4. CASE sent # {}
    <3>1. sent = {res[s].gFor}
      BY <2>2, <2>4
    <3>2. Cardinality(sent) = 1
      BY <3>1, FS_Singleton
    <3> QED
      BY <2>2, <2>4, <3>1, <3>2
  <2> QED
    BY <2>3, <2>4
<1> QED
  BY <1>1, <1>2, IInvInit, PTL DEF Spec
-----------------------------------------------------------------------------
\* How an entry may change in a step.
Forward(e, n) ==
    /\ n.st \in {e.st} \cup Successors[e.st]
    /\ e.ack => n.ack /\ e.excl \subseteq n.excl
    /\ e.gUsed => n.gUsed

\* The steps that write reservations or the latch; no other does.
LEMMA Writers ==
  ASSUME [Next]_vars
  PROVE  \/ res' = res /\ latch' = latch
         \/ \E p \in Process, w \in WriteResult :
              \/ LoadAndReconcile(p, w)
              \/ \E r \in Reservation : Reserve(p, r, w)
              \/ MarkDispatching(p, w)
              \/ \E next \in {"ready", "retry"} : SettleKnown(p, w, next)
              \/ SettleUnknown(p, w)
         \/ \E r \in Reservation, excl \in SUBSET Family : Acknowledge(r, excl) \/ Amend(r, excl)
<1> USE DEF durable, local, vars
<1>1. ASSUME NEW p \in Process, AuthorizeStep(p) PROVE res' = res /\ latch' = latch
  BY <1>1, AuthorizeCases DEF Authorized
<1>2. ASSUME NEW p \in Process,
             Open(p) \/ DenyStep(p) \/ CallStep(p) \/ Close(p) \/ Crash(p)
      PROVE  res' = res /\ latch' = latch
  BY <1>2 DEF Open, DenyStep, Deny, CallStep, CallProvider, Close, Crash
<1>3. ASSUME NEW p \in Process, NEW w \in WriteResult, Consume(p, w) \/ RecordCancelled(p, w)
      PROVE  res' = res /\ latch' = latch
  BY <1>3 DEF Consume, RecordCancelled
<1> QED
  BY <1>1, <1>2, <1>3 DEF Next, Review, WriteStep, Human

\* Every step moves every entry forward.
LEMMA EntriesMoveForward ==
  ASSUME Displacement = FALSE
  PROVE  IInv /\ [Next]_vars => \A r \in Reservation : Forward(res[r], res'[r])
<1> SUFFICES ASSUME IInv, [Next]_vars
             PROVE  \A r \in Reservation : Forward(res[r], res'[r])
  OBVIOUS
<1>typ. TypeInv /\ res \in Ledger /\ \A x \in Reservation : res[x] \in Entry
  BY Typed DEF IInv, Ledger
<1>inv. Sound(res, records, latch, physical) /\ \A p \in Process : SurfaceOf(p)
  BY IInvParts
<1>same. ASSUME NEW e \in Entry PROVE Forward(e, e)
  BY DEF Forward
<1>suc. /\ Successors["ABSENT"] = {"RESERVED"}
        /\ Successors["RESERVED"] = {"DISPATCHING", "CANCELLED_PRE_DISPATCH"}
        /\ Successors["DISPATCHING"] = {"SETTLED_KNOWN", "UNRESOLVED"}
  BY DEF Successors, Status
<1>rec. ASSUME NEW x \in Reservation PROVE Forward(res[x], Reconciled(res)[x])
  BY <1>typ, <1>suc, ReconciledFields DEF Forward
<1>0. CASE res' = res
  BY <1>0, <1>typ, <1>same
<1>1. ASSUME NEW p \in Process, NEW w \in WriteResult, LoadAndReconcile(p, w)
      PROVE  \A r \in Reservation : Forward(res[r], res'[r])
  BY <1>1, <1>typ, <1>same, <1>rec DEF LoadAndReconcile
<1>2. ASSUME NEW p \in Process, NEW w \in WriteResult, NEW r \in Reservation,
             Reserve(p, r, w)
      PROVE  \A x \in Reservation : Forward(res[x], res'[x])
  <2> DEFINE next == WithReservation(cache[p], r, cur[p])
  <2>1. cache[p] = Reconciled(res) /\ cache[p][r] = Blank /\ res[r] = Blank
    BY <1>2, <1>inv DEF Reserve, Unused, SurfaceOf, Deciding
  <2>2. cache[p] \in Ledger /\ cur[p] \in CallInfo
    BY <1>typ, Typed
  <2>3. ASSUME NEW x \in Reservation PROVE Forward(res[x], next[x])
    <3>1. CASE x = r
      <4>1. Blank.st = "ABSENT" /\ Blank.ack = FALSE /\ Blank.gUsed = FALSE
        BY DEF Blank
      <4> QED
        BY <1>suc, <2>1, <2>2, <3>1, <4>1, WithReservationFields DEF Forward
    <3>2. CASE x # r
      BY <1>rec, <2>1, <2>2, <3>2, WithReservationFields DEF Forward
    <3> QED
      BY <3>1, <3>2
  <2>4. res' \in {res, next}
    BY <1>2 DEF Reserve
  <2> HIDE DEF next
  <2> QED
    BY <1>typ, <1>same, <2>3, <2>4
<1>3. ASSUME NEW p \in Process, NEW w \in WriteResult, MarkDispatching(p, w)
      PROVE  \A x \in Reservation : Forward(res[x], res'[x])
  <2> DEFINE r == cur[p].rid
  <2>1. cache[p] = res /\ r \in Reservation /\ res[r].st = "RESERVED"
    BY <1>3, <1>inv DEF MarkDispatching, SurfaceOf, InFlight, StatusAt
  <2>2. ASSUME NEW x \in Reservation PROVE Forward(res[x], WithDispatch(res, r)[x])
    BY <1>typ, <1>suc, <2>1, WithDispatchFields DEF Forward
  <2> QED
    BY <1>3, <1>typ, <1>same, <2>1, <2>2 DEF MarkDispatching
<1>4. ASSUME NEW p \in Process, NEW w \in WriteResult, NEW next \in {"ready", "retry"},
             SettleKnown(p, w, next)
      PROVE  \A x \in Reservation : Forward(res[x], res'[x])
  <2> DEFINE r == cur[p].rid
             e == [res[r] EXCEPT !.st = "SETTLED_KNOWN", !.zero = (physical[r].kind = "zero")]
  <2>1. cache[p] = res /\ r \in Reservation /\ res[r].st = "DISPATCHING"
    BY <1>4, <1>inv DEF SettleKnown, SurfaceOf, InFlight, StatusAt
  <2>2. res' \in {res, [res EXCEPT ![r] = e]}
    BY <1>4, <2>1 DEF SettleKnown
  <2>3. Forward(res[r], e)
    BY <1>typ, <1>suc, <2>1 DEF Forward, Entry
  <2> HIDE DEF e
  <2> QED
    BY <1>typ, <1>same, <2>1, <2>2, <2>3 DEF Ledger
<1>5. ASSUME NEW p \in Process, NEW w \in WriteResult, SettleUnknown(p, w)
      PROVE  \A x \in Reservation : Forward(res[x], res'[x])
  <2> DEFINE r == cur[p].rid
             e == [res[r] EXCEPT !.st = "UNRESOLVED"]
  <2>1. cache[p] = res /\ r \in Reservation /\ res[r].st = "DISPATCHING"
    BY <1>5, <1>inv DEF SettleUnknown, SurfaceOf, InFlight, StatusAt
  <2>2. res' \in {res, [res EXCEPT ![r] = e]}
    BY <1>5, <1>typ, <2>1 DEF SettleUnknown, Ledger
  <2>3. Forward(res[r], e)
    BY <1>typ, <1>suc, <2>1 DEF Forward, Entry
  <2> HIDE DEF e
  <2> QED
    BY <1>typ, <1>same, <2>1, <2>2, <2>3 DEF Ledger
<1>6. ASSUME NEW r \in Reservation, NEW excl \in SUBSET Family, Acknowledge(r, excl)
      PROVE  \A x \in Reservation : Forward(res[x], res'[x])
  <2>1. PICK ev \in Evidence :
          res' = [res EXCEPT ![r].ack = TRUE, ![r].ev = ev, ![r].excl = excl]
    BY <1>6 DEF Acknowledge
  <2>2. ~res[r].ack /\ res'[r].st = res[r].st /\ res'[r].gUsed = res[r].gUsed
    BY <1>6, <1>typ, <2>1 DEF Acknowledge, Entry, Ledger
  <2>3. \A x \in Reservation : x # r => res'[x] = res[x]
    BY <1>typ, <2>1 DEF Ledger
  <2> QED
    BY <1>typ, <1>same, <2>2, <2>3 DEF Forward
<1>7. ASSUME NEW r \in Reservation, NEW excl \in SUBSET Family, Amend(r, excl)
      PROVE  \A x \in Reservation : Forward(res[x], res'[x])
  <2>1. res' = [res EXCEPT ![r].excl = res[r].excl \cup excl]
    BY <1>7, <1>typ DEF Amend, Ledger, Entry
  <2>2. /\ res'[r].st = res[r].st /\ res'[r].gUsed = res[r].gUsed /\ res'[r].ack = res[r].ack
        /\ res[r].excl \subseteq res'[r].excl
    BY <1>typ, <2>1 DEF Entry, Ledger
  <2>3. \A x \in Reservation : x # r => res'[x] = res[x]
    BY <1>typ, <2>1 DEF Ledger
  <2> QED
    BY <1>typ, <1>same, <2>2, <2>3 DEF Forward
<1> QED
  BY <1>0, <1>1, <1>2, <1>3, <1>4, <1>5, <1>6, <1>7, Writers

\* Reservations only move forward, across writes, crashes and retries.
THEOREM HistoryAlwaysKept ==
  ASSUME Displacement = FALSE
  PROVE  Spec => HistoryIsKept
<1>1. IInv /\ [Next]_vars => IInv'
  BY IInvStep
<1>2. IInv /\ [Next]_vars => \A r \in Reservation : Forward(res[r], res'[r])
  BY EntriesMoveForward
<1>3. IInv /\ [Next]_vars =>
        [\A r \in Reservation :
            /\ res'[r].st \in {res[r].st} \cup Successors[res[r].st]
            /\ res[r].ack => res'[r].ack /\ res[r].excl \subseteq res'[r].excl
            /\ res[r].gUsed => res'[r].gUsed]_vars
  BY <1>2 DEF Forward
<1> QED
  BY <1>1, <1>3, IInvInit, PTL DEF Spec, HistoryIsKept

\* A family a human excluded is never called again.
THEOREM ExclusionsHold ==
  ASSUME Displacement = FALSE
  PROVE  Spec => ExcludedFamilyIsNotCalled
<1>1. IInv /\ [Next]_vars => IInv'
  BY IInvStep
<1> USE DEF durable, local
<1>2. ASSUME IInv, [Next]_vars, NEW r \in Reservation, physical'[r] # physical[r]
      PROVE  res[r].fam \notin Excluded(res)
  <2>inv. TypeInv /\ \A p \in Process : SurfaceOf(p)
    BY <1>2, IInvParts
  <2>1. PICK p \in Process : /\ pc[p] = "call"
                             /\ \E out : physical' = [physical EXCEPT ![cur[p].rid] = out]
    <3>1. ASSUME NEW p \in Process, AuthorizeStep(p) PROVE physical' = physical
      BY <3>1, AuthorizeCases DEF Authorized
    <3>2. ASSUME NEW p \in Process, Open(p) \/ DenyStep(p) \/ Close(p) PROVE physical' = physical
      BY <3>2 DEF Open, DenyStep, Deny, Close
    <3>3. ASSUME NEW p \in Process, WriteStep(p) PROVE physical' = physical
      BY <3>3 DEF WriteStep, LoadAndReconcile, Consume, Reserve, MarkDispatching, SettleKnown,
         SettleUnknown, RecordCancelled
    <3>4. ASSUME Human PROVE physical' = physical
      BY <3>4 DEF Human, Acknowledge, Amend
    <3>5. ASSUME NEW p \in Process, CallStep(p) \/ Crash(p)
          PROVE  \/ physical' = physical
                 \/ /\ pc[p] = "call"
                    /\ \E out : physical' = [physical EXCEPT ![cur[p].rid] = out]
      BY <3>5 DEF CallStep, CallProvider, Crash
    <3>6. CASE UNCHANGED vars
      BY <1>2, <3>6 DEF vars
    <3> QED
      BY <1>2, <3>1, <3>2, <3>3, <3>4, <3>5, <3>6 DEF Next, Review
  <2>2. /\ cache[p] = res /\ res[cur[p].rid].fam = cur[p].fam
        /\ cur[p].fam \notin Excluded(cache[p])
    BY <2>inv, <2>1 DEF SurfaceOf, InFlight
  <2>3. cur[p].rid = r
    BY <1>2, <2>inv, <2>1, Typed
  <2> QED
    BY <2>2, <2>3
<1>3. IInv /\ [Next]_vars =>
        [\A r \in Reservation :
            (physical[r] = NoRecord /\ physical'[r] # NoRecord) =>
                res[r].fam \notin Excluded(res)]_vars
  BY <1>2
<1> QED
  BY <1>1, <1>3, IInvInit, PTL DEF Spec, ExcludedFamilyIsNotCalled
-----------------------------------------------------------------------------
(* What is paid is justified: by a claim of its own, or by a human's grant. *)

\* The highest of finitely many attempt numbers is one of them, so there is a
\* next attempt: of the sets of numbers above one of them, the smallest is empty.
LEMMA FiniteMax ==
  ASSUME NEW S \in SUBSET Nat, IsFiniteSet(S), S # {}
  PROVE  Max(S) \in S /\ \A x \in S : x <= Max(S)
<1> DEFINE Above(y) == {z \in S : z > y}
           T == {Above(y) : y \in S}
           R == StrictSubsetOrdering(S)
<1>1. IsWellFoundedOn(R, FiniteSubsetsOf(S))
  BY FS_StrictSubsetOrderingWellFounded
<1>2. T \subseteq FiniteSubsetsOf(S) /\ T # {}
  <2>1. \A y \in S : Above(y) \in SUBSET S
    OBVIOUS
  <2>2. \A y \in S : IsFiniteSet(Above(y))
    BY <2>1, FS_Subset
  <2> QED
    BY <2>1, <2>2 DEF FiniteSubsetsOf
<1>3. PICK U \in T : \A V \in T : <<V, U>> \notin R
  <2> HIDE DEF T, R
  <2> QED
    BY <1>1, <1>2, WFMin
<1>4. PICK m \in S : U = Above(m)
  OBVIOUS
<1>5. ASSUME NEW y \in S PROVE m >= y
  <2>0. m \in Nat /\ y \in Nat
    OBVIOUS
  <2> SUFFICES ASSUME y > m PROVE FALSE
    BY <2>0
  <2>1. /\ Above(y) \in T /\ Above(y) \subseteq Above(m)
        /\ y \in Above(m) /\ y \notin Above(y)
    <3>1. \A z \in S : z \in Nat
      OBVIOUS
    <3>2. y \notin Above(y) /\ y \in Above(m)
      BY <2>0
    <3>3. \A z \in S : z > y => z > m
      <4> SUFFICES ASSUME NEW z \in Nat, z > y PROVE z > m
        BY <3>1
      <4> QED
        BY <2>0
    <3>4. Above(y) \subseteq Above(m)
      BY <3>3
    <3> QED
      BY <3>2, <3>4
  <2>2. <<Above(y), Above(m)>> \in R
    <3>1. Above(y) \in SUBSET S /\ Above(m) \in SUBSET S
      OBVIOUS
    <3>2. Above(y) # Above(m)
      BY <2>1
    <3>3. Above(y) \subseteq Above(m)
      BY <2>1
    <3> HIDE DEF Above
    <3> QED
      BY <3>1, <3>2, <3>3 DEF StrictSubsetOrdering
  <2> QED
    BY <1>3, <1>4, <2>1, <2>2
<1>6. Max(S) \in S /\ \A x \in S : Max(S) >= x
  BY <1>5 DEF Max
<1> QED
  BY <1>6

\* An element more makes a finite set larger by at most one.
LEMMA AddsOne ==
  ASSUME NEW S, IsFiniteSet(S), NEW x
  PROVE  /\ IsFiniteSet(S \cup {x})
         /\ Cardinality(S) \in Nat /\ Cardinality(S \cup {x}) \in Nat
         /\ Cardinality(S) <= Cardinality(S \cup {x})
         /\ Cardinality(S \cup {x}) <= Cardinality(S) + 1
         /\ x \notin S => Cardinality(S \cup {x}) = Cardinality(S) + 1
<1>1. IsFiniteSet(S \cup {x})
  BY FS_AddElement
<1>2. Cardinality(S) \in Nat /\ Cardinality(S \cup {x}) \in Nat
  BY <1>1, FS_CardinalityType
<1>3. CASE x \in S
  <2>1. S \cup {x} = S
    BY <1>3
  <2> QED
    BY <1>1, <1>2, <1>3, <2>1
<1>4. CASE x \notin S
  <2>1. Cardinality(S \cup {x}) = Cardinality(S) + 1
    BY <1>4, FS_AddElement
  <2> QED
    BY <1>1, <1>2, <2>1
<1> QED
  BY <1>3, <1>4

\* The evidence an operation has claimed, and the calls it pays for: all that may
\* have been billed except those a human granted.
Cited(cl, op) == {ev \in Evidence : <<op, ev>> \in cl}

PaidByClaim(m, ph, op) ==
    {r \in Reservation : /\ m[r].op = op /\ m[r].src = None
                         /\ ph[r].kind \in {"known", "unknown", "cancelled"}}

RetriesFit(m) ==
    \A r \in Reservation : m[r].src # None =>
        /\ Acked(m[m[r].src])
        /\ m[m[r].src].op = m[r].op /\ m[m[r].src].att < m[r].att

ZeroIsFree(m, ph) ==
    \A r \in Reservation : m[r].zero => m[r].st = "SETTLED_KNOWN" /\ ph[r].kind = "zero"

ClaimsSuffice(m, ph, cl) ==
    \A op \in Operation :
        /\ IsFiniteSet(Cited(cl, op))
        /\ Cardinality(PaidByClaim(m, ph, op)) <= Cardinality(Cited(cl, op))

Accounted(m, ph, cl) == RetriesFit(m) /\ ZeroIsFree(m, ph) /\ ClaimsSuffice(m, ph, cl)

\* What a call owes its authorization until it is made: its attempt is later than
\* every recorded one, its grant is of its own operation, and its claim is not
\* used up.
Recorded(op) == {r \in Reservation : res[r].op = op /\ records[r].kind # "none"}

CallFits(p) ==
    /\ pc[p] \in {"consume", "reserve"} =>
          \A r \in Recorded(cur[p].op) : res[r].att < cur[p].att
    /\ pc[p] \in InFlight \cup {"retry"} =>
          \A r \in Recorded(cur[p].op) : res[r].att <= cur[p].att
    /\ pc[p] = "consume" => cur[p].src = None /\ <<cur[p].op, cur[p].ev>> \notin claims
    /\ pc[p] \in {"consume", "reserve"} /\ cur[p].src # None => res[cur[p].src].op = cur[p].op
    /\ pc[p] \in InFlight => res[cur[p].rid].att = cur[p].att /\ res[cur[p].rid].src = cur[p].src
    /\ pc[p] \in {"reserve", "permit", "call"} /\ cur[p].src = None =>
          Cardinality(PaidByClaim(res, physical, cur[p].op)) < Cardinality(Cited(claims, cur[p].op))

ClaimInv == IInv /\ Accounted(res, physical, claims) /\ \A p \in Process : CallFits(p)

\* Reservations being finitely many, the calls of an operation can be counted.
LEMMA PaidIsFinite ==
  ASSUME NEW m, NEW ph, NEW op
  PROVE  /\ IsFiniteSet(PaidByClaim(m, ph, op))
         /\ Cardinality(PaidByClaim(m, ph, op)) \in Nat
<1>1. PaidByClaim(m, ph, op) \in SUBSET Reservation
  BY DEF PaidByClaim
<1> QED
  BY <1>1, IdsAssumption, FS_Subset, FS_CardinalityType

\* Changes that leave a reservation's operation, attempt and grant alone, keep
\* acknowledgements and free nothing that was billed need no further claim.
LEMMA StillAccounted ==
  ASSUME NEW m \in Ledger, NEW n, NEW ph, NEW cl, Accounted(m, ph, cl),
         \A x \in Reservation :
            /\ n[x].op = m[x].op /\ n[x].src = m[x].src /\ n[x].att = m[x].att
            /\ Acked(m[x]) => Acked(n[x])
            /\ n[x].zero => n[x].st = "SETTLED_KNOWN" /\ ph[x].kind = "zero"
  PROVE  Accounted(n, ph, cl)
<1>1. RetriesFit(n)
  <2> SUFFICES ASSUME NEW r \in Reservation, n[r].src # None
               PROVE  /\ Acked(n[n[r].src])
                      /\ n[n[r].src].op = n[r].op /\ n[n[r].src].att < n[r].att
    BY DEF RetriesFit
  <2>1. m[r].src \in Reservation /\ m[r].src = n[r].src
    BY DEF Ledger, Entry
  <2> QED
    BY <2>1 DEF Accounted, RetriesFit
<1>2. ZeroIsFree(n, ph)
  BY DEF ZeroIsFree
<1>3. \A op : PaidByClaim(n, ph, op) = PaidByClaim(m, ph, op)
  BY DEF PaidByClaim
<1>4. ClaimsSuffice(n, ph, cl)
  BY <1>3 DEF Accounted, ClaimsSuffice
<1> QED
  BY <1>1, <1>2, <1>3, <1>4 DEF Accounted

\* A new claim is one more, of one operation.
LEMMA ClaimAdds ==
  ASSUME NEW m, NEW ph, NEW cl, Accounted(m, ph, cl),
         NEW op \in Operation, NEW ev \in Evidence
  PROVE  /\ Accounted(m, ph, cl \cup {<<op, ev>>})
         /\ <<op, ev>> \notin cl =>
              Cardinality(PaidByClaim(m, ph, op)) < Cardinality(Cited(cl \cup {<<op, ev>>}, op))
<1> DEFINE dl == cl \cup {<<op, ev>>}
<1>1. /\ Cited(dl, op) = Cited(cl, op) \cup {ev}
      /\ \A o \in Operation : o # op => Cited(dl, o) = Cited(cl, o)
      /\ <<op, ev>> \notin cl => ev \notin Cited(cl, op)
  BY DEF Cited
<1>2. /\ IsFiniteSet(Cited(cl, op))
      /\ Cardinality(PaidByClaim(m, ph, op)) <= Cardinality(Cited(cl, op))
      /\ Cardinality(Cited(cl, op)) \in Nat /\ Cardinality(PaidByClaim(m, ph, op)) \in Nat
  BY PaidIsFinite, FS_CardinalityType DEF Accounted, ClaimsSuffice
<1>3. /\ IsFiniteSet(Cited(dl, op))
      /\ Cardinality(Cited(dl, op)) \in Nat
      /\ Cardinality(Cited(cl, op)) <= Cardinality(Cited(dl, op))
      /\ <<op, ev>> \notin cl => Cardinality(Cited(dl, op)) = Cardinality(Cited(cl, op)) + 1
  BY <1>1, <1>2, AddsOne
<1>4. ClaimsSuffice(m, ph, dl)
  <2> SUFFICES ASSUME NEW o \in Operation
               PROVE  /\ IsFiniteSet(Cited(dl, o))
                      /\ Cardinality(PaidByClaim(m, ph, o)) <= Cardinality(Cited(dl, o))
    BY DEF ClaimsSuffice
  <2>1. CASE o = op
    BY <1>2, <1>3, <2>1
  <2>2. CASE o # op
    BY <1>1, <2>2 DEF Accounted, ClaimsSuffice
  <2> QED
    BY <2>1, <2>2
<1> QED
  BY <1>1, <1>2, <1>3, <1>4 DEF Accounted

\* A new reservation costs nothing yet; one on a grant repeats its operation on a
\* later attempt.
LEMMA ReservationFits ==
  ASSUME NEW m \in Ledger, NEW ph, NEW cl, Accounted(m, ph, cl),
         NEW r \in Reservation, m[r] = Blank, ph[r] = NoRecord, NEW call \in CallInfo,
         call.src # None => /\ Acked(m[call.src]) /\ m[call.src].op = call.op
                            /\ m[call.src].att < call.att
  PROVE  /\ Accounted(WithReservation(m, r, call), ph, cl)
         /\ \A op : PaidByClaim(WithReservation(m, r, call), ph, op) = PaidByClaim(m, ph, op)
<1> DEFINE n == WithReservation(m, r, call)
<1>0. Blank.st = "ABSENT" /\ Blank.zero = FALSE
  BY DEF Blank
<1>1. \A x \in Reservation : x # r =>
        /\ n[x].st = m[x].st /\ n[x].op = m[x].op /\ n[x].att = m[x].att
        /\ n[x].src = m[x].src /\ n[x].zero = m[x].zero /\ n[x].ack = m[x].ack
  BY WithReservationFields
<1>2. /\ n[r].st = "RESERVED" /\ n[r].op = call.op /\ n[r].att = call.att
      /\ n[r].src = call.src
  BY WithReservationFields
<1>3. n[r].zero = FALSE
  <2>1. n[r] = [Blank EXCEPT !.st = "RESERVED", !.op = call.op, !.fam = call.fam,
                             !.att = call.att, !.src = call.src]
    BY DEF WithReservation
  <2> QED
    BY <2>1 DEF Blank
<1> HIDE DEF n
<1>4. \A s \in Reservation : Acked(m[s]) => s # r /\ Acked(n[s])
  BY <1>0, <1>1 DEF Acked
<1>5. RetriesFit(n)
  <2> SUFFICES ASSUME NEW x \in Reservation, n[x].src # None
               PROVE  /\ Acked(n[n[x].src])
                      /\ n[n[x].src].op = n[x].op /\ n[n[x].src].att < n[x].att
    BY DEF RetriesFit
  <2>1. CASE x = r
    <3>1. call.src \in Reservation
      BY <1>2, <2>1 DEF CallInfo
    <3> QED
      BY <1>1, <1>2, <1>4, <2>1, <3>1
  <2>2. CASE x # r
    <3>1. m[x].src \in Reservation /\ n[x].src = m[x].src
      BY <1>1, <2>2 DEF Ledger, Entry
    <3> QED
      BY <1>1, <1>4, <2>2, <3>1 DEF Accounted, RetriesFit
  <2> QED
    BY <2>1, <2>2
<1>6. ZeroIsFree(n, ph)
  BY <1>1, <1>3 DEF Accounted, ZeroIsFree
<1>7. NoRecord.kind = "none"
  BY DEF NoRecord
<1>8. \A op : PaidByClaim(n, ph, op) = PaidByClaim(m, ph, op)
  BY <1>1, <1>7 DEF PaidByClaim
<1>9. ClaimsSuffice(n, ph, cl)
  BY <1>8 DEF Accounted, ClaimsSuffice
<1> QED
  BY <1>5, <1>6, <1>8, <1>9 DEF Accounted, n

\* A call that reaches the provider uses up at most one claim of its operation.
LEMMA CallIsPaid ==
  ASSUME NEW m \in Ledger, NEW ph \in [Reservation -> Outcome \cup {NoRecord}], NEW cl,
         Accounted(m, ph, cl), NEW r \in Reservation, m[r].st = "DISPATCHING", NEW out,
         m[r].src = None =>
            Cardinality(PaidByClaim(m, ph, m[r].op)) < Cardinality(Cited(cl, m[r].op))
  PROVE  Accounted(m, [ph EXCEPT ![r] = out], cl)
<1> DEFINE qh == [ph EXCEPT ![r] = out]
<1>1. \A x \in Reservation : x # r => qh[x] = ph[x]
  OBVIOUS
<1> HIDE DEF qh
<1>2. ZeroIsFree(m, qh)
  <2>1. m[r].zero = FALSE
    BY DEF Accounted, ZeroIsFree, Ledger, Entry
  <2> QED
    BY <1>1, <2>1 DEF Accounted, ZeroIsFree
<1>3. ClaimsSuffice(m, qh, cl)
  <2> SUFFICES ASSUME NEW op \in Operation
               PROVE  Cardinality(PaidByClaim(m, qh, op)) <= Cardinality(Cited(cl, op))
    BY DEF Accounted, ClaimsSuffice
  <2>1. /\ Cardinality(PaidByClaim(m, ph, op)) <= Cardinality(Cited(cl, op))
        /\ Cardinality(PaidByClaim(m, ph, op)) \in Nat /\ IsFiniteSet(PaidByClaim(m, ph, op))
        /\ Cardinality(PaidByClaim(m, qh, op)) \in Nat
        /\ Cardinality(Cited(cl, op)) \in Nat
    BY PaidIsFinite, FS_CardinalityType DEF Accounted, ClaimsSuffice
  <2>2. CASE m[r].op = op /\ m[r].src = None
    <3>1. PaidByClaim(m, qh, op) \subseteq PaidByClaim(m, ph, op) \cup {r}
      BY <1>1 DEF PaidByClaim
    <3>2. /\ IsFiniteSet(PaidByClaim(m, ph, op) \cup {r})
          /\ Cardinality(PaidByClaim(m, ph, op) \cup {r}) <= Cardinality(PaidByClaim(m, ph, op)) + 1
      BY <2>1, AddsOne
    <3>3. Cardinality(PaidByClaim(m, ph, op) \cup {r}) \in Nat
      BY <3>2, FS_CardinalityType
    <3>4. Cardinality(PaidByClaim(m, qh, op)) <= Cardinality(PaidByClaim(m, ph, op) \cup {r})
      BY <3>1, <3>2, FS_Subset
    <3> QED
      BY <2>1, <2>2, <3>2, <3>3, <3>4
  <2>3. CASE ~(m[r].op = op /\ m[r].src = None)
    <3>1. PaidByClaim(m, qh, op) = PaidByClaim(m, ph, op)
      BY <1>1, <2>3 DEF PaidByClaim
    <3> QED
      BY <2>1, <3>1
  <2> QED
    BY <2>2, <2>3
<1> QED
  BY <1>2, <1>3 DEF Accounted, qh
-----------------------------------------------------------------------------
\* Whatever may have been billed, while nothing is unresolved, is recorded, and
\* is not among what is proven to have cost nothing.
LEMMA BilledIsRecorded ==
  ASSUME IInv, ZeroIsFree(res, physical), ~HasUnresolved(Reconciled(res)),
         NEW r \in Reservation, physical[r].kind \in {"known", "unknown", "cancelled"}
  PROVE  records[r].kind # "none" /\ ~ProvenZero(Reconciled(res)[r])
<1> DEFINE m == Reconciled(res)
<1>1. /\ res \in Ledger /\ records \in [Reservation -> Record]
      /\ Sound(res, records, latch, physical)
  BY IInvParts, Typed
<1>2. Sound(m, records, latch, physical)
  BY <1>1, SoundReconciled
<1>3. m[r].zero = res[r].zero
  BY <1>1, ReconciledFields
<1>4. physical[r] # NoRecord /\ ~res[r].zero
  BY DEF NoRecord, ZeroIsFree
<1> HIDE DEF m
<1>5. Blocking(m[r]) \/ (m[r].st = "SETTLED_KNOWN" /\ records[r] = Known(physical[r].usage))
  BY <1>2, <1>4 DEF Sound, NothingLost
<1>6. CASE Blocking(m[r])
  <2>1. m[r].ack
    BY <1>6 DEF HasUnresolved, Acked, m
  <2>2. records[r] = Unknown
    BY <1>2, <2>1 DEF Sound, Settlements
  <2> QED
    BY <1>6, <2>2 DEF Blocking, ProvenZero, Unknown, m
<1>7. CASE m[r].st = "SETTLED_KNOWN" /\ records[r] = Known(physical[r].usage)
  BY <1>3, <1>4, <1>7 DEF ProvenZero, Known, m
<1> QED
  BY <1>5, <1>6, <1>7

\* The next attempt is later than every recorded one.
LEMMA AttemptIsLater ==
  ASSUME IInv, NEW p \in Process, CallFits(p),
         NEW op \in Operation, NEW ev \in Evidence, NEW att \in Attempt,
         Attempting(p, op, ev, att)
  PROVE  \A r \in Recorded(op) : res[r].att < att
<1>1. /\ cache[p] = Reconciled(res) /\ view[p] = records /\ res \in Ledger
      /\ cur[p] \in CallInfo
  BY IInvParts, Typed DEF Attempting, SurfaceOf, Deciding
<1>2. \A r \in Reservation : /\ cache[p][r].op = res[r].op /\ cache[p][r].att = res[r].att
                             /\ res[r].att \in Nat
  BY <1>1, ReconciledFields DEF Ledger, Entry
<1>3. CASE pc[p] = "ready" /\ att = StartAttempt(p, op, ev)
  <2> DEFINE known == {x \in Reservation : view[p][x].kind # "none" /\ cache[p][x].op = op}
             prior == {cache[p][r].att : r \in known}
  <2> SUFFICES ASSUME NEW r \in Recorded(op) PROVE res[r].att < att
    OBVIOUS
  <2>1. r \in known /\ res[r].att \in prior
    BY <1>1, <1>2 DEF Recorded
  <2>2. IsFiniteSet(known)
    BY IdsAssumption, FS_Subset
  <2>3. IsFiniteSet(prior)
    <3> DEFINE f == [x \in known |-> cache[p][x].att]
    <3>1. f \in Surjection(known, prior)
      BY DEF Surjection
    <3> HIDE DEF f, known, prior
    <3> QED
      BY <2>2, <3>1, FS_Surjection
  <2>4. prior \in SUBSET Nat /\ prior # {}
    BY <1>2, <2>1
  <2>5. att = Max(prior) + 1
    BY <1>3, <2>4 DEF StartAttempt
  <2> HIDE DEF prior
  <2>6. res[r].att <= Max(prior) /\ Max(prior) \in Nat /\ res[r].att \in Nat
    BY <2>1, <2>3, <2>4, FiniteMax
  <2> QED
    BY <2>5, <2>6
<1>4. CASE pc[p] = "retry" /\ op = cur[p].op /\ att = cur[p].att + 1
  <2>1. \A r \in Recorded(op) : res[r].att <= cur[p].att
    BY <1>4 DEF CallFits
  <2>2. cur[p].att \in Nat /\ \A r \in Recorded(op) : res[r].att \in Nat
    BY <1>1, <1>2 DEF CallInfo, Recorded
  <2> QED
    BY <1>4, <2>1, <2>2
<1> QED
  BY <1>3, <1>4 DEF Attempting

\* While leases are respected, every step keeps calls justified.
LEMMA ClaimInvStep ==
  ASSUME Displacement = FALSE
  PROVE  ClaimInv /\ [Next]_vars => ClaimInv'
<1> SUFFICES ASSUME ClaimInv, [Next]_vars PROVE ClaimInv'
  OBVIOUS
<1>inv. /\ IInv /\ IInv' /\ TypeInv
        /\ Sound(res, records, latch, physical) /\ \A p \in Process : SurfaceOf(p)
  BY IInvStep, IInvParts DEF ClaimInv
<1>typ. /\ res \in Ledger /\ records \in [Reservation -> Record]
        /\ physical \in [Reservation -> Outcome \cup {NoRecord}]
        /\ pc \in [Process -> PcLabel] /\ cur \in [Process -> CallInfo]
        /\ \A p \in Process : cache[p] \in Ledger /\ cur[p] \in CallInfo
        /\ \A x \in Reservation : res[x] \in Entry
  BY <1>inv, Typed DEF Ledger
<1>just. Accounted(res, physical, claims) /\ \A p \in Process : CallFits(p)
  BY DEF ClaimInv
<1>one. ASSUME NEW p \in Process, \A q \in Process : q # p => pc'[q] = "closed",
               CallFits(p)', Accounted(res', physical', claims')
        PROVE  ClaimInv'
  <2>1. ASSUME NEW q \in Process, q # p PROVE CallFits(q)'
    BY <1>one, <2>1 DEF CallFits, InFlight
  <2> QED
    BY <1>inv, <1>one, <2>1 DEF ClaimInv
<1>quiet. ASSUME NEW p \in Process, \A q \in Process : q # p => pc'[q] = "closed",
                 pc'[p] \in {"closed", "open", "ready", "stopped"},
                 Accounted(res', physical', claims')
          PROVE  ClaimInv'
  <2>1. CallFits(p)'
    BY <1>quiet DEF CallFits, InFlight
  <2> QED
    BY <1>quiet, <1>one, <2>1
<1>goto. ASSUME NEW p \in Process, NEW l, Goto(p, l), pc[p] # "closed"
         PROVE  pc'[p] = l /\ \A q \in Process : q # p => pc'[q] = "closed"
  BY <1>goto, <1>inv, <1>typ, Alone DEF Goto
<1>stop. ASSUME NEW p \in Process, pc[p] # "closed", Stop(p),
                Accounted(res', physical', claims')
         PROVE  ClaimInv'
  BY <1>stop, <1>goto, <1>quiet DEF Stop
<1>1. ASSUME NEW p \in Process, Open(p) PROVE ClaimInv'
  <2>1. \A q \in Process : pc[q] = "closed"
    BY <1>1, <1>inv, Alone DEF Open
  <2>2. pc'[p] = "open" /\ \A q \in Process : q # p => pc'[q] = "closed"
    BY <1>1, <1>typ, <2>1 DEF Open, Goto
  <2> QED
    BY <1>1, <1>just, <1>quiet, <2>2 DEF Open, durable
<1>2. ASSUME NEW p \in Process, AuthorizeStep(p) PROVE ClaimInv'
  <2>1. PICK op \in Operation, ev \in Evidence, fam \in Family, att \in Attempt :
          \/ AuthorizeFresh(p, op, ev, fam, att)
          \/ AuthorizeFailover(p, op, ev, fam, att)
          \/ \E source \in Reservation : AuthorizeHumanRetry(p, op, ev, fam, att, source)
    BY <1>2 DEF AuthorizeStep
  <2>2. Authorized(p, op, ev, fam, att)
    BY <2>1 DEF AuthorizeFresh, AuthorizeFailover, AuthorizeHumanRetry
  <2>3. /\ pc[p] \in {"ready", "retry"} /\ Attempting(p, op, ev, att)
        /\ UNCHANGED <<res, claims, records, physical>>
        /\ ~HasUnresolved(cache[p])
    BY <2>2 DEF Authorized, Attempting, Permitted, durable
  <2>4. cache[p] = Reconciled(res) /\ view[p] = records /\ cclaims[p] = claims
    BY <1>inv, <2>3 DEF SurfaceOf, Deciding
  <2>5. \A r \in Recorded(op) : res[r].att < att
    BY <1>inv, <1>just, <2>3, AttemptIsLater
  <2>6. ASSUME NEW source \in Reservation \cup {None}, NEW l \in {"consume", "reserve"},
               cur' = [cur EXCEPT ![p] = Calling(op, ev, fam, att, source)], Goto(p, l),
               l = "consume" => source = None /\ <<op, ev>> \notin claims,
               source # None => res[source].op = op,
               l = "reserve" /\ source = None =>
                  Cardinality(PaidByClaim(res, physical, op)) < Cardinality(Cited(claims, op))
        PROVE  ClaimInv'
    <3>1. pc'[p] = l /\ \A q \in Process : q # p => pc'[q] = "closed"
      BY <1>goto, <2>3, <2>6
    <3>2. cur'[p] = Calling(op, ev, fam, att, source)
      BY <1>typ, <2>6
    <3>3. cur'[p].op = op /\ cur'[p].att = att /\ cur'[p].src = source /\ cur'[p].ev = ev
      BY <3>2 DEF Calling
    <3>4. CallFits(p)'
      BY <2>3, <2>5, <2>6, <3>1, <3>3 DEF CallFits, Recorded, InFlight
    <3> QED
      BY <1>just, <1>one, <2>3, <3>1, <3>4
  <2>7. CASE AuthorizeFresh(p, op, ev, fam, att)
    BY <2>4, <2>6, <2>7 DEF AuthorizeFresh, FreshEvidence
  <2>8. CASE AuthorizeFailover(p, op, ev, fam, att)
    <3>1. /\ <<op, ev>> \in claims
          /\ \A r \in Earlier(cache[p], op, att) : ProvenZero(cache[p][r])
      BY <2>4, <2>8 DEF AuthorizeFailover, ProvenFailover
    <3>2. PaidByClaim(res, physical, op) = {}
      <4> SUFFICES ASSUME NEW r \in PaidByClaim(res, physical, op) PROVE FALSE
        OBVIOUS
      <4>1. /\ r \in Reservation /\ res[r].op = op
            /\ physical[r].kind \in {"known", "unknown", "cancelled"}
        BY DEF PaidByClaim
      <4>2. records[r].kind # "none" /\ ~ProvenZero(cache[p][r])
        BY <1>inv, <1>just, <2>3, <2>4, <4>1, BilledIsRecorded DEF Accounted
      <4>3. res[r].att < att
        BY <2>5, <4>1, <4>2 DEF Recorded
      <4>4. r \in Earlier(cache[p], op, att)
        BY <1>typ, <2>4, <4>1, <4>3, ReconciledFields DEF Earlier
      <4> QED
        BY <3>1, <4>2, <4>4
    <3>3. IsFiniteSet(Cited(claims, op)) /\ Cited(claims, op) # {}
      BY <1>just, <3>1 DEF Accounted, ClaimsSuffice, Cited
    <3>4. Cardinality(Cited(claims, op)) \in Nat /\ Cardinality(Cited(claims, op)) # 0
      BY <3>3, FS_CardinalityType, FS_EmptySet
    <3>5. Cardinality(PaidByClaim(res, physical, op)) = 0
      BY <3>2, FS_EmptySet
    <3>6. Cardinality(PaidByClaim(res, physical, op)) < Cardinality(Cited(claims, op))
      BY <3>4, <3>5
    <3> QED
      BY <2>6, <2>8, <3>6 DEF AuthorizeFailover
  <2>9. ASSUME NEW source \in Reservation, AuthorizeHumanRetry(p, op, ev, fam, att, source)
        PROVE  ClaimInv'
    <3>1. cache[p][source].op = op
      BY <2>9 DEF AuthorizeHumanRetry, HumanRetry, Grants
    <3>2. res[source].op = op
      BY <1>typ, <2>4, <3>1, ReconciledFields
    <3> QED
      BY <2>6, <2>9, <3>2, NoneAssumption DEF AuthorizeHumanRetry
  <2> QED
    BY <2>1, <2>7, <2>8, <2>9
<1>3. ASSUME NEW p \in Process, DenyStep(p) PROVE ClaimInv'
  BY <1>3, <1>just, <1>stop DEF DenyStep, Deny, Attempting, durable
\* What resuming does to the ledger on disk or in memory.
<1>rec. /\ Accounted(Reconciled(res), physical, claims)
        /\ \A op : PaidByClaim(Reconciled(res), physical, op) = PaidByClaim(res, physical, op)
  <2> DEFINE m == Reconciled(res)
  <2>1. \A x \in Reservation :
               /\ m[x].op = res[x].op /\ m[x].src = res[x].src /\ m[x].att = res[x].att
               /\ Acked(res[x]) => Acked(m[x])
               /\ m[x].zero => m[x].st = "SETTLED_KNOWN" /\ physical[x].kind = "zero"
    BY <1>typ, <1>just, ReconciledFields DEF Acked, Accounted, ZeroIsFree
  <2> HIDE DEF m
  <2>2. /\ Accounted(m, physical, claims)
        /\ \A op : PaidByClaim(m, physical, op) = PaidByClaim(res, physical, op)
    <3>1. Accounted(m, physical, claims)
      BY <1>typ, <1>just, <2>1, StillAccounted
    <3>2. ASSUME NEW op PROVE PaidByClaim(m, physical, op) = PaidByClaim(res, physical, op)
      BY <2>1 DEF PaidByClaim
    <3> QED
      BY <3>1, <3>2
  <2> QED
    BY <2>2 DEF m
<1>4. ASSUME NEW p \in Process, NEW w \in WriteResult, LoadAndReconcile(p, w) PROVE ClaimInv'
  <2>1. pc'[p] = "ready" /\ \A q \in Process : q # p => pc'[q] = "closed"
    BY <1>4, <1>goto DEF LoadAndReconcile
  <2>2. Accounted(res', physical', claims')
    BY <1>4, <1>just, <1>rec DEF LoadAndReconcile
  <2> QED
    BY <1>quiet, <2>1, <2>2
<1>5. ASSUME NEW p \in Process, NEW w \in WriteResult, Consume(p, w) PROVE ClaimInv'
  <2> DEFINE op == cur[p].op
             ev == cur[p].ev
             claimed == claims \cup {<<op, ev>>}
  <2>1. pc[p] = "consume" /\ cclaims[p] = claims
    BY <1>5, <1>inv DEF Consume, SurfaceOf, Deciding
  <2>2. op \in Operation /\ ev \in Evidence
    BY <1>inv, <2>1 DEF TypeInv, CallIsNamed
  <2>3. /\ cur[p].src = None /\ <<op, ev>> \notin claims
        /\ \A r \in Recorded(op) : res[r].att < cur[p].att
    BY <1>just, <2>1 DEF CallFits
  <2>4. /\ Accounted(res, physical, claimed)
        /\ Cardinality(PaidByClaim(res, physical, op)) < Cardinality(Cited(claimed, op))
    BY <1>just, <2>2, <2>3, ClaimAdds
  <2>5. claims' \in {claims, claimed} /\ UNCHANGED <<res, records, physical>>
    BY <1>5, <2>1 DEF Consume
  <2>6. Accounted(res', physical', claims')
    BY <1>just, <2>4, <2>5
  <2>7. CASE w = "ok"
    <3>1. /\ pc'[p] = "reserve" /\ \A q \in Process : q # p => pc'[q] = "closed"
          /\ cur' = cur /\ claims' = claimed
      BY <1>5, <1>goto, <2>1, <2>7 DEF Consume, Published
    <3> HIDE DEF claimed
    <3>2. CallFits(p)'
      BY <2>3, <2>4, <2>5, <3>1 DEF CallFits, InFlight, Recorded
    <3> QED
      BY <1>one, <2>6, <3>1, <3>2
  <2>8. CASE w # "ok"
    BY <1>5, <1>stop, <2>1, <2>6, <2>8 DEF Consume
  <2> QED
    BY <2>7, <2>8
<1>6. ASSUME NEW p \in Process, NEW w \in WriteResult, NEW r \in Reservation,
             Reserve(p, r, w)
      PROVE ClaimInv'
  <2> DEFINE m == Reconciled(res)
             next == WithReservation(m, r, cur[p])
  <2>1. pc[p] = "reserve" /\ cache[p] = m /\ m[r] = Blank /\ res[r] = Blank
    BY <1>6, <1>inv DEF Reserve, Unused, SurfaceOf, Deciding
  <2>2. m \in Ledger /\ cur[p] \in CallInfo
    BY <1>typ, ReconciledType DEF TypeOK
  <2>3. Blank.st = "ABSENT" /\ physical[r] = NoRecord /\ records[r].kind = "none"
    <3>1. Blank.st = "ABSENT" /\ Blank.st # "SETTLED_KNOWN" /\ ~Blocking(Blank)
      BY DEF Blank, Blocking
    <3>2. physical[r] = NoRecord
      BY <1>inv, <2>1, <3>1 DEF Sound, NothingLost
    <3>3. records[r].kind = "none"
      BY <1>inv, <1>typ, <2>1, <3>1, RecordKinds DEF Sound, RecordsFit, Settlements
    <3> QED
      BY <3>1, <3>2, <3>3
  <2>4. \A x \in Recorded(cur[p].op) : res[x].att < cur[p].att
    BY <1>just, <2>1 DEF CallFits
  <2>5. ASSUME cur[p].src # None
        PROVE  /\ Acked(m[cur[p].src]) /\ m[cur[p].src].op = cur[p].op
               /\ m[cur[p].src].att < cur[p].att
    <3> DEFINE s == cur[p].src
    <3>1. s \in Reservation
      BY <2>2, <2>5 DEF CallInfo
    <3>2. Acked(m[s]) /\ res[s].op = cur[p].op
      BY <1>inv, <1>just, <2>1, <2>5 DEF SurfaceOf, CallFits
    <3>3. m[s].op = res[s].op /\ m[s].att = res[s].att /\ m[s].ack = res[s].ack
      BY <1>typ, <3>1, ReconciledFields
    <3>4. records[s] = Unknown
      BY <1>inv, <3>1, <3>2, <3>3 DEF Sound, Settlements, Acked
    <3>5. s \in Recorded(cur[p].op)
      BY <3>1, <3>2, <3>4 DEF Recorded, Unknown
    <3> QED
      BY <2>4, <3>2, <3>3, <3>5
  <2>6. /\ Accounted(next, physical, claims)
        /\ \A op : PaidByClaim(next, physical, op) = PaidByClaim(m, physical, op)
    <3> HIDE DEF m
    <3> QED
      BY <1>rec, <2>1, <2>2, <2>3, <2>5, ReservationFits DEF m
  <2>7. Accounted(res', physical', claims')
    BY <1>6, <1>just, <2>1, <2>6 DEF Reserve
  <2>8. CASE w = "ok"
    <3>1. pc'[p] = "permit" /\ \A q \in Process : q # p => pc'[q] = "closed"
      BY <1>6, <1>goto, <2>1, <2>8 DEF Reserve
    <3>2. res' = next /\ UNCHANGED <<claims, records, physical>>
      BY <1>6, <2>1, <2>8 DEF Reserve, Published
    <3>3. /\ cur'[p].rid = r /\ cur'[p].op = cur[p].op /\ cur'[p].att = cur[p].att
          /\ cur'[p].src = cur[p].src
      BY <1>6, <1>typ, <2>8 DEF Reserve, CallInfo
    <3>4. next[r].att = cur[p].att /\ next[r].src = cur[p].src
      BY <2>1, <2>2, WithReservationFields
    <3>5. \A x \in Reservation : x # r => next[x].op = res[x].op /\ next[x].att = res[x].att
      BY <1>typ, <2>1, <2>2, ReconciledFields, WithReservationFields
    <3>6. \A op : PaidByClaim(next, physical, op) = PaidByClaim(res, physical, op)
      BY <1>rec, <2>6
    <3>7. cur[p].src = None =>
            Cardinality(PaidByClaim(res, physical, cur[p].op)) < Cardinality(Cited(claims, cur[p].op))
      BY <1>just, <2>1 DEF CallFits
    <3> HIDE DEF next, m
    <3>8. \A x \in Reservation : next[x].op = cur[p].op /\ records[x].kind # "none" =>
            next[x].att <= cur[p].att
      <4> SUFFICES ASSUME NEW x \in Reservation, next[x].op = cur[p].op, records[x].kind # "none"
                   PROVE  next[x].att <= cur[p].att
        OBVIOUS
      <4>1. x # r
        BY <2>3
      <4>2. res[x].att < cur[p].att /\ next[x].att = res[x].att
        BY <2>4, <3>5, <4>1 DEF Recorded
      <4>3. res[x].att \in Nat /\ cur[p].att \in Nat
        BY <1>typ, <2>2 DEF Entry, CallInfo
      <4> QED
        BY <4>2, <4>3
    <3>9. CallFits(p)'
      BY <3>1, <3>2, <3>3, <3>4, <3>6, <3>7, <3>8 DEF CallFits, InFlight, Recorded
    <3> QED
      BY <1>one, <2>7, <3>1, <3>9
  <2>9. CASE w # "ok"
    BY <1>6, <1>stop, <2>1, <2>7, <2>9 DEF Reserve
  <2> QED
    BY <2>8, <2>9
<1>7. ASSUME NEW p \in Process, NEW w \in WriteResult, MarkDispatching(p, w) PROVE ClaimInv'
  <2> DEFINE r == cur[p].rid
             next == WithDispatch(res, r)
  <2>1. /\ pc[p] = "permit" /\ cache[p] = res /\ r \in Reservation /\ res[r].st = "RESERVED"
    BY <1>7, <1>inv DEF MarkDispatching, SurfaceOf, InFlight, StatusAt
  <2>2. \A x \in Reservation :
               /\ next[x].op = res[x].op /\ next[x].src = res[x].src /\ next[x].att = res[x].att
               /\ Acked(res[x]) => Acked(next[x])
               /\ next[x].zero => next[x].st = "SETTLED_KNOWN" /\ physical[x].kind = "zero"
    BY <1>typ, <1>just, <2>1, WithDispatchFields DEF Acked, Accounted, ZeroIsFree
  <2> HIDE DEF next
  <2>3. /\ Accounted(next, physical, claims)
        /\ \A op : PaidByClaim(next, physical, op) = PaidByClaim(res, physical, op)
    <3>1. Accounted(next, physical, claims)
      BY <1>typ, <1>just, <2>2, StillAccounted
    <3>2. ASSUME NEW op PROVE PaidByClaim(next, physical, op) = PaidByClaim(res, physical, op)
      BY <2>2 DEF PaidByClaim
    <3> QED
      BY <3>1, <3>2
  <2>4. Accounted(res', physical', claims')
    BY <1>7, <1>just, <2>1, <2>3 DEF MarkDispatching, next
  <2>5. CASE (res[r].src = None \/ GrantHeldBy(res, r)) /\ w = "ok"
    <3>1. pc'[p] = "call" /\ \A q \in Process : q # p => pc'[q] = "closed"
      BY <1>7, <1>goto, <2>1, <2>5 DEF MarkDispatching
    <3>2. res' = next /\ UNCHANGED <<claims, records, physical, cur>>
      BY <1>7, <2>1, <2>5 DEF MarkDispatching, Published, next
    <3>3. \A x \in Reservation : /\ res'[x].op = res[x].op /\ res'[x].att = res[x].att
                                 /\ res'[x].src = res[x].src
      BY <2>2, <3>2
    <3>4. PaidByClaim(res', physical', cur[p].op) = PaidByClaim(res, physical, cur[p].op)
      BY <2>3, <3>2
    <3>5. Recorded(cur[p].op)' = Recorded(cur[p].op)
      BY <3>2, <3>3 DEF Recorded
    <3>6. /\ \A x \in Recorded(cur[p].op) : res[x].att <= cur[p].att
          /\ res[r].att = cur[p].att /\ res[r].src = cur[p].src
          /\ cur[p].src = None =>
               Cardinality(PaidByClaim(res, physical, cur[p].op)) < Cardinality(Cited(claims, cur[p].op))
      BY <1>just, <2>1 DEF CallFits, InFlight
    <3>7. \A x \in Recorded(cur[p].op)' : res'[x].att <= cur[p].att
      BY <3>3, <3>5, <3>6 DEF Recorded
    <3>8. res'[r].att = cur[p].att /\ res'[r].src = cur[p].src
      BY <2>1, <3>3, <3>6
    <3>9. CallFits(p)'
      BY <3>1, <3>2, <3>4, <3>6, <3>7, <3>8 DEF CallFits, InFlight
    <3> QED
      BY <1>one, <2>4, <3>1, <3>9
  <2>6. CASE ~((res[r].src = None \/ GrantHeldBy(res, r)) /\ w = "ok")
    BY <1>7, <1>stop, <2>1, <2>4, <2>6 DEF MarkDispatching
  <2> QED
    BY <2>5, <2>6
\* A call that is out uses the claim or the grant it was authorized on.
<1>out. ASSUME NEW p \in Process, pc[p] = "call", NEW out
        PROVE  Accounted(res, [physical EXCEPT ![cur[p].rid] = out], claims)
  <2>1. /\ cur[p].rid \in Reservation /\ res[cur[p].rid].st = "DISPATCHING"
        /\ res[cur[p].rid].op = cur[p].op
    BY <1>inv, <1>out DEF SurfaceOf, InFlight, StatusAt
  <2>2. /\ res[cur[p].rid].src = cur[p].src
        /\ cur[p].src = None =>
             Cardinality(PaidByClaim(res, physical, cur[p].op)) < Cardinality(Cited(claims, cur[p].op))
    BY <1>just, <1>out DEF CallFits, InFlight
  <2> QED
    BY <1>typ, <1>just, <2>1, <2>2, CallIsPaid
<1>8. ASSUME NEW p \in Process, NEW out \in Outcome, CallProvider(p, out) PROVE ClaimInv'
  <2>1. /\ pc[p] = "call" /\ UNCHANGED <<res, claims, records, cur>>
        /\ physical' = [physical EXCEPT ![cur[p].rid] = out]
    BY <1>8 DEF CallProvider, durable, local
  <2>2. Accounted(res', physical', claims')
    BY <1>out, <2>1
  <2>3. pc'[p] = "settle" /\ \A q \in Process : q # p => pc'[q] = "closed"
    BY <1>8, <1>goto, <2>1 DEF CallProvider
  <2>4. CallFits(p)'
    BY <1>just, <2>1, <2>3 DEF CallFits, InFlight, Recorded
  <2> QED
    BY <1>one, <2>2, <2>3, <2>4
<1>9. ASSUME NEW p \in Process, NEW w \in WriteResult, NEW next \in {"ready", "retry"},
             SettleKnown(p, w, next)
      PROVE ClaimInv'
  <2> DEFINE r == cur[p].rid
             entry == [res[r] EXCEPT !.st = "SETTLED_KNOWN", !.zero = (physical[r].kind = "zero")]
             settled == [res EXCEPT ![r] = entry]
             booked == [records EXCEPT ![r] = Known(physical[r].usage)]
  <2>1. pc[p] = "settle" /\ cache[p] = res /\ r \in Reservation /\ res[r].st = "DISPATCHING"
    BY <1>9, <1>inv DEF SettleKnown, SurfaceOf, InFlight, StatusAt
  <2>2. /\ \/ res' = settled /\ records' = booked
           \/ res' = res /\ records' = records
        /\ UNCHANGED <<claims, physical>>
    BY <1>9, <2>1 DEF SettleKnown
  <2>3. /\ entry.st = "SETTLED_KNOWN" /\ entry.op = res[r].op /\ entry.src = res[r].src
        /\ entry.att = res[r].att
        /\ entry.zero => physical[r].kind = "zero"
    BY <1>typ, <2>1 DEF Entry
  <2>4. settled[r] = entry /\ \A x \in Reservation : x # r => settled[x] = res[x]
    BY <1>typ, <2>1 DEF Ledger
  <2>5. \A x \in Reservation : x # r => booked[x] = records[x]
    BY <1>typ
  <2> HIDE DEF entry, settled, booked
  <2>6. ASSUME NEW x \in Reservation
        PROVE  /\ settled[x].op = res[x].op /\ settled[x].src = res[x].src
               /\ settled[x].att = res[x].att
               /\ Acked(res[x]) => Acked(settled[x])
               /\ settled[x].zero => settled[x].st = "SETTLED_KNOWN" /\ physical[x].kind = "zero"
    <3>1. CASE x = r
      BY <2>1, <2>3, <2>4, <3>1 DEF Acked
    <3>2. CASE x # r
      BY <1>just, <2>4, <3>2 DEF Accounted, ZeroIsFree
    <3> QED
      BY <3>1, <3>2
  <2>7. Accounted(settled, physical, claims)
    BY <1>typ, <1>just, <2>6, StillAccounted
  <2>8. Accounted(res', physical', claims')
    BY <1>just, <2>2, <2>7
  <2>9. CASE Goto(p, next) /\ cur' = cur
    <3>1. pc'[p] = next /\ \A q \in Process : q # p => pc'[q] = "closed"
      BY <1>goto, <2>1, <2>9
    <3>2. res[r].att = cur[p].att /\ cur[p].att \in Nat
          /\ \A x \in Recorded(cur[p].op) : res[x].att <= cur[p].att
      BY <1>just, <1>typ, <2>1 DEF CallFits, InFlight, CallInfo
    <3>3. \A x \in Reservation : res'[x].op = cur[p].op /\ records'[x].kind # "none" =>
            res'[x].att <= cur[p].att
      <4> SUFFICES ASSUME NEW x \in Reservation, res'[x].op = cur[p].op, records'[x].kind # "none"
                   PROVE  res'[x].att <= cur[p].att
        OBVIOUS
      <4>1. res'[x].op = res[x].op /\ res'[x].att = res[x].att
        BY <2>2, <2>6
      <4>2. CASE x = r
        BY <3>2, <4>1, <4>2
      <4>3. CASE x # r
        BY <2>2, <2>5, <3>2, <4>1, <4>3 DEF Recorded
      <4> QED
        BY <4>2, <4>3
    <3>4. CallFits(p)'
      BY <2>9, <3>1, <3>3 DEF CallFits, InFlight, Recorded
    <3> QED
      BY <1>one, <2>8, <3>1, <3>4
  <2>10. CASE Stop(p)
    BY <1>stop, <2>1, <2>8, <2>10
  <2> QED
    BY <1>9, <2>9, <2>10 DEF SettleKnown
<1>10. ASSUME NEW p \in Process, NEW w \in WriteResult, SettleUnknown(p, w) PROVE ClaimInv'
  <2> DEFINE r == cur[p].rid
             next == [res EXCEPT ![r].st = "UNRESOLVED"]
  <2>1. pc[p] = "settle" /\ cache[p] = res /\ r \in Reservation /\ res[r].st = "DISPATCHING"
    BY <1>10, <1>inv DEF SettleUnknown, SurfaceOf, InFlight, StatusAt
  <2>2. res' \in {res, next} /\ UNCHANGED <<claims, physical, records>>
    BY <1>10, <2>1 DEF SettleUnknown
  <2>3. /\ next[r].st = "UNRESOLVED" /\ next[r].op = res[r].op /\ next[r].src = res[r].src
        /\ next[r].att = res[r].att /\ next[r].zero = res[r].zero
        /\ \A x \in Reservation : x # r => next[x] = res[x]
    BY <1>typ, <2>1 DEF Ledger, Entry
  <2> HIDE DEF next
  <2>4. ASSUME NEW x \in Reservation
        PROVE  /\ next[x].op = res[x].op /\ next[x].src = res[x].src /\ next[x].att = res[x].att
               /\ Acked(res[x]) => Acked(next[x])
               /\ next[x].zero => next[x].st = "SETTLED_KNOWN" /\ physical[x].kind = "zero"
    BY <1>just, <2>1, <2>3 DEF Acked, Accounted, ZeroIsFree
  <2>5. Accounted(next, physical, claims)
    BY <1>typ, <1>just, <2>4, StillAccounted
  <2>6. Accounted(res', physical', claims')
    BY <1>just, <2>2, <2>5
  <2>7. CASE Goto(p, "cancelled") /\ cur' = cur
    <3>1. pc'[p] = "cancelled" /\ \A q \in Process : q # p => pc'[q] = "closed"
      BY <1>goto, <2>1, <2>7
    <3>2. \A x \in Reservation : /\ res'[x].op = res[x].op /\ res'[x].att = res[x].att
                                 /\ res'[x].src = res[x].src
      BY <2>2, <2>4
    <3>3. CallFits(p)'
      BY <1>just, <2>1, <2>2, <2>7, <3>1, <3>2 DEF CallFits, InFlight, Recorded
    <3> QED
      BY <1>one, <2>6, <3>1, <3>3
  <2>8. CASE Stop(p)
    BY <1>stop, <2>1, <2>6, <2>8
  <2> QED
    BY <1>10, <2>7, <2>8 DEF SettleUnknown
<1>11. ASSUME NEW p \in Process, NEW w \in WriteResult, RecordCancelled(p, w) PROVE ClaimInv'
  BY <1>11, <1>just, <1>stop DEF RecordCancelled
<1>12. ASSUME NEW p \in Process, Close(p) PROVE ClaimInv'
  <2>1. pc'[p] = "closed" /\ \A q \in Process : q # p => pc'[q] = "closed"
    BY <1>12, <1>goto DEF Close
  <2> QED
    BY <1>12, <1>just, <1>quiet, <2>1 DEF Close, durable
<1>13. ASSUME NEW p \in Process, Crash(p) PROVE ClaimInv'
  <2>1. pc'[p] = "closed" /\ \A q \in Process : q # p => pc'[q] = "closed"
    BY <1>13, <1>goto DEF Crash
  <2>2. Accounted(res', physical', claims')
    BY <1>13, <1>just, <1>out DEF Crash, durable
  <2> QED
    BY <1>quiet, <2>1, <2>2
\* An operator's command finds nobody reviewing, and touches neither operations
\* nor attempts.
<1>idle. ASSUME LeaseFree, pc' = pc, UNCHANGED <<claims, physical>>,
                \A x \in Reservation :
                  /\ res'[x].op = res[x].op /\ res'[x].src = res[x].src /\ res'[x].att = res[x].att
                  /\ res'[x].st = res[x].st /\ res'[x].zero = res[x].zero
                  /\ res[x].ack => res'[x].ack
         PROVE  ClaimInv'
  <2>1. \A q \in Process : CallFits(q)'
    BY <1>idle, <1>inv, Alone DEF CallFits, InFlight
  <2>2. \A x \in Reservation :
          /\ Acked(res[x]) => Acked(res'[x])
          /\ res'[x].zero => res'[x].st = "SETTLED_KNOWN" /\ physical[x].kind = "zero"
    BY <1>idle, <1>just DEF Acked, Accounted, ZeroIsFree
  <2>3. Accounted(res', physical, claims)
    BY <1>typ, <1>just, <1>idle, <2>2, StillAccounted
  <2> QED
    BY <1>idle, <1>inv, <2>1, <2>3 DEF ClaimInv
<1>14. ASSUME NEW r \in Reservation, NEW excl \in SUBSET Family, Acknowledge(r, excl)
       PROVE ClaimInv'
  <2>1. PICK ev \in Evidence :
          res' = [res EXCEPT ![r].ack = TRUE, ![r].ev = ev, ![r].excl = excl]
    BY <1>14 DEF Acknowledge
  <2>2. \A x \in Reservation :
          /\ res'[x].op = res[x].op /\ res'[x].src = res[x].src /\ res'[x].att = res[x].att
          /\ res'[x].st = res[x].st /\ res'[x].zero = res[x].zero
          /\ res[x].ack => res'[x].ack
    BY <1>typ, <2>1 DEF Ledger, Entry
  <2> QED
    BY <1>14, <1>idle, <2>2 DEF Acknowledge
<1>15. ASSUME NEW r \in Reservation, NEW excl \in SUBSET Family, Amend(r, excl) PROVE ClaimInv'
  <2>1. res' = [res EXCEPT ![r].excl = res[r].excl \cup excl]
    BY <1>15, <1>typ DEF Amend, Ledger, Entry
  <2>2. \A x \in Reservation :
          /\ res'[x].op = res[x].op /\ res'[x].src = res[x].src /\ res'[x].att = res[x].att
          /\ res'[x].st = res[x].st /\ res'[x].zero = res[x].zero
          /\ res[x].ack => res'[x].ack
    BY <1>typ, <2>1 DEF Ledger, Entry
  <2> QED
    BY <1>15, <1>idle, <2>2 DEF Amend
<1>16. CASE UNCHANGED vars
  <2>1. Accounted(res', physical', claims') /\ \A q \in Process : CallFits(q)'
    BY <1>just, <1>16 DEF vars, durable, local, CallFits, InFlight, Recorded
  <2> QED
    BY <1>inv, <2>1 DEF ClaimInv
<1> QED
  BY <1>1, <1>2, <1>3, <1>4, <1>5, <1>6, <1>7, <1>8, <1>9, <1>10, <1>11, <1>12, <1>13,
     <1>14, <1>15, <1>16
  DEF Next, Review, WriteStep, CallStep, Human
-----------------------------------------------------------------------------
\* The empty loop has nothing to justify.
LEMMA ClaimInvInit == Init => ClaimInv
<1> SUFFICES ASSUME Init PROVE ClaimInv
  OBVIOUS
<1>1. \A r \in Reservation : /\ res[r].src = None /\ res[r].zero = FALSE
                             /\ physical[r].kind = "none"
  BY DEF Init, NoLedger, NoRecords, Blank, NoRecord
<1>2. RetriesFit(res) /\ ZeroIsFree(res, physical)
  BY <1>1 DEF RetriesFit, ZeroIsFree
<1>3. \A op : Cited(claims, op) = {} /\ PaidByClaim(res, physical, op) = {}
  BY <1>1 DEF Init, Cited, PaidByClaim
<1>4. ClaimsSuffice(res, physical, claims)
  BY <1>3, FS_EmptySet DEF ClaimsSuffice
<1>5. \A p \in Process : CallFits(p)
  BY DEF Init, CallFits, InFlight
<1> QED
  BY <1>2, <1>4, <1>5, IInvInit DEF ClaimInv, Accounted

\* A human's retry repeats the operation it was granted for, on a later attempt.
THEOREM RetriesStayInOperation ==
  ASSUME Displacement = FALSE
  PROVE  Spec => []RetryStaysInOperation
<1>1. ClaimInv /\ [Next]_vars => ClaimInv'
  BY ClaimInvStep
<1>2. ClaimInv => RetryStaysInOperation
  BY DEF ClaimInv, Accounted, RetriesFit, RetryStaysInOperation
<1> QED
  BY <1>1, <1>2, ClaimInvInit, PTL DEF Spec

\* Calls that may have been billed never outnumber the claims of new information
\* and the grants a human gave: each is paid by a claim or by the one grant that
\* names it.
THEOREM ClaimsPayOnce ==
  ASSUME Displacement = FALSE
  PROVE  Spec => []ClaimSpentOnce
<1>1. ClaimInv /\ [Next]_vars => ClaimInv'
  BY ClaimInvStep
<1>2. ASSUME ClaimInv PROVE ClaimSpentOnce
  <2> SUFFICES ASSUME NEW op \in Operation
               PROVE  LET billed == {r \in Reservation :
                                       /\ res[r].op = op
                                       /\ physical[r].kind \in {"known", "unknown", "cancelled"}}
                          cited  == {ev \in Evidence : <<op, ev>> \in claims}
                          grants == {r \in Reservation : res[r].op = op /\ res[r].gUsed}
                      IN  Cardinality(billed) <= Cardinality(cited) + Cardinality(grants)
    BY DEF ClaimSpentOnce
  <2> DEFINE billed == {r \in Reservation :
                          /\ res[r].op = op
                          /\ physical[r].kind \in {"known", "unknown", "cancelled"}}
             grants == {r \in Reservation : res[r].op = op /\ res[r].gUsed}
             claimed == PaidByClaim(res, physical, op)
             granted == {r \in billed : res[r].src # None}
             f == [r \in granted |-> res[r].src]
  <2>1. /\ res \in Ledger /\ Sound(res, records, latch, physical)
        /\ Accounted(res, physical, claims)
    BY <1>2, IInvParts, Typed DEF ClaimInv
  <2>2. \A r \in granted : /\ res[r].src \in grants /\ res[res[r].src].gFor = r
    <3> SUFFICES ASSUME NEW r \in granted
                 PROVE  res[r].src \in grants /\ res[res[r].src].gFor = r
      OBVIOUS
    <3>1. r \in Reservation /\ res[r].op = op /\ res[r].src \in Reservation
      BY <2>1 DEF Ledger, Entry
    <3>2. physical[r] # NoRecord
      BY DEF NoRecord
    <3>3. res[r].st \notin {"ABSENT", "RESERVED", "CANCELLED_PRE_DISPATCH"}
      BY <2>1, <3>1, <3>2 DEF Sound, NothingLost, Blocking
    <3>4. res[res[r].src].gUsed /\ res[res[r].src].gFor = r
      BY <2>1, <3>1, <3>3 DEF Sound, GrantsSpent
    <3>5. res[res[r].src].op = op
      BY <2>1, <3>1, NoneAssumption DEF Accounted, RetriesFit
    <3> QED
      BY <3>1, <3>4, <3>5
  <2>3. IsFiniteSet(grants) /\ IsFiniteSet(claimed) /\ IsFiniteSet(granted)
    BY IdsAssumption, FS_Subset, PaidIsFinite
  <2>4. Cardinality(granted) <= Cardinality(grants)
    <3>1. f \in Injection(granted, grants)
      <4> HIDE DEF granted, grants
      <4> QED
        BY <2>2 DEF Injection, IsInjective
    <3> HIDE DEF f, granted, grants
    <3> QED
      BY <2>3, <3>1, FS_Injection
  <2>5. billed = claimed \cup granted /\ claimed \cap granted = {}
    BY DEF PaidByClaim
  <2>6. Cardinality(billed) = Cardinality(claimed) + Cardinality(granted)
    <3>1. Cardinality(claimed \cup granted)
            = Cardinality(claimed) + Cardinality(granted) - Cardinality(claimed \cap granted)
      <4> HIDE DEF claimed, granted
      <4> QED
        BY <2>3, FS_Union
    <3>2. Cardinality(claimed \cap granted) = 0
      BY <2>5, FS_EmptySet
    <3>3. Cardinality(claimed) \in Nat /\ Cardinality(granted) \in Nat
      BY <2>3, FS_CardinalityType
    <3> HIDE DEF claimed, granted, billed
    <3> QED
      BY <2>5, <3>1, <3>2, <3>3
  <2>7. /\ Cardinality(claimed) <= Cardinality(Cited(claims, op))
        /\ Cardinality(Cited(claims, op)) \in Nat
    BY <2>1, FS_CardinalityType DEF Accounted, ClaimsSuffice
  <2>8. /\ Cardinality(claimed) \in Nat /\ Cardinality(granted) \in Nat
        /\ Cardinality(grants) \in Nat
    BY <2>3, FS_CardinalityType
  <2>9. Cardinality(billed) <= Cardinality(Cited(claims, op)) + Cardinality(grants)
    <3> HIDE DEF claimed, granted, billed, grants
    <3> QED
      BY <2>4, <2>6, <2>7, <2>8
  <2> QED
    BY <2>9 DEF Cited
<1> QED
  BY <1>1, <1>2, ClaimInvInit, PTL DEF Spec

-----------------------------------------------------------------------------
(* Sums over finite sets.                                                   *)

\* The sums over the subsets of a, taken in the order MapThenSumSet takes them.
Pick(s) == CHOOSE x \in s : TRUE
SumAt(sum, recs, t) == IF t = {} THEN 0 ELSE recs[Pick(t)].usage + sum[t \ {Pick(t)}]
SumsOf(sum, recs, a) == \A t \in SUBSET a : sum[t] = SumAt(sum, recs, t)

\* Among sets of reservations there is one that has no other below it.
LEMMA Smallest ==
  ASSUME NEW T \in SUBSET (SUBSET Reservation), T # {}
  PROVE  \E s \in T : \A t \in SUBSET s : t # s => t \notin T
<1> DEFINE R == StrictSubsetOrdering(Reservation)
<1>1. IsWellFoundedOn(R, FiniteSubsetsOf(Reservation))
  BY FS_StrictSubsetOrderingWellFounded
<1>2. T \subseteq FiniteSubsetsOf(Reservation)
  BY IdsAssumption, FS_Subset DEF FiniteSubsetsOf
<1>3. PICK s \in T : \A t \in T : <<t, s>> \notin R
  <2> HIDE DEF R
  <2> QED
    BY <1>1, <1>2, WFMin
<1>4. ASSUME NEW t \in SUBSET s, t # s PROVE t \notin T
  BY <1>3, <1>4 DEF StrictSubsetOrdering
<1> QED
  BY <1>4

\* The sum over a set does not depend on which larger sets are summed with it.
LEMMA SumsAgree ==
  ASSUME NEW recs, NEW f, NEW g, NEW a \in SUBSET Reservation, NEW b \in SUBSET Reservation,
         SumsOf(f, recs, a), SumsOf(g, recs, b), NEW t, t \in SUBSET a, t \in SUBSET b
  PROVE  f[t] = g[t]
<1> DEFINE T == {s \in SUBSET Reservation : s \subseteq a /\ s \subseteq b /\ f[s] # g[s]}
<1> SUFFICES ASSUME T # {} PROVE FALSE
  OBVIOUS
<1>1. PICK s \in T : \A u \in SUBSET s : u # s => u \notin T
  <2>1. T \in SUBSET (SUBSET Reservation)
    OBVIOUS
  <2> HIDE DEF T
  <2> QED
    BY <2>1, Smallest
<1>2. s \in SUBSET a /\ s \in SUBSET b /\ f[s] # g[s]
  OBVIOUS
<1>3. f[s] = SumAt(f, recs, s) /\ g[s] = SumAt(g, recs, s)
  BY <1>2 DEF SumsOf
<1>4. s # {}
  BY <1>2, <1>3 DEF SumAt
<1>5. Pick(s) \in s
  BY <1>4 DEF Pick
<1> DEFINE u == s \ {Pick(s)}
<1>6. u \in SUBSET s /\ u # s
  BY <1>5
<1>7. f[u] = g[u]
  BY <1>1, <1>2, <1>6
<1> QED
  BY <1>2, <1>3, <1>4, <1>7 DEF SumAt

\* There are such sums.
LEMMA SumsExist ==
  ASSUME NEW recs
  PROVE  \E sum : SumsOf(sum, recs, Reservation)
<1> DEFINE T == {s \in SUBSET Reservation : ~ \E sum : SumsOf(sum, recs, s)}
<1> SUFFICES ASSUME T # {} PROVE FALSE
  OBVIOUS
<1>1. PICK s \in T : \A u \in SUBSET s : u # s => u \notin T
  <2>1. T \in SUBSET (SUBSET Reservation)
    OBVIOUS
  <2> HIDE DEF T
  <2> QED
    BY <2>1, Smallest
<1>2. s \in SUBSET Reservation /\ ~ \E sum : SumsOf(sum, recs, s)
  OBVIOUS
<1> DEFINE below(u) == CHOOSE sum : SumsOf(sum, recs, u)
           all == [u \in SUBSET s |->
                     IF u = s THEN SumAt(below(s \ {Pick(s)}), recs, s) ELSE below(u)[u]]
<1>3. ASSUME NEW u \in SUBSET s, u # s
      PROVE  SumsOf(below(u), recs, u)
  <2>1. \E sum : SumsOf(sum, recs, u)
    BY <1>1, <1>2, <1>3
  <2> QED
    BY <2>1
<1>4. ASSUME NEW u \in SUBSET s, NEW v \in SUBSET u, u # s
      PROVE  below(u)[v] = below(v)[v]
  <2>1. SumsOf(below(u), recs, u) /\ SumsOf(below(v), recs, v)
    BY <1>3, <1>4
  <2> HIDE DEF below
  <2> QED
    BY <1>2, <2>1, SumsAgree
<1>5. ASSUME NEW u \in SUBSET s
      PROVE  all[u] = SumAt(all, recs, u)
  <2> DEFINE v == u \ {Pick(u)}
  <2>1. CASE u = s /\ u = {}
    BY <2>1 DEF SumAt
  <2>2. CASE u # s /\ u = {}
    <3>1. all[u] = below(u)[u] /\ SumsOf(below(u), recs, u)
      BY <1>3, <2>2
    <3> QED
      BY <2>2, <3>1 DEF SumsOf, SumAt
  <2>3. CASE u # {}
    <3>1. Pick(u) \in u
      BY <2>3 DEF Pick
    <3>2. v \in SUBSET u /\ v # u /\ v \in SUBSET s /\ v # s
      BY <3>1
    <3>3. all[v] = below(v)[v]
      BY <3>2
    <3>4. CASE u = s
      <4>1. all[u] = SumAt(below(v), recs, u)
        BY <3>4
      <4> HIDE DEF all, below
      <4> QED
        BY <2>3, <3>3, <4>1 DEF SumAt
    <3>5. CASE u # s
      <4>1. all[u] = below(u)[u] /\ SumsOf(below(u), recs, u)
        BY <1>3, <3>5
      <4>2. below(u)[v] = below(v)[v]
        BY <1>4, <3>2, <3>5
      <4> HIDE DEF all, below
      <4>3. below(u)[u] = SumAt(below(u), recs, u)
        BY <4>1 DEF SumsOf
      <4> QED
        BY <2>3, <3>3, <4>1, <4>2, <4>3 DEF SumAt
    <3> QED
      BY <3>4, <3>5
  <2> QED
    BY <2>1, <2>2, <2>3
<1>6. SumsOf(all, recs, s)
  BY <1>5 DEF SumsOf
<1> QED
  BY <1>2, <1>6

\* The usage of all records is such a sum.
LEMMA UsageIsSum ==
  ASSUME NEW recs
  PROVE  \E sum : SumsOf(sum, recs, Reservation) /\ UsageOf(recs) = sum[Reservation]
<1> DEFINE Folds(f) == f = [s \in SUBSET Reservation |->
                              IF s = {} THEN 0 ELSE recs[Pick(s)].usage + f[s \ {Pick(s)}]]
           fold == CHOOSE f : Folds(f)
<1>1. UsageOf(recs) = fold[Reservation]
  BY DEF UsageOf, MapThenSumSet, MapThenFoldSet, Pick
<1>2. PICK sum : SumsOf(sum, recs, Reservation)
  BY SumsExist
<1>3. Folds([s \in SUBSET Reservation |-> sum[s]])
  BY <1>2 DEF SumsOf, SumAt
<1>4. Folds(fold)
  BY <1>3
<1>5. SumsOf(fold, recs, Reservation)
  <2>1. fold = [s \in SUBSET Reservation |->
                  IF s = {} THEN 0 ELSE recs[Pick(s)].usage + fold[s \ {Pick(s)}]]
    BY <1>4
  <2> HIDE DEF fold
  <2> QED
    BY <2>1 DEF SumsOf, SumAt
<1> QED
  BY <1>1, <1>5

\* If one record grows by at most d, and no other grows, so does the sum.
LEMMA UsageGrows ==
  ASSUME NEW recs, NEW more, NEW r, NEW d \in Nat,
         \A x \in Reservation :
            /\ recs[x].usage \in Nat /\ more[x].usage \in Nat
            /\ more[x].usage <= recs[x].usage + (IF x = r THEN d ELSE 0)
  PROVE  /\ UsageOf(recs) \in Nat /\ UsageOf(more) \in Nat
         /\ UsageOf(more) <= UsageOf(recs) + d
<1>1. PICK f : SumsOf(f, recs, Reservation) /\ UsageOf(recs) = f[Reservation]
  BY UsageIsSum
<1>2. PICK g : SumsOf(g, more, Reservation) /\ UsageOf(more) = g[Reservation]
  BY UsageIsSum
<1> DEFINE Fits(s) == /\ f[s] \in Nat /\ g[s] \in Nat
                      /\ g[s] <= f[s] + (IF r \in s THEN d ELSE 0)
           T == {s \in SUBSET Reservation : ~Fits(s)}
<1>3. ASSUME T # {} PROVE FALSE
  <2>1. PICK s \in T : \A u \in SUBSET s : u # s => u \notin T
    <3>1. T \in SUBSET (SUBSET Reservation)
      OBVIOUS
    <3> HIDE DEF T
    <3> QED
      BY <1>3, <3>1, Smallest
  <2>2. s \in SUBSET Reservation /\ ~Fits(s)
    OBVIOUS
  <2>3. f[s] = SumAt(f, recs, s) /\ g[s] = SumAt(g, more, s)
    BY <1>1, <1>2, <2>2 DEF SumsOf
  <2>4. s # {}
    BY <2>2, <2>3 DEF SumAt
  <2>5. Pick(s) \in s
    BY <2>4 DEF Pick
  <2> DEFINE x == Pick(s)
             u == s \ {x}
  <2>6. x \in s /\ u \in SUBSET s /\ u # s /\ x \notin u
    BY <2>5
  <2>7. Fits(u)
    BY <2>1, <2>2, <2>6
  <2>8. f[s] = recs[x].usage + f[u] /\ g[s] = more[x].usage + g[u]
    BY <2>3, <2>4 DEF SumAt
  <2>9. r \in u => x # r /\ r \in s
    BY <2>6
  <2>10. r \in s => r \in u \/ x = r
    OBVIOUS
  <2>11. /\ recs[x].usage \in Nat /\ more[x].usage \in Nat
         /\ more[x].usage <= recs[x].usage + (IF x = r THEN d ELSE 0)
    BY <2>2, <2>6
  <2> HIDE DEF x, u
  <2> QED
    BY <2>2, <2>6, <2>7, <2>8, <2>9, <2>10, <2>11
<1>4. Fits(Reservation)
  BY <1>3
<1> QED
  BY <1>1, <1>2, <1>4

\* Where nothing was used, the sum is zero.
LEMMA NothingSumsToZero ==
  ASSUME NEW recs, \A x \in Reservation : recs[x].usage = 0,
         NEW sum, SumsOf(sum, recs, Reservation)
  PROVE  sum[Reservation] = 0
<1> DEFINE T == {s \in SUBSET Reservation : sum[s] # 0}
<1>1. ASSUME T # {} PROVE FALSE
  <2>1. PICK s \in T : \A u \in SUBSET s : u # s => u \notin T
    <3>1. T \in SUBSET (SUBSET Reservation)
      OBVIOUS
    <3> HIDE DEF T
    <3> QED
      BY <1>1, <3>1, Smallest
  <2>2. s \in SUBSET Reservation /\ sum[s] # 0 /\ sum[s] = SumAt(sum, recs, s)
    BY DEF SumsOf
  <2>3. s # {}
    BY <2>2 DEF SumAt
  <2>4. Pick(s) \in s
    BY <2>3 DEF Pick
  <2>5. sum[s \ {Pick(s)}] = 0
    BY <2>1, <2>2, <2>4
  <2> QED
    BY <2>2, <2>3, <2>4, <2>5 DEF SumAt
<1> QED
  BY <1>1

-----------------------------------------------------------------------------
(* The usage ceiling.                                                       *)

\* What the provider really billed and no human accepted as lost.
BilledAs(m, ph) == [r \in Reservation |-> IF Acked(m[r]) THEN NoRecord ELSE ph[r]]
Billed == BilledAs(res, physical)

\* Until an authorized call is made, the ceiling has not been reached.
BelowCeiling(p) ==
    pc[p] \in {"consume", "reserve", "permit", "call"} => UsageOf(Billed) < MaxUsage

UsageInv ==
    /\ IInv
    /\ \A p \in Process : BelowCeiling(p)
    /\ UsageOf(Billed) < MaxUsage + Max(Usage)

LEMMA UsageTypes ==
  /\ \A out \in Outcome \cup {NoRecord} : out.usage \in Nat
  /\ \A rec \in Record : rec.usage \in Nat
  /\ NoRecord.usage = 0 /\ Unknown.usage = 0
BY AmountAssumption DEF Outcome, Record, NoRecord, Unknown, Known

LEMMA BilledTypes ==
  ASSUME NEW m, NEW ph \in [Reservation -> Outcome \cup {NoRecord}], NEW x \in Reservation
  PROVE  BilledAs(m, ph)[x].usage \in Nat
<1>1. BilledAs(m, ph)[x] = IF Acked(m[x]) THEN NoRecord ELSE ph[x]
  BY DEF BilledAs
<1>2. BilledAs(m, ph)[x] \in Outcome \cup {NoRecord}
  BY <1>1
<1> QED
  BY <1>2, UsageTypes

\* The largest usage a provider may report bounds every outcome.
LEMMA OutcomeIsBounded ==
  ASSUME IsFiniteSet(Usage), Usage # {}, NEW out \in Outcome
  PROVE  out.usage <= Max(Usage) /\ Max(Usage) \in Nat
<1>1. Max(Usage) \in Usage /\ \A u \in Usage : u <= Max(Usage)
  BY AmountAssumption, FiniteMax
<1>2. Max(Usage) \in Nat
  BY <1>1, AmountAssumption
<1>3. out.usage = 0 \/ out.usage \in Usage
  BY DEF Outcome, Unknown, Known
<1> QED
  BY <1>1, <1>2, <1>3

\* What an authorization has summed up is all that was billed.
LEMMA RecordsCoverBills ==
  ASSUME IInv, NEW p \in Process, pc[p] \in {"ready", "retry"}, ~HasUnresolved(cache[p])
  PROVE  /\ UsageOf(Billed) \in Nat /\ UsageOf(view[p]) \in Nat
         /\ UsageOf(Billed) <= UsageOf(view[p])
<1>1. /\ res \in Ledger /\ records \in [Reservation -> Record]
      /\ physical \in [Reservation -> Outcome \cup {NoRecord}]
      /\ Sound(res, records, latch, physical)
      /\ cache[p] = Reconciled(res) /\ view[p] = records
  <2>1. SurfaceOf(p) /\ TypeInv /\ Sound(res, records, latch, physical)
    BY IInvParts
  <2>2. cache[p] = Reconciled(res) /\ view[p] = records
    BY <2>1 DEF SurfaceOf, Deciding
  <2> QED
    BY <2>1, <2>2, Typed
<1>2. ASSUME NEW x \in Reservation
      PROVE  /\ records[x].usage \in Nat /\ Billed[x].usage \in Nat
             /\ Billed[x].usage <= records[x].usage
  <2>1. records[x].usage \in Nat /\ Billed[x].usage \in Nat
    BY <1>1, UsageTypes, BilledTypes DEF Billed
  <2>2. Billed[x] = IF Acked(res[x]) THEN NoRecord ELSE physical[x]
    BY DEF Billed, BilledAs
  <2>3. CASE Acked(res[x]) \/ physical[x] = NoRecord
    BY <2>1, <2>2, <2>3, UsageTypes
  <2>4. CASE ~Acked(res[x]) /\ physical[x] # NoRecord
    <3>1. ~Blocking(res[x])
      <4>1. ~(Blocking(Reconciled(res)[x]) /\ ~Acked(Reconciled(res)[x]))
        BY <1>1 DEF HasUnresolved
      <4>2. res[x].st = "DISPATCHING" => ~res[x].ack
        BY <1>1 DEF Sound, Settlements
      <4> QED
        BY <1>1, <2>4, <4>1, <4>2, ReconciledFields DEF Blocking, Acked
    <3>2. records[x] = Known(physical[x].usage)
      BY <1>1, <2>4, <3>1 DEF Sound, NothingLost
    <3>3. records[x].usage = physical[x].usage
      BY <3>2 DEF Known
    <3> QED
      BY <2>1, <2>2, <2>4, <3>3
  <2> QED
    BY <2>3, <2>4
<1>3. UsageOf(Billed) \in Nat /\ UsageOf(records) \in Nat /\ UsageOf(Billed) <= UsageOf(records) + 0
  BY <1>2, UsageGrows
<1> QED
  BY <1>1, <1>3

\* A step that bills nothing raises no bill.
LEMMA BillsOnlyGrowByCalls ==
  ASSUME Displacement = FALSE, IInv, [Next]_vars, NEW r, NEW d \in Nat,
         \A x \in Reservation : physical'[x].usage <= physical[x].usage + (IF x = r THEN d ELSE 0)
  PROVE  /\ UsageOf(Billed) \in Nat /\ UsageOf(Billed)' \in Nat
         /\ UsageOf(Billed)' <= UsageOf(Billed) + d
<1>1. /\ physical \in [Reservation -> Outcome \cup {NoRecord}]
      /\ physical' \in [Reservation -> Outcome \cup {NoRecord}]
      /\ Sound(res', records', latch', physical')
  <2>1. IInv'
    BY IInvStep
  <2> QED
    BY <2>1, IInvParts DEF IInv, TypeInv, TypeOK
<1> DEFINE now == BilledAs(res, physical)
           next == BilledAs(res', physical')
<1>2. ASSUME NEW x \in Reservation
      PROVE  /\ now[x].usage \in Nat /\ next[x].usage \in Nat
             /\ next[x].usage <= now[x].usage + (IF x = r THEN d ELSE 0)
  <2>1. now[x].usage \in Nat /\ next[x].usage \in Nat
    BY <1>1, BilledTypes
  <2>2. Acked(res[x]) => Acked(res'[x])
    <3>1. res[x].ack => res'[x].ack
      BY EntriesMoveForward DEF Forward
    <3>2. res'[x].ack => res'[x].st = "UNRESOLVED"
      BY <1>1 DEF Sound, Settlements
    <3> QED
      BY <3>1, <3>2 DEF Acked
  <2>3. /\ now[x] = IF Acked(res[x]) THEN NoRecord ELSE physical[x]
        /\ next[x] = IF Acked(res'[x]) THEN NoRecord ELSE physical'[x]
    BY DEF BilledAs
  <2> HIDE DEF now, next
  <2>4. CASE Acked(res'[x])
    <3>1. next[x].usage = 0
      BY <2>3, <2>4, UsageTypes
    <3> QED
      BY <2>1, <3>1
  <2>5. CASE ~Acked(res'[x])
    BY <2>1, <2>2, <2>3, <2>5
  <2> QED
    BY <2>4, <2>5
<1>3. UsageOf(now) \in Nat /\ UsageOf(next) \in Nat /\ UsageOf(next) <= UsageOf(now) + d
  <2> HIDE DEF now, next
  <2> QED
    BY <1>2, UsageGrows
<1>4. UsageOf(Billed) = UsageOf(now) /\ UsageOf(Billed)' = UsageOf(next)
  BY DEF Billed
<1> QED
  BY <1>3, <1>4

\* Every step keeps what was billed below the ceiling and one call.
LEMMA UsageInvStep ==
  ASSUME Displacement = FALSE, IsFiniteSet(Usage), Usage # {}
  PROVE  UsageInv /\ [Next]_vars => UsageInv'
<1> SUFFICES ASSUME UsageInv, [Next]_vars PROVE UsageInv'
  OBVIOUS
<1>inv. /\ IInv /\ IInv' /\ UsageOf(Billed) < MaxUsage + Max(Usage)
        /\ \A p \in Process : BelowCeiling(p)
        /\ MaxUsage \in Nat /\ Max(Usage) \in Nat
  BY IInvStep, AmountAssumption, FiniteMax DEF UsageInv
<1>typ. /\ pc \in [Process -> PcLabel]
        /\ physical \in [Reservation -> Outcome \cup {NoRecord}]
        /\ physical' \in [Reservation -> Outcome \cup {NoRecord}]
        /\ \A x \in Reservation : physical[x].usage \in Nat
  BY <1>inv, UsageTypes DEF IInv, TypeInv, TypeOK
\* Without a call, only an authorization can put a process below the ceiling.
<1>quiet. ASSUME \A x \in Reservation : physical'[x].usage <= physical[x].usage,
                 \A p \in Process :
                   pc'[p] \in {"consume", "reserve", "permit", "call"} =>
                      \/ pc[p] \in {"consume", "reserve", "permit", "call"}
                      \/ UsageOf(Billed) < MaxUsage
          PROVE  UsageInv'
  <2>1. \A x \in Reservation : physical'[x].usage <= physical[x].usage + (IF x = None THEN 0 ELSE 0)
    BY <1>quiet, <1>typ
  <2>2. /\ UsageOf(Billed) \in Nat /\ UsageOf(Billed)' \in Nat
        /\ UsageOf(Billed)' <= UsageOf(Billed) + 0
    BY <1>inv, <2>1, BillsOnlyGrowByCalls
  <2>3. UsageOf(Billed)' < MaxUsage + Max(Usage)
    BY <1>inv, <2>2
  <2>4. ASSUME NEW p \in Process PROVE BelowCeiling(p)'
    <3>1. pc'[p] \in {"consume", "reserve", "permit", "call"} => UsageOf(Billed) < MaxUsage
      BY <1>inv, <1>quiet DEF BelowCeiling
    <3>2. pc'[p] \in {"consume", "reserve", "permit", "call"} => UsageOf(Billed)' < MaxUsage
      BY <1>inv, <2>2, <3>1
    <3> QED
      BY <3>2 DEF BelowCeiling
  <2> QED
    BY <1>inv, <2>3, <2>4 DEF UsageInv
<1>same. ASSUME UNCHANGED physical PROVE \A x \in Reservation : physical'[x].usage <= physical[x].usage
  BY <1>same, <1>typ
<1>goto. ASSUME NEW p \in Process, NEW l, Goto(p, l)
         PROVE  pc'[p] = l /\ \A q \in Process : q # p => pc'[q] = pc[q]
  BY <1>goto, <1>typ DEF Goto
<1>ends. ASSUME NEW p \in Process, NEW l, Goto(p, l), UNCHANGED physical,
                \/ l \notin {"consume", "reserve", "permit", "call"}
                \/ pc[p] \in {"consume", "reserve", "permit", "call"}
         PROVE  UsageInv'
  BY <1>ends, <1>same, <1>goto, <1>quiet
<1>1. ASSUME NEW p \in Process, AuthorizeStep(p) PROVE UsageInv'
  <2>1. PICK op \in Operation, ev \in Evidence, fam \in Family, att \in Attempt :
          Authorized(p, op, ev, fam, att)
    BY <1>1 DEF AuthorizeStep, AuthorizeFresh, AuthorizeFailover, AuthorizeHumanRetry
  <2>2. /\ pc[p] \in {"ready", "retry"} /\ ~HasUnresolved(cache[p])
        /\ UsageOf(view[p]) < MaxUsage /\ UNCHANGED physical
    BY <2>1 DEF Authorized, Attempting, Permitted
  <2>3. UsageOf(Billed) < MaxUsage
    BY <1>inv, <2>2, RecordsCoverBills
  <2> QED
    BY <1>same, <1>quiet, <2>2, <2>3
<1>2. ASSUME NEW p \in Process, NEW out \in Outcome, CallProvider(p, out) PROVE UsageInv'
  <2> DEFINE r == cur[p].rid
  <2>1. /\ pc[p] = "call" /\ physical' = [physical EXCEPT ![r] = out]
        /\ pc'[p] = "settle" /\ \A q \in Process : q # p => pc[q] = "closed" /\ pc'[q] = pc[q]
    BY <1>2, <1>goto, <1>inv, Alone DEF CallProvider
  <2>2. UsageOf(Billed) < MaxUsage
    BY <1>inv, <2>1 DEF BelowCeiling
  <2>3. out.usage \in Nat /\ out.usage <= Max(Usage)
    BY UsageTypes, OutcomeIsBounded
  <2>4. \A x \in Reservation :
          physical'[x].usage <= physical[x].usage + (IF x = r THEN Max(Usage) ELSE 0)
    <3> SUFFICES ASSUME NEW x \in Reservation
                 PROVE  physical'[x].usage <= physical[x].usage + (IF x = r THEN Max(Usage) ELSE 0)
      OBVIOUS
    <3>1. physical'[x] = IF x = r THEN out ELSE physical[x]
      BY <1>typ, <2>1
    <3>2. physical[x].usage \in Nat
      BY <1>typ
    <3> HIDE DEF r
    <3> QED
      BY <1>inv, <2>3, <3>1, <3>2
  <2>5. /\ UsageOf(Billed) \in Nat /\ UsageOf(Billed)' \in Nat
        /\ UsageOf(Billed)' <= UsageOf(Billed) + Max(Usage)
    BY <1>inv, <2>4, BillsOnlyGrowByCalls
  <2>6. UsageOf(Billed)' < MaxUsage + Max(Usage)
    BY <1>inv, <2>2, <2>5
  <2>7. \A q \in Process : BelowCeiling(q)'
    BY <2>1 DEF BelowCeiling
  <2> QED
    BY <1>inv, <2>6, <2>7 DEF UsageInv
<1>3. ASSUME NEW p \in Process, Crash(p) PROVE UsageInv'
  <2>1. \A x \in Reservation : physical'[x].usage <= physical[x].usage
    <3>1. CASE UNCHANGED physical
      BY <1>same, <3>1
    <3>2. CASE physical' = [physical EXCEPT ![cur[p].rid] = Unknown]
      <4> SUFFICES ASSUME NEW x \in Reservation PROVE physical'[x].usage <= physical[x].usage
        OBVIOUS
      <4>1. physical'[x] = IF x = cur[p].rid THEN Unknown ELSE physical[x]
        BY <1>typ, <3>2
      <4> QED
        BY <1>typ, <4>1, UsageTypes
    <3> QED
      BY <1>3, <3>1, <3>2 DEF Crash
  <2>2. pc'[p] = "closed" /\ \A q \in Process : q # p => pc'[q] = pc[q]
    BY <1>3, <1>goto DEF Crash
  <2> QED
    BY <1>quiet, <2>1, <2>2
<1>4. ASSUME NEW p \in Process, Open(p) \/ DenyStep(p) \/ Close(p) PROVE UsageInv'
  BY <1>4, <1>ends DEF Open, DenyStep, Deny, Stop, Close
<1>5. ASSUME NEW p \in Process, NEW w \in WriteResult, NEW r \in Reservation, Reserve(p, r, w)
      PROVE  UsageInv'
  BY <1>5, <1>ends DEF Reserve, Stop
<1>6. ASSUME NEW p \in Process, NEW w \in WriteResult,
             LoadAndReconcile(p, w) \/ Consume(p, w) \/ MarkDispatching(p, w)
      PROVE  UsageInv'
  BY <1>6, <1>ends DEF LoadAndReconcile, Consume, MarkDispatching, Stop
<1>7. ASSUME NEW p \in Process, NEW w \in WriteResult,
             \/ \E next \in {"ready", "retry"} : SettleKnown(p, w, next)
             \/ SettleUnknown(p, w) \/ RecordCancelled(p, w)
      PROVE  UsageInv'
  BY <1>7, <1>ends DEF SettleKnown, SettleUnknown, RecordCancelled, Stop
<1>8. ASSUME Human \/ UNCHANGED vars PROVE UsageInv'
  <2>1. UNCHANGED <<pc, physical>>
    BY <1>8 DEF Human, Acknowledge, Amend, vars
  <2> QED
    BY <1>same, <1>quiet, <2>1
<1> QED
  BY <1>1, <1>2, <1>3, <1>4, <1>5, <1>6, <1>7, <1>8 DEF Next, Review, WriteStep, CallStep

\* The usage ceiling is overshot by at most the call that crossed it, whatever
\* fails: what was billed and not accepted as lost stays below the ceiling plus
\* one call.  A call's usage is bounded, and the ceiling is positive.
THEOREM UsageStaysBounded ==
  ASSUME Displacement = FALSE, IsFiniteSet(Usage), Usage # {}, MaxUsage > 0
  PROVE  Spec => []UsageOvershootsByOneCall
<1>1. UsageInv /\ [Next]_vars => UsageInv'
  BY UsageInvStep
<1>2. UsageInv => UsageOvershootsByOneCall
  BY DEF UsageInv, Billed, BilledAs, UsageOvershootsByOneCall
<1>3. Init => UsageInv
  <2> SUFFICES ASSUME Init PROVE UsageInv
    OBVIOUS
  <2>1. IInv
    BY IInvInit
  <2>2. \A x \in Reservation : Billed[x].usage = 0
    BY UsageTypes DEF Init, Billed, BilledAs
  <2>3. UsageOf(Billed) = 0
    <3>1. PICK sum : SumsOf(sum, Billed, Reservation) /\ UsageOf(Billed) = sum[Reservation]
      BY UsageIsSum
    <3> QED
      BY <2>2, <3>1, NothingSumsToZero
  <2>4. MaxUsage \in Nat /\ Max(Usage) \in Nat
    BY AmountAssumption, FiniteMax
  <2>5. \A p \in Process : BelowCeiling(p)
    BY DEF Init, BelowCeiling
  <2> QED
    BY <2>1, <2>3, <2>4, <2>5 DEF UsageInv
<1> QED
  BY <1>1, <1>2, <1>3, PTL DEF Spec

=============================================================================
