-------------------------- MODULE SpendLedgerTypes --------------------------
(***************************************************************************)
(* Type correctness of the paid-call protocol, and what its ledger         *)
(* operators do to one entry, for the proofs of SpendLedgerProofs.         *)
(***************************************************************************)
EXTENDS SpendLedger, FiniteSetTheorems, TLAPS

Ledger == [Reservation -> Entry]

\* Attempt numbers are natural numbers, the reservations being finitely many.
LEMMA AttemptIsNat == Attempt \subseteq Nat
<1>1. Cardinality(Reservation) \in Nat
  BY IdsAssumption, FS_CardinalityType
<1> QED
  BY <1>1 DEF Attempt

\* The values every ledger starts from are ledger values.
LEMMA BlankType ==
  /\ Blank \in Entry
  /\ NoLedger \in Ledger
  /\ NoRecords \in [Reservation -> Record]
  /\ NoCall \in CallInfo
<1>1. Blank \in Entry
  BY DEF Blank, Entry, Status
<1> QED
  BY <1>1 DEF NoLedger, NoRecords, NoRecord, Ledger, Record, NoCall, CallInfo

\* The updates the protocol makes to one entry keep it an entry.
LEMMA EntryUpdates ==
  ASSUME NEW e \in Entry
  PROVE  /\ \A s \in Status : [e EXCEPT !.st = s] \in Entry
         /\ \A s \in Status, z \in BOOLEAN : [e EXCEPT !.st = s, !.zero = z] \in Entry
         /\ \A g \in Reservation \cup {None} : [e EXCEPT !.gFor = g] \in Entry
         /\ [e EXCEPT !.gUsed = TRUE] \in Entry
         /\ \A x \in SUBSET Family : [e EXCEPT !.excl = x] \in Entry
         /\ \A v \in Evidence, x \in SUBSET Family :
              [e EXCEPT !.ack = TRUE, !.ev = v, !.excl = x] \in Entry
BY DEF Entry

\* Resuming keeps the ledger a ledger.
LEMMA ReconciledType ==
  ASSUME NEW m \in Ledger
  PROVE  Reconciled(m) \in Ledger
<1>1. ASSUME NEW r \in Reservation
      PROVE  Reconciled(m)[r] \in Entry
  <2>1. m[r] \in Entry
    BY DEF Ledger
  <2>2. /\ [m[r] EXCEPT !.st = "UNRESOLVED"] \in Entry
        /\ [m[r] EXCEPT !.st = "CANCELLED_PRE_DISPATCH"] \in Entry
        /\ [m[r] EXCEPT !.gFor = None] \in Entry
    BY <2>1, EntryUpdates DEF Status
  <2> QED
    BY <2>1, <2>2 DEF Reconciled
<1> QED
  BY <1>1 DEF Reconciled, Ledger

\* So does writing a new reservation,
LEMMA WithReservationType ==
  ASSUME NEW m \in Ledger, NEW r \in Reservation, NEW call \in CallInfo
  PROVE  WithReservation(m, r, call) \in Ledger
<1> DEFINE new == [Blank EXCEPT !.st = "RESERVED", !.op = call.op, !.fam = call.fam,
                                !.att = call.att, !.src = call.src]
<1>1. new \in Entry
  BY DEF Blank, Entry, Status, CallInfo
<1>2. ASSUME NEW x \in Reservation
      PROVE  m[x] \in Entry /\ [m[x] EXCEPT !.gFor = r] \in Entry
  BY EntryUpdates DEF Ledger
<1>3. ASSUME NEW x \in Reservation
      PROVE  WithReservation(m, r, call)[x] \in Entry
  BY <1>1, <1>2 DEF WithReservation
<1> QED
  BY <1>3 DEF WithReservation, Ledger

\* and so does crossing the dispatch boundary.
LEMMA WithDispatchType ==
  ASSUME NEW m \in Ledger, NEW r \in Reservation
  PROVE  WithDispatch(m, r) \in Ledger
<1>1. ASSUME NEW x \in Reservation
      PROVE  WithDispatch(m, r)[x] \in Entry
  <2>1. m[x] \in Entry
    BY DEF Ledger
  <2>2. [m[x] EXCEPT !.st = "DISPATCHING"] \in Entry /\ [m[x] EXCEPT !.gUsed = TRUE] \in Entry
    BY <2>1, EntryUpdates DEF Status
  <2> QED
    BY <2>1, <2>2 DEF WithDispatch
<1> QED
  BY <1>1 DEF WithDispatch, Ledger

-----------------------------------------------------------------------------
\* A process that forgets its surface, and the fault counter, keep their types.
LEMMA ForgetType ==
  ASSUME TypeOK, NEW p \in Process, Forget(p)
  PROVE  /\ cache' \in [Process -> Ledger]
         /\ cclaims' \in [Process -> SUBSET (Operation \X Evidence)]
         /\ view' \in [Process -> [Reservation -> Record]]
         /\ cur' \in [Process -> CallInfo]
BY BlankType DEF TypeOK, Forget, Ledger

\* The fault counter stays a number, whatever a write came to.
LEMMA CountFaultType ==
  ASSUME TypeOK, NEW w, CountFault(w)
  PROVE  faults' \in Nat
BY DEF TypeOK, CountFault

\* A process goes from one labelled place to another.
LEMMA GotoType ==
  ASSUME TypeOK, NEW p \in Process, NEW l \in PcLabel, Goto(p, l)
  PROVE  pc' \in [Process -> PcLabel]
BY DEF TypeOK, Goto

\* Authorizing leaves a well-formed call.
LEMMA CallingType ==
  ASSUME NEW op \in Operation, NEW ev \in Evidence, NEW fam \in Family,
         NEW att \in Attempt, NEW source \in Reservation \cup {None}
  PROVE  Calling(op, ev, fam, att, source) \in CallInfo
BY AttemptIsNat DEF Calling, CallInfo

\* TypeOK alone is not inductive: a claim and a dispatch are made on behalf of
\* the call being prepared, which by then names its operation or reservation.
CallIsNamed ==
    \A p \in Process :
        /\ pc[p] = "consume" => cur[p].op \in Operation /\ cur[p].ev \in Evidence
        /\ pc[p] \in InFlight => cur[p].rid \in Reservation

TypeInv == TypeOK /\ CallIsNamed

\* A surface that ends names no call any more.
LEMMA StopType ==
  ASSUME TypeInv, NEW p \in Process, Stop(p)
  PROVE  /\ pc' \in [Process -> PcLabel]
         /\ cache' \in [Process -> Ledger]
         /\ cclaims' \in [Process -> SUBSET (Operation \X Evidence)]
         /\ view' \in [Process -> [Reservation -> Record]]
         /\ cur' \in [Process -> CallInfo]
         /\ CallIsNamed'
<1>1. TypeOK /\ CallIsNamed /\ Forget(p) /\ Goto(p, "stopped")
  BY DEF TypeInv, Stop
<1>2. CallIsNamed'
  BY <1>1 DEF TypeOK, CallIsNamed, Goto, Forget, InFlight
<1> QED
  BY <1>1, <1>2, ForgetType, GotoType DEF PcLabel

\* An authorized step, whichever its justification.
LEMMA AuthorizeCases ==
  ASSUME NEW p \in Process, AuthorizeStep(p)
  PROVE  \E op \in Operation, ev \in Evidence, fam \in Family, att \in Attempt,
            source \in Reservation \cup {None}, l \in {"consume", "reserve"} :
               /\ Authorized(p, op, ev, fam, att)
               /\ cur' = [cur EXCEPT ![p] = Calling(op, ev, fam, att, source)]
               /\ Goto(p, l)
               /\ source # None => HumanRetry(p, op, ev, att, source) /\ l = "reserve"
<1>1. PICK op \in Operation, ev \in Evidence, fam \in Family, att \in Attempt :
        \/ AuthorizeFresh(p, op, ev, fam, att)
        \/ AuthorizeFailover(p, op, ev, fam, att)
        \/ \E source \in Reservation : AuthorizeHumanRetry(p, op, ev, fam, att, source)
  BY DEF AuthorizeStep
<1>2. CASE AuthorizeFresh(p, op, ev, fam, att)
  BY <1>2 DEF AuthorizeFresh
<1>3. CASE AuthorizeFailover(p, op, ev, fam, att)
  BY <1>3 DEF AuthorizeFailover
<1>4. CASE \E source \in Reservation : AuthorizeHumanRetry(p, op, ev, fam, att, source)
  BY <1>4 DEF AuthorizeHumanRetry
<1> QED
  BY <1>1, <1>2, <1>3, <1>4

\* The empty loop is well typed, and no process names a reservation.
LEMMA TypeInvInit == Init => TypeInv
BY BlankType, ShapeAssumption DEF Init, TypeInv, TypeOK, CallIsNamed, InFlight, NoLedger,
   NoRecords, NoRecord, PcLabel, Ledger

\* Every step keeps every variable in its type: one case per action of the code,
\* one conjunct per variable it writes.
LEMMA TypeInvStep == TypeInv /\ [Next]_vars => TypeInv'
<1> SUFFICES ASSUME TypeInv, [Next]_vars PROVE TypeInv'
  OBVIOUS
<1> USE DEF Ledger, InFlight
<1>typ. TypeOK /\ CallIsNamed
  BY DEF TypeInv
<1>1. ASSUME NEW p \in Process, Open(p) PROVE TypeInv'
  BY <1>typ, <1>1 DEF Open, TypeInv, TypeOK, CallIsNamed, durable, local, Goto, PcLabel
<1>2. ASSUME NEW p \in Process, AuthorizeStep(p) PROVE TypeInv'
  <2>1. PICK op \in Operation, ev \in Evidence, fam \in Family, att \in Attempt,
             source \in Reservation \cup {None}, l \in {"consume", "reserve"} :
             /\ Authorized(p, op, ev, fam, att)
             /\ cur' = [cur EXCEPT ![p] = Calling(op, ev, fam, att, source)]
             /\ Goto(p, l)
    BY <1>2, AuthorizeCases
  <2>2. cur' \in [Process -> CallInfo]
    BY <1>typ, <2>1, CallingType DEF TypeOK
  <2>3. pc' \in [Process -> PcLabel]
    BY <1>typ, <2>1 DEF TypeOK, Goto, PcLabel
  <2>4. TypeOK'
    BY <1>typ, <2>1, <2>2, <2>3 DEF Authorized, TypeOK, durable
  <2>5. CallIsNamed'
    BY <1>typ, <2>1 DEF TypeOK, CallIsNamed, Goto, Calling
  <2> QED
    BY <2>4, <2>5 DEF TypeInv
<1>3. ASSUME NEW p \in Process, DenyStep(p) PROVE TypeInv'
  <2>1. Stop(p) /\ UNCHANGED <<durable, owner, physical, faults, crashes>>
    BY <1>3 DEF DenyStep, Deny
  <2> QED
    BY <1>typ, <2>1, StopType DEF TypeInv, TypeOK, durable
<1>4. ASSUME NEW p \in Process, NEW w \in WriteResult, LoadAndReconcile(p, w) PROVE TypeInv'
  <2>1. Reconciled(res) \in Ledger
    BY <1>typ, ReconciledType DEF TypeOK
  <2> QED
    BY <1>typ, <1>4, <2>1, CountFaultType
    DEF LoadAndReconcile, TypeInv, TypeOK, CallIsNamed, Goto, PcLabel
<1>5. ASSUME NEW p \in Process, NEW w \in WriteResult, Consume(p, w) PROVE TypeInv'
  <2>1. cclaims[p] \cup {<<cur[p].op, cur[p].ev>>} \subseteq Operation \X Evidence
    <3>1. cclaims[p] \subseteq Operation \X Evidence
      BY <1>typ DEF TypeOK
    <3>2. cur[p].op \in Operation /\ cur[p].ev \in Evidence
      BY <1>typ, <1>5 DEF Consume, CallIsNamed
    <3> QED
      BY <3>1, <3>2
  <2>2. claims' \subseteq Operation \X Evidence /\ faults' \in Nat
    BY <1>typ, <1>5, <2>1, CountFaultType DEF Consume, TypeOK
  <2>3. CASE w = "ok"
    <3>1. cclaims' \in [Process -> SUBSET (Operation \X Evidence)]
      BY <1>typ, <1>5, <2>1, <2>3 DEF Consume, TypeOK
    <3>2. Goto(p, "reserve") /\ UNCHANGED <<cache, view, cur>>
      BY <1>5, <2>3 DEF Consume
    <3> QED
      BY <1>typ, <1>5, <2>2, <3>1, <3>2 DEF Consume, TypeInv, TypeOK, CallIsNamed, Goto, PcLabel
  <2>4. CASE w # "ok"
    BY <1>typ, <1>5, <2>2, <2>4, StopType DEF Consume, TypeInv, TypeOK
  <2> QED
    BY <2>3, <2>4
<1>6. ASSUME NEW p \in Process, NEW w \in WriteResult, NEW r \in Reservation,
             Reserve(p, r, w)
      PROVE TypeInv'
  <2>1. WithReservation(cache[p], r, cur[p]) \in Ledger
    BY <1>typ, WithReservationType DEF TypeOK
  <2>2. res' \in Ledger /\ faults' \in Nat
    BY <1>typ, <1>6, <2>1, CountFaultType DEF Reserve, TypeOK
  <2>3. CASE w = "ok"
    <3>1. cur' = [cur EXCEPT ![p].rid = r]
      BY <1>6, <2>3 DEF Reserve
    <3>2. cur' \in [Process -> CallInfo]
      BY <1>typ, <3>1 DEF TypeOK, CallInfo
    <3>3. cur'[p].rid = r
      BY <1>typ, <3>1 DEF TypeOK, CallInfo
    <3>4. CallIsNamed'
      BY <1>typ, <1>6, <2>3, <3>1, <3>3 DEF Reserve, TypeOK, CallIsNamed, Goto
    <3> QED
      BY <1>typ, <1>6, <2>1, <2>2, <2>3, <3>2, <3>4 DEF Reserve, TypeInv, TypeOK, Goto, PcLabel
  <2>4. CASE w # "ok"
    BY <1>typ, <1>6, <2>2, <2>4, StopType DEF Reserve, TypeInv, TypeOK
  <2> QED
    BY <2>3, <2>4
<1>7. ASSUME NEW p \in Process, NEW w \in WriteResult, MarkDispatching(p, w) PROVE TypeInv'
  <2>1. cur[p].rid \in Reservation
    BY <1>typ, <1>7 DEF MarkDispatching, CallIsNamed
  <2>2. WithDispatch(cache[p], cur[p].rid) \in Ledger
    BY <1>typ, <2>1, WithDispatchType DEF TypeOK
  <2>3. res' \in Ledger /\ faults' \in Nat
    BY <1>typ, <1>7, <2>2, CountFaultType DEF MarkDispatching, TypeOK
  <2>4. CASE /\ cache' = [cache EXCEPT ![p] = WithDispatch(cache[p], cur[p].rid)]
             /\ Goto(p, "call")
             /\ UNCHANGED <<cclaims, view, cur>>
    BY <1>typ, <1>7, <2>1, <2>2, <2>3, <2>4
    DEF MarkDispatching, TypeInv, TypeOK, CallIsNamed, Goto, PcLabel
  <2>5. CASE Stop(p)
    BY <1>typ, <1>7, <2>3, <2>5, StopType DEF MarkDispatching, TypeInv, TypeOK
  <2> QED
    BY <1>7, <2>4, <2>5 DEF MarkDispatching
<1>8. ASSUME NEW p \in Process, NEW out \in Outcome, CallProvider(p, out) PROVE TypeInv'
  BY <1>typ, <1>8 DEF CallProvider, TypeInv, TypeOK, CallIsNamed, Goto, PcLabel, durable, local
<1>9. ASSUME NEW p \in Process, NEW w \in WriteResult, NEW next \in {"ready", "retry"},
             SettleKnown(p, w, next)
      PROVE TypeInv'
  <2> DEFINE r == cur[p].rid
             used == physical[r].usage
             entry == [cache[p][r] EXCEPT !.st = "SETTLED_KNOWN",
                                          !.zero = (physical[r].kind = "zero")]
  <2>1. r \in Reservation
    BY <1>typ, <1>9 DEF SettleKnown, CallIsNamed
  <2>2. entry \in Entry
    <3>1. cache[p][r] \in Entry
      BY <1>typ, <2>1 DEF TypeOK
    <3> QED
      BY <3>1, EntryUpdates DEF Status
  <2>3. Known(used) \in Record
    <3>1. physical[r].kind \in {"zero", "known"}
      BY <1>9 DEF SettleKnown
    <3>2. physical[r] \in Outcome \cup {NoRecord}
      BY <1>typ, <2>1 DEF TypeOK
    <3>3. CASE \E u \in Usage : physical[r] = Known(u)
      BY <3>3 DEF Known, Record
    <3>4. CASE physical[r] \in {[kind |-> "zero", usage |-> 0], Unknown,
                                [kind |-> "cancelled", usage |-> 0], NoRecord}
      BY <3>4 DEF Unknown, NoRecord, Record
    <3> QED
      BY <3>2, <3>3, <3>4 DEF Outcome
  <2>4. /\ res' \in Ledger
        /\ records' \in [Reservation -> Record]
        /\ latch' \in Reservation \cup {None}
        /\ faults' \in Nat
    BY <1>typ, <1>9, <2>1, <2>2, <2>3, CountFaultType DEF SettleKnown, TypeOK
  <2>5. CASE /\ cache' = [cache EXCEPT ![p][r] = entry]
             /\ view' = [view EXCEPT ![p][r] = Known(used)]
             /\ Goto(p, next)
             /\ UNCHANGED <<cclaims, cur>>
    <3>1. cache' \in [Process -> Ledger]
      BY <1>typ, <2>1, <2>2, <2>5 DEF TypeOK
    <3>2. view' \in [Process -> [Reservation -> Record]]
      BY <1>typ, <2>1, <2>3, <2>5 DEF TypeOK
    <3> HIDE DEF entry, used
    <3> QED
      BY <1>typ, <1>9, <2>4, <2>5, <3>1, <3>2
      DEF SettleKnown, TypeInv, TypeOK, CallIsNamed, Goto, PcLabel
  <2>6. CASE Stop(p)
    BY <1>typ, <1>9, <2>4, <2>6, StopType DEF SettleKnown, TypeInv, TypeOK
  <2> QED
    BY <1>9, <2>5, <2>6 DEF SettleKnown
<1>10. ASSUME NEW p \in Process, NEW w \in WriteResult, SettleUnknown(p, w) PROVE TypeInv'
  <2> DEFINE r == cur[p].rid
             next == [cache[p] EXCEPT ![r].st = "UNRESOLVED"]
  <2>1. r \in Reservation
    BY <1>typ, <1>10 DEF SettleUnknown, CallIsNamed
  <2>2. next \in Ledger
    <3>1. cache[p] \in Ledger /\ cache[p][r] \in Entry
      BY <1>typ, <2>1 DEF TypeOK
    <3>2. [cache[p][r] EXCEPT !.st = "UNRESOLVED"] \in Entry
      BY <3>1, EntryUpdates DEF Status
    <3> QED
      BY <3>1, <3>2
  <2>3. res' \in Ledger /\ faults' \in Nat
    BY <1>typ, <1>10, <2>2, CountFaultType DEF SettleUnknown, TypeOK
  <2>4. CASE /\ cache' = [cache EXCEPT ![p] = next]
             /\ Goto(p, "cancelled")
             /\ UNCHANGED <<cclaims, view, cur>>
    <3> HIDE DEF next
    <3> QED
      BY <1>typ, <1>10, <2>1, <2>2, <2>3, <2>4
      DEF SettleUnknown, TypeInv, TypeOK, CallIsNamed, Goto, PcLabel
  <2>5. CASE Stop(p)
    BY <1>typ, <1>10, <2>3, <2>5, StopType DEF SettleUnknown, TypeInv, TypeOK
  <2> QED
    BY <1>10, <2>4, <2>5 DEF SettleUnknown
<1>11. ASSUME NEW p \in Process, NEW w \in WriteResult, RecordCancelled(p, w) PROVE TypeInv'
  <2>1. records' \in [Reservation -> Record]
    BY <1>typ, <1>11 DEF RecordCancelled, TypeOK, Record
  <2> QED
    BY <1>typ, <1>11, <2>1, StopType, CountFaultType DEF RecordCancelled, TypeInv, TypeOK
<1>12. ASSUME NEW p \in Process, Close(p) PROVE TypeInv'
  <2>1. CallIsNamed'
    BY <1>typ, <1>12 DEF Close, Forget, Goto, TypeOK, CallIsNamed
  <2> QED
    BY <1>typ, <1>12, <2>1, ForgetType DEF Close, TypeInv, TypeOK, Goto, PcLabel, durable
<1>13. ASSUME NEW p \in Process, Crash(p) PROVE TypeInv'
  <2>1. CallIsNamed'
    BY <1>typ, <1>13 DEF Crash, Forget, Goto, TypeOK, CallIsNamed
  <2>2. physical' \in [Reservation -> Outcome \cup {NoRecord}]
    BY <1>typ, <1>13 DEF Crash, TypeOK, Outcome
  <2> QED
    BY <1>typ, <1>13, <2>1, <2>2, ForgetType DEF Crash, TypeInv, TypeOK, Goto, PcLabel, durable
<1>14. ASSUME NEW r \in Reservation, NEW excl \in SUBSET Family, Acknowledge(r, excl)
       PROVE TypeInv'
  <2>1. PICK ev \in Evidence :
          res' = [res EXCEPT ![r].ack = TRUE, ![r].ev = ev, ![r].excl = excl]
    BY <1>14 DEF Acknowledge
  <2>2. [res[r] EXCEPT !.ack = TRUE, !.ev = ev, !.excl = excl] \in Entry
    BY <1>typ, EntryUpdates DEF TypeOK
  <2>3. res' = [res EXCEPT ![r] = [res[r] EXCEPT !.ack = TRUE, !.ev = ev, !.excl = excl]]
    BY <1>typ, <2>1 DEF TypeOK
  <2>4. res' \in Ledger
    BY <1>typ, <2>2, <2>3 DEF TypeOK
  <2> QED
    BY <1>typ, <1>14, <2>4 DEF Acknowledge, TypeInv, TypeOK, CallIsNamed, Record, local
<1>15. ASSUME NEW r \in Reservation, NEW excl \in SUBSET Family, Amend(r, excl) PROVE TypeInv'
  <2>1. res[r] \in Entry /\ res[r].excl \cup excl \in SUBSET Family
    BY <1>typ DEF TypeOK, Entry
  <2>2. [res[r] EXCEPT !.excl = res[r].excl \cup excl] \in Entry
    BY <2>1, EntryUpdates
  <2>3. res' = [res EXCEPT ![r] = [res[r] EXCEPT !.excl = res[r].excl \cup excl]]
    BY <1>typ, <1>15 DEF TypeOK, Amend
  <2>4. res' \in Ledger
    BY <1>typ, <2>2, <2>3 DEF TypeOK
  <2> QED
    BY <1>typ, <1>15, <2>4 DEF Amend, TypeInv, TypeOK, CallIsNamed, local
<1>16. CASE UNCHANGED vars
  BY <1>typ, <1>16 DEF vars, durable, local, TypeInv, TypeOK, CallIsNamed
<1> QED
  BY <1>1, <1>2, <1>3, <1>4, <1>5, <1>6, <1>7, <1>8, <1>9, <1>10, <1>11, <1>12, <1>13,
     <1>14, <1>15, <1>16
  DEF Next, Review, WriteStep, CallStep, Human

\* Every variable keeps its type in every run, for every choice of the constants:
\* the ledgers hold well-formed entries, and an acknowledgement cites one evidence.
THEOREM TypeCorrect == Spec => []TypeOK
<1>1. TypeInv => TypeOK
  BY DEF TypeInv
<1> QED
  BY <1>1, TypeInvInit, TypeInvStep, PTL DEF Spec
=============================================================================
