------------------------ MODULE SpendContractProofs ------------------------
(***************************************************************************)
(* The paid-call protocol implements its contract: every step of           *)
(* SpendLedger is a step of SpendContract, under the refinement mapping    *)
(* stated there, or leaves its state alone.                                *)
(***************************************************************************)
EXTENDS SpendLedgerProofs

StateOf(m) == [r \in Reservation |-> CallState(m[r])]
RolesOf(m) == [r \in Reservation |-> CallRole(m[r])]

\* The contract sees a reservation's status and acknowledgement, and its
\* operation once it may have been dispatched.
LEMMA CallStates ==
  ASSUME NEW e
  PROVE  /\ Acked(e) => CallState(e) = "accepted"
         /\ e.st = "SETTLED_KNOWN" => CallState(e) = "accounted"
         /\ (Blocking(e) /\ ~Acked(e)) => CallState(e) = "inDoubt"
         /\ (~Blocking(e) /\ e.st # "SETTLED_KNOWN") => CallState(e) = "idle"
BY DEF CallState, Acked, Blocking

\* A change the contract does not see.
LEMMA Unseen ==
  ASSUME NEW m, NEW n,
         \A r \in Reservation : /\ CallState(n[r]) = CallState(m[r])
                                /\ CallState(m[r]) # "idle" => n[r].op = m[r].op
  PROVE  StateOf(n) = StateOf(m) /\ RolesOf(n) = RolesOf(m)
<1>1. ASSUME NEW r \in Reservation PROVE CallRole(n[r]) = CallRole(m[r])
  BY DEF CallRole
<1> QED
  BY <1>1 DEF StateOf, RolesOf

\* Resuming is one: a dispatch in doubt stays in doubt.
LEMMA ReconciledUnseen ==
  ASSUME NEW m \in Ledger, NEW recs, NEW l, Settlements(m, recs, l)
  PROVE  /\ StateOf(Reconciled(m)) = StateOf(m)
         /\ RolesOf(Reconciled(m)) = RolesOf(m)
<1> DEFINE n == Reconciled(m)
<1>1. ASSUME NEW r \in Reservation
      PROVE  CallState(n[r]) = CallState(m[r]) /\ n[r].op = m[r].op
  <2>1. m[r].ack => m[r].st = "UNRESOLVED"
    BY DEF Settlements
  <2>2. n[r].ack = m[r].ack /\ n[r].op = m[r].op
    BY ReconciledFields
  <2>3. CASE m[r].st \in {"DISPATCHING", "RESERVED"}
    BY <2>1, <2>2, <2>3, ReconciledFields, CallStates DEF Acked, Blocking
  <2>4. CASE m[r].st \notin {"DISPATCHING", "RESERVED"}
    <3>1. n[r].st = m[r].st
      BY <2>4, ReconciledFields
    <3> QED
      BY <2>2, <3>1 DEF CallState, Acked, Blocking
  <2> QED
    BY <2>3, <2>4
<1> HIDE DEF n
<1>2. StateOf(n) = StateOf(m) /\ RolesOf(n) = RolesOf(m)
  BY <1>1, Unseen
<1> QED
  BY <1>2 DEF n

\* The contract's Cardinality, reached through INSTANCE, is FiniteSets' own.
LEMMA SameCardinality ==
  ASSUME NEW S
  PROVE  Contract!Cardinality(S) = Cardinality(S)
BY DEF Contract!Cardinality, Cardinality

\* What the refinement mapping makes of the contract's variables.
LEMMA ContractVars ==
  /\ Contract!cvars = <<StateOf(res), RolesOf(res), latch # None>>
  /\ Contract!cvars' = <<StateOf(res'), RolesOf(res'), latch' # None>>
BY DEF Contract!cvars, StateOf, RolesOf

\* Publishing the dispatch boundary is the contract's Dispatch.
LEMMA DispatchStep ==
  ASSUME TypeInv, Sound(res, records, latch, physical), latch' = latch,
         NEW r \in Reservation, res[r].st = "RESERVED", res[r].op \in Operation,
         latch = None, ~HasUnresolved(res),
         CallsOf(RoleOf[res[r].op], res, records) < MaxCalls[RoleOf[res[r].op]],
         res' = WithDispatch(res, r)
  PROVE  Contract!Dispatch(r, RoleOf[res[r].op])
<1> DEFINE role == RoleOf[res[r].op]
           made == {x \in Reservation : StateOf(res)[x] # "idle" /\ RolesOf(res)[x] = role}
           used == {x \in Reservation : /\ records[x].kind # "none"
                                        /\ res[x].op # None /\ RoleOf[res[x].op] = role}
<1>typ. res \in Ledger /\ records \in [Reservation -> Record]
  BY Typed
<1>1. ASSUME NEW x \in Reservation
      PROVE  /\ StateOf(res)[x] = CallState(res[x]) /\ RolesOf(res)[x] = CallRole(res[x])
             /\ StateOf(res')[x] = CallState(res'[x]) /\ RolesOf(res')[x] = CallRole(res'[x])
  BY DEF StateOf, RolesOf
<1>2. \A x \in Reservation : CallState(res[x]) # "inDoubt"
  BY CallStates DEF HasUnresolved, CallState
<1>3. res[r].ack = FALSE
  BY <1>typ DEF Sound, Settlements, Ledger, Entry
<1>4. CallState(res[r]) = "idle" /\ CallState(res'[r]) = "inDoubt"
  BY <1>typ, <1>3, WithDispatchFields, CallStates DEF Blocking, Acked
<1>5. ASSUME NEW x \in Reservation, x # r
      PROVE  CallState(res'[x]) = CallState(res[x]) /\ CallRole(res'[x]) = CallRole(res[x])
  BY <1>typ, <1>5, WithDispatchFields DEF CallState, CallRole, Acked, Blocking
<1>6. CallRole(res'[r]) = role
  BY <1>typ, <1>4, WithDispatchFields DEF CallRole
<1>7. made = used
  <2>1. ASSUME NEW x \in Reservation
        PROVE  CallState(res[x]) # "idle" <=> records[x].kind # "none"
    <3>1. /\ records[x].kind \in {"none", "unknown", "known"}
          /\ res[x].st = "SETTLED_KNOWN" <=> records[x].kind = "known"
          /\ records[x].kind = "unknown" => res[x].st = "UNRESOLVED"
          /\ res[x].ack => res[x].st = "UNRESOLVED" /\ records[x].kind = "unknown"
      BY <1>typ, RecordKinds DEF Sound, Settlements, RecordsFit, Unknown
    <3>2. Blocking(res[x]) => Acked(res[x])
      BY DEF HasUnresolved
    <3> QED
      BY <3>1, <3>2 DEF CallState, Acked, Blocking
  <2>2. ASSUME NEW x \in Reservation, CallState(res[x]) # "idle"
        PROVE  res[x].op # None /\ CallRole(res[x]) = RoleOf[res[x].op]
    <3>1. res[x].st # "ABSENT"
      BY <2>2 DEF CallState, Acked, Blocking
    <3>2. res[x].op \in Operation
      BY <3>1 DEF Sound, RecordsFit
    <3> QED
      BY <2>2, <3>2, NoneAssumption DEF CallRole
  <2> QED
    BY <1>1, <2>1, <2>2
<1>8. Cardinality(made) < MaxCalls[role]
  BY <1>7 DEF CallsOf
<1>9. /\ StateOf(res') = [StateOf(res) EXCEPT ![r] = "inDoubt"]
      /\ RolesOf(res') = [RolesOf(res) EXCEPT ![r] = role]
  BY <1>4, <1>5, <1>6 DEF StateOf, RolesOf
<1>10. StateOf(res)[r] = "idle" /\ \A x \in Reservation : StateOf(res)[x] # "inDoubt"
  BY <1>1, <1>2, <1>4
<1>11. Cardinality(Contract!Made(role)) < MaxCalls[role]
  <2>1. Contract!Made(role) = made
    BY DEF Contract!Made, StateOf, RolesOf
  <2> QED
    BY <1>8, <2>1
<1>12. [x \in Reservation |-> CallState(res'[x])]
         = [[x \in Reservation |-> CallState(res[x])] EXCEPT ![r] = "inDoubt"]
  BY <1>9 DEF StateOf
<1>13. [x \in Reservation |-> CallRole(res'[x])]
         = [[x \in Reservation |-> CallRole(res[x])] EXCEPT ![r] = role]
  BY <1>9 DEF RolesOf
<1> HIDE DEF role
<1> QED
  <2>1. [x \in Reservation |-> CallState(res[x])][r] = "idle"
    BY <1>10 DEF StateOf
  <2>2. \A d \in Reservation : [x \in Reservation |-> CallState(res[x])][d] # "inDoubt"
    BY <1>10 DEF StateOf
  <2> QED
    BY <1>11, <1>12, <1>13, <2>1, <2>2, SameCardinality DEF Contract!Dispatch, role

\* The three transitions of the contract and its stuttering, in terms of what a
\* step does to the reservations and the latch.
LEMMA StutterStep ==
  ASSUME StateOf(res') = StateOf(res), RolesOf(res') = RolesOf(res), latch' = latch
  PROVE  UNCHANGED Contract!cvars
BY ContractVars

\* A settlement is the contract's Account, and may trip the Sentinel.
LEMMA AccountStep ==
  ASSUME TypeInv, NEW r \in Reservation, NEW e \in Entry, e.op = res[r].op,
         CallState(res[r]) = "inDoubt", CallState(e) = "accounted",
         res' = [res EXCEPT ![r] = e], latch # None => latch' # None
  PROVE  Contract!Account(r)
<1>1. /\ res'[r] = e
      /\ \A x \in Reservation : x # r => res'[x] = res[x]
  BY Typed DEF Ledger
<1>2. CallRole(e) = CallRole(res[r])
  BY DEF CallRole
<1>3. [x \in Reservation |-> CallState(res'[x])]
        = [[x \in Reservation |-> CallState(res[x])] EXCEPT ![r] = "accounted"]
  <2>1. \A x \in Reservation : CallState(res'[x]) = IF x = r THEN "accounted" ELSE CallState(res[x])
    BY <1>1
  <2> QED
    BY <2>1, Zenon
<1>4. [x \in Reservation |-> CallRole(res'[x])] = [x \in Reservation |-> CallRole(res[x])]
  BY <1>1, <1>2
<1>5. [x \in Reservation |-> CallState(res[x])][r] = "inDoubt"
  OBVIOUS
<1>6. (latch' # None) \in {latch # None, TRUE}
  OBVIOUS
<1> QED
  BY <1>3, <1>4, <1>5, <1>6 DEF Contract!Account

\* A human's acknowledgement is the contract's Accept.
LEMMA AcceptStep ==
  ASSUME TypeInv, NEW r \in Reservation, NEW e \in Entry, e.op = res[r].op,
         CallState(res[r]) = "inDoubt", CallState(e) = "accepted",
         res' = [res EXCEPT ![r] = e], latch' = latch
  PROVE  Contract!Accept(r)
<1>1. /\ res'[r] = e
      /\ \A x \in Reservation : x # r => res'[x] = res[x]
  BY Typed DEF Ledger
<1>2. CallRole(e) = CallRole(res[r])
  BY DEF CallRole
<1>3. [x \in Reservation |-> CallState(res'[x])]
        = [[x \in Reservation |-> CallState(res[x])] EXCEPT ![r] = "accepted"]
  <2>1. \A x \in Reservation : CallState(res'[x]) = IF x = r THEN "accepted" ELSE CallState(res[x])
    BY <1>1
  <2> QED
    BY <2>1, Zenon
<1>4. [x \in Reservation |-> CallRole(res'[x])] = [x \in Reservation |-> CallRole(res[x])]
  BY <1>1, <1>2
<1>5. [x \in Reservation |-> CallState(res[x])][r] = "inDoubt"
  OBVIOUS
<1> QED
  BY <1>3, <1>4, <1>5 DEF Contract!Accept

\* The empty loop is the contract's initial state.
LEMMA ContractInit == Init => Contract!CInit
<1> SUFFICES ASSUME Init PROVE Contract!CInit
  OBVIOUS
<1>1. \A r \in Reservation : res[r] = Blank
  BY DEF Init, NoLedger
<1>2. CallState(Blank) = "idle" /\ CallRole(Blank) = None
  BY DEF CallState, CallRole, Blank, Acked, Blocking
<1> QED
  BY <1>1, <1>2 DEF Init, Contract!CInit

\* Every step of the protocol is a step of the contract or leaves it unchanged.
LEMMA ContractStep == IInv /\ [Next]_vars => [Contract!CNext]_(Contract!cvars)
<1> SUFFICES ASSUME IInv, [Next]_vars PROVE [Contract!CNext]_(Contract!cvars)
  OBVIOUS
<1>inv. /\ TypeInv /\ Sound(res, records, latch, physical)
        /\ \A p \in Process : SurfaceOf(p)
  BY IInvParts
<1>typ. res \in Ledger /\ \A r \in Reservation : res[r] \in Entry
  BY <1>inv, Typed DEF Ledger
<1>rec. /\ StateOf(Reconciled(res)) = StateOf(res)
        /\ RolesOf(Reconciled(res)) = RolesOf(res)
  BY <1>inv, <1>typ, ReconciledUnseen DEF Sound
<1>0. CASE res' = res /\ latch' = latch
  BY <1>0, StutterStep
<1>1. ASSUME NEW p \in Process, NEW w \in WriteResult, LoadAndReconcile(p, w)
      PROVE  [Contract!CNext]_(Contract!cvars)
  BY <1>1, <1>rec, StutterStep DEF LoadAndReconcile
<1>2. ASSUME NEW p \in Process, NEW w \in WriteResult, NEW r \in Reservation,
             Reserve(p, r, w)
      PROVE  [Contract!CNext]_(Contract!cvars)
  <2> DEFINE next == WithReservation(cache[p], r, cur[p])
             n == Reconciled(res)
  <2>1. cache[p] = n /\ cache[p][r] = Blank /\ cache[p] \in Ledger /\ cur[p] \in CallInfo
    BY <1>2, <1>inv, Typed DEF Reserve, Unused, SurfaceOf, Deciding
  <2>2. ASSUME NEW x \in Reservation
        PROVE  /\ CallState(next[x]) = CallState(n[x])
               /\ CallState(n[x]) # "idle" => next[x].op = n[x].op
    <3>1. CASE x = r
      <4>1. CallState(Blank) = "idle"
        BY DEF CallState, Blank, Acked, Blocking
      <4>2. CallState(next[r]) = "idle"
        BY <2>1, WithReservationFields DEF CallState, Acked, Blocking
      <4> QED
        BY <2>1, <3>1, <4>1, <4>2
    <3>2. CASE x # r
      BY <2>1, <3>2, WithReservationFields DEF CallState, Acked, Blocking
    <3> QED
      BY <3>1, <3>2
  <2>3. res' \in {res, next} /\ latch' = latch
    BY <1>2 DEF Reserve
  <2> HIDE DEF next, n
  <2>4. StateOf(next) = StateOf(n) /\ RolesOf(next) = RolesOf(n)
    BY <2>2, Unseen
  <2> QED
    BY <1>rec, <2>3, <2>4, StutterStep DEF n
<1>3. ASSUME NEW p \in Process, NEW w \in WriteResult, MarkDispatching(p, w)
      PROVE  [Contract!CNext]_(Contract!cvars)
  <2> DEFINE r == cur[p].rid
  <2>1. /\ cache[p] = res /\ view[p] = records /\ r \in Reservation
        /\ res[r].st = "RESERVED" /\ res[r].op = cur[p].op /\ cur[p].op \in Operation
        /\ latch = None /\ ~HasUnresolved(cache[p])
        /\ CallsOf(RoleOf[cur[p].op], cache[p], view[p]) < MaxCalls[RoleOf[cur[p].op]]
    BY <1>3, <1>inv DEF MarkDispatching, SurfaceOf, InFlight, StatusAt
  <2>2. latch' = latch /\ res' \in {res, WithDispatch(res, r)}
    BY <1>3, <2>1 DEF MarkDispatching
  <2>3. CASE res' = WithDispatch(res, r)
    <3>1. Contract!Dispatch(r, RoleOf[res[r].op])
      BY <1>inv, <2>1, <2>2, <2>3, DispatchStep
    <3>2. RoleOf[res[r].op] \in Role
      BY <2>1, ShapeAssumption
    <3> QED
      BY <2>1, <3>1, <3>2 DEF Contract!CNext
  <2> QED
    BY <1>0, <2>2, <2>3
<1>4. ASSUME NEW p \in Process, NEW w \in WriteResult, NEW next \in {"ready", "retry"},
             SettleKnown(p, w, next)
      PROVE  [Contract!CNext]_(Contract!cvars)
  <2> DEFINE r == cur[p].rid
             e == [res[r] EXCEPT !.st = "SETTLED_KNOWN", !.zero = (physical[r].kind = "zero")]
             commit == /\ Published(w)
                       /\ res[r].st = "DISPATCHING" /\ records[r] = NoRecord
  <2>1. cache[p] = res /\ r \in Reservation /\ res[r].st = "DISPATCHING"
    BY <1>4, <1>inv DEF SettleKnown, SurfaceOf, InFlight, StatusAt
  <2>2. /\ res' = IF commit THEN [res EXCEPT ![r] = e] ELSE res
        /\ latch' = IF commit /\ physical[r].usage > AnomalyLimit /\ latch = None
                    THEN r ELSE latch
    BY <1>4, <2>1 DEF SettleKnown
  <2>3. CASE commit
    <3>1. e \in Entry
      BY <1>typ, <2>1, EntryUpdates DEF Status
    <3>2. e.op = res[r].op /\ e.st = "SETTLED_KNOWN"
      BY <1>typ, <2>1 DEF Entry
    <3>3. CallState(res[r]) = "inDoubt"
      <4>1. ~Acked(res[r])
        BY <2>1 DEF Acked
      <4> QED
        BY <2>1, <4>1, CallStates DEF Blocking
    <3>4. CallState(e) = "accounted"
      BY <3>2, CallStates
    <3>5. res' = [res EXCEPT ![r] = e] /\ (latch # None => latch' # None)
      BY <2>2, <2>3
    <3> HIDE DEF e
    <3>6. Contract!Account(r)
      BY <1>inv, <2>1, <3>1, <3>2, <3>3, <3>4, <3>5, AccountStep
    <3> QED
      BY <2>1, <3>6 DEF Contract!CNext
  <2>4. CASE ~commit
    BY <1>0, <2>2, <2>4
  <2> QED
    BY <2>3, <2>4
<1>5. ASSUME NEW p \in Process, NEW w \in WriteResult, SettleUnknown(p, w)
      PROVE  [Contract!CNext]_(Contract!cvars)
  <2> DEFINE r == cur[p].rid
             n == [res EXCEPT ![r].st = "UNRESOLVED"]
  <2>1. cache[p] = res /\ r \in Reservation /\ res[r].st = "DISPATCHING"
    BY <1>5, <1>inv DEF SettleUnknown, SurfaceOf, InFlight, StatusAt
  <2>2. latch' = latch /\ res' \in {res, n}
    BY <1>5, <2>1 DEF SettleUnknown
  <2>3. res[r].ack = FALSE
    BY <1>inv, <1>typ, <2>1 DEF Sound, Settlements, Entry
  <2>4. n[r].st = "UNRESOLVED" /\ n[r].op = res[r].op /\ n[r].ack = FALSE
    BY <1>typ, <2>1, <2>3 DEF Entry, Ledger
  <2>5. \A x \in Reservation : x # r => n[x] = res[x]
    BY <1>typ, <2>1 DEF Ledger
  <2> HIDE DEF n
  <2>6. CallState(n[r]) = "inDoubt" /\ CallState(res[r]) = "inDoubt"
    BY <2>1, <2>3, <2>4, CallStates DEF Blocking, Acked
  <2>7. StateOf(n) = StateOf(res) /\ RolesOf(n) = RolesOf(res)
    BY <2>4, <2>5, <2>6, Unseen
  <2> QED
    BY <2>2, <2>7, StutterStep
<1>6. ASSUME NEW r \in Reservation, NEW excl \in SUBSET Family, Acknowledge(r, excl)
      PROVE  [Contract!CNext]_(Contract!cvars)
  <2>1. PICK ev \in Evidence :
          res' = [res EXCEPT ![r].ack = TRUE, ![r].ev = ev, ![r].excl = excl]
    BY <1>6 DEF Acknowledge
  <2> DEFINE e == [res[r] EXCEPT !.ack = TRUE, !.ev = ev, !.excl = excl]
  <2>2. e \in Entry /\ e.st = res[r].st /\ e.op = res[r].op /\ e.ack = TRUE
    BY <1>typ DEF Entry
  <2>3. res' = [res EXCEPT ![r] = e]
    BY <1>typ, <2>1 DEF Ledger
  <2>4. res[r].st = "UNRESOLVED" /\ ~res[r].ack /\ latch' = latch
    BY <1>6 DEF Acknowledge
  <2> HIDE DEF e
  <2>5. CallState(res[r]) = "inDoubt" /\ CallState(e) = "accepted"
    BY <2>2, <2>4, CallStates DEF Blocking, Acked
  <2>6. Contract!Accept(r)
    BY <1>inv, <2>2, <2>3, <2>4, <2>5, AcceptStep
  <2> QED
    BY <2>6 DEF Contract!CNext
<1>7. ASSUME NEW r \in Reservation, NEW excl \in SUBSET Family, Amend(r, excl)
      PROVE  [Contract!CNext]_(Contract!cvars)
  <2>1. res' = [res EXCEPT ![r].excl = res[r].excl \cup excl] /\ latch' = latch
    BY <1>7, <1>typ DEF Amend, Ledger, Entry
  <2>2. /\ res'[r].st = res[r].st /\ res'[r].op = res[r].op /\ res'[r].ack = res[r].ack
        /\ \A x \in Reservation : x # r => res'[x] = res[x]
    BY <1>typ, <2>1 DEF Entry, Ledger
  <2>3. \A x \in Reservation : CallState(res'[x]) = CallState(res[x]) /\ res'[x].op = res[x].op
    BY <2>2 DEF CallState, Acked, Blocking
  <2>4. StateOf(res') = StateOf(res) /\ RolesOf(res') = RolesOf(res)
    BY <2>3, Unseen
  <2> QED
    BY <2>1, <2>4, StutterStep
<1> QED
  BY <1>0, <1>1, <1>2, <1>3, <1>4, <1>5, <1>6, <1>7, Writers

\* The paid-call protocol implements its contract, for every number of
\* processes, calls, roles and ceilings: one call at a time, none while one is
\* in doubt, none over a ceiling, none after an anomaly.
THEOREM ContractImplemented ==
  ASSUME Displacement = FALSE
  PROVE  Spec => ImplementsContract
<1>1. IInv /\ [Next]_vars => IInv'
  BY IInvStep
<1> QED
  BY <1>1, IInvInit, ContractInit, ContractStep, PTL
  DEF Spec, ImplementsContract, Contract!CSpec
=============================================================================
