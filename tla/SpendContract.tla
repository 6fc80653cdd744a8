--------------------------- MODULE SpendContract ---------------------------
(***************************************************************************)
(* What the paid-call protocol promises, without processes, caches, leases *)
(* or crashes: model calls happen one at a time, a call whose outcome is   *)
(* not yet accounted stops every other, no role makes more calls than its  *)
(* ceiling, and after one anomalous call there is no further call.         *)
(***************************************************************************)
EXTENDS Naturals, FiniteSets

CONSTANTS Call, Role, MaxCalls, NoRole

VARIABLES
    state,      \* Call -> idle | inDoubt | accounted | accepted
    role,       \* Call -> the role that made it, NoRole while idle
    tripped     \* has the Token Sentinel latched?

cvars == <<state, role, tripped>>

CInit ==
    /\ state = [c \in Call |-> "idle"]
    /\ role = [c \in Call |-> NoRole]
    /\ tripped = FALSE

Made(r) == {c \in Call : state[c] # "idle" /\ role[c] = r}

\* From here on the call may have reached the provider.
Dispatch(c, r) ==
    /\ state[c] = "idle"
    /\ ~tripped
    /\ \A d \in Call : state[d] # "inDoubt"
    /\ Cardinality(Made(r)) < MaxCalls[r]
    /\ state' = [state EXCEPT ![c] = "inDoubt"]
    /\ role' = [role EXCEPT ![c] = r]
    /\ UNCHANGED tripped

\* Its usage is on the books, and may have tripped the Sentinel.
Account(c) ==
    /\ state[c] = "inDoubt"
    /\ state' = [state EXCEPT ![c] = "accounted"]
    /\ tripped' \in {tripped, TRUE}
    /\ UNCHANGED role

\* A human accepts that its usage will never be known.
Accept(c) ==
    /\ state[c] = "inDoubt"
    /\ state' = [state EXCEPT ![c] = "accepted"]
    /\ UNCHANGED <<role, tripped>>

CNext == \E c \in Call : (\E r \in Role : Dispatch(c, r)) \/ Account(c) \/ Accept(c)

CSpec == CInit /\ [][CNext]_cvars
=============================================================================
