--------------------------- MODULE MCSpendLedger ---------------------------
(***************************************************************************)
(* A small loop for TLC: one Reviewer operation and one Supervisor         *)
(* operation.                                                              *)
(***************************************************************************)
EXTENDS SpendLedger, TLC

CONSTANTS p1, p2, r1, r2, r3, chunk, supervise, e1, e2, f1, f2

TwoRoles == {"reviewer", "supervisor"}
MCRoleOf == [op \in {chunk, supervise} |->
                IF op = chunk THEN "reviewer" ELSE "supervisor"]
OneRoleOf == [op \in {chunk} |-> "reviewer"]

\* A chunk keeps its operation id when the Worker changes the diff before the
\* round completes: it may then be reviewed on other evidence.
MCEvidenceOf == [op \in {chunk, supervise} |-> IF op = chunk THEN {e1} ELSE {e2}]
ChangedDiff  == [op \in {chunk} |-> {e1, e2}]
SameDiff     == [op \in {chunk} |-> {e1}]

TwoCallsEach == [r \in TwoRoles |-> 2]

\* Processes, reservations and families are alike, and under ChangedDiff so are
\* the review states.
Interchangeable ==
    UNION {Permutations({r1, r2, r3}), Permutations({p1, p2}), Permutations({e1, e2}),
           Permutations({f1, f2})}
=============================================================================
