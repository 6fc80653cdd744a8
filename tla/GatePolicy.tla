----------------------------- MODULE GatePolicy -----------------------------
(***************************************************************************)
(* What a Gate run amounts to (gatePolicy.js, baselineDiffGate.js,         *)
(* gateFailureIdentity.js).  A run maps each of its commands to whether it *)
(* passed and to the failing tests its output names; output that names     *)
(* none (a build error, a timeout) cannot be compared with anything.       *)
(***************************************************************************)

Passed == [pass |-> TRUE, ids |-> {}]
Failed(ids) == [pass |-> FALSE, ids |-> ids]

\* No baseline Gate ran, or what is recorded of it is not what was frozen.
NoRun == << >>

Failing(run) == {c \in DOMAIN run : ~run[c].pass}
Reliable(result) == result.ids # {}

Fingerprint(run) == UNION {run[c].ids : c \in Failing(run)}

\* Suppression is local to a command: one that did not fail at begin, or was not
\* run then, has nothing but new failures.
FailedBefore(base, c) == IF c \in Failing(base) THEN base[c].ids ELSE {}
\* Mutant of NewFailures: any command's failure at begin excuses any command.
NewFailuresPooled(base, run) == Fingerprint(run) \ Fingerprint(base)
NewFailures(base, run) == UNION {run[c].ids \ FailedBefore(base, c) : c \in Failing(run)}

Comparable(base, run) ==
  /\ base # NoRun
  /\ \A c \in Failing(run) :
       Reliable(run[c]) /\ (c \in Failing(base) => Reliable(base[c]))

GateVerdict(base, run) ==
  CASE Failing(run) = {} -> "PASS"
    [] Failing(run) # {} /\ Comparable(base, run) /\ NewFailures(base, run) = {} -> "WARN"
    [] OTHER -> "FAIL"

=============================================================================
