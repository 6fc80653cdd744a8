------------------------ MODULE MCReviewController ------------------------
(* Small instances of the review controller.                               *)
EXTENDS ReviewController

\* A finding that names one frozen requirement.
ObligationOf == [f \in Finding |-> "r1"]

\* One file of three contents; two files of two.
OneFile == << 0..2 >>
TwoFiles == << 0..1, 0..1 >>

\* A review holds one file, or two files in two chunks.
OneChunk == {[size |-> 1, chunks |-> 1]}
OneOrTwo == OneChunk \cup {[size |-> 1, chunks |-> 2]}

\* One command, which passes.
AllPassed == [c \in {"test"} |-> Passed]
OnlyPassed == {AllPassed}

\* At begin the one command of the plan fails one test.  Later it fails the same,
\* and a command of the phase passes or fails a test of the same name.
RedAtBegin == [c \in {"test"} |-> Failed({"t1"})]
RedSince == {[c \in {"test", "phase"} |-> IF c = "test" THEN Failed({"t1"}) ELSE r] :
                r \in {Passed, Failed({"t1"})}}
===========================================================================
