--------------------------- MODULE MCGitEvidence ---------------------------
(* Small instances of the attribution of the Worker's changes.             *)
EXTENDS GitEvidence, TLC

\* Everything encodes as b, b as a.
ToOther == [c \in Content |-> IF c = "b" THEN "a" ELSE "b"]

\* Where a whole path can be opened safely one file is like another.
Interchangeable == Permutations(File)
===========================================================================
