---------------------------- MODULE MCLoopLease ----------------------------
(***************************************************************************)
(* Two or three calls on one host contending for one loop.                 *)
(***************************************************************************)
EXTENDS LoopLease

CONSTANTS a, b, c

OneHost  == [x \in {a, b, c} |-> "h1"]
TwoCalls == [x \in {a, b} |-> "h1"]

NoLock  == {None}
AnyLock == {None, Corrupt}
=============================================================================
