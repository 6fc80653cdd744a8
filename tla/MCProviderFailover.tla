----------------------- MODULE MCProviderFailover --------------------------
(* Small instances of the provider failover.                              *)
EXTENDS ProviderFailover

\* A Reviewer of two agy families, on a pool each, and a CLI; a Supervisor
\* that shares one of the pools.
Pools == [f \in Family |-> IF f = "opus" THEN "cg" ELSE IF f = "gemini" THEN "gm" ELSE "cx"]
OneReviewer == [p \in Process |-> <<"opus", "gemini", "codex">>]
TwoRoles == [p \in Process |-> IF p = "p1" THEN <<"gemini", "codex">> ELSE <<"gemini">>]
\* The first process may run its operation again.
TwiceAndOnce == [p \in Process |-> IF p = "p1" THEN 2 ELSE 1]

\* Failures the agy transport proved safe, one of the CLI, and an answer of an
\* agent that is not isolated; the other process cools the shared pool.
SafeAndShared == [p \in Process |->
    IF p = "p1" THEN Transient \cup {"isolation", "protocol"} ELSE {"quota"}]
Spawning == [p \in Process |-> {"spawn", "success"}]

AllWired == {Family}
===========================================================================
