-------------------------- MODULE LoopLeaseProofs --------------------------
(***************************************************************************)
(* The safety of the loop lease, proved for any number of contending       *)
(* calls, hosts, attempts and crashes, and any lease and guard ages.       *)
(***************************************************************************)
EXTENDS LoopLease, TLAPS

\* Read's and CheckUnderGuard's test: the lock file is corrupt, or its owner is
\* gone as far as c can tell.
Stale(c) == lock = Corrupt \/ (lock \in Claimant /\ Reclaimable(c, lock))

\* What the actions share: each next state sets them all.
USE DEF vars, files, mine, past
-----------------------------------------------------------------------------
\* The next attempt is counted from zero again once the bound is reached.
LEMMA RetryType ==
  ASSUME TypeOK, NEW c \in Claimant, Retry(c)
  PROVE  tries' \in [Claimant -> 0 .. MaxTries - 1] /\ pc' \in [Claimant -> PcLabel]
<1>1. tries[c] \in 0 .. MaxTries - 1
  BY DEF TypeOK
<1>2. tries[c] + 1 < MaxTries => tries[c] + 1 \in 0 .. MaxTries - 1
  BY <1>1, LeaseAssumption
<1>3. 0 \in 0 .. MaxTries - 1
  BY LeaseAssumption
<1> QED
  BY <1>2, <1>3 DEF TypeOK, Retry, Goto, PcLabel

\* A lease starts free or corrupt, with every clock at zero.
LEMMA TypeInit == Init => TypeOK
<1> SUFFICES ASSUME Init
             PROVE  TypeOK
  OBVIOUS
<1>1. lock \in Claimant \cup {None, Corrupt}
  BY LeaseAssumption DEF Init
<1>2. left \in [Claimant -> 0 .. Ttl] /\ age \in [Claimant -> 0 .. OrphanAge + 1]
  BY LeaseAssumption DEF Init
<1>3. tries \in [Claimant -> 0 .. MaxTries - 1]
  BY LeaseAssumption DEF Init
<1>4. held \in [Claimant -> BOOLEAN] /\ takeovers \in BOOLEAN
  BY Zenon DEF Init
<1> QED
  BY <1>1, <1>2, <1>3, <1>4 DEF Init, TypeOK, PcLabel

\* Every step keeps every variable in its type.
LEMMA TypeStep == TypeOK /\ [Next]_vars => TypeOK'
<1> SUFFICES ASSUME TypeOK, [Next]_vars
             PROVE  TypeOK'
  OBVIOUS
<1> USE LeaseAssumption
<1>1. ASSUME NEW c \in Claimant, Acquire(c)
      PROVE  TypeOK'
  BY <1>1 DEF Acquire, TypeOK, Goto, PcLabel
<1>2. ASSUME NEW c \in Claimant, Link(c)
      PROVE  TypeOK'
  <2>1. held' \in [Claimant -> BOOLEAN]
    BY <1>2, Zenon DEF Link, TypeOK
  <2>2. CASE lock = None
    BY <1>2, <2>1, <2>2 DEF Link, TypeOK, Goto, PcLabel
  <2>3. CASE lock # None
    BY <1>2, <2>1, <2>3 DEF Link, TypeOK, Goto, PcLabel
  <2> QED
    BY <2>2, <2>3
<1>3. ASSUME NEW c \in Claimant, Read(c)
      PROVE  TypeOK'
  <2>1. CASE lock = None
    BY <1>3, <2>1, RetryType DEF Read, TypeOK
  <2>2. CASE lock # None /\ Stale(c)
    BY <1>3, <2>2 DEF Read, TypeOK, Goto, PcLabel, Stale
  <2>3. CASE lock # None /\ ~Stale(c)
    BY <1>3, <2>3 DEF Read, TypeOK, Goto, PcLabel, Stale
  <2> QED
    BY <2>1, <2>2, <2>3
<1>4. ASSUME NEW c \in Claimant, CreateGuard(c)
      PROVE  TypeOK'
  BY <1>4 DEF CreateGuard, TypeOK, Goto, PcLabel
<1>5. ASSUME NEW c \in Claimant, StampGuard(c)
      PROVE  TypeOK'
  BY <1>5 DEF StampGuard, TypeOK, Goto, PcLabel
<1>6. ASSUME NEW c \in Claimant, PeekGuard(c)
      PROVE  TypeOK'
  BY <1>6, RetryType DEF PeekGuard, TypeOK, Goto, PcLabel
<1>7. ASSUME NEW c \in Claimant, TakeGuardOver(c)
      PROVE  TypeOK'
  BY <1>7, RetryType DEF TakeGuardOver, TypeOK
<1>8. ASSUME NEW c \in Claimant, CheckUnderGuard(c)
      PROVE  TypeOK'
  BY <1>8 DEF CheckUnderGuard, TypeOK, Goto, PcLabel
<1>9. ASSUME NEW c \in Claimant, UnlinkStale(c)
      PROVE  TypeOK'
  BY <1>9 DEF UnlinkStale, TypeOK, Goto, PcLabel
<1>10. ASSUME NEW c \in Claimant, ReadGuard(c)
       PROVE  TypeOK'
  BY <1>10, RetryType DEF ReadGuard, TypeOK, Goto, PcLabel
<1>11. ASSUME NEW c \in Claimant, DropGuard(c)
       PROVE  TypeOK'
  BY <1>11, RetryType DEF DropGuard, TypeOK
<1>12. ASSUME NEW c \in Claimant, ReadForRelease(c)
       PROVE  TypeOK'
  BY <1>12 DEF ReadForRelease, TypeOK, Goto, PcLabel
<1>13. ASSUME NEW c \in Claimant, Release(c)
       PROVE  TypeOK'
  BY <1>13 DEF Release, TypeOK, Goto, PcLabel
<1>14. ASSUME NEW c \in Claimant, Heartbeat(c)
       PROVE  TypeOK'
  <2>1. CASE BeatRead(c) /\ lock = c
    BY <2>1 DEF BeatRead, TypeOK
  <2>2. CASE BeatRead(c) /\ lock # c
    <3>1. held' = [held EXCEPT ![c] = FALSE] /\ beat' = beat
      BY <2>2 DEF BeatRead
    <3>2. held' \in [Claimant -> BOOLEAN]
      BY <3>1 DEF TypeOK
    <3> QED
      BY <2>2, <3>1, <3>2 DEF BeatRead, TypeOK
  <2>3. CASE BeatWrite(c)
    <3>1. left' \in [Claimant -> 0 .. Ttl]
      BY <2>3 DEF BeatWrite, TypeOK
    <3> QED
      BY <2>3, <3>1 DEF BeatWrite, TypeOK
  <2> QED
    BY <1>14, <2>1, <2>2, <2>3 DEF Heartbeat
<1>15. ASSUME NEW c \in Claimant, VerifyHeld(c)
       PROVE  TypeOK'
  <2>1. held' \in [Claimant -> BOOLEAN]
    <3>1. held' = [held EXCEPT ![c] = held[c] /\ lock = c]
      BY <1>15 DEF VerifyHeld
    <3>2. CASE held[c] /\ lock = c
      <4>1. held' = [held EXCEPT ![c] = TRUE]
        BY <3>1, <3>2, Zenon
      <4> QED
        BY <4>1 DEF TypeOK
    <3>3. CASE ~(held[c] /\ lock = c)
      <4>1. (held[c] /\ lock = c) = FALSE
        BY <3>3, Zenon
      <4>2. held' = [held EXCEPT ![c] = FALSE]
        BY <3>1, <4>1, Zenon
      <4> QED
        BY <4>2 DEF TypeOK
    <3> QED
      BY <3>2, <3>3
  <2> QED
    BY <1>15, <2>1 DEF VerifyHeld, TypeOK
<1>16. ASSUME NEW c \in Claimant, Crash(c)
       PROVE  TypeOK'
  BY <1>16 DEF Crash, TypeOK, Goto, PcLabel
<1>17. CASE Tick
  <2>1. left' \in [Claimant -> 0 .. Ttl]
    BY <1>17 DEF Tick, TypeOK
  <2>2. age' \in [Claimant -> 0 .. OrphanAge + 1]
    BY <1>17 DEF Tick, TypeOK
  <2> QED
    BY <1>17, <2>1, <2>2 DEF Tick, TypeOK
<1>18. CASE UNCHANGED vars
  BY <1>18 DEF TypeOK
<1> QED
  BY <1>1, <1>2, <1>3, <1>4, <1>5, <1>6, <1>7, <1>8, <1>9, <1>10, <1>11, <1>12, <1>13,
     <1>14, <1>15, <1>16, <1>17, <1>18 DEF Next, Step

\* Lock, guard, clocks, places and histories keep their types in every run.
THEOREM LeaseTypeCorrect == Spec => []TypeOK
BY TypeInit, TypeStep, PTL DEF Spec
-----------------------------------------------------------------------------
\* Mutual exclusion on one host.  Its three parts: who holds has its own lock at
\* the path; who is inside the reclaim guard has its own guard at the path; who
\* is about to unlink still faces a lock without a live owner.
OneHost == \A c, d \in Claimant : HostOf[c] = HostOf[d]

HoldersHaveLock == \A c \in Claimant : pc[c] \in {"holding", "release"} => lock = c

Guarded == {"stamp", "check", "unlink", "unguard", "dropguard"}

ReclaimersHaveGuard == \A c \in Claimant : pc[c] \in Guarded => guard = c

UnlinkIsDue ==
    \A c \in Claimant : pc[c] = "unlink" =>
        lock = Corrupt \/ (lock \in Claimant /\ pc[lock] = "dead")

Exclusion == HoldersHaveLock /\ ReclaimersHaveGuard /\ UnlinkIsDue

ExclusionInv == TypeOK /\ (~takeovers => Exclusion)

\* Nobody holds, reclaims or unlinks at the start.
LEMMA ExclusionInit == Init => Exclusion
BY DEF Init, Exclusion, HoldersHaveLock, ReclaimersHaveGuard, UnlinkIsDue, Guarded

\* A step that moves only c, and to a place where nothing is claimed, keeps the
\* exclusion, lock and guard being as they were.
LEMMA Harmless ==
  ASSUME TypeOK, Exclusion, NEW c \in Claimant, NEW l,
         pc' = [pc EXCEPT ![c] = l], pc[c] # "dead",
         l \notin {"holding", "release", "unlink"} \cup Guarded,
         UNCHANGED <<lock, guard>>
  PROVE  Exclusion'
<1>1. \A d \in Claimant : pc'[d] = IF d = c THEN l ELSE pc[d]
  BY DEF TypeOK
<1>2. \A d \in Claimant : pc[d] = "dead" => pc'[d] = "dead"
  BY <1>1
<1>3. HoldersHaveLock'
  BY <1>1 DEF Exclusion, HoldersHaveLock
<1>4. ReclaimersHaveGuard'
  BY <1>1 DEF Exclusion, ReclaimersHaveGuard
<1>5. UnlinkIsDue'
  BY <1>1, <1>2 DEF Exclusion, UnlinkIsDue
<1> QED
  BY <1>3, <1>4, <1>5 DEF Exclusion

\* A bounded retry is such a move.
LEMMA RetryMove ==
  ASSUME NEW c \in Claimant, Retry(c)
  PROVE  \E l \in {"link", "idle"} : pc' = [pc EXCEPT ![c] = l]
BY DEF Retry, Goto

\* While no live reclaimer's guard is taken over, every step on one host keeps
\* the exclusion.
LEMMA ExclusionStep ==
  ASSUME OneHost, TypeOK, Exclusion, ~takeovers', [Next]_vars
  PROVE  Exclusion'
<1> USE LeaseAssumption
<1> USE DEF Guarded
<1>a. \A c \in Claimant : Stale(c) => lock = Corrupt \/ (lock \in Claimant /\ pc[lock] = "dead")
  BY DEF Stale, Reclaimable, Alive, OneHost
<1>1. ASSUME NEW c \in Claimant, Acquire(c)
      PROVE  Exclusion'
  BY <1>1, Harmless DEF Acquire, Goto
<1>2. ASSUME NEW c \in Claimant, Link(c)
      PROVE  Exclusion'
  <2>1. CASE lock = None
    <3>1. \A d \in Claimant : pc'[d] = IF d = c THEN "holding" ELSE pc[d]
      BY <1>2, <2>1 DEF Link, Goto, TypeOK
    <3>2. lock' = c /\ guard' = guard
      BY <1>2, <2>1 DEF Link
    <3>3. \A d \in Claimant : pc[d] \notin {"holding", "release", "unlink"}
      BY <2>1 DEF Exclusion, HoldersHaveLock, UnlinkIsDue
    <3> QED
      BY <3>1, <3>2, <3>3 DEF Exclusion, HoldersHaveLock, ReclaimersHaveGuard, UnlinkIsDue
  <2>2. CASE lock # None
    BY <1>2, <2>2, Harmless DEF Link, Goto
  <2> QED
    BY <2>1, <2>2
<1>3. ASSUME NEW c \in Claimant, Read(c)
      PROVE  Exclusion'
  <2>1. pc[c] = "read" /\ UNCHANGED <<lock, guard>>
    BY <1>3 DEF Read
  <2>2. \E l \in {"link", "idle", "guard"} : pc' = [pc EXCEPT ![c] = l]
    <3>1. CASE lock = None
      BY <1>3, <3>1, RetryMove DEF Read
    <3>2. CASE lock # None /\ Stale(c)
      BY <1>3, <3>2 DEF Read, Goto, Stale
    <3>3. CASE lock # None /\ ~Stale(c)
      BY <1>3, <3>3 DEF Read, Goto, Stale
    <3> QED
      BY <3>1, <3>2, <3>3
  <2> QED
    BY <2>1, <2>2, Harmless
<1>4. ASSUME NEW c \in Claimant, CreateGuard(c)
      PROVE  Exclusion'
  <2>1. CASE guard = None
    <3>1. \A d \in Claimant : pc'[d] = IF d = c THEN "stamp" ELSE pc[d]
      BY <1>4, <2>1 DEF CreateGuard, Goto, TypeOK
    <3>2. guard' = c /\ lock' = lock /\ pc[c] = "guard"
      BY <1>4, <2>1 DEF CreateGuard
    <3>3. \A d \in Claimant : pc[d] \notin Guarded
      BY <2>1 DEF Exclusion, ReclaimersHaveGuard
    <3> QED
      BY <3>1, <3>2, <3>3 DEF Exclusion, HoldersHaveLock, ReclaimersHaveGuard, UnlinkIsDue
  <2>2. CASE guard # None
    BY <1>4, <2>2, Harmless DEF CreateGuard, Goto
  <2> QED
    BY <2>1, <2>2
<1>5. ASSUME NEW c \in Claimant, StampGuard(c)
      PROVE  Exclusion'
  <2>1. \A d \in Claimant : pc'[d] = IF d = c THEN "check" ELSE pc[d]
    BY <1>5 DEF StampGuard, Goto, TypeOK
  <2> QED
    BY <1>5, <2>1 DEF StampGuard, Exclusion, HoldersHaveLock, ReclaimersHaveGuard, UnlinkIsDue
<1>6. ASSUME NEW c \in Claimant, PeekGuard(c)
      PROVE  Exclusion'
  <2>1. \E l \in {"link", "idle", "takeover"} : pc' = [pc EXCEPT ![c] = l]
    BY <1>6, RetryMove DEF PeekGuard, Goto
  <2> QED
    BY <1>6, <2>1, Harmless DEF PeekGuard
<1>7. ASSUME NEW c \in Claimant, TakeGuardOver(c)
      PROVE  Exclusion'
  <2>1. guard = None \/ pc[guard] = "dead"
    BY <1>7 DEF TakeGuardOver
  <2>2. \A d \in Claimant : pc[d] \notin Guarded
    BY <2>1 DEF Exclusion, ReclaimersHaveGuard
  <2>3. PICK l \in {"link", "idle"} : pc' = [pc EXCEPT ![c] = l]
    BY <1>7, RetryMove DEF TakeGuardOver
  <2>4. \A d \in Claimant : pc'[d] = IF d = c THEN l ELSE pc[d]
    BY <2>3 DEF TypeOK
  <2>5. lock' = lock
    BY <1>7 DEF TakeGuardOver
  <2> QED
    BY <2>2, <2>4, <2>5 DEF Exclusion, HoldersHaveLock, ReclaimersHaveGuard, UnlinkIsDue
<1>8. ASSUME NEW c \in Claimant, CheckUnderGuard(c)
      PROVE  Exclusion'
  <2>1. PICK l \in {"unlink", "unguard"} : /\ pc' = [pc EXCEPT ![c] = l]
                                           /\ l = "unlink" => Stale(c)
    BY <1>8 DEF CheckUnderGuard, Goto, Stale
  <2>2. \A d \in Claimant : pc'[d] = IF d = c THEN l ELSE pc[d]
    BY <2>1 DEF TypeOK
  <2>3. pc[c] = "check" /\ UNCHANGED <<lock, guard>>
    BY <1>8 DEF CheckUnderGuard
  <2>4. \A d \in Claimant : pc[d] = "dead" => pc'[d] = "dead"
    BY <2>2, <2>3
  <2>5. UnlinkIsDue'
    BY <1>a, <2>1, <2>2, <2>3, <2>4 DEF Exclusion, UnlinkIsDue
  <2> QED
    BY <2>2, <2>3, <2>5 DEF Exclusion, HoldersHaveLock, ReclaimersHaveGuard
<1>9. ASSUME NEW c \in Claimant, UnlinkStale(c)
      PROVE  Exclusion'
  <2>1. \A d \in Claimant : pc'[d] = IF d = c THEN "unguard" ELSE pc[d]
    BY <1>9 DEF UnlinkStale, Goto, TypeOK
  <2>2. pc[c] = "unlink" /\ lock' = None /\ guard' = guard
    BY <1>9 DEF UnlinkStale
  <2>3. \A d \in Claimant : pc[d] \notin {"holding", "release"}
    BY <2>2 DEF Exclusion, HoldersHaveLock, UnlinkIsDue
  <2>4. \A d \in Claimant : pc[d] \in Guarded => d = c
    BY <2>2 DEF Exclusion, ReclaimersHaveGuard
  <2> QED
    BY <2>1, <2>2, <2>3, <2>4
    DEF Exclusion, HoldersHaveLock, ReclaimersHaveGuard, UnlinkIsDue
<1>10. ASSUME NEW c \in Claimant, ReadGuard(c)
       PROVE  Exclusion'
  <2>1. PICK l \in {"dropguard", "link", "idle"} : pc' = [pc EXCEPT ![c] = l]
    BY <1>10, RetryMove DEF ReadGuard, Goto
  <2>2. \A d \in Claimant : pc'[d] = IF d = c THEN l ELSE pc[d]
    BY <2>1 DEF TypeOK
  <2>3. pc[c] = "unguard" /\ UNCHANGED <<lock, guard>>
    BY <1>10 DEF ReadGuard
  <2> QED
    BY <2>2, <2>3 DEF Exclusion, HoldersHaveLock, ReclaimersHaveGuard, UnlinkIsDue
<1>11. ASSUME NEW c \in Claimant, DropGuard(c)
       PROVE  Exclusion'
  <2>1. PICK l \in {"link", "idle"} : pc' = [pc EXCEPT ![c] = l]
    BY <1>11, RetryMove DEF DropGuard
  <2>2. \A d \in Claimant : pc'[d] = IF d = c THEN l ELSE pc[d]
    BY <2>1 DEF TypeOK
  <2>3. pc[c] = "dropguard" /\ lock' = lock
    BY <1>11 DEF DropGuard
  <2>4. \A d \in Claimant : pc[d] \in Guarded => d = c
    BY <2>3 DEF Exclusion, ReclaimersHaveGuard
  <2> QED
    BY <2>2, <2>3, <2>4 DEF Exclusion, HoldersHaveLock, ReclaimersHaveGuard, UnlinkIsDue
<1>12. ASSUME NEW c \in Claimant, ReadForRelease(c)
       PROVE  Exclusion'
  <2>1. PICK l \in {"release", "done"} : pc' = [pc EXCEPT ![c] = l]
    BY <1>12 DEF ReadForRelease, Goto
  <2>2. \A d \in Claimant : pc'[d] = IF d = c THEN l ELSE pc[d]
    BY <2>1 DEF TypeOK
  <2>3. pc[c] = "holding" /\ UNCHANGED <<lock, guard>>
    BY <1>12 DEF ReadForRelease
  <2> QED
    BY <2>2, <2>3 DEF Exclusion, HoldersHaveLock, ReclaimersHaveGuard, UnlinkIsDue
<1>13. ASSUME NEW c \in Claimant, Release(c)
       PROVE  Exclusion'
  <2>1. \A d \in Claimant : pc'[d] = IF d = c THEN "done" ELSE pc[d]
    BY <1>13 DEF Release, Goto, TypeOK
  <2>2. pc[c] = "release" /\ lock' = None /\ guard' = guard
    BY <1>13 DEF Release
  <2>3. \A d \in Claimant : pc[d] \in {"holding", "release"} => d = c
    BY <2>2 DEF Exclusion, HoldersHaveLock
  <2>4. \A d \in Claimant : pc[d] # "unlink"
    BY <2>2 DEF Exclusion, HoldersHaveLock, UnlinkIsDue
  <2> QED
    BY <2>1, <2>2, <2>3, <2>4
    DEF Exclusion, HoldersHaveLock, ReclaimersHaveGuard, UnlinkIsDue
<1>14. ASSUME NEW c \in Claimant, Heartbeat(c) \/ VerifyHeld(c)
       PROVE  Exclusion'
  <2>1. UNCHANGED <<lock, guard, pc>>
    BY <1>14 DEF Heartbeat, BeatRead, BeatWrite, VerifyHeld
  <2> QED
    BY <2>1 DEF Exclusion, HoldersHaveLock, ReclaimersHaveGuard, UnlinkIsDue
<1>15. ASSUME NEW c \in Claimant, Crash(c)
       PROVE  Exclusion'
  BY <1>15, Harmless DEF Crash, Goto
<1>16. CASE Tick \/ UNCHANGED vars
  <2>1. UNCHANGED <<lock, guard, pc>>
    BY <1>16 DEF Tick
  <2> QED
    BY <2>1 DEF Exclusion, HoldersHaveLock, ReclaimersHaveGuard, UnlinkIsDue
<1> QED
  BY <1>1, <1>2, <1>3, <1>4, <1>5, <1>6, <1>7, <1>8, <1>9, <1>10, <1>11, <1>12, <1>13,
     <1>14, <1>15, <1>16 DEF Next, Step

\* A guard once taken over stays recorded as such.
LEMMA TakeoversStay == [Next]_vars /\ takeovers => takeovers'
<1> SUFFICES ASSUME [Next]_vars, takeovers
             PROVE  takeovers'
  OBVIOUS
<1> QED
  BY DEF Next, Step, Heartbeat, Tick, Acquire, Link, Read, CreateGuard, StampGuard, PeekGuard,
     TakeGuardOver, CheckUnderGuard, UnlinkStale, ReadGuard, DropGuard, ReadForRelease,
     Release, BeatRead, BeatWrite, VerifyHeld, Crash

\* On one host two calls never hold the loop together, whatever crashed before,
\* unless a contender took the guard of a live reclaimer for an orphan.
THEOREM SoleHolder == Spec => []SoleHolderUnlessGuardTaken
<1>1. CASE OneHost
  <2>1. Init => ExclusionInv
    BY TypeInit, ExclusionInit DEF ExclusionInv
  <2>2. ExclusionInv /\ [Next]_vars => ExclusionInv'
    BY <1>1, TypeStep, ExclusionStep, TakeoversStay DEF ExclusionInv
  <2>3. ExclusionInv => SoleHolderUnlessGuardTaken
    BY DEF ExclusionInv, Exclusion, HoldersHaveLock, SoleHolderUnlessGuardTaken
  <2> QED
    BY <2>1, <2>2, <2>3, PTL DEF Spec
<1>2. CASE ~OneHost
  <2>1. SoleHolderUnlessGuardTaken
    BY <1>2 DEF OneHost, SoleHolderUnlessGuardTaken
  <2> QED
    BY <2>1, PTL
<1> QED
  BY <1>1, <1>2
-----------------------------------------------------------------------------
\* The lock at the path is the last one published.
LastIsPublished ==
    /\ \A c \in Claimant : published[c] <= links
    /\ lock \in Claimant =>
          /\ published[lock] = links
          /\ \A c \in Claimant : c # lock => published[c] < links

\* At the start no lock of a claimant is published.
LEMMA LastInit == Init => LastIsPublished
BY LeaseAssumption DEF Init, LastIsPublished

\* Only Link publishes, and it publishes the next lock.
LEMMA LastStep == TypeOK /\ LastIsPublished /\ [Next]_vars => LastIsPublished'
<1> SUFFICES ASSUME TypeOK, LastIsPublished, [Next]_vars
             PROVE  LastIsPublished'
  OBVIOUS
<1>1. ASSUME NEW c \in Claimant, Link(c), lock = None
      PROVE  LastIsPublished'
  <2>1. lock' = c /\ links' = links + 1 /\ published' = [published EXCEPT ![c] = links + 1]
    BY <1>1 DEF Link
  <2>2. \A d \in Claimant : published'[d] = IF d = c THEN links + 1 ELSE published[d]
    BY <2>1 DEF TypeOK
  <2>3. \A d \in Claimant : published[d] \in Nat /\ published[d] <= links
    BY DEF TypeOK, LastIsPublished
  <2>4. links \in Nat
    BY DEF TypeOK
  <2> QED
    BY <2>1, <2>2, <2>3, <2>4 DEF LastIsPublished
<1>2. ASSUME UNCHANGED <<links, published>>, lock' \in {lock, None}
      PROVE  LastIsPublished'
  BY <1>2, LeaseAssumption DEF LastIsPublished
<1>3. ASSUME NEW c \in Claimant, Link(c), lock # None
      PROVE  UNCHANGED <<links, published>> /\ lock' \in {lock, None}
  BY <1>3 DEF Link
<1>4. ASSUME NEW c \in Claimant, Step(c), ~Link(c)
      PROVE  UNCHANGED <<links, published>> /\ lock' \in {lock, None}
  BY <1>4 DEF Step, Acquire, Read, CreateGuard, StampGuard, PeekGuard, TakeGuardOver,
     CheckUnderGuard, UnlinkStale, ReadGuard, DropGuard, ReadForRelease, Release
<1>5. ASSUME NEW c \in Claimant, Heartbeat(c) \/ VerifyHeld(c) \/ Crash(c)
      PROVE  UNCHANGED <<links, published>> /\ lock' \in {lock, None}
  BY <1>5 DEF Heartbeat, BeatRead, BeatWrite, VerifyHeld, Crash
<1>6. CASE Tick \/ UNCHANGED vars
  BY <1>2, <1>6 DEF Tick
<1> QED
  BY <1>1, <1>2, <1>3, <1>4, <1>5, <1>6 DEF Next

\* Ownership is confirmed in the order the locks were published, on any hosts and
\* whatever guards are taken over.
THEOREM ConfirmationsInOrder == Spec => ConfirmationsFollowPublication
<1> DEFINE Ordered == confirmer' # confirmer /\ confirmer # None
                          => published[confirmer] < published[confirmer']
<1>1. TypeOK /\ LastIsPublished /\ [Next]_vars => [Ordered]_vars
  <2> SUFFICES ASSUME TypeOK, LastIsPublished, [Next]_vars,
                      confirmer' # confirmer, confirmer # None
               PROVE  published[confirmer] < published[confirmer']
    OBVIOUS
  <2>1. PICK c \in Claimant : VerifyHeld(c)
    BY DEF Next, Step, Heartbeat, Tick, Acquire, Link, Read, CreateGuard, StampGuard, PeekGuard,
       TakeGuardOver, CheckUnderGuard, UnlinkStale, ReadGuard, DropGuard, ReadForRelease,
       Release, BeatRead, BeatWrite, Crash
  <2>2. confirmer' = c /\ held'[c]
    BY <2>1 DEF VerifyHeld
  <2>3. lock = c
    BY <2>1, <2>2 DEF VerifyHeld, TypeOK
  <2>4. confirmer \in Claimant /\ confirmer # lock
    BY <2>2, <2>3 DEF TypeOK
  <2> QED
    BY <2>2, <2>3, <2>4 DEF LastIsPublished
<1> QED
  BY <1>1, TypeInit, TypeStep, LastInit, LastStep, PTL
  DEF Spec, ConfirmationsFollowPublication

\* Nothing but Link puts a claimant's lock at the path, and only at a free one.
THEOREM LeaseHandover == Spec => LeaseChangesHandsThroughFree
<1> DEFINE Handover == (lock \in Claimant /\ lock' # lock) => lock' = None
<1>1. [Next]_vars => [Handover]_vars
  <2> SUFFICES ASSUME [Next]_vars, lock \in Claimant, lock' # lock
               PROVE  lock' = None
    OBVIOUS
  <2>1. ASSUME NEW c \in Claimant, Link(c)
        PROVE  FALSE
    BY <2>1, LeaseAssumption DEF Link
  <2>2. ASSUME NEW c \in Claimant, UnlinkStale(c) \/ Release(c)
        PROVE  lock' = None
    BY <2>2 DEF UnlinkStale, Release
  <2>3. ASSUME NEW c \in Claimant, Step(c), ~Link(c), ~UnlinkStale(c), ~Release(c)
        PROVE  lock' = lock
    BY <2>3 DEF Step, Acquire, Read, CreateGuard, StampGuard, PeekGuard, TakeGuardOver,
       CheckUnderGuard, ReadGuard, DropGuard, ReadForRelease
  <2>4. ASSUME NEW c \in Claimant, Heartbeat(c) \/ VerifyHeld(c) \/ Crash(c)
        PROVE  lock' = lock
    BY <2>4 DEF Heartbeat, BeatRead, BeatWrite, VerifyHeld, Crash
  <2>5. CASE Tick \/ UNCHANGED vars
    BY <2>5 DEF Tick
  <2> QED
    BY <2>1, <2>2, <2>3, <2>4, <2>5 DEF Next
<1> QED
  BY <1>1, PTL DEF Spec, LeaseChangesHandsThroughFree
=============================================================================
