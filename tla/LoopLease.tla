----------------------------- MODULE LoopLease -----------------------------
(***************************************************************************)
(* The cross-process lease of one loop (loopLease.js): the lock file, the  *)
(* `.reclaim` guard file beside it, and the calls that contend for them.   *)
(* Every read, link, rename and unlink is a step of its own, since another *)
(* process may act between any two.                                        *)
(*                                                                         *)
(* A claimant is one reviewloop_review (or CLI) call in a process of its   *)
(* own; its name stands for its token and for the inode of the lock file   *)
(* it links.  An unlinked inode keeps its content, so what a renewal       *)
(* writes is visible only while that inode is the one at the path.         *)
(***************************************************************************)
EXTENDS Naturals

CONSTANTS
    Claimant,
    HostOf,         \* Claimant -> host
    Ttl,            \* ticks a lease lasts without a renewal
    OrphanAge,      \* ticks after which a guard is taken for an orphan
    MaxTries,       \* attempts of one acquisition
    MaxCrashes,     \* bound: process crashes
    Corrupt,        \* a lock file that does not parse
    InitialLock,    \* what may be at the lock path at the start
    None

ASSUME LeaseAssumption ==
    /\ Ttl \in Nat \ {0} /\ OrphanAge \in Nat
    /\ MaxTries \in Nat \ {0} /\ MaxCrashes \in Nat
    /\ None \notin Claimant /\ Corrupt \notin Claimant /\ None # Corrupt
    /\ InitialLock \subseteq {None, Corrupt}

VARIABLES
    lock,       \* the inode at reviewloop.lock: its claimant, Corrupt or None
    left,       \* ticks until the expiry written in each claimant's inode
    guard,      \* the inode at reviewloop.lock.reclaim, or None
    stamped,    \* claimants whose guard inode has its content
    age,        \* ticks since each claimant's guard was stamped (capped)
    pc, tries,
    saw,        \* the record each claimant found at the lock path
    held,       \* the latch verifyHeld and the heartbeat clear
    beat,       \* claimants whose heartbeat has read its own token
    crashes,
    links,      \* history: how many locks were linked
    published,  \* history: which of them each claimant linked
    confirmer,  \* history: the last claimant verifyHeld confirmed
    takeovers   \* history: was a guard with a live owner ever taken over?

files == <<lock, left, guard, stamped, age>>
mine  == <<tries, saw, held, beat>>
past  == <<links, published, confirmer, takeovers>>
vars  == <<files, pc, mine, crashes, past>>

Alive(c) == pc[c] # "dead"

\* The owner is provably gone: its pid on this host, its expiry on another.
Reclaimable(c, x) ==
    IF HostOf[x] = HostOf[c] THEN ~Alive(x) ELSE left[x] = 0

Goto(c, l) == pc' = [pc EXCEPT ![c] = l]

\* Mutant of Retry: one attempt too many.
RetryOnceMore(c) ==
    IF tries[c] + 1 <= MaxTries
    THEN Goto(c, "link") /\ tries' = [tries EXCEPT ![c] = @ + 1]
    ELSE Goto(c, "idle") /\ tries' = [tries EXCEPT ![c] = 0]

\* The next of the bounded attempts, or "busy".
Retry(c) ==
    IF tries[c] + 1 < MaxTries
    THEN Goto(c, "link") /\ tries' = [tries EXCEPT ![c] = @ + 1]
    ELSE Goto(c, "idle") /\ tries' = [tries EXCEPT ![c] = 0]

Init ==
    /\ lock \in InitialLock /\ guard = None /\ stamped = {}
    /\ left = [c \in Claimant |-> 0]
    /\ age = [c \in Claimant |-> 0]
    /\ pc = [c \in Claimant |-> "idle"]
    /\ tries = [c \in Claimant |-> 0]
    /\ saw = [c \in Claimant |-> None]
    /\ held = [c \in Claimant |-> FALSE]
    /\ beat = {}
    /\ crashes = 0
    /\ links = 0 /\ published = [c \in Claimant |-> 0]
    /\ confirmer = None /\ takeovers = FALSE

Acquire(c) ==
    /\ pc[c] = "idle"
    /\ Goto(c, "link")
    /\ UNCHANGED <<files, mine, crashes, past>>

\* link() of a complete record: the exclusive create.
Link(c) ==
    /\ pc[c] = "link"
    /\ IF lock = None
       THEN /\ lock' = c
            /\ left' = [left EXCEPT ![c] = Ttl]
            /\ held' = [held EXCEPT ![c] = TRUE]
            /\ links' = links + 1
            /\ published' = [published EXCEPT ![c] = links + 1]
            /\ Goto(c, "holding")
       ELSE /\ Goto(c, "read")
            /\ UNCHANGED <<lock, left, held, links, published>>
    /\ UNCHANGED <<guard, stamped, age, tries, saw, beat, crashes, confirmer, takeovers>>

\* EEXIST: look at the record in the way.
Read(c) ==
    /\ pc[c] = "read"
    /\ CASE lock = None -> Retry(c) /\ UNCHANGED saw
         [] lock = Corrupt \/ (lock \in Claimant /\ Reclaimable(c, lock)) ->
                /\ saw' = [saw EXCEPT ![c] = lock]
                /\ Goto(c, "guard")
                /\ UNCHANGED tries
         [] OTHER -> /\ Goto(c, "idle")
                     /\ tries' = [tries EXCEPT ![c] = 0]
                     /\ UNCHANGED saw
    /\ UNCHANGED <<files, held, beat, crashes, past>>

\* open(guard, 'wx') creates the guard empty; its content is a second write.
CreateGuard(c) ==
    /\ pc[c] = "guard"
    /\ IF guard = None
       THEN /\ guard' = c
            /\ stamped' = stamped \ {c}
            /\ Goto(c, "stamp")
       ELSE Goto(c, "peek") /\ UNCHANGED <<guard, stamped>>
    /\ UNCHANGED <<lock, left, age, mine, crashes, past>>

StampGuard(c) ==
    /\ pc[c] = "stamp"
    /\ stamped' = stamped \cup {c}
    /\ age' = [age EXCEPT ![c] = 0]
    /\ Goto(c, "check")
    /\ UNCHANGED <<lock, left, guard, mine, crashes, past>>

\* Mutant of Orphaned: a readable guard is never taken for an orphan.
OrphanedIfUnreadable == guard = None \/ guard \notin stamped

\* An unreadable or empty guard counts as an orphan, and so does an old one.
Orphaned == \/ guard = None
            \/ guard \notin stamped
            \/ age[guard] > OrphanAge

PeekGuard(c) ==
    /\ pc[c] = "peek"
    /\ IF Orphaned THEN Goto(c, "takeover") /\ UNCHANGED tries ELSE Retry(c)
    /\ UNCHANGED <<files, saw, held, beat, crashes, past>>

\* rename() moves whatever guard is at the path by now, and the caller yields.
TakeGuardOver(c) ==
    /\ pc[c] = "takeover"
    /\ guard' = None
    /\ takeovers' = (takeovers \/ (guard # None /\ pc[guard] # "dead"))
    /\ Retry(c)
    /\ UNCHANGED <<lock, left, stamped, age, saw, held, beat, crashes, links, published,
                   confirmer>>

\* Mutant of CheckUnderGuard: what was seen before the guard is trusted.
TrustFirstRead(c) ==
    /\ pc[c] = "check"
    /\ Goto(c, "unlink")
    /\ UNCHANGED <<files, mine, crashes, past>>

\* Under the guard: is the lock still the record that was found stale?
CheckUnderGuard(c) ==
    /\ pc[c] = "check"
    /\ IF lock = saw[c] /\ (lock = Corrupt \/ (lock \in Claimant /\ Reclaimable(c, lock)))
       THEN Goto(c, "unlink")
       ELSE Goto(c, "unguard")
    /\ UNCHANGED <<files, mine, crashes, past>>

\* unlink(lockPath) removes whatever lock is there by now.
UnlinkStale(c) ==
    /\ pc[c] = "unlink"
    /\ lock' = None
    /\ Goto(c, "unguard")
    /\ UNCHANGED <<left, guard, stamped, age, mine, crashes, past>>

\* The guard is removed if it still carries our token: a read, then an unlink.
ReadGuard(c) ==
    /\ pc[c] = "unguard"
    /\ IF guard = c /\ c \in stamped
       THEN Goto(c, "dropguard") /\ UNCHANGED tries
       ELSE Retry(c)
    /\ UNCHANGED <<files, saw, held, beat, crashes, past>>

DropGuard(c) ==
    /\ pc[c] = "dropguard"
    /\ guard' = None
    /\ Retry(c)
    /\ UNCHANGED <<lock, left, stamped, age, saw, held, beat, crashes, past>>

\* The heartbeat: read the published token, then write through the handle.
BeatRead(c) ==
    /\ pc[c] = "holding"
    /\ c \notin beat
    /\ IF lock = c THEN beat' = beat \cup {c} /\ UNCHANGED held
                   ELSE held' = [held EXCEPT ![c] = FALSE] /\ UNCHANGED beat
    /\ held' # held \/ beat' # beat
    /\ UNCHANGED <<files, pc, tries, saw, crashes, past>>

\* Mutant of BeatWrite: the record is written to the path.
BeatWritePath(c) ==
    /\ pc[c] = "holding"
    /\ c \in beat
    /\ beat' = beat \ {c}
    /\ left' = [left EXCEPT ![c] = Ttl]
    /\ lock' = c
    /\ UNCHANGED <<guard, stamped, age, pc, tries, saw, held, crashes, past>>

BeatWrite(c) ==
    /\ pc[c] = "holding"
    /\ c \in beat
    /\ beat' = beat \ {c}
    /\ left' = [left EXCEPT ![c] = Ttl]
    /\ UNCHANGED <<lock, guard, stamped, age, pc, tries, saw, held, crashes, past>>

\* Mutant of VerifyHeld: any lock at the path will do.
VerifyAnyLock(c) ==
    /\ pc[c] = "holding"
    /\ held' = [held EXCEPT ![c] = @ /\ lock # None]
    /\ confirmer' = IF held'[c] THEN c ELSE confirmer
    /\ UNCHANGED <<files, pc, tries, saw, beat, crashes, links, published, takeovers>>

\* verifyHeld, asked before a paid dispatch and before a state write.
VerifyHeld(c) ==
    /\ pc[c] = "holding"
    /\ held' = [held EXCEPT ![c] = @ /\ lock = c]
    /\ confirmer' = IF held'[c] THEN c ELSE confirmer
    /\ UNCHANGED <<files, pc, tries, saw, beat, crashes, links, published, takeovers>>

\* release: the heartbeat stops and its handle is closed; the lock is removed if
\* it still carries our token.
ReadForRelease(c) ==
    /\ pc[c] = "holding"
    /\ beat' = beat \ {c}
    /\ Goto(c, IF lock = c THEN "release" ELSE "done")
    /\ UNCHANGED <<files, tries, saw, held, crashes, past>>

Release(c) ==
    /\ pc[c] = "release"
    /\ lock' = None
    /\ Goto(c, "done")
    /\ UNCHANGED <<left, guard, stamped, age, mine, crashes, past>>

Crash(c) ==
    /\ pc[c] \notin {"idle", "done", "dead"}
    /\ crashes < MaxCrashes
    /\ crashes' = crashes + 1
    /\ Goto(c, "dead")
    /\ UNCHANGED <<files, mine, past>>

Tick ==
    /\ left' = [c \in Claimant |-> IF left[c] > 0 THEN left[c] - 1 ELSE 0]
    /\ age' = [c \in Claimant |-> IF age[c] <= OrphanAge THEN age[c] + 1 ELSE age[c]]
    /\ UNCHANGED <<lock, guard, stamped, pc, mine, crashes, past>>

Step(c) ==
    \/ Acquire(c) \/ Link(c) \/ Read(c)
    \/ CreateGuard(c) \/ StampGuard(c) \/ PeekGuard(c) \/ TakeGuardOver(c)
    \/ CheckUnderGuard(c) \/ UnlinkStale(c) \/ ReadGuard(c) \/ DropGuard(c)
    \/ ReadForRelease(c) \/ Release(c)

Heartbeat(c) == BeatRead(c) \/ BeatWrite(c)

Next == Tick \/ \E c \in Claimant : Step(c) \/ Heartbeat(c) \/ VerifyHeld(c) \/ Crash(c)

Spec == Init /\ [][Next]_vars

\* Running processes keep running, callers that got "busy" call again, and time
\* passes.  A crash is never owed.
FairSpec == Spec /\ WF_vars(Tick) /\ \A c \in Claimant : WF_vars(Step(c))
-----------------------------------------------------------------------------
PcLabel == {"idle", "link", "read", "guard", "stamp", "peek", "takeover", "check",
            "unlink", "unguard", "dropguard", "holding", "release", "done", "dead"}

\* Every variable has the type its comment says.
TypeOK ==
    /\ lock \in Claimant \cup {None, Corrupt}
    /\ left \in [Claimant -> 0 .. Ttl]
    /\ guard \in Claimant \cup {None}
    /\ stamped \subseteq Claimant
    /\ age \in [Claimant -> 0 .. OrphanAge + 1]
    /\ pc \in [Claimant -> PcLabel]
    /\ tries \in [Claimant -> 0 .. MaxTries - 1]
    /\ saw \in [Claimant -> Claimant \cup {None, Corrupt}]
    /\ held \in [Claimant -> BOOLEAN]
    /\ beat \subseteq Claimant
    /\ crashes \in Nat
    /\ links \in Nat /\ published \in [Claimant -> Nat]
    /\ confirmer \in Claimant \cup {None}
    /\ takeovers \in BOOLEAN

\* On one host, where a live pid is authoritative, two calls never review the
\* loop together, whatever crashed before: the only way around is a contender
\* that takes the guard of a live reclaimer for an orphan.
SoleHolderUnlessGuardTaken ==
    \A c, d \in Claimant :
        /\ c # d /\ HostOf[c] = HostOf[d]
        /\ pc[c] = "holding" /\ pc[d] = "holding"
        => takeovers \/ \E e \in Claimant : HostOf[e] # HostOf[c]

\* A published lease changes hands only through a free path: no renewal, however
\* late, overwrites a successor's lock.
LeaseChangesHandsThroughFree ==
    [][(lock \in Claimant /\ lock' # lock) => lock' = None]_vars

\* Ownership is confirmed in the order the locks were published: once a
\* successor was told that it owns the loop, a displaced owner never is again.
ConfirmationsFollowPublication ==
    [][confirmer' # confirmer /\ confirmer # None
        => published[confirmer] < published[confirmer']]_vars

\* A lock left by a dead process, or one that does not parse, does not wedge the
\* loop, not even when the process that was reclaiming it died too and left its
\* guard behind.
Abandoned == lock = Corrupt \/ (lock \in Claimant /\ ~Alive(lock))

AbandonedLeaseIsReclaimed ==
    Abandoned ~> ~Abandoned \/ \A c \in Claimant : pc[c] \in {"dead", "done"}

\* loopLease.js, on reclaimStaleLock: the token check under the guard guarantees
\* that a freshly acquired lease is never unlinked.
NeverUnlinksFreshLease ==
    [][\A c \in Claimant :
        pc[c] = "unlink" /\ pc'[c] = "unguard" /\ lock \in Claimant
            => lock = saw[c]]_vars
=============================================================================
