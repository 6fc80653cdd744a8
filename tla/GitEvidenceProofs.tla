------------------------- MODULE GitEvidenceProofs --------------------------
(***************************************************************************)
(* What a complete delta promises (gitEvidence.js), for every repository   *)
(* and however long the Worker edits it.  The properties speak of what was *)
(* there when the baseline was taken; what ties them to what the collection*)
(* sees is Remembers: the baseline holds the tracked tree of that moment,  *)
(* and a digest of every file that was untracked then, unless it says      *)
(* itself that it is not complete.                                         *)
(***************************************************************************)
EXTENDS GitEvidence, TLAPS

-----------------------------------------------------------------------------
(* The inductive invariant.                                                 *)

\* The repository, as Git sees it.
Repository ==
  /\ work \in [File -> Content \cup {Absent}]
  /\ index \subseteq File /\ ignored \subseteq File /\ head \in Nat

\* The baseline is of the repository it was taken of.  A digest is only of a
\* regular file that was untracked; a complete baseline has all of them.
Remembers ==
  /\ begun.work \in [File -> Content \cup {Absent}]
  /\ base.tree = [f \in File |-> IF f \in begun.index THEN begun.work[f] ELSE Absent]
  /\ \A f \in begun.visible : f \in File /\ begun.work[f] # Absent
  /\ \A f \in (DOMAIN base.old) :
       /\ f \in begun.visible \ begun.index
       /\ base.old[f] = begun.work[f] /\ begun.work[f] \in Regular
  /\ base.complete /\ ~begun.killed => begun.visible \ begun.index \subseteq (DOMAIN base.old)

\* Nothing is collected before there is a baseline; what is collected are files.
Collected ==
  /\ delta # NoDelta => base # NoBaseline
  /\ delta # NoDelta =>
       delta.changed \cup delta.text \cup delta.fresh \cup delta.deleted \subseteq File

\* What a complete delta promises, as long as no command was killed.
Promises ==
  CompleteDeltaMissesNothing /\ UntrackedContentIsNotEmitted /\ OnlyTheWorkersChanges

Evidence ==
  /\ Repository
  /\ base # NoBaseline => Remembers
  /\ Collected
  /\ Promises

-----------------------------------------------------------------------------
(* What a collection that is complete, and killed by nothing, has seen.     *)

\* No command went wrong, or the one that did was not needed after all.
Sound(cmd, how, unread) ==
  \/ cmd = "none"
  \/ cmd = "scoped" /\ how = "failed" /\ ~Rescopes(cmd, how, unread)

\* A command that fails without being killed fails the collection, unless it is
\* the one that narrows the diff and nothing is dropped from it.
LEMMA SoundUnlessKilled ==
  ASSUME NEW cmd \in Commands, NEW how \in How, NEW unread,
         (cmd = "none") = (how = "none"), how # "killed", ~Fails(cmd, how, unread)
  PROVE  Sound(cmd, how, unread)
<1>1. how = "none" \/ how = "failed"
  BY EvidenceAssumption DEF How
<1>2. CASE how = "none"
  BY <1>2 DEF Sound
<1>3. CASE how = "failed"
  BY <1>3 DEF Fails, Sound
<1> QED
  BY <1>1, <1>2, <1>3

\* Then Git listed everything, and what is shown is all that differs but the
\* files that were untracked at begin.
LEMMA SoundListings ==
  ASSUME NEW cmd, NEW how, NEW unread, Sound(cmd, how, unread)
  PROVE  /\ Named(cmd) = Differing
         /\ Added(cmd) = {f \in Differing : base.tree[f] = Absent}
         /\ Listed(cmd) = Others
         /\ Unlisted(cmd, how) = Old \ (Others \cup Differing)
BY DEF Sound, Named, Added, Listed, Unlisted

LEMMA SoundIsShown ==
  ASSUME NEW cmd, NEW how, NEW unread, Sound(cmd, how, unread),
         Doubtful(cmd, how, unread) = {}
  PROVE  Shown(cmd, how, unread) = Differing \ Old
<1>1. Named(cmd) = Differing /\ Staged(cmd, unread) = Differing \cap Old
  BY SoundListings DEF Staged
<1> DEFINE kept == Named(cmd) \ Staged(cmd, unread)
<1>2. kept = Differing \ Old /\ kept \ Doubtful(cmd, how, unread) = kept
  BY <1>1
<1>3. CASE cmd = "none"
  BY <1>1, <1>2, <1>3 DEF Shown
<1>4. CASE cmd = "scoped" /\ how = "failed" /\ ~Rescopes(cmd, how, unread)
  <2>1. kept = Named(cmd) \/ kept = {}
    BY <1>4 DEF Rescopes
  <2> QED
    BY <1>1, <1>2, <1>4, <2>1 DEF Shown
<1> QED
  BY <1>3, <1>4 DEF Sound

\* What the collection attributes to the Worker.
ChangedIn(cmd, how, unread) ==
  ((Named(cmd) \ Staged(cmd, unread)) \ Doubtful(cmd, how, unread))
  \cup NewFiles(cmd, how, unread) \cup Gone(cmd, how) \cup Edited(cmd, how, unread)
  \cup (Doubtful(cmd, how, unread) \ Unsafe(cmd, unread))
  \cup (Appeared(cmd, unread) \ Fresh(cmd, unread))

\* The files of the three ways a change is reported in.
Replaced == Differing \ Old
Born == Others \ Old
Lost == {f \in Old \ (Others \cup Differing) : work[f] = Absent}

\* When everything can be attributed, the change is what differs, what appeared
\* and what is gone, and each file that was untracked at begin and is still there
\* is as it was.
LEMMA CompleteAttribution ==
  ASSUME NEW cmd, NEW how, NEW unread, Repository,
         Sound(cmd, how, unread), Attributable(cmd, how, unread)
  PROVE  /\ ChangedIn(cmd, how, unread) = Replaced \cup Born \cup Lost
         /\ Shown(cmd, how, unread) = Replaced
         /\ NewFiles(cmd, how, unread) = Born
         /\ Old # {} => Born = {} /\ \A f \in Replaced : base.tree[f] # Absent
         /\ Old # {} => Removed(cmd, how, unread) = Lost
         /\ \A f \in Replaced : ~OpaqueIn(f)
         /\ \A f \in Born : work[f] \in Text
         /\ \A f \in Old : work[f] = base.old[f] \/ f \in Lost
<1> USE SoundListings
<1>1. Doubtful(cmd, how, unread) = {} /\ StagedBadly(cmd, unread) = {}
      /\ Edited(cmd, how, unread) = {} /\ Unsure(cmd, how, unread) = {}
      /\ Copied(Appeared(cmd, unread)) = {}
      /\ \A f \in Appeared(cmd, unread) : work[f] \notin Large
  BY DEF Attributable
<1>2. \A f \in Others : Readable(f, unread)
  BY DEF Attributable
<1>3. Appeared(cmd, unread) = Born
  BY <1>2 DEF Appeared, Born
<1>4. Fresh(cmd, unread) = Born
  BY <1>1, <1>3 DEF Fresh
<1>5. NewFiles(cmd, how, unread) = Born
  BY <1>1, <1>4 DEF NewFiles
<1>6. Shown(cmd, how, unread) = Replaced
  BY <1>1, SoundIsShown DEF Replaced
<1>7. Gone(cmd, how) = Lost
  BY DEF Gone, Lost
<1>8. ChangedIn(cmd, how, unread) = Replaced \cup Born \cup Lost
  <2>1. Named(cmd) \ Staged(cmd, unread) = Replaced
    BY DEF Staged, Replaced
  <2> QED
    BY <1>1, <1>3, <1>4, <1>5, <1>7, <2>1 DEF ChangedIn
<1>9. Old # {} => BrandNew(cmd) = {} /\ Born = {}
  BY <1>1, <1>4 DEF Doubtful
<1>10. Old # {} => \A f \in Replaced : base.tree[f] # Absent
  BY <1>9 DEF BrandNew, Replaced
<1>11. Old # {} => Removed(cmd, how, unread) = Lost
  BY <1>4, <1>7, <1>9 DEF Removed
<1>12. \A f \in Replaced : ~OpaqueIn(f)
  <2>1. \A f \in Differing : ~GitlinkIn(f)
    BY DEF Attributable, Sound
  <2>2. \A f \in Replaced : {base.tree[f], Tree[f]} \cap Binary = {}
    BY <1>6 DEF Attributable
  <2> QED
    BY <2>1, <2>2 DEF Replaced, OpaqueIn, GitlinkIn, Opaque
<1>13. \A f \in Born : work[f] \in Text
  <2>1. \A f \in Born : work[f] \in Regular
    BY <1>2 DEF Born, Readable
  <2>2. \A f \in Born : work[f] \notin Binary \cup Large
    BY <1>1, <1>3, <1>5 DEF Attributable
  <2> QED
    BY <2>1, <2>2 DEF Regular
<1>14. \A f \in Old : work[f] = base.old[f] \/ f \in Lost
  <2> SUFFICES ASSUME NEW f \in Old, work[f] # base.old[f] PROVE f \in Lost
    OBVIOUS
  <2>1. ~(f \in Others)
    BY <1>1, <1>2 DEF Edited
  <2>2. ~(f \in Differing)
    BY <1>1 DEF StagedBadly, Staged
  <2>3. f \in Unlisted(cmd, how)
    BY <2>1, <2>2
  <2>4. ~Readable(f, unread)
    BY <1>1, <2>3 DEF Edited
  <2>5. work[f] = Absent
    BY <1>1, <2>3, <2>4 DEF Unsure
  <2> QED
    BY <2>3, <2>5 DEF Lost
<1> QED
  BY <1>5, <1>6, <1>8, <1>9, <1>10, <1>11, <1>12, <1>13, <1>14

-----------------------------------------------------------------------------
(* A complete baseline knows every file that was untracked.                 *)

LEMMA CompleteBaseline ==
  ASSUME Remembers, base.complete, ~begun.killed
  PROVE  Old = begun.visible \ begun.index
BY DEF Remembers, Old

\* A change of anything in sight then or now is one of the three.
LEMMA ChangeIsSeen ==
  ASSUME Repository, Remembers, base.complete, ~begun.killed,
         NEW f \in begun.visible \cup Visible, work[f] # begun.work[f],
         \A g \in Old : work[g] = base.old[g] \/ g \in Lost
  PROVE  f \in Replaced \cup Born \cup Lost
<1>1. f \in File
  BY DEF Repository, Remembers, Visible, Others
<1>2. CASE f \in Old
  BY <1>2 DEF Remembers, Old
<1>3. CASE f \notin Old
  <2>1. base.tree[f] = IF f \in begun.index THEN begun.work[f] ELSE Absent
    BY <1>1 DEF Remembers
  <2>2. Tree[f] = IF f \in index THEN work[f] ELSE Absent
    BY <1>1 DEF Tree
  <2>3. base.tree[f] = Tree[f] \/ f \in Replaced
    BY <1>1, <1>3 DEF Replaced, Differing
  <2>4. CASE f \in begun.visible
    <3>1. f \in begun.index /\ begun.work[f] # Absent
      BY <1>3, <2>4, CompleteBaseline DEF Remembers
    <3> QED
      BY <2>1, <2>2, <2>3, <3>1
  <2>5. CASE f \in index /\ work[f] # Absent
    BY <2>1, <2>2, <2>3, <2>5
  <2>6. CASE f \in Others
    BY <1>3, <2>6 DEF Born
  <2> QED
    BY <2>4, <2>5, <2>6 DEF Visible
<1> QED
  BY <1>2, <1>3

\* Each of the three is something the Worker did.
LEMMA SeenIsAChange ==
  ASSUME Repository, Remembers, base.complete, ~begun.killed,
         NEW f \in Replaced \cup Born \cup Lost
  PROVE  \/ work[f] # begun.work[f]
         \/ f \in begun.index \ index
         \/ f \notin begun.visible /\ f \in Visible
<1>1. CASE f \in Replaced
  <2>1. f \in File /\ base.tree[f] # Tree[f] /\ f \notin Old
    BY <1>1 DEF Replaced, Differing
  <2>2. base.tree[f] = IF f \in begun.index THEN begun.work[f] ELSE Absent
    BY <2>1 DEF Remembers
  <2>3. Tree[f] = IF f \in index THEN work[f] ELSE Absent
    BY <2>1 DEF Tree
  <2>4. CASE f \in index \ begun.index
    <3>1. work[f] # Absent
      BY <2>1, <2>2, <2>3, <2>4
    <3>2. f \in Visible
      BY <2>4, <3>1 DEF Visible
    <3>3. f \notin begun.visible
      BY <2>1, <2>4, CompleteBaseline
    <3> QED
      BY <3>2, <3>3
  <2> QED
    BY <2>1, <2>2, <2>3, <2>4
<1>2. CASE f \in Born
  <2>1. f \in Visible /\ f \notin index /\ f \notin Old
    BY <1>2 DEF Born, Others, Visible
  <2>2. f \in begun.visible => f \in begun.index
    BY <2>1, CompleteBaseline
  <2> QED
    BY <2>1, <2>2
<1>3. CASE f \in Lost
  <2>1. f \in Old /\ work[f] = Absent
    BY <1>3 DEF Lost
  <2>2. begun.work[f] # Absent
    BY <2>1 DEF Remembers, Old
  <2> QED
    BY <2>1, <2>2
<1> QED
  BY <1>1, <1>2, <1>3

-----------------------------------------------------------------------------
(* The steps.                                                               *)

LEMMA InitEvidence == Init => Evidence
<1> SUFFICES ASSUME Init PROVE Evidence
  OBVIOUS
<1>1. Repository
  BY DEF Init, Repository
<1>2. base = NoBaseline /\ delta = NoDelta
  BY DEF Init
<1> QED
  BY <1>1, <1>2 DEF Evidence, Collected, Promises, CompleteDeltaMissesNothing,
     UntrackedContentIsNotEmitted, OnlyTheWorkersChanges, Trusted, Complete

\* The baseline is taken of the repository as it stands.
LEMMA CaptureKeepsEvidence ==
  ASSUME Evidence, NEW how \in How, NEW unread, CaptureBaseline(how, unread)
  PROVE  Evidence'
<1> DEFINE listed == IF how = "killed" THEN {} ELSE Others
<1>1. /\ base = NoBaseline
      /\ base' = [head |-> head, tree |-> Tree, old |-> Digests(listed, unread),
                  complete |-> \A f \in listed : Readable(f, unread)]
      /\ begun' = [work |-> work, index |-> index, visible |-> Visible,
                   killed |-> how = "killed"]
      /\ UNCHANGED << work, index, ignored, head, delta, edits >>
  BY DEF CaptureBaseline
<1>2. delta = NoDelta /\ Repository
  BY <1>1 DEF Evidence, Collected
<1>3. Repository'
  BY <1>1, <1>2 DEF Repository
<1>4. delta' = NoDelta
  BY <1>1, <1>2
<1>5. Remembers'
  <2>1. begun'.work = work /\ begun'.index = index /\ begun'.visible = Visible
        /\ (begun'.killed <=> how = "killed")
    BY <1>1
  <2>2. /\ base'.tree = Tree /\ base'.old = Digests(listed, unread)
        /\ base'.complete <=> \A f \in listed : Readable(f, unread)
    BY <1>1
  <2>3. DOMAIN base'.old = {f \in listed : Readable(f, unread)}
        /\ \A f \in (DOMAIN base'.old) : base'.old[f] = work[f]
    BY <2>2 DEF Digests
  <2>4. begun'.work \in [File -> Content \cup {Absent}]
    BY <1>2, <2>1 DEF Repository
  <2>5. base'.tree = [f \in File |-> IF f \in begun'.index THEN begun'.work[f] ELSE Absent]
    BY <2>1, <2>2 DEF Tree
  <2>6. \A f \in begun'.visible : f \in File /\ begun'.work[f] # Absent
    BY <1>2, <2>1 DEF Repository, Visible, Others
  <2>7. \A f \in listed : f \in Visible \ index
    BY DEF Visible, Others
  <2>8. \A f \in (DOMAIN base'.old) :
          /\ f \in begun'.visible \ begun'.index
          /\ base'.old[f] = begun'.work[f] /\ begun'.work[f] \in Regular
    BY <2>1, <2>3, <2>7 DEF Readable
  <2>9. base'.complete /\ ~begun'.killed => begun'.visible \ begun'.index \subseteq DOMAIN base'.old
    <3>1. how # "killed" => begun'.visible \ begun'.index \subseteq listed
      BY <2>1 DEF Visible
    <3> QED
      BY <2>1, <2>2, <2>3, <3>1
  <2> QED
    BY <2>4, <2>5, <2>6, <2>8, <2>9 DEF Remembers
<1> QED
  BY <1>3, <1>4, <1>5 DEF Evidence, Collected, Promises, CompleteDeltaMissesNothing,
     UntrackedContentIsNotEmitted, OnlyTheWorkersChanges, Trusted, Complete

\* While nothing is collected there is nothing to keep; the baseline stays.
LEMMA KeepsEvidenceUntilCollected ==
  ASSUME Evidence, UNCHANGED << base, begun >>, delta' = NoDelta, Repository'
  PROVE  Evidence'
<1>1. base # NoBaseline => Remembers'
  BY DEF Evidence, Remembers
<1> QED
  BY <1>1 DEF Evidence, Collected, Promises, CompleteDeltaMissesNothing,
     UntrackedContentIsNotEmitted, OnlyTheWorkersChanges, Trusted, Complete

\* The Worker edits, stages, unstages, ignores or commits.
LEMMA WorkKeepsEvidence ==
  ASSUME Evidence,
         \/ \E f \in File : \/ \E c \in Content \cup {Absent} : WriteFile(f, c)
                            \/ Stage(f) \/ Unstage(f) \/ Ignore(f)
         \/ Commit
  PROVE  Evidence'
<1>1. Repository
  BY DEF Evidence
<1>2. UNCHANGED << base, begun >> /\ delta' = NoDelta
  BY DEF WriteFile, Stage, Unstage, Ignore, Commit, Acts
<1>3. Repository'
  <2>1. CASE \E f \in File : \E c \in Content \cup {Absent} : WriteFile(f, c)
    BY <1>1, <2>1 DEF WriteFile, Repository
  <2>2. CASE \E f \in File : Stage(f) \/ Unstage(f)
    BY <1>1, <2>2 DEF Stage, Unstage, Repository
  <2>3. CASE \E f \in File : Ignore(f)
    BY <1>1, <2>3 DEF Ignore, Repository
  <2>4. CASE Commit
    BY <1>1, <2>4 DEF Commit, Repository
  <2> QED
    BY <2>1, <2>2, <2>3, <2>4
<1> QED
  BY <1>2, <1>3, KeepsEvidenceUntilCollected

\* What the collection leaves behind: the sets of this module in the fields.
LEMMA Collects ==
  ASSUME NEW cmd \in Commands, NEW how \in How, NEW unread,
         CollectWorkerDelta(cmd, how, unread)
  PROVE  /\ base # NoBaseline /\ UNCHANGED << work, index, ignored, head, base, begun >>
         /\ (cmd = "none") = (how = "none")
         /\ delta'.complete <=>
              base.complete /\ ~Fails(cmd, how, unread) /\ Attributable(cmd, how, unread)
         /\ delta'.changed = ChangedIn(cmd, how, unread)
         /\ delta'.text = Shown(cmd, how, unread)
         /\ delta'.fresh = NewFiles(cmd, how, unread)
         /\ delta'.deleted = Removed(cmd, how, unread)
         /\ delta'.none => delta'.changed = {}
         /\ delta'.killed <=> how = "killed"
<1> DEFINE complete == base.complete /\ ~Fails(cmd, how, unread) /\ Attributable(cmd, how, unread)
           changed == ChangedIn(cmd, how, unread)
           none == complete /\ changed = {} /\ head = base.head /\ Shown(cmd, how, unread) = {}
<1>1. delta' = [complete |-> complete, changed |-> changed,
                text |-> Shown(cmd, how, unread), fresh |-> NewFiles(cmd, how, unread),
                deleted |-> Removed(cmd, how, unread), none |-> none,
                killed |-> how = "killed"]
  BY DEF CollectWorkerDelta, ChangedIn
<1>2. base # NoBaseline /\ UNCHANGED << work, index, ignored, head, base, begun >>
      /\ (cmd = "none") = (how = "none")
  BY DEF CollectWorkerDelta
<1>3. none => changed = {}
  OBVIOUS
<1> HIDE DEF complete, changed, none
<1>4. /\ delta'.complete = complete /\ delta'.changed = changed
      /\ delta'.none = none /\ delta'.killed = (how = "killed")
      /\ delta'.text = Shown(cmd, how, unread) /\ delta'.fresh = NewFiles(cmd, how, unread)
      /\ delta'.deleted = Removed(cmd, how, unread)
  BY <1>1
<1> QED
  BY <1>2, <1>3, <1>4 DEF complete, changed

\* The sets are of files.
LEMMA CollectedAreFiles ==
  ASSUME NEW cmd, NEW how, NEW unread, Repository, Remembers
  PROVE  ChangedIn(cmd, how, unread) \cup Shown(cmd, how, unread)
         \cup NewFiles(cmd, how, unread) \cup Removed(cmd, how, unread) \subseteq File
<1>1. Old \subseteq File /\ Differing \subseteq File /\ Others \subseteq File
  BY DEF Remembers, Old, Differing, Others
<1>2. Named(cmd) \subseteq File /\ Listed(cmd) \subseteq File /\ BrandNew(cmd) \subseteq File
  BY <1>1 DEF Named, Listed, BrandNew
<1>3. Appeared(cmd, unread) \subseteq File /\ Fresh(cmd, unread) \subseteq File
  BY <1>2 DEF Appeared, Fresh
<1>4. Gone(cmd, how) \subseteq File /\ Edited(cmd, how, unread) \subseteq File
  BY <1>1, <1>2 DEF Gone, Edited, Unlisted
<1>5. Doubtful(cmd, how, unread) \subseteq File
  BY <1>2, <1>3 DEF Doubtful, Unsafe
<1>6. ChangedIn(cmd, how, unread) \subseteq File
  BY <1>2, <1>3, <1>4, <1>5 DEF ChangedIn, NewFiles
<1>7. NewFiles(cmd, how, unread) \subseteq File /\ Removed(cmd, how, unread) \subseteq File
  BY <1>3, <1>4 DEF NewFiles, Removed
<1>8. Shown(cmd, how, unread) \subseteq File
  BY <1>1, <1>2 DEF Shown
<1> QED
  BY <1>6, <1>7, <1>8

\* A collection delivers what a complete delta promises.
LEMMA CollectKeepsEvidence ==
  ASSUME Evidence, NEW cmd \in Commands, NEW how \in How, NEW unread,
         CollectWorkerDelta(cmd, how, unread)
  PROVE  Evidence'
<1>1. /\ base # NoBaseline /\ UNCHANGED << work, index, ignored, head, base, begun >>
      /\ (cmd = "none") = (how = "none")
      /\ delta'.complete <=>
           base.complete /\ ~Fails(cmd, how, unread) /\ Attributable(cmd, how, unread)
      /\ delta'.changed = ChangedIn(cmd, how, unread)
      /\ delta'.text = Shown(cmd, how, unread)
      /\ delta'.fresh = NewFiles(cmd, how, unread)
      /\ delta'.deleted = Removed(cmd, how, unread)
      /\ delta'.none => delta'.changed = {}
      /\ delta'.killed <=> how = "killed"
  BY Collects
<1>2. Repository /\ Remembers
  BY <1>1 DEF Evidence
<1>3. Repository' /\ Remembers'
  BY <1>1, <1>2 DEF Repository, Remembers
<1>4. Collected'
  BY <1>1, <1>2, CollectedAreFiles DEF Collected
<1>5. ASSUME Trusted' PROVE NothingMissed' /\ (UntrackedContentIsNotEmitted /\ OnlyTheWorkersChanges)'
  <2>1. base.complete /\ ~begun.killed /\ how # "killed"
        /\ ~Fails(cmd, how, unread) /\ Attributable(cmd, how, unread)
    BY <1>1, <1>5 DEF Trusted, Complete
  <2>2. Sound(cmd, how, unread)
    BY <1>1, <2>1, SoundUnlessKilled
  <2>3. /\ delta'.changed = Replaced \cup Born \cup Lost
        /\ delta'.text = Replaced /\ delta'.fresh = Born
        /\ Old # {} => delta'.deleted = Lost
        /\ Old # {} => Born = {} /\ \A f \in Replaced : base.tree[f] # Absent
        /\ \A f \in Replaced : ~OpaqueIn(f)
        /\ \A f \in Born : work[f] \in Text
        /\ \A f \in Old : work[f] = base.old[f] \/ f \in Lost
    BY <1>1, <1>2, <2>1, <2>2, CompleteAttribution
  <2>4. Visible' = Visible /\ \A f \in File : OpaqueIn(f)' = OpaqueIn(f)
    BY <1>1 DEF Visible, Others, OpaqueIn, Tree
  <2>5. NothingMissed'
    <3> SUFFICES ASSUME NEW f \in begun.visible \cup Visible, work[f] # begun.work[f]
                 PROVE  Reported(f)'
      BY <1>1, <2>4 DEF NothingMissed
    <3>1. f \in Replaced \cup Born \cup Lost
      BY <1>2, <2>1, <2>3, ChangeIsSeen
    <3>2. f \in delta'.changed /\ ~delta'.none
      BY <1>1, <2>3, <3>1
    <3>3. CASE f \in Replaced
      <4>1. f \in File /\ f \in delta'.text /\ ~OpaqueIn(f)'
        BY <2>3, <2>4, <3>3 DEF Replaced, Differing
      <4> QED
        BY <3>2, <4>1 DEF Reported
    <3>4. CASE f \in Born
      <4>1. f \in delta'.fresh /\ work'[f] \in Text
        BY <1>1, <2>3, <3>4
      <4> QED
        BY <3>2, <4>1 DEF Reported
    <3>5. CASE f \in Lost
      <4>1. f \in delta'.deleted /\ work'[f] = Absent
        BY <1>1, <2>3, <3>5 DEF Lost
      <4> QED
        BY <3>2, <4>1 DEF Reported
    <3> QED
      BY <3>1, <3>3, <3>4, <3>5
  <2>6. UntrackedContentIsNotEmitted'
    <3>1. begun.visible \ begun.index = Old
      BY <1>2, <2>1, CompleteBaseline
    <3>2. Old # {} => Born \cup {g \in Replaced : base.tree[g] = Absent} = {}
      BY <2>3
    <3> QED
      BY <1>1, <2>3, <3>1, <3>2 DEF UntrackedContentIsNotEmitted
  <2>7. OnlyTheWorkersChanges'
    BY <1>1, <1>2, <2>1, <2>3, <2>4, SeenIsAChange DEF OnlyTheWorkersChanges
  <2> QED
    BY <2>5, <2>6, <2>7
<1>6. Promises'
  BY <1>5 DEF Promises, CompleteDeltaMissesNothing, UntrackedContentIsNotEmitted,
     OnlyTheWorkersChanges
<1> QED
  BY <1>1, <1>3, <1>4, <1>6 DEF Evidence

LEMMA NextKeepsEvidence ==
  ASSUME Evidence, [Next]_vars
  PROVE  Evidence'
<1>1. CASE \E how \in How, unread \in File \cup {Nobody} : CaptureBaseline(how, unread)
  BY <1>1, CaptureKeepsEvidence
<1>2. CASE \/ \E f \in File : \/ \E c \in Content \cup {Absent} : WriteFile(f, c)
                              \/ Stage(f) \/ Unstage(f) \/ Ignore(f)
           \/ Commit
  BY <1>2, WorkKeepsEvidence
<1>3. CASE GoOn
  <2>1. UNCHANGED << base, begun >> /\ delta' = NoDelta /\ Repository'
    BY <1>3 DEF GoOn, Evidence, Repository
  <2> QED
    BY <2>1, KeepsEvidenceUntilCollected
<1>4. CASE \E cmd \in Commands, how \in How, unread \in File \cup {Nobody} :
             CollectWorkerDelta(cmd, how, unread)
  BY <1>4, CollectKeepsEvidence
<1>5. CASE UNCHANGED vars
  BY <1>5 DEF vars, Evidence, Repository, Remembers, Collected, Promises,
     CompleteDeltaMissesNothing, UntrackedContentIsNotEmitted, OnlyTheWorkersChanges,
     Trusted, Complete, NothingMissed, Reported, OpaqueIn, Tree, Visible, Others
<1> QED
  BY <1>1, <1>2, <1>3, <1>4, <1>5 DEF Next

-----------------------------------------------------------------------------
(* The theorems.                                                            *)

\* Whatever is edited, staged, ignored or committed, the baseline stays what was
\* there at begin, and a delta keeps its promises (gitEvidence.js).
THEOREM EvidenceHolds == Spec => []Evidence
<1> QED
  BY InitEvidence, NextKeepsEvidence, PTL DEF Spec

\* The state has its type; what was collected are files of the repository, and no
\* digest is ever taken through a link (gitEvidence.js).
THEOREM EvidenceTyped == Spec => []TypeOK
<1>1. Evidence => TypeOK
  <2> SUFFICES ASSUME Evidence PROVE TypeOK
    OBVIOUS
  <2>1. ASSUME base # NoBaseline
        PROVE  /\ base.tree \in [File -> Content \cup {Absent}]
               /\ Old \subseteq File /\ OldDigests \subseteq Regular
    <3>1. Remembers
      BY <2>1 DEF Evidence
    <3>2. base.tree \in [File -> Content \cup {Absent}]
      BY <3>1 DEF Remembers
    <3> QED
      BY <3>1, <3>2 DEF Remembers, Old, OldDigests
  <2> QED
    BY <2>1 DEF Evidence, Repository, Collected, TypeOK
<1> QED
  BY <1>1, EvidenceHolds, PTL

\* Whatever the Worker staged, unstaged, ignored, renamed or committed on the way,
\* a complete delta misses nothing, as long as no Git command was killed.
THEOREM DeltaMissesNothing == Spec => []CompleteDeltaMissesNothing
<1>1. Evidence => CompleteDeltaMissesNothing
  BY DEF Evidence, Promises
<1> QED
  BY <1>1, EvidenceHolds, PTL

\* Content that was untracked at begin never reaches the Reviewer as new.
THEOREM UntrackedStaysHome == Spec => []UntrackedContentIsNotEmitted
<1>1. Evidence => UntrackedContentIsNotEmitted
  BY DEF Evidence, Promises
<1> QED
  BY <1>1, EvidenceHolds, PTL

\* Nothing is laid to the Worker that it did not do.
THEOREM WorkerIsNotBlamed == Spec => []OnlyTheWorkersChanges
<1>1. Evidence => OnlyTheWorkersChanges
  BY DEF Evidence, Promises
<1> QED
  BY <1>1, EvidenceHolds, PTL

=============================================================================
