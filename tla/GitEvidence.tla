---------------------------- MODULE GitEvidence ----------------------------
(***************************************************************************)
(* What the Worker changed (gitEvidence.js).  captureBaseline records the  *)
(* repository before the Worker starts: the tracked tree, and a digest of  *)
(* every untracked file.  collectWorkerDelta later asks Git what differs   *)
(* and attributes it: the delta is complete when every change since begin  *)
(* is in it as text and nothing that was there before is.                  *)
(*                                                                         *)
(* A digest stands for the content it is of.  The repository is what Git   *)
(* sees of it: contents on disk, the paths in the index, the ignored paths *)
(* and how often HEAD moved.                                               *)
(***************************************************************************)
EXTENDS Integers, FiniteSets

CONSTANTS
  File,      \* paths
  Nested,    \* paths below another directory
  Guarded,   \* does the platform open a whole path without following links
  Text,      \* contents that can be shown
  Binary,    \* contents that cannot
  Large,     \* texts above MAX_UNTRACKED_BYTES
  Symlink,   \* links; git diff shows the target of a tracked one
  Submodule, \* nested repositories; git diff shows a commit and nothing inside
  Encodes,   \* Encodes[c]: a text made of c by some transform
  Absent,    \* no such file
  Trouble,   \* what a Git command may suffer: "failed", "killed"
  MaxEdits   \* bound: what the Worker does between begin and review

Regular == Text \cup Binary \cup Large
Content == Regular \cup Symlink \cup Submodule
Opaque == Binary \cup Submodule

ASSUME EvidenceAssumption ==
  /\ Nested \subseteq File /\ Guarded \in BOOLEAN
  /\ (Symlink \cup Submodule) \cap Regular = {} /\ Absent \notin Content
  /\ Encodes \in [Content -> Content]
  /\ Trouble \subseteq {"failed", "killed"} /\ MaxEdits \in Nat

VARIABLES
  work,      \* the files on disk
  index,     \* the tracked paths
  ignored,   \* the paths that .gitignore names
  head,      \* commits since the start
  base,      \* the baseline of the loop, or NoBaseline
  delta,     \* what the last collection found, until the Worker goes on
  begun,     \* history: the repository when the baseline was taken, and whether
             \* the command that lists its untracked files was killed
  edits      \* bound: Worker's steps so far

vars == << work, index, ignored, head, base, delta, begun, edits >>

NoBaseline == << >>
NoDelta == << >>

-----------------------------------------------------------------------------
(* What Git lists, and what ReviewLoop reads itself.                        *)

\* git diff compares the files of the index with the baseline.
Tree == [f \in File |-> IF f \in index THEN work[f] ELSE Absent]

\* git ls-files --others --exclude-standard
Others == {f \in File \ (index \cup ignored) : work[f] # Absent}
Visible == {f \in index : work[f] # Absent} \cup Others

\* fingerprintUntracked: never through a link, and below a directory only where
\* the platform refuses links on the whole path.  unread is a file that cannot
\* be read just now.
Readable(f, unread) ==
  work[f] \in Regular /\ f # unread /\ (f \in Nested => Guarded)

-----------------------------------------------------------------------------
(* reviewloop_begin.                                                        *)

\* Mutant of Digests: whatever is there is read.
DigestsOfAll(listed, unread) == [f \in listed |-> work[f]]

\* Only a digest is kept of an untracked file, and none of an unsafe one.
Digests(listed, unread) == [f \in {g \in listed : Readable(g, unread)} |-> work[f]]

\* A command that fails makes begin throw; one that is killed has no output.
CaptureBaseline(how, unread) ==
  /\ base = NoBaseline /\ how # "failed"
  /\ LET listed == IF how = "killed" THEN {} ELSE Others IN
       base' = [head |-> head, tree |-> Tree, old |-> Digests(listed, unread),
                complete |-> \A f \in listed : Readable(f, unread)]
  /\ begun' = [work |-> work, index |-> index, visible |-> Visible, killed |-> how = "killed"]
  /\ UNCHANGED << work, index, ignored, head, delta, edits >>

-----------------------------------------------------------------------------
(* The Worker.                                                              *)

Acts ==
  /\ base # NoBaseline /\ delta = NoDelta /\ edits < MaxEdits
  /\ edits' = edits + 1
  /\ UNCHANGED << base, delta, begun >>

WriteFile(f, c) ==
  /\ Acts /\ work[f] # c
  /\ work' = [work EXCEPT ![f] = c]
  /\ UNCHANGED << index, ignored, head >>

Stage(f) ==
  /\ Acts /\ f \notin index /\ work[f] # Absent
  /\ index' = index \cup {f}
  /\ UNCHANGED << work, ignored, head >>

\* A review has been answered: the Worker goes on.
GoOn ==
  /\ delta # NoDelta
  /\ delta' = NoDelta
  /\ UNCHANGED << work, index, ignored, head, base, begun, edits >>

\* git rm --cached: the file stays on disk.
Unstage(f) ==
  /\ Acts /\ f \in index
  /\ index' = index \ {f}
  /\ UNCHANGED << work, ignored, head >>

Ignore(f) ==
  /\ Acts
  /\ ignored' = IF f \in ignored THEN ignored \ {f} ELSE ignored \cup {f}
  /\ UNCHANGED << work, index, head >>

Commit ==
  /\ Acts
  /\ head' = head + 1
  /\ UNCHANGED << work, index, ignored >>

-----------------------------------------------------------------------------
(* collectWorkerDelta, in the order of the code.  cmd is the command that   *)
(* goes wrong, how it does; a killed command reports success and nothing.   *)

Commands == {"none", "head", "diff", "names", "added", "others", "scoped"}

Old == DOMAIN base.old
OldDigests == {base.old[f] : f \in Old}
Differing == {f \in File : base.tree[f] # Tree[f]}

Named(cmd) == IF cmd = "names" THEN {} ELSE Differing
Added(cmd) ==
  IF cmd = "added" THEN {} ELSE {f \in Differing : base.tree[f] = Absent}
Listed(cmd) == IF cmd = "others" THEN {} ELSE Others

\* Untracked files that were not there, or not untracked, at begin.
Appeared(cmd, unread) == {f \in Listed(cmd) \ Old : Readable(f, unread)}
Copied(files) == {f \in files : work[f] \in OldDigests}
Fresh(cmd, unread) ==
  LET appeared == Appeared(cmd, unread) IN
  {f \in appeared \ Copied(appeared) : work[f] \notin Large}

\* Unlisted paths are looked at one by one, unless there is no listing.
Unlisted(cmd, how) ==
  IF cmd = "others" /\ how = "failed" THEN {} ELSE Old \ (Listed(cmd) \cup Named(cmd))

\* Mutant of Edited: a file that is ignored by now is not looked at.
EditedInSight(cmd, how, unread) ==
  {f \in Old \cap Listed(cmd) : Readable(f, unread) /\ work[f] # base.old[f]}

\* Untracked at begin and not staged since, in sight or ignored by now: its old
\* content cannot be told from the change.
Edited(cmd, how, unread) ==
  {f \in (Old \cap Listed(cmd)) \cup Unlisted(cmd, how) :
     Readable(f, unread) /\ work[f] # base.old[f]}

\* Mutant of Staged: an unchanged file that was only staged is a change.
StagedAndEdited(cmd, unread) ==
  {f \in Named(cmd) \cap Old : ~(Readable(f, unread) /\ work[f] = base.old[f])}

\* Untracked at begin and staged since: git diff would show all of it.
Staged(cmd, unread) == Named(cmd) \cap Old
StagedBadly(cmd, unread) ==
  {f \in Staged(cmd, unread) : ~(Readable(f, unread) /\ work[f] = base.old[f])}

\* No longer listed: deleted only if it is really gone.
Gone(cmd, how) == {f \in Unlisted(cmd, how) : work[f] = Absent}
Unsure(cmd, how, unread) ==
  {f \in Unlisted(cmd, how) : work[f] # Absent /\ ~Readable(f, unread)}

BrandNew(cmd) == (Added(cmd) \cap Named(cmd)) \ Old

Unsafe(cmd, unread) == {f \in BrandNew(cmd) : ~Readable(f, unread)}

\* A new file may hold what was untracked at begin, renamed, copied or recoded.
\* Mutant: only exact copies are kept back.
DoubtfulCopies(cmd, how, unread) ==
  Unsafe(cmd, unread) \cup Copied(BrandNew(cmd))
Doubtful(cmd, how, unread) ==
  IF Old # {} THEN BrandNew(cmd) \cup Fresh(cmd, unread) ELSE Unsafe(cmd, unread)

\* The paths whose diff is shown: all, or what is left when some are dropped.
Shown(cmd, how, unread) ==
  LET kept == Named(cmd) \ Staged(cmd, unread)
      names == kept \ Doubtful(cmd, how, unread)
      whole == IF cmd = "diff" THEN {} ELSE Differing
      scoped(before, paths) ==
        CASE paths = {} -> {}
          [] paths # {} /\ cmd # "scoped" -> paths
          [] OTHER -> IF how = "failed" THEN before ELSE {}
      first == IF kept = Named(cmd) THEN whole ELSE scoped(whole, kept)
  IN IF names = kept THEN first ELSE scoped(first, names)

Rescopes(cmd, how, unread) ==
  LET kept == Named(cmd) \ Staged(cmd, unread)
      names == kept \ Doubtful(cmd, how, unread)
  IN (kept # Named(cmd) /\ kept # {}) \/ (names # kept /\ names # {})

NewFiles(cmd, how, unread) == Fresh(cmd, unread) \ Doubtful(cmd, how, unread)
Removed(cmd, how, unread) ==
  IF Fresh(cmd, unread) \cup BrandNew(cmd) # {} THEN {} ELSE Gone(cmd, how)

OpaqueIn(f) == base.tree[f] \in Opaque \/ Tree[f] \in Opaque

\* A gitlink on either side; a link is text like any other.
GitlinkIn(f) == base.tree[f] \in Submodule \/ Tree[f] \in Submodule

\* Everything that makes the delta incomplete for want of attribution.
Attributable(cmd, how, unread) ==
  /\ cmd # "diff" => \A f \in Differing : ~GitlinkIn(f)
  /\ \A f \in Listed(cmd) : Readable(f, unread)
  /\ LET appeared == Appeared(cmd, unread) IN
       Copied(appeared) = {} /\ \A f \in appeared : work[f] \notin Large
  /\ Edited(cmd, how, unread) = {} /\ StagedBadly(cmd, unread) = {}
  /\ Unsure(cmd, how, unread) = {} /\ Doubtful(cmd, how, unread) = {}
  /\ \A f \in Shown(cmd, how, unread) : {base.tree[f], Tree[f]} \cap Binary = {}
  /\ \A f \in NewFiles(cmd, how, unread) : work[f] \notin Binary

Fails(cmd, how, unread) ==
  \/ cmd = "head"          \* HEAD without output is no HEAD either
  \/ how = "failed" /\ (cmd = "scoped" => Rescopes(cmd, how, unread))

CollectWorkerDelta(cmd, how, unread) ==
  /\ base # NoBaseline /\ delta = NoDelta
  /\ (cmd = "none") = (how = "none")
  /\ LET names == (Named(cmd) \ Staged(cmd, unread)) \ Doubtful(cmd, how, unread)
         complete == base.complete /\ ~Fails(cmd, how, unread) /\ Attributable(cmd, how, unread)
         changed == names \cup NewFiles(cmd, how, unread) \cup Gone(cmd, how)
                    \cup Edited(cmd, how, unread)
                    \cup (Doubtful(cmd, how, unread) \ Unsafe(cmd, unread))
                    \cup (Appeared(cmd, unread) \ Fresh(cmd, unread)) IN
       delta' = [complete |-> complete, changed |-> changed,
                 text |-> Shown(cmd, how, unread), fresh |-> NewFiles(cmd, how, unread),
                 deleted |-> Removed(cmd, how, unread),
                 none |-> complete /\ changed = {} /\ head = base.head
                          /\ Shown(cmd, how, unread) = {},
                 killed |-> how = "killed"]
  /\ UNCHANGED << work, index, ignored, head, base, begun, edits >>

-----------------------------------------------------------------------------
Init ==
  /\ work \in [File -> Content \cup {Absent}]
  /\ index \in SUBSET File /\ ignored \in SUBSET File
  /\ head = 0 /\ base = NoBaseline /\ delta = NoDelta
  /\ begun = NoBaseline /\ edits = 0

Nobody == "nobody"
How == {"none"} \cup Trouble

Next ==
  \/ \E how \in How, unread \in File \cup {Nobody} : CaptureBaseline(how, unread)
  \/ \E f \in File : \/ \E c \in Content \cup {Absent} : WriteFile(f, c)
                     \/ Stage(f) \/ Unstage(f) \/ Ignore(f)
  \/ Commit \/ GoOn
  \/ \E cmd \in Commands, how \in How, unread \in File \cup {Nobody} :
       CollectWorkerDelta(cmd, how, unread)

Spec == Init /\ [][Next]_vars

-----------------------------------------------------------------------------
(* Properties.                                                              *)

\* The type of the state; no digest is ever taken through a link.
TypeOK ==
  /\ work \in [File -> Content \cup {Absent}]
  /\ index \subseteq File /\ ignored \subseteq File /\ head \in Nat
  /\ base # NoBaseline =>
       /\ base.tree \in [File -> Content \cup {Absent}]
       /\ Old \subseteq File /\ OldDigests \subseteq Regular
  /\ delta # NoDelta =>
       delta.changed \cup delta.text \cup delta.fresh \cup delta.deleted \subseteq File

Complete == delta # NoDelta /\ delta.complete
Trusted == Complete /\ ~begun.killed /\ ~delta.killed

\* A change of anything Git saw at begin or sees now: its file is named, and what
\* it became is there to read (gitEvidence.js:4-27).
Reported(f) ==
  /\ f \in delta.changed /\ ~delta.none
  /\ \/ f \in delta.text /\ ~OpaqueIn(f)
     \/ f \in delta.fresh /\ work[f] \in Text
     \/ f \in delta.deleted /\ work[f] = Absent
NothingMissed ==
  \A f \in begun.visible \cup Visible : work[f] # begun.work[f] => Reported(f)

\* A complete delta misses nothing, whatever was staged, unstaged, ignored, renamed
\* or committed on the way, as long as no Git command was killed.
CompleteDeltaMissesNothing == Trusted => NothingMissed

\* Content that was untracked at begin never reaches the Reviewer as new, under
\* another name or recoded (gitEvidence.js:385-389, 713-745).
UntrackedContentIsNotEmitted ==
  Trusted =>
    \A f \in delta.fresh \cup {g \in delta.text : base.tree[g] = Absent} :
      \A g \in begun.visible \ begun.index :
        work[f] \notin {begun.work[g], Encodes[begun.work[g]]}

\* Nothing is laid to the Worker that it did not do: a file in a complete delta
\* has another content than at begin, or went out of the index, or came into
\* sight (gitEvidence.js:554-595).
OnlyTheWorkersChanges ==
  Trusted =>
    \A f \in delta.changed :
      \/ work[f] # begun.work[f]
      \/ f \in begun.index \ index
      \/ f \notin begun.visible /\ f \in Visible

\* What the header of gitEvidence.js promises: only a command that ran to its end
\* and printed nothing means no change (gitEvidence.js:18-27).
OnlyExitZeroMeansNoChange == Complete => NothingMissed

=============================================================================
