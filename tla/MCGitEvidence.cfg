SPECIFICATION Spec
CONSTANTS
  File = {f, g}
  Nested = {}
  Guarded = TRUE
  Text = {"a", "b"}
  Binary = {"bin"}
  Large = {"big"}
  Symlink = {"link"}
  Submodule = {"sub"}
  Encodes <- ToOther
  Absent = "absent"
  Trouble = {"failed"}
  MaxEdits = 2
SYMMETRY Interchangeable
INVARIANTS TypeOK CompleteDeltaMissesNothing UntrackedContentIsNotEmitted OnlyTheWorkersChanges
CHECK_DEADLOCK FALSE
