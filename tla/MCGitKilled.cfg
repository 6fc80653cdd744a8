SPECIFICATION Spec
CONSTANTS
  File = {"f", "d/g"}
  Nested = {"d/g"}
  Guarded = TRUE
  Text = {"a", "b"}
  Binary = {"bin"}
  Large = {"big"}
  Symlink = {"link"}
  Submodule = {"sub"}
  Encodes <- ToOther
  Absent = "absent"
  Trouble = {"killed"}
  MaxEdits = 1
INVARIANTS OnlyExitZeroMeansNoChange
CHECK_DEADLOCK FALSE
