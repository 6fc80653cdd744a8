SPECIFICATION Spec
CONSTANTS
  Version <- TwoFiles
  MaxArtifact = 1
  NPhases = 2
  MaxRounds = 1
  PostRounds = 1
  MaxEscalations = 0
  MaxGateRepairs = 0
  MaxStabilise = 1
  MaxReopens = 0
  Finding = {}
  Obligation <- ObligationOf
  Strategy = {}
  Reconsiders = {}
  Proven = {1}
  Budget <- OneOrTwo
  Mishap = {"stray", "crash", "artifact"}
  MaxMishaps = 1
  MaxRound = 3
  BaselineGate <- AllPassed
  GateRun <- OnlyPassed
INVARIANTS CertifiedAsOne PassCoversEveryChange
PROPERTIES PhasesOnlyAdvance SavedChunksAreNotPaidAgain
CHECK_DEADLOCK FALSE
