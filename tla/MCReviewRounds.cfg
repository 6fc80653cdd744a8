SPECIFICATION Spec
CONSTANTS
  Version <- OneFile
  MaxArtifact = 0
  NPhases = 0
  MaxRounds = 2
  PostRounds = 1
  MaxEscalations = 2
  MaxGateRepairs = 0
  MaxStabilise = 1
  MaxReopens = 1
  Finding = {"f1"}
  Obligation <- ObligationOf
  Strategy = {"s1", "s2"}
  Reconsiders = {"s2"}
  Proven = {}
  Budget <- OneChunk
  Mishap = {"crash", "fault", "cancel", "unusable", "denied", "outage", "ceiling", "mutate"}
  MaxMishaps = 1
  MaxRound = 4
  BaselineGate <- RedAtBegin
  GateRun <- RedSince
INVARIANTS TypeOK NoIllegalTransition CertifiedAsOne RoundsAreBounded ResumedKeepsItsRound AnswersAreDurable
PROPERTIES OnlyHumansReopen
CHECK_DEADLOCK FALSE
