SPECIFICATION Spec
CONSTANTS
  Process = {"p1"}
  Family = {"opus", "gemini", "codex"}
  Agy = {"opus", "gemini"}
  Pool = {"cg", "gm", "cx"}
  PoolOf <- Pools
  Policy <- OneReviewer
  Wirings <- AllWired
  Delays = 2
  Outcome <- Spawning
  Cooldowns = {1}
  MaxClock = 0
  MaxRuns <- TwiceAndOnce
  None = None
PROPERTIES EveryCandidateIsReached
CHECK_DEADLOCK FALSE
