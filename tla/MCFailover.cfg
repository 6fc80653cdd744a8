SPECIFICATION Spec
CONSTANTS
  Process = {"p1", "p2"}
  Family = {"gemini", "codex"}
  Agy = {"gemini"}
  Pool = {"gm", "cx"}
  PoolOf <- Pools
  Policy <- TwoRoles
  Wirings <- AllWired
  Delays = 1
  Outcome <- SafeAndShared
  Cooldowns = {1}
  MaxClock = 1
  MaxRuns <- TwiceAndOnce
  None = None
INVARIANTS TypeOK NoFourthTransientCall AuthHealthIsEarned OneTryPerFamily
PROPERTIES CooldownsSurvive CooldownSeenEverywhere
CHECK_DEADLOCK FALSE
