\* Three tool calls with every driver; calls may outlast the bridge.
SPECIFICATION FairTurnSpec
CONSTANTS
  Drivers = {"codex", "cli", "api"}
  Calls = {k1, k2, k3}
  MaxRounds = 2
  SlowCalls = TRUE
  None = None
\* The batch is over.
CHECK_DEADLOCK FALSE
INVARIANTS
  ReturnedTurnIsQuiet
  MergedWasBuilt
PROPERTY TurnEnds
