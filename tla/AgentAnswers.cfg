\* A coding-agent CLI whose tool call outlasts the bridge's socket timeout.
SPECIFICATION TurnSpec
CONSTANTS
  Drivers = {"codex", "cli", "api"}
  Calls = {k1, k2}
  MaxRounds = 2
  SlowCalls = TRUE
  None = None
SYMMETRY Alike
\* The batch is over.
CHECK_DEADLOCK FALSE
INVARIANT AgentHearsResult
