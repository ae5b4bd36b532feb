SPECIFICATION AgentSpec
CHECK_DEADLOCK FALSE
CONSTANTS
  Commands = {c1}
  MaxLines = 1
  MaxDrops = 0
INVARIANT AllOutputSent
