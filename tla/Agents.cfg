CONSTANTS
  Agents = {1, 2}
  Calls = {c1, c2}
  NoCall = NoCall
  MaxSpawns = 2
  MaxAgents = 1
  MaxPushes = 1
  MaxFaults = 1
SPECIFICATION Spec
SYMMETRY Symmetry
INVARIANTS TypeOK StopReachesTrading NoDeadlock SerialSafe
