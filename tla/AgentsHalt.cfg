CONSTANTS
  Agents = {1}
  Calls = {c1, c2}
  NoCall = NoCall
  MaxSpawns = 2
  MaxAgents = 1
  MaxPushes = 1
  MaxFaults = 0
SPECIFICATION Spec
INVARIANT HaltStopsAll
