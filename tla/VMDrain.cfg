CONSTANTS
  VMs = {v1, v2}
  NoVM = NoVM
  Requests = {r1}
  Sockets = {}
  NoTask = NoTask
  Drainers = {d1}
  MaxFaults = 2
SPECIFICATION SpecDrain
INVARIANTS DrainAloneSafe
