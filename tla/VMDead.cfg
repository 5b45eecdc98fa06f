CONSTANTS
  VMs = {v1, v2}
  NoVM = NoVM
  Requests = {r1}
  Sockets = {}
  NoTask = NoTask
  Drainers = {}
  MaxFaults = 0
SPECIFICATION BusySpec
PROPERTIES DeadInstanceReplaced
