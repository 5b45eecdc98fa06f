CONSTANTS
  VMs = {v1, v2, v3}
  NoVM = NoVM
  Requests = {r1}
  Sockets = {k1}
  NoTask = NoTask
  Drainers = {}
  MaxFaults = 2
SPECIFICATION FairSpec
INVARIANTS TypeOK TrafficOnlyToServing CacheCoherent NoInstanceForgotten OneInstance
PROPERTIES RequestsAnswered ImplementsPromise
