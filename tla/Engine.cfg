CONSTANTS
  Starts = {s1, s2}
  Stops = {x1}
  Loops = {l1, l2}
  NoLoop = NoLoop
  Prices = {100, 110}
  Dists = {5}
  Pcts = {5}
SPECIFICATION SpecMC
INVARIANTS TypeOK OneSession PositionShape LedgerMatches
PROPERTIES NoOpenWhenStopped StopReturns
