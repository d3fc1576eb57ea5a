SPECIFICATION Spec
CONSTANTS
  MaxSize = 127
  Providers = {"mpp", "rga", "soft", "ref"}
  IdOf <- MCIdOf
  IdOrder <- MCIdOrder
  ProbesOf <- MCProbesOf
  Requests <- MCRequests
  Addresses = {1, 4, 8, 24}
  Capacities = {48, 127}
  Alignments = {2, 4}
  Cuts = {0, 4}
  Regions = {r1, r2}
  MaxBuffers = 2
  Framed <- MCFramed
INVARIANTS BestSelected NegotiatedIsUsable MapsAccounted BuffersHonest PromiseKept
SYMMETRY Symmetry
