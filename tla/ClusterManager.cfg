SPECIFICATION FairManagerSpec
CONSTANTS
  Caller = {p1, p2, p3}
  Checker = checker
  Cluster = {c1, c2}
  NoWriter = nobody
  NoCluster = none
  MaxBuilt = 2
INVARIANT OneClient
PROPERTY Served
