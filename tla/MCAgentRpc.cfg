CONSTANTS
  a1 = a1
  a2 = a2
  c1 = c1
  Nobody = Nobody
  Dead = Dead
  Sock = Sock
  Missing = Missing
  Apps <- MCApps
  Clients <- MCClients
  Secret <- MCSecret
  Tries <- MCTries
SPECIFICATION FairSpec
INVARIANTS SessionsSound SoleSessionReachable WireInSync
PROPERTIES CommandEnds
CHECK_DEADLOCK FALSE
