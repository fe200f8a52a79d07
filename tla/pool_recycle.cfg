SPECIFICATION FairSpec
CONSTANTS
  d1 = d1
  d2 = d2
  d3 = d3
  c1 = c1
  c2 = c2
  a = a
  b = b
  g1 = g1
  g2 = g2
  g3 = g3
  Dom <- Dom2
  Client <- Client1
  Ip <- OneIp
  GuestIp <- GuestIps2
  Gen = {1, 2}
  Configs <- Exclusive
  DefaultConfig <- Default
  IdWrap = 2
  MakeBound = 3
  ConnBound = 2
  Recycle = TRUE
  Overlap = FALSE
  SshEnabled = TRUE
  TelnetEnabled = TRUE
  QemuFaults = {"create", "destroy"}
INVARIANTS
  GuestIpsDiffer
  LeaseResolves
PROPERTIES
  RecyclingRestarts
  GuestsMoveOn
