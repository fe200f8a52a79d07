SPECIFICATION Spec
CONSTANTS
  d1 = d1
  d2 = d2
  d3 = d3
  c1 = c1
  c2 = c2
  a = a
  b = b
  g1 = g1
  g2 = g2
  g3 = g3
  Dom <- Dom3
  Client <- Clients2
  Ip <- TwoIps
  GuestIp <- GuestIps3
  Gen = {1}
  Configs <- Exclusive
  DefaultConfig <- Default
  IdWrap = 252
  MakeBound = 3
  ConnBound = 2
  Recycle = FALSE
  Overlap = FALSE
  SshEnabled = TRUE
  TelnetEnabled = TRUE
  QemuFaults = {}
SYMMETRY Symmetric
INVARIANTS
  HoldersAreCounted
  ChosenGuestStaysUsable
  PoolBounded
