\* Detection bans an address again while its old ban is being expired.
SPECIFICATION Spec
CONSTANTS
  IPs = {i1}
  NoIP = NoIP
  MaxBans = 2
  ApiThreads = {t1}
  ApiOps = {}
  Nets <- BareNets
  Statics <- EmptyOnly
  Locals <- EmptyOnly
  XdpMode = "off"
  XdpCap = 1
  DryRunModes <- Live
  Faults = {}
  Slow = {}
  MaxBoots = 1
INVARIANTS EnforcedRowsBlocked
