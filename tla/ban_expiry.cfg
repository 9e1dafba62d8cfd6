\* The expiry ticker beside detection and an operator, over live and dry-run starts.
SPECIFICATION FairSpec
CONSTANTS
  IPs = {i1, i2}
  NoIP = NoIP
  MaxBans = 2
  ApiThreads = {t1}
  ApiOps = {"create", "delete"}
  Nets <- BareNets
  Statics <- EmptyOnly
  Locals <- EmptyOnly
  XdpMode = "off"
  XdpCap = 1
  DryRunModes <- LiveOrShadow
  Faults = {}
  Slow <- Everyone
  MaxBoots = 2
PROPERTIES DueBansExpire
