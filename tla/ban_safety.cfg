\* The firewall path: detection, expiry, the ban and whitelist API with networks, a crash.
SPECIFICATION Spec
CONSTANTS
  IPs = {i1, i2}
  NoIP = NoIP
  MaxBans = 2
  ApiThreads = {t1}
  ApiOps = {"create", "delete", "whitelist", "unwhitelist"}
  Nets <- AllNets
  Statics <- EmptyOnly
  Locals <- EmptyOnly
  XdpMode = "off"
  XdpCap = 1
  DryRunModes <- LiveOrShadow
  Faults = {}
  Slow <- Everyone
  MaxBoots = 2
INVARIANTS TypeOK SingleAutoBan RecordedBeforeDropped
PROPERTIES LedgerSpec WhitelistShields
