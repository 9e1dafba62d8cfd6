\* Every goroutine and request at once, both backends, store faults.
SPECIFICATION Spec
CONSTANTS
  IPs = {i1}
  NoIP = NoIP
  MaxBans = 1
  ApiThreads = {t1}
  ApiOps = {"create", "delete", "whitelist", "unwhitelist", "detach", "sighup"}
  Nets <- BareNets
  Statics <- EmptyOnly
  Locals <- EmptyOnly
  XdpMode = "composite"
  XdpCap = 1
  DryRunModes <- LiveOrShadow
  Faults = {"store", "exec", "attach"}
  Slow <- Everyone
  MaxBoots = 1
INVARIANTS IInv
PROPERTIES KillSwitchFreezesMap LedgerSpec WhitelistSettles
