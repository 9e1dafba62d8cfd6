\* Reconcile and restart beside expiry, under fairness, XDP standalone.
SPECIFICATION FairSpec
CONSTANTS
  IPs = {i1}
  NoIP = NoIP
  MaxBans = 2
  ApiThreads = {}
  ApiOps = {"sighup"}
  Nets <- BareNets
  Statics <- AnyAddresses
  Locals <- AnyAddresses
  XdpMode = "standalone"
  XdpCap = 1
  DryRunModes <- Live
  Faults = {"schema"}
  Slow <- Everyone
  MaxBoots = 2
PROPERTIES StaleEntriesHeal RestartReappliesBans
