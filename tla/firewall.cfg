\* Two goroutines on every backend, one failing command, a crash and a reboot.
SPECIFICATION FairSpec
CONSTANTS
  V4 = {a}
  V6 = {b}
  Modes = {"iptables", "ipset", "iptables+xdp", "ipset+xdp", "iptables|xdp"}
  Callers = {p, q}
  Limit = 3
  NPorts = 1
  VlanDepth = 2
  MaxTags = 3
  MaxFaults = 1
  MaxBoots = 2
INVARIANTS TypeOK BannedIsDropped ReleasedIsHeard DuplicatesBounded
PROPERTIES PromiseSpec CallsEnd
