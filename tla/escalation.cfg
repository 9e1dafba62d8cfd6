\* One address that comes back, with dry-run mode, operators and outages in between.
SPECIFICATION Spec
CONSTANTS
  Configs <- MCConfigs
  Gap = 1
  Outage = 1
  MaxBans = 5
  MaxTime = 12
INVARIANTS PersistentClimbs NoLockout
PROPERTIES CleanIsForgiven
CHECK_DEADLOCK FALSE
