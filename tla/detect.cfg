\* Every detector: saturated windows, retransmissions, sweeps, a full threats channel.
SPECIFICATION FairSpec
CONSTANTS
  Traffic <- MixedTraffic
  Detectors <- EveryDetector
  Limit <- TwoEach
  MinRatio = 80
  Window = 2
  Cap = 2
  DedupWindow = 2
  EventsCap = 1
  ThreatsCap = 1
  MaxTx = 3
  MaxTime = 3
INVARIANTS SameEventOnce MemoryBounded
PROPERTIES AlarmsExact EventsDrain
CHECK_DEADLOCK FALSE
