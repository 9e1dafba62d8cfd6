\* A source whose calls are all refused.
SPECIFICATION Spec
CONSTANTS
  Traffic <- RefusedTraffic
  Detectors = {"failed_call_ratio"}
  Limit <- TwoEach
  MinRatio = 80
  Window = 2
  Cap = 9
  DedupWindow = 2
  EventsCap = 1
  ThreatsCap = 1
  MaxTx = 3
  MaxTime = 3
INVARIANTS FailingCallerFlagged
CHECK_DEADLOCK FALSE
