\* Shutdown with full channels, a hung mail server and a late kill switch.
SPECIFICATION FairSpec
CONSTANTS
  Ingesters = {"log", "syslog", "pcap"}
  Tickers = {"maint"}
  Handlers = {h1}
  EventsCap = 1
  ThreatsCap = 1
  MailCap = 1
  MaxWork = 2
INVARIANTS TypeOK NoSendOnClosedQueue KillSwitchAtExit MailDrained
PROPERTIES BansNeverWaitForMail ShutdownCompletes
