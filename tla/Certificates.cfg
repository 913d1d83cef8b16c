SPECIFICATION FairSpec
CONSTANTS
  ca = ca
  leaf = leaf
  Certs = {ca, leaf}
  Issuer <- MCIssuer
  Exportable = {leaf}
  AutoRenewed = {leaf}
  Clients = {c1, c2}
  Scheduler = Scheduler
  None = None
  Validity = 2
  DefaultDays = 2
  RenewalDays = 1
  MaxVersion = 3
  MaxTime = 2
  MaxEvents = 2
INVARIANTS
  VersionsKept
  ExportsTrue
  SignedWithRights
PROPERTIES
  HistoryKept
  DueIsRenewed
CHECK_DEADLOCK FALSE
