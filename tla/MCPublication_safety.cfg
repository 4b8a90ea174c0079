CONSTANTS
  x1 = x1
  x2 = x2
  u1 = u1
  u2 = u2
  g1 = g1
  g2 = g2
  Requests = {x1, x2}
  Users = {"ann", "rev", "adm"}
  Author = "ann"
  Reviewers = {"rev", "adm"}
  Admins = {"adm"}
  Contents = {"c1", "c2"}
  Attachments = {"a1"}
  Sources = {"s1"}
  Stakeholders = {u1, u2}
  None = None
  Demo = FALSE
  GateThreads = TRUE
  MaxVersion = 5
  Readers = {u1, u2}
  Groups = {g1, g2}
  Reports = {"r1"}
  InFlight = {x1, x2}
  ReportIds = {1, 2}
  Workers = {x1, x2}
  Providers = {u1, u2}
  Disabled = Disabled
  Batch = 1
  MaxRevision = 2
  Renderers = {x1, x2}
  Keep = 1
  Aging = TRUE
  MaxText = 2
  MaxRenders = 4
SPECIFICATION ProductSpec
SYMMETRY Symmetry
INVARIANTS
  SnapshotIsTheReport
  FeedWithinRecord
  ScopeOpensOnlyByRace
  MailStraysOnlyAfterAMove
  LabelsTellTheVector
  OfferedIsTheSnapshot
PROPERTIES
  RefinesLifecycle
CHECK_DEADLOCK FALSE
