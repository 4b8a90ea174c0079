CONSTANTS
  x1 = x1
  x2 = x2
  v1 = v1
  v2 = v2
  Requests = {x1, x2}
  Revisions = {v1, v2}
  None = None
  MaxSources = 3
  Exported = {"p1", "p2"}
  Techniques = {"t1"}
  Actors = {}
  Level <- mcLevel
  RankOf <- mcRankOf
  Sessions = {x1, x2}
  PageSize = 2
  MaxStamp = 3
  Administrators = {x1, x2}
  Stakeholders = {s1}
  RuleSets <- mcRuleSets
  Windows <- mcWindows
  Unset = Unset
  MaxVersions = 3
  MaxTime = 2
SPECIFICATION SharingSpec
SYMMETRY Symmetry
INVARIANTS
  OneRuleSetLive
  DeliveredAsPreviewed
  OpenIsNewest
  ManifestNamesOrigins
  WithdrawalIsShown
  StaleOnlyUnstamped
  MissedOnlyBehind
PROPERTIES
  RewrittenOnlyByRace
  ProducersWordOverruledOnlyByRace
CHECK_DEADLOCK FALSE
