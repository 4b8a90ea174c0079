CONSTANTS
  Users = {u1, u2}
  Providers = {"entra", "okta"}
  Entra = "entra"
  Subjects = {s1}
  Emails = {m1, m2}
  Logins = {r1, r2}
  MaxLogouts = 2
  Keys = {k1}
  Limiters = {w1, w2}
  Limit = 2
  Period = 2
  Burst = 2
  MinTtl = 1
  MaxLag = 1
  MaxTime = 6
  Calls = {q1}
  SignedIn = {"u1"}
  Sinks = {"syslog"}
  Guards = {{}, {"ANALYST"}}
  Kinds = {"oidc", "proxy"}
  Fields = {"url"}
  Values = {"x", "y"}
  Default <- mcDefault
  Callers = {c1}
  Admins = {a1, a2}
  Workers = {w1}
  MaxSaves = 2
  Reports = {p1}
  Sources = {n1}
  Ceilings = {0, 1}
  Approved = "gateway"
  KeySet = TRUE
  AIFields = {"title", "summary"}
  Tried <- mcTried
  Assistants = {x1, x2}
  MaxVersion = 2
  Visitors = {v1, v2, v3}
  Guests = {g1, g2}
  MaxScenarios = 3
  MaxGeneration = 3
SPECIFICATION Spec
INVARIANTS
  IdentitiesCollideOnlyByRace
  EndedSessionsStayEnded
  BudgetHolds
  DenialsAreRecorded
  RegistryIsCurrent
  EgressIsCleared
  OneScenarioForItsGuest
CHECK_DEADLOCK FALSE
