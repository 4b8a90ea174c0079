CONSTANTS
  Articles = {a1}
  Suspicious = {a1}
  Analysts = {r1, r2}
  MaxIocs = 2
  Tags = {t1, t2}
  Names = {"A", "B", "C"}
  AliasLists <- mcAliasLists
  Starter = {"A"}
  Owners = {o1}
  Curators = {c1, c2}
  MaxEdits = 4
  Pushers = {q1, q2, q3}
  MaxWrites = 3
  Products = {"p1"}
  Needs = {"pir"}
  OwnerOf <- mcOwnerOf
  Customers = {"s1", "s2"}
  IsDemo = {}
  Tabs = {b1, b2}
  MaxMoves = 2
  Writers = {e1, e2}
  f1 = f1
  f2 = f2
  f3 = f3
  Files = {f1, f2, f3}
  Kind <- mcKind
  DemoManaged = FALSE
  Editors = {e1, e2}
  MaxClaims = 3
  h1 = h1
  h2 = h2
  p = p
  q = q
  Requests = {w1, w2}
  Threads = {h1, h2}
  Replies = {c3}
  Passages = {p, q}
  Quote <- mcQuote
  Replacement <- mcReplacement
  NoThread = NoThread
  MaxVersion = 3
SPECIFICATION CollectionSpec
SYMMETRY Symmetry
INVARIANTS
  DecisionOwnsItsIoc
  LineageEndsInATerm
  OnePushAtATime
  RecordKnowsTheEvent
  MetSatisfies
  ObjectsAccountedFor
PROPERTIES
  NoEditIsClobbered
  PublishedTextFrozen
  SavedRatingsFitTheirRows
CHECK_DEADLOCK FALSE
