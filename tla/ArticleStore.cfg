\* Two requests write two articles; statements fail, the process crashes.
SPECIFICATION FairSpec
CONSTANTS
  a1 = a1
  a2 = a2
  s1 = s1
  s2 = s2
  c1 = c1
  c2 = c2
  u1 = u1
  Requests = {r1, r2}
  ArticleIds = {a1, a2}
  Slugs = {s1, s2}
  Categories = {c1, c2}
  InitialCategories = {c1}
  Urls = {u1}
  SourceIds = {x1, x2}
  Inputs <- MCInputs
  None = None
  Nobody = Nobody
INVARIANTS TypeOK CommittedConsistent NoOrphanSources
PROPERTIES ImplementsCatalog FailedWritesLeaveNoTrace CommittedAsSent EveryRequestAnswered
