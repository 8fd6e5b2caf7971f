\* One request reads while up to four writes are made to three articles, of which a list
\* has at most two.
SPECIFICATION Spec
CONSTANTS
  a1 = a1
  a2 = a2
  a3 = a3
  s1 = s1
  s2 = s2
  s3 = s3
  c1 = c1
  u1 = u1
  ArticleIds = {a1, a2, a3}
  Slugs = {s1, s2, s3}
  Categories = {c1}
  InitialCategories = {}
  Urls = {u1}
  Inputs <- MCInputs
  None = None
  Readers = {r1}
  Newer <- MCNewer
  Limit = 2
  MaxWrites = 4
INVARIANTS LinksNamePublishedOnly
