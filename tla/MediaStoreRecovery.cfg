\* Two concurrent requests over two object keys and one article; nothing fails any more,
\* but the tables and the store start as earlier failures left them.
SPECIFICATION RecoverySpec
CONSTANTS
  Requests = {r1, r2}
  Keys = {k1, k2}
  ArticleIds = {a1}
  Faults = {}
  NoKey = NoKey
  NoArticle = NoArticle
  Nobody = Nobody
PROPERTIES DeleteFinishes RemoveFinishes
