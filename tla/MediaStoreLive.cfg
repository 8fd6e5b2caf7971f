\* Two concurrent requests over two object keys and one article; everything may fail.
SPECIFICATION FairSpec
CONSTANTS
  Requests = {r1, r2}
  Keys = {k1, k2}
  ArticleIds = {a1}
  Faults = {"db", "put", "delete", "crash"}
  NoKey = NoKey
  NoArticle = NoArticle
  Nobody = Nobody
PROPERTIES EveryRequestAnswered
