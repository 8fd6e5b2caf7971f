\* Two concurrent requests over three object keys and two articles; database calls may fail.
SPECIFICATION Spec
CONSTANTS
  Requests = {r1, r2}
  Keys = {k1, k2, k3}
  ArticleIds = {a1, a2}
  Faults = {"db"}
  NoKey = NoKey
  NoArticle = NoArticle
  Nobody = Nobody
PROPERTIES UploadedRowsAreStored
