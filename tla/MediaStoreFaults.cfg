\* Two concurrent requests over three object keys and two articles; everything may fail.
SPECIFICATION Spec
CONSTANTS
  Requests = {r1, r2}
  Keys = {k1, k2, k3}
  ArticleIds = {a1, a2}
  Faults = {"db", "put", "delete", "crash"}
  NoKey = NoKey
  NoArticle = NoArticle
  Nobody = Nobody
SYMMETRY Interchangeable
INVARIANTS TypeOK RowsOrQueue OneCover LookupsStayTrue
PROPERTIES NeverForget AnswersAreTrue StorageErrorsAreRetryable ImplementsLedger
