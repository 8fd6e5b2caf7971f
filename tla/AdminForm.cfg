CONSTANTS
  None = None
  Configs <- MCConfigs
  Short = {"sh"}
  Keys = {"ak", "hk", "pw"}
  Secrets = {"s1", "s2"}
  Tokens = {t1, t2, t3}
  TTL = 1
  MaxTime = 1
  MaxBare = 1
  Categories = {"c"}
  Numbers = {"7", "9"}
  Others = {"7"}
  Words = {"see"}
  UrlParts = {"u1", "u2"}
  Typed <- MCTyped
  ApiInputs <- MCApiInputs
  MaxArticles = 2
  MaxEdits = 1
SYMMETRY Symmetry
VIEW View
SPECIFICATION Spec
INVARIANTS
  TypeOK
  SessionsAsLoggedIn
  FormsCarryTheToken
PROPERTIES
  UntouchedPartsAreKept
  FormsHitTheirArticle
  ChangesAreAuthorised
  AgentsOnlyWrite
  RefusedFormsComeBack
