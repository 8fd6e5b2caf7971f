CONSTANTS
  Processes = {p1, p2}
  Nobody = Nobody
  None = None
  Partial = Partial
  Newest = 6
  Articles = {1, 2}
  Urls = {"u", "v"}
  OldLinks <- MCOldLinks
  OldCategories = {{"ufo"}}
  InitialCategories = {"ufo", "myths"}
  Keys = {k1}
  Data <- MCData
  Images <- MCImages
  MaxDimension = 1920
  MaxPixels = 25000000
  MaxFaults = 2
SPECIFICATION Spec
INVARIANTS
  TypeOK
  VersionsInOrder
  UpgradeKeepsData
  StoredImagesFit
PROPERTIES
  ImplementsObjectStore
  UpgradeFinishes
