SPECIFICATION FairSpec
CONSTANTS
  web1 = web1
  web2 = web2
  db = db
  shop = shop
  data = data
  nsKind = nsKind
  pod = pod
  secret = secret
  webName = webName
  dbName = dbName
  cdc = cdc
  Kinds <- MCKinds
  NamespaceKind = nsKind
  Namespaces <- MCNamespaces
  Cluster = Cluster
  Compositions <- MCWebs
  Charts <- GrowingCharts
  Names <- MCNames
  Name <- MCName
  Accounts <- MCAccounts
  Account <- MCAccount
  Existing <- MCShop
  Leaving <- NoOne
  NoObject = NoObject
  NoPolicy = NoPolicy
  User = User
  MaxFaults = 1
INVARIANTS
  ChartIsCovered
PROPERTIES
  EachIsGranted
