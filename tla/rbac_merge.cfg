SPECIFICATION Spec
CONSTANTS
  web1 = web1
  web2 = web2
  db = db
  shop = shop
  data = data
  nsKind = nsKind
  pod = pod
  secret = secret
  webName = webName
  dbName = dbName
  cdc = cdc
  Kinds <- MCKinds
  NamespaceKind = nsKind
  Namespaces <- MCNamespaces
  Cluster = Cluster
  Compositions <- MCAll
  Charts <- MCCharts
  Names <- MCNames
  Name <- MCName
  Accounts <- MCAccounts
  Account <- MCAccount
  Existing <- MCShop
  Leaving <- SomeLeave
  NoObject = NoObject
  NoPolicy = NoPolicy
  User = User
  MaxFaults = 1
INVARIANTS
  TypeOK
  GrantedHolds
PROPERTIES
  NoRuleLost
  OnlyAskedRules
  ImplementsStore
  OwnRolesOnly
