SPECIFICATION Spec
CONSTANTS
  pod = pod
  role = role
  widget = widget
  web = web
  job = job
  admin = admin
  gadget = gadget
  home = home
  other = other
  Kinds <- MCKinds
  ScopeOf <- MCScopeOf
  Fickle <- MCFickle
  Objects <- MCObjects
  KindOf <- MCKindOf
  NamespaceIn <- MCNamespaceIn
  Namespaces <- MCNamespaces
  NoNamespace = NoNamespace
  ReleaseNamespace = home
  Manifests <- MCManifests
  NoCache = NoCache
  MaxChanges = 3
  MaxFaults = 1
INVARIANTS
  TypeOK
  ManagedInPlace
PROPERTIES
  InstalledKindsFound
  ListedWhole
