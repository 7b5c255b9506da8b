SPECIFICATION Spec
CONSTANTS
  near = near
  far = far
  home = home
  elsewhere = elsewhere
  v1 = v1
  v2 = v2
  stable = stable
  protected = protected
  next = next
  Definitions <- MCDefinitions
  Position <- MCPosition
  NamespaceOf <- MCNamespaceOf
  Home = home
  Versions <- MCVersions
  Charts <- MCCharts
  VersionOf <- MCVersionOf
  Private <- MCPrivate
  NoDefinition = NoDefinition
  NoVersion = NoVersion
  NoChart = NoChart
  InitialVersion = v1
  InitialChart = stable
  MaxEdits = 2
  MaxFaults = 1
PROPERTIES
  SearchedInNamespace
