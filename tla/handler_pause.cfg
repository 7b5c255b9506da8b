SPECIFICATION FairSpec
CONSTANTS
  v1 = v1
  v2 = v2
  c1 = c1
  c2 = c2
  m1 = m1
  m2 = m2
  none = none
  clusterRole = clusterRole
  teamRole = teamRole
  Values <- MCValues
  Charts <- MCOneChart
  Manifests <- MCManifests
  EmptyManifest = none
  Render <- MCRender
  Scopes <- MCOneScope
  Grants <- MCOneGrants
  Roles <- MCOneRole
  ClusterRole = clusterRole
  RoleOf <- MCOneRoleOf
  NoRelease = NoRelease
  NoDigest = NoDigest
  NoLabel = NoLabel
  NoChart = NoChart
  InitialValues = v1
  InitialChart = c1
  MaxEdits = 4
  MaxFaults = 1
PROPERTIES
  PauseHolds
  PausedIsQuiet
  PauseRecordsTruth
  UnpauseForgotten
