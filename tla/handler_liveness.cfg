SPECIFICATION FairSpec
CONSTANTS
  v1 = v1
  v2 = v2
  c1 = c1
  c2 = c2
  m1 = m1
  m2 = m2
  none = none
  clusterRole = clusterRole
  teamRole = teamRole
  Values <- MCValues
  Charts <- MCCharts
  Manifests <- MCManifests
  EmptyManifest = none
  Render <- MCRender
  Scopes <- MCScopes
  Grants <- MCGrants
  Roles <- MCRoles
  ClusterRole = clusterRole
  RoleOf <- MCRoleOf
  NoRelease = NoRelease
  NoDigest = NoDigest
  NoLabel = NoLabel
  NoChart = NoChart
  InitialValues = v1
  InitialChart = c1
  MaxEdits = 2
  MaxFaults = 1
PROPERTIES
  Converges
  DeleteCompletes
