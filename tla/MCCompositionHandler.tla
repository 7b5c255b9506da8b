------------------------ MODULE MCCompositionHandler ------------------------
(* A small instance of CompositionHandler: two chart versions, two values.  *)
(* One edit of the values changes the manifest, the other chart version     *)
(* renders the same manifest for one of them and no object for the other.   *)
EXTENDS CompositionRefinement

CONSTANTS v1, v2, c1, c2, m1, m2, none, clusterRole, teamRole

MCValues == {v1, v2}
MCCharts == {c1, c2}
MCOneChart == {c1}
MCManifests == {m1, m2, none}

MCRender == [x \in Charts \X MCValues |->
               IF x[2] = v1 THEN m1 ELSE IF x[1] = c1 THEN m2 ELSE none]

\* Only the second manifest has an object in the team's namespace.
MCRoles == {clusterRole, teamRole}
MCScopes == {"nodes", "storage", "pods"}
MCRoleOf == [rule \in MCScopes |-> IF rule = "pods" THEN teamRole ELSE clusterRole]
MCGrants == [m \in MCManifests |->
               IF m = m1 THEN {"nodes"} ELSE IF m = m2 THEN {"storage", "pods"} ELSE {}]

\* One rule, which one of the manifests needs, for the runs about pauses.
MCOneScope == {"nodes"}
MCOneRole == {clusterRole}
MCOneRoleOf == [rule \in MCOneScope |-> clusterRole]
MCOneGrants == [m \in MCManifests |-> IF m = m2 THEN {"nodes"} ELSE {}]
=============================================================================
