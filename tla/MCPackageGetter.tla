--------------------------- MODULE MCPackageGetter ---------------------------
(* Two definitions and two versions: charts of the same version, one of them  *)
(* behind a password, and one of the next version.                            *)
EXTENDS PackageGetter

CONSTANTS near, far, home, elsewhere, v1, v2, stable, protected, next

MCDefinitions == {near, far}
\* The API server lists by namespace and name.
MCPosition == [d \in MCDefinitions |-> IF d = far THEN 1 ELSE 2]
MCNamespaceOf == [d \in MCDefinitions |-> IF d = far THEN elsewhere ELSE home]
MCVersions == {v1, v2}
MCCharts == {stable, protected, next}
MCVersionOf == [c \in MCCharts |-> IF c = next THEN v2 ELSE v1]
MCPrivate == {protected}
=============================================================================
