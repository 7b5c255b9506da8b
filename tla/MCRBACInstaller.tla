-------------------------- MODULE MCRBACInstaller --------------------------
(* Small instances of RBACInstaller.  web1 and web2 are two compositions of *)
(* the same name deployed without a hash in their release names, so that    *)
(* they share one; db has its own and creates its namespace.                *)
EXTENDS RBACRefinement

CONSTANTS web1, web2, db, shop, data, nsKind, pod, secret,
          webName, dbName, cdc

Pod(s) == [scope |-> s, kind |-> pod, name |-> s]
Secret(s) == [scope |-> s, kind |-> secret, name |-> s]
NamespaceOf(n) == [scope |-> Cluster, kind |-> nsKind, name |-> n]

MCKinds == {nsKind, pod, secret}
MCNamespaces == {shop, data}
MCWebs == {web1, web2}
MCAll == {web1, web2, db}
MCNames == {webName, dbName}
MCName == [c \in Compositions |-> IF c = db THEN dbName ELSE webName]
MCAccounts == {cdc}
MCAccount == [c \in Compositions |-> cdc]

\* Both webs have objects of the cluster's scope.
MCCharts == [c \in Compositions |->
   IF c = web1 THEN {{Pod(shop), Secret(Cluster)}}
   ELSE IF c = web2 THEN {{Pod(Cluster)}}
   ELSE {{NamespaceOf(data), Pod(data)}}]

\* web1's chart grows by a kind of object, in both scopes; web2's creates a
\* namespace for one of its objects.
GrowingCharts == [c \in Compositions |->
   IF c = web1 THEN {{Pod(shop)}, {Pod(shop), Secret(shop), Secret(Cluster)}}
   ELSE {{NamespaceOf(data), Pod(data), Pod(Cluster), Pod(shop)}}]

NoOne == {}
MCShop == {shop}
SomeLeave == {db, web2}
=============================================================================
