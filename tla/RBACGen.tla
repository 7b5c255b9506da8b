------------------------------ MODULE RBACGen ------------------------------
(***************************************************************************)
(* internal/rbacgen: the RBAC a release needs, computed from the resources *)
(* of its chart as the chart inspector reports them.                       *)
(***************************************************************************)

CONSTANTS
  Kinds,          \* kinds of Kubernetes objects, by group and resource
  NamespaceKind,  \* the core kind of namespaces
  Namespaces,
  Cluster         \* the scope of objects that are in no namespace

Scopes == Namespaces \cup {Cluster}

ASSUME ScopeAssumption == Cluster \notin Namespaces /\ NamespaceKind \in Kinds

\* A resource of a chart.  Its name only matters when it is itself a namespace.
Resource == {r \in [scope : Scopes, kind : Kinds, name : Scopes] :
               r.scope = Cluster /\ r.kind = NamespaceKind => r.name \in Namespaces}

\* A rule grants every verb on a kind, so that a kind stands for its rule.
Policy == [namespaces : SUBSET Namespaces,   \* to create before the roles in them
           rules : [Scopes -> SUBSET Kinds]]

\* Mutant: every cluster-scoped resource is taken for a namespace.
GenerateAllNamespaces(resources) ==
  [namespaces |-> {r.name : r \in {x \in resources : x.scope = Cluster}},
   rules |-> [s \in Scopes |-> {r.kind : r \in {x \in resources : x.scope = s}}]]

\* Mutant: the resource for which a namespace's role is made is not granted in it.
GenerateWithoutFirst(resources) ==
  [namespaces |-> {r.name : r \in {x \in resources : x.scope = Cluster
                                                     /\ x.kind = NamespaceKind}},
   rules |-> [s \in Scopes |->
                {r.kind : r \in {x \in resources :
                   x.scope = s /\ (s # Cluster => x # CHOOSE y \in resources : y.scope = s)}}]]

\* RBACGen.Generate.  The namespaces have a Role when they have a resource.
Generate(resources) ==
  [namespaces |-> {r.name : r \in {x \in resources : x.scope = Cluster
                                                     /\ x.kind = NamespaceKind}},
   rules |-> [s \in Scopes |-> {r.kind : r \in {x \in resources : x.scope = s}}]]

\* The scopes for which a policy has a role and a binding; the ClusterRole and its
\* binding are made even when they have no rule.
RoleScopes(policy) == {Cluster} \cup {s \in Namespaces : policy.rules[s] # {}}
=============================================================================
