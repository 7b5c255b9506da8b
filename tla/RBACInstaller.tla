--------------------------- MODULE RBACInstaller ---------------------------
(***************************************************************************)
(* internal/tools/rbac: ApplyRBAC and UninstallRBAC, run by the handlers   *)
(* of several compositions on the objects of one cluster.                  *)
(*                                                                         *)
(* Each object is read and then written: two calls, between which another  *)
(* installer may create, change or delete the same object.  Compositions   *)
(* with the same release name share its ClusterRole and ClusterRoleBinding *)
(* and, when they deploy to the same namespace, its Role and RoleBinding.  *)
(***************************************************************************)
EXTENDS Naturals, RBACGen

CONSTANTS
  Compositions,
  Charts,      \* [Compositions -> SUBSET SUBSET Resource], what each may deploy
  Names, Name, \* [Compositions -> Names], the release name, base name of the RBAC
  Accounts, Account,    \* [Compositions -> Accounts], its controller's account
  Existing,    \* the namespaces the users created
  Leaving,     \* the compositions that may be deleted
  NoObject, NoPolicy, User,
  MaxFaults    \* bound: calls that fail

ASSUME InstallerAssumption ==
  /\ Charts \in [Compositions -> SUBSET SUBSET Resource]
  /\ Name \in [Compositions -> Names]
  /\ Account \in [Compositions -> Accounts]
  /\ Existing \subseteq Namespaces
  /\ NoPolicy \notin Policy
  /\ User \notin Compositions
  /\ MaxFaults \in Nat

Role == [rules : SUBSET Kinds]
Owners == Compositions \cup {User}

ASSUME NoObjectAssumption == NoObject \notin Accounts \cup Owners \cup Role

Objects == [kind : {"namespace"}, scope : Namespaces]
             \cup [kind : {"role", "binding"}, scope : Scopes]

Nothing == [kind |-> "none", scope |-> Cluster]

VARIABLES
  namespaces,  \* [Namespaces -> the release that Helm's annotations name, or User]
  roles,       \* [Names \X Scopes -> the Role or ClusterRole]
  bindings,    \* [Names \X Scopes -> account bound to the role of the same name]
  job,         \* what the installer of a composition runs: "apply" or "uninstall"
  policy,      \* the RBAC it was called with
  left,        \* the objects it has still to deal with
  target,      \* the object it has read
  seen,        \* what Get returned, or NoObject for NotFound
  fresh,       \* the installers whose role has not been written since they read it
  granted,     \* the policy of the last ApplyRBAC that succeeded
  faults

objects == <<namespaces, roles, bindings>>
calls   == <<job, policy, left, target, seen, fresh, granted>>
vars    == <<objects, calls, faults>>

TypeOK ==
  /\ namespaces \in [Namespaces -> Owners \cup {NoObject}]
  /\ roles \in [Names \X Scopes -> Role \cup {NoObject}]
  /\ bindings \in [Names \X Scopes -> Accounts \cup {NoObject}]
  /\ job \in [Compositions -> {"none", "apply", "uninstall"}]
  /\ policy \in [Compositions -> Policy \cup {NoPolicy}]
  /\ left \in [Compositions -> SUBSET Objects]
  /\ target \in [Compositions -> Objects \cup {Nothing}]
  /\ seen \in [Compositions -> Owners \cup Accounts \cup Role \cup {NoObject}]
  /\ fresh \in SUBSET Compositions
  /\ granted \in [Compositions -> Policy \cup {NoPolicy}]
  /\ faults \in 0 .. MaxFaults

Init ==
  /\ namespaces = [n \in Namespaces |-> IF n \in Existing THEN User ELSE NoObject]
  /\ roles = [k \in Names \X Scopes |-> NoObject]
  /\ bindings = [k \in Names \X Scopes |-> NoObject]
  /\ job = [c \in Compositions |-> "none"]
  /\ policy = [c \in Compositions |-> NoPolicy]
  /\ left = [c \in Compositions |-> {}]
  /\ target = [c \in Compositions |-> Nothing]
  /\ seen = [c \in Compositions |-> NoObject]
  /\ fresh = {}
  /\ granted = [c \in Compositions |-> NoPolicy]
  /\ faults = 0

-----------------------------------------------------------------------------

\* The role and the binding that c means by its target.
Key(c) == <<Name[c], target[c].scope>>

RBACObjects(p) == [kind : {"role", "binding"}, scope : RoleScopes(p)]
NamespaceObjects(p) == [kind : {"namespace"}, scope : p.namespaces]

\* The order of ApplyRBAC and UninstallRBAC: the namespaces, the ClusterRole and
\* its binding, and then for each namespace, in any order, its role and binding.
Turn(todo) ==
  LET first     == {o \in todo : o.kind = "namespace"}
      clusters  == {o \in todo : o = [kind |-> "role", scope |-> Cluster]}
      half_done == {o \in todo : o.kind = "binding"
                                 /\ [kind |-> "role", scope |-> o.scope] \notin todo}
  IN IF first # {} THEN first
     ELSE IF half_done # {} THEN half_done
     ELSE IF clusters # {} THEN clusters
     ELSE {o \in todo : o.kind = "role"}

\* The call is over, with or without an error.
Finish(c) ==
  /\ job' = [job EXCEPT ![c] = "none"]
  /\ policy' = [policy EXCEPT ![c] = NoPolicy]
  /\ left' = [left EXCEPT ![c] = {}]
  /\ target' = [target EXCEPT ![c] = Nothing]
  /\ seen' = [seen EXCEPT ![c] = NoObject]

\* The target has been dealt with; the loop goes on.
Proceed(c) ==
  /\ left' = [left EXCEPT ![c] = @ \ {target[c]}]
  /\ target' = [target EXCEPT ![c] = Nothing]
  /\ seen' = [seen EXCEPT ![c] = NoObject]
  /\ UNCHANGED <<job, policy>>

\* Every installer that has read the role of key k has an old resourceVersion now.
Written(k) == fresh' = fresh \ {c \in Compositions : Key(c) = k}

\* The object o as the API server stores it for the release name of c.
Stored(o, c) ==
  IF o.kind = "namespace" THEN namespaces[o.scope]
  ELSE IF o.kind = "role" THEN roles[<<Name[c], o.scope>>]
  ELSE bindings[<<Name[c], o.scope>>]

\* A role or a binding cannot be created in a namespace that is not there.
NamespaceExists(s) == s = Cluster \/ namespaces[s] # NoObject

\* The write that follows Get is Create or Update, and finds what Get found.
AsRead(c) == (seen[c] = NoObject) <=> (Stored(target[c], c) = NoObject)

-----------------------------------------------------------------------------
(* ApplyRBAC *)

BeginApply(c) ==
  /\ job[c] = "none"
  /\ \E resources \in Charts[c] :
       LET p == Generate(resources)
       IN /\ policy' = [policy EXCEPT ![c] = p]
          /\ left' = [left EXCEPT ![c] = NamespaceObjects(p) \cup RBACObjects(p)]
  /\ job' = [job EXCEPT ![c] = "apply"]
  /\ UNCHANGED <<objects, target, seen, fresh, granted, faults>>

\* Get of the next object.
Read(c) ==
  /\ job[c] = "apply" /\ target[c] = Nothing
  /\ \E o \in Turn(left[c]) :
       /\ target' = [target EXCEPT ![c] = o]
       /\ seen' = [seen EXCEPT ![c] = Stored(o, c)]
       /\ fresh' = IF o.kind = "role" THEN fresh \cup {c} ELSE fresh
  /\ UNCHANGED <<objects, job, policy, left, granted, faults>>

\* ApplyNamespace: Create, or Update with Helm's annotations for this release.
\* Create fails if the namespace is there by now, and Update if it is gone.
ApplyNamespace(c) ==
  /\ job[c] = "apply" /\ target[c].kind = "namespace"
  /\ IF AsRead(c)
     THEN namespaces' = [namespaces EXCEPT ![target[c].scope] = c] /\ Proceed(c)
     ELSE Finish(c) /\ UNCHANGED namespaces
  /\ UNCHANGED <<roles, bindings, fresh, granted, faults>>

\* Mutant: a role that exists by now is as good as the one to create.
CreateRoleOrFind(c) ==
  /\ job[c] = "apply" /\ target[c].kind = "role" /\ seen[c] = NoObject
  /\ roles' = [roles EXCEPT ![Key(c)] =
                 IF @ = NoObject THEN [rules |-> policy[c].rules[target[c].scope]] ELSE @]
  /\ Written(Key(c))
  /\ Proceed(c)
  /\ UNCHANGED <<namespaces, bindings, granted, faults>>

\* ApplyRole and ApplyClusterRole when Get found no role.
CreateRole(c) ==
  /\ job[c] = "apply" /\ target[c].kind = "role" /\ seen[c] = NoObject
  /\ IF AsRead(c) /\ NamespaceExists(target[c].scope)
     THEN /\ roles' = [roles EXCEPT ![Key(c)] = [rules |-> policy[c].rules[target[c].scope]]]
          /\ Written(Key(c))
          /\ Proceed(c)
     ELSE Finish(c) /\ UNCHANGED <<roles, fresh>>
  /\ UNCHANGED <<namespaces, bindings, granted, faults>>

\* Mutant: the update carries no resourceVersion.
MergeRoleBlindly(c) ==
  /\ job[c] = "apply" /\ target[c].kind = "role" /\ seen[c] # NoObject
  /\ LET rules == policy[c].rules[target[c].scope]
     IN roles' = [roles EXCEPT ![Key(c)] = [rules |-> seen[c].rules \cup rules]]
  /\ Written(Key(c))
  /\ Proceed(c)
  /\ UNCHANGED <<namespaces, bindings, granted, faults>>

\* Mutant: a conflict is met by trying the same update again.
MergeRoleAgain(c) ==
  /\ job[c] = "apply" /\ target[c].kind = "role" /\ seen[c] # NoObject
  /\ LET rules == policy[c].rules[target[c].scope]
     IN IF rules \subseteq seen[c].rules
        THEN Proceed(c) /\ UNCHANGED <<roles, fresh>>
        ELSE /\ c \in fresh
             /\ roles' = [roles EXCEPT ![Key(c)] = [rules |-> seen[c].rules \cup rules]]
             /\ Written(Key(c))
             /\ Proceed(c)
  /\ UNCHANGED <<namespaces, bindings, granted, faults>>

\* ApplyRole and ApplyClusterRole when Get found a role: the rules that are not
\* among those read are appended, and nothing is written when there are none.
\* The role is written as it was read, with its resourceVersion.
MergeRole(c) ==
  /\ job[c] = "apply" /\ target[c].kind = "role" /\ seen[c] # NoObject
  /\ LET rules == policy[c].rules[target[c].scope]
     IN IF rules \subseteq seen[c].rules
        THEN Proceed(c) /\ UNCHANGED <<roles, fresh>>
        ELSE IF c \in fresh
        THEN /\ roles' = [roles EXCEPT ![Key(c)] = [rules |-> seen[c].rules \cup rules]]
             /\ Written(Key(c))
             /\ Proceed(c)
        ELSE Finish(c) /\ UNCHANGED <<roles, fresh>>
  /\ UNCHANGED <<namespaces, bindings, granted, faults>>

\* ApplyRoleBinding and ApplyClusterRoleBinding: Create, or Update whatever the
\* binding is now.
ApplyBinding(c) ==
  /\ job[c] = "apply" /\ target[c].kind = "binding"
  /\ IF AsRead(c) /\ NamespaceExists(target[c].scope)
     THEN bindings' = [bindings EXCEPT ![Key(c)] = Account[c]] /\ Proceed(c)
     ELSE Finish(c) /\ UNCHANGED bindings
  /\ UNCHANGED <<namespaces, roles, fresh, granted, faults>>

\* ApplyRBAC returns nil.
Applied(c) ==
  /\ job[c] = "apply" /\ left[c] = {}
  /\ granted' = [granted EXCEPT ![c] = policy[c]]
  /\ Finish(c)
  /\ UNCHANGED <<objects, fresh, faults>>

-----------------------------------------------------------------------------
(* UninstallRBAC *)

BeginUninstall(c) ==
  /\ c \in Leaving /\ job[c] = "none"
  /\ \E resources \in Charts[c] :
       LET p == Generate(resources)
       IN /\ policy' = [policy EXCEPT ![c] = p]
          /\ left' = [left EXCEPT ![c] = RBACObjects(p)]
  /\ job' = [job EXCEPT ![c] = "uninstall"]
  /\ granted' = [granted EXCEPT ![c] = NoPolicy]
  /\ UNCHANGED <<objects, target, seen, fresh, faults>>

\* Mutant: a role that is not there means that UninstallRBAC has been through.
RemoveUntilMissing(c) ==
  /\ job[c] = "uninstall"
  /\ \E o \in Turn(left[c]) :
       LET k == <<Name[c], o.scope>>
       IN IF o.kind = "role" /\ roles[k] = NoObject
          THEN Finish(c) /\ UNCHANGED <<roles, bindings, fresh>>
          ELSE /\ IF o.kind = "role"
                  THEN roles' = [roles EXCEPT ![k] = NoObject] /\ Written(k) /\ UNCHANGED bindings
                  ELSE bindings' = [bindings EXCEPT ![k] = NoObject] /\ UNCHANGED <<roles, fresh>>
               /\ left' = [left EXCEPT ![c] = @ \ {o}]
               /\ UNCHANGED <<job, policy, target, seen>>
  /\ UNCHANGED <<namespaces, granted, faults>>

\* Mutant: the roles of a scope are deleted by their labels, which are all the same.
RemoveByLabel(c) ==
  /\ job[c] = "uninstall"
  /\ \E o \in Turn(left[c]) :
       /\ IF o.kind = "role"
          THEN /\ roles' = [k \in Names \X Scopes |->
                              IF k[2] = o.scope THEN NoObject ELSE roles[k]]
               /\ fresh' = fresh \ {d \in Compositions : target[d].scope = o.scope}
               /\ UNCHANGED bindings
          ELSE /\ bindings' = [bindings EXCEPT ![<<Name[c], o.scope>>] = NoObject]
               /\ UNCHANGED <<roles, fresh>>
       /\ left' = [left EXCEPT ![c] = @ \ {o}]
  /\ UNCHANGED <<namespaces, job, policy, target, seen, granted, faults>>

\* DeleteRole, DeleteRoleBinding, ...: an object that is not there is no error.
Remove(c) ==
  /\ job[c] = "uninstall"
  /\ \E o \in Turn(left[c]) :
       LET k == <<Name[c], o.scope>>
       IN /\ IF o.kind = "role"
             THEN roles' = [roles EXCEPT ![k] = NoObject] /\ Written(k) /\ UNCHANGED bindings
             ELSE bindings' = [bindings EXCEPT ![k] = NoObject] /\ UNCHANGED <<roles, fresh>>
          /\ left' = [left EXCEPT ![c] = @ \ {o}]
  /\ UNCHANGED <<namespaces, job, policy, target, seen, granted, faults>>

\* UninstallRBAC returns nil.
Uninstalled(c) ==
  /\ job[c] = "uninstall" /\ left[c] = {}
  /\ Finish(c)
  /\ UNCHANGED <<objects, fresh, granted, faults>>

-----------------------------------------------------------------------------
\* A call to the API server fails without effect, and ApplyRBAC or UninstallRBAC
\* returns its error.  The objects dealt with so far stay.
CallFails(c) ==
  /\ job[c] # "none"
  /\ faults < MaxFaults /\ faults' = faults + 1
  /\ Finish(c)
  /\ UNCHANGED <<objects, fresh, granted>>

\* The namespaces of a release go away with it, and everything in them: Helm has
\* uninstalled the release before UninstallRBAC is called.
NamespaceGoes ==
  \E n \in Namespaces :
    /\ namespaces[n] \in Compositions /\ job[namespaces[n]] = "uninstall"
    /\ namespaces' = [namespaces EXCEPT ![n] = NoObject]
    /\ roles' = [k \in Names \X Scopes |-> IF k[2] = n THEN NoObject ELSE roles[k]]
    /\ bindings' = [k \in Names \X Scopes |-> IF k[2] = n THEN NoObject ELSE bindings[k]]
    /\ fresh' = fresh \ {c \in Compositions : target[c].scope = n}
    /\ UNCHANGED <<job, policy, left, target, seen, granted, faults>>

Apply(c) ==
  \/ BeginApply(c) \/ Read(c) \/ ApplyNamespace(c) \/ CreateRole(c) \/ MergeRole(c)
  \/ ApplyBinding(c) \/ Applied(c)

Uninstall(c) == BeginUninstall(c) \/ Remove(c) \/ Uninstalled(c)

Next == NamespaceGoes \/ \E c \in Compositions : Apply(c) \/ Uninstall(c) \/ CallFails(c)

Spec == Init /\ [][Next]_vars

\* A call that has begun goes on, and a handler whose ApplyRBAC has failed is
\* retried by the runtime; nobody has to delete anything.
FairSpec == Spec /\ \A c \in Compositions : WF_vars(Apply(c))

-----------------------------------------------------------------------------
\* No two installers that merge rules into the same role lose any of them: rules
\* go only when the whole role is deleted.
NoRuleLost ==
  [][\A k \in Names \X Scopes :
       roles[k] # NoObject /\ roles'[k] # NoObject
         => roles[k].rules \subseteq roles'[k].rules]_vars

\* A role only gains rules that an installer for its release name is applying, in
\* the scope that its chart needs them in: no merge of an old read puts back what
\* an uninstall has taken away, and no rule goes to another role.
OnlyAskedRules ==
  [][\A k \in Names \X Scopes :
       roles'[k] # NoObject =>
         \A kind \in roles'[k].rules :
           \/ roles[k] # NoObject /\ kind \in roles[k].rules
           \/ \E c \in Compositions :
                Name[c] = k[1] /\ job[c] = "apply" /\ kind \in policy[c].rules[k[2]]]_vars

\* The compositions whose deletion takes objects of c: those with its release name,
\* and those whose charts create a namespace that c uses.
Threatens(d, c) ==
  \/ Name[d] = Name[c]
  \/ \E r \in UNION Charts[d], s \in UNION Charts[c] :
       /\ r.scope = Cluster /\ r.kind = NamespaceKind
       /\ s.scope = r.name \/ (s.scope = Cluster /\ s.kind = NamespaceKind /\ s.name = r.name)

\* The others take nothing from c: they stay, or do not use what c uses.
Shielded(c) ==
  \A d \in Compositions \ {c} :
    /\ Threatens(d, c) => d \notin Leaving
    /\ Name[d] = Name[c] => Account[d] = Account[c]

\* Once ApplyRBAC has succeeded the controller has the grants it generated, in
\* every scope and bound to its account, until it uninstalls them itself: whatever
\* the other installers do, those that share the release name included, unless
\* they are deleted or run under another account.
GrantedHolds ==
  \A c \in Compositions :
    granted[c] # NoPolicy /\ Shielded(c) =>
       \A s \in RoleScopes(granted[c]) :
         /\ roles[<<Name[c], s>>] # NoObject
         /\ granted[c].rules[s] \subseteq roles[<<Name[c], s>>].rules
         /\ bindings[<<Name[c], s>>] = Account[c]

\* An ApplyRBAC that has succeeded has given the controller access to every resource
\* of the chart it was called with, in the scope of the resource.
ChartIsCovered ==
  \A c \in Compositions :
    granted[c] # NoPolicy /\ Shielded(c) =>
      \E resources \in Charts[c] :
        /\ granted[c] = Generate(resources)
        /\ \A r \in resources :
             LET k == <<Name[c], r.scope>>
             IN roles[k] # NoObject /\ r.kind \in roles[k].rules /\ bindings[k] = Account[c]

\* Conflicts between installers are resolved by retrying: each composition gets its
\* grants in the end.
EachIsGranted == \A c \in Compositions : <>(granted[c] # NoPolicy)

=============================================================================
