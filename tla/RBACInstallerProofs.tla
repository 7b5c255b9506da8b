------------------------ MODULE RBACInstallerProofs ------------------------
(* Proofs about RBACInstaller, for any compositions, charts and names. *)
EXTENDS RBACInstaller, TLAPS

\* What optimistic concurrency gives a merge: the role an installer holds is the
\* role in the cluster as long as its resourceVersion has not moved.
FreshInv ==
  \A c \in fresh : target[c].kind = "role" => seen[c] = roles[Key(c)]

\* An installer that runs has a policy.
BusyInv == \A c \in Compositions : job[c] # "none" => policy[c] \in Policy

IInv == TypeOK /\ FreshInv /\ BusyInv

-----------------------------------------------------------------------------
(* Lemmas about the operators *)

\* Generate returns a policy for any set of resources.
LEMMA GeneratePolicy ==
  ASSUME NEW resources \in SUBSET Resource
  PROVE  Generate(resources) \in Policy
BY ScopeAssumption DEF Generate, Policy, Resource, Scopes

\* The objects of a policy are objects.
LEMMA PolicyObjects ==
  ASSUME NEW p \in Policy
  PROVE  NamespaceObjects(p) \cup RBACObjects(p) \in SUBSET Objects
BY DEF NamespaceObjects, RBACObjects, RoleScopes, Objects, Policy, Scopes

\* The object whose turn it is is one of those left.
LEMMA TurnLeft ==
  ASSUME NEW todo, NEW o \in Turn(todo)
  PROVE  o \in todo
BY DEF Turn

\* What the API server stores has the type of what Get returns.
LEMMA StoredType ==
  ASSUME TypeOK, NEW c \in Compositions, NEW o \in Objects
  PROVE  Stored(o, c) \in Owners \cup Accounts \cup Role \cup {NoObject}
<1>1. CASE o.kind = "namespace"
  BY <1>1 DEF TypeOK, Stored, Objects
<1>2. CASE o.kind = "role"
  <2>1. <<Name[c], o.scope>> \in Names \X Scopes
    BY InstallerAssumption DEF Objects, Scopes
  <2>2. QED
    BY <1>2, <2>1 DEF TypeOK, Stored
<1>3. CASE o.kind = "binding"
  <2>1. <<Name[c], o.scope>> \in Names \X Scopes
    BY InstallerAssumption DEF Objects, Scopes
  <2>2. QED
    BY <1>3, <2>1 DEF TypeOK, Stored
<1>4. QED
  BY <1>1, <1>2, <1>3 DEF Objects

\* A role or binding that an installer deals with is stored under one of the keys.
LEMMA KeyType ==
  ASSUME TypeOK, NEW c \in Compositions
  PROVE  Key(c) \in Names \X Scopes
BY InstallerAssumption, ScopeAssumption DEF TypeOK, Key, Objects, Nothing, Scopes

\* A role is written, if at all, with rules, and nobody else's read of it is fresh.
LEMMA RulesWritten ==
  ASSUME TypeOK, FreshInv, BusyInv, NEW c \in Compositions, CreateRole(c) \/ MergeRole(c)
  PROVE  \E rules \in SUBSET Kinds :
           \/ UNCHANGED <<roles, fresh>>
           \/ roles' = [roles EXCEPT ![Key(c)] = [rules |-> rules]] /\ Written(Key(c))
<1>1. job[c] = "apply" /\ target[c].kind = "role"
  BY DEF CreateRole, MergeRole
<1>2. target[c].scope \in Scopes
  BY <1>1, ScopeAssumption DEF TypeOK, Objects, Nothing, Scopes
<1>3. policy[c].rules[target[c].scope] \in SUBSET Kinds
  BY <1>1, <1>2 DEF BusyInv, Policy
<1>4. CASE CreateRole(c)
  BY <1>3, <1>4 DEF CreateRole
<1>5. CASE MergeRole(c)
  <2>1. c \in fresh => seen[c] \in Role
    BY <1>1, <1>5, KeyType DEF MergeRole, FreshInv, TypeOK
  <2>2. QED
    BY <1>3, <1>5, <2>1 DEF MergeRole, Role
<1>6. QED
  BY <1>4, <1>5

-----------------------------------------------------------------------------
(* The invariant is inductive *)

\* The invariant holds initially.
LEMMA InitInv == Init => IInv
BY InstallerAssumption, ScopeAssumption
   DEF Init, IInv, TypeOK, FreshInv, BusyInv, Owners

\* A call that ends, or goes on to the next object, keeps the types of what
\* describes it, and the others' policies.
LEMMA CallType ==
  ASSUME TypeOK, BusyInv, NEW c \in Compositions, Finish(c) \/ Proceed(c)
  PROVE  /\ job' \in [Compositions -> {"none", "apply", "uninstall"}]
         /\ policy' \in [Compositions -> Policy \cup {NoPolicy}]
         /\ left' \in [Compositions -> SUBSET Objects]
         /\ target' \in [Compositions -> Objects \cup {Nothing}]
         /\ seen' \in [Compositions -> Owners \cup Accounts \cup Role \cup {NoObject}]
         /\ BusyInv'
BY DEF TypeOK, BusyInv, Finish, Proceed

\* When an installer forgets its object, the others' reads are as good as before,
\* if the roles that changed are no longer fresh to those who read them.
LEMMA OthersFresh ==
  ASSUME TypeOK, FreshInv, NEW c \in Compositions, Finish(c) \/ Proceed(c),
         fresh' \subseteq fresh,
         \A d \in fresh' : target[d].kind = "role" => roles'[Key(d)] = roles[Key(d)]
  PROVE  FreshInv'
<1>1. target' = [target EXCEPT ![c] = Nothing]
  BY DEF Finish, Proceed
<1>2. seen' = [seen EXCEPT ![c] = NoObject]
  BY DEF Finish, Proceed
<1>3. SUFFICES ASSUME NEW d \in fresh', target'[d].kind = "role"
               PROVE  seen'[d] = roles'[Key(d)']
  BY DEF FreshInv
<1>4. d # c
  BY <1>1, <1>3 DEF TypeOK, Nothing
<1>5. Key(d)' = Key(d) /\ seen'[d] = seen[d] /\ target[d].kind = "role"
  BY <1>1, <1>2, <1>3, <1>4 DEF TypeOK, Key
<1>6. QED
  BY <1>3, <1>5 DEF FreshInv

\* Every step keeps the invariant.
LEMMA StepInv == IInv /\ [Next]_vars => IInv'
<1>. SUFFICES ASSUME IInv, [Next]_vars PROVE IInv'
  OBVIOUS
<1>. USE DEF IInv
<1>1. ASSUME NEW c \in Compositions, BeginApply(c)
      PROVE  IInv'
  <2>1. PICK resources \in Charts[c] :
          /\ policy' = [policy EXCEPT ![c] = Generate(resources)]
          /\ left' = [left EXCEPT ![c] = NamespaceObjects(Generate(resources))
                                           \cup RBACObjects(Generate(resources))]
    BY <1>1 DEF BeginApply
  <2>2. Generate(resources) \in Policy
    BY GeneratePolicy, InstallerAssumption
  <2>3. NamespaceObjects(Generate(resources)) \cup RBACObjects(Generate(resources))
          \in SUBSET Objects
    BY <2>2, PolicyObjects
  <2>4. TypeOK' /\ BusyInv'
    BY <1>1, <2>1, <2>2, <2>3 DEF BeginApply, TypeOK, BusyInv, objects
  <2>5. FreshInv'
    BY <1>1 DEF BeginApply, FreshInv, objects, Key
  <2>6. QED
    BY <2>4, <2>5
<1>2. ASSUME NEW c \in Compositions, Read(c)
      PROVE  IInv'
  <2>1. PICK o \in Turn(left[c]) :
          /\ target' = [target EXCEPT ![c] = o]
          /\ seen' = [seen EXCEPT ![c] = Stored(o, c)]
          /\ fresh' = IF o.kind = "role" THEN fresh \cup {c} ELSE fresh
    BY <1>2 DEF Read
  <2>2. o \in Objects
    BY TurnLeft DEF TypeOK
  <2>3. TypeOK' /\ BusyInv'
    BY <1>2, <2>1, <2>2, StoredType DEF Read, TypeOK, BusyInv, objects
  <2>4. ASSUME NEW d \in fresh', target'[d].kind = "role"
        PROVE  seen'[d] = roles'[Key(d)']
    <3>1. CASE d = c
      <4>1. target'[c] = o /\ seen'[c] = Stored(o, c)
        BY <2>1 DEF TypeOK
      <4>2. QED
        BY <1>2, <2>4, <3>1, <4>1 DEF Read, objects, Stored, Key
    <3>2. CASE d # c
      <4>1. d \in fresh /\ target'[d] = target[d] /\ seen'[d] = seen[d]
        BY <2>1, <2>4, <3>2 DEF TypeOK
      <4>2. QED
        BY <1>2, <2>4, <4>1 DEF Read, objects, FreshInv, Key
    <3>3. QED
      BY <3>1, <3>2
  <2>5. QED
    BY <2>3, <2>4 DEF FreshInv
<1>3. ASSUME NEW c \in Compositions, ApplyNamespace(c)
      PROVE  IInv'
  <2>1. Finish(c) \/ Proceed(c)
    BY <1>3 DEF ApplyNamespace
  <2>2. namespaces' \in [Namespaces -> Owners \cup {NoObject}]
    BY <1>3 DEF ApplyNamespace, TypeOK, Owners
  <2>3. TypeOK' /\ BusyInv'
    BY <1>3, <2>1, <2>2, CallType DEF ApplyNamespace, TypeOK
  <2>4. FreshInv'
    BY <1>3, <2>1, OthersFresh DEF ApplyNamespace
  <2>5. QED
    BY <2>3, <2>4
<1>4. ASSUME NEW c \in Compositions, CreateRole(c) \/ MergeRole(c)
      PROVE  IInv'
  <2>1. Finish(c) \/ Proceed(c)
    BY <1>4 DEF CreateRole, MergeRole
  <2>2. PICK rules \in SUBSET Kinds :
          \/ UNCHANGED <<roles, fresh>>
          \/ roles' = [roles EXCEPT ![Key(c)] = [rules |-> rules]] /\ Written(Key(c))
    BY <1>4, RulesWritten
  <2>3. roles' \in [Names \X Scopes -> Role \cup {NoObject}]
    BY <2>2 DEF TypeOK, Role
  <2>4. /\ fresh' \subseteq fresh
        /\ \A d \in fresh' : target[d].kind = "role" => roles'[Key(d)] = roles[Key(d)]
    BY <2>2, KeyType DEF Written, TypeOK
  <2>5. TypeOK' /\ BusyInv'
    BY <1>4, <2>1, <2>3, <2>4, CallType DEF CreateRole, MergeRole, TypeOK
  <2>6. FreshInv'
    BY <2>1, <2>4, OthersFresh
  <2>7. QED
    BY <2>5, <2>6
<1>5. ASSUME NEW c \in Compositions, ApplyBinding(c)
      PROVE  IInv'
  <2>1. Finish(c) \/ Proceed(c)
    BY <1>5 DEF ApplyBinding
  <2>2. bindings' \in [Names \X Scopes -> Accounts \cup {NoObject}]
    BY <1>5, InstallerAssumption DEF ApplyBinding, TypeOK
  <2>3. TypeOK' /\ BusyInv'
    BY <1>5, <2>1, <2>2, CallType DEF ApplyBinding, TypeOK
  <2>4. FreshInv'
    BY <1>5, <2>1, OthersFresh DEF ApplyBinding
  <2>5. QED
    BY <2>3, <2>4
<1>6. ASSUME NEW c \in Compositions, Applied(c) \/ Uninstalled(c) \/ CallFails(c)
      PROVE  IInv'
  <2>1. Finish(c) /\ UNCHANGED <<objects, fresh>>
    BY <1>6 DEF Applied, Uninstalled, CallFails
  <2>2. granted' \in [Compositions -> Policy \cup {NoPolicy}]
    BY <1>6 DEF Applied, Uninstalled, CallFails, TypeOK
  <2>3. faults' \in 0 .. MaxFaults
    BY <1>6, InstallerAssumption DEF Applied, Uninstalled, CallFails, TypeOK
  <2>4. TypeOK' /\ BusyInv'
    BY <2>1, <2>2, <2>3, CallType DEF TypeOK, objects
  <2>5. FreshInv'
    BY <2>1, OthersFresh DEF objects
  <2>6. QED
    BY <2>4, <2>5
<1>7. ASSUME NEW c \in Compositions, BeginUninstall(c)
      PROVE  IInv'
  <2>1. PICK resources \in Charts[c] :
          /\ policy' = [policy EXCEPT ![c] = Generate(resources)]
          /\ left' = [left EXCEPT ![c] = RBACObjects(Generate(resources))]
    BY <1>7 DEF BeginUninstall
  <2>2. Generate(resources) \in Policy
    BY GeneratePolicy, InstallerAssumption
  <2>3. RBACObjects(Generate(resources)) \in SUBSET Objects
    BY <2>2, PolicyObjects
  <2>4. TypeOK' /\ BusyInv'
    BY <1>7, <2>1, <2>2, <2>3 DEF BeginUninstall, TypeOK, BusyInv, objects
  <2>5. FreshInv'
    BY <1>7 DEF BeginUninstall, FreshInv, objects, Key
  <2>6. QED
    BY <2>4, <2>5
<1>8. ASSUME NEW c \in Compositions, Remove(c)
      PROVE  IInv'
  <2>1. PICK o \in Turn(left[c]) :
          /\ \/ /\ roles' = [roles EXCEPT ![<<Name[c], o.scope>>] = NoObject]
                /\ Written(<<Name[c], o.scope>>) /\ UNCHANGED bindings
             \/ /\ bindings' = [bindings EXCEPT ![<<Name[c], o.scope>>] = NoObject]
                /\ UNCHANGED <<roles, fresh>>
          /\ left' = [left EXCEPT ![c] = @ \ {o}]
    BY <1>8 DEF Remove
  <2>2. /\ fresh' \subseteq fresh
        /\ \A d \in fresh' : target[d].kind = "role" => roles'[Key(d)] = roles[Key(d)]
    BY <2>1, KeyType DEF Written, TypeOK
  <2>3. TypeOK' /\ BusyInv'
    BY <1>8, <2>1, <2>2 DEF Remove, TypeOK, BusyInv
  <2>4. FreshInv'
    BY <1>8, <2>2 DEF Remove, FreshInv, Key
  <2>5. QED
    BY <2>3, <2>4
<1>9. CASE NamespaceGoes
  <2>1. PICK n \in Namespaces :
          /\ namespaces' = [namespaces EXCEPT ![n] = NoObject]
          /\ roles' = [k \in Names \X Scopes |-> IF k[2] = n THEN NoObject ELSE roles[k]]
          /\ bindings' = [k \in Names \X Scopes |-> IF k[2] = n THEN NoObject ELSE bindings[k]]
          /\ fresh' = fresh \ {c \in Compositions : target[c].scope = n}
    BY <1>9 DEF NamespaceGoes
  <2>2. TypeOK' /\ BusyInv'
    BY <1>9, <2>1 DEF NamespaceGoes, TypeOK, BusyInv
  <2>3. ASSUME NEW d \in fresh', target[d].kind = "role"
        PROVE  seen[d] = roles'[Key(d)]
    <3>1. d \in fresh /\ d \in Compositions /\ target[d].scope # n
      BY <2>1, <2>3 DEF TypeOK
    <3>2. roles'[Key(d)] = roles[Key(d)]
      BY <2>1, <3>1, KeyType DEF Key
    <3>3. QED
      BY <2>3, <3>1, <3>2 DEF FreshInv
  <2>4. FreshInv'
    BY <1>9, <2>3 DEF NamespaceGoes, FreshInv, Key
  <2>5. QED
    BY <2>2, <2>4
<1>10. CASE UNCHANGED vars
  BY <1>10 DEF vars, objects, calls, TypeOK, FreshInv, BusyInv, Key
<1>11. QED
  BY <1>1, <1>2, <1>3, <1>4, <1>5, <1>6, <1>7, <1>8, <1>9, <1>10
     DEF Next, Apply, Uninstall

-----------------------------------------------------------------------------
(* Theorems *)

\* The invariant holds of every behaviour.
THEOREM Invariance == Spec => []IInv
BY InitInv, StepInv, PTL DEF Spec

\* Every variable keeps its type, for any number of compositions and charts.
THEOREM TypeCorrect == Spec => []TypeOK
BY Invariance, PTL DEF IInv

\* A role that stays keeps its rules.
LEMMA RulesGrow ==
  ASSUME IInv, [Next]_vars, NEW k \in Names \X Scopes,
         roles[k] # NoObject, roles'[k] # NoObject
  PROVE  roles[k].rules \subseteq roles'[k].rules
<1>1. CASE UNCHANGED roles
  BY <1>1
<1>2. ASSUME NEW c \in Compositions, CreateRole(c)
      PROVE  roles[k].rules \subseteq roles'[k].rules
  <2>1. \/ UNCHANGED roles
        \/ /\ AsRead(c)
           /\ \E rules : roles' = [roles EXCEPT ![Key(c)] = rules]
    BY <1>2 DEF CreateRole
  <2>2. target[c].kind = "role" /\ seen[c] = NoObject
    BY <1>2 DEF CreateRole
  <2>3. AsRead(c) => roles[Key(c)] = NoObject
    BY <2>2 DEF AsRead, Stored, Key
  <2>4. QED
    BY <2>1, <2>3 DEF IInv, TypeOK
<1>3. ASSUME NEW c \in Compositions, MergeRole(c)
      PROVE  roles[k].rules \subseteq roles'[k].rules
  <2>1. CASE UNCHANGED roles
    BY <2>1
  <2>2. ASSUME c \in fresh, NEW rules,
               roles' = [roles EXCEPT ![Key(c)] = [rules |-> seen[c].rules \cup rules]]
        PROVE  roles[k].rules \subseteq roles'[k].rules
    <3>1. seen[c] = roles[Key(c)]
      BY <1>3, <2>2 DEF MergeRole, IInv, FreshInv
    <3>2. QED
      BY <2>2, <3>1 DEF IInv, TypeOK
  <2>3. QED
    BY <1>3, <2>1, <2>2 DEF MergeRole
<1>4. ASSUME NEW c \in Compositions, Remove(c)
      PROVE  roles[k].rules \subseteq roles'[k].rules
  BY <1>4 DEF Remove, IInv, TypeOK
<1>5. CASE NamespaceGoes
  BY <1>5 DEF NamespaceGoes
<1>6. QED
  BY <1>1, <1>2, <1>3, <1>4, <1>5
     DEF Next, Apply, Uninstall, BeginApply, Read, ApplyNamespace, ApplyBinding, Applied,
         BeginUninstall, Uninstalled, CallFails, objects, vars

\* Any number of installers that share a role only ever add rules to it.
THEOREM NoInstallerLosesARule == Spec => NoRuleLost
<1>1. IInv /\ [Next]_vars =>
        [\A k \in Names \X Scopes :
           roles[k] # NoObject /\ roles'[k] # NoObject
             => roles[k].rules \subseteq roles'[k].rules]_vars
  BY RulesGrow
<1>2. QED
  BY <1>1, Invariance, PTL DEF Spec, NoRuleLost

-----------------------------------------------------------------------------
(* What has been granted stays granted. *)

\* The policies ApplyRBAC can be called with for a composition.
Policies(c) == {Generate(resources) : resources \in Charts[c]}

\* The object o is there with what the policy p of c needs of it.
InPlace(c, p, o) ==
  LET k == <<Name[c], o.scope>>
  IN IF o.kind = "role"
     THEN roles[k] # NoObject /\ p.rules[o.scope] \subseteq roles[k].rules
     ELSE bindings[k] = Account[c]

\* Policies come from charts.
PolicyInv ==
  \A c \in Compositions :
    /\ job[c] # "none" => policy[c] \in Policies(c)
    /\ granted[c] # NoPolicy => granted[c] \in Policies(c)

\* ApplyRBAC deals with objects of its policy.
LeftInv ==
  \A c \in Compositions :
    LET all == NamespaceObjects(policy[c]) \cup RBACObjects(policy[c])
    IN /\ job[c] = "apply" => left[c] \subseteq all /\ target[c] \in all \cup {Nothing}
       /\ job[c] # "apply" => target[c] = Nothing

\* A release only owns namespaces of its charts.
OwnerInv ==
  \A n \in Namespaces :
    namespaces[n] \in Compositions =>
      \E r \in UNION Charts[namespaces[n]] :
        r.scope = Cluster /\ r.kind = NamespaceKind /\ r.name = n

\* Only a composition that is deleted uninstalls, and then it claims no grants.
LeavingInv ==
  \A c \in Compositions : job[c] = "uninstall" => c \in Leaving /\ granted[c] = NoPolicy

\* The rules that a composition which is left alone has read are still there.
SeenInv ==
  \A c \in Compositions :
    Shielded(c) /\ job[c] = "apply" /\ target[c].kind = "role" /\ seen[c] # NoObject
      => roles[Key(c)] # NoObject /\ seen[c].rules \subseteq roles[Key(c)].rules

\* What it has dealt with, and what it was granted, is in place.
AppliedInv ==
  \A c \in Compositions :
    Shielded(c) /\ job[c] = "apply" =>
      \A o \in RBACObjects(policy[c]) \ left[c] : InPlace(c, policy[c], o)

GrantedInv ==
  \A c \in Compositions :
    Shielded(c) /\ granted[c] # NoPolicy =>
      \A o \in RBACObjects(granted[c]) : InPlace(c, granted[c], o)

GInv == /\ PolicyInv /\ LeftInv /\ OwnerInv /\ LeavingInv
        /\ SeenInv /\ AppliedInv /\ GrantedInv

-----------------------------------------------------------------------------
\* A policy of a composition is a policy, and its roles and namespaces are those
\* of some of its resources.
LEMMA PolicyOfChart ==
  ASSUME NEW c \in Compositions, NEW p \in Policies(c)
  PROVE  /\ p \in Policy /\ p # NoPolicy
         /\ \A n \in RoleScopes(p) : n # Cluster =>
              \E s \in UNION Charts[c] : s.scope = n
         /\ \A n \in p.namespaces : \E r \in UNION Charts[c] :
              r.scope = Cluster /\ r.kind = NamespaceKind /\ r.name = n
<1>1. PICK resources \in Charts[c] : p = Generate(resources)
  BY DEF Policies
<1>2. resources \in SUBSET Resource /\ resources \subseteq UNION Charts[c]
  BY InstallerAssumption
<1>3. p \in Policy /\ p # NoPolicy
  BY <1>1, <1>2, GeneratePolicy, InstallerAssumption
<1>4. ASSUME NEW n \in RoleScopes(p), n # Cluster
      PROVE  \E s \in UNION Charts[c] : s.scope = n
  <2>1. n \in Scopes /\ p.rules[n] # {}
    BY <1>4 DEF RoleScopes, Scopes
  <2>2. p.rules[n] = {r.kind : r \in {x \in resources : x.scope = n}}
    BY <1>1, <2>1 DEF Generate
  <2>3. QED
    BY <1>2, <2>1, <2>2
<1>5. ASSUME NEW n \in p.namespaces
      PROVE  \E r \in UNION Charts[c] :
               r.scope = Cluster /\ r.kind = NamespaceKind /\ r.name = n
  BY <1>1, <1>2, <1>5 DEF Generate
<1>6. QED
  BY <1>3, <1>4, <1>5

\* What describes an installer's call, in terms of charts, and who owns namespaces.
LEMMA DescriptionStep ==
  ASSUME IInv, PolicyInv, LeftInv, OwnerInv, LeavingInv, [Next]_vars
  PROVE  PolicyInv' /\ LeftInv' /\ OwnerInv' /\ LeavingInv'
<1> USE DEF IInv
<1>1. ASSUME NEW c \in Compositions, BeginApply(c) \/ BeginUninstall(c)
      PROVE  PolicyInv' /\ LeftInv' /\ OwnerInv' /\ LeavingInv'
  <2>1. PICK p \in Policies(c) :
          /\ policy' = [policy EXCEPT ![c] = p]
          /\ left' = [left EXCEPT ![c] = left'[c]]
          /\ left'[c] \subseteq NamespaceObjects(p) \cup RBACObjects(p)
    BY <1>1 DEF BeginApply, BeginUninstall, Policies, TypeOK
  <2>2. /\ job[c] = "none" /\ UNCHANGED <<objects, target>>
        /\ \/ job' = [job EXCEPT ![c] = "apply"] /\ granted' = granted
           \/ /\ job' = [job EXCEPT ![c] = "uninstall"] /\ c \in Leaving
              /\ granted' = [granted EXCEPT ![c] = NoPolicy]
    BY <1>1 DEF BeginApply, BeginUninstall
  <2>3. PolicyInv'
    BY <2>1, <2>2 DEF PolicyInv, TypeOK, Policies
  <2>4. LeftInv'
    BY <2>1, <2>2 DEF LeftInv, TypeOK
  <2>5. OwnerInv' /\ LeavingInv'
    BY <2>2 DEF OwnerInv, LeavingInv, TypeOK, objects
  <2>6. QED
    BY <2>3, <2>4, <2>5
<1>2. ASSUME NEW c \in Compositions, Read(c)
      PROVE  PolicyInv' /\ LeftInv' /\ OwnerInv' /\ LeavingInv'
  <2>1. PICK o \in left[c] : target' = [target EXCEPT ![c] = o]
    BY <1>2, TurnLeft DEF Read
  <2>2. job[c] = "apply" /\ UNCHANGED <<objects, job, policy, left, granted>>
    BY <1>2 DEF Read
  <2>3. QED
    BY <2>1, <2>2 DEF PolicyInv, LeftInv, OwnerInv, LeavingInv, TypeOK, objects, Policies
<1>3. ASSUME NEW c \in Compositions, Finish(c) \/ Proceed(c),
             \/ UNCHANGED granted
             \/ /\ job[c] = "apply" /\ Finish(c)
                /\ granted' = [granted EXCEPT ![c] = policy[c]]
      PROVE  PolicyInv' /\ LeftInv' /\ LeavingInv'
  <2>1. \/ Finish(c)
        \/ /\ left' = [left EXCEPT ![c] = left[c] \ {target[c]}]
           /\ target' = [target EXCEPT ![c] = Nothing]
           /\ UNCHANGED <<job, policy>> /\ UNCHANGED granted
    BY <1>3 DEF Proceed
  <2>2. PolicyInv'
    BY <1>3, <2>1 DEF Finish, PolicyInv, TypeOK, Policies
  <2>3. LeftInv'
    BY <2>1 DEF Finish, LeftInv, TypeOK
  <2>4. LeavingInv'
    BY <1>3, <2>1 DEF Finish, LeavingInv, TypeOK
  <2>5. QED
    BY <2>2, <2>3, <2>4
<1>4. ASSUME NEW c \in Compositions, ApplyNamespace(c)
      PROVE  PolicyInv' /\ LeftInv' /\ OwnerInv' /\ LeavingInv'
  <2>1. PolicyInv' /\ LeftInv' /\ LeavingInv'
    BY <1>3, <1>4 DEF ApplyNamespace
  <2>2. target[c] \in NamespaceObjects(policy[c])
    BY <1>4 DEF ApplyNamespace, LeftInv, RBACObjects, Nothing
  <2>3. policy[c] \in Policies(c) /\ target[c].scope \in policy[c].namespaces
    BY <1>4, <2>2 DEF ApplyNamespace, PolicyInv, NamespaceObjects
  <2>4. OwnerInv'
    BY <1>4, <2>3, PolicyOfChart DEF ApplyNamespace, OwnerInv, TypeOK
  <2>5. QED
    BY <2>1, <2>4
<1>5. ASSUME NEW c \in Compositions, \/ CreateRole(c) \/ MergeRole(c) \/ ApplyBinding(c)
                                     \/ Applied(c) \/ Uninstalled(c) \/ CallFails(c)
      PROVE  PolicyInv' /\ LeftInv' /\ OwnerInv' /\ LeavingInv'
  <2>1. PolicyInv' /\ LeftInv' /\ LeavingInv'
    BY <1>3, <1>5
    DEF CreateRole, MergeRole, ApplyBinding, Applied, Uninstalled, CallFails
  <2>2. OwnerInv'
    BY <1>5
    DEF OwnerInv, CreateRole, MergeRole, ApplyBinding, Applied, Uninstalled, CallFails, objects
  <2>3. QED
    BY <2>1, <2>2
<1>6. ASSUME NEW c \in Compositions, Remove(c)
      PROVE  PolicyInv' /\ LeftInv' /\ OwnerInv' /\ LeavingInv'
  <2>1. /\ job[c] = "uninstall" /\ UNCHANGED <<namespaces, job, policy, target, granted>>
        /\ \A d \in Compositions \ {c} : left'[d] = left[d]
    BY <1>6 DEF Remove, TypeOK
  <2>2. QED
    BY <2>1 DEF PolicyInv, LeftInv, OwnerInv, LeavingInv, Policies
<1>7. CASE NamespaceGoes
  <2>1. /\ UNCHANGED <<job, policy, left, target, granted>>
        /\ \E n \in Namespaces : namespaces' = [namespaces EXCEPT ![n] = NoObject]
    BY <1>7 DEF NamespaceGoes
  <2>2. NoObject \notin Compositions
    BY NoObjectAssumption DEF Owners
  <2>3. QED
    BY <2>1, <2>2 DEF PolicyInv, LeftInv, OwnerInv, LeavingInv, TypeOK, Policies
<1>8. CASE UNCHANGED vars
  BY <1>8 DEF vars, objects, calls, PolicyInv, LeftInv, OwnerInv, LeavingInv, Policies
<1>9. QED
  BY <1>1, <1>2, <1>4, <1>5, <1>6, <1>7, <1>8 DEF Next, Apply, Uninstall

\* Nobody takes a role or a binding from a composition that is left alone and does
\* not uninstall, and nobody binds its roles to another account.
LEMMA NothingTaken ==
  ASSUME IInv, GInv, [Next]_vars,
         NEW c \in Compositions, Shielded(c), job[c] # "uninstall",
         NEW p \in Policies(c), NEW s \in RoleScopes(p)
  PROVE  LET k == <<Name[c], s>>
         IN /\ roles[k] # NoObject =>
                 roles'[k] # NoObject /\ roles[k].rules \subseteq roles'[k].rules
            /\ bindings[k] = Account[c] => bindings'[k] = Account[c]
<1> DEFINE k == <<Name[c], s>>
<1> USE DEF IInv
<1>1. p \in Policy /\ s \in Scopes /\ k \in Names \X Scopes
  BY PolicyOfChart, InstallerAssumption DEF RoleScopes, Scopes, Policy
<1>2. ASSUME NEW d \in Compositions, Remove(d)
      PROVE  roles'[k] = roles[k] /\ bindings'[k] = bindings[k]
  <2>1. job[d] = "uninstall" /\ d \in Leaving /\ d # c
    BY <1>2 DEF Remove, GInv, LeavingInv
  <2>2. Name[d] # Name[c]
    BY <2>1 DEF Shielded, Threatens
  <2>3. QED
    BY <1>1, <1>2, <2>2 DEF Remove, TypeOK
<1>3. ASSUME NamespaceGoes
      PROVE  roles'[k] = roles[k] /\ bindings'[k] = bindings[k]
  <2>1. PICK n \in Namespaces :
          /\ namespaces[n] \in Compositions /\ job[namespaces[n]] = "uninstall"
          /\ roles' = [x \in Names \X Scopes |-> IF x[2] = n THEN NoObject ELSE roles[x]]
          /\ bindings' = [x \in Names \X Scopes |-> IF x[2] = n THEN NoObject ELSE bindings[x]]
    BY <1>3 DEF NamespaceGoes
  <2>2. CASE s = n
    <3> DEFINE d == namespaces[n]
    <3>1. d \in Leaving /\ d # c /\ d \in Compositions
      BY <2>1 DEF GInv, LeavingInv
    <3>2. PICK r \in UNION Charts[d] :
            r.scope = Cluster /\ r.kind = NamespaceKind /\ r.name = n
      BY <2>1 DEF GInv, OwnerInv
    <3>3. PICK t \in UNION Charts[c] : t.scope = n
      BY <2>2, PolicyOfChart, ScopeAssumption
    <3>4. Threatens(d, c)
      BY <3>2, <3>3 DEF Threatens
    <3>5. QED
      BY <3>1, <3>4 DEF Shielded
  <2>3. CASE s # n
    BY <1>1, <2>1, <2>3
  <2>4. QED
    BY <2>2, <2>3
<1>4. ASSUME roles[k] # NoObject
      PROVE  roles'[k] # NoObject /\ roles[k].rules \subseteq roles'[k].rules
  <2>1. roles'[k] # NoObject
    <3>1. ASSUME NEW d \in Compositions, CreateRole(d) \/ MergeRole(d)
          PROVE  roles'[k] # NoObject
      <4>1. PICK rules \in SUBSET Kinds :
              \/ UNCHANGED roles
              \/ roles' = [roles EXCEPT ![Key(d)] = [rules |-> rules]]
        BY <3>1, RulesWritten
      <4>2. [rules |-> rules] # NoObject
        BY NoObjectAssumption DEF Role
      <4>3. QED
        BY <1>1, <1>4, <4>1, <4>2 DEF TypeOK
    <3>2. QED
      BY <1>2, <1>3, <1>4, <3>1
      DEF Next, Apply, Uninstall, BeginApply, Read, ApplyNamespace, ApplyBinding, Applied,
          BeginUninstall, Uninstalled, CallFails, objects, vars
  <2>2. QED
    BY <1>1, <1>4, <2>1, RulesGrow
<1>5. ASSUME bindings[k] = Account[c]
      PROVE  bindings'[k] = Account[c]
  <2>1. ASSUME NEW d \in Compositions, ApplyBinding(d)
        PROVE  bindings'[k] = Account[c]
    <3>1. CASE UNCHANGED bindings
      BY <1>5, <3>1
    <3>2. CASE bindings' = [bindings EXCEPT ![Key(d)] = Account[d]]
      <4>1. Key(d) = k => Account[d] = Account[c]
        BY DEF Key, Shielded
      <4>2. QED
        BY <1>1, <1>5, <3>2, <4>1 DEF TypeOK
    <3>3. QED
      BY <2>1, <3>1, <3>2 DEF ApplyBinding
  <2>2. QED
    BY <1>2, <1>3, <1>5, <2>1
    DEF Next, Apply, Uninstall, BeginApply, Read, ApplyNamespace, CreateRole, MergeRole,
        Applied, BeginUninstall, Uninstalled, CallFails, objects, vars
<1>6. QED
  BY <1>4, <1>5

\* What is in place for such a composition stays in place.
LEMMA StaysInPlace ==
  ASSUME IInv, GInv, [Next]_vars,
         NEW c \in Compositions, Shielded(c), job[c] # "uninstall",
         NEW p \in Policies(c), NEW o \in RBACObjects(p), InPlace(c, p, o)
  PROVE  InPlace(c, p, o)'
<1>1. o.scope \in RoleScopes(p)
  BY DEF RBACObjects
<1>2. QED
  BY <1>1, NothingTaken DEF InPlace

\* The rules an installer has read are still there after any step.
LEMMA SeenStep ==
  ASSUME IInv, GInv, [Next]_vars
  PROVE  SeenInv'
<1> SUFFICES ASSUME NEW c \in Compositions, Shielded(c), job'[c] = "apply",
                    target'[c].kind = "role", seen'[c] # NoObject
             PROVE  /\ roles'[Key(c)'] # NoObject
                    /\ seen'[c].rules \subseteq roles'[Key(c)'].rules
  BY DEF SeenInv, Shielded
<1> USE DEF IInv, GInv
<1>1. \/ /\ job[c] = "apply" /\ target'[c] = target[c] /\ seen'[c] = seen[c]
      \/ Read(c)
  <2>1. ASSUME NEW d \in Compositions, Finish(d) \/ Proceed(d)
        PROVE  d # c /\ job[c] = "apply" /\ target'[c] = target[c] /\ seen'[c] = seen[c]
    BY <2>1 DEF Finish, Proceed, TypeOK, Nothing
  <2>2. ASSUME NEW d \in Compositions, BeginApply(d) \/ BeginUninstall(d) \/ Remove(d)
        PROVE  job[c] = "apply" /\ target'[c] = target[c] /\ seen'[c] = seen[c]
    BY <2>2 DEF BeginApply, BeginUninstall, Remove, TypeOK, LeftInv, Nothing
  <2>3. ASSUME NEW d \in Compositions \ {c}, Read(d)
        PROVE  job[c] = "apply" /\ target'[c] = target[c] /\ seen'[c] = seen[c]
    BY <2>3 DEF Read, TypeOK
  <2>4. QED
    BY <2>1, <2>2, <2>3
    DEF Next, Apply, Uninstall, ApplyNamespace, CreateRole, MergeRole, ApplyBinding,
        Applied, Uninstalled, CallFails, NamespaceGoes, vars, calls
<1>2. CASE Read(c)
  <2>1. PICK o \in Turn(left[c]) :
          target' = [target EXCEPT ![c] = o] /\ seen' = [seen EXCEPT ![c] = Stored(o, c)]
    BY <1>2 DEF Read
  <2>2. target'[c] = o /\ seen'[c] = Stored(o, c) /\ o.kind = "role" /\ roles' = roles
    BY <1>2, <2>1 DEF Read, TypeOK, objects
  <2>3. QED
    BY <2>2 DEF Stored, Key
<1>3. CASE /\ job[c] = "apply" /\ target'[c] = target[c] /\ seen'[c] = seen[c]
  <2>1. target[c] \in RBACObjects(policy[c]) /\ policy[c] \in Policies(c)
    BY <1>3 DEF LeftInv, PolicyInv, NamespaceObjects, Nothing
  <2>2. target[c].scope \in RoleScopes(policy[c])
    BY <2>1 DEF RBACObjects
  <2>3. roles[Key(c)] # NoObject /\ seen[c].rules \subseteq roles[Key(c)].rules
    BY <1>3 DEF SeenInv
  <2>4. QED
    BY <1>3, <2>1, <2>2, <2>3, NothingTaken DEF Key
<1>4. QED
  BY <1>1, <1>2, <1>3

\* What an installer has dealt with is in place after any step.
LEMMA AppliedStep ==
  ASSUME IInv, GInv, [Next]_vars
  PROVE  AppliedInv'
<1> SUFFICES ASSUME NEW c \in Compositions, Shielded(c), job'[c] = "apply",
                    NEW o \in RBACObjects(policy'[c]), o \notin left'[c]
             PROVE  InPlace(c, policy[c], o)'
  BY DEF AppliedInv, Shielded, RBACObjects, RoleScopes, InPlace
<1> USE DEF IInv, GInv
<1>1. CASE job[c] = "apply" /\ policy'[c] = policy[c] /\ left'[c] = left[c]
  <2>1. InPlace(c, policy[c], o) /\ policy[c] \in Policies(c)
    BY <1>1 DEF AppliedInv, PolicyInv
  <2>2. QED
    BY <1>1, <2>1, StaysInPlace DEF InPlace
<1>2. CASE BeginApply(c)
  BY <1>2 DEF BeginApply, TypeOK
<1>3. CASE Proceed(c) /\ (ApplyNamespace(c) \/ CreateRole(c) \/ MergeRole(c) \/ ApplyBinding(c))
  <2>1. job[c] = "apply" /\ policy' = policy /\ left'[c] = left[c] \ {target[c]}
    BY <1>3 DEF Proceed, TypeOK, ApplyNamespace, CreateRole, MergeRole, ApplyBinding
  <2>2. policy[c] \in Policies(c)
    BY <2>1 DEF PolicyInv
  <2>3. CASE o \notin left[c]
    <3>1. InPlace(c, policy[c], o)
      BY <2>1, <2>3 DEF AppliedInv
    <3>2. QED
      BY <2>1, <2>2, <3>1, StaysInPlace DEF InPlace
  <2>4. CASE o = target[c]
    <3>1. o.kind \in {"role", "binding"} /\ Key(c) = <<Name[c], o.scope>>
      BY <2>4 DEF RBACObjects, Key
    <3>2. Key(c) \in Names \X Scopes /\ o.scope \in Scopes
      BY <2>4, KeyType DEF Key
    <3>3. CASE CreateRole(c)
      <4>1. roles' = [roles EXCEPT ![Key(c)] = [rules |-> policy[c].rules[o.scope]]]
            \/ Finish(c)
        BY <2>4, <3>3 DEF CreateRole
      <4>2. job'[c] = "none" \/ ~Finish(c)
        BY DEF Finish, TypeOK
      <4>3. o.kind = "role" /\ [rules |-> policy[c].rules[o.scope]] # NoObject
        <5>1. policy[c].rules[o.scope] \in SUBSET Kinds
          BY <2>2, <3>2, PolicyOfChart DEF Policy
        <5>2. QED
          BY <2>4, <3>3, <5>1, NoObjectAssumption DEF CreateRole, Role
      <4>4. roles'[Key(c)] = [rules |-> policy[c].rules[o.scope]]
        BY <3>2, <4>1, <4>2 DEF TypeOK
      <4>5. QED
        BY <2>1, <3>1, <4>3, <4>4 DEF InPlace
    <3>4. CASE MergeRole(c)
      <4>1. /\ roles[Key(c)] # NoObject /\ seen[c].rules \subseteq roles[Key(c)].rules
            /\ o.kind = "role" /\ seen[c] # NoObject
        BY <2>1, <2>4, <3>4 DEF MergeRole, SeenInv
      <4>2. roles'[Key(c)] # NoObject /\ roles[Key(c)].rules \subseteq roles'[Key(c)].rules
        <5>1. o.scope \in RoleScopes(policy[c])
          BY <2>1 DEF RBACObjects
        <5>2. QED
          BY <2>1, <2>2, <3>1, <4>1, <5>1, NothingTaken
      <4>3. policy[c].rules[o.scope] \subseteq roles'[Key(c)].rules
        <5>1. CASE policy[c].rules[o.scope] \subseteq seen[c].rules
          BY <4>1, <4>2, <5>1
        <5>2. CASE ~(policy[c].rules[o.scope] \subseteq seen[c].rules)
          <6>1. \/ roles' = [roles EXCEPT ![Key(c)] =
                               [rules |-> seen[c].rules \cup policy[c].rules[o.scope]]]
                \/ Finish(c)
            BY <2>4, <3>4, <5>2 DEF MergeRole
          <6>2. QED
            BY <3>2, <6>1 DEF TypeOK, Finish
        <5>3. QED
          BY <5>1, <5>2
      <4>4. QED
        BY <2>1, <3>1, <4>1, <4>2, <4>3 DEF InPlace
    <3>5. CASE ApplyBinding(c)
      <4>1. bindings' = [bindings EXCEPT ![Key(c)] = Account[c]] \/ Finish(c)
        BY <3>5 DEF ApplyBinding
      <4>2. bindings'[Key(c)] = Account[c] /\ o.kind = "binding"
        BY <2>4, <3>2, <3>5, <4>1 DEF ApplyBinding, TypeOK, Finish
      <4>3. QED
        BY <3>1, <4>2 DEF InPlace
    <3>6. QED
      BY <1>3, <2>4, <3>1, <3>3, <3>4, <3>5 DEF ApplyNamespace
  <2>5. QED
    BY <2>1, <2>3, <2>4
<1>4. \/ job[c] = "apply" /\ policy'[c] = policy[c] /\ left'[c] = left[c]
      \/ BeginApply(c)
      \/ Proceed(c) /\ (ApplyNamespace(c) \/ CreateRole(c) \/ MergeRole(c) \/ ApplyBinding(c))
  <2>1. ASSUME NEW d \in Compositions \ {c},
               \/ Finish(d) \/ Proceed(d) \/ BeginApply(d) \/ BeginUninstall(d)
               \/ Read(d) \/ Remove(d)
        PROVE  job[c] = "apply" /\ policy'[c] = policy[c] /\ left'[c] = left[c]
    BY <2>1 DEF Finish, Proceed, BeginApply, BeginUninstall, Read, Remove, TypeOK
  <2>2. ~Finish(c) /\ ~BeginUninstall(c) /\ ~Remove(c)
    BY DEF Finish, BeginUninstall, Remove, TypeOK
  <2>3. Read(c) => job[c] = "apply" /\ policy'[c] = policy[c] /\ left'[c] = left[c]
    BY DEF Read
  <2>4. CASE NamespaceGoes \/ UNCHANGED vars
    BY <2>4 DEF NamespaceGoes, vars, calls
  <2>5. ASSUME NEW d \in Compositions, Apply(d) \/ Uninstall(d) \/ CallFails(d)
        PROVE  <1>4!:
    <3>1. CASE d = c
      BY <2>2, <2>3, <2>5, <3>1
      DEF Apply, Uninstall, CallFails, Applied, Uninstalled, ApplyNamespace, CreateRole,
          MergeRole, ApplyBinding
    <3>2. CASE d # c
      BY <2>1, <2>5, <3>2
      DEF Apply, Uninstall, CallFails, Applied, Uninstalled, ApplyNamespace, CreateRole,
          MergeRole, ApplyBinding
    <3>3. QED
      BY <3>1, <3>2
  <2>6. QED
    BY <2>4, <2>5 DEF Next
<1>5. QED
  BY <1>1, <1>2, <1>3, <1>4

\* What was granted is in place after any step.
LEMMA GrantedStep ==
  ASSUME IInv, GInv, [Next]_vars
  PROVE  GrantedInv'
<1> SUFFICES ASSUME NEW c \in Compositions, Shielded(c), granted'[c] # NoPolicy,
                    NEW o \in RBACObjects(granted'[c])
             PROVE  InPlace(c, granted[c], o)'
  BY DEF GrantedInv, Shielded, RBACObjects, RoleScopes, InPlace
<1> USE DEF IInv, GInv
<1>1. granted'[c] = granted[c] \/ Applied(c)
  <2>1. ASSUME NEW d \in Compositions, Applied(d) \/ BeginUninstall(d)
        PROVE  granted'[c] = granted[c] \/ Applied(c)
    BY <2>1 DEF Applied, BeginUninstall, TypeOK
  <2>2. QED
    BY <2>1
    DEF Next, Apply, Uninstall, BeginApply, Read, ApplyNamespace, CreateRole, MergeRole,
        ApplyBinding, Uninstalled, Remove, CallFails, NamespaceGoes, vars, calls
<1>2. CASE granted'[c] = granted[c]
  <2>1. InPlace(c, granted[c], o) /\ granted[c] \in Policies(c) /\ job[c] # "uninstall"
    BY <1>2 DEF GrantedInv, PolicyInv, LeavingInv
  <2>2. QED
    BY <1>2, <2>1, StaysInPlace DEF InPlace
<1>3. CASE Applied(c)
  <2>1. /\ granted'[c] = policy[c] /\ left[c] = {} /\ job[c] = "apply"
        /\ UNCHANGED <<roles, bindings>>
    BY <1>3 DEF Applied, TypeOK, objects
  <2>2. InPlace(c, policy[c], o)
    BY <2>1 DEF AppliedInv
  <2>3. QED
    BY <2>1, <2>2 DEF InPlace
<1>4. QED
  BY <1>1, <1>2, <1>3

\* The strengthened invariant holds initially and is kept.
LEMMA GrantsInit == Init => GInv
BY InstallerAssumption, NoObjectAssumption
   DEF Init, GInv, PolicyInv, LeftInv, OwnerInv, LeavingInv, SeenInv, AppliedInv,
       GrantedInv, Owners

LEMMA GrantsStep == IInv /\ GInv /\ [Next]_vars => GInv'
BY DescriptionStep, SeenStep, AppliedStep, GrantedStep DEF GInv

\* The grants of a composition that the others leave alone last until it uninstalls
\* them, through every interleaving of installers that share its roles.
THEOREM GrantsHold == Spec => []GrantedHolds
<1>1. GInv => GrantedHolds
  <2> SUFFICES ASSUME GInv, NEW c \in Compositions, granted[c] # NoPolicy, Shielded(c),
                      NEW s \in RoleScopes(granted[c])
               PROVE  /\ roles[<<Name[c], s>>] # NoObject
                      /\ granted[c].rules[s] \subseteq roles[<<Name[c], s>>].rules
                      /\ bindings[<<Name[c], s>>] = Account[c]
    BY DEF GrantedHolds, Shielded
  <2>1. /\ [kind |-> "role", scope |-> s] \in RBACObjects(granted[c])
        /\ [kind |-> "binding", scope |-> s] \in RBACObjects(granted[c])
    BY DEF RBACObjects
  <2>2. /\ InPlace(c, granted[c], [kind |-> "role", scope |-> s])
        /\ InPlace(c, granted[c], [kind |-> "binding", scope |-> s])
    BY <2>1 DEF GInv, GrantedInv
  <2>3. QED
    BY <2>2 DEF InPlace
<1>2. QED
  BY <1>1, GrantsInit, GrantsStep, Invariance, PTL DEF Spec

\* The policy of a chart has a role with the rule of every resource, in its scope.
LEMMA GenerateCovers ==
  ASSUME NEW resources \in SUBSET Resource, NEW r \in resources
  PROVE  /\ r.scope \in RoleScopes(Generate(resources))
         /\ r.kind \in Generate(resources).rules[r.scope]
<1>1. r.scope \in Scopes
  BY DEF Resource
<1>2. r.kind \in Generate(resources).rules[r.scope]
  BY <1>1 DEF Generate
<1>3. QED
  BY <1>1, <1>2 DEF RoleScopes, Scopes

\* A composition that the others leave alone has access to every resource of the
\* chart that it was last granted, from the end of ApplyRBAC until it uninstalls it.
THEOREM ChartsAreCovered == Spec => []ChartIsCovered
<1>1. GInv => ChartIsCovered
  <2> SUFFICES ASSUME GInv, NEW c \in Compositions, granted[c] # NoPolicy, Shielded(c)
               PROVE  \E resources \in Charts[c] :
                        /\ granted[c] = Generate(resources)
                        /\ \A r \in resources :
                             /\ roles[<<Name[c], r.scope>>] # NoObject
                             /\ r.kind \in roles[<<Name[c], r.scope>>].rules
                             /\ bindings[<<Name[c], r.scope>>] = Account[c]
    BY DEF ChartIsCovered, Shielded
  <2>1. PICK resources \in Charts[c] : granted[c] = Generate(resources)
    BY DEF GInv, PolicyInv, Policies
  <2>2. resources \in SUBSET Resource
    BY InstallerAssumption
  <2>3. ASSUME NEW r \in resources
        PROVE  /\ roles[<<Name[c], r.scope>>] # NoObject
               /\ r.kind \in roles[<<Name[c], r.scope>>].rules
               /\ bindings[<<Name[c], r.scope>>] = Account[c]
    <3> DEFINE role    == [kind |-> "role", scope |-> r.scope]
               binding == [kind |-> "binding", scope |-> r.scope]
    <3>1. /\ r.scope \in RoleScopes(granted[c])
          /\ r.kind \in granted[c].rules[r.scope]
      BY <2>1, <2>2, GenerateCovers
    <3>2. role \in RBACObjects(granted[c]) /\ binding \in RBACObjects(granted[c])
      BY <3>1 DEF RBACObjects
    <3>3. InPlace(c, granted[c], role) /\ InPlace(c, granted[c], binding)
      BY <3>2 DEF GInv, GrantedInv
    <3>4. QED
      BY <3>1, <3>3 DEF InPlace
  <2>4. QED
    BY <2>1, <2>3
<1>2. QED
  BY <1>1, GrantsInit, GrantsStep, Invariance, PTL DEF Spec

-----------------------------------------------------------------------------
(* Nothing is granted that was not asked for. *)

\* An installer for the release name of key k is applying a rule for kind there.
IsAsked(kind, k) ==
  \E c \in Compositions :
    Name[c] = k[1] /\ job[c] = "apply" /\ kind \in policy[c].rules[k[2]]

\* What a role gains in a step is what the installer that wrote it asks for.
LEMMA RulesAreAsked ==
  ASSUME IInv, [Next]_vars, NEW k \in Names \X Scopes, roles'[k] # NoObject,
         NEW kind \in roles'[k].rules
  PROVE  \/ roles[k] # NoObject /\ kind \in roles[k].rules
         \/ IsAsked(kind, k)
<1> USE DEF IInv
<1>1. CASE UNCHANGED roles
  BY <1>1
<1>2. ASSUME NEW c \in Compositions, CreateRole(c)
      PROVE  \/ roles[k] # NoObject /\ kind \in roles[k].rules
             \/ IsAsked(kind, k)
  <2>1. CASE roles' = [roles EXCEPT ![Key(c)] = [rules |-> policy[c].rules[target[c].scope]]]
    <3>1. CASE k = Key(c)
      <4>1. kind \in policy[c].rules[k[2]] /\ Name[c] = k[1] /\ job[c] = "apply"
        BY <1>2, <2>1, <3>1 DEF TypeOK, Key, CreateRole
      <4>2. QED
        BY <4>1 DEF IsAsked
    <3>2. CASE k # Key(c)
      BY <2>1, <3>2 DEF TypeOK
    <3>3. QED
      BY <3>1, <3>2
  <2>2. QED
    BY <1>1, <1>2, <2>1 DEF CreateRole
<1>3. ASSUME NEW c \in Compositions, MergeRole(c)
      PROVE  \/ roles[k] # NoObject /\ kind \in roles[k].rules
             \/ IsAsked(kind, k)
  <2>1. ASSUME c \in fresh,
               roles' = [roles EXCEPT ![Key(c)] =
                           [rules |-> seen[c].rules \cup policy[c].rules[target[c].scope]]]
        PROVE  \/ roles[k] # NoObject /\ kind \in roles[k].rules
               \/ IsAsked(kind, k)
    <3>1. seen[c] = roles[Key(c)] /\ seen[c] # NoObject
      BY <1>3, <2>1 DEF MergeRole, FreshInv
    <3>2. CASE k = Key(c) /\ kind \notin roles[k].rules
      <4>1. kind \in policy[c].rules[k[2]] /\ Name[c] = k[1] /\ job[c] = "apply"
        BY <1>3, <2>1, <3>1, <3>2 DEF TypeOK, Key, MergeRole
      <4>2. QED
        BY <4>1 DEF IsAsked
    <3>3. CASE k = Key(c) /\ kind \in roles[k].rules
      BY <3>1, <3>3
    <3>4. CASE k # Key(c)
      BY <2>1, <3>4 DEF TypeOK
    <3>5. QED
      BY <3>2, <3>3, <3>4
  <2>2. QED
    BY <1>1, <1>3, <2>1 DEF MergeRole
<1>4. ASSUME NEW c \in Compositions, Remove(c)
      PROVE  roles[k] # NoObject /\ kind \in roles[k].rules
  BY <1>4 DEF Remove, TypeOK
<1>5. CASE NamespaceGoes
  BY <1>5 DEF NamespaceGoes
<1>6. QED
  BY <1>1, <1>2, <1>3, <1>4, <1>5
     DEF Next, Apply, Uninstall, BeginApply, Read, ApplyNamespace, ApplyBinding, Applied,
         BeginUninstall, Uninstalled, CallFails, objects, vars

\* No merge of an old read puts back a rule that was taken away, whatever the
\* interleaving: a rule appears only where an installer that is running asks for it.
THEOREM RulesOnlyAsAsked == Spec => OnlyAskedRules
<1>1. IInv /\ [Next]_vars =>
        [\A k \in Names \X Scopes :
           roles'[k] # NoObject =>
             \A kind \in roles'[k].rules :
               \/ roles[k] # NoObject /\ kind \in roles[k].rules
               \/ IsAsked(kind, k)]_vars
  BY RulesAreAsked
<1>2. QED
  BY <1>1, Invariance, PTL DEF Spec, OnlyAskedRules, IsAsked

\* Every rule in a role is the rule of a resource, in the scope of the role, of a
\* chart that a composition with its release name may deploy.
LeastPrivilege ==
  \A k \in Names \X Scopes :
    roles[k] # NoObject =>
      \A kind \in roles[k].rules :
        \E c \in Compositions : \E r \in UNION Charts[c] :
          Name[c] = k[1] /\ r.scope = k[2] /\ r.kind = kind

\* The controllers of a release are never given access to a kind of object that no
\* chart of that release contains.
THEOREM PrivilegesAreLeast == Spec => []LeastPrivilege
<1>1. Init => LeastPrivilege
  BY DEF Init, LeastPrivilege
<1>2. IInv /\ GInv /\ LeastPrivilege /\ [Next]_vars => LeastPrivilege'
  <2> SUFFICES ASSUME IInv, GInv, LeastPrivilege, [Next]_vars, NEW k \in Names \X Scopes,
                      roles'[k] # NoObject, NEW kind \in roles'[k].rules
               PROVE  \E c \in Compositions : \E r \in UNION Charts[c] :
                        Name[c] = k[1] /\ r.scope = k[2] /\ r.kind = kind
    BY DEF LeastPrivilege
  <2>1. CASE roles[k] # NoObject /\ kind \in roles[k].rules
    BY <2>1 DEF LeastPrivilege
  <2>2. CASE IsAsked(kind, k)
    <3>1. PICK c \in Compositions :
            Name[c] = k[1] /\ job[c] = "apply" /\ kind \in policy[c].rules[k[2]]
      BY <2>2 DEF IsAsked
    <3>2. PICK resources \in Charts[c] : policy[c] = Generate(resources)
      BY <3>1 DEF GInv, PolicyInv, Policies
    <3>3. kind \in {r.kind : r \in {x \in resources : x.scope = k[2]}}
      BY <3>1, <3>2 DEF Generate
    <3>4. QED
      BY <3>1, <3>2, <3>3
  <2>3. QED
    BY <2>1, <2>2, RulesAreAsked
<1>3. QED
  BY <1>1, <1>2, GrantsInit, GrantsStep, Invariance, PTL DEF Spec
=============================================================================
