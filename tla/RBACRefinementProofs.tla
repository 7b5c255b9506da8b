------------------------ MODULE RBACRefinementProofs ------------------------
(* The installers implement the store of rules, for any compositions, charts, *)
(* names and accounts.                                                        *)
EXTENDS RBACRefinement, RBACInstallerProofs

\* What UninstallRBAC has dealt with is gone, unless an installer of the same
\* release name makes it again.
UninstallInv ==
  \A c \in Compositions :
    job[c] = "uninstall" =>
      /\ left[c] \subseteq RBACObjects(policy[c])
      /\ (\A d \in Compositions \ {c} : Name[d] # Name[c]) =>
           \A s \in RoleScopes(policy[c]) :
             [kind |-> "role", scope |-> s] \notin left[c]
               => roles[<<Name[c], s>>] = NoObject

SInv == IInv /\ GInv /\ UninstallInv

-----------------------------------------------------------------------------
(* The rules of roles and policies. *)

\* A rule of a release name is one in a role that is there.
LEMMA RuleInRole ==
  ASSUME NEW stored, NEW n, NEW rule
  PROVE  rule \in RulesIn(stored, n) <=>
           /\ rule = <<rule[1], rule[2]>> /\ rule[1] \in Scopes
           /\ stored[<<n, rule[1]>>] # NoObject /\ rule[2] \in stored[<<n, rule[1]>>].rules
<1> DEFINE there == {x \in Scopes : stored[<<n, x>>] # NoObject}
<1>1. rule \in RulesIn(stored, n) <=>
        \E s \in there : rule \in {s} \X stored[<<n, s>>].rules
  BY DEF RulesIn
<1>2. \A s : rule \in {s} \X stored[<<n, s>>].rules <=>
               /\ rule = <<rule[1], rule[2]>> /\ rule[1] = s
               /\ rule[2] \in stored[<<n, s>>].rules
  OBVIOUS
<1> QED BY <1>1, <1>2

LEMMA NoRoles ==
  ASSUME NEW stored, NEW n, \A x \in Scopes : stored[<<n, x>>] = NoObject
  PROVE  RulesIn(stored, n) = {}
<1>1. {x \in Scopes : stored[<<n, x>>] # NoObject} = {}
  OBVIOUS
<1> QED BY <1>1, Zenon DEF RulesIn

LEMMA RuleOfPolicy ==
  ASSUME NEW p, NEW rule
  PROVE  rule \in RulesOf(p) <=>
           rule = <<rule[1], rule[2]>> /\ rule[1] \in Scopes /\ rule[2] \in p.rules[rule[1]]
<1>1. rule \in RulesOf(p) <=> \E s \in Scopes : rule \in {s} \X p.rules[s]
  BY DEF RulesOf
<1>2. \A s : rule \in {s} \X p.rules[s] <=>
               rule = <<rule[1], rule[2]>> /\ rule[1] = s /\ rule[2] \in p.rules[s]
  OBVIOUS
<1> QED BY <1>1, <1>2

\* Writing the role of one scope replaces the rules of that scope.
LEMMA RoleWritten ==
  ASSUME NEW stored, NEW written, NEW n \in Names, NEW s \in Scopes, NEW rules \in SUBSET Kinds,
         \A x \in Scopes \ {s} : written[<<n, x>>] = stored[<<n, x>>],
         written[<<n, s>>] = [rules |-> rules]
  PROVE  RulesIn(written, n) =
           (RulesIn(stored, n) \ Store!In(s, RulesIn(stored, n))) \cup ({s} \X rules)
<1>1. [rules |-> rules] # NoObject
  BY NoObjectAssumption DEF Role
<1>2. ASSUME NEW rule
      PROVE  rule \in RulesIn(written, n) <=>
               rule \in (RulesIn(stored, n) \ Store!In(s, RulesIn(stored, n)))
                          \cup ({s} \X rules)
  <2> DEFINE pair == rule = <<rule[1], rule[2]>>
             x    == rule[1]
             k    == rule[2]
  <2>1. rule \in RulesIn(written, n) <=>
          pair /\ x \in Scopes /\ written[<<n, x>>] # NoObject /\ k \in written[<<n, x>>].rules
    BY RuleInRole
  <2>2. rule \in RulesIn(stored, n) <=>
          pair /\ x \in Scopes /\ stored[<<n, x>>] # NoObject /\ k \in stored[<<n, x>>].rules
    BY RuleInRole
  <2>3. rule \in Store!In(s, RulesIn(stored, n)) <=> rule \in RulesIn(stored, n) /\ x = s
    BY DEF Store!In
  <2>4. rule \in {s} \X rules <=> pair /\ x = s /\ k \in rules
    OBVIOUS
  <2> HIDE DEF pair, x, k
  <2>5. CASE x = s
    <3>1. written[<<n, x>>] # NoObject /\ written[<<n, x>>].rules = rules
      BY <1>1, <2>5
    <3> QED BY <2>1, <2>3, <2>4, <2>5, <3>1
  <2>6. CASE x # s
    BY <2>1, <2>2, <2>3, <2>4, <2>6
  <2> QED BY <2>5, <2>6
<1> QED BY <1>2

\* A release name whose roles are the same has the same rules.
LEMMA SameRoles ==
  ASSUME NEW stored, NEW written, NEW n \in Names,
         \A x \in Scopes : written[<<n, x>>] = stored[<<n, x>>]
  PROVE  RulesIn(written, n) = RulesIn(stored, n)
<1>1. ASSUME NEW rule
      PROVE  rule \in RulesIn(written, n) <=> rule \in RulesIn(stored, n)
  <2> DEFINE pair == rule = <<rule[1], rule[2]>>
             x    == rule[1]
             k    == rule[2]
  <2>1. rule \in RulesIn(written, n) <=>
          pair /\ x \in Scopes /\ written[<<n, x>>] # NoObject /\ k \in written[<<n, x>>].rules
    BY RuleInRole
  <2>2. rule \in RulesIn(stored, n) <=>
          pair /\ x \in Scopes /\ stored[<<n, x>>] # NoObject /\ k \in stored[<<n, x>>].rules
    BY RuleInRole
  <2> HIDE DEF pair, x, k
  <2> QED BY <2>1, <2>2
<1> QED BY <1>1

\* Removing it removes them.
LEMMA RoleRemoved ==
  ASSUME NEW stored, NEW written, NEW n \in Names, NEW s \in Scopes,
         \A x \in Scopes \ {s} : written[<<n, x>>] = stored[<<n, x>>],
         written[<<n, s>>] = NoObject
  PROVE  RulesIn(written, n) = RulesIn(stored, n) \ Store!In(s, RulesIn(stored, n))
<1>1. ASSUME NEW rule
      PROVE  rule \in RulesIn(written, n) <=>
               rule \in RulesIn(stored, n) \ Store!In(s, RulesIn(stored, n))
  <2> DEFINE pair == rule = <<rule[1], rule[2]>>
             x    == rule[1]
             k    == rule[2]
  <2>1. rule \in RulesIn(written, n) <=>
          pair /\ x \in Scopes /\ written[<<n, x>>] # NoObject /\ k \in written[<<n, x>>].rules
    BY RuleInRole
  <2>2. rule \in RulesIn(stored, n) <=>
          pair /\ x \in Scopes /\ stored[<<n, x>>] # NoObject /\ k \in stored[<<n, x>>].rules
    BY RuleInRole
  <2>3. rule \in Store!In(s, RulesIn(stored, n)) <=> rule \in RulesIn(stored, n) /\ x = s
    BY DEF Store!In
  <2> HIDE DEF pair, x, k
  <2> QED BY <2>1, <2>2, <2>3
<1> QED BY <1>1

\* The scopes of the roles of a policy are those whose roles the store takes away.
LEMMA ScopesGoing ==
  ASSUME NEW p \in Policy
  PROVE  RoleScopes(p) = {Cluster} \cup {rule[1] : rule \in RulesOf(p)}
<1>1. ASSUME NEW s \in Namespaces, p.rules[s] # {}
      PROVE  \E rule \in RulesOf(p) : rule[1] = s
  <2>1. PICK k : k \in p.rules[s]
    BY <1>1
  <2>2. <<s, k>> \in RulesOf(p) /\ <<s, k>>[1] = s
    BY <2>1, RuleOfPolicy DEF Scopes
  <2> QED BY <2>2
<1>2. \A rule \in RulesOf(p) : rule[1] \in Scopes /\ p.rules[rule[1]] # {}
  BY RuleOfPolicy
<1> QED BY <1>1, <1>2 DEF RoleScopes, Scopes

\* The rules of one scope.
LEMMA RulesOfScope ==
  ASSUME NEW s \in Scopes
  PROVE  /\ \A p : Store!In(s, RulesOf(p)) = {s} \X p.rules[s]
         /\ \A stored, n : stored[<<n, s>>] = NoObject
              => Store!In(s, RulesIn(stored, n)) = {}
         /\ \A stored, n : stored[<<n, s>>] # NoObject
              => Store!In(s, RulesIn(stored, n)) = {s} \X stored[<<n, s>>].rules
<1>1. ASSUME NEW rule, NEW set
      PROVE  rule \in {s} \X set <=>
               rule = <<rule[1], rule[2]>> /\ rule[1] = s /\ rule[2] \in set
  OBVIOUS
<1>2. ASSUME NEW p, NEW rule
      PROVE  rule \in Store!In(s, RulesOf(p)) <=> rule \in {s} \X p.rules[s]
  BY <1>1, RuleOfPolicy DEF Store!In
<1>3. ASSUME NEW stored, NEW n, NEW rule
      PROVE  rule \in Store!In(s, RulesIn(stored, n)) <=>
               stored[<<n, s>>] # NoObject /\ rule \in {s} \X stored[<<n, s>>].rules
  BY <1>1, RuleInRole DEF Store!In
<1>4. ASSUME NEW p
      PROVE  Store!In(s, RulesOf(p)) = {s} \X p.rules[s]
  BY <1>2
<1>5. ASSUME NEW stored, NEW n
      PROVE  /\ stored[<<n, s>>] = NoObject => Store!In(s, RulesIn(stored, n)) = {}
             /\ stored[<<n, s>>] # NoObject
                  => Store!In(s, RulesIn(stored, n)) = {s} \X stored[<<n, s>>].rules
  BY <1>3
<1> QED BY <1>4, <1>5

-----------------------------------------------------------------------------
(* The invariant. *)

\* No step brings back a role that an uninstall of a release name of its own has
\* taken away.
LEMMA UninstallStep ==
  ASSUME SInv, [Next]_vars
  PROVE  UninstallInv'
<1> USE DEF SInv, IInv
<1> SUFFICES ASSUME NEW c \in Compositions, job'[c] = "uninstall"
             PROVE  /\ left'[c] \subseteq RBACObjects(policy'[c])
                    /\ (\A d \in Compositions \ {c} : Name[d] # Name[c]) =>
                         \A s \in RoleScopes(policy'[c]) :
                           [kind |-> "role", scope |-> s] \notin left'[c]
                             => roles'[<<Name[c], s>>] = NoObject
  BY DEF UninstallInv, RBACObjects, RoleScopes
<1>1. CASE BeginUninstall(c)
  <2>1. left'[c] = RBACObjects(policy'[c])
    BY <1>1 DEF BeginUninstall, TypeOK
  <2> QED BY <2>1 DEF RBACObjects
<1>2. \/ BeginUninstall(c)
      \/ /\ job[c] = "uninstall" /\ policy'[c] = policy[c]
         /\ left'[c] = left[c] \/ Remove(c)
  <2>1. ASSUME NEW d \in Compositions \ {c},
               \/ Finish(d) \/ Proceed(d) \/ BeginApply(d) \/ BeginUninstall(d)
               \/ Read(d) \/ Remove(d)
        PROVE  job[c] = "uninstall" /\ policy'[c] = policy[c] /\ left'[c] = left[c]
    BY <2>1 DEF Finish, Proceed, BeginApply, BeginUninstall, Read, Remove, TypeOK
  <2>2. ~Finish(c) /\ ~BeginApply(c)
    BY DEF Finish, BeginApply, TypeOK
  <2>3. Remove(c) => job[c] = "uninstall" /\ policy'[c] = policy[c]
    BY DEF Remove
  <2>4. CASE NamespaceGoes \/ UNCHANGED vars
    BY <2>4 DEF NamespaceGoes, vars, calls
  <2>5. ASSUME NEW d \in Compositions, Apply(d) \/ Uninstall(d) \/ CallFails(d)
        PROVE  \/ BeginUninstall(c)
               \/ /\ job[c] = "uninstall" /\ policy'[c] = policy[c]
                  /\ left'[c] = left[c] \/ Remove(c)
    <3>1. CASE d = c
      BY <2>2, <2>3, <2>5, <3>1
      DEF Apply, Uninstall, CallFails, Applied, Uninstalled, Read, Proceed, ApplyNamespace,
          CreateRole, MergeRole, ApplyBinding
    <3>2. CASE d # c
      BY <2>1, <2>5, <3>2
      DEF Apply, Uninstall, CallFails, Applied, Uninstalled, ApplyNamespace, CreateRole,
          MergeRole, ApplyBinding
    <3> QED BY <3>1, <3>2
  <2> QED BY <2>4, <2>5 DEF Next
<1>3. ASSUME \A d \in Compositions \ {c} : Name[d] # Name[c],
             NEW s \in Scopes, roles[<<Name[c], s>>] = NoObject, job[c] = "uninstall"
      PROVE  roles'[<<Name[c], s>>] = NoObject
  <2>1. <<Name[c], s>> \in Names \X Scopes
    BY InstallerAssumption
  <2>2. ASSUME NEW d \in Compositions, CreateRole(d) \/ MergeRole(d)
        PROVE  roles'[<<Name[c], s>>] = NoObject
    <3>1. job[d] = "apply" /\ d # c
      BY <1>3, <2>2 DEF CreateRole, MergeRole
    <3>2. Key(d) # <<Name[c], s>>
      BY <1>3, <3>1 DEF Key
    <3>3. PICK rules \in SUBSET Kinds :
            roles' = roles \/ roles' = [roles EXCEPT ![Key(d)] = [rules |-> rules]]
      BY <2>2, RulesWritten
    <3> QED BY <1>3, <2>1, <3>2, <3>3 DEF TypeOK
  <2>3. ASSUME NEW d \in Compositions, Remove(d)
        PROVE  roles'[<<Name[c], s>>] = NoObject
    BY <1>3, <2>1, <2>3 DEF Remove, TypeOK
  <2>4. CASE NamespaceGoes
    BY <1>3, <2>1, <2>4 DEF NamespaceGoes
  <2> QED
    BY <1>3, <2>2, <2>3, <2>4
    DEF Next, Apply, Uninstall, BeginApply, Read, ApplyNamespace, ApplyBinding, Applied,
        BeginUninstall, Uninstalled, CallFails, objects, vars
<1>4. ASSUME job[c] = "uninstall", policy'[c] = policy[c], left'[c] = left[c] \/ Remove(c)
      PROVE  /\ left'[c] \subseteq RBACObjects(policy'[c])
             /\ (\A d \in Compositions \ {c} : Name[d] # Name[c]) =>
                  \A s \in RoleScopes(policy'[c]) :
                    [kind |-> "role", scope |-> s] \notin left'[c]
                      => roles'[<<Name[c], s>>] = NoObject
  <2>1. left'[c] \subseteq left[c]
    BY <1>4 DEF Remove, TypeOK
  <2>2. ASSUME \A d \in Compositions \ {c} : Name[d] # Name[c],
               NEW s \in RoleScopes(policy[c]), [kind |-> "role", scope |-> s] \notin left'[c]
        PROVE  roles'[<<Name[c], s>>] = NoObject
    <3>1. s \in Scopes
      BY DEF RoleScopes, Scopes
    <3>2. CASE [kind |-> "role", scope |-> s] \notin left[c]
      BY <1>3, <1>4, <2>2, <3>1, <3>2 DEF UninstallInv
    <3>3. CASE [kind |-> "role", scope |-> s] \in left[c]
      <4>1. Remove(c)
        BY <1>4, <2>2, <3>3
      <4>2. PICK o \in Turn(left[c]) :
              /\ left' = [left EXCEPT ![c] = left[c] \ {o}]
              /\ o.kind = "role" => roles' = [roles EXCEPT ![<<Name[c], o.scope>>] = NoObject]
        BY <4>1 DEF Remove
      <4>4. o = [kind |-> "role", scope |-> s]
        BY <2>2, <3>3, <4>2 DEF TypeOK
      <4>5. roles' = [roles EXCEPT ![<<Name[c], s>>] = NoObject]
        BY <4>2, <4>4
      <4>3. <<Name[c], s>> \in Names \X Scopes
        BY <3>1, InstallerAssumption
      <4> QED BY <4>5, <4>3 DEF TypeOK
    <3> QED BY <3>2, <3>3
  <2> QED BY <1>4, <2>1, <2>2 DEF UninstallInv
<1> QED BY <1>1, <1>2, <1>4

-----------------------------------------------------------------------------
(* The steps of the installers are steps of the store. *)

StoreStep == [Store!Next]_Store!vars

\* What does not change the roles and nobody's call is a stutter.
LEMMA Unseen ==
  ASSUME UNCHANGED <<roles, job, policy, granted, faults>>
  PROVE  StoreStep
<1>1. RulesInPlace' = RulesInPlace /\ Asked' = Asked /\ Reported' = Reported
  BY DEF RulesInPlace, Asked, Reported
<1> QED BY <1>1 DEF StoreStep, Store!vars

\* A call of one composition ends, with or without an error.
LEMMA FinishEnds ==
  ASSUME IInv, NEW c \in Compositions, Finish(c)
  PROVE  Store!End(c)
<1>1. Asked' = [Asked EXCEPT ![c] = {}]
  BY DEF Finish, Asked, IInv, TypeOK
<1> QED BY <1>1 DEF Finish, Store!End

LEMMA GiveUpMaps ==
  ASSUME IInv, NEW c \in Compositions, Finish(c), job[c] # "none",
         UNCHANGED <<roles, granted>>, job[c] = "uninstall" => faults' # faults
  PROVE  StoreStep
<1>1. RulesInPlace' = RulesInPlace /\ Reported' = Reported
  BY DEF RulesInPlace, Reported
<1>2. Store!GiveUp(c)
  BY <1>1, FinishEnds DEF Store!GiveUp
<1> QED BY <1>2 DEF StoreStep, Store!Next

LEMMA BeginMaps ==
  ASSUME IInv, NEW c \in Compositions, BeginApply(c) \/ BeginUninstall(c)
  PROVE  StoreStep
<1>1. PICK resources \in Charts[c] : policy' = [policy EXCEPT ![c] = Generate(resources)]
  BY DEF BeginApply, BeginUninstall
<1>2. RulesOf(Generate(resources)) \in Generated[c]
  BY DEF Generated
<1>3. RulesInPlace' = RulesInPlace
  BY DEF BeginApply, BeginUninstall, objects, RulesInPlace
<1>4. ASSUME NEW operation \in {"apply", "uninstall"},
             job[c] = "none", job' = [job EXCEPT ![c] = operation]
      PROVE  Store!Begin(c, operation)
  <2>1. Asked' = [Asked EXCEPT ![c] = RulesOf(Generate(resources))]
    BY <1>1, <1>4 DEF Asked, IInv, TypeOK
  <2> QED BY <1>2, <1>4, <2>1 DEF Store!Begin
<1>5. CASE BeginApply(c)
  <2>1. Reported' = Reported
    BY <1>5 DEF BeginApply, Reported
  <2>2. Store!BeginApply(c)
    BY <1>3, <1>4, <1>5, <2>1 DEF BeginApply, Store!BeginApply
  <2> QED BY <2>2 DEF StoreStep, Store!Next
<1>6. CASE BeginUninstall(c)
  <2>1. Reported' = [Reported EXCEPT ![c] = NoPolicy]
    BY <1>6 DEF BeginUninstall, Reported, IInv, TypeOK
  <2>2. Store!BeginUninstall(c)
    BY <1>3, <1>4, <1>6, <2>1 DEF BeginUninstall, Store!BeginUninstall
  <2> QED BY <2>2 DEF StoreStep, Store!Next
<1> QED BY <1>5, <1>6

\* A role that is created, or merged from a read that is still good, has the rules
\* it had and those that were asked for.
LEMMA RoleMaps ==
  ASSUME IInv, NEW c \in Compositions, CreateRole(c) \/ MergeRole(c)
  PROVE  StoreStep
<1> DEFINE s     == target[c].scope
           asked == policy[c].rules[s]
           held  == IF roles[Key(c)] = NoObject THEN {} ELSE roles[Key(c)].rules
<1>1. /\ job[c] = "apply" /\ target[c].kind = "role" /\ UNCHANGED <<granted, faults>>
      /\ s \in Scopes /\ Key(c) = <<Name[c], s>> /\ Name[c] \in Names
      /\ Key(c) \in Names \X Scopes
  BY KeyType, InstallerAssumption, ScopeAssumption
  DEF CreateRole, MergeRole, Key, IInv, TypeOK, Objects, Nothing, Scopes
<1>2. asked \in SUBSET Kinds /\ held \in SUBSET Kinds
  BY <1>1 DEF IInv, BusyInv, Policy, TypeOK, Role
<1>3. CASE Finish(c) /\ UNCHANGED roles
  BY <1>1, <1>3, GiveUpMaps
<1>4. CASE Proceed(c) /\ UNCHANGED roles
  BY <1>1, <1>4, Unseen DEF Proceed
<1>5. CASE Proceed(c) /\ roles' = [roles EXCEPT ![Key(c)] = [rules |-> held \cup asked]]
  <2>1. ASSUME NEW n \in Names
        PROVE  RulesIn(roles', n) =
                 IF n = Name[c] THEN RulesIn(roles, n) \cup Store!In(s, RulesOf(policy[c]))
                 ELSE RulesIn(roles, n)
    <3>1. \A x \in Scopes : roles'[<<n, x>>] =
             IF n = Name[c] /\ x = s THEN [rules |-> held \cup asked] ELSE roles[<<n, x>>]
      BY <1>1, <1>5 DEF IInv, TypeOK
    <3>2. CASE n = Name[c]
      <4>1. RulesIn(roles', n) =
              (RulesIn(roles, n) \ Store!In(s, RulesIn(roles, n)))
                 \cup ({s} \X (held \cup asked))
        <5>1. /\ \A x \in Scopes \ {s} : roles'[<<n, x>>] = roles[<<n, x>>]
              /\ roles'[<<n, s>>] = [rules |-> held \cup asked]
          BY <1>1, <3>1, <3>2
        <5> HIDE DEF s, asked, held
        <5> QED BY <1>1, <1>2, <5>1, RoleWritten
      <4>2. Store!In(s, RulesIn(roles, n)) = {s} \X held
        BY <1>1, <3>2, RulesOfScope
      <4>3. Store!In(s, RulesOf(policy[c])) = {s} \X asked
        BY <1>1, RulesOfScope
      <4>4. Store!In(s, RulesIn(roles, n)) \subseteq RulesIn(roles, n)
        BY DEF Store!In
      <4>5. {s} \X (held \cup asked) = ({s} \X held) \cup ({s} \X asked)
        OBVIOUS
      <4> HIDE DEF s, asked, held
      <4> QED BY <3>2, <4>1, <4>2, <4>3, <4>4, <4>5
    <3>3. CASE n # Name[c]
      BY <3>1, <3>3, SameRoles
    <3> QED BY <3>2, <3>3
  <2>2. Asked[c] = RulesOf(policy[c])
    BY <1>1 DEF Asked
  <2>3. RulesInPlace' =
          [RulesInPlace EXCEPT ![Name[c]] = RulesInPlace[Name[c]] \cup Store!In(s, Asked[c])]
    BY <1>1, <2>1, <2>2 DEF RulesInPlace
  <2>4. Asked' = Asked /\ Reported' = Reported /\ job' = job
    BY <1>1, <1>5 DEF Proceed, Asked, Reported
  <2>5. Store!AddRole(c)
    BY <1>1, <2>3, <2>4 DEF Store!AddRole
  <2> QED BY <2>5 DEF StoreStep, Store!Next
<1>6. CASE CreateRole(c)
  <2>1. AsRead(c) => held = {}
    BY <1>1, <1>6 DEF CreateRole, AsRead, Stored
  <2> QED BY <1>3, <1>5, <1>6, <2>1 DEF CreateRole
<1>7. CASE MergeRole(c)
  <2>1. c \in fresh => held = seen[c].rules
    BY <1>1, <1>7 DEF MergeRole, IInv, FreshInv
  <2> QED BY <1>3, <1>4, <1>5, <1>7, <2>1 DEF MergeRole
<1> QED BY <1>6, <1>7

\* An apply that succeeds has in place what it was asked for.
LEMMA AppliedMaps ==
  ASSUME IInv, GInv, NEW c \in Compositions, Applied(c)
  PROVE  StoreStep
<1>1. /\ job[c] = "apply" /\ left[c] = {} /\ Finish(c) /\ UNCHANGED <<roles, faults>>
      /\ granted' = [granted EXCEPT ![c] = policy[c]]
  BY DEF Applied, objects
<1>2. policy[c] \in Policy /\ policy[c] # NoPolicy
  BY <1>1, InstallerAssumption DEF IInv, BusyInv
<1>3. Asked[c] = RulesOf(policy[c])
  BY <1>1 DEF Asked
<1>4. ASSUME c \in Sheltered, NEW rule \in Asked[c]
      PROVE  rule \in RulesInPlace[Name[c]]
  <2> DEFINE s == rule[1]
  <2>1. /\ rule = <<s, rule[2]>> /\ s \in Scopes /\ rule[2] \in policy[c].rules[s]
    BY <1>3, <1>4, RuleOfPolicy
  <2>2. s \in RoleScopes(policy[c])
    BY <2>1 DEF RoleScopes, Scopes
  <2>3. [kind |-> "role", scope |-> s] \in RBACObjects(policy[c])
    BY <2>2 DEF RBACObjects
  <2>4. InPlace(c, policy[c], [kind |-> "role", scope |-> s])
    BY <1>1, <1>4, <2>3 DEF GInv, AppliedInv, Sheltered
  <2>5. roles[<<Name[c], s>>] # NoObject /\ policy[c].rules[s] \subseteq roles[<<Name[c], s>>].rules
    BY <2>4 DEF InPlace
  <2>6. rule \in RulesIn(roles, Name[c])
    BY <2>1, <2>5, RuleInRole
  <2> QED BY <2>6, InstallerAssumption DEF RulesInPlace
<1>5. Reported' = [Reported EXCEPT ![c] = Asked[c]]
  BY <1>1, <1>2, <1>3 DEF Reported, IInv, TypeOK
<1>6. RulesInPlace' = RulesInPlace
  BY <1>1 DEF RulesInPlace
<1>7. Store!Applied(c)
  BY <1>1, <1>4, <1>5, <1>6, FinishEnds DEF Store!Applied
<1> QED BY <1>7 DEF StoreStep, Store!Next

\* The scopes an uninstall deals with are those of the store.
LEMMA GoingScopes ==
  ASSUME IInv, NEW c \in Compositions, job[c] # "none"
  PROVE  Store!Going(c) = RoleScopes(policy[c])
<1>1. policy[c] \in Policy /\ Asked[c] = RulesOf(policy[c])
  BY DEF IInv, BusyInv, Asked
<1> QED BY <1>1, ScopesGoing DEF Store!Going

LEMMA RemoveMaps ==
  ASSUME SInv, NEW c \in Compositions, Remove(c)
  PROVE  StoreStep
<1>1. PICK o \in left[c] :
        /\ o.kind # "role" => roles' = roles
        /\ o.kind = "role" => roles' = [roles EXCEPT ![<<Name[c], o.scope>>] = NoObject]
  BY TurnLeft DEF Remove
<1>2. job[c] = "uninstall" /\ UNCHANGED <<job, policy, granted, faults>>
  BY DEF Remove
<1>3. CASE o.kind # "role"
  BY <1>1, <1>2, <1>3, Unseen
<1>4. CASE o.kind = "role"
  <2> DEFINE s == o.scope
  <2>1. s \in RoleScopes(policy[c]) /\ s \in Scopes
    BY <1>2 DEF SInv, UninstallInv, RBACObjects, RoleScopes, Scopes
  <2>2. s \in Store!Going(c)
    BY <1>2, <2>1, GoingScopes DEF SInv
  <2>3. Name[c] \in Names /\ <<Name[c], s>> \in Names \X Scopes
    BY <2>1, InstallerAssumption
  <2>4. ASSUME NEW n \in Names
        PROVE  RulesIn(roles', n) =
                 IF n = Name[c] THEN RulesIn(roles, n) \ Store!In(s, RulesIn(roles, n))
                 ELSE RulesIn(roles, n)
    <3>1. \A x \in Scopes : roles'[<<n, x>>] =
             IF n = Name[c] /\ x = s THEN NoObject ELSE roles[<<n, x>>]
      BY <1>1, <1>4, <2>3 DEF SInv, IInv, TypeOK
    <3> HIDE DEF s
    <3>2. CASE n = Name[c]
      <4>1. /\ \A x \in Scopes \ {s} : roles'[<<n, x>>] = roles[<<n, x>>]
            /\ roles'[<<n, s>>] = NoObject
        BY <2>1, <3>1, <3>2
      <4> QED BY <2>1, <3>2, <4>1, RoleRemoved
    <3>3. CASE n # Name[c]
      BY <3>1, <3>3, SameRoles
    <3> QED BY <3>2, <3>3
  <2>5. RulesInPlace' =
          [RulesInPlace EXCEPT ![Name[c]] =
             RulesInPlace[Name[c]] \ Store!In(s, RulesInPlace[Name[c]])]
    BY <2>3, <2>4 DEF RulesInPlace
  <2>6. Asked' = Asked /\ Reported' = Reported
    BY <1>2 DEF Asked, Reported
  <2>7. Store!RemoveRole(c)
    BY <1>2, <2>2, <2>5, <2>6 DEF Store!RemoveRole
  <2> QED BY <2>7 DEF StoreStep, Store!Next
<1> QED BY <1>3, <1>4

LEMMA UninstalledMaps ==
  ASSUME SInv, NEW c \in Compositions, Uninstalled(c)
  PROVE  StoreStep
<1>1. job[c] = "uninstall" /\ left[c] = {} /\ Finish(c) /\ UNCHANGED <<roles, granted, faults>>
  BY DEF Uninstalled, objects
<1>2. ASSUME \A d \in Compositions \ {c} : Name[d] # Name[c], NEW s \in Store!Going(c)
      PROVE  Store!In(s, RulesInPlace[Name[c]]) = {}
  <2>1. s \in RoleScopes(policy[c]) /\ s \in Scopes
    BY <1>1, <1>2, GoingScopes DEF SInv, RoleScopes, Scopes
  <2>2. roles[<<Name[c], s>>] = NoObject
    BY <1>1, <1>2, <2>1 DEF SInv, UninstallInv
  <2>3. RulesInPlace[Name[c]] = RulesIn(roles, Name[c])
    BY InstallerAssumption DEF RulesInPlace
  <2> QED BY <2>1, <2>2, <2>3, RulesOfScope
<1>3. RulesInPlace' = RulesInPlace /\ Reported' = Reported
  BY <1>1 DEF RulesInPlace, Reported
<1>4. Store!Uninstalled(c)
  BY <1>1, <1>2, <1>3, FinishEnds DEF Store!Uninstalled, SInv
<1> QED BY <1>4 DEF StoreStep, Store!Next

LEMMA NamespaceMaps ==
  ASSUME SInv, NamespaceGoes
  PROVE  StoreStep
<1>1. PICK s \in Namespaces :
        /\ namespaces[s] \in Compositions /\ job[namespaces[s]] = "uninstall"
        /\ roles' = [k \in Names \X Scopes |-> IF k[2] = s THEN NoObject ELSE roles[k]]
        /\ UNCHANGED <<job, policy, granted, faults>>
  BY DEF NamespaceGoes
<1> DEFINE c == namespaces[s]
<1>2. s \in Creates[c] /\ s \in Scopes
  BY <1>1 DEF SInv, GInv, OwnerInv, Creates, Scopes
<1>3. ASSUME NEW n \in Names
      PROVE  RulesIn(roles', n) = RulesIn(roles, n) \ Store!In(s, RulesIn(roles, n))
  <2>1. ASSUME NEW x \in Scopes
        PROVE  roles'[<<n, x>>] = IF x = s THEN NoObject ELSE roles[<<n, x>>]
    <3>1. <<n, x>> \in Names \X Scopes /\ <<n, x>>[2] = x
      BY <1>3
    <3> QED BY <1>1, <3>1
  <2>2. /\ \A x \in Scopes \ {s} : roles'[<<n, x>>] = roles[<<n, x>>]
        /\ roles'[<<n, s>>] = NoObject
    BY <1>2, <2>1
  <2> QED BY <1>2, <2>2, RoleRemoved
<1>4. RulesInPlace' =
        [n \in Names |-> RulesInPlace[n] \ Store!In(s, RulesInPlace[n])]
  BY <1>3 DEF RulesInPlace
<1>5. Asked' = Asked /\ Reported' = Reported
  BY <1>1 DEF Asked, Reported
<1>6. Store!NamespaceGoes(c)
  BY <1>1, <1>2, <1>4, <1>5 DEF Store!NamespaceGoes
<1> QED BY <1>1, <1>6 DEF StoreStep, Store!Next

\* The invariant holds of every behaviour.
LEMMA StoreInvariance == Spec => []SInv
<1>1. Init => SInv
  BY GrantsInit, InitInv DEF Init, UninstallInv, SInv
<1>2. SInv /\ [Next]_vars => SInv'
  BY StepInv, GrantsStep, UninstallStep DEF SInv
<1> QED BY <1>1, <1>2, PTL DEF Spec

\* Every step of an installer is one of the store, or changes nothing there.
LEMMA StepMaps == SInv /\ [Next]_vars => StoreStep
<1> SUFFICES ASSUME SInv, [Next]_vars PROVE StoreStep
  OBVIOUS
<1> USE DEF SInv
<1>1. ASSUME NEW c \in Compositions, Read(c) \/ ApplyBinding(c) \/ ApplyNamespace(c)
      PROVE  StoreStep
  <2>1. UNCHANGED <<roles, granted, faults>> /\ job[c] = "apply"
    BY <1>1 DEF Read, ApplyBinding, ApplyNamespace, objects
  <2>2. UNCHANGED <<job, policy>> \/ Finish(c)
    BY <1>1 DEF Read, ApplyBinding, ApplyNamespace, Proceed
  <2> QED BY <2>1, <2>2, Unseen, GiveUpMaps
<1>2. ASSUME NEW c \in Compositions, CallFails(c)
      PROVE  StoreStep
  <2>1. faults' # faults
    BY <1>2 DEF CallFails, IInv, TypeOK
  <2> QED BY <1>2, <2>1, GiveUpMaps DEF CallFails, objects
<1>3. CASE UNCHANGED vars
  BY <1>3, Unseen DEF vars, objects, calls
<1> QED
  BY <1>1, <1>2, <1>3, BeginMaps, RoleMaps, AppliedMaps, RemoveMaps, UninstalledMaps,
     NamespaceMaps
  DEF Next, Apply, Uninstall

\* Every interleaving of installers is one of the store: their calls add what they
\* were asked for and take whole roles away, and a call that succeeds has done all
\* of it (rbac/installer.go, ApplyRBAC and UninstallRBAC).
THEOREM InstallersImplementStore == Spec => ImplementsStore
<1>1. Init => Store!Init
  <2> SUFFICES ASSUME Init PROVE Store!Init
    OBVIOUS
  <2>1. ASSUME NEW n \in Names
        PROVE  RulesIn(roles, n) = {}
    <3>1. \A x \in Scopes : roles[<<n, x>>] = NoObject
      BY <2>1 DEF Init
    <3> QED BY <3>1, NoRoles
  <2> QED BY <2>1 DEF Init, Store!Init, RulesInPlace, Asked, Reported
<1> QED BY <1>1, StoreInvariance, StepMaps, PTL
        DEF Spec, ImplementsStore, Store!Spec, StoreStep

-----------------------------------------------------------------------------
(* A composition with a release name of its own has its roles to itself. *)

\* What OwnRolesOnly allows to happen to the rules of c.
OwnStep(c) ==
  LET now   == RulesInPlace[Name[c]]
      after == RulesInPlace'[Name[c]]
  IN \/ after = now
     \/ /\ job[c] = "apply" /\ now \subseteq after
        /\ after \subseteq now \cup Asked[c]
     \/ /\ job[c] = "uninstall"
        /\ \E scope \in Scopes : after = now \ Store!In(scope, now)

\* No rule of such a composition is in a namespace that another deletion takes.
LEMMA NamespaceOfOthers ==
  ASSUME SInv, LeastPrivilege, NEW c \in Alone, NEW d \in Compositions \ {c},
         job[d] = "uninstall", NEW scope \in Creates[d]
  PROVE  Store!In(scope, RulesInPlace[Name[c]]) = {}
<1>1. c \in Compositions /\ Shielded(c) /\ Name[c] \in Names
  BY InstallerAssumption DEF Alone, Sheltered
<1>2. PICK r \in UNION Charts[d] :
        r.scope = Cluster /\ r.kind = NamespaceKind /\ r.name = scope
  BY DEF Creates
<1>3. d \in Leaving
  BY DEF SInv, GInv, LeavingInv
<1>4. SUFFICES ASSUME NEW rule \in RulesIn(roles, Name[c]), rule[1] = scope
               PROVE  FALSE
  BY <1>1 DEF RulesInPlace, Store!In
<1>5. PICK x \in Scopes : /\ roles[<<Name[c], x>>] # NoObject
                           /\ rule \in {x} \X roles[<<Name[c], x>>].rules
  BY DEF RulesIn
<1>6. x = scope /\ rule[2] \in roles[<<Name[c], x>>].rules
  BY <1>4, <1>5
<1>7. PICK e \in Compositions : \E s \in UNION Charts[e] : Name[e] = Name[c] /\ s.scope = x
  <2>1. <<Name[c], x>> \in Names \X Scopes /\ <<Name[c], x>>[1] = Name[c] /\ <<Name[c], x>>[2] = x
    BY <1>1
  <2> QED BY <1>5, <1>6, <2>1 DEF LeastPrivilege
<1>8. e = c
  BY <1>1, <1>7 DEF Alone
<1>9. Threatens(d, c)
  BY <1>2, <1>6, <1>7, <1>8 DEF Threatens
<1> QED BY <1>1, <1>3, <1>9 DEF Shielded

\* Each step of the store is one that OwnRolesOnly allows.
LEMMA OwnRolesStep ==
  ASSUME SInv, LeastPrivilege, [Next]_vars, NEW c \in Alone
  PROVE  OwnStep(c)
<1>1. c \in Compositions /\ Name[c] \in Names
      /\ \A d \in Compositions \ {c} : Name[d] # Name[c]
  BY InstallerAssumption DEF Alone, Sheltered
<1>2. RulesInPlace = [n \in Names |-> RulesInPlace[n]]
  BY DEF RulesInPlace
<1>3. CASE RulesInPlace' = RulesInPlace
  BY <1>3 DEF OwnStep
<1>4. ASSUME NEW d \in Compositions, Store!AddRole(d)
      PROVE  OwnStep(c)
  <2>1. CASE d = c
    BY <1>1, <1>2, <1>4, <2>1 DEF Store!AddRole, Store!In, OwnStep
  <2>2. CASE d # c
    BY <1>1, <1>2, <1>4, <2>2 DEF Store!AddRole, OwnStep
  <2> QED BY <2>1, <2>2
<1>5. ASSUME NEW d \in Compositions, Store!RemoveRole(d)
      PROVE  OwnStep(c)
  <2>1. CASE d = c
    <3>1. job[c] = "uninstall" /\ Store!Going(c) \subseteq Scopes
      BY <1>1, <1>5, <2>1, GoingScopes DEF Store!RemoveRole, SInv, RoleScopes, Scopes
    <3>2. PICK scope \in Store!Going(c) :
            RulesInPlace' = [RulesInPlace EXCEPT ![Name[c]] =
                               RulesInPlace[Name[c]] \ Store!In(scope, RulesInPlace[Name[c]])]
      BY <1>5, <2>1 DEF Store!RemoveRole
    <3> QED BY <1>1, <1>2, <3>1, <3>2 DEF OwnStep
  <2>2. CASE d # c
    BY <1>1, <1>2, <1>5, <2>2 DEF Store!RemoveRole, OwnStep
  <2> QED BY <2>1, <2>2
<1>6. ASSUME NEW d \in Compositions, Store!NamespaceGoes(d)
      PROVE  OwnStep(c)
  <2>1. PICK scope \in Creates[d] :
          /\ job[d] = "uninstall"
          /\ RulesInPlace' = [n \in Names |-> RulesInPlace[n] \ Store!In(scope, RulesInPlace[n])]
    BY <1>6 DEF Store!NamespaceGoes
  <2>2. RulesInPlace'[Name[c]] =
          RulesInPlace[Name[c]] \ Store!In(scope, RulesInPlace[Name[c]])
    BY <1>1, <2>1
  <2>3. CASE d = c
    <3>1. scope \in Scopes
      BY InstallerAssumption DEF Creates, Resource, Scopes
    <3> QED BY <2>1, <2>2, <2>3, <3>1 DEF OwnStep
  <2>4. CASE d # c
    BY <2>1, <2>2, <2>4, NamespaceOfOthers DEF OwnStep
  <2> QED BY <2>3, <2>4
<1> QED
  BY <1>3, <1>4, <1>5, <1>6, StepMaps
  DEF StoreStep, Store!vars, Store!Next, Store!BeginApply, Store!Applied, Store!BeginUninstall,
      Store!Uninstalled, Store!GiveUp

\* Whatever the other installers do, what a composition with a release name of its
\* own may do changes only by its own calls, in the way CompositionHandler has it
\* (composition.go, the calls of ApplyRBAC and UninstallRBAC).
THEOREM RolesAreItsOwn == Spec => OwnRolesOnly
<1>1. SInv /\ LeastPrivilege /\ [Next]_vars => [\A c \in Alone : OwnStep(c)]_vars
  BY OwnRolesStep
<1> QED BY <1>1, StoreInvariance, PrivilegesAreLeast, PTL DEF Spec, OwnRolesOnly, OwnStep

=============================================================================
