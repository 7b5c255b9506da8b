--------------------------- MODULE RBACRefinement ---------------------------
(***************************************************************************)
(* The installers implement the store of rules that the handlers take them *)
(* for: CompositionHandler's ApplyRBAC and DeleteRBAC are sequences of its *)
(* steps.                                                                  *)
(***************************************************************************)
EXTENDS RBACInstaller

\* The rules of a policy, and those in the roles of a release name.
RulesOf(p) == UNION {{s} \X p.rules[s] : s \in Scopes}

RulesIn(stored, n) ==
  UNION {{s} \X stored[<<n, s>>].rules : s \in {x \in Scopes : stored[<<n, x>>] # NoObject}}

\* What the charts ask for and create, and the compositions that others leave alone.
Generated == [c \in Compositions |-> {RulesOf(Generate(resources)) : resources \in Charts[c]}]

Creates ==
  [c \in Compositions |->
     {r.name : r \in {x \in UNION Charts[c] : x.scope = Cluster /\ x.kind = NamespaceKind}}]

Sheltered == {c \in Compositions : Shielded(c)}

RulesInPlace == [n \in Names |-> RulesIn(roles, n)]

Asked ==
  [c \in Compositions |-> IF job[c] = "none" THEN {} ELSE RulesOf(policy[c])]

Reported ==
  [c \in Compositions |->
     IF granted[c] = NoPolicy THEN NoPolicy ELSE RulesOf(granted[c])]

Store == INSTANCE RBACStore WITH
  NothingYet <- NoPolicy,
  rules      <- RulesInPlace,
  call       <- job,
  asked      <- Asked,
  applied    <- Reported,
  failures   <- faults

\* Whatever the interleaving of installers that share roles, their calls add what
\* they were asked for, role by role, and take whole roles away; one that succeeds
\* has done all of it.
ImplementsStore == Store!Spec

\* The compositions that have a release name of their own, and whose namespaces are
\* taken by nobody's deletion.
Alone == {c \in Sheltered : \A d \in Compositions \ {c} : Name[d] # Name[c]}

\* The rules of a composition with a release name of its own only change by its own
\* calls: an apply adds what it asked for, and an uninstall takes whole roles away.
\* This is how CompositionHandler sees them, whose calls are single steps.
OwnRolesOnly ==
  [][\A c \in Alone :
       LET now   == RulesInPlace[Name[c]]
           after == RulesInPlace'[Name[c]]
       IN \/ after = now
          \/ /\ job[c] = "apply" /\ now \subseteq after
             /\ after \subseteq now \cup Asked[c]
          \/ /\ job[c] = "uninstall"
             /\ \E scope \in Scopes : after = now \ Store!In(scope, now)]_vars
=============================================================================
