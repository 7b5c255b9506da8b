---------------------------- MODULE PackageGetter ----------------------------
(***************************************************************************)
(* Which chart a composition is deployed from: internal/tools/archive finds *)
(* the CompositionDefinition, first by the labels of the composition and    *)
(* then by a search, and Observe writes the labels of the one it found.     *)
(*                                                                          *)
(* There is one controller for each version of the composition's CRD, and a *)
(* composition moves from one to the next when its version label is         *)
(* changed, so that two controllers may be at work on it at a time.         *)
(***************************************************************************)
EXTENDS Naturals, FiniteSets

CONSTANTS
  Definitions,     \* the names a CompositionDefinition can have
  Position,        \* [Definitions -> Nat], where the API server lists them
  NamespaceOf,     \* [Definitions -> namespaces]
  Home,            \* the namespace of the composition
  Versions,        \* version and kind in a definition's status; one controller each
  Charts,
  VersionOf,       \* [Charts -> Versions], what a chart version is served as
  Private,         \* the charts whose registry needs a password
  NoDefinition, NoVersion, NoChart,
  InitialVersion, InitialChart,
  MaxEdits,        \* bound: changes by users and by the core provider
  MaxFaults        \* bound: failing calls and restarts

ASSUME GetterAssumption ==
  /\ Position \in [Definitions -> Nat]
  /\ \A d, e \in Definitions : Position[d] = Position[e] => d = e
  /\ VersionOf \in [Charts -> Versions]
  /\ Private \subseteq Charts
  /\ NoDefinition \notin Definitions
  /\ NoVersion \notin Versions
  /\ NoChart \notin Charts
  /\ InitialVersion \in Versions /\ InitialChart \in Charts
  /\ MaxEdits \in Nat /\ MaxFaults \in Nat

\* spec.chart, and the version and kind the core provider has put in the status.
Definition == [chart : Charts, version : Versions \cup {NoVersion}]

ASSUME NoDefinitionAssumption == NoDefinition \notin Definition

\* A list has a first item.  (That follows from Position being a number, by an
\* induction that the proofs cannot make.)
ASSUME ListAssumption ==
  \A S \in SUBSET Definitions :
    S # {} => \E d \in S : \A e \in S : Position[d] <= Position[e]

VARIABLES
  defs,      \* the CompositionDefinitions of the cluster
  secret,    \* the registry's Secret is there and has its key
  version,   \* label krateo.io/composition-version of the composition
  label,     \* the definition that its other labels name
  deployed,  \* the chart of its release
  pc,        \* the call each controller makes next
  op,        \* the handler it runs
  mg,        \* its copy of the composition's labels
  fresh,     \* nobody has written the composition since that copy
  found,     \* the definition it found
  pkg,       \* the chart of the definition, as it read it
  edits, faults

composition == <<version, label, deployed>>
local == <<op, mg, fresh, found, pkg>>
bounds == <<edits, faults>>
vars == <<defs, secret, composition, pc, local, bounds>>

Labels == [version : Versions, label : Definitions \cup {NoDefinition}]

TypeOK ==
  /\ defs \in [Definitions -> Definition \cup {NoDefinition}]
  /\ secret \in BOOLEAN
  /\ version \in Versions
  /\ label \in Definitions \cup {NoDefinition}
  /\ deployed \in Charts \cup {NoChart}
  /\ pc \in [Versions -> {"idle", "get", "search", "secret", "labels", "deploy"}]
  /\ op \in [Versions -> {"Observe", "Create"}]
  /\ mg \in [Versions -> Labels]
  /\ fresh \in [Versions -> BOOLEAN]
  /\ found \in [Versions -> Definitions \cup {NoDefinition}]
  /\ pkg \in [Versions -> Charts]
  /\ edits \in 0 .. MaxEdits
  /\ faults \in 0 .. MaxFaults

NoLabels == [version |-> InitialVersion, label |-> NoDefinition]

\* A new composition among definitions the core provider has dealt with.
Init ==
  /\ defs \in [Definitions ->
                 {NoDefinition} \cup {[chart |-> c, version |-> VersionOf[c]] : c \in Charts}]
  /\ secret \in BOOLEAN
  /\ version = InitialVersion /\ label = NoDefinition /\ deployed = NoChart
  /\ pc = [c \in Versions |-> "idle"]
  /\ op = [c \in Versions |-> "Observe"]
  /\ mg = [c \in Versions |-> NoLabels]
  /\ fresh = [c \in Versions |-> TRUE]
  /\ found = [c \in Versions |-> NoDefinition]
  /\ pkg = [c \in Versions |-> InitialChart]
  /\ edits = 0 /\ faults = 0

Exists(d) == d # NoDefinition /\ defs[d] # NoDefinition

\* Does the definition say that it is for this version and kind?
Defines(d, v) == Exists(d) /\ defs[d].version = v

FirstOf(S) == CHOOSE d \in S : \A e \in S : Position[d] <= Position[e]

-----------------------------------------------------------------------------
(* The handlers of the controller of version c, as far as they depend on the *)
(* definition.  Update and Delete get the package as Create does, and deploy *)
(* nothing.                                                                   *)

\* Forget what the handler has found; the composition's events come again.
Return(c) ==
  /\ pc' = [pc EXCEPT ![c] = "idle"]
  /\ op' = [op EXCEPT ![c] = "Observe"]
  /\ mg' = [mg EXCEPT ![c] = NoLabels]
  /\ fresh' = [fresh EXCEPT ![c] = TRUE]
  /\ found' = [found EXCEPT ![c] = NoDefinition]
  /\ pkg' = [pkg EXCEPT ![c] = InitialChart]

\* The controller's informer selects the compositions of its version; Create comes
\* when an Observe has found no release.
Begin(c, operation) ==
  /\ pc[c] = "idle" /\ version = c
  /\ operation = "Create" => deployed = NoChart
  /\ op' = [op EXCEPT ![c] = operation]
  /\ mg' = [mg EXCEPT ![c] = [version |-> version, label |-> label]]
  /\ fresh' = [fresh EXCEPT ![c] = TRUE]
  /\ pc' = [pc EXCEPT ![c] = IF label = NoDefinition THEN "search" ELSE "get"]
  /\ UNCHANGED <<defs, secret, composition, found, pkg, bounds>>

\* Mutant: the chart is that of the status, which a new definition has not got.
TakeServed(c, d) ==
  /\ found' = [found EXCEPT ![c] = d]
  /\ pkg' = [pkg EXCEPT ![c] = IF Defines(d, NoVersion) THEN NoChart ELSE defs[d].chart]
  /\ pc' = [pc EXCEPT ![c] = "secret"]
  /\ mg' = [mg EXCEPT ![c] = NoLabels]
  /\ UNCHANGED <<op, fresh>>

\* The package is that of d; its chart may need a password.  The labels that led
\* to it are not used again.
Take(c, d) ==
  /\ found' = [found EXCEPT ![c] = d]
  /\ pkg' = [pkg EXCEPT ![c] = defs[d].chart]
  /\ pc' = [pc EXCEPT ![c] = "secret"]
  /\ mg' = [mg EXCEPT ![c] = NoLabels]
  /\ UNCHANGED <<op, fresh>>

\* Mutant: the definition of the labels is taken whatever it defines by now.
GetDefinitionUnchecked(c) ==
  /\ pc[c] = "get"
  /\ LET d == mg[c].label
     IN IF Exists(d) THEN Take(c, d)
        ELSE pc' = [pc EXCEPT ![c] = "search"] /\ UNCHANGED local
  /\ UNCHANGED <<defs, secret, composition, bounds>>

\* Mutant: the labels are not used, every handler searches.
GetDefinitionNever(c) ==
  /\ pc[c] = "get"
  /\ pc' = [pc EXCEPT ![c] = "search"]
  /\ UNCHANGED <<defs, secret, composition, local, bounds>>

\* The definition the labels name.  One without a status is an error; one that is
\* gone or defines something else by now is searched for.
GetDefinition(c) ==
  /\ pc[c] = "get"
  /\ LET d == mg[c].label
     IN \/ Defines(d, mg[c].version) /\ Take(c, d)
        \/ Defines(d, NoVersion) /\ Return(c)
        \/ /\ ~Defines(d, mg[c].version) /\ ~Defines(d, NoVersion)
           /\ pc' = [pc EXCEPT ![c] = "search"]
           /\ UNCHANGED local
  /\ UNCHANGED <<defs, secret, composition, bounds>>

\* What a search finds among all definitions of the cluster: the only one, or
\* those that define the version and kind.
Candidates(v) ==
  LET all == {d \in Definitions : Exists(d)}
  IN IF Cardinality(all) = 1 THEN all ELSE {d \in all : Defines(d, v)}

\* searchCompositionDefinition; no candidate is an error.
Search(c) ==
  /\ pc[c] = "search"
  /\ LET candidates == Candidates(mg[c].version)
     IN IF candidates = {} THEN Return(c) ELSE Take(c, FirstOf(candidates))
  /\ UNCHANGED <<defs, secret, composition, bounds>>

\* The password, if there is one to get.  A missing Secret is an error; one without
\* the key makes the controller panic and start again.
GetSecret(c) ==
  /\ pc[c] = "secret"
  /\ IF pkg[c] \in Private /\ ~secret
     THEN Return(c)
     ELSE /\ pc' = [pc EXCEPT ![c] = IF op[c] = "Observe" THEN "labels" ELSE "deploy"]
          /\ UNCHANGED local
  /\ UNCHANGED <<defs, secret, composition, bounds>>

\* Everyone else's copy of the composition is stale.
Stale(c) == [other \in Versions |-> fresh[other] /\ (other = c \/ pc[other] = "idle")]

\* Mutant: the labels are written over whatever has been written since.
SaveLabelsBlindly(c) ==
  /\ pc[c] = "labels"
  /\ label' = found[c]
  /\ fresh' = Stale(c)
  /\ pc' = [pc EXCEPT ![c] = "deploy"]
  /\ UNCHANGED <<defs, secret, version, deployed, op, mg, found, pkg, bounds>>

\* SetCompositionDefinitionLabels, and tools.Update: a conflict is an error.
\* Without a release there is nothing to upgrade; Create is next.
SaveLabels(c) ==
  /\ pc[c] = "labels"
  /\ IF ~fresh[c] THEN Return(c) /\ UNCHANGED label
     ELSE /\ label' = found[c]
          /\ fresh' = IF label' = label THEN fresh ELSE Stale(c)
          /\ pc' = [pc EXCEPT ![c] = "deploy"]
          /\ UNCHANGED <<op, mg, found, pkg>>
  /\ UNCHANGED <<defs, secret, version, deployed, bounds>>

\* Create installs or upgrades the release, Observe only upgrades one.
Deploy(c) ==
  /\ pc[c] = "deploy"
  /\ deployed' = IF op[c] = "Create" \/ deployed # NoChart THEN pkg[c] ELSE NoChart
  /\ Return(c)
  /\ UNCHANGED <<defs, secret, version, label, bounds>>

\* A call fails, or the controller is restarted.  When the definition of the labels
\* cannot be read, for whatever reason, it is searched for.
CallFails(c) ==
  /\ pc[c] # "idle"
  /\ faults < MaxFaults /\ faults' = faults + 1
  /\ \/ Return(c)
     \/ /\ pc[c] = "get"
        /\ pc' = [pc EXCEPT ![c] = "search"]
        /\ UNCHANGED local
  /\ UNCHANGED <<defs, secret, composition, edits>>

Step(c) ==
  \/ GetDefinition(c) \/ Search(c) \/ GetSecret(c) \/ SaveLabels(c) \/ Deploy(c)

Controller(c) ==
  \/ Begin(c, "Observe") \/ Begin(c, "Create") \/ Step(c) \/ CallFails(c)

-----------------------------------------------------------------------------
(* Users and the core provider, another controller. *)

Edit == edits < MaxEdits /\ edits' = edits + 1

\* A definition is created, deleted or given another chart.
EditDefinition(d) ==
  /\ Edit
  /\ \E definition \in {NoDefinition} \cup
          {[chart |-> c, version |-> IF Exists(d) THEN defs[d].version ELSE NoVersion] :
             c \in Charts} :
       /\ definition # defs[d]
       /\ defs' = [defs EXCEPT ![d] = definition]
  /\ UNCHANGED <<secret, composition, pc, local, faults>>

\* The core provider serves a new chart version and says so in the status.
Serve(d) ==
  /\ Exists(d) /\ defs[d].version # VersionOf[defs[d].chart]
  /\ defs' = [defs EXCEPT ![d].version = VersionOf[defs[d].chart]]
  /\ UNCHANGED <<secret, composition, pc, local, bounds>>

\* The composition is moved to another version, that of some definition.
MoveComposition ==
  /\ Edit
  /\ \E d \in Definitions, v \in Versions \ {version} :
       Defines(d, v) /\ version' = v
  /\ fresh' = [c \in Versions |-> fresh[c] /\ pc[c] = "idle"]
  /\ UNCHANGED <<defs, secret, label, deployed, pc, op, mg, found, pkg, faults>>

EditSecret ==
  /\ Edit
  /\ secret' = ~secret
  /\ UNCHANGED <<defs, composition, pc, local, faults>>

Environment ==
  \/ \E d \in Definitions : EditDefinition(d) \/ Serve(d)
  \/ MoveComposition \/ EditSecret

Next == Environment \/ \E c \in Versions : Controller(c)

Spec == Init /\ [][Next]_vars

\* Every call returns, resyncs bring Observe events, an Observe that finds no
\* release is followed by a Create, and the core provider does its part.
Fairness ==
  /\ \A d \in Definitions : WF_vars(Serve(d))
  /\ \A c \in Versions :
       /\ WF_vars(Step(c))
       /\ SF_vars(Begin(c, "Observe"))
       /\ SF_vars(Begin(c, "Create"))

FairSpec == Spec /\ Fairness

-----------------------------------------------------------------------------
\* The labels are only written by the controller of the version the composition
\* has at that moment: one that the composition has left in the meantime is
\* refused, however long it has been at it.
OnlyServingControllerLabels ==
  [][label' # label => pc[version] = "labels" /\ label' = found[version]]_vars

\* The definition a composition gets for good: the one of its labels as long as
\* that defines its version, or else the first one a search finds.
Chosen ==
  IF Defines(label, version) THEN {label}
  ELSE LET candidates == Candidates(version)
       IN IF candidates = {} THEN {} ELSE {FirstOf(candidates)}

Obtainable(d) == defs[d].chart \in Private => secret

\* Once users stop, the labels name the chosen definition and the release has its
\* chart, whatever definitions came and went and whichever of two controllers was
\* the last to deploy.
ChartSettles ==
  <>[](\A d \in Chosen :
         Obtainable(d) => label = d /\ deployed = defs[d].chart)

\* What the handler of controller c has read is the composition and its definition
\* as they are; or else it is an Observe whose write of the labels will be refused.
UpToDate(c) ==
  \/ pc[c] = "idle"
  \/ pc[c] = "get" /\ mg[c] = [version |-> version, label |-> label]
  \/ pc[c] \in {"secret", "labels", "deploy"} /\ found[c] = label /\ pkg[c] = deployed
  \/ op[c] = "Observe" /\ ~fresh[c] /\ pc[c] # "deploy"

\* The labels name a definition of the composition's version whose chart is deployed.
ChartInPlace ==
  /\ Defines(label, version) /\ VersionOf[defs[label].chart] = version
  /\ deployed = defs[label].chart
  /\ \A c \in Versions : UpToDate(c)

\* A composition that has the chart of its definition keeps it until a user or a
\* fault intervenes: neither the next Observes nor the handler of a controller
\* that it has moved away from undo it.
ChartIsKept == [][ChartInPlace /\ UNCHANGED bounds => ChartInPlace']_vars

\* As long as a definition defines the composition, and no call fails, it keeps it:
\* definitions that come and go never move the composition to their charts.
DefinitionKept ==
  \A d \in Definitions :
    [](Defines(d, version) /\ faults = 0) => [](label = d => [](label = d))

-----------------------------------------------------------------------------
\* getter.go:185: the search is made in the namespace of the composition.
SearchedInNamespace ==
  [][\A c \in Versions :
       pc[c] = "search" /\ pc'[c] = "secret" => NamespaceOf[found'[c]] = Home]_vars

=============================================================================
