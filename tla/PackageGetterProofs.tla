-------------------------- MODULE PackageGetterProofs --------------------------
(* Proofs about PackageGetter, for any definitions, versions and charts, and   *)
(* for any number of controllers at work on the composition.                   *)
EXTENDS PackageGetter, TLAPS

\* Only the controller of the composition's version can have a current copy.
ServingInv ==
  \A c \in Versions : pc[c] # "idle" /\ fresh[c] => version = c

\* The definition whose name a controller is about to write has been found.
FoundInv == \A c \in Versions : pc[c] = "labels" => found[c] \in Definitions

\* The password is only asked for the chart of a definition that was found.
SecretInv == \A c \in Versions : pc[c] = "secret" => found[c] \in Definitions

IInv == TypeOK /\ ServingInv /\ FoundInv /\ SecretInv

-----------------------------------------------------------------------------
\* The first of some definitions is one of them.
LEMMA FirstOfMember ==
  ASSUME NEW S \in SUBSET Definitions, S # {}
  PROVE  FirstOf(S) \in S
  BY ListAssumption DEF FirstOf

\* What a search can find are definitions that exist.
LEMMA CandidatesExist ==
  ASSUME NEW v \in Versions
  PROVE  /\ Candidates(v) \in SUBSET Definitions
         /\ \A d \in Candidates(v) : Exists(d)
  BY DEF Candidates

\* A handler that ends leaves nothing behind.
LEMMA ReturnKeeps ==
  ASSUME IInv, NEW c \in Versions, Return(c), UNCHANGED <<defs, secret, version>>,
         label' \in Definitions \cup {NoDefinition},
         deployed' \in Charts \cup {NoChart},
         edits' \in 0 .. MaxEdits, faults' \in 0 .. MaxFaults
  PROVE  IInv'
<1>1. NoLabels \in Labels
  BY GetterAssumption DEF NoLabels, Labels
<1>2. TypeOK'
  BY <1>1, GetterAssumption DEF Return, IInv, TypeOK
<1>3. ServingInv' /\ FoundInv' /\ SecretInv'
  BY DEF Return, IInv, TypeOK, ServingInv, FoundInv, SecretInv
<1> QED BY <1>2, <1>3 DEF IInv

\* Taking a definition that exists.
LEMMA TakeKeeps ==
  ASSUME IInv, NEW c \in Versions, pc[c] # "idle",
         NEW d \in Definitions, Exists(d), Take(c, d),
         UNCHANGED <<defs, secret, composition, bounds>>
  PROVE  IInv'
<1>1. NoLabels \in Labels
  BY GetterAssumption DEF NoLabels, Labels
<1>2. defs[d].chart \in Charts
  BY DEF IInv, TypeOK, Exists, Definition
<1>3. TypeOK'
  BY <1>1, <1>2 DEF Take, IInv, TypeOK, composition, bounds
<1>4. ServingInv' /\ FoundInv' /\ SecretInv'
  BY DEF Take, IInv, TypeOK, ServingInv, FoundInv, SecretInv, composition
<1> QED BY <1>3, <1>4 DEF IInv

\* The steps of a controller.
LEMMA ControllerStep ==
  ASSUME IInv, NEW c \in Versions, Controller(c)
  PROVE  IInv'
<1> USE DEF composition, bounds, local
<1>1. ASSUME NEW operation \in {"Observe", "Create"}, Begin(c, operation)
      PROVE  IInv'
  <2>1. [version |-> version, label |-> label] \in Labels
    BY DEF IInv, TypeOK, Labels
  <2>2. TypeOK'
    BY <1>1, <2>1 DEF Begin, IInv, TypeOK
  <2>3. ServingInv' /\ FoundInv' /\ SecretInv'
    BY <1>1 DEF Begin, IInv, TypeOK, ServingInv, FoundInv, SecretInv
  <2> QED BY <2>2, <2>3 DEF IInv
<1>2. CASE GetDefinition(c)
  <2> DEFINE d == mg[c].label
  <2>1. CASE Defines(d, mg[c].version) /\ Take(c, d)
    <3>1. d \in Definitions /\ Exists(d)
      BY <2>1 DEF Defines, Exists, IInv, TypeOK, Labels
    <3> QED BY <1>2, <2>1, <3>1, TakeKeeps DEF GetDefinition
  <2>2. CASE Return(c)
    BY <1>2, <2>2, ReturnKeeps DEF GetDefinition, IInv, TypeOK
  <2>3. CASE pc' = [pc EXCEPT ![c] = "search"] /\ UNCHANGED local
    BY <1>2, <2>3
    DEF GetDefinition, IInv, TypeOK, ServingInv, FoundInv, SecretInv
  <2> QED BY <1>2, <2>1, <2>2, <2>3 DEF GetDefinition
<1>3. CASE Search(c)
  <2> DEFINE candidates == Candidates(mg[c].version)
  <2>1. mg[c].version \in Versions
    BY DEF IInv, TypeOK, Labels
  <2>2. CASE candidates = {}
    BY <1>3, <2>2, ReturnKeeps DEF Search, IInv, TypeOK
  <2>3. CASE candidates # {}
    <3>1. FirstOf(candidates) \in Definitions /\ Exists(FirstOf(candidates))
      BY <2>1, <2>3, CandidatesExist, FirstOfMember
    <3> QED BY <1>3, <2>3, <3>1, TakeKeeps DEF Search
  <2> QED BY <2>2, <2>3
<1>4. CASE GetSecret(c)
  <2>1. CASE Return(c)
    BY <1>4, <2>1, ReturnKeeps DEF GetSecret, IInv, TypeOK
  <2>2. CASE ~Return(c)
    BY <1>4, <2>2
    DEF GetSecret, IInv, TypeOK, ServingInv, FoundInv, SecretInv
  <2> QED BY <2>1, <2>2
<1>5. CASE SaveLabels(c)
  <2>1. CASE Return(c)
    BY <1>5, <2>1, ReturnKeeps DEF SaveLabels, IInv, TypeOK, FoundInv
  <2>2. CASE ~Return(c)
    <3>1. /\ label' = found[c] /\ fresh' \in {fresh, Stale(c)}
          /\ pc[c] = "labels" /\ fresh[c]
          /\ pc' = [pc EXCEPT ![c] = "deploy"]
          /\ UNCHANGED <<defs, secret, version, deployed, op, mg, found, pkg, bounds>>
      BY <1>5, <2>2 DEF SaveLabels
    <3>2. fresh' \in [Versions -> BOOLEAN] /\ \A e \in Versions : fresh'[e] => fresh[e]
      BY <3>1 DEF Stale, IInv, TypeOK
    <3>3. TypeOK'
      BY <3>1, <3>2 DEF IInv, TypeOK, FoundInv
    <3>4. ServingInv' /\ FoundInv' /\ SecretInv'
      BY <3>1, <3>2 DEF IInv, TypeOK, ServingInv, FoundInv, SecretInv
    <3> QED BY <3>3, <3>4 DEF IInv
  <2> QED BY <2>1, <2>2
<1>6. CASE Deploy(c)
  <2>1. deployed' \in Charts \cup {NoChart}
    BY <1>6 DEF Deploy, IInv, TypeOK
  <2> QED BY <1>6, <2>1, ReturnKeeps DEF Deploy, IInv, TypeOK
<1>7. CASE CallFails(c)
  <2>1. faults' \in 0 .. MaxFaults
    BY <1>7, GetterAssumption DEF CallFails, IInv, TypeOK
  <2>2. CASE Return(c)
    BY <1>7, <2>1, <2>2, ReturnKeeps DEF CallFails, IInv, TypeOK
  <2>3. CASE ~Return(c)
    BY <1>7, <2>1, <2>3
    DEF CallFails, IInv, TypeOK, ServingInv, FoundInv, SecretInv
  <2> QED BY <2>2, <2>3
<1> QED BY <1>1, <1>2, <1>3, <1>4, <1>5, <1>6, <1>7 DEF Controller, Step

\* The steps of users and of the core provider.
LEMMA EnvironmentStep ==
  ASSUME IInv, Environment
  PROVE  IInv'
<1> USE DEF composition, bounds, local
<1>1. edits' \in 0 .. MaxEdits /\ faults' = faults
  BY GetterAssumption
  DEF Environment, EditDefinition, Serve, MoveComposition, EditSecret, Edit, IInv, TypeOK
<1>2. ASSUME NEW d \in Definitions, EditDefinition(d)
      PROVE  IInv'
  <2>1. PICK definition \in Definition \cup {NoDefinition} :
          defs' = [defs EXCEPT ![d] = definition]
    <3> DEFINE served == IF Exists(d) THEN defs[d].version ELSE NoVersion
    <3>1. served \in Versions \cup {NoVersion}
      BY DEF Exists, Definition, IInv, TypeOK
    <3>2. \A e \in Charts : [chart |-> e, version |-> served] \in Definition
      BY <3>1 DEF Definition
    <3> QED BY <1>2, <3>2 DEF EditDefinition
  <2> QED BY <1>1, <1>2, <2>1
          DEF EditDefinition, IInv, TypeOK, ServingInv, FoundInv, SecretInv
<1>3. ASSUME NEW d \in Definitions, Serve(d)
      PROVE  IInv'
  <2>1. [defs[d] EXCEPT !.version = VersionOf[defs[d].chart]] \in Definition
    BY <1>3, GetterAssumption DEF Serve, Exists, Definition, IInv, TypeOK
  <2> QED BY <1>1, <1>3, <2>1
          DEF Serve, IInv, TypeOK, ServingInv, FoundInv, SecretInv
<1>4. CASE MoveComposition
  <2>1. PICK d \in Definitions, v \in Versions : version' = v
    BY <1>4 DEF MoveComposition
  <2> QED BY <1>1, <1>4, <2>1
          DEF MoveComposition, IInv, TypeOK, ServingInv, FoundInv, SecretInv
<1>5. CASE EditSecret
  BY <1>1, <1>5 DEF EditSecret, IInv, TypeOK, ServingInv, FoundInv, SecretInv
<1> QED BY <1>2, <1>3, <1>4, <1>5 DEF Environment

\* The labels only change in a write of a controller with a current copy.
LEMMA LabelWritten ==
  ASSUME IInv, Next, label' # label
  PROVE  \E c \in Versions :
           /\ SaveLabels(c) /\ pc[c] = "labels" /\ fresh[c]
           /\ label' = found[c] /\ fresh' = Stale(c)
           /\ pc' = [pc EXCEPT ![c] = "deploy"] /\ version' = version
<1>1. ~Environment
  BY DEF Environment, EditDefinition, Serve, MoveComposition, EditSecret, composition
<1>2. PICK c \in Versions : Controller(c)
  BY <1>1 DEF Next
<1>3. SaveLabels(c)
  BY <1>2 DEF Controller, Step, Begin, GetDefinition, Search, GetSecret, Deploy,
              CallFails, composition
<1> QED BY <1>3 DEF SaveLabels

-----------------------------------------------------------------------------
\* The invariant holds in every state of every behaviour.
THEOREM Invariance == Spec => []IInv
<1>1. Init => IInv
  <2>1. NoLabels \in Labels
    BY GetterAssumption DEF NoLabels, Labels
  <2>2. \A e \in Charts : [chart |-> e, version |-> VersionOf[e]] \in Definition
    BY GetterAssumption DEF Definition
  <2> QED BY <2>1, <2>2, GetterAssumption
          DEF Init, IInv, TypeOK, ServingInv, FoundInv, SecretInv
<1>2. IInv /\ [Next]_vars => IInv'
  <2> SUFFICES ASSUME IInv, [Next]_vars PROVE IInv'
    OBVIOUS
  <2>1. CASE UNCHANGED vars
    BY <2>1 DEF vars, composition, local, bounds, IInv, TypeOK, ServingInv, FoundInv,
                SecretInv
  <2>2. CASE Next
    BY <2>2, ControllerStep, EnvironmentStep DEF Next
  <2> QED BY <2>1, <2>2
<1> QED BY <1>1, <1>2, PTL DEF Spec

\* Every variable keeps its type, the chart a controller deploys included: it is
\* one that some definition has pointed to.
THEOREM TypeCorrect == Spec => []TypeOK
  BY Invariance, PTL DEF IInv

\* Nobody but the controller that serves the composition's version writes its
\* labels: a controller that read the composition before it moved on is refused.
THEOREM LabelsAreServed == Spec => OnlyServingControllerLabels
<1>1. IInv /\ [Next]_vars =>
        [label' # label => pc[version] = "labels" /\ label' = found[version]]_vars
  <2> SUFFICES ASSUME IInv, Next, label' # label
               PROVE  pc[version] = "labels" /\ label' = found[version]
    OBVIOUS
  <2>1. PICK c \in Versions : pc[c] = "labels" /\ fresh[c] /\ label' = found[c]
    BY LabelWritten
  <2> QED BY <2>1 DEF IInv, ServingInv
<1> QED BY <1>1, Invariance, PTL DEF Spec, OnlyServingControllerLabels
-----------------------------------------------------------------------------
(* A definition that goes on defining the composition keeps it. *)

\* What DefinitionKept assumes of every state.
Defining(d) == Defines(d, version) /\ faults = 0

\* Once the labels name d, whoever has a current copy of them takes d again: it
\* need not search, and has found nothing else.
KeptInv(d) ==
  label = d =>
    \A c \in Versions :
      fresh[c] =>
        /\ pc[c] = "get" => mg[c] = [version |-> version, label |-> label]
        /\ pc[c] # "search"
        /\ pc[c] \in {"secret", "labels"} => found[c] = d

\* A handler that is over has no copy.
LEMMA ReturnForgets ==
  ASSUME IInv, NEW d \in Definitions, KeptInv(d), NEW c \in Versions, Return(c),
         UNCHANGED <<version, label>>
  PROVE  KeptInv(d)'
  BY DEF Return, IInv, TypeOK, KeptInv

\* The search is never made for a composition whose definition defines it.
LEMMA KeptStep ==
  ASSUME IInv, NEW d \in Definitions, KeptInv(d), Defining(d), Defining(d)', [Next]_vars
  PROVE  KeptInv(d)' /\ (label = d => label' = d)
<1> USE DEF composition, bounds, local
<1>1. CASE UNCHANGED vars
  BY <1>1 DEF vars, KeptInv
<1>2. CASE Next /\ label' # label
  <2>1. PICK c \in Versions :
          /\ SaveLabels(c) /\ pc[c] = "labels" /\ fresh[c]
          /\ label' = found[c] /\ fresh' = Stale(c)
          /\ pc' = [pc EXCEPT ![c] = "deploy"] /\ version' = version
    BY <1>2, LabelWritten
  <2>2. label # d
    BY <1>2, <2>1 DEF KeptInv
  <2>3. ASSUME NEW e \in Versions, fresh'[e]
        PROVE  pc'[e] \in {"idle", "deploy"}
    BY <2>1, <2>3 DEF Stale, IInv, TypeOK
  <2> QED BY <2>2, <2>3 DEF KeptInv
<1>3. CASE Environment
  <2>1. UNCHANGED <<label, pc, mg, found>>
    BY <1>3 DEF Environment, EditDefinition, Serve, MoveComposition, EditSecret
  <2>2. CASE MoveComposition
    <3>1. \A c \in Versions : fresh'[c] => pc[c] = "idle"
      BY <2>2 DEF MoveComposition
    <3> QED BY <2>1, <3>1 DEF KeptInv
  <2>3. CASE ~MoveComposition
    <3>1. UNCHANGED <<version, fresh>>
      BY <1>3, <2>3 DEF Environment, EditDefinition, Serve, EditSecret
    <3> QED BY <2>1, <3>1 DEF KeptInv
  <2> QED BY <2>2, <2>3
<1>4. ASSUME NEW c \in Versions, Controller(c), label' = label
      PROVE  KeptInv(d)'
  <2>0. UNCHANGED <<version, label>>
    BY <1>4 DEF Controller, Step, Begin, GetDefinition, Search, GetSecret, SaveLabels,
                Deploy, CallFails
  <2>1. CASE Return(c)
    BY <2>0, <2>1, ReturnForgets
  <2>2. ASSUME NEW operation \in {"Observe", "Create"}, Begin(c, operation)
        PROVE  KeptInv(d)'
    BY <2>0, <2>2, GetterAssumption DEF Begin, KeptInv, IInv, TypeOK
  <2>3. CASE GetDefinition(c) /\ ~Return(c)
    <3>1. CASE label = d /\ fresh[c]
      <4>1. mg[c].version = version /\ mg[c].label = d
        BY <2>3, <3>1 DEF GetDefinition, KeptInv
      <4>2. Take(c, d)
        BY <2>3, <4>1, GetterAssumption DEF GetDefinition, Defining, Defines
      <4> QED BY <2>0, <2>3, <4>2 DEF Take, KeptInv, IInv, TypeOK
    <3>2. CASE ~(label = d /\ fresh[c])
      <4>1. /\ UNCHANGED fresh
            /\ \A e \in Versions \ {c} : UNCHANGED <<pc[e], mg[e], found[e]>>
        BY <2>3 DEF GetDefinition, Take, IInv, TypeOK
      <4> QED BY <2>0, <3>2, <4>1 DEF KeptInv
    <3> QED BY <3>1, <3>2
  <2>4. CASE Search(c) /\ ~Return(c)
    <3>1. /\ UNCHANGED fresh /\ pc[c] = "search"
          /\ \A e \in Versions \ {c} : UNCHANGED <<pc[e], mg[e], found[e]>>
      BY <2>4 DEF Search, Take, IInv, TypeOK
    <3>2. ~(label = d /\ fresh[c])
      BY <3>1 DEF KeptInv
    <3> QED BY <2>0, <3>1, <3>2 DEF KeptInv
  <2>5. CASE GetSecret(c) /\ ~Return(c)
    BY <2>0, <2>5 DEF GetSecret, KeptInv, IInv, TypeOK
  <2>6. CASE SaveLabels(c) /\ ~Return(c)
    BY <1>4, <2>0, <2>6 DEF SaveLabels, KeptInv, IInv, TypeOK
  <2>7. CASE Deploy(c)
    BY <2>1, <2>7 DEF Deploy
  <2>8. ~CallFails(c)
    BY DEF CallFails, Defining
  <2> QED BY <1>4, <2>1, <2>2, <2>3, <2>4, <2>5, <2>6, <2>7, <2>8 DEF Controller, Step
<1> QED BY <1>1, <1>2, <1>3, <1>4 DEF Next, KeptInv

\* A definition keeps the compositions it defines, whatever other definitions come,
\* go or are searched for, and however often the composition moves between
\* versions it defines (getter.go, dynamicGetter.Get).
THEOREM DefinitionsKeep == Spec => DefinitionKept
<1> SUFFICES ASSUME NEW d \in Definitions
             PROVE  Spec => ([]Defining(d) => [](label = d => [](label = d)))
  BY DEF DefinitionKept, Defining
<1>1. Init => KeptInv(d)
  BY GetterAssumption DEF Init, KeptInv
<1>2. IInv /\ KeptInv(d) /\ Defining(d) /\ Defining(d)' /\ [Next]_vars
        => KeptInv(d)' /\ (label = d => (label = d)')
  BY KeptStep
<1> QED BY <1>1, <1>2, Invariance, PTL DEF Spec

-----------------------------------------------------------------------------
(* The chart of the definition stays deployed. *)

\* An edit or a failure shows in the bounds; what is left are the controllers'
\* calls and the core provider's.
LEMMA QuietStep ==
  ASSUME IInv, [Next]_vars, UNCHANGED bounds
  PROVE  \/ \E d \in Definitions : Serve(d)
         \/ \E c \in Versions : Begin(c, "Observe") \/ Begin(c, "Create") \/ Step(c)
         \/ UNCHANGED vars
<1>1. edits + 1 # edits /\ faults + 1 # faults
  BY GetterAssumption DEF IInv, TypeOK
<1> QED BY <1>1 DEF bounds, Next, Environment, EditDefinition, MoveComposition, EditSecret,
                    Edit, Controller, CallFails

\* A handler whose step changes nothing but what it holds leaves the others as
\* they were.
LEMMA OthersUpToDate ==
  ASSUME IInv, ChartInPlace, NEW c \in Versions, UNCHANGED <<defs, composition>>,
         \A e \in Versions \ {c} :
           UNCHANGED <<pc[e], op[e], mg[e], fresh[e], found[e], pkg[e]>>,
         UpToDate(c)'
  PROVE  ChartInPlace'
<1>1. ASSUME NEW e \in Versions \ {c}
      PROVE  UpToDate(e)'
  BY <1>1 DEF ChartInPlace, UpToDate, composition
<1> QED BY <1>1 DEF ChartInPlace, Defines, Exists, composition

LEMMA GetterKeepsChart ==
  ASSUME IInv, ChartInPlace, NEW c \in Versions, Step(c)
  PROVE  ChartInPlace'
<1> USE DEF IInv, TypeOK
<1>1. UpToDate(c) /\ label \in Definitions /\ label # NoDefinition
  BY DEF ChartInPlace, Defines, Exists
<1>2. CASE Return(c) /\ UNCHANGED <<defs, composition>>
  BY <1>2, OthersUpToDate DEF Return, UpToDate
<1>3. CASE GetDefinition(c) /\ ~Return(c)
  <2>1. UNCHANGED <<defs, composition, op, fresh>> /\ pc[c] = "get"
    BY <1>3 DEF GetDefinition, Take, local
  <2>2. /\ \A e \in Versions \ {c} : UNCHANGED <<pc[e], mg[e], found[e], pkg[e]>>
        /\ pc'[c] \in {"search", "secret"}
    BY <1>3 DEF GetDefinition, Take, local
  <2>3. CASE mg[c] = [version |-> version, label |-> label]
    <3>1. Take(c, label)
      BY <1>3, <2>3 DEF GetDefinition, ChartInPlace
    <3>2. pc'[c] = "secret" /\ found'[c] = label' /\ pkg'[c] = deployed'
      BY <3>1, <2>1 DEF Take, ChartInPlace, composition
    <3> QED BY <2>1, <2>2, <3>2, OthersUpToDate DEF UpToDate
  <2>4. CASE op[c] = "Observe" /\ ~fresh[c]
    BY <2>1, <2>2, <2>4, OthersUpToDate DEF UpToDate
  <2> QED BY <1>1, <2>1, <2>3, <2>4 DEF UpToDate
<1>4. CASE Search(c) /\ ~Return(c)
  <2>1. UNCHANGED <<defs, composition, op, fresh>> /\ pc[c] = "search"
    BY <1>4 DEF Search, Take
  <2>2. /\ \A e \in Versions \ {c} : UNCHANGED <<pc[e], mg[e], found[e], pkg[e]>>
        /\ pc'[c] = "secret"
    BY <1>4 DEF Search, Take
  <2>3. op[c] = "Observe" /\ ~fresh[c]
    BY <1>1, <2>1 DEF UpToDate
  <2> QED BY <2>1, <2>2, <2>3, OthersUpToDate DEF UpToDate
<1>5. CASE GetSecret(c) /\ ~Return(c)
  <2>1. UNCHANGED <<defs, composition, local>> /\ pc[c] = "secret"
    BY <1>5 DEF GetSecret
  <2>2. /\ \A e \in Versions \ {c} : UNCHANGED pc[e]
        /\ pc'[c] = IF op[c] = "Observe" THEN "labels" ELSE "deploy"
    BY <1>5 DEF GetSecret
  <2> QED BY <1>1, <2>1, <2>2, OthersUpToDate DEF UpToDate, local, composition
<1>6. CASE SaveLabels(c) /\ ~(Return(c) /\ UNCHANGED label)
  <2>1. fresh[c] /\ pc[c] = "labels" /\ label' = found[c]
    BY <1>6 DEF SaveLabels
  <2>2. found[c] = label /\ pkg[c] = deployed
    BY <1>1, <2>1 DEF UpToDate
  <2>3. UNCHANGED <<defs, composition, op, mg, fresh, found, pkg>>
    BY <1>6, <2>1, <2>2 DEF SaveLabels, composition
  <2>4. pc' = [pc EXCEPT ![c] = "deploy"]
    BY <1>6, <2>1 DEF SaveLabels
  <2> QED BY <2>2, <2>3, <2>4, OthersUpToDate DEF UpToDate, composition
<1>7. CASE Deploy(c)
  <2>1. pc[c] = "deploy" /\ pkg[c] = deployed
    BY <1>1, <1>7 DEF Deploy, UpToDate
  <2>2. deployed' = deployed
    BY <1>7, <2>1 DEF Deploy
  <2> QED BY <1>2, <1>7, <2>2 DEF Deploy, composition
<1> QED BY <1>2, <1>3, <1>4, <1>5, <1>6, <1>7
        DEF Step, GetDefinition, Search, GetSecret, SaveLabels, composition

\* A release that has the chart of the composition's definition keeps it, whatever
\* other definitions there are, as long as users and faults leave it alone
\* (getter.go, dynamicGetter.Get; composition.go, Observe).
THEOREM ChartsAreKept == Spec => ChartIsKept
<1>1. ASSUME IInv, [Next]_vars, ChartInPlace, UNCHANGED bounds
      PROVE  ChartInPlace'
  <2>1. ASSUME NEW d \in Definitions, Serve(d)
        PROVE  ChartInPlace'
    <3>1. d # label /\ label \in Definitions
      BY <1>1, <2>1 DEF Serve, ChartInPlace, Defines, Exists, IInv, TypeOK
    <3>2. defs'[label] = defs[label] /\ UNCHANGED <<composition, pc, local>>
      BY <2>1, <3>1 DEF Serve, IInv, TypeOK
    <3> QED BY <1>1, <3>2 DEF ChartInPlace, UpToDate, Defines, Exists, composition, local
  <2>2. ASSUME NEW c \in Versions, Begin(c, "Observe") \/ Begin(c, "Create")
        PROVE  ChartInPlace'
    <3>1. /\ UNCHANGED <<defs, composition, found, pkg>> /\ label # NoDefinition
          /\ pc' = [pc EXCEPT ![c] = "get"] /\ version = c
          /\ mg' = [mg EXCEPT ![c] = [version |-> version, label |-> label]]
          /\ fresh' = [fresh EXCEPT ![c] = TRUE]
          /\ \A e \in Versions \ {c} : UNCHANGED op[e]
      BY <1>1, <2>2 DEF Begin, ChartInPlace, Defines, Exists, IInv, TypeOK
    <3>2. UpToDate(c)' /\ \A e \in Versions \ {c} :
            UNCHANGED <<pc[e], mg[e], fresh[e]>>
      BY <1>1, <3>1 DEF UpToDate, IInv, TypeOK, composition
    <3> QED BY <1>1, <3>1, <3>2, OthersUpToDate
  <2>3. CASE UNCHANGED vars
    BY <1>1, <2>3 DEF vars, composition, local, ChartInPlace, UpToDate, Defines, Exists
  <2> QED BY <1>1, <2>1, <2>2, <2>3, QuietStep, GetterKeepsChart
<1> QED BY <1>1, Invariance, PTL DEF Spec, ChartIsKept

\* So it has it for good once users and faults stop: what ChartSettles still needs
\* is that it gets there.
COROLLARY ChartKeptForGood ==
  Spec => [](ChartInPlace /\ [][UNCHANGED bounds]_vars => []ChartInPlace)
<1>1. ChartInPlace /\ UNCHANGED vars => ChartInPlace'
  BY DEF vars, composition, local, ChartInPlace, UpToDate, Defines, Exists
<1>2. UNCHANGED vars => UNCHANGED bounds
  BY DEF vars
<1> QED BY <1>1, <1>2, ChartsAreKept, PTL DEF ChartIsKept
=============================================================================
