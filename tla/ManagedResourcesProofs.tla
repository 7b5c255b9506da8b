------------------------ MODULE ManagedResourcesProofs ------------------------
(* Proofs about ManagedResources, for any kinds, objects and manifests.      *)
EXTENDS ManagedResources, TLAPS

\* What is remembered of a kind that keeps its scope is that scope or nothing.
TrueAnswer(answer) ==
  \A k \in Kinds \ Fickle : answer[k] \in {"absent", ScopeOf[k]}

AnswersInv == TrueAnswer(api) /\ (cache # NoCache => TrueAnswer(cache))

\* The list under way has the first objects of the manifest.
ListInv ==
  /\ pc # "idle" => manifest \in Manifests
  /\ pc \in {"lookup", "retry"} => Len(listed) < Len(manifest)
  /\ pc = "save" => Len(listed) = Len(manifest)
  /\ pc # "idle" =>
       \A i \in 1 .. Len(listed) : listed[i].object = manifest[i]

IInv ==
  /\ TypeOK /\ AnswersInv /\ ListInv
  /\ TrueEntries(listed) /\ TrueEntries(managed)

-----------------------------------------------------------------------------
\* An entry is an entry.
LEMMA EntryType ==
  ASSUME NEW o \in Objects, NEW scope \in Scopes
  PROVE  Entry(o, scope) \in Entries /\ Entry(o, scope).object = o
  BY ResourcesAssumption DEF Entry, Entries

\* Appending an entry that is in its place keeps a list of such entries.
LEMMA AppendTrue ==
  ASSUME NEW entries \in Seq(Entries), TrueEntries(entries), NEW e \in Entries,
         TrueEntries(<<e>>)
  PROVE  TrueEntries(Append(entries, e)) /\ Append(entries, e) \in Seq(Entries)
<1>1. ASSUME NEW i \in DOMAIN Append(entries, e)
      PROVE  /\ i = Len(entries) + 1 => Append(entries, e)[i] = e
             /\ i # Len(entries) + 1 =>
                  i \in DOMAIN entries /\ Append(entries, e)[i] = entries[i]
  BY <1>1
<1>2. <<e>>[1] = e /\ 1 \in DOMAIN <<e>>
  OBVIOUS
<1> QED BY <1>1, <1>2 DEF TrueEntries

\* What a lookup with a true answer adds is in its place and is the next object.
LEMMA AddKeeps ==
  ASSUME IInv, pc \in {"lookup", "retry"}, UNCHANGED <<manifest, managed>>,
         NEW answer \in Answers, TrueAnswer(answer),
         answer[KindOf[Current]] # "absent", Add(answer[KindOf[Current]])
  PROVE  /\ listed' \in Seq(Entries) /\ TrueEntries(listed')
         /\ ListInv' /\ pc' \in {"lookup", "save"}
         /\ pc' = "lookup" => Len(listed') < Len(manifest)
<1> DEFINE scope == answer[KindOf[Current]]
           e == Entry(Current, scope)
<1>1. /\ Len(listed) \in Nat /\ Len(manifest) \in Nat /\ Len(listed) < Len(manifest)
      /\ manifest \in Seq(Objects) /\ listed \in Seq(Entries)
  BY ResourcesAssumption DEF IInv, TypeOK, ListInv
<1>2. Current = manifest[Len(listed) + 1] /\ Current \in Objects
  BY <1>1 DEF Current
<1>3. KindOf[Current] \in Kinds /\ scope \in Scopes
  BY <1>2, ResourcesAssumption DEF Answers
<1>4. e \in Entries /\ e.object = Current
  BY <1>2, <1>3, EntryType
<1>5. KindOf[Current] \notin Fickle => scope = ScopeOf[KindOf[Current]]
  BY <1>3 DEF TrueAnswer
<1>6. TrueEntries(<<e>>)
  <2>1. DOMAIN <<e>> = {1} /\ <<e>>[1] = e
    OBVIOUS
  <2>2. NamespaceIn[Current] \in Namespaces \/ NamespaceIn[Current] = NoNamespace
    BY <1>2, ResourcesAssumption
  <2>3. e.namespace = IF scope = "root" THEN NoNamespace
                      ELSE IF NamespaceIn[Current] = NoNamespace THEN ReleaseNamespace
                      ELSE NamespaceIn[Current]
    BY DEF Entry
  <2> QED BY <1>4, <1>5, <2>1, <2>2, <2>3, ResourcesAssumption DEF TrueEntries
<1>7. listed' = Append(listed, e) /\ pc' = IF Len(listed) + 1 = Len(manifest) THEN "save" ELSE "lookup"
  BY DEF Add
<1>8. listed' \in Seq(Entries) /\ TrueEntries(listed')
  BY <1>1, <1>4, <1>6, <1>7, AppendTrue DEF IInv
<1>9. Len(listed') = Len(listed) + 1
  BY <1>1, <1>4, <1>7
<1>10. ASSUME NEW i \in 1 .. Len(listed')
       PROVE  listed'[i].object = manifest[i]
  <2>1. CASE i = Len(listed) + 1
    BY <1>1, <1>2, <1>4, <1>7, <2>1
  <2>2. CASE i # Len(listed) + 1
    <3>1. i \in 1 .. Len(listed) /\ listed'[i] = listed[i]
      BY <1>1, <1>4, <1>7, <1>9, <2>2
    <3> QED BY <3>1 DEF IInv, ListInv
  <2> QED BY <2>1, <2>2
<1> QED BY <1>1, <1>7, <1>8, <1>9, <1>10 DEF IInv, ListInv

\* An answer of the discovery is an answer, and true if the API server's kinds are.
LEMMA DiscoverKeeps ==
  ASSUME IInv, NEW answer \in Answers, Discover(answer)
  PROVE  TrueAnswer(answer) /\ faults' \in 0 .. MaxFaults
<1>1. TrueAnswer(answer)
  <2>1. CASE answer = api
    BY <2>1 DEF IInv, AnswersInv
  <2>2. ASSUME NEW k \in Kinds, answer = [api EXCEPT ![k] = "absent"]
        PROVE  TrueAnswer(answer)
    BY <2>2 DEF IInv, TypeOK, Answers, AnswersInv, TrueAnswer
  <2> QED BY <2>1, <2>2 DEF Discover
<1>2. faults' \in 0 .. MaxFaults
  BY ResourcesAssumption DEF IInv, TypeOK, Discover, Fault
<1> QED BY <1>1, <1>2

-----------------------------------------------------------------------------
\* The invariant holds in every state of every behaviour.
THEOREM Invariance == Spec => []IInv
<1>1. Init => IInv
  <2> SUFFICES ASSUME Init PROVE IInv
    OBVIOUS
  <2>1. TrueEntries(<<>>) /\ <<>> \in Seq(Entries)
    BY DEF TrueEntries
  <2>2. AnswersInv
    BY DEF Init, AnswersInv, TrueAnswer, Answers
  <2> QED BY <2>1, <2>2, ResourcesAssumption DEF Init, IInv, TypeOK, ListInv
<1>2. IInv /\ [Next]_vars => IInv'
  <2> SUFFICES ASSUME IInv, [Next]_vars PROVE IInv'
    OBVIOUS
  <2> USE DEF IInv
  <2>1. CASE Begin
    <3>1. TrueEntries(<<>>) /\ <<>> \in Seq(Entries) /\ Len(<<>>) = 0
      BY DEF TrueEntries
    <3>2. manifest' \in Manifests /\ manifest' \in Seq(Objects) /\ manifest' # <<>>
      BY <2>1, ResourcesAssumption DEF Begin
    <3>3. Len(manifest') \in Nat /\ Len(manifest') > 0
      BY <3>2
    <3> QED BY <2>1, <3>1, <3>2, <3>3 DEF Begin, TypeOK, AnswersInv, ListInv
  <2>2. CASE Lookup
    <3>1. PICK answer \in Answers :
            /\ IF cache = NoCache THEN Discover(answer) ELSE answer = cache /\ UNCHANGED faults
            /\ IF answer[KindOf[Current]] # "absent"
               THEN cache' = answer /\ Add(answer[KindOf[Current]])
               ELSE cache' = NoCache /\ pc' = "retry" /\ UNCHANGED listed
      BY <2>2 DEF Lookup
    <3>2. pc = "lookup" /\ UNCHANGED <<api, manifest, managed, changes>>
      BY <2>2 DEF Lookup
    <3>3. TrueAnswer(answer) /\ faults' \in 0 .. MaxFaults
      BY <3>1, DiscoverKeeps DEF TypeOK, AnswersInv
    <3>4. CASE answer[KindOf[Current]] # "absent"
      <4>1. /\ listed' \in Seq(Entries) /\ TrueEntries(listed')
            /\ ListInv' /\ pc' \in {"lookup", "save"}
            /\ pc' = "lookup" => Len(listed') < Len(manifest)
        BY <3>1, <3>2, <3>3, <3>4, AddKeeps
      <4> QED BY <3>1, <3>2, <3>3, <3>4, <4>1 DEF TypeOK, AnswersInv
    <3>5. CASE answer[KindOf[Current]] = "absent"
      BY <3>1, <3>2, <3>3, <3>5 DEF TypeOK, AnswersInv, ListInv
    <3> QED BY <3>4, <3>5
  <2>3. CASE Retry
    <3>1. PICK answer \in Answers :
            /\ Discover(answer)
            /\ cache' = answer
            /\ \/ answer[KindOf[Current]] # "absent" /\ Add(answer[KindOf[Current]])
               \/ answer[KindOf[Current]] = "absent" /\ pc' = "idle" /\ UNCHANGED listed
      BY <2>3 DEF Retry
    <3>2. pc = "retry" /\ UNCHANGED <<api, manifest, managed, changes>>
      BY <2>3 DEF Retry
    <3>3. TrueAnswer(answer) /\ faults' \in 0 .. MaxFaults
      BY <3>1, DiscoverKeeps
    <3>4. CASE answer[KindOf[Current]] # "absent"
      <4>1. /\ listed' \in Seq(Entries) /\ TrueEntries(listed')
            /\ ListInv' /\ pc' \in {"lookup", "save"}
            /\ pc' = "lookup" => Len(listed') < Len(manifest)
        BY <3>1, <3>2, <3>3, <3>4, AddKeeps
      <4> QED BY <3>1, <3>2, <3>3, <3>4, <4>1 DEF TypeOK, AnswersInv
    <3>5. CASE answer[KindOf[Current]] = "absent"
      BY <3>1, <3>2, <3>3, <3>5 DEF TypeOK, AnswersInv, ListInv
    <3> QED BY <3>4, <3>5
  <2>4. CASE Save
    BY <2>4 DEF Save, TypeOK, AnswersInv, ListInv
  <2>5. CASE CallFails \/ Restart
    BY <2>5, ResourcesAssumption DEF CallFails, Restart, Fault, TypeOK, AnswersInv, ListInv
  <2>6. CASE ChangeKind \/ ReinstallKind
    <3>1. api' \in Answers /\ TrueAnswer(api')
      BY <2>6, ResourcesAssumption
         DEF ChangeKind, ReinstallKind, TypeOK, Answers, AnswersInv, TrueAnswer
    <3> QED BY <2>6, <3>1, ResourcesAssumption
            DEF ChangeKind, ReinstallKind, TypeOK, AnswersInv, ListInv
  <2>7. CASE UNCHANGED vars
    BY <2>7 DEF vars, TypeOK, AnswersInv, ListInv
  <2> QED BY <2>1, <2>2, <2>3, <2>4, <2>5, <2>6, <2>7 DEF Next
<1> QED BY <1>1, <1>2, PTL DEF Spec

\* Every variable keeps its type.
THEOREM TypeCorrect == Spec => []TypeOK
  BY Invariance, PTL DEF IInv

\* However old the mapper's answers are and whatever part of the discovery failed,
\* the entries of status.managed are where the API server serves the objects.
THEOREM ManagedIsInPlace == Spec => []ManagedInPlace
  BY Invariance, PTL DEF IInv, ManagedInPlace

\* status.managed has all objects of a manifest or is left as it was.
THEOREM ManagedIsWhole == Spec => ListedWhole
<1>1. IInv /\ [Next]_vars =>
        [managed' # managed =>
           /\ Len(managed') = Len(manifest)
           /\ \A i \in DOMAIN manifest : managed'[i].object = manifest[i]]_vars
  <2> SUFFICES ASSUME IInv, Next, managed' # managed
               PROVE  /\ Len(managed') = Len(manifest)
                      /\ \A i \in DOMAIN manifest : managed'[i].object = manifest[i]
    BY DEF vars
  <2>1. Save
    BY DEF Next, Begin, Lookup, Retry, CallFails, Restart, ChangeKind, ReinstallKind
  <2>2. manifest \in Seq(Objects)
    BY <2>1, ResourcesAssumption DEF Save, IInv, ListInv
  <2> QED BY <2>1, <2>2 DEF Save, IInv, ListInv
<1> QED BY <1>1, Invariance, PTL DEF Spec, ListedWhole

\* A kind the API server serves is found by the second lookup at the latest.
THEOREM InstalledIsFound == Spec => InstalledKindsFound
<1>1. IInv /\ [Next]_vars =>
        [pc # "idle" /\ pc' = "idle" /\ managed' = managed /\ faults' = faults
           => pc = "save" \/ api[KindOf[Current]] = "absent"]_vars
  <2> SUFFICES ASSUME IInv, Next, pc # "idle", pc' = "idle", faults' = faults, pc # "save"
               PROVE  api[KindOf[Current]] = "absent"
    BY DEF vars
  <2>1. faults \in Nat
    BY ResourcesAssumption DEF IInv, TypeOK
  <2>2. Retry
    BY <2>1 DEF Next, Begin, Lookup, Add, Save, CallFails, Restart, Fault, ChangeKind,
                ReinstallKind
  <2> QED BY <2>1, <2>2 DEF Retry, Discover, Fault, Add
<1> QED BY <1>1, Invariance, PTL DEF Spec, InstalledKindsFound

=============================================================================
