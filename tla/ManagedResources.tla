--------------------------- MODULE ManagedResources ---------------------------
(***************************************************************************)
(* status.managed: the objects of a release with the places the API server *)
(* serves them at (populateManagedResources).  Whether a kind has a        *)
(* namespace is looked up in a REST mapper, which all handlers of the      *)
(* controller share and which remembers the API server's answer to its     *)
(* first question (IsNamespaced).  Charts install and remove kinds.        *)
(***************************************************************************)
EXTENDS Naturals, Sequences

CONSTANTS
  Kinds,
  ScopeOf,           \* [Kinds -> Scopes]
  Fickle,            \* the kinds that may be installed anew with the other scope
  Objects,
  KindOf,            \* [Objects -> Kinds]
  NamespaceIn,       \* [Objects -> the namespace in the manifest, or NoNamespace]
  Namespaces, NoNamespace, ReleaseNamespace,
  Manifests,         \* the sequences of objects that a release can have
  NoCache,
  MaxChanges,        \* bound: kinds installed and removed
  MaxFaults          \* bound: failing calls and restarts

Scopes == {"namespaced", "root"}
Answers == [Kinds -> Scopes \cup {"absent"}]

ASSUME ResourcesAssumption ==
  /\ ScopeOf \in [Kinds -> Scopes]
  /\ Fickle \subseteq Kinds
  /\ KindOf \in [Objects -> Kinds]
  /\ NoNamespace \notin Namespaces /\ ReleaseNamespace \in Namespaces
  /\ NamespaceIn \in [Objects -> Namespaces \cup {NoNamespace}]
  /\ Manifests \subseteq Seq(Objects) \ {<<>>}
  /\ NoCache \notin Answers
  /\ MaxChanges \in Nat /\ MaxFaults \in Nat

\* The path of an entry has /namespaces/ exactly when the entry has a namespace.
Entries == [object : Objects, namespace : Namespaces \cup {NoNamespace}]

VARIABLES
  api,        \* the kinds the API server serves
  cache,      \* what the REST mapper knows of them
  pc,         \* "idle", or the next step of a handler that lists
  manifest,   \* the objects it lists
  listed,     \* the entries it has so far
  managed,    \* status.managed
  changes, faults

vars == <<api, cache, pc, manifest, listed, managed, changes, faults>>

TypeOK ==
  /\ api \in Answers
  /\ cache \in Answers \cup {NoCache}
  /\ pc \in {"idle", "lookup", "retry", "save"}
  /\ manifest \in Manifests \cup {<<>>}
  /\ listed \in Seq(Entries) /\ managed \in Seq(Entries)
  /\ pc \in {"lookup", "retry"} => Len(listed) < Len(manifest)
  /\ changes \in 0 .. MaxChanges
  /\ faults \in 0 .. MaxFaults

Init ==
  /\ api \in {answer \in Answers : \A k \in Kinds : answer[k] \in {"absent", ScopeOf[k]}}
  /\ cache = NoCache
  /\ pc = "idle" /\ manifest = <<>> /\ listed = <<>> /\ managed = <<>>
  /\ changes = 0 /\ faults = 0

Fault == faults < MaxFaults /\ faults' = faults + 1

\* Mutant: the list of the last attempt is continued.
BeginAgain ==
  /\ pc = "idle"
  /\ manifest' \in Manifests
  /\ pc' = "lookup"
  /\ UNCHANGED <<api, cache, listed, managed, changes, faults>>

\* Create or Update has a release with objects to list.
Begin ==
  /\ pc = "idle"
  /\ manifest' \in Manifests
  /\ listed' = <<>>
  /\ pc' = "lookup"
  /\ UNCHANGED <<api, cache, managed, changes, faults>>

Current == manifest[Len(listed) + 1]

\* Mutant: an object keeps the namespace of the manifest whatever its scope.
EntryAsWritten(o, scope) ==
  [object |-> o,
   namespace |-> IF NamespaceIn[o] = NoNamespace /\ scope = "namespaced"
                 THEN ReleaseNamespace ELSE NamespaceIn[o]]

\* Objects of root scope have no namespace, the others one, by default the release's.
Entry(o, scope) ==
  [object |-> o,
   namespace |-> IF scope = "root" THEN NoNamespace
                 ELSE IF NamespaceIn[o] = NoNamespace THEN ReleaseNamespace
                 ELSE NamespaceIn[o]]

Add(scope) ==
  /\ listed' = Append(listed, Entry(Current, scope))
  /\ pc' = IF Len(listed) + 1 = Len(manifest) THEN "save" ELSE "lookup"

\* The mapper asks the API server for all kinds; the answer lacks some of them when
\* part of the discovery fails.
Discover(answer) ==
  \/ answer = api /\ UNCHANGED faults
  \/ /\ Fault
     /\ \E k \in Kinds : answer = [api EXCEPT ![k] = "absent"]

\* Mutant: a kind the mapper does not know is an error at once.
LookupOnce ==
  /\ pc = "lookup"
  /\ \E answer \in Answers :
       /\ IF cache = NoCache THEN Discover(answer) ELSE answer = cache /\ UNCHANGED faults
       /\ cache' = answer
       /\ IF answer[KindOf[Current]] # "absent"
          THEN Add(answer[KindOf[Current]])
          ELSE pc' = "idle" /\ UNCHANGED listed
  /\ UNCHANGED <<api, manifest, managed, changes>>

\* RESTMapping, from the cache if there is one.  For an unknown kind it is reset.
Lookup ==
  /\ pc = "lookup"
  /\ \E answer \in Answers :
       /\ IF cache = NoCache THEN Discover(answer) ELSE answer = cache /\ UNCHANGED faults
       /\ IF answer[KindOf[Current]] # "absent"
          THEN cache' = answer /\ Add(answer[KindOf[Current]])
          ELSE cache' = NoCache /\ pc' = "retry" /\ UNCHANGED listed
  /\ UNCHANGED <<api, manifest, managed, changes>>

\* Mutant: an object of a kind that stays unknown is left out.
RetryOrSkip ==
  /\ pc = "retry"
  /\ \E answer \in Answers :
       /\ Discover(answer)
       /\ cache' = answer
       /\ \/ answer[KindOf[Current]] # "absent" /\ Add(answer[KindOf[Current]])
          \/ answer[KindOf[Current]] = "absent" /\ pc' = "save" /\ UNCHANGED listed
  /\ UNCHANGED <<api, manifest, managed, changes>>

\* RESTMapping again, after the reset; a kind that is unknown still is an error, and
\* nothing is written.
Retry ==
  /\ pc = "retry"
  /\ \E answer \in Answers :
       /\ Discover(answer)
       /\ cache' = answer
       /\ \/ answer[KindOf[Current]] # "absent" /\ Add(answer[KindOf[Current]])
          \/ answer[KindOf[Current]] = "absent" /\ pc' = "idle" /\ UNCHANGED listed
  /\ UNCHANGED <<api, manifest, managed, changes>>

\* setManagedResources, and the write of the status.
Save ==
  /\ pc = "save"
  /\ managed' = listed
  /\ pc' = "idle"
  /\ UNCHANGED <<api, cache, manifest, listed, changes, faults>>

\* The pluralizer or the write of the status fails.
CallFails ==
  /\ pc \in {"lookup", "save"} /\ Fault
  /\ pc' = "idle"
  /\ UNCHANGED <<api, cache, manifest, listed, managed, changes>>

\* The controller stops and starts again, with an empty mapper.
Restart ==
  /\ Fault
  /\ cache' = NoCache /\ pc' = "idle"
  /\ UNCHANGED <<api, manifest, listed, managed, changes>>

\* A kind is installed or removed, by charts and users.
ChangeKind ==
  /\ changes < MaxChanges /\ changes' = changes + 1
  /\ \E k \in Kinds :
       api' = [api EXCEPT ![k] = IF api[k] # "absent" THEN "absent" ELSE ScopeOf[k]]
  /\ UNCHANGED <<cache, pc, manifest, listed, managed, faults>>

\* A kind is installed with the other scope than before.
ReinstallKind ==
  /\ changes < MaxChanges /\ changes' = changes + 1
  /\ \E k \in Fickle, scope \in Scopes :
       api[k] = "absent" /\ api' = [api EXCEPT ![k] = scope]
  /\ UNCHANGED <<cache, pc, manifest, listed, managed, faults>>

Next ==
  \/ Begin \/ Lookup \/ Retry \/ Save \/ CallFails \/ Restart
  \/ ChangeKind \/ ReinstallKind

Spec == Init /\ [][Next]_vars
-----------------------------------------------------------------------------
\* The entries of kinds that keep their scope are where the API server serves them.
TrueEntries(entries) ==
  \A i \in DOMAIN entries :
    LET o == entries[i].object
    IN KindOf[o] \notin Fickle =>
         entries[i].namespace =
           IF ScopeOf[KindOf[o]] = "root" THEN NoNamespace
           ELSE IF NamespaceIn[o] \in Namespaces THEN NamespaceIn[o]
           ELSE ReleaseNamespace

\* Every entry of status.managed is where its object is served, however old the
\* mapper's answers are and whatever part of the discovery failed: only a kind that
\* was installed anew with another scope can be misplaced.
ManagedInPlace == TrueEntries(managed)

\* A list is given up only for a kind that is not served at that moment or a call
\* that failed: a kind the chart has just installed is found, although the mapper's
\* answers are older.
InstalledKindsFound ==
  [][pc # "idle" /\ pc' = "idle" /\ managed' = managed /\ faults' = faults
       => pc = "save" \/ api[KindOf[Current]] = "absent"]_vars

\* status.managed is replaced by the list of all objects of one manifest, in its
\* order, or not at all: no failure half-way leaves part of a list.
ListedWhole ==
  [][managed' # managed =>
       /\ Len(managed') = Len(manifest)
       /\ \A i \in DOMAIN manifest : managed'[i].object = manifest[i]]_vars

=============================================================================
