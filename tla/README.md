# Verification of the Composition Dynamic Controller

TLA+ models of `composition-dynamic-controller`, checked with TLC on small
instances and, for the results listed under *What is proved*, with TLAPS for
every value of the constants. Paths and line numbers refer to the repository.

## The system

The controller (CDC) runs one process per version of a composition CRD. It
watches `Composition` objects, and for each keeps a Helm release deployed whose
chart a `CompositionDefinition` names and whose values are the composition's
spec. A runtime outside the repository (`unstructured-runtime`) owns the queue,
the retries, the resync and the finalizer, and calls four handlers.

| Component | State | Operations | Properties that make it correct |
|---|---|---|---|
| Handler, `internal/composition/composition.go` | none between calls; it reads and writes the composition, the Helm release and RBAC | `Observe`, `Create`, `Update`, `Delete` | one release per composition, covered by RBAC, in sync in the end; nothing of the users overwritten; deletion removes everything, the object last; a pause is kept |
| Status, `internal/composition/support.go` | `status` of the composition | `setStatus`, `populateManagedResources` | digest and managed resources are those of the release |
| Metadata, `pkg/meta/meta.go` | labels and annotations of the composition | `SetReleaseName`, `CalculateReleaseName`, pause annotations | a release name never changes; a pause and its time belong together |
| Release decoding, `internal/tools/processor`, `hasher` | none | `DecodeMinRelease`, `ComputeReleaseDigest` | two decoders give the same digest for a release |
| RBAC generation, `internal/rbacgen`, `rbac.go` | none | `Generate` | every resource of the chart is covered in its scope |
| RBAC installer, `internal/tools/rbac/installer.go` | namespaces, roles and bindings in the cluster, shared between installers | `ApplyRBAC`, `UninstallRBAC` | concurrent merges lose nothing; what was reported as applied is in place |
| Package getter, `internal/tools/archive/getter.go` | none; reads `CompositionDefinition`s | `Get` | the definition of the composition's version and kind, the same one as long as it is there; the release ends with its chart |
| Chart inspector client, `internal/chartinspector` | none | `Resources` | external server; renders the stored objects |
| REST mapper, `internal/tools/dynamic` | cached discovery, shared by all handlers | `IsNamespaced` | a kind a chart has just installed is found; a scope that was remembered is still true, if the kind keeps it |
| Tracer, metrics, telemetry | counters, traced requests | wrappers | no influence on the others |
| `main.go` | flags | start-up | one worker by default, resync, five retries |

Interaction: the runtime calls a handler with a copy of the composition. The
handler calls the package getter, the chart inspector (through `rbacgen`), the
RBAC installer and Helm, in that order, and writes the composition's metadata
and status in between and at the end. Observe does the upgrade; Update only
reports it.

What is hard about it:

* a handler holds its copy of the composition over slow calls, while users edit
  the composition and its definition and other installers change RBAC;
* any call may fail and the controller may stop between any two, and the next
  attempt starts from whatever was left (a pending release, RBAC without a
  release, a release without a status);
* several things are kept in two places: release name and label, digest and
  release, pause annotation and pause time, generated rules and roles;
* the chart inspector renders the objects as they are stored, not the handler's
  copies;
* definitions come, go and change their chart while compositions are deployed
  from them, and a composition that moves to another version has two controllers
  at work on it for a while;
* what the REST mapper remembers is older than the kinds the charts install.

`PROJECT.json` lists each hazard at its line with the properties that cover it.

## Modules

`CompositionHandler` — one composition and one worker. A handler is a sequence
of calls (`pc` names the next one), each call is an action, and what the handler
computes between two calls belongs to the action of the second. `mg` is the
handler's copy and `fresh` says that nobody has written the object since (the
`resourceVersion`). `cr`, `chart`, `rel` and `roles` are the cluster: the stored
composition, the definition's chart, the last revision under each possible
release name, and the rules in place. `op` and `queue` are the runtime.

| Action | Code |
|---|---|
| `ObserveSave`, `ObservePackage`, `ObserveLabels`, `ObserveFind`, `ObserveRollback`, `ObserveGenerate`, `ObserveRBAC`, `ObserveUpgrade`, `ObserveReport`, `ObserveUnavailable` | `Observe`, lines 109-355, one action per call |
| `CreateSave` ... `CreateUnpause` | `Create`, 357-520 |
| `UpdatePackage`, `UpdateFind`, `UpdateStatus`, `UpdatePause` | `Update`, 522-638 |
| `DeletePackage` ... `DeleteUnpause` | `Delete`, 640-757 |
| `HelmEnds` | the end of an Upgrade or Install: deployed, failed, or pending when the outcome could not be stored |
| `CallFails` | any call returns an error; `OnError` says what the handler does with it, except for what Observe prepares before it |
| `Begin*`, `Return`, `ReturnError`, `Finalize` | the runtime, as `main.go` configures it and `composition_test.go` drives it |
| `Restart` | the process stops anywhere; the flag `--safe-release-name` may be another afterwards |
| `EditComposition`, `ReleaseChart` | the users |

`CompositionLifecycle` — what the controller promises of one composition, without
calls, copies or queues: RBAC only grows while the composition is there, a
release is deployed only under RBAC that covers it and when no other operation
is open, the status reports the last revision (or none, from Create), Uninstall
comes before Revoke and both before Remove, and nothing happens to a composition
that is gracefully paused. `CompositionRefinement` instantiates it with:

| Abstract | Concrete |
|---|---|
| `object` | `life` |
| `revision` | status and manifest of the release the label names |
| `granted` | the rules in place under that name |
| `reported` | the digest in the status |
| `frozen` | the pause annotation and the pause time are both set |
| `creating` | a Create runs that did not return at once |
| `spared` | a Delete found the composition paused and is about to return nil |

`creating` and `spared` are in the abstract specification because the code allows
what they stand for: a Create goes on under a pause that was set while it ran,
and the deletion of a paused composition leaves its release. `Labelled` looks
through the label: without one there is no release and no rule, so that the step
that writes the label is a stutter.

`RBACGen` — `Generate`: from the resources of a chart to the namespaces to
create and the rules of each scope.

`RBACInstaller` — `ApplyRBAC` and `UninstallRBAC` of several compositions on one
cluster, each Get and each Create, Update or Delete a step. `Turn` is the order
of the loops, `fresh` the optimistic concurrency of role updates (bindings and
namespaces are updated unconditionally). `NamespaceGoes` is the namespace
controller after Helm's uninstall.

`RBACStore` — what the handlers take the installer for: rules under a release name,
without objects, bindings, reads and conflicts. An apply adds the rules it was
asked for, role by role (`AddRole`), and when it succeeds (`Applied`) they are all
there; an uninstall takes whole roles away (`RemoveRole`), and when it succeeds
(`Uninstalled`) none of them is left; either may stop half-way (`GiveUp`). The
`ApplyRBAC` and `DeleteRBAC` of `CompositionHandler` are sequences of these steps
taken as one. That is sound for a composition with a release name of its own: by
`OwnRolesOnly` nothing else changes its rules, so that what is in place when a call
ends is what was there when it began, with rules of the policy added or roles of
it taken away, one by one; and by `ImplementsStore` all of them when the call
succeeds. `RBACRefinement` instantiates it: `rules` are those in the roles that
are stored, `asked` those of the installer's policy, `applied` those of `granted`.
The success of an apply says nothing when another composition that may be deleted
has its release name or creates a namespace it uses (`Sheltered`), and that of an
uninstall nothing when another composition of the name may apply meanwhile.

`PackageGetter` — `dynamicGetter.Get` and what its answer is used for. `pc[c]`
is the next call of the controller of version `c`: `GetDefinition` (by the labels
of the composition), `Search` (all definitions; the only one, or the first of
the version and kind), `GetSecret`, `SaveLabels` (Observe only) and `Deploy`.
`defs` holds the chart in a definition's spec and the version in its status,
which the core provider (`Serve`) writes later than the user writes the spec.
`MoveComposition` changes the version label, after which the informer of another
controller selects the composition (`main.go:211`) while a handler of the old one
may still run. The rest of the handlers is `CompositionHandler`'s.

`ManagedResources` — `populateManagedResources`, object by object, with the REST
mapper: `Lookup` asks it for the scope of the object's kind, from the cache if
there is one; an unknown kind resets it and `Retry` asks again (`IsNamespaced`).
`Discover` may lack a kind, since the discovery of an API group may fail.
`Save` replaces the list in the status. Kinds are installed and removed
meanwhile, those of `Fickle` also with the other scope.

`CompositionHandlerProofs`, `CompositionRefinementProofs`, `CompositionSyncProofs`,
`RBACInstallerProofs`, `RBACRefinementProofs`, `PackageGetterProofs`,
`ManagedResourcesProofs` — theorems.
`MCCompositionHandler` (which extends `CompositionRefinement`), `MCRBACInstaller`
(which extends `RBACRefinement`), `MCPackageGetter`, `MCManagedResources` — the
instances for TLC. Definitions whose comment starts
with *Mutant* are plausible mistakes in the definition that follows; each makes
the property it is paired with in `PROJECT.json` fail.

### Abstractions and assumptions

* Values, charts and manifests are model values; `Render` and `Grants` say which
  manifest a chart and values give and which rules it needs. A digest identifies
  its manifest (no hash collisions); the empty manifest has the empty digest.
* External, from how the code uses it: `tools.Update` and `tools.UpdateStatus`
  fail when the object was written since it was read, and leave the other part
  of the object alone; Helm refuses to start on a pending release, and its calls
  are refused when the account lacks a grant for the new manifest, before a
  revision is recorded (`Refused`); Upgrade returns the new revision; a failed
  Upgrade returns no release; Rollback and Uninstall are single steps that leave
  no revision of their own when they fail. That a release only gets a manifest its
  grants cover is thus assumed; what `ReleaseCovered` adds is that no later step,
  of whatever handler, takes a grant away under it.
* The queue of the runtime is a set of pending Create and Update events; an
  Observe may start whenever the worker is idle, in a deletion too. A retry may
  be dropped (`--max-error-retries`), and the next Observe starts again. This
  allows more than the runtime does.
* A paused composition whose Delete returns nil loses its finalizer as any other
  (the code logs "skipping delete").
* `CompositionHandler` leaves out what the definition's labels say (its write of
  them is an action, their content is in `PackageGetter`), events, messages,
  `previousDigest`, credentials, logs and metrics.
* `RBACInstaller`: the Update of an object that has gone since it was read fails,
  for bindings too, where an API server may be set up to create it; the handler
  is then retried a little earlier than it would have to be.
* `PackageGetter`: version and kind of a definition are one value; the
  composition's moves go to versions that some definition serves; an Observe and
  a Create differ only in whether the labels are written and whether a release
  that is not there is made. The API server lists definitions in a fixed order.
* `ManagedResources`: an entry is an object and the namespace in its path, which is
  what the scope decides; group, version and name only end up in the text. One
  handler at a time uses the mapper, as with the default of one worker
  (`main.go`): with more, another could refill the cache between the reset and
  the second question.

## Runs

| Run | Asks | Bounds |
|---|---|---|
| `handler_safety` | `TypeOK`, `OneRelease`, `ReleaseCovered`, `UserFieldsKept`, `FinalizerLast`, `ImplementsLifecycle`, `SyncIsKept` | 2 charts, 2 values, 3 edits, 1 fault |
| `handler_pause` | `PauseHolds`, `PausedIsQuiet`, `PauseRecordsTruth`, `UnpauseForgotten` | 1 chart, 1 rule, 4 edits, 1 fault |
| `handler_liveness` | `Converges`, `DeleteCompletes` | 2 charts, 2 edits, 1 fault |
| `rbac_merge` | `TypeOK`, `GrantedHolds`, `NoRuleLost`, `OnlyAskedRules`, `ImplementsStore`, `OwnRolesOnly` | 3 compositions, 2 of them deleted, 2 names, 1 fault |
| `rbac_progress` | `ChartIsCovered`, `EachIsGranted` | 2 compositions of one name, 1 fault |
| `package_getter` | `TypeOK`, `OnlyServingControllerLabels`, `ChartSettles`, `DefinitionKept`, `ChartIsKept` | 2 definitions, 2 versions, 3 charts, 2 edits, 1 fault |
| `managed_resources` | `TypeOK`, `ManagedInPlace`, `InstalledKindsFound`, `ListedWhole` | 3 kinds, 4 objects, 4 manifests, 3 changes, 1 fault |

Each of these passes. The instances are the smallest in which the interesting
cases happen. `MCRender` has an edit that changes the manifest and one that
does not, a chart version that changes only the version, and one that renders
nothing; `MCRoleOf` has rules in the ClusterRole and in a namespace, and one
manifest needs both. Three edits allow change, pause or chart release, and
deletion; four are needed for pause, resume, pause again and a change in
between. One fault puts a failure or a restart between any two calls; what it
leaves behind is met by handlers that then run without one, and edits still
make these handlers' writes conflict. In the RBAC instance `web1` and `web2`
have one release name and merge different rules into one ClusterRole, which
`web2` deletes when it goes, so that a merge may follow the deletion of the role
it has read; `db` creates a namespace and is deleted with it. `rbac_progress`,
where nobody goes, lets the chart of `web1` grow, shares a Role too, and has `web2`
create a namespace for one of its objects, whose Role needs it to be there. The definitions of `MCPackageGetter` start in every state the core provider
can have left them in; two of its charts have one version, one of them with a
password, and the third has the next version, so that two edits cover a move of
the composition during an upgrade of its definition, and a definition that goes
while another one of its version comes. Its private chart meets a Secret that is
there or not. In `MCManagedResources` three changes remove a kind and install it
again under a mapper that remembers it, with a second change in between; the
manifests have objects with a namespace that is needed, missing or in vain. No
symmetry is used: `Render`, `Position` and `ScopeOf` tell the values apart, and
liveness is checked.

Runs that find a violation, each a disagreement between the code and what the
repository says of it:

* `finding_rbac_leak` — `cdc-flow.puml` has a deletion uninstall the release and
  then its RBAC. One that stops in between is retried, finds no release and
  returns nil at `composition.go:691`: the roles stay for ever. `RBACRemoved` is
  about compositions that have a release when they are deleted, and under
  `FairSpec`; since only Delete's Uninstall takes a release away, and a deletion
  ends, a counterexample has a Delete that uninstalled and went no further. The
  run has one edit, the deletion, and one fault, the stop; without the fault the
  property holds.
* `finding_managed_lost` — Create's status write fails after the install; the next
  Observe takes the digest from the release itself, finds no change and reports
  the composition up to date without managed resources. The comment at line 332
  says they are already set.
* `finding_create_reports_failure` — Create on an existing release checks only the
  error of Install (line 479); a failed Upgrade is reported as "Composition
  created", with the digest of no release.
* `finding_pause_condition` — `conditionType` is assigned at line 623 after its last
  use: no composition ever has the condition of `condition.go:12`.
* `finding_search_namespace` — `getter.go:185` says that the definition is searched
  for in the namespace of the composition; the List at line 304 has no namespace,
  and a definition of another one is taken.

Observed while modelling, without a run: UninstallRBAC deletes the roles generated
at that moment (`composition.go:726`), so that when the chart has stopped using a
namespace before the deletion, its Role stays, without any fault (three edits of the
model lead there: values, chart, deletion); and a Create that stopped between
ApplyRBAC and Install leaves RBAC that the deletion, finding no release, does not
remove; the annotation alone pauses nothing,
because only an Update records a pause and Observe asks for one only when the
release changed; Observe calls Upgrade although `composition_test.go:494` calls a
correct Observe read-only (whether Helm then stores a revision is decided
outside the repository); roles only ever gain rules, which is what the
installer's tests want and not the least privilege of the README; a Create that
is retried, unlike an Observe, does not remove a stale pause time, and therefore
`PausedIsQuiet` excepts it.

In the package getter: when one definition is left in the cluster the search
takes it whatever it defines (`getter.go:316`), although `getter_test.go:382-396`
expects an error for a composition that nothing defines; every error of the Get
by labels, a timeout too, leads to the search (`getter.go:168`), after which the
labels may move to another definition of the same version for good (therefore
`DefinitionKept` is about behaviours without a failing call); a definition is
matched by its status and deployed by its spec, so that for a while a
composition may get the chart of a version it has not moved to; Delete needs the
package (`composition.go:681`) although it only uninstalls, and fails as long as
the definition is gone; a Secret without its key makes the type assertion at
`getter.go:290` panic; the getter of `--chart` returns no
`CompositionDefinitionInfo`, which Observe dereferences (`composition.go:156`). In
the REST mapper: the reset comes only for a kind that is unknown, so that a kind
installed anew with another scope is listed in its old place until a reset for
another kind or a restart.

## Fairness

`FairSpec` of `CompositionHandler` assumes weak fairness of the worker (it does
not stop in the middle of a handler: every call returns) and strong fairness of
starting an Observe (resync, `main.go:246`), a queued event (the workqueue
delivers what it holds) and a Delete (the runtime repeats it while the deletion
timestamp is set). These are strong because the worker is busy in between. Users,
faults and restarts are under no fairness and are bounded. `FairSpec` of
`RBACInstaller` assumes that each installer goes on and is called again: every
Observe applies RBAC. `FairSpec` of `PackageGetter` assumes that a handler goes on
(weak), that Observe and Create come again as long as the controller's informer
selects the composition (strong, since a running handler and a move disable
them), and that the core provider writes the status of a definition (weak; it is
outside the repository, and without it no definition would ever be found).

## What is proved

From the named assumptions of each module only, for every number of edits,
faults, compositions, charts, rules, kinds, definitions and names. The
assumptions are the types of the constants and that the special values are not
among the ordinary ones, with one exception: `ListAssumption` of `PackageGetter`
says that every nonempty set of definitions has a first one. That follows from
`Position` being a number, by an induction the prover cannot make; TLC evaluates
it on the instance.

`CompositionHandlerProofs`: `TypeOK`, `OneRelease`, `ReleaseCovered`,
`UserFieldsKept` and `FinalizerLast` hold of `Spec`. `OneRelease` is not
inductive: nothing in it says that a handler's copy has the label of the stored
object, so that Helm could be called with another name. The invariant `IInv` adds
that (`CopyInv`: the label agrees always, the whole object while `fresh`), that
Observe and Create have a name after their first call (`NameInv`), that a Helm
operation under way has its revision (`HelmInv`, `RollbackInv`), and how far a
Delete has got (`DeleteInv`, `FinalizeInv`: from Uninstall on no release is left
under either name). `ReleaseCovered` needs the last ones, since `DeleteRBAC`
takes rules away. `UserFieldsKept` follows from `CopyInv`: a write succeeds only
when the copy is the stored object. There is one lemma per handler and one step
per action.

`CompositionRefinementProofs`: the handlers implement `CompositionLifecycle`, and
the three safety properties of pauses. The invariant `LInv` is `IInv` with

* `RunsInv`, that a handler runs on an object that is there and Delete on one that
  is being deleted: the abstract Uninstall, Revoke and Remove ask for it;
* `RolesInv`, that rules are in place only under the label's name: otherwise the
  first write of the label would make rules appear;
* `PendingInv`, that an operation under way has a pending revision: its end is
  then a Settle, and a rollback too;
* `UnpausedInv`, that a handler past its first test has an unpaused copy, and that
  Observe has removed a stale pause time: no work of Observe or Update happens
  under a recorded pause, although the user may set the annotation at any time;
* `ReportInv` and `PauseInv`, that what is about to be reported is the last
  revision, and that the pause is recorded right after it was reported.

The actions are grouped by what they write (the runtime's, quiet calls, metadata,
status, release, RBAC, users), with a lemma per group for the invariant and one
for the mapping, where each step names the abstract action it is. `PauseHolds` and `PausedIsQuiet`
follow from `UnpausedInv`, `PauseRecordsTruth` from `PauseInv` and `CopyInv`.

`CompositionSyncProofs`: the safety half of `Converges`. `Settled` is the state the
property is about, in sync and with nothing half done, and says of the handler
that runs, whichever it is and wherever it is, that what it has read and computed
is what is there (`Current`). `SyncIsKept` is that no step but a user's or a fault
leaves it: an Observe finds no change, an Upgrade deploys the manifest that is
deployed, a Create or Update queued before writes the status that is written.
There is a lemma for each handler, from `LInv`. `SettledForGood` concludes that once
users and faults stop a settled composition stays so; that it gets there is what
`Converges` adds, and TLC checks.

`RBACInstallerProofs`: `TypeOK`, `NoRuleLost`, `GrantedHolds`, `ChartIsCovered` and
`OnlyAskedRules`. `IInv` says that a
role read by an installer is the role stored as long as it is fresh (`FreshInv`),
and that an installer that runs has a policy (`BusyInv`). `NoRuleLost` follows: a
role is created only where there was none, and a merge writes a superset of what
is there. `GrantedHolds` is not inductive: an apply that reports must have found
in place what it dealt with before. `GInv` adds this (`AppliedInv`), that policies
come from charts and a namespace's owner has a chart that creates it (`PolicyInv`,
`OwnerInv`: a namespace that goes is not one a composition left alone relies on),
that only a deleted composition uninstalls (`LeavingInv`), that the objects left
are those of the policy (`LeftInv`), and that the rules such a composition has
read are still there when it merges (`SeenInv`). `ChartIsCovered` follows from it and
the lemma `GenerateCovers`, that the policy of a chart has a role with a rule for
every resource. `OnlyAskedRules` follows from `FreshInv`: what a merge writes is what
is stored and what it was asked for, never an older role. From that and
`PolicyInv` comes `LeastPrivilege`, for any interleaving: a role has no rule that no
chart of its release name asks for in its scope.

`RBACRefinementProofs`: the installers implement `RBACStore`. That an apply which
succeeds has its rules in place is `AppliedInv`. For an uninstall `UninstallInv` adds
that, under a release name of its own, the roles it has dealt with are gone: that
is what a retry relies on that finds some of them gone already. Reads, bindings,
namespaces and conflicts are stutters; each other action is one step of the store.
`OwnRolesOnly` is then a matter of the store's steps, which name the composition they
are of, except for a namespace that goes with another release: `LeastPrivilege` says
that a composition whose charts do not use the namespace has no rule in it.

`PackageGetterProofs`: `TypeOK`, `OnlyServingControllerLabels`, `DefinitionKept` and
`ChartIsKept`. `ServingInv`, that
a current copy is one of the composition's version, is what makes the second
hold: a move makes every copy stale, and the write of a stale one is refused.
`FoundInv` and `SecretInv` say that a definition was found before it is used.
`DefinitionKept` assumes something of the whole behaviour, so that its invariant
`KeptInv` is one of the behaviours that satisfy this: as long as the labels name a
definition that defines the composition, no controller with a current copy
searches. `ChartIsKept` is the safety half of `ChartSettles`: `UpToDate` says of the
handlers under way that they have read what is there, or that the write of their
labels will be refused, and every call keeps that (`ChartKeptForGood`).

`ManagedResourcesProofs`: `TypeOK`, `ManagedInPlace`, `ListedWhole` and
`InstalledKindsFound`. `AnswersInv` says that what the mapper remembers of a kind
that keeps its scope is that scope or nothing, however old it is; `ListInv` that
the list under way has the objects of a prefix of the manifest, and of all of it
when it is saved. Of a kind in `Fickle` nothing is claimed.

## What is only model-checked

What holds under fairness, which is out of reach of the prover: `Converges`,
`DeleteCompletes`, `UnpauseForgotten`, `EachIsGranted` and `ChartSettles`; and the runs
that find violations. All other properties of the runs that pass are proved, and
of `Converges`, `EachIsGranted` and `ChartSettles` the part that says that what is
reached is kept: `SyncIsKept`, `GrantedHolds` and `ChartIsKept`.

## What is not modelled

* Metrics, telemetry, tracer, logging, flags and set-up: no state of the
  controller depends on them. The tracer records requests that nothing reads.
* The hash function and the text of a release: a digest identifies its manifest.
* The HTTP query of the chart inspector: pure I/O with one answer.
* The static getter of `--chart`: it returns its argument.
* Helm, the API server and the runtime's queue beyond the assumptions above; they
  are not in the repository. That includes more than one worker on one
  composition: whether two workers can get the same key is decided by that queue.

## Plan

Done: `CompositionHandler`, its abstract specification and the refinement;
`RBACGen`, `RBACInstaller`, and the refinement of `RBACStore`; `PackageGetter`;
`ManagedResources`; and the proofs of their safety properties. Left, in this order:

1. The argument under `RBACStore` that a call of the installer is a single step of
   `CompositionHandler`, as a theorem: with a history variable for the rules in place
   when a call began, what is there when it ends.
2. What follows from the abstract specifications alone, stated about them, so
   that a reader may use `CompositionLifecycle` without the handlers.
3. The labels and annotations that `ApplyNamespace` overwrites, once a document
   says what should happen to a namespace that exists.
