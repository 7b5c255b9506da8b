------------------------- MODULE CompositionHandler -------------------------
(***************************************************************************)
(* The four handlers of internal/composition (Observe, Create, Update and  *)
(* Delete) run by one worker of the runtime against one composition.       *)
(*                                                                         *)
(* A handler is a sequence of calls to the API server, Helm and the chart  *)
(* inspector; each call is one step here, so that user edits, chart        *)
(* releases, failing calls and restarts of the controller fall between any *)
(* two of them.  What the handler computes locally between two calls is    *)
(* part of the step of the call that follows it.                           *)
(***************************************************************************)
EXTENDS Naturals

CONSTANTS
  Values,          \* contents of the composition's spec: the Helm values
  Charts,          \* chart versions a CompositionDefinition can point to
  Manifests,       \* rendered release manifests
  EmptyManifest,   \* the manifest of a chart that renders no object
  Render,          \* [Charts \X Values -> Manifests], what Helm renders
  Scopes,          \* the rules RBAC generation can ask for
  Grants,          \* [Manifests -> SUBSET Scopes], the rules a manifest needs
  Roles, ClusterRole,   \* the ClusterRole, and the Role of each namespace
  RoleOf,          \* [Scopes -> Roles], the object that holds a rule
  NoRelease, NoDigest, NoLabel, NoChart,
  InitialValues, InitialChart,
  MaxEdits,        \* bound: edits by users and chart releases
  MaxFaults        \* bound: failing calls and restarts

ReleaseNames == {"short", "hashed"}

ASSUME HandlerAssumption ==
  /\ EmptyManifest \in Manifests
  /\ Render \in [Charts \X Values -> Manifests]
  /\ Grants \in [Manifests -> SUBSET Scopes]
  /\ ClusterRole \in Roles /\ RoleOf \in [Scopes -> Roles]
  /\ NoDigest \notin Manifests
  /\ NoChart \notin Charts
  /\ NoLabel \notin ReleaseNames
  /\ InitialValues \in Values
  /\ InitialChart \in Charts
  /\ MaxEdits \in Nat
  /\ MaxFaults \in Nat

Release == [status : {"pending", "deployed", "failed"},
            manifest : Manifests, chart : Charts]

ASSUME NoReleaseAssumption == NoRelease \notin Release

Status == [digest : Manifests \cup {NoDigest},
           managed : Manifests,       \* the manifest whose objects are listed
           ready : {"Unknown", "Available", "Unavailable", "Paused"},
           chart : Charts \cup {NoChart}]

\* The composition as the API server stores it and as a handler copies it.
Composition == [spec : Values,
                paused : BOOLEAN,      \* annotation krateo.io/gracefully-paused
                pausedTime : BOOLEAN,  \* krateo.io/gracefully-paused-time is set
                label : ReleaseNames \cup {NoLabel},   \* krateo.io/release-name
                status : Status]

NewStatus == [digest |-> NoDigest, managed |-> EmptyManifest,
              ready |-> "Unknown", chart |-> NoChart]

NewComposition == [spec |-> InitialValues, paused |-> FALSE, pausedTime |-> FALSE,
                   label |-> NoLabel, status |-> NewStatus]

VARIABLES
  life,    \* the composition is "present", "deleting" (timestamp set) or "gone"
  cr,      \* the stored composition
  chart,   \* the chart version of the CompositionDefinition
  rel,     \* the last revision of each Helm release, by release name
  roles,   \* the rules in place for each release name
  safe,    \* the flag --safe-release-name of the running controller
  op,      \* the handler that runs, or "none"
  pc,      \* the call it makes next
  queue,   \* the events the runtime holds for the composition
  mg,      \* the handler's copy of the composition
  fresh,   \* nobody else has written the composition since that copy
  pkg,     \* the chart version the handler got from the package getter
  gen,     \* the rules the handler generated
  old,     \* the release the handler found
  new,     \* the release the handler's Helm operation returned
  edits, faults

cluster == <<life, cr, chart, rel, roles>>
locals  == <<mg, fresh, pkg, gen, old, new>>
worker  == <<op, pc, queue>>
bounds  == <<edits, faults>>
vars    == <<cluster, safe, worker, locals, bounds>>

Operations == {"Observe", "Create", "Update", "Delete"}

Steps == {"idle", "save", "package", "labels", "find", "rollback", "generate",
          "rbac", "upgrade", "upgrading", "install", "installing", "report", "unavailable",
          "status", "unpause", "pause", "uninstall", "confirm", "finalize",
          "return", "error"}

TypeOK ==
  /\ life \in {"present", "deleting", "gone"}
  /\ cr \in Composition
  /\ chart \in Charts
  /\ rel \in [ReleaseNames -> Release \cup {NoRelease}]
  /\ roles \in [ReleaseNames -> SUBSET Scopes]
  /\ safe \in BOOLEAN
  /\ op \in Operations \cup {"none"}
  /\ pc \in Steps
  /\ queue \in SUBSET {"Create", "Update"}
  /\ mg \in Composition
  /\ fresh \in BOOLEAN
  /\ pkg \in Charts
  /\ gen \in SUBSET Scopes
  /\ old \in Release \cup {NoRelease}
  /\ new \in Release \cup {NoRelease}
  /\ edits \in 0 .. MaxEdits
  /\ faults \in 0 .. MaxFaults

Init ==
  /\ life = "present"
  /\ cr = NewComposition
  /\ chart = InitialChart
  /\ rel = [n \in ReleaseNames |-> NoRelease]
  /\ roles = [n \in ReleaseNames |-> {}]
  /\ safe \in BOOLEAN
  /\ op = "none" /\ pc = "idle" /\ queue = {}
  /\ mg = NewComposition /\ fresh = TRUE /\ pkg = InitialChart
  /\ gen = {} /\ old = NoRelease /\ new = NoRelease
  /\ edits = 0 /\ faults = 0

-----------------------------------------------------------------------------
(* Helpers of the handlers. *)

\* CalculateReleaseName: the name alone, or the name and a hash of the UID.
CalculateReleaseName == IF safe THEN "hashed" ELSE "short"

\* Mutant: the label follows the flag --safe-release-name of the moment.
SetReleaseNameAnew(obj) == [obj EXCEPT !.label = CalculateReleaseName]

\* SetReleaseName: a label that is there already is kept.
SetReleaseName(obj) ==
  IF obj.label = NoLabel THEN [obj EXCEPT !.label = CalculateReleaseName] ELSE obj

\* The test every handler starts with: paused, and the pause was recorded.
GracefullyPaused(obj) == obj.pausedTime /\ obj.paused

\* meta.RemoveAnnotations of the gracefully-paused-time annotation.
RemovePausedTime(obj) == [obj EXCEPT !.pausedTime = FALSE]

\* The digest of a manifest; an empty manifest has the empty digest.
Digest(manifest) == IF manifest = EmptyManifest THEN NoDigest ELSE manifest

\* Mutant: the digest of an empty manifest is computed like any other.
DigestOfWhole(release) == IF release = NoRelease THEN NoDigest ELSE release.manifest

\* DecodeMinRelease of a release that may be nil: what Create and Update report.
DigestOf(release) == IF release = NoRelease THEN NoDigest ELSE Digest(release.manifest)
ObjectsOf(release) == IF release = NoRelease THEN EmptyManifest ELSE release.manifest

\* Mutant: the digest is not written.
SetStatusButDigest(status, resources, digest, version) ==
  [digest |-> status.digest,
   managed |-> IF resources = EmptyManifest THEN status.managed ELSE resources,
   ready |-> "Available",
   chart |-> version]

\* setStatus: managed is only written when there are resources to list.
SetStatus(status, resources, digest, version) ==
  [digest |-> digest,
   managed |-> IF resources = EmptyManifest THEN status.managed ELSE resources,
   ready |-> "Available",
   chart |-> version]

\* What the running handler asks Helm to deploy.
Wanted == Render[<<pkg, mg.spec>>]

Keep == UNCHANGED <<cluster, safe, op, queue, bounds>>

\* Mutant: the object is written whatever happened since it was read.
SaveMetaBlindly(obj, step) ==
  /\ cr' = [obj EXCEPT !.status = cr.status]
  /\ mg' = cr'
  /\ pc' = step

\* tools.Update: metadata is replaced unless somebody wrote the object since it
\* was read; the status, a subresource, is left alone.
SaveMeta(obj, step) ==
  IF fresh
  THEN /\ cr' = [obj EXCEPT !.status = cr.status]
       /\ mg' = cr'
       /\ pc' = step
  ELSE /\ pc' = "error"
       /\ UNCHANGED <<cr, mg>>

\* tools.UpdateStatus: only the status is written, under the same condition.
SaveStatus(status, step) ==
  IF fresh
  THEN /\ cr' = [cr EXCEPT !.status = status]
       /\ mg' = cr'
       /\ pc' = step
  ELSE /\ pc' = "error"
       /\ UNCHANGED <<cr, mg>>

KeepAllButCR == UNCHANGED <<life, chart, rel, roles, safe, op, queue,
                            fresh, pkg, gen, old, new, bounds>>

At(operation, step) == op = operation /\ pc = step

Forget ==
  /\ mg' = NewComposition /\ fresh' = TRUE /\ pkg' = InitialChart
  /\ gen' = {} /\ old' = NoRelease /\ new' = NoRelease

\* The handler is over; the runtime adds the events in next to its queue.
Finish(next) == op' = "none" /\ pc' = "idle" /\ queue' = queue \cup next /\ Forget

Fault == faults < MaxFaults /\ faults' = faults + 1

-----------------------------------------------------------------------------
(* The runtime, as main.go configures it and composition_test.go drives it: *)
(* one operation at a time, each on a copy it fetches when it starts.  An   *)
(* Observe may start whenever the worker is idle: every change of the       *)
(* composition and every resync queues one.                                 *)

FirstStep(operation) ==
  IF operation \in {"Observe", "Create"} THEN "save" ELSE "package"

\* Mutant: no handler looks for a pause.
BeginUnlessPausedDropped(operation) ==
  /\ op = "none" /\ life # "gone"
  /\ op' = operation
  /\ mg' = cr /\ fresh' = TRUE
  /\ pc' = FirstStep(operation)
  /\ UNCHANGED <<cluster, safe, pkg, gen, old, new, bounds>>

\* Every handler first skips a composition that is gracefully paused: Observe,
\* Create and Update return, and Delete returns nil to a runtime that then
\* removes the finalizer.
Begin(operation) ==
  /\ op = "none" /\ life # "gone"
  /\ op' = operation
  /\ mg' = cr /\ fresh' = TRUE
  /\ pc' = IF ~GracefullyPaused(cr) THEN FirstStep(operation)
           ELSE IF operation = "Delete" THEN "finalize" ELSE "return"
  /\ UNCHANGED <<cluster, safe, pkg, gen, old, new, bounds>>

BeginObserve == Begin("Observe") /\ UNCHANGED queue

BeginQueued == \E operation \in queue :
                 Begin(operation) /\ queue' = queue \ {operation}

BeginDelete == life = "deleting" /\ Begin("Delete") /\ UNCHANGED queue

\* A handler returned without error: the next event observes the composition.
Return ==
  /\ pc = "return"
  /\ Finish({})
  /\ UNCHANGED <<cluster, safe, bounds>>

\* A handler returned an error: the runtime retries the operation, or gives up
\* until the next resync.  (A Delete is repeated by BeginDelete.)
ReturnError ==
  /\ pc = "error"
  /\ \E next \in SUBSET ({op} \cap {"Create", "Update"}) : Finish(next)
  /\ UNCHANGED <<cluster, safe, bounds>>

\* Delete returned nil: the runtime removes the finalizer and the object goes.
Finalize ==
  /\ pc = "finalize"
  /\ life' = "gone"
  /\ Finish({})
  /\ UNCHANGED <<cr, chart, rel, roles, safe, bounds>>

\* The controller stops anywhere and starts again, perhaps with another value
\* of --safe-release-name; what it held in memory is lost.
Restart ==
  /\ Fault
  /\ safe' \in BOOLEAN
  /\ op' = "none" /\ pc' = "idle" /\ queue' = {} /\ Forget
  /\ UNCHANGED <<cluster, edits>>

\* A call fails without effect.
Call == {"save", "package", "labels", "find", "rollback", "generate", "rbac",
         "upgrade", "install", "report", "unavailable", "status", "unpause",
         "pause", "uninstall", "confirm", "finalize"}

\* What follows a failed call: the handler returns the error, except that Observe
\* first reports some failures in the status, and that Create checks the error of
\* Install but not the one of Upgrade.
OnError(step) ==
  IF op = "Observe" /\ step \in {"generate", "rbac", "upgrade", "upgrading"}
  THEN "unavailable"
  ELSE IF op = "Create" /\ step \in {"upgrade", "upgrading"} THEN "status" ELSE "error"

\* What Observe prepares before it generates RBAC or upgrades (the resource name, the
\* values, the Helm client) can fail too, and is returned without a report.
CallFails ==
  /\ pc \in Call
  /\ Fault
  /\ \/ pc' = OnError(pc)
     \/ op = "Observe" /\ pc \in {"generate", "upgrade"} /\ pc' = "error"
  /\ UNCHANGED <<cluster, safe, op, queue, locals, edits>>

-----------------------------------------------------------------------------
(* Calls that several handlers make. *)

\* Mutant: a CompositionDefinition that is not found is no error.
GetPackageOrNone(step) ==
  /\ pkg' \in {chart, NoChart}
  /\ pc' = step
  /\ Keep /\ UNCHANGED <<mg, fresh, gen, old, new>>

\* packageInfoGetter.Get: the chart the CompositionDefinition points to now.
GetPackage(step) ==
  /\ pkg' = chart
  /\ pc' = step
  /\ Keep /\ UNCHANGED <<mg, fresh, gen, old, new>>

\* RBACGen.Generate: the chart inspector renders the stored composition with the
\* CompositionDefinition's chart of the moment, not the handler's copies.
Generate(step) ==
  /\ gen' = Grants[Render[<<chart, cr.spec>>]]
  /\ pc' = step
  /\ Keep /\ UNCHANGED <<mg, fresh, pkg, old, new>>

\* Mutant: the roles are replaced by the generated ones.
ApplyRBACReplacing(step) ==
  /\ roles' = [roles EXCEPT ![mg.label] = gen]
  /\ pc' = step
  /\ UNCHANGED <<life, cr, chart, rel, safe, op, queue, locals, bounds>>

\* ApplyRBAC adds to the roles in place, object by object, and may stop midway.
ApplyRBAC(step) ==
  /\ UNCHANGED <<life, cr, chart, safe, op, queue, locals, edits>>
  /\ \/ /\ roles' = [roles EXCEPT ![mg.label] = @ \cup gen]
        /\ pc' = step
        /\ UNCHANGED faults
     \/ /\ Fault
        /\ \E part \in SUBSET gen : roles' = [roles EXCEPT ![mg.label] = @ \cup part]
        /\ pc' = OnError("rbac")
  /\ UNCHANGED rel

\* Helm refuses to start on a pending release, and its calls are refused when
\* the controller's service account lacks a grant for the new manifest.
Refused ==
  \/ ~(Grants[Wanted] \subseteq roles[mg.label])
  \/ rel[mg.label] # NoRelease /\ rel[mg.label].status = "pending"

\* Upgrade and Install first record a pending revision.
HelmStarts(step) ==
  /\ IF Refused
     THEN pc' = OnError(step) /\ UNCHANGED rel
     ELSE /\ rel' = [rel EXCEPT ![mg.label] =
                       [status |-> "pending", manifest |-> Wanted, chart |-> pkg]]
          /\ pc' = IF step = "install" THEN "installing" ELSE "upgrading"
  /\ UNCHANGED <<life, cr, chart, roles, safe, op, queue, locals, bounds>>

-----------------------------------------------------------------------------
(* Observe *)

\* Mutant: a stale pause time is left alone, as in Create.
ObserveSaveNameOnly ==
  /\ At("Observe", "save")
  /\ SaveMeta(SetReleaseName(mg), "package")
  /\ KeepAllButCR

\* The release name is set and a stale pause time removed, in one write.
ObserveSave ==
  /\ At("Observe", "save")
  /\ SaveMeta(RemovePausedTime(SetReleaseName(mg)), "package")
  /\ KeepAllButCR

ObservePackage == At("Observe", "package") /\ GetPackage("labels")

\* The CompositionDefinition's labels are written back.
ObserveLabels ==
  /\ At("Observe", "labels")
  /\ SaveMeta(mg, "find")
  /\ KeepAllButCR

\* No release: Create is next.  A pending one is rolled back first.
ObserveFind ==
  /\ At("Observe", "find")
  /\ IF rel[mg.label] = NoRelease
     THEN Finish({"Create"})
     ELSE /\ old' = rel[mg.label]
          /\ pc' = IF rel[mg.label].status = "pending" THEN "rollback" ELSE "generate"
          /\ UNCHANGED <<op, queue, mg, fresh, pkg, gen, new>>
  /\ UNCHANGED <<cluster, safe, bounds>>

\* Rollback is asked for the pending revision itself.
ObserveRollback ==
  /\ At("Observe", "rollback")
  /\ rel' = [rel EXCEPT ![mg.label] = [old EXCEPT !.status = "deployed"]]
  /\ old' = rel'[mg.label]
  /\ pc' = "generate"
  /\ UNCHANGED <<life, cr, chart, roles, safe, op, queue, mg, fresh, pkg, gen, new, bounds>>

ObserveGenerate == At("Observe", "generate") /\ Generate("rbac")

ObserveRBAC == At("Observe", "rbac") /\ ApplyRBAC("upgrade")

ObserveUpgrade == At("Observe", "upgrade") /\ HelmStarts("upgrade")

\* The digest the upgraded release is compared with.
PreviousDigest ==
  IF mg.status.digest = NoDigest THEN DigestOf(old) ELSE mg.status.digest

\* The upgrade changed the manifest or the chart: Update is next.  Otherwise the
\* status is brought up to date, without the list of managed resources.
ObserveReport ==
  /\ At("Observe", "report")
  /\ IF DigestOf(new) # PreviousDigest \/ old.chart # new.chart
     THEN Finish({"Update"}) /\ UNCHANGED <<cluster, safe, bounds>>
     ELSE /\ SaveStatus(SetStatus(mg.status, EmptyManifest, DigestOf(new), pkg), "return")
          /\ KeepAllButCR

\* The condition becomes Unavailable and Observe returns its error.
ObserveUnavailable ==
  /\ At("Observe", "unavailable")
  /\ SaveStatus([mg.status EXCEPT !.ready = "Unavailable"], "error")
  /\ KeepAllButCR

Observe ==
  \/ ObserveSave \/ ObservePackage \/ ObserveLabels \/ ObserveFind
  \/ ObserveRollback \/ ObserveGenerate \/ ObserveRBAC \/ ObserveUpgrade
  \/ ObserveReport \/ ObserveUnavailable

-----------------------------------------------------------------------------
(* Create *)

CreateSave ==
  /\ At("Create", "save")
  /\ SaveMeta(SetReleaseName(mg), "package")
  /\ KeepAllButCR

CreatePackage == At("Create", "package") /\ GetPackage("generate")

CreateGenerate == At("Create", "generate") /\ Generate("rbac")

CreateRBAC == At("Create", "rbac") /\ ApplyRBAC("find")

\* A release left by a failed attempt is upgraded instead of installed.
CreateFind ==
  /\ At("Create", "find")
  /\ pc' = IF rel[mg.label] = NoRelease THEN "install" ELSE "upgrade"
  /\ Keep /\ UNCHANGED locals

CreateUpgrade == At("Create", "upgrade") /\ HelmStarts("upgrade")

CreateInstall == At("Create", "install") /\ HelmStarts("install")

\* The status is written whatever the upgrade returned; new may be nil.
CreateStatus ==
  /\ At("Create", "status")
  /\ SaveStatus(SetStatus(mg.status, ObjectsOf(new), DigestOf(new), pkg), "unpause")
  /\ KeepAllButCR

CreateUnpause ==
  /\ At("Create", "unpause")
  /\ SaveMeta(RemovePausedTime(mg), "return")
  /\ KeepAllButCR

Create ==
  \/ CreateSave \/ CreatePackage \/ CreateGenerate \/ CreateRBAC \/ CreateFind
  \/ CreateUpgrade \/ CreateInstall \/ CreateStatus \/ CreateUnpause

-----------------------------------------------------------------------------
(* Update: the upgrade itself has been done by the Observe that asked for it. *)

\* Is there a release of the name on the label?  Helm rejects an empty name.
Found == mg.label # NoLabel /\ rel[mg.label] # NoRelease

UpdatePackage == At("Update", "package") /\ GetPackage("find")

UpdateFind ==
  /\ At("Update", "find")
  /\ IF Found THEN new' = rel[mg.label] /\ pc' = "status"
              ELSE pc' = "error" /\ UNCHANGED new
  /\ Keep /\ UNCHANGED <<mg, fresh, pkg, gen, old>>

\* Mutant: the digest is the one of the status the handler started with.
UpdateStatusOldDigest ==
  /\ At("Update", "status")
  /\ SaveStatus(SetStatus([mg.status EXCEPT !.managed = ObjectsOf(new)],
                          ObjectsOf(new), mg.status.digest, pkg), "pause")
  /\ KeepAllButCR

\* Unlike setStatus, Update lists the managed resources even when there are none.
UpdateStatus ==
  /\ At("Update", "status")
  /\ SaveStatus(SetStatus([mg.status EXCEPT !.managed = ObjectsOf(new)],
                          ObjectsOf(new), DigestOf(new), pkg), "pause")
  /\ KeepAllButCR

UpdatePause ==
  /\ At("Update", "pause")
  /\ SaveMeta([mg EXCEPT !.pausedTime = mg.paused], "return")
  /\ KeepAllButCR

Update == UpdatePackage \/ UpdateFind \/ UpdateStatus \/ UpdatePause

-----------------------------------------------------------------------------
(* Delete *)

DeletePackage == At("Delete", "package") /\ GetPackage("find")

\* Mutant: a failed release counts as no release.
DeleteFindDeployed ==
  /\ At("Delete", "find")
  /\ pc' = IF mg.label = NoLabel THEN "error"
           ELSE IF Found /\ rel[mg.label].status # "failed" THEN "uninstall" ELSE "finalize"
  /\ Keep /\ UNCHANGED locals

\* Mutant: the RBAC goes first, and the release with whatever is left of it.
DeleteFindRBACFirst ==
  /\ At("Delete", "find")
  /\ pc' = IF mg.label = NoLabel THEN "error"
           ELSE IF Found THEN "generate" ELSE "finalize"
  /\ Keep /\ UNCHANGED locals

\* No release: Delete returns nil at once, and the runtime ends the deletion.
DeleteFind ==
  /\ At("Delete", "find")
  /\ pc' = IF mg.label = NoLabel THEN "error"
           ELSE IF Found THEN "uninstall" ELSE "finalize"
  /\ Keep /\ UNCHANGED locals

\* Mutant: Helm keeps the history of the release it uninstalls.
DeleteUninstallKeepingHistory ==
  /\ At("Delete", "uninstall")
  /\ pc' = "confirm"
  /\ Keep /\ UNCHANGED locals

DeleteUninstall ==
  /\ At("Delete", "uninstall")
  /\ rel' = [rel EXCEPT ![mg.label] = NoRelease]
  /\ pc' = "confirm"
  /\ UNCHANGED <<life, cr, chart, roles, safe, op, queue, locals, bounds>>

DeleteConfirm ==
  /\ At("Delete", "confirm")
  /\ pc' = IF Found THEN "error" ELSE "generate"
  /\ Keep /\ UNCHANGED locals

DeleteGenerate == At("Delete", "generate") /\ Generate("rbac")

\* UninstallRBAC deletes the roles that are generated now, whatever rules they
\* have got over time, one by one; it may stop midway.
DeleteRBAC ==
  /\ At("Delete", "rbac")
  /\ LET generated == {ClusterRole} \cup {RoleOf[rule] : rule \in gen}
         Without(deleted) == {rule \in roles[mg.label] : RoleOf[rule] \notin deleted}
     IN \/ /\ roles' = [roles EXCEPT ![mg.label] = Without(generated)]
           /\ pc' = "unpause"
           /\ UNCHANGED faults
        \/ /\ Fault
           /\ \E part \in SUBSET generated :
                roles' = [roles EXCEPT ![mg.label] = Without(part)]
           /\ pc' = "error"
  /\ UNCHANGED <<life, cr, chart, rel, safe, op, queue, locals, edits>>

DeleteUnpause ==
  /\ At("Delete", "unpause")
  /\ SaveMeta(RemovePausedTime(mg), "finalize")
  /\ KeepAllButCR

Delete ==
  \/ DeletePackage \/ DeleteFind \/ DeleteUninstall \/ DeleteConfirm
  \/ DeleteGenerate \/ DeleteRBAC \/ DeleteUnpause

-----------------------------------------------------------------------------
\* The Helm operation of Observe or Create ends.  A failure leaves the revision
\* failed, or pending when its outcome could not be stored.
HelmEnds ==
  /\ pc \in {"upgrading", "installing"}
  /\ \/ /\ rel' = [rel EXCEPT ![mg.label].status = "deployed"]
        /\ new' = rel'[mg.label]
        /\ pc' = IF op = "Observe" THEN "report" ELSE "status"
        /\ UNCHANGED faults
     \/ /\ Fault
        /\ \E status \in {"failed", "pending"} :
             rel' = [rel EXCEPT ![mg.label].status = status]
        /\ pc' = OnError(pc)
        /\ UNCHANGED new
  /\ UNCHANGED <<life, cr, chart, roles, safe, op, queue, mg, fresh, pkg, gen, old, edits>>

Worker ==
  \/ BeginObserve \/ BeginQueued \/ BeginDelete
  \/ Return \/ ReturnError \/ Finalize \/ CallFails
  \/ Observe \/ Create \/ Update \/ Delete \/ HelmEnds

-----------------------------------------------------------------------------
(* The users of the cluster. *)

Edit == edits < MaxEdits /\ edits' = edits + 1

\* A user changes the composition, whose resourceVersion then moves on.
EditComposition ==
  /\ life # "gone" /\ Edit
  /\ \/ /\ \E v \in Values \ {cr.spec} : cr' = [cr EXCEPT !.spec = v]
        /\ UNCHANGED life
     \/ /\ cr' = [cr EXCEPT !.paused = ~cr.paused]
        /\ UNCHANGED life
     \/ /\ life = "present" /\ life' = "deleting"
        /\ UNCHANGED cr
  /\ fresh' = IF op = "none" THEN fresh ELSE FALSE
  /\ UNCHANGED <<chart, rel, roles, safe, worker, mg, pkg, gen, old, new, faults>>

\* The CompositionDefinition is given another chart version.
ReleaseChart ==
  /\ Edit
  /\ chart' \in Charts \ {chart}
  /\ UNCHANGED <<life, cr, rel, roles, safe, worker, locals, faults>>

\* The composition is gone and nothing is left to do.
Gone ==
  /\ life = "gone"
  /\ UNCHANGED vars

Next == Worker \/ Restart \/ EditComposition \/ ReleaseChart \/ Gone

\* The worker never stops for good; resyncs keep bringing Observe events, the
\* queue delivers every event it holds, and a Delete event comes again until the
\* composition is gone.  Nothing is assumed of users, faults and restarts.
Fairness ==
  /\ WF_vars(Worker)
  /\ SF_vars(BeginObserve) /\ SF_vars(BeginQueued) /\ SF_vars(BeginDelete)

Spec == Init /\ [][Next]_vars

FairSpec == Spec /\ Fairness

-----------------------------------------------------------------------------
(* Safety *)

\* A composition never has Helm releases under two names, and the one it has is
\* the one its label names: Observe and Create persist the label before Helm is
\* used, and SetReleaseName keeps it whatever --safe-release-name becomes.
OneRelease == \A n \in ReleaseNames : rel[n] # NoRelease => cr.label = n

\* The RBAC in place always covers the objects of the release in place: never
\* narrowed by ApplyRBAC while it is used, and removed by Delete only after the
\* release.  Otherwise Uninstall could not succeed.  (That a release only gets a
\* manifest that is covered is an assumption about Helm: Refused.)
ReleaseCovered ==
  \A n \in ReleaseNames :
    rel[n] # NoRelease => Grants[rel[n].manifest] \subseteq roles[n]

\* No write of a handler undoes what a user wrote meanwhile: handlers hold their
\* copy over many slow calls, and write it back whole.
UserFieldsKept ==
  [][Worker => cr'.spec = cr.spec /\ cr'.paused = cr.paused]_vars

\* While a composition is paused and the pause is recorded, only the user ends
\* the pause: none of the handlers that remove the pause time, started before or
\* after the user paused, removes it.
PauseHolds ==
  [][GracefullyPaused(cr) /\ cr'.paused => cr'.pausedTime]_vars

\* ... and nothing of it is touched: no release, no RBAC, no status.  Create is
\* the exception: unlike Observe it does not remove a stale pause time before it
\* works, so one that a user pauses again in its course goes on.
PausedIsQuiet ==
  [][life = "present" /\ GracefullyPaused(cr) /\ op # "Create"
       => UNCHANGED <<rel, roles>> /\ cr'.status = cr.status]_vars

\* The status a pause freezes is true: when the pause is recorded it has the
\* digest and the objects of the last revision of the release.
PauseRecordsTruth ==
  [][~cr.pausedTime /\ cr'.pausedTime =>
       /\ cr.status.digest = DigestOf(rel[cr.label])
       /\ cr.status.managed = ObjectsOf(rel[cr.label])]_vars

\* The composition goes away only when no release of it is left, unless it was
\* paused when Delete looked at it.
FinalizerLast ==
  [][life # "gone" /\ life' = "gone" =>
       GracefullyPaused(mg) \/ \A n \in ReleaseNames : rel[n] = NoRelease]_vars

-----------------------------------------------------------------------------
(* Liveness *)

\* The release and the status agree with the composition and its chart; Observe
\* may be in the course of upgrading the release to what it is already.
Synced ==
  /\ cr.label # NoLabel /\ rel[cr.label] # NoRelease
  /\ LET release == rel[cr.label]
     IN /\ release.chart = chart
        /\ release.manifest = Render[<<chart, cr.spec>>]
        /\ release.status = "deployed" \/ pc = "upgrading"
        /\ cr.status.digest = Digest(release.manifest)
        /\ cr.status.chart = chart
        /\ cr.status.ready = "Available"

\* Once users and faults stop, a composition that is not paused and not deleted
\* becomes and stays Available at the latest values and chart version, whatever
\* was interrupted or failed before (README: the live cluster matches the
\* desired state).
Converges == <>[](life = "present" /\ ~GracefullyPaused(cr) => Synced)

\* Whatever handler runs, it works on the composition, the chart and the release
\* that are there now.
Current ==
  \/ op = "none" \/ pc \in {"return", "error"}
  \/ /\ fresh
     /\ pc \in {"save", "package", "labels", "find", "generate", "rbac", "upgrade",
                "upgrading", "report", "status", "unpause", "pause"}
     /\ pc \notin {"save", "package"} => pkg = chart
     /\ op = "Observe" /\ pc \in {"generate", "rbac", "upgrade", "upgrading", "report"} =>
          old.chart = chart /\ old.manifest = rel[cr.label].manifest
     /\ pc \in {"report", "status"} => new = rel[cr.label]

Settled == life = "present" /\ Synced /\ Current

\* Nothing but an edit or a fault gets a settled composition out of sync: no
\* Observe, and no Create or Update that was queued before, undoes, narrows or
\* fails on what is there already.
SyncIsKept == [][Settled /\ UNCHANGED bounds => Settled']_vars

\* A deleted composition that got its release name goes away.
DeleteCompletes == life = "deleting" /\ cr.label # NoLabel ~> life = "gone"

\* A pause the user has ended is forgotten, so that the next one is graceful too.
UnpauseForgotten ==
  cr.pausedTime /\ ~cr.paused ~> ~cr.pausedTime \/ cr.paused \/ life = "gone"

-----------------------------------------------------------------------------
(* What the documentation says and the code does not do. *)

\* _diagrams/cdc-flow.puml: the deletion of a composition that has a release
\* uninstalls the release and then its RBAC.  Only Delete's Uninstall takes a release
\* away, and such a deletion ends (DeleteCompletes), so that what can break this is
\* a Delete that has uninstalled the release and goes no further.
RBACRemoved ==
  \A n \in ReleaseNames :
    life = "deleting" /\ rel[n] # NoRelease
      ~> roles[n] = {} \/ GracefullyPaused(cr)

\* composition.go:332: when Observe reports "up-to-date" the managed resources
\* of the digest it reports have been listed.
ManagedListed ==
  op = "none" /\ cr.status.digest # NoDigest => cr.status.managed = cr.status.digest

\* A status that says Available is about a release that is deployed.
CreatedMeansDeployed ==
  [][op = "Create" /\ cr'.status # cr.status => rel[cr.label].status = "deployed"]_vars

\* condition.go:12: the condition says that reconciliation is paused.
PauseReported ==
  life = "present" /\ GracefullyPaused(cr)
    ~> cr.status.ready = "Paused" \/ ~cr.paused \/ life # "present"

=============================================================================
