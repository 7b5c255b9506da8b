---------------------- MODULE CompositionRefinementProofs ----------------------
(***************************************************************************)
(* The handlers implement the lifecycle, and a pause keeps what it         *)
(* promises, for every set of values, charts and manifests and every       *)
(* number of edits and faults.                                             *)
(***************************************************************************)
EXTENDS CompositionRefinement, CompositionHandlerProofs

\* A handler runs on a composition that is there, Delete on one being deleted.
RunsInv ==
  /\ op = "none" <=> pc = "idle"
  /\ op # "none" => life # "gone"
  /\ op = "Delete" => life = "deleting"
  /\ pc = "finalize" => op = "Delete"

\* Rules are only in place for the release the composition's label names.
RolesInv == \A n \in ReleaseNames : roles[n] # {} => cr.label = n

\* A Helm operation under way works on the pending revision it has recorded, and
\* only a pending revision is rolled back.
PendingInv ==
  /\ pc \in {"upgrading", "installing"} => rel[mg.label].status = "pending"
  /\ pc = "rollback" => old.status = "pending"

\* A handler that did not return at once works on a copy that is not paused, and
\* Observe has removed the pause time, so that no pause of a user is graceful yet.
UnpausedInv ==
  /\ pc \notin {"idle", "return", "error", "finalize"} => ~GracefullyPaused(mg)
  /\ op = "Observe" /\ pc \notin {"save", "return", "error"} => ~cr.pausedTime

\* What a handler reports is the last revision of the release.
ReportInv ==
  /\ op = "none" => new = NoRelease
  /\ op = "Create" /\ pc \notin {"status", "unpause", "return", "error"} => new = NoRelease
  /\ op = "Observe" /\ pc = "report" => new # NoRelease
  /\ op = "Update" /\ pc \in {"status", "pause"} => new # NoRelease
  /\ pc \in {"report", "status", "pause"} /\ new # NoRelease =>
       mg.label \in ReleaseNames /\ new = rel[mg.label]

\* Update records a pause in a status that it has just written.
PauseInv ==
  pc = "pause" =>
    /\ op = "Update"
    /\ mg.status.digest = DigestOf(new) /\ mg.status.managed = ObjectsOf(new)

RInv == RunsInv /\ RolesInv /\ PendingInv /\ UnpausedInv /\ ReportInv /\ PauseInv

LInv == IInv /\ RInv

-----------------------------------------------------------------------------
(* The invariant. *)

\* A write of the composition replaces the handler's copy, or is refused.
LEMMA SaveMetaWrites ==
  ASSUME IInv, op # "none",
         NEW obj \in Composition, NEW step \in Steps, SaveMeta(obj, step)
  PROVE  \/ /\ fresh /\ mg = cr /\ mg' = cr' /\ pc' = step /\ cr' \in Composition
            /\ cr'.label = obj.label /\ cr'.paused = obj.paused
            /\ cr'.pausedTime = obj.pausedTime /\ cr'.status = cr.status
         \/ cr' = cr /\ mg' = mg /\ pc' = "error"
  BY DEF IInv, TypeOK, CopyInv, SaveMeta, Composition

LEMMA SaveStatusWrites ==
  ASSUME IInv, op # "none",
         NEW status \in Status, NEW step \in Steps, SaveStatus(status, step)
  PROVE  \/ /\ fresh /\ mg = cr /\ mg' = cr' /\ pc' = step /\ cr' \in Composition
            /\ cr'.label = cr.label /\ cr'.paused = cr.paused
            /\ cr'.pausedTime = cr.pausedTime /\ cr'.status = status
         \/ cr' = cr /\ mg' = mg /\ pc' = "error"
  BY DEF IInv, TypeOK, CopyInv, SaveStatus, Composition

\* The runtime's own steps, restarts and failing calls.
LEMMA RuntimeStepR ==
  ASSUME LInv, BeginObserve \/ BeginQueued \/ BeginDelete \/ Return \/ ReturnError
         \/ Finalize \/ Restart \/ CallFails
  PROVE  RInv'
<1> USE DEF LInv, IInv, TypeOK, CopyInv, FinalizeInv, NameInv, RInv, RunsInv, RolesInv, PendingInv,
           UnpausedInv, ReportInv, PauseInv, GracefullyPaused, cluster, locals
<1>1. CASE BeginObserve
  BY <1>1 DEF BeginObserve, Begin, FirstStep, Operations
<1>2. CASE BeginQueued
  BY <1>2 DEF BeginQueued, Begin, FirstStep, Operations
<1>3. CASE BeginDelete
  BY <1>3 DEF BeginDelete, Begin, FirstStep, Operations
<1>4. CASE Return
  BY <1>4 DEF Return, Finish, Forget
<1>5. CASE ReturnError
  BY <1>5 DEF ReturnError, Finish, Forget
<1>6. CASE Finalize
  BY <1>6 DEF Finalize, Finish, Forget
<1>7. CASE Restart
  BY <1>7 DEF Restart, Forget
<1>8. CASE CallFails
  BY <1>8 DEF CallFails, Call, OnError
<1> QED BY <1>1, <1>2, <1>3, <1>4, <1>5, <1>6, <1>7, <1>8

\* Calls that change neither the composition nor its releases and RBAC.
LEMMA QuietCallR ==
  ASSUME LInv,
         \/ ObservePackage \/ ObserveFind \/ ObserveGenerate
         \/ CreatePackage \/ CreateGenerate \/ CreateFind
         \/ UpdatePackage \/ UpdateFind
         \/ DeletePackage \/ DeleteFind \/ DeleteConfirm \/ DeleteGenerate
  PROVE  RInv'
<1> USE DEF LInv, IInv, TypeOK, CopyInv, RInv, RunsInv, RolesInv, PendingInv,
           UnpausedInv, ReportInv, PauseInv, GracefullyPaused, Keep, GetPackage, Generate,
           At, cluster, locals
<1>1. CASE ObservePackage \/ ObserveGenerate
  BY <1>1 DEF ObservePackage, ObserveGenerate
<1>2. CASE ObserveFind
  BY <1>2 DEF ObserveFind, Finish, Forget
<1>3. CASE CreatePackage \/ CreateGenerate \/ CreateFind
  BY <1>3 DEF CreatePackage, CreateGenerate, CreateFind
<1>4. CASE UpdatePackage \/ UpdateFind
  BY <1>4 DEF UpdatePackage, UpdateFind, Found, Composition
<1>5. CASE DeletePackage \/ DeleteFind \/ DeleteConfirm \/ DeleteGenerate
  BY <1>5 DEF DeletePackage, DeleteFind, DeleteConfirm, DeleteGenerate
<1> QED BY <1>1, <1>2, <1>3, <1>4, <1>5

\* Writes of the composition's metadata: what each changes, unless it is refused.
LEMMA MetadataWrites ==
  ASSUME LInv,
         \/ ObserveSave \/ ObserveLabels \/ CreateSave \/ CreateUnpause
         \/ UpdatePause \/ DeleteUnpause
  PROVE  /\ KeepAllButCR /\ op # "none" /\ pc \in {"save", "labels", "unpause", "pause"}
         /\ \/ cr' = cr /\ mg' = mg /\ pc' = "error"
            \/ /\ fresh /\ mg = cr /\ mg' = cr' /\ cr' \in Composition
               /\ cr'.status = cr.status /\ cr'.paused = cr.paused
               /\ cr.label # NoLabel => cr'.label = cr.label
               /\ \/ op = "Observe" /\ pc = "save" /\ pc' = "package" /\ ~cr'.pausedTime
                  \/ /\ op = "Create" /\ pc = "save" /\ pc' = "package"
                     /\ cr'.pausedTime = cr.pausedTime
                  \/ /\ op = "Observe" /\ pc = "labels" /\ pc' = "find"
                     /\ cr'.pausedTime = cr.pausedTime
                  \/ op = "Create" /\ pc = "unpause" /\ pc' = "return" /\ ~cr'.pausedTime
                  \/ /\ op = "Update" /\ pc = "pause" /\ pc' = "return"
                     /\ cr'.pausedTime = cr.paused
                  \/ op = "Delete" /\ pc = "unpause" /\ pc' = "finalize" /\ ~cr'.pausedTime
<1>1. mg \in Composition /\ mg.paused \in BOOLEAN /\ safe \in BOOLEAN /\ IInv
      /\ NoLabel \notin ReleaseNames
  BY HandlerAssumption DEF LInv, IInv, TypeOK, Composition
<1>2. CASE ObserveSave
  <2> DEFINE obj == RemovePausedTime(SetReleaseName(mg))
  <2>1. /\ obj \in Composition /\ ~obj.pausedTime /\ obj.paused = mg.paused
        /\ mg.label # NoLabel => obj.label = mg.label
    <3>1. /\ SetReleaseName(mg) \in Composition /\ SetReleaseName(mg).paused = mg.paused
          /\ mg.label # NoLabel => SetReleaseName(mg).label = mg.label
      BY <1>1, ReleaseNameKept
    <3> QED BY <3>1 DEF RemovePausedTime, Composition
  <2>2. SaveMeta(obj, "package") /\ op = "Observe" /\ pc = "save" /\ KeepAllButCR
    BY <1>2 DEF ObserveSave, At
  <2> HIDE DEF obj
  <2> QED BY <1>1, <2>1, <2>2, SaveMetaWrites DEF Steps
<1>3. CASE CreateSave
  <2> DEFINE obj == SetReleaseName(mg)
  <2>1. /\ obj \in Composition /\ obj.pausedTime = mg.pausedTime /\ obj.paused = mg.paused
        /\ mg.label # NoLabel => obj.label = mg.label
    BY <1>1, ReleaseNameKept DEF SetReleaseName, Composition
  <2>2. SaveMeta(obj, "package") /\ op = "Create" /\ pc = "save" /\ KeepAllButCR
    BY <1>3 DEF CreateSave, At
  <2> HIDE DEF obj
  <2> QED BY <1>1, <2>1, <2>2, SaveMetaWrites DEF Steps
<1>4. CASE ObserveLabels
  BY <1>1, <1>4, SaveMetaWrites DEF ObserveLabels, At, Steps
<1>5. CASE CreateUnpause \/ DeleteUnpause
  <2> DEFINE obj == RemovePausedTime(mg)
  <2>1. /\ obj \in Composition /\ ~obj.pausedTime /\ obj.paused = mg.paused
        /\ obj.label = mg.label
    BY <1>1 DEF RemovePausedTime, Composition
  <2>2. /\ KeepAllButCR /\ pc = "unpause"
        /\ \/ SaveMeta(obj, "return") /\ op = "Create"
           \/ SaveMeta(obj, "finalize") /\ op = "Delete"
    BY <1>5 DEF CreateUnpause, DeleteUnpause, At
  <2> HIDE DEF obj
  <2> QED BY <1>1, <2>1, <2>2, SaveMetaWrites DEF Steps
<1>6. CASE UpdatePause
  <2> DEFINE obj == [mg EXCEPT !.pausedTime = mg.paused]
  <2>1. /\ obj \in Composition /\ obj.pausedTime = mg.paused /\ obj.paused = mg.paused
        /\ obj.label = mg.label
    BY <1>1 DEF Composition
  <2>2. SaveMeta(obj, "return") /\ op = "Update" /\ pc = "pause" /\ KeepAllButCR
    BY <1>6 DEF UpdatePause, At
  <2> HIDE DEF obj
  <2> QED BY <1>1, <2>1, <2>2, SaveMetaWrites DEF Steps
<1> QED BY <1>2, <1>3, <1>4, <1>5, <1>6

\* Writes of the composition's status, by the handlers that report a release.
LEMMA StatusWrites ==
  ASSUME LInv,
         \/ ObserveReport /\ pc' # "idle"
         \/ ObserveUnavailable \/ CreateStatus \/ UpdateStatus
  PROVE  /\ KeepAllButCR /\ op # "none"
         /\ pc \in {"report", "unavailable", "status"}
         /\ op = "Create" => pc = "status"
         /\ op = "Update" => pc = "status"
         /\ \/ cr' = cr /\ mg' = mg /\ pc' = "error"
            \/ /\ fresh /\ mg = cr /\ mg' = cr' /\ cr' \in Composition
               /\ cr'.label = cr.label /\ cr'.paused = cr.paused
               /\ cr'.pausedTime = cr.pausedTime
               /\ \/ op = "Observe" /\ pc = "unavailable" /\ pc' = "error"
                     /\ cr'.status.digest = cr.status.digest
                  \/ op = "Observe" /\ pc = "report" /\ pc' = "return"
                     /\ cr'.status.digest = DigestOf(new)
                  \/ op = "Create" /\ pc' = "unpause" /\ cr'.status.digest = DigestOf(new)
                  \/ op = "Update" /\ pc' = "pause" /\ cr'.status.digest = DigestOf(new)
                     /\ cr'.status.managed = ObjectsOf(new)
<1>1. /\ mg \in Composition /\ mg.status \in Status /\ pkg \in Charts /\ IInv
      /\ ObjectsOf(new) \in Manifests /\ DigestOf(new) \in Manifests \cup {NoDigest}
      /\ EmptyManifest \in Manifests
  BY ReportTypes, HandlerAssumption DEF LInv, IInv, TypeOK, Composition
<1>2. CASE ObserveReport /\ pc' # "idle"
  <2> DEFINE status == SetStatus(mg.status, EmptyManifest, DigestOf(new), pkg)
  <2>1. status \in Status /\ status.digest = DigestOf(new)
    BY <1>1, SetStatusType DEF SetStatus
  <2>2. SaveStatus(status, "return") /\ op = "Observe" /\ pc = "report" /\ KeepAllButCR
    BY <1>2 DEF ObserveReport, At, Finish
  <2> HIDE DEF status
  <2> QED BY <1>1, <2>1, <2>2, SaveStatusWrites DEF Steps
<1>3. CASE ObserveUnavailable
  <2> DEFINE status == [mg.status EXCEPT !.ready = "Unavailable"]
  <2>1. status \in Status /\ status.digest = mg.status.digest
    BY <1>1 DEF Status
  <2>2. SaveStatus(status, "error") /\ op = "Observe" /\ pc = "unavailable" /\ KeepAllButCR
    BY <1>3 DEF ObserveUnavailable, At
  <2> HIDE DEF status
  <2> QED BY <1>1, <2>1, <2>2, SaveStatusWrites DEF Steps
<1>4. CASE CreateStatus
  <2> DEFINE status == SetStatus(mg.status, ObjectsOf(new), DigestOf(new), pkg)
  <2>1. status \in Status /\ status.digest = DigestOf(new)
    BY <1>1, SetStatusType DEF SetStatus
  <2>2. SaveStatus(status, "unpause") /\ op = "Create" /\ pc = "status" /\ KeepAllButCR
    BY <1>4 DEF CreateStatus, At
  <2> HIDE DEF status
  <2> QED BY <1>1, <2>1, <2>2, SaveStatusWrites DEF Steps
<1>5. CASE UpdateStatus
  <2> DEFINE listed == [mg.status EXCEPT !.managed = ObjectsOf(new)]
             status == SetStatus(listed, ObjectsOf(new), DigestOf(new), pkg)
  <2>1. listed \in Status /\ listed.managed = ObjectsOf(new)
    BY <1>1 DEF Status
  <2>2. /\ status \in Status /\ status.digest = DigestOf(new)
        /\ status.managed = ObjectsOf(new)
    BY <1>1, <2>1, SetStatusType DEF SetStatus
  <2>3. SaveStatus(status, "pause") /\ op = "Update" /\ pc = "status" /\ KeepAllButCR
    BY <1>5 DEF UpdateStatus, At
  <2> HIDE DEF status
  <2> QED BY <1>1, <2>2, <2>3, SaveStatusWrites DEF Steps
<1> QED BY <1>2, <1>3, <1>4, <1>5

LEMMA MetadataR ==
  ASSUME LInv,
         \/ ObserveSave \/ ObserveLabels \/ CreateSave \/ CreateUnpause
         \/ UpdatePause \/ DeleteUnpause
  PROVE  RInv'
<1>1. RunsInv' /\ PendingInv' /\ UnpausedInv' /\ ReportInv' /\ PauseInv'
  BY MetadataWrites
  DEF LInv, RInv, RunsInv, PendingInv, UnpausedInv, ReportInv, PauseInv, KeepAllButCR,
      GracefullyPaused
<1>2. RolesInv'
  BY MetadataWrites, HandlerAssumption DEF LInv, RInv, RolesInv, KeepAllButCR
<1> QED BY <1>1, <1>2 DEF RInv

LEMMA StatusR ==
  ASSUME LInv,
         \/ ObserveReport \/ ObserveUnavailable \/ CreateStatus \/ UpdateStatus
  PROVE  RInv'
<1> USE DEF LInv, RInv, RunsInv, RolesInv, PendingInv, UnpausedInv, ReportInv, PauseInv,
           GracefullyPaused
<1>1. CASE ObserveReport /\ pc' = "idle"
  <2>1. Finish({"Update"}) /\ UNCHANGED <<cluster, safe, bounds>>
    BY <1>1 DEF ObserveReport, SaveStatus
  <2> QED BY <2>1 DEF Finish, Forget, cluster
<1>2. CASE ~(ObserveReport /\ pc' = "idle")
  <2>1. RunsInv' /\ RolesInv' /\ PendingInv' /\ UnpausedInv' /\ ReportInv'
    BY <1>2, StatusWrites DEF KeepAllButCR
  <2>2. PauseInv'
    BY <1>2, StatusWrites DEF KeepAllButCR, DigestOf, ObjectsOf
  <2> QED BY <2>1, <2>2
<1> QED BY <1>1, <1>2

\* Changes of the release.
LEMMA ReleaseR ==
  ASSUME LInv,
         \/ ObserveRollback \/ ObserveUpgrade \/ CreateUpgrade \/ CreateInstall
         \/ DeleteUninstall \/ HelmEnds
  PROVE  RInv'
<1> USE DEF LInv, IInv, TypeOK, CopyInv, NameInv, HelmInv, RollbackInv, DeleteInv,
           RInv, RunsInv, RolesInv, PendingInv,
           UnpausedInv, ReportInv, PauseInv, GracefullyPaused, locals, At
<1>1. CASE ObserveRollback \/ DeleteUninstall
  BY <1>1 DEF ObserveRollback, DeleteUninstall
<1>2. CASE ObserveUpgrade \/ CreateUpgrade \/ CreateInstall
  BY <1>2 DEF ObserveUpgrade, CreateUpgrade, CreateInstall, HelmStarts, OnError
<1>3. CASE HelmEnds
  <2>1. mg.label \in ReleaseNames /\ rel[mg.label] \in Release /\ NoRelease \notin Release
    BY <1>3, NoReleaseAssumption DEF HelmEnds
  <2>2. [rel[mg.label] EXCEPT !.status = "deployed"] \in Release
    BY <2>1 DEF Release
  <2>3. op \in {"Observe", "Create"} /\ UNCHANGED <<life, cr, chart, roles, safe, op, mg, old>>
    BY <1>3 DEF HelmEnds
  <2>4. \/ pc' = (IF op = "Observe" THEN "report" ELSE "status")
           /\ new' = rel'[mg.label] /\ new' # NoRelease
        \/ pc' \in {"unavailable", "error"} /\ new' = new
        \/ pc' = "status" /\ op = "Create" /\ new' = new
    BY <1>3, <2>1, <2>2 DEF HelmEnds, OnError
  <2>5. op = "Create" => new = NoRelease
    BY <1>3 DEF HelmEnds
  <2> QED BY <1>3, <2>1, <2>3, <2>4, <2>5 DEF HelmEnds
<1> QED BY <1>1, <1>2, <1>3

\* Changes of the RBAC.
LEMMA RBACR ==
  ASSUME LInv, ObserveRBAC \/ CreateRBAC \/ DeleteRBAC
  PROVE  RInv'
<1> USE DEF LInv, IInv, TypeOK, CopyInv, NameInv, DeleteInv, RInv, RunsInv, RolesInv,
           PendingInv, UnpausedInv, ReportInv, PauseInv, GracefullyPaused, locals, At
<1>1. CASE ObserveRBAC \/ CreateRBAC
  BY <1>1 DEF ObserveRBAC, CreateRBAC, ApplyRBAC, OnError
<1>2. CASE DeleteRBAC
  BY <1>2 DEF DeleteRBAC
<1> QED BY <1>1, <1>2

\* The steps of the users.
LEMMA UserStepR ==
  ASSUME LInv, EditComposition \/ ReleaseChart
  PROVE  RInv'
<1> USE DEF LInv, IInv, TypeOK, RInv, RunsInv, RolesInv, PendingInv, UnpausedInv,
           ReportInv, PauseInv, GracefullyPaused, worker, locals
<1>1. CASE EditComposition
  <2>1. cr'.label = cr.label /\ cr'.pausedTime = cr.pausedTime
    BY <1>1 DEF EditComposition, Composition
  <2> QED BY <1>1, <2>1 DEF EditComposition
<1>2. CASE ReleaseChart
  BY <1>2 DEF ReleaseChart
<1> QED BY <1>1, <1>2

\* The stronger invariant holds in every state of every behaviour.
THEOREM LInvariance == Spec => []LInv
<1>1. Init => RInv
  BY DEF Init, RInv, RunsInv, RolesInv, PendingInv, UnpausedInv, ReportInv, PauseInv
<1>2. IInv /\ RInv /\ [Next]_vars => RInv'
  <2> SUFFICES ASSUME LInv, [Next]_vars PROVE RInv'
    BY DEF LInv
  <2>1. CASE UNCHANGED vars
    BY <2>1 DEF vars, cluster, worker, locals, LInv, RInv, RunsInv, RolesInv,
       PendingInv, UnpausedInv, ReportInv, PauseInv, GracefullyPaused
  <2>2. CASE Worker \/ Restart
    BY <2>2, RuntimeStepR, QuietCallR, MetadataR, StatusR, ReleaseR, RBACR
    DEF Worker, Observe, Create, Update, Delete
  <2>3. CASE EditComposition \/ ReleaseChart
    BY <2>3, UserStepR
  <2> QED BY <2>1, <2>2, <2>3 DEF Next, Gone
<1> QED BY <1>1, <1>2, Invariance, PTL DEF Spec, LInv

-----------------------------------------------------------------------------
(* The refinement. *)

\* What a step does to the lifecycle is a step of it, or nothing.
LifecycleStep == [Lifecycle!Next]_Lifecycle!vars

\* The view of the lifecycle depends on these alone.
LEMMA SameView ==
  ASSUME UNCHANGED <<rel, roles>>,
         cr'.label = cr.label, cr'.status.digest = cr.status.digest
  PROVE  UNCHANGED <<LastRevision, Granted, cr.status.digest>>
  BY DEF LastRevision, Granted, Labelled

\* Nothing the lifecycle knows changes, but that a Create may have ended.
LEMMA QuietMaps ==
  ASSUME UNCHANGED <<life, rel, roles, Frozen, Spared>>,
         cr'.label = cr.label, cr'.status.digest = cr.status.digest,
         UNCHANGED Creating \/ Creating' = FALSE
  PROVE  LifecycleStep
<1>1. UNCHANGED <<LastRevision, Granted, cr.status.digest>>
  BY SameView
<1>2. CASE UNCHANGED Creating
  BY <1>1, <1>2 DEF LifecycleStep, Lifecycle!vars
<1>3. CASE Creating' = FALSE
  BY <1>1, <1>3 DEF LifecycleStep, Lifecycle!Next, Lifecycle!EndCreate
<1> QED BY <1>2, <1>3

\* The controller may work on the composition while a handler does.
LEMMA ActiveNow ==
  ASSUME LInv, op # "none", pc \notin {"save", "return", "error", "finalize"},
         op = "Update" => fresh
  PROVE  Lifecycle!Active
  BY DEF LInv, IInv, TypeOK, CopyInv, RInv, RunsInv, UnpausedInv, Lifecycle!Active,
         Frozen, Creating, GracefullyPaused, Operations

\* The runtime's own steps, restarts and failing calls.
LEMMA RuntimeMaps ==
  ASSUME LInv, BeginObserve \/ BeginQueued \/ BeginDelete \/ Return \/ ReturnError
         \/ Finalize \/ Restart \/ CallFails
  PROVE  LifecycleStep
<1> USE DEF LInv, IInv, RInv, RunsInv, Frozen, Creating, Spared, GracefullyPaused, cluster
<1>1. CASE BeginObserve
  BY <1>1, QuietMaps DEF BeginObserve, Begin, FirstStep
<1>2. CASE BeginQueued
  <2>1. /\ UNCHANGED <<cluster, Frozen, Spared>> /\ life # "gone"
        /\ \/ UNCHANGED Creating
           \/ ~Frozen /\ Creating' = TRUE
    BY <1>2 DEF BeginQueued, Begin, FirstStep, TypeOK
  <2>2. UNCHANGED <<LastRevision, Granted, cr.status.digest>>
    BY <2>1, SameView
  <2>3. CASE UNCHANGED Creating
    BY <2>1, <2>3, QuietMaps
  <2>4. CASE ~Frozen /\ Creating' = TRUE
    <3>1. Lifecycle!BeginCreate
      BY <2>1, <2>2, <2>4 DEF Lifecycle!BeginCreate
    <3> QED BY <3>1 DEF LifecycleStep, Lifecycle!Next
  <2> QED BY <2>1, <2>3, <2>4
<1>3. ASSUME UNCHANGED <<life, rel, roles, cr, Creating>>, life = "deleting",
             Spared' = ~Spared, Frozen \/ Spared
      PROVE  LifecycleStep
  <2>1. UNCHANGED <<LastRevision, Granted, cr.status.digest, Frozen>>
    BY <1>3, SameView
  <2>2. Lifecycle!Spare
    BY <1>3, <2>1 DEF Lifecycle!Spare
  <2> QED BY <2>2 DEF LifecycleStep, Lifecycle!Next
<1>4. CASE BeginDelete
  <2>1. /\ UNCHANGED <<cluster, Creating>> /\ life = "deleting" /\ Spared = FALSE
        /\ Spared' = Frozen
    BY <1>4 DEF BeginDelete, Begin, FirstStep
  <2>2. CASE Frozen
    BY <1>3, <2>1, <2>2
  <2>3. CASE ~Frozen
    BY <2>1, <2>3, QuietMaps
  <2> QED BY <2>2, <2>3
<1>5. CASE Return \/ ReturnError
  BY <1>5, QuietMaps DEF Return, ReturnError, Finish
<1>6. CASE Finalize
  <2>1. /\ life = "deleting" /\ life' = "gone" /\ UNCHANGED <<cr, rel, roles>>
        /\ Spared' = FALSE /\ UNCHANGED Creating /\ (Spared \/ NoReleases)
    BY <1>6 DEF Finalize, Finish, FinalizeInv
  <2>2. NoReleases => LastRevision = NoRelease
    BY DEF NoReleases, LastRevision, Labelled, TypeOK, Composition
  <2>3. Lifecycle!Remove
    BY <2>1, <2>2, SameView DEF Lifecycle!Remove
  <2> QED BY <2>3 DEF LifecycleStep, Lifecycle!Next
<1>7. CASE Restart \/ CallFails
  <2>1. /\ UNCHANGED <<life, rel, roles, cr>>
        /\ UNCHANGED Creating \/ Creating' = FALSE
        /\ UNCHANGED Spared \/ Spared' = FALSE
    BY <1>7 DEF Restart, CallFails, Call, OnError, locals
  <2>2. CASE UNCHANGED Spared
    BY <2>1, <2>2, QuietMaps
  <2>3. CASE Spared /\ Spared' = FALSE
    <3>1. UNCHANGED Creating /\ life = "deleting"
      BY <2>1, <2>3
    <3> QED BY <1>3, <2>1, <2>3, <3>1
  <2> QED BY <2>1, <2>2, <2>3
<1> QED BY <1>1, <1>2, <1>4, <1>5, <1>6, <1>7

\* Calls that change neither the composition nor its releases and RBAC.
LEMMA QuietCallMaps ==
  ASSUME LInv,
         \/ ObservePackage \/ ObserveFind \/ ObserveGenerate
         \/ CreatePackage \/ CreateGenerate \/ CreateFind
         \/ UpdatePackage \/ UpdateFind
         \/ DeletePackage \/ DeleteFind \/ DeleteConfirm \/ DeleteGenerate
  PROVE  LifecycleStep
<1>1. /\ UNCHANGED <<life, rel, roles, cr, Frozen, Spared>>
      /\ UNCHANGED Creating \/ Creating' = FALSE
  <2> USE DEF LInv, RInv, UnpausedInv, Frozen, Creating, Spared, GracefullyPaused,
             Keep, GetPackage, Generate, At, cluster, locals
  <2>1. CASE ObservePackage \/ ObserveGenerate \/ ObserveFind
    BY <2>1 DEF ObservePackage, ObserveGenerate, ObserveFind, Finish
  <2>2. CASE CreatePackage \/ CreateGenerate \/ CreateFind
    BY <2>2 DEF CreatePackage, CreateGenerate, CreateFind
  <2>3. CASE UpdatePackage \/ UpdateFind
    BY <2>3 DEF UpdatePackage, UpdateFind
  <2>4. CASE DeletePackage \/ DeleteFind \/ DeleteConfirm \/ DeleteGenerate
    BY <2>4 DEF DeletePackage, DeleteFind, DeleteConfirm, DeleteGenerate
  <2> QED BY <2>1, <2>2, <2>3, <2>4
<1> QED BY <1>1, QuietMaps

\* Changes of the RBAC.
LEMMA RBACMaps ==
  ASSUME LInv, ObserveRBAC \/ CreateRBAC \/ DeleteRBAC
  PROVE  LifecycleStep
<1> USE DEF LInv, IInv, TypeOK, CopyInv, NameInv, DeleteInv, RInv, RunsInv, At, locals
<1>1. /\ mg.label = cr.label /\ mg.label \in ReleaseNames /\ mg.label # NoLabel
      /\ UNCHANGED <<life, rel, cr, mg, op>>
      /\ roles' \in [ReleaseNames -> SUBSET Scopes]
      /\ pc = "rbac" /\ pc' \notin {"finalize", "return"}
  <2>1. CASE ObserveRBAC \/ CreateRBAC
    BY <2>1, HandlerAssumption, ApplyRBACKeeps
    DEF ObserveRBAC, CreateRBAC, ApplyRBAC, OnError, Steps
  <2>2. CASE DeleteRBAC
    BY <2>2, HandlerAssumption DEF DeleteRBAC
  <2> QED BY <2>1, <2>2
<1>2. UNCHANGED <<LastRevision, Frozen, Creating, Spared, cr.status.digest>>
  BY <1>1 DEF LastRevision, Labelled, Frozen, Creating, Spared, GracefullyPaused
<1>3. Granted = roles[mg.label] /\ Granted' = roles'[mg.label] /\ Granted' \in SUBSET Scopes
  BY <1>1 DEF Granted, Labelled
<1>4. CASE ObserveRBAC \/ CreateRBAC
  <2>1. Granted \subseteq Granted'
    BY <1>1, <1>3, <1>4 DEF ObserveRBAC, CreateRBAC, ApplyRBAC
  <2>2. Lifecycle!Active
    BY <1>4, ActiveNow DEF ObserveRBAC, CreateRBAC
  <2>3. Lifecycle!Grant
    BY <1>1, <1>2, <1>3, <2>1, <2>2 DEF Lifecycle!Grant
  <2> QED BY <2>3 DEF LifecycleStep, Lifecycle!Next
<1>5. CASE DeleteRBAC
  <2>1. life = "deleting" /\ LastRevision = NoRelease
    BY <1>1, <1>5 DEF DeleteRBAC, NoReleases, LastRevision, Labelled
  <2>2. Granted' \subseteq Granted
    BY <1>1, <1>3, <1>5 DEF DeleteRBAC
  <2>3. Lifecycle!Revoke
    BY <1>1, <1>2, <1>3, <2>1, <2>2 DEF Lifecycle!Revoke
  <2> QED BY <2>3 DEF LifecycleStep, Lifecycle!Next
<1> QED BY <1>4, <1>5

\* Changes of the release.
LEMMA ReleaseMaps ==
  ASSUME LInv,
         \/ ObserveRollback \/ ObserveUpgrade \/ CreateUpgrade \/ CreateInstall
         \/ DeleteUninstall \/ HelmEnds
  PROVE  LifecycleStep
<1> USE DEF LInv, IInv, TypeOK, CopyInv, NameInv, HelmInv, RollbackInv, DeleteInv,
           RInv, RunsInv, At, locals
<1>1. /\ mg.label = cr.label /\ mg.label \in ReleaseNames /\ mg.label # NoLabel
      /\ UNCHANGED <<life, roles, cr, mg, op>>
      /\ pc # "return" /\ pc # "finalize" /\ pc' \notin {"finalize", "return"}
  <2>1. CASE ObserveRollback \/ DeleteUninstall
    BY <2>1, HandlerAssumption DEF ObserveRollback, DeleteUninstall
  <2>2. CASE ObserveUpgrade \/ CreateUpgrade \/ CreateInstall
    BY <2>2, HandlerAssumption
    DEF ObserveUpgrade, CreateUpgrade, CreateInstall, HelmStarts, OnError
  <2>3. CASE HelmEnds
    BY <2>3, HandlerAssumption DEF HelmEnds, OnError
  <2> QED BY <2>1, <2>2, <2>3
<1>2. UNCHANGED <<Granted, Frozen, Creating, Spared, cr.status.digest>>
  BY <1>1 DEF Granted, Labelled, Frozen, Creating, Spared, GracefullyPaused
<1>3. LastRevision = IF rel[mg.label] = NoRelease THEN NoRelease
                     ELSE [status |-> rel[mg.label].status,
                           manifest |-> rel[mg.label].manifest]
  BY <1>1 DEF LastRevision, Labelled
<1>4. LastRevision' = IF rel'[mg.label] = NoRelease THEN NoRelease
                      ELSE [status |-> rel'[mg.label].status,
                            manifest |-> rel'[mg.label].manifest]
  BY <1>1 DEF LastRevision, Labelled
<1>5. ASSUME rel' = rel
      PROVE  LifecycleStep
  BY <1>1, <1>2, <1>5, QuietMaps
<1>6. ASSUME Lifecycle!Active, NEW status \in {"deployed", "failed"},
             rel[mg.label] \in Release, rel[mg.label].status = "pending",
             rel' = [rel EXCEPT ![mg.label] = [rel[mg.label] EXCEPT !.status = status]]
      PROVE  LifecycleStep
  <2> DEFINE before == rel[mg.label]  after == [before EXCEPT !.status = status]
  <2>1. after \in Release /\ after.status = status /\ after.manifest = before.manifest
    BY <1>6 DEF Release
  <2>2. rel'[mg.label] = after /\ NoRelease \notin Release
    BY <1>1, <1>6, NoReleaseAssumption
  <2>3. /\ LastRevision = [status |-> "pending", manifest |-> before.manifest]
        /\ LastRevision' = [status |-> status, manifest |-> before.manifest]
    BY <1>3, <1>4, <1>6, <2>1, <2>2
  <2>4. LastRevision # NoRelease
    BY <1>6, <2>3, NoRevisionAssumption DEF Release, Lifecycle!Revision
  <2>5. Lifecycle!Settle
    BY <1>1, <1>2, <1>6, <2>3, <2>4 DEF Lifecycle!Settle
  <2> QED BY <2>5 DEF LifecycleStep, Lifecycle!Next
<1>7. CASE ObserveRollback
  <2>1. Lifecycle!Active
    BY <1>7, ActiveNow DEF ObserveRollback
  <2> QED BY <1>6, <1>7, <2>1 DEF ObserveRollback, PendingInv
<1>8. CASE ObserveUpgrade \/ CreateUpgrade \/ CreateInstall
  <2>1. CASE Refused
    BY <1>5, <1>8, <2>1 DEF ObserveUpgrade, CreateUpgrade, CreateInstall, HelmStarts
  <2>2. CASE ~Refused
    <3> DEFINE revision == [status |-> "pending", manifest |-> Wanted, chart |-> pkg]
    <3>1. Wanted \in Manifests /\ revision \in Release /\ NoRelease \notin Release
      BY RenderTypes, NoReleaseAssumption DEF Wanted, Release, Composition
    <3>2. rel' = [rel EXCEPT ![mg.label] = revision]
      BY <1>8, <2>2 DEF ObserveUpgrade, CreateUpgrade, CreateInstall, HelmStarts
    <3>3. LastRevision' = [status |-> "pending", manifest |-> Wanted]
      BY <1>1, <1>4, <3>1, <3>2
    <3>4. Grants[Wanted] \subseteq Granted
      BY <1>1, <2>2 DEF Refused, Granted, Labelled
    <3>5. LastRevision # NoRelease => LastRevision.status # "pending"
      BY <1>3, <2>2 DEF Refused
    <3>6. Lifecycle!Active
      BY <1>8, ActiveNow DEF ObserveUpgrade, CreateUpgrade, CreateInstall
    <3>7. Lifecycle!Deploy
      BY <1>1, <1>2, <3>1, <3>3, <3>4, <3>5, <3>6 DEF Lifecycle!Deploy
    <3> QED BY <3>7 DEF LifecycleStep, Lifecycle!Next
  <2> QED BY <2>1, <2>2
<1>9. CASE DeleteUninstall
  <2>1. life = "deleting" /\ LastRevision' = NoRelease
    BY <1>1, <1>4, <1>9 DEF DeleteUninstall
  <2>2. Lifecycle!Uninstall
    BY <1>1, <1>2, <2>1 DEF Lifecycle!Uninstall
  <2> QED BY <2>2 DEF LifecycleStep, Lifecycle!Next
<1>10. CASE HelmEnds
  <2>1. Lifecycle!Active
    BY <1>10, ActiveNow DEF HelmEnds
  <2>2. PICK status \in {"deployed", "failed", "pending"} :
          rel' = [rel EXCEPT ![mg.label] = [rel[mg.label] EXCEPT !.status = status]]
    BY <1>10 DEF HelmEnds
  <2>3. rel[mg.label] \in Release /\ rel[mg.label].status = "pending"
    BY <1>10 DEF HelmEnds, PendingInv
  <2>4. CASE status = "pending"
    <3>1. [rel[mg.label] EXCEPT !.status = status] = rel[mg.label]
      BY <2>3, <2>4 DEF Release
    <3> QED BY <1>5, <2>2, <3>1
  <2>5. CASE status \in {"deployed", "failed"}
    BY <1>6, <2>1, <2>2, <2>3, <2>5
  <2> QED BY <2>4, <2>5
<1> QED BY <1>7, <1>8, <1>9, <1>10

\* Writes of the composition's metadata.
LEMMA MetadataMaps ==
  ASSUME LInv,
         \/ ObserveSave \/ ObserveLabels \/ CreateSave \/ CreateUnpause
         \/ UpdatePause \/ DeleteUnpause
  PROVE  LifecycleStep
<1>1. /\ UNCHANGED <<life, rel, roles, op>> /\ pc \notin {"return", "finalize", "error"}
      /\ cr'.status = cr.status
      /\ Spared = FALSE /\ Spared' = FALSE
      /\ UNCHANGED Creating \/ Creating' = FALSE
  BY MetadataWrites DEF KeepAllButCR, Spared, Creating, LInv, RInv, UnpausedInv,
     GracefullyPaused
<1>2. UNCHANGED <<LastRevision, Granted, cr.status.digest>>
  <2>1. CASE cr.label # NoLabel
    BY <1>1, <2>1, MetadataWrites DEF LastRevision, Granted, Labelled
  <2>2. CASE cr.label = NoLabel
    <3>1. \A n \in ReleaseNames : rel[n] = NoRelease /\ roles[n] = {}
      BY <2>2, HandlerAssumption DEF LInv, IInv, OneRelease, RInv, RolesInv
    <3>2. cr'.label \in ReleaseNames \cup {NoLabel}
      BY MetadataWrites DEF LInv, IInv, TypeOK, Composition
    <3> QED BY <1>1, <2>2, <3>1, <3>2 DEF LastRevision, Granted, Labelled
  <2> QED BY <2>1, <2>2
<1>3. CASE UNCHANGED Frozen
  <2>1. CASE UNCHANGED Creating
    BY <1>1, <1>2, <1>3, <2>1 DEF LifecycleStep, Lifecycle!vars
  <2>2. CASE Creating' = FALSE
    BY <1>1, <1>2, <1>3, <2>2 DEF LifecycleStep, Lifecycle!Next, Lifecycle!EndCreate
  <2> QED BY <1>1, <2>1, <2>2
<1>4. CASE ~UNCHANGED Frozen
  <2>1. Frozen' = ~Frozen /\ UNCHANGED Creating
    <3>1. op = "Update"
      BY <1>1, <1>4, MetadataWrites
      DEF LInv, RInv, UnpausedInv, Frozen, GracefullyPaused
    <3>2. Frozen \in BOOLEAN /\ Frozen' \in BOOLEAN
      BY MetadataWrites DEF Frozen, GracefullyPaused, LInv, IInv, TypeOK, Composition
    <3> QED BY <1>1, <1>4, <3>1, <3>2 DEF Creating
  <2>2. Lifecycle!Pause
    BY <1>1, <1>2, <2>1 DEF Lifecycle!Pause
  <2> QED BY <2>2 DEF LifecycleStep, Lifecycle!Next
<1> QED BY <1>3, <1>4

\* Writes of the composition's status.
LEMMA StatusMaps ==
  ASSUME LInv,
         \/ ObserveReport \/ ObserveUnavailable \/ CreateStatus \/ UpdateStatus
  PROVE  LifecycleStep
<1>1. CASE ObserveReport /\ pc' = "idle"
  <2>1. Finish({"Update"}) /\ UNCHANGED cluster /\ pc = "report" /\ op = "Observe"
    BY <1>1 DEF ObserveReport, SaveStatus, At
  <2> QED BY <2>1, QuietMaps
          DEF Finish, cluster, Frozen, Creating, Spared, GracefullyPaused
<1>2. CASE ~(ObserveReport /\ pc' = "idle")
  <2> DEFINE Writes ==
        /\ KeepAllButCR /\ op # "none" /\ pc \in {"report", "unavailable", "status"}
        /\ op = "Create" => pc = "status"
        /\ op = "Update" => pc = "status"
  <2>1. Writes /\ UNCHANGED <<life, rel, roles, op>> /\ cr'.label = cr.label
        /\ UNCHANGED <<Frozen, Creating, Spared>>
    BY <1>2, StatusWrites DEF KeepAllButCR, Frozen, GracefullyPaused, Creating, Spared
  <2>2. UNCHANGED <<LastRevision, Granted>>
    BY <2>1 DEF LastRevision, Granted, Labelled
  <2>3. CASE cr'.status.digest = cr.status.digest
    BY <2>1, <2>3, QuietMaps
  <2>4. CASE cr'.status.digest # cr.status.digest
    <3>1. /\ mg = cr /\ fresh /\ cr'.status.digest = DigestOf(new)
          /\ \/ op = "Observe" /\ pc = "report"
             \/ op \in {"Create", "Update"} /\ pc = "status"
      BY <1>2, <2>4, StatusWrites
    <3>2. Lifecycle!Active
      BY <3>1, <2>1, ActiveNow
    <3>3. CASE new = NoRelease
      <4>1. Creating /\ cr'.status.digest = NoDigest
        BY <3>1, <3>3 DEF LInv, RInv, ReportInv, Creating, DigestOf
      <4>2. Lifecycle!Report
        BY <2>1, <2>2, <3>2, <4>1 DEF Lifecycle!Report
      <4> QED BY <4>2 DEF LifecycleStep, Lifecycle!Next
    <3>4. CASE new # NoRelease
      <4>1. new = rel[cr.label] /\ cr.label # NoLabel /\ new \in Release
        BY <3>1, <3>4, HandlerAssumption DEF LInv, RInv, ReportInv, IInv, TypeOK
      <4>2. LastRevision = [status |-> new.status, manifest |-> new.manifest]
        BY <3>4, <4>1 DEF LastRevision, Labelled
      <4>3. LastRevision # NoRelease
        BY <4>1, <4>2, NoRevisionAssumption DEF Release, Lifecycle!Revision
      <4>4. cr'.status.digest = Lifecycle!Digest(LastRevision.manifest)
        BY <3>1, <3>4, <4>2 DEF DigestOf, Digest, Lifecycle!Digest
      <4>5. Lifecycle!Report
        BY <2>1, <2>2, <3>2, <4>3, <4>4 DEF Lifecycle!Report
      <4> QED BY <4>5 DEF LifecycleStep, Lifecycle!Next
    <3> QED BY <3>3, <3>4
  <2> QED BY <2>3, <2>4
<1> QED BY <1>1, <1>2

\* The steps of the users.
LEMMA UserMaps ==
  ASSUME LInv, EditComposition \/ ReleaseChart
  PROVE  LifecycleStep
<1> USE DEF worker, locals
<1>1. CASE ReleaseChart
  BY <1>1, QuietMaps DEF ReleaseChart, Frozen, Creating, Spared, GracefullyPaused
<1>2. CASE EditComposition
  <2>1. /\ UNCHANGED <<rel, roles, Creating, Spared>>
        /\ cr'.label = cr.label /\ cr'.status = cr.status
        /\ cr'.pausedTime = cr.pausedTime
        /\ cr \in Composition /\ cr' \in Composition
    BY <1>2 DEF EditComposition, Creating, Spared, GracefullyPaused, LInv, IInv, TypeOK,
       Composition
  <2>2. UNCHANGED <<LastRevision, Granted, cr.status.digest>>
    BY <2>1, SameView
  <2>3. CASE life' = life /\ UNCHANGED Frozen
    BY <2>1, <2>3, QuietMaps
  <2>4. CASE life' = life /\ ~UNCHANGED Frozen
    <3>1. Frozen' = ~Frozen
      BY <2>1, <2>4 DEF Frozen, GracefullyPaused, Composition
    <3>2. Lifecycle!Pause
      BY <2>1, <2>2, <2>4, <3>1 DEF Lifecycle!Pause
    <3> QED BY <3>2 DEF LifecycleStep, Lifecycle!Next
  <2>5. CASE life' # life
    <3>1. life = "present" /\ life' = "deleting" /\ UNCHANGED Frozen
      BY <1>2, <2>5 DEF EditComposition, Frozen
    <3>2. Lifecycle!RequestDeletion
      BY <2>1, <2>2, <3>1 DEF Lifecycle!RequestDeletion
    <3> QED BY <3>2 DEF LifecycleStep, Lifecycle!Next
  <2> QED BY <2>3, <2>4, <2>5
<1> QED BY <1>1, <1>2

\* Whatever calls, failures, restarts and edits come together, the composition's
\* life is one that CompositionLifecycle describes.
THEOREM HandlersImplementLifecycle == Spec => ImplementsLifecycle
<1>1. Init => Lifecycle!Init
  BY DEF Init, Lifecycle!Init, LastRevision, Granted, Labelled, Frozen, Creating, Spared,
     GracefullyPaused, NewComposition, NewStatus
<1>2. LInv /\ [Next]_vars => LifecycleStep
  <2> SUFFICES ASSUME LInv, [Next]_vars PROVE LifecycleStep
    OBVIOUS
  <2>1. CASE UNCHANGED vars
    BY <2>1, QuietMaps
    DEF vars, cluster, worker, locals, Frozen, Creating, Spared, GracefullyPaused
  <2>2. CASE Worker \/ Restart
    BY <2>2, RuntimeMaps, QuietCallMaps, MetadataMaps, StatusMaps, ReleaseMaps, RBACMaps
    DEF Worker, Observe, Create, Update, Delete
  <2>3. CASE EditComposition \/ ReleaseChart
    BY <2>3, UserMaps
  <2> QED BY <2>1, <2>2, <2>3 DEF Next, Gone
<1> QED BY <1>1, <1>2, LInvariance, PTL
        DEF Spec, ImplementsLifecycle, Lifecycle!Spec, LifecycleStep

-----------------------------------------------------------------------------
(* Pauses. *)

Metadata == \/ ObserveSave \/ ObserveLabels \/ CreateSave \/ CreateUnpause
            \/ UpdatePause \/ DeleteUnpause

StatusReport == \/ ObserveReport /\ pc' # "idle"
                \/ ObserveUnavailable \/ CreateStatus \/ UpdateStatus

ReleaseChange == \/ ObserveRollback \/ ObserveUpgrade \/ CreateUpgrade \/ CreateInstall
                 \/ DeleteUninstall \/ HelmEnds

RBACChange == ObserveRBAC \/ CreateRBAC \/ DeleteRBAC

\* Who writes the composition, and who touches its release and RBAC.
LEMMA Writers ==
  ASSUME LInv, Next
  PROVE  /\ cr' = cr \/ Metadata \/ StatusReport \/ EditComposition
         /\ UNCHANGED <<rel, roles>> \/ ReleaseChange \/ RBACChange
<1>1. CASE \/ BeginObserve \/ BeginQueued \/ BeginDelete \/ Return \/ ReturnError
           \/ Finalize \/ Restart \/ CallFails \/ ReleaseChart \/ Gone
  BY <1>1 DEF BeginObserve, BeginQueued, BeginDelete, Begin, Return, ReturnError,
     Finalize, Restart, CallFails, ReleaseChart, Gone, vars, cluster
<1>2. CASE \/ ObservePackage \/ ObserveFind \/ ObserveGenerate
           \/ CreatePackage \/ CreateGenerate \/ CreateFind
           \/ UpdatePackage \/ UpdateFind
           \/ DeletePackage \/ DeleteFind \/ DeleteConfirm \/ DeleteGenerate
  BY <1>2 DEF ObservePackage, ObserveFind, ObserveGenerate, CreatePackage,
     CreateGenerate, CreateFind, UpdatePackage, UpdateFind, DeletePackage, DeleteFind,
     DeleteConfirm, DeleteGenerate, GetPackage, Generate, Keep, cluster
<1>3. CASE Metadata \/ StatusReport
  BY <1>3, MetadataWrites, StatusWrites DEF Metadata, StatusReport, KeepAllButCR
<1>4. CASE ObserveReport /\ pc' = "idle"
  BY <1>4 DEF ObserveReport, SaveStatus, cluster
<1>5. CASE ReleaseChange
  BY <1>5 DEF ReleaseChange, ObserveRollback, ObserveUpgrade, CreateUpgrade,
     CreateInstall, DeleteUninstall, HelmEnds, HelmStarts
<1>6. CASE RBACChange
  BY <1>6 DEF RBACChange, ObserveRBAC, CreateRBAC, DeleteRBAC, ApplyRBAC
<1>7. CASE EditComposition
  BY <1>7 DEF EditComposition
<1> QED BY <1>1, <1>2, <1>3, <1>4, <1>5, <1>6, <1>7
        DEF Next, Worker, Observe, Create, Update, Delete, Metadata, StatusReport,
            ReleaseChange, RBACChange

\* A user edits neither the status nor the pause time.
LEMMA UsersEdit ==
  ASSUME LInv, EditComposition
  PROVE  cr'.status = cr.status /\ cr'.pausedTime = cr.pausedTime
  BY DEF EditComposition, LInv, IInv, TypeOK, Composition

\* A recorded pause is only ended by the user.
THEOREM PausesHold == Spec => PauseHolds
<1>1. LInv /\ [Next]_vars =>
        [GracefullyPaused(cr) /\ cr'.paused => cr'.pausedTime]_vars
  <2> SUFFICES ASSUME LInv, Next, GracefullyPaused(cr)
               PROVE  cr'.pausedTime
    OBVIOUS
  <2>1. CASE Metadata
    <3>1. cr' = cr
      BY <2>1, MetadataWrites DEF Metadata, LInv, RInv, UnpausedInv
    <3> QED BY <3>1 DEF GracefullyPaused
  <2>2. CASE StatusReport
    BY <2>2, StatusWrites DEF StatusReport, GracefullyPaused
  <2>3. CASE EditComposition
    BY <2>3, UsersEdit DEF GracefullyPaused
  <2> QED BY <2>1, <2>2, <2>3, Writers DEF GracefullyPaused
<1> QED BY <1>1, LInvariance, PTL DEF Spec, PauseHolds

\* No handler but a Create that began before the pause works on a composition
\* that is gracefully paused, at whichever of its calls it is.
THEOREM PausedIsLeftAlone == Spec => PausedIsQuiet
<1>1. LInv /\ [Next]_vars =>
        [life = "present" /\ GracefullyPaused(cr) /\ op # "Create"
           => UNCHANGED <<rel, roles>> /\ cr'.status = cr.status]_vars
  <2> SUFFICES ASSUME LInv, Next, life = "present", GracefullyPaused(cr), op # "Create"
               PROVE  UNCHANGED <<rel, roles>> /\ cr'.status = cr.status
    OBVIOUS
  <2> USE DEF LInv, RInv, RunsInv, UnpausedInv, GracefullyPaused
  <2>1. ~ReleaseChange /\ ~RBACChange
    <3>1. ~ObserveRollback /\ ~ObserveUpgrade /\ ~ObserveRBAC
      BY DEF ObserveRollback, ObserveUpgrade, ObserveRBAC, At
    <3>2. ~CreateUpgrade /\ ~CreateInstall /\ ~CreateRBAC
      BY DEF CreateUpgrade, CreateInstall, CreateRBAC, At
    <3>3. ~DeleteUninstall /\ ~DeleteRBAC
      BY DEF DeleteUninstall, DeleteRBAC, At
    <3>4. ~HelmEnds
      BY DEF HelmEnds, IInv, HelmInv
    <3> QED BY <3>1, <3>2, <3>3, <3>4 DEF ReleaseChange, RBACChange
  <2>2. CASE Metadata
    BY <2>1, <2>2, MetadataWrites, Writers DEF Metadata
  <2>3. CASE StatusReport
    BY <2>1, <2>3, StatusWrites, Writers DEF StatusReport
  <2>4. CASE EditComposition
    BY <2>1, <2>4, UsersEdit, Writers
  <2> QED BY <2>1, <2>2, <2>3, <2>4, Writers
<1> QED BY <1>1, LInvariance, PTL DEF Spec, PausedIsQuiet

\* When a pause is recorded, the status it freezes is that of the last revision.
THEOREM PausedStatusIsTrue == Spec => PauseRecordsTruth
<1>1. LInv /\ [Next]_vars =>
        [~cr.pausedTime /\ cr'.pausedTime =>
           /\ cr.status.digest = DigestOf(rel[cr.label])
           /\ cr.status.managed = ObjectsOf(rel[cr.label])]_vars
  <2> SUFFICES ASSUME LInv, Next, ~cr.pausedTime, cr'.pausedTime
               PROVE  /\ cr.status.digest = DigestOf(rel[cr.label])
                      /\ cr.status.managed = ObjectsOf(rel[cr.label])
    OBVIOUS
  <2>1. Metadata
    BY Writers, StatusWrites, UsersEdit DEF StatusReport
  <2>2. op = "Update" /\ pc = "pause" /\ mg = cr
    BY <2>1, MetadataWrites DEF Metadata
  <2> QED BY <2>2 DEF LInv, RInv, ReportInv, PauseInv
<1> QED BY <1>1, LInvariance, PTL DEF Spec, PauseRecordsTruth
=============================================================================
