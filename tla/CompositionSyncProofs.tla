------------------------- MODULE CompositionSyncProofs -------------------------
(***************************************************************************)
(* The safety half of Converges: a composition in sync stays in sync until *)
(* a user or a fault intervenes, for every set of values, charts and       *)
(* manifests.                                                              *)
(***************************************************************************)
EXTENDS CompositionRefinementProofs

\* The release that the stored composition's label names.
Latest == rel[cr.label]

\* A handler that is at work on a settled composition has the composition itself
\* as its copy, and is not a Delete.
LEMMA SettledCopy ==
  ASSUME LInv, Settled, op # "none", pc \notin {"return", "error"}
  PROVE  /\ fresh /\ mg = cr /\ mg.label \in ReleaseNames
         /\ op \in {"Observe", "Create", "Update"}
         /\ Latest \in Release
  BY DEF LInv, IInv, TypeOK, CopyInv, RInv, RunsInv, Settled, Synced, Current,
         Composition, Operations, Latest

\* A step that touches neither the releases nor the chart, and writes nothing that
\* matters of the composition.
LEMMA QuietStep ==
  ASSUME Settled, UNCHANGED <<life, chart, rel>>,
         cr'.label = cr.label, cr'.spec = cr.spec,
         cr'.status.digest = cr.status.digest, cr'.status.chart = cr.status.chart,
         cr'.status.ready = cr.status.ready,
         Latest.status = "deployed" \/ pc' = "upgrading",
         Current'
  PROVE  Settled'
  BY DEF Settled, Synced, Latest

\* What Helm is asked for is what is deployed, and its grants are in place.
LEMMA WantedIsDeployed ==
  ASSUME LInv, Settled, op # "none", pc = "upgrade"
  PROVE  /\ Wanted = Latest.manifest /\ pkg = Latest.chart
         /\ ~Refused
<1>1. mg = cr /\ pkg = chart /\ mg.label \in ReleaseNames /\ Latest \in Release
  BY SettledCopy DEF Settled, Current
<1>2. Wanted = Latest.manifest /\ Latest.chart = chart /\ Latest.status = "deployed"
  BY <1>1 DEF Wanted, Settled, Synced, Latest
<1>3. Grants[Latest.manifest] \subseteq roles[mg.label]
  BY <1>1, NoReleaseAssumption DEF LInv, IInv, ReleaseCovered, Latest
<1> QED BY <1>1, <1>2, <1>3 DEF Refused, Latest

\* The upgrade of a handler starts, from what is deployed to the same.
LEMMA UpgradeSettles ==
  ASSUME LInv, Settled, op \in {"Observe", "Create"}, pc = "upgrade", HelmStarts("upgrade")
  PROVE  Settled'
<1> DEFINE r == Latest
<1>1. fresh /\ mg = cr /\ mg.label \in ReleaseNames /\ r \in Release
  BY SettledCopy
<1>2. Wanted = r.manifest /\ pkg = r.chart /\ ~Refused
  BY WantedIsDeployed
<1>3. /\ rel' = [rel EXCEPT ![mg.label] =
                   [status |-> "pending", manifest |-> Wanted, chart |-> pkg]]
      /\ pc' = "upgrading"
      /\ UNCHANGED <<life, cr, chart, op, fresh, pkg, old, new>>
  BY <1>2 DEF HelmStarts, locals
<1>4. rel'[cr.label] = [status |-> "pending", manifest |-> r.manifest, chart |-> r.chart]
  BY <1>1, <1>2, <1>3 DEF LInv, IInv, TypeOK
<1>5. rel'[cr.label] \in Release
  BY <1>1, <1>4 DEF Release
<1>6. Current'
  BY <1>1, <1>3, <1>4 DEF Current, Settled, Latest
<1>7. Synced'
  BY <1>3, <1>4, <1>5, NoReleaseAssumption DEF Settled, Synced, Latest
<1> QED BY <1>3, <1>6, <1>7 DEF Settled

\* The status a handler writes is the one that is there, up to its list of objects.
LEMMA StatusIsSame ==
  ASSUME LInv, Settled, op # "none", pc \in {"report", "status"},
         NEW status, NEW resources
  PROVE  LET written == SetStatus(status, resources, DigestOf(new), pkg)
         IN /\ written.digest = cr.status.digest
            /\ written.chart = cr.status.chart
            /\ written.ready = cr.status.ready
<1>1. new = Latest /\ pkg = chart /\ Latest # NoRelease
  BY DEF Settled, Current, Synced, Latest
<1>2. DigestOf(new) = cr.status.digest
  BY <1>1 DEF DigestOf, Settled, Synced, Latest
<1> QED BY <1>1, <1>2 DEF SetStatus, Settled, Synced

-----------------------------------------------------------------------------
(* The steps, for the runtime and each handler. *)

\* An operation of the runtime begins on the composition as it is, or is over.
LEMMA RuntimeSettles ==
  ASSUME LInv, Settled,
         BeginObserve \/ BeginQueued \/ BeginDelete \/ Return \/ ReturnError \/ Finalize
  PROVE  Settled'
<1>1. /\ UNCHANGED <<life, chart, rel, cr>>
      /\ pc # "upgrading"
      /\ op' = "none" \/ (op' # "none" /\ fresh' /\ pc' \in {"save", "package", "return"})
  <2>1. CASE BeginObserve \/ BeginQueued \/ BeginDelete
    <3>1. PICK operation \in {"Observe", "Create", "Update", "Delete"} : Begin(operation)
      BY <2>1 DEF BeginObserve, BeginQueued, BeginDelete, LInv, IInv, TypeOK
    <3>2. operation # "Delete"
      BY <2>1, <3>1 DEF Settled, BeginObserve, BeginQueued, BeginDelete, Begin,
                        LInv, IInv, TypeOK
    <3> QED BY <3>1, <3>2
            DEF Begin, FirstStep, cluster, LInv, RInv, RunsInv
  <2>2. CASE Return \/ ReturnError
    BY <2>2 DEF Return, ReturnError, Finish, cluster
  <2>3. CASE Finalize
    BY <2>3 DEF Finalize, LInv, RInv, RunsInv, Settled
  <2> QED BY <2>1, <2>2, <2>3
<1>2. Current'
  BY <1>1 DEF Current
<1> QED BY <1>1, <1>2, QuietStep DEF Settled, Synced, Latest

LEMMA ObserveSettles ==
  ASSUME LInv, Settled, Observe, UNCHANGED bounds
  PROVE  Settled'
<1> DEFINE r == Latest
<1>0. /\ op = "Observe" /\ pc \notin {"return", "error", "upgrading"}
      /\ fresh /\ mg = cr /\ mg.label \in ReleaseNames /\ r \in Release
      /\ r.status = "deployed" /\ cr \in Composition
  <2>1. op = "Observe" /\ pc \notin {"return", "error", "upgrading"}
    BY DEF Observe, ObserveSave, ObservePackage, ObserveLabels, ObserveFind, ObserveRollback,
           ObserveGenerate, ObserveRBAC, ObserveUpgrade, ObserveReport,
           ObserveUnavailable, At
  <2> QED BY <2>1, SettledCopy DEF Settled, Synced, Latest, LInv, IInv, TypeOK
<1>1. CASE ObserveSave
  <2> DEFINE obj == RemovePausedTime(SetReleaseName(mg))
  <2>1. obj \in Composition /\ obj.label = cr.label /\ obj.spec = cr.spec
    <3>1. /\ SetReleaseName(mg) \in Composition
          /\ SetReleaseName(mg).label = cr.label /\ SetReleaseName(mg).spec = cr.spec
      BY <1>0, ReleaseNameKept, HandlerAssumption DEF LInv, IInv, TypeOK
    <3> QED BY <3>1, PausedTimeOnly DEF RemovePausedTime
  <2>2. cr' = [obj EXCEPT !.status = cr.status] /\ pc' = "package" /\ KeepAllButCR
    BY <1>0, <1>1 DEF ObserveSave, SaveMeta
  <2>3. cr'.label = cr.label /\ cr'.spec = cr.spec /\ cr'.status = cr.status
    BY <2>1, <2>2 DEF Composition
  <2> QED BY <1>0, <2>2, <2>3, QuietStep DEF KeepAllButCR, Current
<1>2. CASE ObservePackage
  BY <1>0, <1>2, QuietStep DEF ObservePackage, At, GetPackage, Keep, cluster, Current
<1>3. CASE ObserveLabels
  <2>1. /\ cr' = [mg EXCEPT !.status = cr.status] /\ pc' = "find" /\ pc = "labels"
        /\ KeepAllButCR
    BY <1>0, <1>3 DEF ObserveLabels, SaveMeta, At
  <2>2. cr' = cr
    BY <1>0, <2>1 DEF Composition
  <2> QED BY <1>0, <2>1, <2>2, QuietStep DEF KeepAllButCR, Current, Settled
<1>4. CASE ObserveFind
  <2>1. rel[mg.label] = r /\ r # NoRelease
    BY <1>0, NoReleaseAssumption DEF Latest
  <2>2. old' = r /\ pc' = "generate" /\ pc = "find"
        /\ UNCHANGED <<op, queue, mg, fresh, pkg, gen, new, cluster>>
    BY <1>0, <1>4, <2>1 DEF ObserveFind, At
  <2> QED BY <1>0, <2>2, QuietStep DEF cluster, Current, Settled, Synced, Latest
<1>5. CASE ObserveRollback
  BY <1>5 DEF ObserveRollback, At, Settled, Current
<1>6. CASE ObserveGenerate
  BY <1>0, <1>6, QuietStep
  DEF ObserveGenerate, At, Generate, Keep, cluster, Current, Settled, Latest
<1>7. CASE ObserveRBAC
  <2>1. /\ UNCHANGED <<life, cr, chart, rel, op, fresh, pkg, old, new>>
        /\ pc = "rbac" /\ pc' = "upgrade"
    BY <1>0, <1>7, HandlerAssumption
    DEF ObserveRBAC, ApplyRBAC, Fault, At, locals, bounds, LInv, IInv, TypeOK
  <2> QED BY <1>0, <2>1, QuietStep DEF Current, Settled, Latest
<1>8. CASE ObserveUpgrade
  BY <1>8, UpgradeSettles DEF ObserveUpgrade, At
<1>9. CASE ObserveReport
  <2>1. pc = "report" /\ new = r /\ pkg = chart /\ old.chart = chart
        /\ old.manifest = r.manifest /\ r.chart = chart
    BY <1>0, <1>9 DEF ObserveReport, At, Settled, Synced, Current, Latest
  <2>2. DigestOf(new) = PreviousDigest
    <3>1. r # NoRelease
      BY <1>0, NoReleaseAssumption
    <3>2. DigestOf(new) = cr.status.digest
      BY <2>1, <3>1 DEF DigestOf, Settled, Synced, Latest
    <3>3. DigestOf(old) \in {NoDigest, DigestOf(new)}
      BY <2>1, <3>1 DEF DigestOf
    <3> QED BY <1>0, <3>2, <3>3 DEF PreviousDigest
  <2> DEFINE written == SetStatus(mg.status, EmptyManifest, DigestOf(new), pkg)
  <2>3. cr' = [cr EXCEPT !.status = written] /\ pc' = "return" /\ KeepAllButCR
    BY <1>0, <1>9, <2>1, <2>2 DEF ObserveReport, SaveStatus
  <2>4. cr'.label = cr.label /\ cr'.spec = cr.spec /\ cr'.status = written
    BY <1>0, <2>3 DEF Composition
  <2>5. /\ written.digest = cr.status.digest /\ written.chart = cr.status.chart
        /\ written.ready = cr.status.ready
    BY <1>0, <2>1, StatusIsSame
  <2> HIDE DEF written
  <2> QED BY <1>0, <2>3, <2>4, <2>5, QuietStep DEF KeepAllButCR, Current
<1>10. CASE ObserveUnavailable
  BY <1>10 DEF ObserveUnavailable, At, Settled, Current
<1> QED BY <1>1, <1>2, <1>3, <1>4, <1>5, <1>6, <1>7, <1>8, <1>9, <1>10 DEF Observe

\* A Create that was queued before the composition was in sync.
LEMMA CreateSettles ==
  ASSUME LInv, Settled, Create, UNCHANGED bounds
  PROVE  Settled'
<1> DEFINE r == Latest
<1>0. /\ op = "Create" /\ pc \notin {"return", "error", "upgrading"}
      /\ fresh /\ mg = cr /\ mg.label \in ReleaseNames /\ r \in Release
      /\ r.status = "deployed" /\ cr \in Composition
  <2>1. op = "Create" /\ pc \notin {"return", "error", "upgrading"}
    BY DEF Create, CreateSave, CreatePackage, CreateGenerate, CreateRBAC, CreateFind,
           CreateUpgrade, CreateInstall, CreateStatus, CreateUnpause, At
  <2> QED BY <2>1, SettledCopy DEF Settled, Synced, Latest, LInv, IInv, TypeOK
<1>1. CASE CreateSave
  <2> DEFINE obj == SetReleaseName(mg)
  <2>1. obj \in Composition /\ obj.label = cr.label /\ obj.spec = cr.spec
    BY <1>0, ReleaseNameKept, HandlerAssumption DEF LInv, IInv, TypeOK
  <2>2. cr' = [obj EXCEPT !.status = cr.status] /\ pc' = "package" /\ KeepAllButCR
    BY <1>0, <1>1 DEF CreateSave, SaveMeta
  <2>3. cr'.label = cr.label /\ cr'.spec = cr.spec /\ cr'.status = cr.status
    BY <2>1, <2>2 DEF Composition
  <2> QED BY <1>0, <2>2, <2>3, QuietStep DEF KeepAllButCR, Current
<1>2. CASE CreatePackage
  BY <1>0, <1>2, QuietStep DEF CreatePackage, At, GetPackage, Keep, cluster, Current
<1>3. CASE CreateGenerate
  BY <1>0, <1>3, QuietStep
  DEF CreateGenerate, At, Generate, Keep, cluster, Current, Settled
<1>4. CASE CreateRBAC
  <2>1. /\ UNCHANGED <<life, cr, chart, rel, op, fresh, pkg>>
        /\ pc = "rbac" /\ pc' = "find"
    BY <1>0, <1>4, HandlerAssumption
    DEF CreateRBAC, ApplyRBAC, Fault, At, locals, bounds, LInv, IInv, TypeOK
  <2> QED BY <1>0, <2>1, QuietStep DEF Current, Settled
<1>5. CASE CreateFind
  <2>1. rel[mg.label] # NoRelease
    BY <1>0, NoReleaseAssumption DEF Latest
  <2>2. pc = "find" /\ pc' = "upgrade" /\ UNCHANGED <<life, cr, chart, rel, op, fresh, pkg>>
    BY <1>5, <2>1 DEF CreateFind, At, Keep, cluster, locals
  <2> QED BY <1>0, <2>2, QuietStep DEF Current, Settled
<1>6. CASE CreateUpgrade
  BY <1>6, UpgradeSettles DEF CreateUpgrade, At
<1>7. CASE CreateInstall
  BY <1>7 DEF CreateInstall, At, Settled, Current
<1>8. CASE CreateStatus
  <2> DEFINE written == SetStatus(mg.status, ObjectsOf(new), DigestOf(new), pkg)
  <2>1. pc = "status" /\ cr' = [cr EXCEPT !.status = written] /\ pc' = "unpause"
        /\ KeepAllButCR
    BY <1>0, <1>8 DEF CreateStatus, SaveStatus, At
  <2>2. cr'.label = cr.label /\ cr'.spec = cr.spec /\ cr'.status = written
    BY <1>0, <2>1 DEF Composition
  <2>3. /\ written.digest = cr.status.digest /\ written.chart = cr.status.chart
        /\ written.ready = cr.status.ready
    BY <1>0, <2>1, StatusIsSame
  <2> HIDE DEF written
  <2> QED BY <1>0, <2>1, <2>2, <2>3, QuietStep DEF KeepAllButCR, Current, Settled
<1>9. CASE CreateUnpause
  <2>1. cr' = [RemovePausedTime(mg) EXCEPT !.status = cr.status] /\ pc' = "return"
        /\ KeepAllButCR
    BY <1>0, <1>9 DEF CreateUnpause, SaveMeta
  <2>2. cr'.label = cr.label /\ cr'.spec = cr.spec /\ cr'.status = cr.status
    BY <1>0, <2>1 DEF Composition, RemovePausedTime
  <2> QED BY <1>0, <2>1, <2>2, QuietStep DEF KeepAllButCR, Current
<1> QED BY <1>1, <1>2, <1>3, <1>4, <1>5, <1>6, <1>7, <1>8, <1>9 DEF Create

\* An Update reports what is in the status already.
LEMMA UpdateSettles ==
  ASSUME LInv, Settled, Update
  PROVE  Settled'
<1>0. /\ op = "Update" /\ pc \notin {"return", "error", "upgrading"}
      /\ fresh /\ mg = cr /\ mg.label \in ReleaseNames /\ Latest \in Release
      /\ Latest.status = "deployed" /\ cr \in Composition
  <2>1. op = "Update" /\ pc \notin {"return", "error", "upgrading"}
    BY DEF Update, UpdatePackage, UpdateFind, UpdateStatus, UpdatePause, At
  <2> QED BY <2>1, SettledCopy DEF Settled, Synced, Latest, LInv, IInv, TypeOK
<1>1. CASE UpdatePackage
  BY <1>0, <1>1, QuietStep DEF UpdatePackage, At, GetPackage, Keep, cluster, Current
<1>2. CASE UpdateFind
  <2>1. Found
    BY <1>0, NoReleaseAssumption, HandlerAssumption DEF Found, Latest
  <2> QED BY <1>0, <1>2, <2>1, QuietStep
          DEF UpdateFind, At, Keep, cluster, Current, Settled, Latest
<1>3. CASE UpdateStatus
  <2> DEFINE written == SetStatus([mg.status EXCEPT !.managed = ObjectsOf(new)],
                                  ObjectsOf(new), DigestOf(new), pkg)
  <2>1. pc = "status" /\ cr' = [cr EXCEPT !.status = written] /\ pc' = "pause"
        /\ KeepAllButCR
    BY <1>0, <1>3 DEF UpdateStatus, SaveStatus, At
  <2>2. cr'.label = cr.label /\ cr'.spec = cr.spec /\ cr'.status = written
    BY <1>0, <2>1 DEF Composition
  <2>3. /\ written.digest = cr.status.digest /\ written.chart = cr.status.chart
        /\ written.ready = cr.status.ready
    BY <1>0, <2>1, StatusIsSame
  <2> HIDE DEF written
  <2> QED BY <1>0, <2>1, <2>2, <2>3, QuietStep DEF KeepAllButCR, Current, Settled
<1>4. CASE UpdatePause
  <2>1. cr' = [[mg EXCEPT !.pausedTime = mg.paused] EXCEPT !.status = cr.status]
        /\ pc' = "return" /\ KeepAllButCR
    BY <1>0, <1>4 DEF UpdatePause, SaveMeta
  <2>2. cr'.label = cr.label /\ cr'.spec = cr.spec /\ cr'.status = cr.status
    BY <1>0, <2>1 DEF Composition
  <2> QED BY <1>0, <2>1, <2>2, QuietStep DEF KeepAllButCR, Current
<1> QED BY <1>1, <1>2, <1>3, <1>4 DEF Update

\* The upgrade to what is there ends with it deployed.
LEMMA HelmSettles ==
  ASSUME LInv, Settled, HelmEnds, UNCHANGED bounds
  PROVE  Settled'
<1>1. pc = "upgrading" /\ op \in {"Observe", "Create"}
  BY DEF HelmEnds, Settled, Current, LInv, IInv, HelmInv
<1>2. fresh /\ mg = cr /\ mg.label \in ReleaseNames /\ Latest \in Release
  BY <1>1, SettledCopy DEF LInv, RInv, RunsInv
<1>3. /\ rel' = [rel EXCEPT ![mg.label].status = "deployed"]
      /\ new' = rel'[mg.label]
      /\ pc' = IF op = "Observe" THEN "report" ELSE "status"
      /\ UNCHANGED <<life, cr, chart, op, fresh, pkg, old>>
  BY <1>1, HandlerAssumption DEF HelmEnds, Fault, bounds, LInv, IInv, TypeOK
<1>4. rel'[cr.label] = [Latest EXCEPT !.status = "deployed"]
  BY <1>2, <1>3 DEF LInv, IInv, TypeOK, Latest
<1>5. /\ rel'[cr.label] \in Release /\ rel'[cr.label].status = "deployed"
      /\ rel'[cr.label].manifest = Latest.manifest
      /\ rel'[cr.label].chart = Latest.chart
  BY <1>2, <1>4 DEF Release
<1>6. Synced'
  BY <1>3, <1>5, NoReleaseAssumption DEF Settled, Synced, Latest
<1>7. Current'
  BY <1>1, <1>2, <1>3, <1>5 DEF Settled, Current, Latest
<1> QED BY <1>3, <1>6, <1>7 DEF Settled

-----------------------------------------------------------------------------
\* Once in sync, a composition stays in sync whatever handlers run on it, those
\* queued before included, until a user or a fault intervenes: reconciling is
\* idempotent (composition.go, Observe, Create and Update).
THEOREM SettledStays == Spec => SyncIsKept
<1>1. LInv /\ [Next]_vars => [Settled /\ UNCHANGED bounds => Settled']_vars
  <2> SUFFICES ASSUME LInv, Next, Settled, UNCHANGED bounds PROVE Settled'
    OBVIOUS
  <2>1. ~Restart /\ ~CallFails /\ ~EditComposition /\ ~ReleaseChart
    <3>1. edits \in Nat /\ faults \in Nat
      BY HandlerAssumption DEF LInv, IInv, TypeOK
    <3>2. ~Edit /\ ~Fault
      BY <3>1 DEF Edit, Fault, bounds
    <3> QED BY <3>2 DEF Restart, CallFails, EditComposition, ReleaseChart
  <2>2. ~Gone
    BY DEF Gone, Settled
  <2>3. ~Delete
    BY DEF Delete, DeletePackage, DeleteFind, DeleteUninstall, DeleteConfirm,
           DeleteGenerate, DeleteRBAC, DeleteUnpause, At, LInv, RInv, RunsInv, Settled
  <2> QED BY <2>1, <2>2, <2>3, RuntimeSettles, ObserveSettles, CreateSettles,
             UpdateSettles, HelmSettles
          DEF Next, Worker
<1> QED BY <1>1, LInvariance, PTL DEF Spec, SyncIsKept

\* So a settled composition stays so for good once users and faults stop: what
\* Converges still needs is that it gets there.
COROLLARY SettledForGood ==
  Spec => [](Settled /\ [][UNCHANGED bounds]_vars => []Settled)
<1>1. Settled /\ UNCHANGED vars => Settled'
  BY DEF vars, cluster, worker, locals, Settled, Synced, Current
<1>2. UNCHANGED vars => UNCHANGED bounds
  BY DEF vars
<1> QED BY <1>1, <1>2, SettledStays, PTL DEF SyncIsKept
=============================================================================
