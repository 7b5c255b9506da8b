---------------------- MODULE CompositionHandlerProofs ----------------------
(***************************************************************************)
(* What CompositionHandler promises for every set of values, charts and    *)
(* manifests and every number of edits and faults.                         *)
(***************************************************************************)
EXTENDS CompositionHandler, TLAPS

NoReleases == \A n \in ReleaseNames : rel[n] = NoRelease

\* The handler's copy names the release as the stored composition does, and is
\* the stored composition as long as nobody else has written it.
CopyInv == op # "none" => mg.label = cr.label /\ (fresh => mg = cr)

\* Observe and Create have persisted a name before any other call.
NameInv ==
  op \in {"Observe", "Create"} /\ pc \notin {"idle", "save", "return", "error"}
    => mg.label \in ReleaseNames

\* A Helm operation under way works on a revision that was recorded.
HelmInv ==
  pc \in {"upgrading", "installing"} =>
    op \in {"Observe", "Create"} /\ rel[mg.label] \in Release

RollbackInv ==
  pc = "rollback" => op = "Observe" /\ old \in Release /\ old = rel[mg.label]

\* From Uninstall on, Delete has no release any more.
DeleteInv ==
  op = "Delete" =>
    /\ pc = "uninstall" => mg.label \in ReleaseNames
    /\ pc \in {"confirm", "generate", "rbac", "unpause"} =>
         mg.label \in ReleaseNames /\ NoReleases

FinalizeInv == pc = "finalize" => GracefullyPaused(mg) \/ NoReleases

IInv ==
  /\ TypeOK /\ OneRelease /\ ReleaseCovered
  /\ CopyInv /\ NameInv /\ HelmInv /\ RollbackInv /\ DeleteInv /\ FinalizeInv
-----------------------------------------------------------------------------
(* Lemmas about the operators the handlers are built from. *)

\* SetReleaseName gives a name to a composition without one and changes nothing
\* else; a name that is there stays.
LEMMA ReleaseNameKept ==
  ASSUME NEW obj \in Composition, safe \in BOOLEAN
  PROVE  /\ SetReleaseName(obj) \in Composition
         /\ SetReleaseName(obj).label \in ReleaseNames
         /\ obj.label # NoLabel => SetReleaseName(obj).label = obj.label
         /\ SetReleaseName(obj).spec = obj.spec
         /\ SetReleaseName(obj).paused = obj.paused
  BY DEF SetReleaseName, CalculateReleaseName, Composition, ReleaseNames

\* Changing the pause time changes nothing else.
LEMMA PausedTimeOnly ==
  ASSUME NEW obj \in Composition, NEW time \in BOOLEAN
  PROVE  LET changed == [obj EXCEPT !.pausedTime = time]
         IN /\ changed \in Composition
            /\ changed.label = obj.label
            /\ changed.spec = obj.spec
            /\ changed.paused = obj.paused
  BY DEF Composition

\* What a release reports is a digest and a manifest.
LEMMA ReportTypes ==
  ASSUME NEW release \in Release \cup {NoRelease}
  PROVE  /\ DigestOf(release) \in Manifests \cup {NoDigest}
         /\ ObjectsOf(release) \in Manifests
  BY HandlerAssumption DEF DigestOf, Digest, ObjectsOf, Release

\* setStatus yields a status.
LEMMA SetStatusType ==
  ASSUME NEW status \in Status, NEW resources \in Manifests,
         NEW digest \in Manifests \cup {NoDigest}, NEW version \in Charts
  PROVE  SetStatus(status, resources, digest, version) \in Status
  BY DEF SetStatus, Status

\* Helm renders a manifest, and what a manifest needs is a set of grants.
LEMMA RenderTypes ==
  ASSUME NEW version \in Charts, NEW v \in Values
  PROVE  /\ Render[<<version, v>>] \in Manifests
         /\ Grants[Render[<<version, v>>]] \in SUBSET Scopes
  BY HandlerAssumption

\* What a write of metadata preserves, whichever handler makes it: the object
\* written keeps the name of the handler's copy if that has one.
LEMMA SaveMetaKeeps ==
  ASSUME IInv, op # "none", KeepAllButCR,
         NEW obj \in Composition, NEW step \in Steps, SaveMeta(obj, step),
         mg.label # NoLabel => obj.label = mg.label
  PROVE  /\ TypeOK' /\ OneRelease' /\ ReleaseCovered' /\ CopyInv'
         /\ pc' # "error" => pc' = step /\ mg'.label = obj.label
         /\ mg.label # NoLabel => mg'.label = mg.label
<1> DEFINE written == [obj EXCEPT !.status = cr.status]
<1>1. /\ written \in Composition /\ written.label = obj.label
      /\ cr \in Composition /\ mg \in Composition
  BY DEF IInv, TypeOK, Composition
<1>2. CASE fresh
  <2>1. cr' = written /\ mg' = written /\ pc' = step
    BY <1>2 DEF SaveMeta
  <2>2. TypeOK'
    BY <1>1, <2>1 DEF IInv, TypeOK, KeepAllButCR, bounds
  <2>3. OneRelease'
    BY <1>1, <2>1, HandlerAssumption
    DEF IInv, OneRelease, CopyInv, KeepAllButCR, ReleaseNames
  <2>4. ReleaseCovered' /\ CopyInv'
    BY <2>1 DEF IInv, ReleaseCovered, CopyInv, KeepAllButCR
  <2> QED BY <1>1, <2>1, <2>2, <2>3, <2>4
<1>3. CASE ~fresh
  <2>1. pc' = "error" /\ cr' = cr /\ mg' = mg
    BY <1>3 DEF SaveMeta
  <2>2. TypeOK'
    BY <2>1 DEF IInv, TypeOK, KeepAllButCR, bounds, Steps
  <2>3. OneRelease' /\ ReleaseCovered' /\ CopyInv'
    BY <2>1 DEF IInv, OneRelease, ReleaseCovered, CopyInv, KeepAllButCR
  <2> QED BY <2>1, <2>2, <2>3
<1> QED BY <1>2, <1>3 DEF IInv, TypeOK

\* The same of a write of the status.
LEMMA SaveStatusKeeps ==
  ASSUME IInv, op # "none", KeepAllButCR,
         NEW status \in Status, NEW step \in Steps, SaveStatus(status, step)
  PROVE  /\ TypeOK' /\ OneRelease' /\ ReleaseCovered' /\ CopyInv'
         /\ pc' \in {step, "error"}
         /\ mg'.label = mg.label
<1> DEFINE written == [cr EXCEPT !.status = status]
<1>1. /\ written \in Composition /\ written.label = cr.label
      /\ cr \in Composition
  BY DEF IInv, TypeOK, Composition
<1>2. \/ cr' = written /\ mg' = written /\ pc' = step
      \/ cr' = cr /\ mg' = mg /\ pc' = "error"
  BY DEF SaveStatus
<1>3. mg.label = cr.label
  BY DEF IInv, CopyInv
<1>4. TypeOK'
  BY <1>1, <1>2 DEF IInv, TypeOK, KeepAllButCR, bounds, Steps
<1>5. OneRelease' /\ ReleaseCovered' /\ CopyInv'
  BY <1>1, <1>2, <1>3 DEF IInv, OneRelease, ReleaseCovered, CopyInv, KeepAllButCR
<1> QED BY <1>1, <1>2, <1>3, <1>4, <1>5

\* Generate and ApplyRBAC leave the releases alone and only add RBAC.
LEMMA GenerateKeeps ==
  ASSUME IInv, NEW step \in Steps, Generate(step)
  PROVE  TypeOK' /\ OneRelease' /\ ReleaseCovered' /\ CopyInv'
<1>1. gen' \in SUBSET Scopes
  BY RenderTypes DEF Generate, IInv, TypeOK, Composition
<1> QED BY <1>1 DEF Generate, Keep, IInv, TypeOK, OneRelease, ReleaseCovered,
                    CopyInv, cluster, bounds

LEMMA ApplyRBACKeeps ==
  ASSUME IInv, NEW step \in Steps, ApplyRBAC(step)
  PROVE  /\ TypeOK' /\ OneRelease' /\ ReleaseCovered' /\ CopyInv'
         /\ pc' \in {step, OnError("rbac")}
         /\ UNCHANGED <<op, rel, mg, old>>
<1>1. PICK part \in SUBSET gen : roles' = [roles EXCEPT ![mg.label] = @ \cup part]
  BY DEF ApplyRBAC
<1>2. /\ UNCHANGED <<life, cr, chart, rel, safe, op, queue, locals, edits>>
      /\ pc' \in {step, OnError("rbac")}
  BY DEF ApplyRBAC
<1>3. faults' \in 0 .. MaxFaults
  BY HandlerAssumption DEF ApplyRBAC, Fault, IInv, TypeOK
<1>4. pc' \in Steps
  BY <1>2 DEF OnError, Steps
<1>5. TypeOK'
  BY <1>1, <1>2, <1>3, <1>4 DEF IInv, TypeOK, locals
<1>6. \A n \in ReleaseNames : roles[n] \subseteq roles'[n]
  BY <1>1 DEF IInv, TypeOK
<1>7. OneRelease' /\ ReleaseCovered' /\ CopyInv'
  BY <1>2, <1>6 DEF IInv, OneRelease, ReleaseCovered, CopyInv, locals
<1> QED BY <1>2, <1>5, <1>7 DEF locals

\* A Helm operation starts on a manifest whose grants are in place.
LEMMA HelmStartsKeeps ==
  ASSUME IInv, NEW step \in {"upgrade", "install"}, HelmStarts(step),
         op \in {"Observe", "Create"}, mg.label \in ReleaseNames
  PROVE  /\ TypeOK' /\ OneRelease' /\ ReleaseCovered' /\ CopyInv'
         /\ \/ pc' \in {"upgrading", "installing"} /\ rel'[mg.label] \in Release
            \/ pc' \in {"unavailable", "status", "error"}
         /\ UNCHANGED <<op, mg, old>>
<1> DEFINE revision == [status |-> "pending", manifest |-> Wanted, chart |-> pkg]
<1>1. /\ UNCHANGED <<life, cr, chart, roles, safe, op, queue, locals, bounds>>
      /\ mg.label = cr.label
  BY DEF HelmStarts, IInv, CopyInv
<1>2. Wanted \in Manifests /\ revision \in Release
  BY RenderTypes DEF Wanted, Release, IInv, TypeOK, Composition
<1>3. CASE Refused
  <2>1. rel' = rel /\ pc' \in {"unavailable", "status", "error"}
    BY <1>3 DEF HelmStarts, OnError
  <2> QED BY <1>1, <2>1 DEF IInv, TypeOK, OneRelease, ReleaseCovered, CopyInv,
                            Steps, locals, bounds
<1>4. CASE ~Refused
  <2>1. /\ rel' = [rel EXCEPT ![mg.label] = revision]
        /\ pc' \in {"upgrading", "installing"}
    BY <1>4 DEF HelmStarts
  <2>2. Grants[revision.manifest] \subseteq roles[mg.label]
    BY <1>4 DEF Refused
  <2> QED BY <1>1, <1>2, <2>1, <2>2
          DEF IInv, TypeOK, OneRelease, ReleaseCovered, CopyInv, Steps, locals, bounds
<1> QED BY <1>3, <1>4

(* The invariant, one lemma for the runtime, each handler and the users. *)

\* The runtime's own steps, restarts and failing calls.
LEMMA RuntimeStep ==
  ASSUME IInv, BeginObserve \/ BeginQueued \/ BeginDelete \/ Return \/ ReturnError
         \/ Finalize \/ Restart \/ CallFails
  PROVE  IInv'
<1> USE DEF IInv, TypeOK, OneRelease, ReleaseCovered, NoReleases, CopyInv, NameInv,
           HelmInv, RollbackInv, DeleteInv, FinalizeInv,
           GracefullyPaused, cluster, worker, locals, bounds
<1>0. NewComposition \in Composition /\ NewComposition.label = NoLabel
  BY HandlerAssumption DEF NewComposition, NewStatus, Composition, Status
<1>1. CASE BeginObserve
  BY <1>1, HandlerAssumption
  DEF BeginObserve, Begin, FirstStep, Operations, Steps
<1>2. CASE BeginQueued
  BY <1>2, HandlerAssumption
  DEF BeginQueued, Begin, FirstStep, Operations, Steps
<1>3. CASE BeginDelete
  BY <1>3, HandlerAssumption
  DEF BeginDelete, Begin, FirstStep, Operations, Steps
<1>4. CASE Return
  BY <1>4, <1>0, HandlerAssumption
  DEF Return, Finish, Forget, Steps
<1>5. CASE ReturnError
  BY <1>5, <1>0, HandlerAssumption
  DEF ReturnError, Finish, Forget, Steps
<1>6. CASE Finalize
  BY <1>6, <1>0, HandlerAssumption
  DEF Finalize, Finish, Forget, Steps
<1>7. CASE Restart
  BY <1>7, <1>0, HandlerAssumption
  DEF Restart, Fault, Forget, Steps
<1>8. CASE CallFails
  BY <1>8, HandlerAssumption
  DEF CallFails, Call, OnError, Fault, Steps
<1> QED BY <1>1, <1>2, <1>3, <1>4, <1>5, <1>6, <1>7, <1>8

\* The steps of Observe.
LEMMA ObserveStep ==
  ASSUME IInv, Observe
  PROVE  IInv'
<1> USE DEF IInv, TypeOK, OneRelease, ReleaseCovered, NoReleases, CopyInv, NameInv,
           HelmInv, RollbackInv, DeleteInv, FinalizeInv,
           GracefullyPaused, cluster, worker, locals, bounds
<1>1. CASE ObserveSave
  <2> DEFINE obj == RemovePausedTime(SetReleaseName(mg))
  <2>1. /\ obj \in Composition
        /\ mg.label # NoLabel => obj.label = mg.label
        /\ obj.label \in ReleaseNames
    BY ReleaseNameKept, PausedTimeOnly, HandlerAssumption DEF RemovePausedTime, Composition
  <2>2. op # "none" /\ KeepAllButCR /\ SaveMeta(obj, "package")
    BY <1>1 DEF ObserveSave, At
  <2>3. "package" \in Steps
    BY DEF Steps
  <2>4. /\ TypeOK' /\ OneRelease' /\ ReleaseCovered' /\ CopyInv'
        /\ pc' # "error" => pc' = "package" /\ mg'.label = obj.label
    BY <2>1, <2>2, <2>3, SaveMetaKeeps
  <2>5. NameInv' /\ HelmInv' /\ RollbackInv' /\ DeleteInv' /\ FinalizeInv'
    BY <1>1, <2>1, <2>2, <2>4 DEF ObserveSave, At, KeepAllButCR
  <2> QED BY <2>4, <2>5
<1>2. CASE ObservePackage
  BY <1>2
  DEF ObservePackage, GetPackage, Keep, At, Steps
<1>3. CASE ObserveLabels
  <2> DEFINE obj == mg
  <2>1. /\ obj \in Composition
        /\ mg.label # NoLabel => obj.label = mg.label
        /\ obj.label \in ReleaseNames
    BY <1>3 DEF ObserveLabels, At
  <2>2. op # "none" /\ KeepAllButCR /\ SaveMeta(obj, "find")
    BY <1>3 DEF ObserveLabels, At
  <2>3. "find" \in Steps
    BY DEF Steps
  <2>4. /\ TypeOK' /\ OneRelease' /\ ReleaseCovered' /\ CopyInv'
        /\ pc' # "error" => pc' = "find" /\ mg'.label = obj.label
    BY <2>1, <2>2, <2>3, SaveMetaKeeps
  <2>5. NameInv' /\ HelmInv' /\ RollbackInv' /\ DeleteInv' /\ FinalizeInv'
    BY <1>3, <2>1, <2>2, <2>4 DEF ObserveLabels, At, KeepAllButCR
  <2> QED BY <2>4, <2>5
<1>4. CASE ObserveFind
  <2>1. CASE rel[mg.label] = NoRelease
    <3>1. NewComposition \in Composition /\ NewComposition.label = NoLabel
      BY HandlerAssumption DEF NewComposition, NewStatus, Composition, Status
    <3> QED BY <1>4, <2>1, <3>1, HandlerAssumption
            DEF ObserveFind, Finish, Forget, At, Steps
  <2>2. CASE rel[mg.label] # NoRelease
    BY <1>4, <2>2 DEF ObserveFind, At, Steps
  <2> QED BY <2>1, <2>2
<1>5. CASE ObserveRollback
  <2> DEFINE release == [old EXCEPT !.status = "deployed"]
  <2>1. /\ mg.label \in ReleaseNames /\ mg.label = cr.label
        /\ old \in Release /\ old = rel[mg.label]
    BY <1>5 DEF ObserveRollback, At
  <2>2. release \in Release /\ release.manifest = old.manifest
    BY <2>1 DEF Release
  <2>3. /\ rel' = [rel EXCEPT ![mg.label] = release]
        /\ old' = release /\ pc' = "generate" /\ op' = op /\ op = "Observe"
        /\ UNCHANGED <<life, cr, chart, roles, safe, queue, mg, fresh, pkg, gen, new, bounds>>
    BY <1>5, <2>1 DEF ObserveRollback, At
  <2>4. TypeOK' /\ OneRelease' /\ ReleaseCovered'
    BY <2>1, <2>2, <2>3, NoReleaseAssumption DEF Steps
  <2>5. CopyInv' /\ NameInv' /\ HelmInv' /\ RollbackInv' /\ DeleteInv' /\ FinalizeInv'
    BY <2>1, <2>2, <2>3
  <2> QED BY <2>4, <2>5
<1>6. CASE ObserveGenerate
  <2>1. TypeOK' /\ OneRelease' /\ ReleaseCovered' /\ CopyInv'
    BY <1>6, GenerateKeeps DEF ObserveGenerate, At, Steps
  <2>2. NameInv' /\ HelmInv' /\ RollbackInv' /\ DeleteInv' /\ FinalizeInv'
    BY <1>6, GenerateKeeps DEF ObserveGenerate, At, Steps, Generate, Keep
  <2> QED BY <2>1, <2>2
<1>7. CASE ObserveRBAC
  <2>1. TypeOK' /\ OneRelease' /\ ReleaseCovered' /\ CopyInv'
    BY <1>7, ApplyRBACKeeps DEF ObserveRBAC, At, Steps
  <2>2. NameInv' /\ HelmInv' /\ RollbackInv' /\ DeleteInv' /\ FinalizeInv'
    BY <1>7, ApplyRBACKeeps DEF ObserveRBAC, At, Steps, OnError
  <2> QED BY <2>1, <2>2
<1>8. CASE ObserveUpgrade
  <2>1. TypeOK' /\ OneRelease' /\ ReleaseCovered' /\ CopyInv'
    BY <1>8, HelmStartsKeeps DEF ObserveUpgrade, At, Steps
  <2>2. NameInv' /\ HelmInv' /\ RollbackInv' /\ DeleteInv' /\ FinalizeInv'
    BY <1>8, HelmStartsKeeps DEF ObserveUpgrade, At, Steps
  <2> QED BY <2>1, <2>2
<1>9. CASE ObserveReport
  <2>1. CASE DigestOf(new) # PreviousDigest \/ old.chart # new.chart
    <3>1. NewComposition \in Composition /\ NewComposition.label = NoLabel
      BY HandlerAssumption DEF NewComposition, NewStatus, Composition, Status
    <3>2. UNCHANGED <<cluster, safe, bounds>> /\ Finish({"Update"})
      BY <1>9, <2>1 DEF ObserveReport
    <3> QED BY <3>1, <3>2, HandlerAssumption DEF Finish, Forget, Steps
  <2>2. CASE ~(DigestOf(new) # PreviousDigest \/ old.chart # new.chart)
    <3> DEFINE status == SetStatus(mg.status, EmptyManifest, DigestOf(new), pkg)
    <3>1. status \in Status
      BY SetStatusType, ReportTypes, HandlerAssumption DEF Composition
    <3>2. op # "none" /\ op = "Observe" /\ pc = "report" /\ KeepAllButCR
          /\ SaveStatus(status, "return")
      BY <1>9, <2>2 DEF ObserveReport, At
    <3>3. "return" \in Steps
      BY DEF Steps
    <3>4. /\ TypeOK' /\ OneRelease' /\ ReleaseCovered' /\ CopyInv'
          /\ pc' \in {"return", "error"}
      BY <3>1, <3>2, <3>3, SaveStatusKeeps
    <3>5. NameInv' /\ HelmInv' /\ RollbackInv' /\ DeleteInv' /\ FinalizeInv'
      BY <3>2, <3>4 DEF KeepAllButCR
    <3> QED BY <3>4, <3>5
  <2> QED BY <2>1, <2>2
<1>10. CASE ObserveUnavailable
  <2> DEFINE status == [mg.status EXCEPT !.ready = "Unavailable"]
  <2>1. status \in Status
    BY DEF Composition, Status
  <2>2. op # "none" /\ KeepAllButCR /\ SaveStatus(status, "error")
    BY <1>10 DEF ObserveUnavailable, At
  <2>3. "error" \in Steps
    BY DEF Steps
  <2>4. /\ TypeOK' /\ OneRelease' /\ ReleaseCovered' /\ CopyInv'
        /\ pc' \in {"error", "error"}
        /\ mg'.label = mg.label
    BY <2>1, <2>2, <2>3, SaveStatusKeeps
  <2>5. NameInv' /\ HelmInv' /\ RollbackInv' /\ DeleteInv' /\ FinalizeInv'
    BY <1>10, <2>2, <2>4 DEF ObserveUnavailable, At, KeepAllButCR
  <2> QED BY <2>4, <2>5
<1> QED BY <1>1, <1>2, <1>3, <1>4, <1>5, <1>6, <1>7, <1>8, <1>9, <1>10 DEF Observe

\* The steps of Create.
LEMMA CreateStep ==
  ASSUME IInv, Create
  PROVE  IInv'
<1> USE DEF IInv, TypeOK, OneRelease, ReleaseCovered, NoReleases, CopyInv, NameInv,
           HelmInv, RollbackInv, DeleteInv, FinalizeInv,
           GracefullyPaused, cluster, worker, locals, bounds
<1>1. CASE CreateSave
  <2> DEFINE obj == SetReleaseName(mg)
  <2>1. /\ obj \in Composition
        /\ mg.label # NoLabel => obj.label = mg.label
        /\ obj.label \in ReleaseNames
    BY ReleaseNameKept
  <2>2. op # "none" /\ KeepAllButCR /\ SaveMeta(obj, "package")
    BY <1>1 DEF CreateSave, At
  <2>3. "package" \in Steps
    BY DEF Steps
  <2>4. /\ TypeOK' /\ OneRelease' /\ ReleaseCovered' /\ CopyInv'
        /\ pc' # "error" => pc' = "package" /\ mg'.label = obj.label
    BY <2>1, <2>2, <2>3, SaveMetaKeeps
  <2>5. NameInv' /\ HelmInv' /\ RollbackInv' /\ DeleteInv' /\ FinalizeInv'
    BY <1>1, <2>1, <2>2, <2>4 DEF CreateSave, At, KeepAllButCR
  <2> QED BY <2>4, <2>5
<1>2. CASE CreatePackage
  BY <1>2
  DEF CreatePackage, GetPackage, Keep, At, Steps
<1>3. CASE CreateGenerate
  <2>1. TypeOK' /\ OneRelease' /\ ReleaseCovered' /\ CopyInv'
    BY <1>3, GenerateKeeps DEF CreateGenerate, At, Steps
  <2>2. NameInv' /\ HelmInv' /\ RollbackInv' /\ DeleteInv' /\ FinalizeInv'
    BY <1>3, GenerateKeeps DEF CreateGenerate, At, Steps, Generate, Keep
  <2> QED BY <2>1, <2>2
<1>4. CASE CreateRBAC
  <2>1. TypeOK' /\ OneRelease' /\ ReleaseCovered' /\ CopyInv'
    BY <1>4, ApplyRBACKeeps DEF CreateRBAC, At, Steps
  <2>2. NameInv' /\ HelmInv' /\ RollbackInv' /\ DeleteInv' /\ FinalizeInv'
    BY <1>4, ApplyRBACKeeps DEF CreateRBAC, At, Steps, OnError
  <2> QED BY <2>1, <2>2
<1>5. CASE CreateFind
  BY <1>5
  DEF CreateFind, Keep, At, Steps
<1>6. CASE CreateUpgrade
  <2>1. TypeOK' /\ OneRelease' /\ ReleaseCovered' /\ CopyInv'
    BY <1>6, HelmStartsKeeps DEF CreateUpgrade, At, Steps
  <2>2. NameInv' /\ HelmInv' /\ RollbackInv' /\ DeleteInv' /\ FinalizeInv'
    BY <1>6, HelmStartsKeeps DEF CreateUpgrade, At, Steps
  <2> QED BY <2>1, <2>2
<1>7. CASE CreateInstall
  <2>1. TypeOK' /\ OneRelease' /\ ReleaseCovered' /\ CopyInv'
    BY <1>7, HelmStartsKeeps DEF CreateInstall, At, Steps
  <2>2. NameInv' /\ HelmInv' /\ RollbackInv' /\ DeleteInv' /\ FinalizeInv'
    BY <1>7, HelmStartsKeeps DEF CreateInstall, At, Steps
  <2> QED BY <2>1, <2>2
<1>8. CASE CreateStatus
  <2> DEFINE status == SetStatus(mg.status, ObjectsOf(new), DigestOf(new), pkg)
  <2>1. status \in Status
    BY SetStatusType, ReportTypes DEF Composition
  <2>2. op # "none" /\ KeepAllButCR /\ SaveStatus(status, "unpause")
    BY <1>8 DEF CreateStatus, At
  <2>3. "unpause" \in Steps
    BY DEF Steps
  <2>4. /\ TypeOK' /\ OneRelease' /\ ReleaseCovered' /\ CopyInv'
        /\ pc' \in {"unpause", "error"}
        /\ mg'.label = mg.label
    BY <2>1, <2>2, <2>3, SaveStatusKeeps
  <2>5. NameInv' /\ HelmInv' /\ RollbackInv' /\ DeleteInv' /\ FinalizeInv'
    BY <1>8, <2>2, <2>4 DEF CreateStatus, At, KeepAllButCR
  <2> QED BY <2>4, <2>5
<1>9. CASE CreateUnpause
  <2> DEFINE obj == RemovePausedTime(mg)
  <2>1. /\ obj \in Composition
        /\ mg.label # NoLabel => obj.label = mg.label
        /\ obj.label \in ReleaseNames
    BY <1>9, PausedTimeOnly DEF CreateUnpause, At, RemovePausedTime
  <2>2. op # "none" /\ KeepAllButCR /\ SaveMeta(obj, "return")
    BY <1>9 DEF CreateUnpause, At
  <2>3. "return" \in Steps
    BY DEF Steps
  <2>4. /\ TypeOK' /\ OneRelease' /\ ReleaseCovered' /\ CopyInv'
        /\ pc' # "error" => pc' = "return" /\ mg'.label = obj.label
    BY <2>1, <2>2, <2>3, SaveMetaKeeps
  <2>5. NameInv' /\ HelmInv' /\ RollbackInv' /\ DeleteInv' /\ FinalizeInv'
    BY <1>9, <2>1, <2>2, <2>4 DEF CreateUnpause, At, KeepAllButCR
  <2> QED BY <2>4, <2>5
<1> QED BY <1>1, <1>2, <1>3, <1>4, <1>5, <1>6, <1>7, <1>8, <1>9 DEF Create

\* The steps of Update.
LEMMA UpdateStep ==
  ASSUME IInv, Update
  PROVE  IInv'
<1> USE DEF IInv, TypeOK, OneRelease, ReleaseCovered, NoReleases, CopyInv, NameInv,
           HelmInv, RollbackInv, DeleteInv, FinalizeInv,
           GracefullyPaused, cluster, worker, locals, bounds
<1>1. CASE UpdatePackage
  BY <1>1
  DEF UpdatePackage, GetPackage, Keep, At, Steps
<1>2. CASE UpdateFind
  BY <1>2
  DEF UpdateFind, Found, Keep, At, Steps, Composition
<1>3. CASE UpdateStatus
  <2> DEFINE status == SetStatus([mg.status EXCEPT !.managed = ObjectsOf(new)],
                             ObjectsOf(new), DigestOf(new), pkg)
  <2>1. status \in Status
    BY SetStatusType, ReportTypes DEF Composition, Status
  <2>2. op # "none" /\ KeepAllButCR /\ SaveStatus(status, "pause")
    BY <1>3 DEF UpdateStatus, At
  <2>3. "pause" \in Steps
    BY DEF Steps
  <2>4. /\ TypeOK' /\ OneRelease' /\ ReleaseCovered' /\ CopyInv'
        /\ pc' \in {"pause", "error"}
        /\ mg'.label = mg.label
    BY <2>1, <2>2, <2>3, SaveStatusKeeps
  <2>5. NameInv' /\ HelmInv' /\ RollbackInv' /\ DeleteInv' /\ FinalizeInv'
    BY <1>3, <2>2, <2>4 DEF UpdateStatus, At, KeepAllButCR
  <2> QED BY <2>4, <2>5
<1>4. CASE UpdatePause
  <2> DEFINE obj == [mg EXCEPT !.pausedTime = mg.paused]
  <2>1. /\ obj \in Composition
        /\ mg.label # NoLabel => obj.label = mg.label
    BY PausedTimeOnly DEF Composition
  <2>2. op # "none" /\ KeepAllButCR /\ SaveMeta(obj, "return")
    BY <1>4 DEF UpdatePause, At
  <2>3. "return" \in Steps
    BY DEF Steps
  <2>4. /\ TypeOK' /\ OneRelease' /\ ReleaseCovered' /\ CopyInv'
        /\ pc' # "error" => pc' = "return" /\ mg'.label = obj.label
    BY <2>1, <2>2, <2>3, SaveMetaKeeps
  <2>5. NameInv' /\ HelmInv' /\ RollbackInv' /\ DeleteInv' /\ FinalizeInv'
    BY <1>4, <2>1, <2>2, <2>4 DEF UpdatePause, At, KeepAllButCR
  <2> QED BY <2>4, <2>5
<1> QED BY <1>1, <1>2, <1>3, <1>4 DEF Update

\* The steps of Delete.
LEMMA DeleteStep ==
  ASSUME IInv, Delete
  PROVE  IInv'
<1> USE DEF IInv, TypeOK, OneRelease, ReleaseCovered, NoReleases, CopyInv, NameInv,
           HelmInv, RollbackInv, DeleteInv, FinalizeInv,
           GracefullyPaused, cluster, worker, locals, bounds
<1>1. CASE DeletePackage
  BY <1>1
  DEF DeletePackage, GetPackage, Keep, At, Steps
<1>2. CASE DeleteFind
  BY <1>2
  DEF DeleteFind, Found, Keep, At, Steps, Composition
<1>3. CASE DeleteUninstall
  BY <1>3
  DEF DeleteUninstall, At, Steps
<1>4. CASE DeleteConfirm
  BY <1>4
  DEF DeleteConfirm, Found, Keep, At, Steps
<1>5. CASE DeleteGenerate
  <2>1. TypeOK' /\ OneRelease' /\ ReleaseCovered' /\ CopyInv'
    BY <1>5, GenerateKeeps DEF DeleteGenerate, At, Steps
  <2>2. NameInv' /\ HelmInv' /\ RollbackInv' /\ DeleteInv' /\ FinalizeInv'
    BY <1>5, GenerateKeeps DEF DeleteGenerate, At, Steps, Generate, Keep
  <2> QED BY <2>1, <2>2
<1>6. CASE DeleteRBAC
  <2>1. PICK rules \in SUBSET roles[mg.label] : roles' = [roles EXCEPT ![mg.label] = rules]
    BY <1>6 DEF DeleteRBAC
  <2>2. /\ UNCHANGED <<life, cr, chart, rel, safe, op, queue, locals, edits>>
        /\ op = "Delete" /\ pc = "rbac" /\ pc' \in {"unpause", "error"}
    BY <1>6 DEF DeleteRBAC, At
  <2>3. faults' \in 0 .. MaxFaults
    BY <1>6, HandlerAssumption DEF DeleteRBAC, Fault
  <2>4. TypeOK'
    BY <2>1, <2>2, <2>3 DEF Steps
  <2>5. OneRelease' /\ ReleaseCovered' /\ CopyInv'
    BY <2>2
  <2>6. NameInv' /\ HelmInv' /\ RollbackInv' /\ DeleteInv' /\ FinalizeInv'
    BY <2>2
  <2> QED BY <2>4, <2>5, <2>6
<1>7. CASE DeleteUnpause
  <2> DEFINE obj == RemovePausedTime(mg)
  <2>1. /\ obj \in Composition
        /\ mg.label # NoLabel => obj.label = mg.label
        /\ obj.label \in ReleaseNames
    BY <1>7, PausedTimeOnly DEF DeleteUnpause, At, RemovePausedTime
  <2>2. op # "none" /\ KeepAllButCR /\ SaveMeta(obj, "finalize")
    BY <1>7 DEF DeleteUnpause, At
  <2>3. "finalize" \in Steps
    BY DEF Steps
  <2>4. /\ TypeOK' /\ OneRelease' /\ ReleaseCovered' /\ CopyInv'
        /\ pc' # "error" => pc' = "finalize" /\ mg'.label = obj.label
    BY <2>1, <2>2, <2>3, SaveMetaKeeps
  <2>5. NameInv' /\ HelmInv' /\ RollbackInv' /\ DeleteInv' /\ FinalizeInv'
    BY <1>7, <2>1, <2>2, <2>4 DEF DeleteUnpause, At, KeepAllButCR
  <2> QED BY <2>4, <2>5
<1> QED BY <1>1, <1>2, <1>3, <1>4, <1>5, <1>6, <1>7 DEF Delete

\* The end of a Helm operation.
LEMMA HelmEndsStep ==
  ASSUME IInv, HelmEnds
  PROVE  IInv'
<1> USE DEF IInv, TypeOK, OneRelease, ReleaseCovered, NoReleases, CopyInv, NameInv,
           HelmInv, RollbackInv, DeleteInv, FinalizeInv,
           GracefullyPaused, cluster, worker, locals, bounds
<1> DEFINE release(status) == [rel[mg.label] EXCEPT !.status = status]
<1>1. /\ mg.label \in ReleaseNames /\ mg.label = cr.label
      /\ rel[mg.label] \in Release /\ op \in {"Observe", "Create"}
  BY DEF HelmEnds
<1>2. \A status \in {"deployed", "failed", "pending"} :
        /\ release(status) \in Release
        /\ release(status).manifest = rel[mg.label].manifest
  BY <1>1 DEF Release
<1>3. PICK status \in {"deployed", "failed", "pending"} :
        /\ rel' = [rel EXCEPT ![mg.label] = release(status)]
        /\ new' \in {new, release(status)}
        /\ pc' \in {"report", "status", "unavailable", "error"}
        /\ UNCHANGED <<life, cr, chart, roles, safe, op, queue, mg, fresh, pkg, gen, old, edits>>
        /\ faults' \in 0 .. MaxFaults
  BY <1>1, HandlerAssumption DEF HelmEnds, OnError, Fault
<1>4. TypeOK' /\ OneRelease' /\ ReleaseCovered'
  BY <1>1, <1>2, <1>3, NoReleaseAssumption DEF Steps
<1>5. CopyInv' /\ NameInv' /\ HelmInv' /\ RollbackInv' /\ DeleteInv' /\ FinalizeInv'
  BY <1>1, <1>3
<1> QED BY <1>4, <1>5

\* The steps of the users.
LEMMA UserStep ==
  ASSUME IInv, EditComposition \/ ReleaseChart
  PROVE  IInv'
<1> USE DEF IInv, TypeOK, OneRelease, ReleaseCovered, NoReleases, CopyInv, NameInv,
           HelmInv, RollbackInv, DeleteInv, FinalizeInv,
           GracefullyPaused, cluster, worker, locals, bounds
<1>1. CASE EditComposition
  <2>1. cr' \in Composition /\ cr'.label = cr.label
    BY <1>1 DEF EditComposition, Composition
  <2>2. /\ fresh' \in BOOLEAN /\ (op # "none" => ~fresh')
        /\ UNCHANGED <<chart, rel, roles, safe, worker, mg, pkg, gen, old, new, faults>>
    BY <1>1 DEF EditComposition
  <2>3. life' \in {"present", "deleting", "gone"}
    BY <1>1 DEF EditComposition
  <2>4. edits' \in 0 .. MaxEdits
    BY <1>1, HandlerAssumption DEF EditComposition, Edit
  <2>5. TypeOK'
    BY <2>1, <2>2, <2>3, <2>4
  <2>6. OneRelease' /\ ReleaseCovered' /\ CopyInv'
    BY <2>1, <2>2
  <2>7. NameInv' /\ HelmInv' /\ RollbackInv' /\ DeleteInv' /\ FinalizeInv'
    BY <2>2
  <2> QED BY <2>5, <2>6, <2>7
<1>2. CASE ReleaseChart
  BY <1>2, HandlerAssumption
  DEF ReleaseChart, Edit
<1> QED BY <1>1, <1>2

-----------------------------------------------------------------------------
(* The theorems. *)

\* The invariant holds in every state of every behaviour.
THEOREM Invariance == Spec => []IInv
<1>1. Init => IInv
  BY HandlerAssumption, NoReleaseAssumption
  DEF Init, IInv, TypeOK, OneRelease, ReleaseCovered, NoReleases, CopyInv, NameInv,
      HelmInv, RollbackInv, DeleteInv, FinalizeInv, NewComposition, NewStatus,
      Composition, Status, Steps
<1>2. IInv /\ [Next]_vars => IInv'
  <2> SUFFICES ASSUME IInv, [Next]_vars PROVE IInv'
    OBVIOUS
  <2>1. CASE UNCHANGED vars
    BY <2>1 DEF vars, cluster, worker, locals, bounds, IInv, TypeOK, OneRelease,
       ReleaseCovered, NoReleases, CopyInv, NameInv, HelmInv, RollbackInv,
       DeleteInv, FinalizeInv, GracefullyPaused
  <2>2. CASE Worker \/ Restart
    BY <2>2, RuntimeStep, ObserveStep, CreateStep, UpdateStep, DeleteStep,
       HelmEndsStep DEF Worker
  <2>3. CASE EditComposition \/ ReleaseChart
    BY <2>3, UserStep
  <2> QED BY <2>1, <2>2, <2>3 DEF Next, Gone
<1> QED BY <1>1, <1>2, PTL DEF Spec

\* Every variable keeps its type.
THEOREM TypeCorrect == Spec => []TypeOK
  BY Invariance, PTL DEF IInv

\* A composition never has two releases, however often the release naming flag
\* changes and wherever the controller is interrupted.
THEOREM AtMostOneRelease == Spec => []OneRelease
  BY Invariance, PTL DEF IInv

\* The RBAC of a release outlives the release.
THEOREM RBACCoversRelease == Spec => []ReleaseCovered
  BY Invariance, PTL DEF IInv

-----------------------------------------------------------------------------
(* The action properties. *)

\* A write whose object has the user's fields of the handler's copy leaves them
\* as they are stored: the copy is current, or the write is refused.
LEMMA SaveKeepsUserFields ==
  ASSUME IInv, op # "none"
  PROVE  /\ \A obj \in Composition, step \in Steps :
              SaveMeta(obj, step) /\ obj.spec = mg.spec /\ obj.paused = mg.paused
                => cr'.spec = cr.spec /\ cr'.paused = cr.paused
         /\ \A status \in Status, step \in Steps :
              SaveStatus(status, step) => cr'.spec = cr.spec /\ cr'.paused = cr.paused
<1>1. cr \in Composition /\ (fresh => mg = cr)
  BY DEF IInv, TypeOK, CopyInv
<1>2. ASSUME NEW obj \in Composition, NEW step \in Steps, SaveMeta(obj, step),
             obj.spec = mg.spec, obj.paused = mg.paused
      PROVE  cr'.spec = cr.spec /\ cr'.paused = cr.paused
  BY <1>1, <1>2 DEF SaveMeta, Composition
<1>3. ASSUME NEW status \in Status, NEW step \in Steps, SaveStatus(status, step)
      PROVE  cr'.spec = cr.spec /\ cr'.paused = cr.paused
  BY <1>1, <1>3 DEF SaveStatus, Composition
<1> QED BY <1>2, <1>3

LEMMA WorkerKeepsUserFields ==
  ASSUME IInv, Worker
  PROVE  cr'.spec = cr.spec /\ cr'.paused = cr.paused
<1>1. /\ mg \in Composition /\ safe \in BOOLEAN /\ mg.paused \in BOOLEAN
      /\ mg.status \in Status /\ pkg \in Charts /\ cr \in Composition
      /\ new \in Release \cup {NoRelease}
  BY DEF IInv, TypeOK, Composition
<1>2. CASE ObserveSave
  <2> DEFINE obj == RemovePausedTime(SetReleaseName(mg))
  <2>1. obj \in Composition /\ obj.spec = mg.spec /\ obj.paused = mg.paused
    BY <1>1, ReleaseNameKept, PausedTimeOnly DEF RemovePausedTime
  <2>2. op # "none" /\ SaveMeta(obj, "package") /\ "package" \in Steps
    BY <1>2 DEF ObserveSave, At, Steps
  <2> QED BY <2>1, <2>2, SaveKeepsUserFields
<1>3. CASE CreateSave
  <2> DEFINE obj == SetReleaseName(mg)
  <2>1. obj \in Composition /\ obj.spec = mg.spec /\ obj.paused = mg.paused
    BY <1>1, ReleaseNameKept
  <2>2. op # "none" /\ SaveMeta(obj, "package") /\ "package" \in Steps
    BY <1>3 DEF CreateSave, At, Steps
  <2> QED BY <2>1, <2>2, SaveKeepsUserFields
<1>4. CASE ObserveLabels
  <2>1. op # "none" /\ SaveMeta(mg, "find") /\ "find" \in Steps
    BY <1>4 DEF ObserveLabels, At, Steps
  <2> QED BY <1>1, <2>1, SaveKeepsUserFields
<1>5. CASE CreateUnpause \/ DeleteUnpause \/ UpdatePause
  <2>1. PICK time \in BOOLEAN, step \in Steps :
          SaveMeta([mg EXCEPT !.pausedTime = time], step)
    BY <1>1, <1>5 DEF CreateUnpause, DeleteUnpause, UpdatePause, RemovePausedTime, Steps
  <2>2. op # "none"
    BY <1>5 DEF CreateUnpause, DeleteUnpause, UpdatePause, At
  <2> QED BY <1>1, <2>1, <2>2, PausedTimeOnly, SaveKeepsUserFields
<1>6. CASE ObserveReport \/ ObserveUnavailable \/ CreateStatus \/ UpdateStatus
  <2>1. /\ SetStatus(mg.status, EmptyManifest, DigestOf(new), pkg) \in Status
        /\ [mg.status EXCEPT !.ready = "Unavailable"] \in Status
        /\ SetStatus(mg.status, ObjectsOf(new), DigestOf(new), pkg) \in Status
        /\ SetStatus([mg.status EXCEPT !.managed = ObjectsOf(new)],
                     ObjectsOf(new), DigestOf(new), pkg) \in Status
    BY <1>1, SetStatusType, ReportTypes, HandlerAssumption DEF Status
  <2>2. /\ op # "none"
        /\ cr' = cr \/ \E status \in Status, step \in Steps : SaveStatus(status, step)
    BY <1>6, <2>1 DEF ObserveReport, ObserveUnavailable, CreateStatus, UpdateStatus,
                      At, Steps, cluster
  <2> QED BY <2>2, SaveKeepsUserFields
<1>7. CASE \/ BeginObserve \/ BeginQueued \/ BeginDelete \/ Return \/ ReturnError
           \/ Finalize \/ CallFails \/ HelmEnds
  BY <1>7 DEF BeginObserve, BeginQueued, BeginDelete, Begin, Return, ReturnError,
              Finalize, CallFails, HelmEnds, cluster
<1>8. CASE \/ ObservePackage \/ ObserveFind \/ ObserveRollback \/ ObserveGenerate
           \/ ObserveRBAC \/ ObserveUpgrade \/ CreatePackage \/ CreateGenerate
           \/ CreateRBAC \/ CreateFind \/ CreateUpgrade \/ CreateInstall
  BY <1>8 DEF ObservePackage, ObserveFind, ObserveRollback, ObserveGenerate,
              ObserveRBAC, ObserveUpgrade, CreatePackage, CreateGenerate, CreateRBAC,
              CreateFind, CreateUpgrade, CreateInstall, GetPackage, Generate,
              ApplyRBAC, HelmStarts, Keep, cluster
<1>9. CASE \/ UpdatePackage \/ UpdateFind \/ DeletePackage \/ DeleteFind
           \/ DeleteUninstall \/ DeleteConfirm \/ DeleteGenerate \/ DeleteRBAC
  BY <1>9 DEF UpdatePackage, UpdateFind, DeletePackage, DeleteFind, DeleteUninstall,
              DeleteConfirm, DeleteGenerate, DeleteRBAC, GetPackage, Generate, Keep,
              cluster
<1> QED BY <1>2, <1>3, <1>4, <1>5, <1>6, <1>7, <1>8, <1>9
        DEF Worker, Observe, Create, Update, Delete

\* What a user wrote is never undone by a handler that read the composition
\* before: a handler's copy is the stored composition or its write is refused.
THEOREM UsersAreNotOverwritten == Spec => UserFieldsKept
<1>1. IInv => [Worker => cr'.spec = cr.spec /\ cr'.paused = cr.paused]_vars
  BY WorkerKeepsUserFields
<1> QED BY <1>1, Invariance, PTL DEF UserFieldsKept

\* The runtime is told that a composition is deleted only when no release of it
\* is left, unless the composition was paused.
THEOREM DeletionIsLast == Spec => FinalizerLast
<1>1. IInv /\ [Next]_vars =>
        [life # "gone" /\ life' = "gone" => GracefullyPaused(mg) \/ NoReleases]_vars
  <2> SUFFICES ASSUME IInv, Next, life # "gone", life' = "gone"
               PROVE  GracefullyPaused(mg) \/ NoReleases
    BY DEF vars, cluster
  <2>1. CASE Finalize
    BY <2>1 DEF Finalize, IInv, FinalizeInv
  <2>2. CASE ~Finalize
    <3>1. ~Observe /\ ~Create /\ ~Update /\ ~Delete
      BY DEF Observe, Create, Update, Delete, ObserveSave, ObservePackage,
        ObserveLabels, ObserveFind, ObserveRollback, ObserveGenerate, ObserveRBAC,
        ObserveUpgrade, ObserveReport, ObserveUnavailable, CreateSave, CreatePackage,
        CreateGenerate, CreateRBAC, CreateFind, CreateUpgrade, CreateInstall,
        CreateStatus, CreateUnpause, UpdatePackage, UpdateFind, UpdateStatus,
        UpdatePause, DeletePackage, DeleteFind, DeleteUninstall, DeleteConfirm,
        DeleteGenerate, DeleteRBAC, DeleteUnpause, GetPackage, Generate, ApplyRBAC,
        HelmStarts, Keep, KeepAllButCR, cluster
    <3>2. ~BeginObserve /\ ~BeginQueued /\ ~BeginDelete /\ ~Return /\ ~ReturnError
          /\ ~CallFails /\ ~HelmEnds /\ ~Restart
      BY DEF BeginObserve, BeginQueued, BeginDelete, Begin, Return, ReturnError,
        CallFails, HelmEnds, Restart, cluster
    <3>3. ~EditComposition /\ ~ReleaseChart /\ ~Gone
      BY DEF EditComposition, ReleaseChart, Gone
    <3> QED BY <2>2, <3>1, <3>2, <3>3 DEF Next, Worker
  <2> QED BY <2>1, <2>2
<1> QED BY <1>1, Invariance, PTL DEF Spec, FinalizerLast, NoReleases

=============================================================================
