------------------------ MODULE CompositionLifecycle ------------------------
(***************************************************************************)
(* What the controller promises of one composition, whatever calls it      *)
(* takes: no handler, no copy and no queue.  A release is only deployed    *)
(* with the RBAC it needs, an operation only starts when no other one is   *)
(* open, the status reports the release that is there, a deletion takes    *)
(* the release before its RBAC and the object last, and a paused           *)
(* composition is left alone.                                              *)
(***************************************************************************)
CONSTANTS
  Manifests, EmptyManifest,
  Scopes,       \* the rules RBAC can grant
  Grants,       \* [Manifests -> SUBSET Scopes], the rules a manifest needs
  NoRelease, NoDigest

VARIABLES
  object,     \* the composition is "present", "deleting" or "gone"
  revision,   \* the last revision of its release
  granted,    \* the rules in place for it
  reported,   \* the digest in its status
  frozen,     \* it is gracefully paused
  creating,   \* Create has begun before the pause and may go on
  spared      \* its deletion found it paused and leaves the release

vars == <<object, revision, granted, reported, frozen, creating, spared>>

Revision == [status : {"pending", "deployed", "failed"}, manifest : Manifests]

Digest(manifest) == IF manifest = EmptyManifest THEN NoDigest ELSE manifest

Init ==
  /\ object = "present" /\ revision = NoRelease /\ granted = {}
  /\ reported = NoDigest
  /\ frozen = FALSE /\ creating = FALSE /\ spared = FALSE

\* May the controller work on the composition?
Active == object # "gone" /\ (object = "present" /\ frozen => creating)

\* RBAC is added, all of what was generated or part of it.
Grant ==
  /\ Active
  /\ granted' \in SUBSET Scopes /\ granted \subseteq granted'
  /\ UNCHANGED <<object, revision, reported, frozen, creating, spared>>

\* Helm starts an Install or an Upgrade.
Deploy ==
  /\ Active
  /\ revision # NoRelease => revision.status # "pending"
  /\ \E m \in Manifests :
       /\ Grants[m] \subseteq granted
       /\ revision' = [status |-> "pending", manifest |-> m]
  /\ UNCHANGED <<object, granted, reported, frozen, creating, spared>>

\* A Helm operation ends, or is rolled back.
Settle ==
  /\ Active
  /\ revision # NoRelease /\ revision.status = "pending"
  /\ \E status \in {"deployed", "failed"} :
       revision' = [revision EXCEPT !.status = status]
  /\ UNCHANGED <<object, granted, reported, frozen, creating, spared>>

\* The status reports the release; only Create reports none for a failed one.
Report ==
  /\ Active
  /\ \/ revision # NoRelease /\ reported' = Digest(revision.manifest)
     \/ creating /\ reported' = NoDigest
  /\ UNCHANGED <<object, revision, granted, frozen, creating, spared>>

Uninstall ==
  /\ object = "deleting"
  /\ revision' = NoRelease
  /\ UNCHANGED <<object, granted, reported, frozen, creating, spared>>

Revoke ==
  /\ object = "deleting" /\ revision = NoRelease
  /\ granted' \in SUBSET granted
  /\ UNCHANGED <<object, revision, reported, frozen, creating, spared>>

\* A pause begins or ends.
Pause ==
  /\ frozen' = ~frozen
  /\ UNCHANGED <<object, revision, granted, reported, creating, spared>>

BeginCreate ==
  /\ object # "gone" /\ ~frozen
  /\ creating' = TRUE
  /\ UNCHANGED <<object, revision, granted, reported, frozen, spared>>

EndCreate ==
  /\ creating' = FALSE
  /\ UNCHANGED <<object, revision, granted, reported, frozen, spared>>

RequestDeletion ==
  /\ object = "present" /\ object' = "deleting"
  /\ UNCHANGED <<revision, granted, reported, frozen, creating, spared>>

\* A deletion finds the composition paused, and gives up or ends.
Spare ==
  /\ object = "deleting"
  /\ frozen \/ spared
  /\ spared' = ~spared
  /\ UNCHANGED <<object, revision, granted, reported, frozen, creating>>

Remove ==
  /\ object = "deleting" /\ object' = "gone"
  /\ spared \/ revision = NoRelease
  /\ spared' = FALSE
  /\ UNCHANGED <<revision, granted, reported, frozen, creating>>

Next ==
  \/ Grant \/ Deploy \/ Settle \/ Report
  \/ Uninstall \/ Revoke \/ Remove \/ RequestDeletion
  \/ Pause \/ BeginCreate \/ EndCreate \/ Spare

Spec == Init /\ [][Next]_vars
=============================================================================
