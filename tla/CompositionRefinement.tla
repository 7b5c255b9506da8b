----------------------- MODULE CompositionRefinement -----------------------
(***************************************************************************)
(* The handlers implement the lifecycle: their calls, seen through the     *)
(* release the composition's label names, are its steps or stutters.       *)
(***************************************************************************)
EXTENDS CompositionHandler

\* What is known under a release name, as seen through the label.
Labelled(f, nothing) == IF cr.label = NoLabel THEN nothing ELSE f[cr.label]

LastRevision ==
  LET release == Labelled(rel, NoRelease)
  IN IF release = NoRelease THEN NoRelease
     ELSE [status |-> release.status, manifest |-> release.manifest]

Granted  == Labelled(roles, {})
Frozen   == GracefullyPaused(cr)
Creating == op = "Create" /\ pc # "return"
Spared   == pc = "finalize" /\ GracefullyPaused(mg)

Lifecycle == INSTANCE CompositionLifecycle WITH
  object   <- life,
  revision <- LastRevision,
  granted  <- Granted,
  reported <- cr.status.digest,
  frozen   <- Frozen,
  creating <- Creating,
  spared   <- Spared

ASSUME NoRevisionAssumption == NoRelease \notin Lifecycle!Revision

\* The handlers, with every interleaving, failure and restart, do what the
\* lifecycle allows and nothing else.
ImplementsLifecycle == Lifecycle!Spec
=============================================================================
