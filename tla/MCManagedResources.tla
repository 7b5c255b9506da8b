-------------------------- MODULE MCManagedResources --------------------------
(* Two kinds that keep their scope and one that does not; an object without a  *)
(* namespace in its manifest, one with, and one that has it in vain.           *)
EXTENDS ManagedResources

CONSTANTS pod, role, widget, web, job, admin, gadget, home, other

MCKinds == {pod, role, widget}
MCScopeOf == [k \in MCKinds |-> IF k = role THEN "root" ELSE "namespaced"]
MCFickle == {widget}
MCObjects == {web, job, admin, gadget}
MCKindOf == [o \in MCObjects |->
               IF o = admin THEN role ELSE IF o = gadget THEN widget ELSE pod]
MCNamespaceIn == [o \in MCObjects |-> IF o \in {web, gadget} THEN NoNamespace ELSE other]
MCNamespaces == {home, other}
MCManifests == {<<web, admin>>, <<admin, job>>, <<gadget, web>>, <<job>>}
=============================================================================
