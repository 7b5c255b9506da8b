----------------------------- MODULE RBACStore -----------------------------
(***************************************************************************)
(* What the handlers rely on of the RBAC installer, without its objects    *)
(* and their reads and writes: ApplyRBAC adds the rules it was asked for,  *)
(* role by role, and all of them are there when it succeeds; UninstallRBAC *)
(* takes whole roles away, and all of them are gone when it succeeds.  An  *)
(* apply may give up at any time, an uninstall only when a call fails.     *)
(***************************************************************************)
CONSTANTS
  Compositions, Names,
  Name,         \* [Compositions -> Names], the release name
  Scopes, Cluster, Kinds,
  Generated,    \* [Compositions -> SUBSET SUBSET Rule], what each may ask for
  Creates,      \* [Compositions -> SUBSET Scopes], the namespaces it creates
  Leaving,      \* the compositions that may be deleted
  Sheltered,    \* those that the deletion of others does not touch
  NothingYet

VARIABLES
  rules,     \* the rules in the roles of each release name
  call,      \* what runs for a composition: "apply", "uninstall" or "none"
  asked,     \* the rules it was called with
  applied,   \* the rules of the last apply that succeeded
  failures   \* the calls that have failed

vars == <<rules, call, asked, applied, failures>>

Rule == Scopes \X Kinds

In(scope, set) == {rule \in set : rule[1] = scope}

Init ==
  /\ rules = [n \in Names |-> {}]
  /\ call = [c \in Compositions |-> "none"]
  /\ asked = [c \in Compositions |-> {}]
  /\ applied = [c \in Compositions |-> NothingYet]
  /\ failures = 0

Begin(c, operation) ==
  /\ call[c] = "none" /\ call' = [call EXCEPT ![c] = operation]
  /\ \E set \in Generated[c] : asked' = [asked EXCEPT ![c] = set]

End(c) ==
  /\ call' = [call EXCEPT ![c] = "none"]
  /\ asked' = [asked EXCEPT ![c] = {}]

BeginApply(c) == Begin(c, "apply") /\ UNCHANGED <<rules, applied, failures>>

\* The rules of one role are added to those that are there.
AddRole(c) ==
  /\ call[c] = "apply"
  /\ \E scope \in Scopes :
       rules' = [rules EXCEPT ![Name[c]] = @ \cup In(scope, asked[c])]
  /\ UNCHANGED <<call, asked, applied, failures>>

Applied(c) ==
  /\ call[c] = "apply"
  /\ c \in Sheltered => asked[c] \subseteq rules[Name[c]]
  /\ applied' = [applied EXCEPT ![c] = asked[c]]
  /\ End(c)
  /\ UNCHANGED <<rules, failures>>

BeginUninstall(c) ==
  /\ c \in Leaving /\ Begin(c, "uninstall")
  /\ applied' = [applied EXCEPT ![c] = NothingYet]
  /\ UNCHANGED <<rules, failures>>

\* The scopes of the roles that are taken away.
Going(c) == {Cluster} \cup {rule[1] : rule \in asked[c]}

RemoveRole(c) ==
  /\ call[c] = "uninstall"
  /\ \E scope \in Going(c) :
       rules' = [rules EXCEPT ![Name[c]] = @ \ In(scope, @)]
  /\ UNCHANGED <<call, asked, applied, failures>>

Uninstalled(c) ==
  /\ call[c] = "uninstall"
  /\ (\A d \in Compositions \ {c} : Name[d] # Name[c])
       => \A scope \in Going(c) : In(scope, rules[Name[c]]) = {}
  /\ End(c)
  /\ UNCHANGED <<rules, applied, failures>>

GiveUp(c) ==
  /\ call[c] # "none" /\ End(c)
  /\ call[c] = "uninstall" => failures' # failures
  /\ UNCHANGED <<rules, applied>>

\* A namespace goes with the release that created it.
NamespaceGoes(c) ==
  /\ call[c] = "uninstall"
  /\ \E scope \in Creates[c] : rules' = [n \in Names |-> rules[n] \ In(scope, rules[n])]
  /\ UNCHANGED <<call, asked, applied, failures>>

Next ==
  \E c \in Compositions :
    \/ BeginApply(c) \/ AddRole(c) \/ Applied(c)
    \/ BeginUninstall(c) \/ RemoveRole(c) \/ Uninstalled(c)
    \/ GiveUp(c) \/ NamespaceGoes(c)

Spec == Init /\ [][Next]_vars
=============================================================================
