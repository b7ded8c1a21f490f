---------------------------- MODULE WorkloadRBAC ----------------------------
(***************************************************************************)
(* The identity of a cluster's pods: ensureServiceAccount and              *)
(* ensureWorkloadRBAC of generic_reconciler.go, and EnsureWorkloadRBAC of  *)
(* workload_rbac.go.  A ServiceAccount, a Role and a RoleBinding, all of   *)
(* one derived name, are kept in line with the rules the product declares; *)
(* an empty rule set revokes.  The three are read through three caches     *)
(* that fall behind on their own; writes carry the resourceVersion read.   *)
(* Meanwhile the product changes its rules, an administrator deletes       *)
(* objects and widens the operator's ClusterRole, and something else takes *)
(* a free name.                                                            *)
(***************************************************************************)
EXTENDS Integers, FiniteSets

CONSTANTS
  Held,             \* the rules the operator's ClusterRole covers
  RuleSets,         \* the rule sets the product may declare
  MaxRBACEvents     \* bound on the events around the reconciler

VARIABLES
  rbac,      \* object |-> it at the API server
  rbacRev,   \* the resourceVersion given out last
  rbacCache, \* object |-> it in its cache
  declared,  \* what WorkloadRBACRules returns, or NoHook
  powers,    \* the verbs `escalate' and `bind', if the operator holds them
  rbacPc,    \* the step the pass is at
  rbacEvents

rbacVars == <<rbac, rbacRev, rbacCache, declared, powers, rbacPc, rbacEvents>>

RBACObjects == {"sa", "role", "binding"}

\* The hook is nil: the product never opted in.
NoHook == {"nil"}

NoObject == [rv |-> 0, owner |-> "none", rules |-> {}, ref |-> "none", subject |-> "none"]
Found(o) == o.rv # 0

ASSUME RulesAssumption == "nil" \notin Held /\ NoHook \notin RuleSets /\ MaxRBACEvents \in Nat

RBACInit ==
  /\ rbac = [o \in RBACObjects |-> NoObject] /\ rbacCache = rbac /\ rbacRev = 0
  /\ declared = NoHook /\ powers = {} /\ rbacPc = "idle" /\ rbacEvents = 0

-----------------------------------------------------------------------------
(* CreateOrUpdate.                                                          *)

\* The object o as the pass wants it, over the one it has read.
WantedObject(o) ==
  CASE o = "sa"      -> [rbacCache[o] EXCEPT !.owner = "cr"]
    [] o = "role"    -> [rbacCache[o] EXCEPT !.owner = "cr", !.rules = declared]
    [] o = "binding" -> [rbacCache[o] EXCEPT !.owner = "cr", !.subject = "sa",
                                             !.ref = IF @ = "none" THEN "role" ELSE @]

\* The API server lets the operator grant what it holds; `escalate' waives the
\* check of a Role, `bind' that of a RoleBinding.
Permitted(o) ==
  CASE o = "sa"      -> TRUE
    [] o = "role"    -> declared \subseteq Held \/ "escalate" \in powers
    [] o = "binding" -> rbac["role"].rules \subseteq Held \/ "bind" \in powers

\* The roleRef the mutate function finds is the one it wants, or there is none.
RefAgrees == rbacCache["binding"].ref \in {"none", "role"}

\* Mutant: the mutate function trusts the check made before.
WritableUnchecked(o) ==
  rbacCache[o].owner # "other" /\ rbacCache[o].rv = rbac[o].rv /\ Permitted(o)

\* The write of object o goes through; else the pass ends with an error.
Writable(o) ==
  /\ rbacCache[o].owner # "other"
  /\ o = "binding" => RefAgrees
  /\ rbacCache[o].rv = rbac[o].rv
  /\ Permitted(o)

Ensured(o) ==
  IF WantedObject(o) = rbac[o]
  THEN UNCHANGED <<rbac, rbacRev>>
  ELSE /\ rbacRev' = rbacRev + 1
       /\ rbac' = [rbac EXCEPT ![o] = [WantedObject(o) EXCEPT !.rv = rbacRev + 1]]

\* One CreateOrUpdate of the pass, which goes on to next.
EnsureObject(o, at, next) ==
  /\ rbacPc = at
  /\ IF Writable(o)
     THEN Ensured(o) /\ rbacPc' = next
     ELSE UNCHANGED <<rbac, rbacRev>> /\ rbacPc' = "idle"
  /\ UNCHANGED <<rbacCache, declared, powers, rbacEvents>>

-----------------------------------------------------------------------------
(* The pass.                                                                *)

\* Mutant: an empty rule set leaves everything as it is.
RevokeIsNoOp(rules) ==
  IF rules = NoHook \/ rules = {} THEN "idle" ELSE "check"

\* Where ensureWorkloadRBAC goes: nowhere without a hook, to the revocation with no
\* rules.
RBACStart(rules) ==
  IF rules = NoHook THEN "idle" ELSE IF rules = {} THEN "unbind" ELSE "check"

ensureServiceAccount == EnsureObject("sa", "idle", RBACStart(declared))

\* checkWorkloadRoleRef, before anything is written.
checkWorkloadRoleRef ==
  /\ rbacPc = "check"
  /\ rbacPc' = IF RefAgrees THEN "role" ELSE "idle"
  /\ UNCHANGED <<rbac, rbacRev, rbacCache, declared, powers, rbacEvents>>

EnsureRole    == EnsureObject("role", "role", "binding")
EnsureBinding == EnsureObject("binding", "binding", "idle")

\* Mutant: whatever has the name is deleted.
RevocableAny(o) == Found(rbacCache[o])

\* Only what the CR controls is revoked.
Revocable(o) == Found(rbacCache[o]) /\ rbacCache[o].owner = "cr"

\* deleteWorkloadRBACIfOwned.  The Delete has no precondition.
deleteWorkloadRBACIfOwned(o, at, next) ==
  /\ rbacPc = at
  /\ rbac' = IF Revocable(o) THEN [rbac EXCEPT ![o] = NoObject] ELSE rbac
  /\ rbacPc' = next
  /\ UNCHANGED <<rbacRev, rbacCache, declared, powers, rbacEvents>>

\* reclaimWorkloadRBAC: the binding goes first.
RevokeBinding == deleteWorkloadRBACIfOwned("binding", "unbind", "unrole")
RevokeRole    == deleteWorkloadRBACIfOwned("role", "unrole", "idle")

RBACPass ==
  \/ ensureServiceAccount \/ checkWorkloadRoleRef \/ EnsureRole \/ EnsureBinding
  \/ RevokeBinding \/ RevokeRole

-----------------------------------------------------------------------------
(* The environment.                                                         *)

SyncRBAC(o) ==
  /\ rbacCache[o] # rbac[o]
  /\ rbacCache' = [rbacCache EXCEPT ![o] = rbac[o]]
  /\ UNCHANGED <<rbac, rbacRev, declared, powers, rbacPc, rbacEvents>>

RBACEvent == rbacEvents < MaxRBACEvents /\ rbacEvents' = rbacEvents + 1

\* The product declares other rules, or an operator without the hook starts.
Declare ==
  /\ RBACEvent
  /\ \E r \in RuleSets \cup {NoHook} : r # declared /\ declared' = r
  /\ UNCHANGED <<rbac, rbacRev, rbacCache, powers, rbacPc>>

\* The operator's own permissions change.
Empower ==
  /\ RBACEvent
  /\ \E p \in SUBSET {"escalate", "bind"} : p # powers /\ powers' = p
  /\ UNCHANGED <<rbac, rbacRev, rbacCache, declared, rbacPc>>

\* A crash, a failed call, or a 429.
RBACFail ==
  /\ RBACEvent /\ rbacPc # "idle"
  /\ rbacPc' = "idle"
  /\ UNCHANGED <<rbac, rbacRev, rbacCache, declared, powers>>

\* An object is deleted by hand, or appears under a free name, with or without a
\* controller; a binding points at this cluster's Role or elsewhere.
RBACIntrude ==
  /\ RBACEvent
  /\ \E o \in RBACObjects :
       \/ Found(rbac[o]) /\ rbac' = [rbac EXCEPT ![o] = NoObject] /\ UNCHANGED rbacRev
       \/ /\ ~Found(rbac[o])
          /\ rbacRev' = rbacRev + 1
          /\ \E owner \in {"none", "other"}, ref \in {"role", "elsewhere"} :
               rbac' = [rbac EXCEPT ![o] =
                          [rv |-> rbacRev + 1, owner |-> owner,
                           rules |-> {}, ref |-> IF o = "binding" THEN ref ELSE "none",
                           subject |-> "none"]]
  /\ UNCHANGED <<rbacCache, declared, powers, rbacPc>>

RBACNext ==
  \/ ensureServiceAccount \/ checkWorkloadRoleRef \/ EnsureRole \/ EnsureBinding
  \/ RevokeBinding \/ RevokeRole
  \/ \E o \in RBACObjects : SyncRBAC(o)
  \/ Declare \/ Empower \/ RBACFail \/ RBACIntrude

\* Passes are repeated, and every cache catches up.
RBACFairness ==
  /\ WF_rbacVars(RBACPass)
  /\ \A o \in RBACObjects : WF_rbacVars(SyncRBAC(o))

RBACSpec == RBACInit /\ [][RBACNext]_rbacVars /\ RBACFairness

-----------------------------------------------------------------------------

\* "A pre-existing RoleBinding is never re-pointed": the pods' ServiceAccount is
\* never made a subject of a binding that refers to anything but this cluster's
\* Role, also when one appears between the check and the write.
NoForeignGrant == rbac["binding"].subject = "sa" => rbac["binding"].ref = "role"

\* An object that another controller owns is never adopted, rewritten or deleted,
\* unless the cache still shows the object of this CR that had its name before.
ForeignUntouched ==
  [][\A o \in RBACObjects :
       RBACPass /\ Found(rbac[o]) /\ rbac[o].owner = "other" /\ rbac'[o] # rbac[o]
         => rbacCache[o].owner = "cr"]_rbacVars

\* Nothing stands in the way of the declared rules.
Grantable ==
  /\ declared \subseteq Held \/ powers = {"escalate", "bind"}
  /\ rbac["sa"].owner # "other" /\ rbac["role"].owner # "other"
  /\ rbac["binding"].owner # "other" /\ rbac["binding"].ref # "elsewhere"

\* "The rules converge" in both directions: a declared rule set is granted, to the
\* rule, and an empty one leaves nothing behind that the CR owns, whatever order
\* the three caches catch up in.
PermissionsConverge ==
  <>[](/\ declared # NoHook /\ declared # {} /\ Grantable =>
            rbac["role"].rules = declared /\ rbac["binding"].subject = "sa"
       /\ declared = {} /\ rbac["sa"].owner # "other" =>
            rbac["role"].owner # "cr" /\ rbac["binding"].owner # "cr")
=============================================================================
