-------------------------- MODULE GenericReconciler --------------------------
(***************************************************************************)
(* The reconcile loop of pkg/reconciler/generic_reconciler.go and the      *)
(* conditions it reports, with HealthManager.Check of health.go, the       *)
(* status helpers of cluster_status.go and the wait handling of errors.go. *)
(*                                                                         *)
(* One worker reconciles one cluster CR whose roles, of one role group     *)
(* each, stay declared; what happens to undeclared groups is the subject   *)
(* of RoleGroupCleaner.  Around the worker run the user, who edits, pauses,*)
(* stops or deletes the CR, the product's hooks and probes, the            *)
(* StatefulSet controller, the garbage collector and the informers.        *)
(*                                                                         *)
(* Every hook, call and write of a pass is a step of its own.              *)
(***************************************************************************)
EXTENDS Integers, FiniteSets

CONSTANTS
  Roles,         \* the declared roles
  Gates,         \* the sites that may hold up the roles: PreReconcile, dependencies, declareRoles
  GateOutcomes,  \* what a gate may report
  RoleOutcomes,  \* what the hooks and builders of a role may report
  PostOutcomes,  \* what the cluster's PostReconcile may report
  Ops,           \* the cluster operations the user may choose
  Probe,         \* a ServiceHealthCheck is configured
  Interval,      \* healthCheckInterval is positive
  Faults,        \* the misbehaviours of the environment that are allowed
  MaxEdits,      \* bound on the edits of the CR
  MaxChanges,    \* bound on the changes of the product and its workloads
  MaxFaults      \* bound on crashes, panics, throttling and API errors

\* A hook may report nothing, that it waits (RequeueAfterError), or a failure,
\* before a role group is applied or, "late", afterwards; "half" is a failure
\* between the StatefulSet and the resources that are applied after it.
Outcomes == {"ok", "wait", "fail", "half", "late", "lateWait"}

Conditions == {"Available", "Progressing", "Degraded", "Paused", "ServiceHealthy",
               "Waiting", "ReconcileComplete"}

Reasons == {"none", "Available", "Stopped", "Paused", "WorkloadUnreadable", "PodFailure",
            "Degraded", "ReconcileError"}

ASSUME OutcomeAssumption ==
  /\ GateOutcomes \subseteq {"ok", "wait", "fail"} /\ PostOutcomes \subseteq {"ok", "wait", "fail"}
  /\ RoleOutcomes \subseteq Outcomes
  /\ "ok" \in GateOutcomes \cap RoleOutcomes \cap PostOutcomes
ASSUME OpsAssumption == Ops \subseteq {"run", "paused", "stopped"} /\ "run" \in Ops
ASSUME SettingsAssumption == Probe \in BOOLEAN /\ Interval \in BOOLEAN
ASSUME ReconcilerFaultsAssumption ==
  Faults \subseteq {"crash", "panic", "throttle", "apiError", "crLag", "stsLag"}
ASSUME BoundsAssumption == MaxEdits \in Nat /\ MaxChanges \in Nat /\ MaxFaults \in Nat

VARIABLES
  cr,       \* the stored CR
  crSeen,   \* the CR in the operator's cache
  sts,      \* the StatefulSet of each role
  stsSeen,  \* those in the operator's cache
  world,    \* what hooks and probes report now
  wake,     \* the workqueue: "none", "later" (a timer or the backoff) or "now" (an event)
  pc,       \* the call the running pass makes next; "idle" between passes
  mine,     \* the pass's copy of the CR
  base,     \* the status that copy was read with
  todo,     \* the roles the pass has still to reconcile
  waiting,  \* the pass has met a wait
  broken,   \* the pass has collected a failure of a role
  fault,    \* history: the pass has met a genuine failure
  lost,     \* history: a StatefulSet was once deleted by someone else
  edits, changes, faults

passVars  == <<pc, mine, base, todo, waiting, broken, fault>>
countVars == <<edits, changes, faults>>
vars == <<cr, crSeen, sts, stsSeen, world, wake, passVars, lost, countVars>>
-----------------------------------------------------------------------------
(* The status.                                                             *)

NoStatus == [cond |-> [c \in Conditions |-> "none"], why |-> "none",
             observed |-> 0, ledger |-> {}, flipped |-> FALSE]

\* Mutant: every write is a transition.
SetConditionRestamps(st, c, v) == [st EXCEPT !.cond[c] = v, !.flipped = TRUE]

\* SetCondition re-stamps LastTransitionTime when a status changes.  The time
\* itself is not kept, only whether this copy has a newer one than was read.
SetCondition(st, c, v) ==
  [st EXCEPT !.cond[c] = v, !.flipped = @ \/ st.cond[c] \notin {"none", v}]

SetBool(st, c, b) == SetCondition(st, c, IF b THEN "True" ELSE "False")

\* Degraded is the one condition the reason of which is kept.
SetDegraded(st, b, why) == [SetBool(st, "Degraded", b) EXCEPT !.why = why]

\* Mutant: Paused is written only while it is true.
SetPausedOnly(st, b) == IF b THEN SetBool(st, "Paused", TRUE) ELSE st

SetPaused(st, b) == SetBool(st, "Paused", b)

SetProbe(st, v) == IF Probe THEN SetCondition(st, "ServiceHealthy", v) ELSE st

CheckStopped(st) ==
  LET s1 == SetBool(st, "Available", FALSE)
      s2 == SetDegraded(s1, FALSE, "Stopped")
      s3 == SetBool(s2, "Progressing", FALSE)
      s4 == SetPaused(s3, FALSE)
  IN SetProbe(s4, "False")

\* Mutant: a StatefulSet that is not there is a fault even if it was never applied.
UnreadableAny(st) == {r \in Roles : stsSeen[r].phase = "absent"}

\* The role groups the ledger knows and the cache does not.
Unreadable(st) == {r \in Roles : stsSeen[r].phase = "absent" /\ r \in st.ledger}

\* What the workloads and the probe say, the probe having the last word.
Verdict(st, paused) ==
  LET unhealthy == Probe /\ ~paused /\ ~world.probe
  IN IF unhealthy THEN "Degraded"
     ELSE IF Unreadable(st) # {} THEN "WorkloadUnreadable"
     ELSE IF world.podsFail THEN "PodFailure"
     ELSE "Available"

CheckRunning(st, paused) ==
  LET why == Verdict(st, paused)
      s1  == SetBool(st, "Available", Roles # {} /\ \A r \in Roles : stsSeen[r].phase \in {"ready", "surging"})
      s2  == SetBool(s1, "Progressing", \E r \in Roles : stsSeen[r].phase \in {"rolling", "surging"})
      s3  == SetProbe(s2, IF paused THEN "Unknown" ELSE IF world.probe THEN "True" ELSE "False")
      s4  == SetPaused(s3, paused)
  IN IF paused THEN SetDegraded(s4, FALSE, "Paused")
               ELSE SetDegraded(s4, why # "Available", why)

\* HealthManager.Check.
Check(st, op) == IF op = "stopped" THEN CheckStopped(st) ELSE CheckRunning(st, op = "paused")
-----------------------------------------------------------------------------
(* The informers.  An object's event reaches the workqueue when its cache   *)
(* is updated: at once, or under the fault named when the informer catches *)
(* up.                                                                     *)

\* The generation of the CR a StatefulSet was made for, what its status says
\* (short: too few ready replicas; rolling: that, and changing; surging: enough
\* of them, and changing) and whether that status is up to date with its spec.
Workloads == [phase : {"absent", "short", "rolling", "surging", "ready"},
              gen : 0 .. MaxEdits + 1, synced : BOOLEAN]

AbsentSts == [phase |-> "absent", gen |-> 0, synced |-> TRUE]

\* Nothing else in a step changes the CR and the StatefulSets.
SameObjects == UNCHANGED <<cr, crSeen, sts, stsSeen>>

\* The step stores a new CR or new StatefulSets, and then leaves the workqueue
\* as requeue says unless an event is delivered.
Store(newCR, newSts, requeue) ==
  /\ cr' = newCR /\ sts' = newSts
  /\ crSeen' = IF "crLag" \in Faults THEN crSeen ELSE newCR
  /\ stsSeen' = IF "stsLag" \in Faults THEN stsSeen ELSE newSts
  /\ wake' = IF crSeen' # crSeen \/ stsSeen' # stsSeen THEN "now" ELSE requeue

\* The workqueue keeps the earliest wakeup.
Requeue(after) == IF wake = "now" THEN "now" ELSE after

CanFail(f) == f \in Faults /\ faults < MaxFaults

NoPass == [gen |-> 0, op |-> "run", deleting |-> FALSE, exists |-> FALSE, rev |-> 0, st |-> NoStatus]

Init ==
  /\ cr = [gen |-> 1, op |-> "run", deleting |-> FALSE, exists |-> TRUE, rev |-> 0, st |-> NoStatus]
  /\ crSeen = cr
  /\ sts = [r \in Roles |-> AbsentSts] /\ stsSeen = sts
  /\ world \in [gate : [Gates -> GateOutcomes], role : [Roles -> RoleOutcomes],
                post : PostOutcomes, podsFail : {FALSE}, probe : {TRUE}]
  /\ wake = "now"
  /\ pc = "idle" /\ mine = NoPass /\ base = NoStatus /\ todo = {}
  /\ waiting = FALSE /\ broken = FALSE /\ fault = FALSE /\ lost = FALSE
  /\ edits = 0 /\ changes = 0 /\ faults = 0
-----------------------------------------------------------------------------
(* The environment.                                                        *)

\* The user edits the CR; every edit changes what the roles should look like.
EditSpec ==
  /\ cr.exists /\ ~cr.deleting /\ edits < MaxEdits
  /\ \E op \in Ops : Store([cr EXCEPT !.gen = @ + 1, !.op = op], sts, wake)
  /\ edits' = edits + 1
  /\ UNCHANGED <<world, passVars, lost, changes, faults>>

\* kubectl delete --cascade=foreground.
DeleteCR ==
  /\ cr.exists /\ ~cr.deleting /\ edits < MaxEdits
  /\ Store([cr EXCEPT !.deleting = TRUE], sts, wake)
  /\ edits' = edits + 1
  /\ UNCHANGED <<world, passVars, lost, changes, faults>>

\* The garbage collector removes what a deleted CR owns, and then the CR.
CollectSts(r) ==
  /\ cr.deleting /\ sts[r].phase # "absent"
  /\ Store(cr, [sts EXCEPT ![r] = AbsentSts], wake)
  /\ lost' = TRUE
  /\ UNCHANGED <<world, passVars, countVars>>

CollectCR ==
  /\ cr.exists /\ cr.deleting /\ \A r \in Roles : sts[r].phase = "absent"
  /\ Store([cr EXCEPT !.exists = FALSE], sts, wake)
  /\ UNCHANGED <<world, passVars, lost, countVars>>

\* The StatefulSet controller takes up a new StatefulSet or a new spec.
StartRollout(r) ==
  /\ ~sts[r].synced
  /\ \E phase \in {"rolling", "surging"} :
       Store(cr, [sts EXCEPT ![r].phase = phase, ![r].synced = TRUE], wake)
  /\ UNCHANGED <<world, passVars, lost, countVars>>

\* A rollout completes.
RollOut(r) ==
  /\ sts[r].synced /\ sts[r].phase \notin {"absent", "ready"}
  /\ Store(cr, [sts EXCEPT ![r].phase = "ready"], wake)
  /\ UNCHANGED <<world, passVars, lost, countVars>>

\* Pods of a role go down, or someone deletes its StatefulSet.
Disturb(r) ==
  /\ sts[r].phase = "ready" /\ changes < MaxChanges
  /\ \/ Store(cr, [sts EXCEPT ![r].phase = "short"], wake) /\ lost' = lost
     \/ Store(cr, [sts EXCEPT ![r] = AbsentSts], wake) /\ lost' = TRUE
  /\ changes' = changes + 1
  /\ UNCHANGED <<world, passVars, edits, faults>>

\* A hook, a pod or the probed service changes its mind, and no event tells.
ChangeWorld ==
  /\ changes < MaxChanges
  /\ \/ \E g \in Gates, o \in GateOutcomes : world' = [world EXCEPT !.gate[g] = o]
     \/ \E r \in Roles, o \in RoleOutcomes : world' = [world EXCEPT !.role[r] = o]
     \/ \E o \in PostOutcomes : world' = [world EXCEPT !.post = o]
     \/ world' = [world EXCEPT !.podsFail = ~@]
     \/ Probe /\ world' = [world EXCEPT !.probe = ~@]
  /\ changes' = changes + 1
  /\ SameObjects
  /\ UNCHANGED <<wake, passVars, lost, edits, faults>>

SyncCR ==
  /\ crSeen # cr
  /\ crSeen' = cr /\ wake' = "now"
  /\ UNCHANGED <<cr, sts, stsSeen, world, passVars, lost, countVars>>

SyncSts(r) ==
  /\ stsSeen[r] # sts[r]
  /\ stsSeen' = [stsSeen EXCEPT ![r] = sts[r]] /\ wake' = "now"
  /\ UNCHANGED <<cr, crSeen, sts, world, passVars, lost, countVars>>
-----------------------------------------------------------------------------
(***************************************************************************)
(* The pass.                                                               *)
(*   idle -> identity -> gates -> role* -> health -> post -> settle -> write*)
(* A paused cluster goes from idle to observe and write, and a pass that    *)
(* fails from where it stands to failed and writeFailed.                    *)
(***************************************************************************)

EndPass ==
  /\ pc' = "idle" /\ mine' = NoPass /\ base' = NoStatus /\ todo' = {}
  /\ waiting' = FALSE /\ broken' = FALSE /\ fault' = FALSE

Goto(p) == pc' = p /\ UNCHANGED <<mine, base, todo, waiting, broken, fault>>

\* Mutant: a CR that is being deleted is reconciled like any other.
SkipsOnlyAbsent == ~crSeen.exists

\* A CR that is absent or being deleted needs nothing more.
Skips == ~crSeen.exists \/ crSeen.deleting

\* Mutant: the generation is counted one too far.
OpenedAhead == [crSeen EXCEPT !.st.observed = crSeen.gen + 1]

\* The CR as a pass reads it and notes its generation.
Opened == [crSeen EXCEPT !.st.observed = crSeen.gen]

Fetch ==
  /\ pc = "idle" /\ wake # "none"
  /\ wake' = "none"
  /\ IF Skips THEN Goto("idle")
     ELSE /\ mine' = Opened /\ base' = crSeen.st
          /\ pc' = IF crSeen.op = "paused" THEN "observe" ELSE "identity"
          /\ UNCHANGED <<todo, waiting, broken, fault>>
  /\ SameObjects
  /\ UNCHANGED <<world, lost, countVars>>

\* A paused cluster is observed and left alone.
Observe ==
  /\ pc = "observe"
  /\ mine' = [mine EXCEPT !.st = Check(@, mine.op)]
  /\ pc' = "write"
  /\ SameObjects
  /\ UNCHANGED <<base, todo, waiting, broken, fault, world, wake, lost, countVars>>

\* The ServiceAccount and the workload's RBAC.
EnsureIdentity ==
  /\ pc = "identity"
  /\ \/ Goto("gates") /\ faults' = faults
     \/ /\ CanFail("apiError") /\ faults' = faults + 1
        /\ pc' = "failed" /\ fault' = TRUE
        /\ UNCHANGED <<mine, base, todo, waiting, broken>>
  /\ SameObjects
  /\ UNCHANGED <<world, wake, lost, edits, changes>>

\* Mutant: whatever a gate returns fails the pass.
PassGatesStrict ==
  /\ pc = "gates"
  /\ LET said == {world.gate[g] : g \in Gates}
     IN /\ fault' = ("fail" \in said)
        /\ pc' = IF ~(said \subseteq {"ok"}) THEN "failed" ELSE IF Roles = {} THEN "health" ELSE "role"
        /\ todo' = IF said \subseteq {"ok"} THEN Roles ELSE {}
  /\ SameObjects
  /\ UNCHANGED <<mine, base, waiting, broken, world, wake, lost, countVars>>

\* The gates, one after the other: a failure ends the pass, a wait only keeps
\* the roles from being reconciled.
PassGates ==
  /\ pc = "gates"
  /\ LET said == {world.gate[g] : g \in Gates}
     IN /\ fault' = ("fail" \in said)
        /\ waiting' = ("wait" \in said)
        /\ pc' = IF "fail" \in said THEN "failed"
                 ELSE IF "wait" \in said \/ Roles = {} THEN "health" ELSE "role"
        /\ todo' = IF said \subseteq {"ok"} THEN Roles ELSE {}
  /\ SameObjects
  /\ UNCHANGED <<mine, base, broken, world, wake, lost, countVars>>

\* The StatefulSet of a role as CreateOrUpdate leaves it, and whether that
\* succeeds: a write sent from a stale copy is refused, and one is sent unless
\* the copy is just like the desired object.
Applied(r) == IF stsSeen[r].gen = mine.gen THEN sts[r]
              ELSE [phase |-> IF stsSeen[r].phase = "absent" THEN "short" ELSE sts[r].phase,
                    gen |-> mine.gen, synced |-> FALSE]
Applies(r) == IF stsSeen[r] = sts[r] THEN {TRUE}
              ELSE IF stsSeen[r].gen = mine.gen THEN {TRUE, FALSE} ELSE {FALSE}

\* Mutant: a role is recorded only by the pass that changes its StatefulSet.
RecordedOnChange(r) == IF stsSeen[r].gen = mine.gen THEN mine ELSE [mine EXCEPT !.st.ledger = @ \cup {r}]

\* The pass's copy of the CR once a role is applied: every pass records every role.
Recorded(r) == [mine EXCEPT !.st.ledger = @ \cup {r}]

\* One role: its hooks, its resources, its entry in the ledger.  The others
\* are reconciled whatever becomes of it, in an order that does not matter.
ReconcileRole(r) ==
  /\ pc = "role" /\ r \in todo
  /\ \E accepted \in Applies(r) :
     LET out     == world.role[r]
         reached == out \notin {"wait", "fail"}
         applied == reached /\ accepted
         done    == applied /\ out # "half"
     IN /\ Store(cr, IF applied THEN [sts EXCEPT ![r] = Applied(r)] ELSE sts, wake)
        /\ mine' = IF done THEN Recorded(r) ELSE mine
        /\ waiting' = (waiting \/ out = "wait" \/ (done /\ out = "lateWait"))
        /\ broken' = (broken \/ (reached /\ ~accepted) \/ out \in {"fail", "half", "late"})
        /\ fault' = broken'
  /\ todo' = todo \ {r}
  /\ pc' = IF todo = {r} THEN "health" ELSE "role"
  /\ UNCHANGED <<base, world, lost, countVars>>

\* HealthManager.Check, after the orphan cleanup.
CheckHealth ==
  /\ pc = "health"
  /\ mine' = [mine EXCEPT !.st = Check(@, mine.op)]
  /\ pc' = "post"
  /\ SameObjects
  /\ UNCHANGED <<base, todo, waiting, broken, fault, world, wake, lost, countVars>>

\* The cluster's PostReconcile: whatever it returns fails the pass.
PostReconcile ==
  /\ pc = "post"
  /\ fault' = (fault \/ world.post = "fail")
  /\ pc' = IF world.post = "ok" THEN "settle" ELSE "failed"
  /\ SameObjects
  /\ UNCHANGED <<mine, base, todo, waiting, broken, world, wake, lost, countVars>>

\* Only what the framework raised is cleared.
ClearWaiting(st) == IF st.cond["Waiting"] = "none" THEN st ELSE SetBool(st, "Waiting", FALSE)

\* The failures of roles, then the wait, then success.
Settle ==
  /\ pc = "settle"
  /\ IF broken THEN pc' = "failed" /\ mine' = mine
     ELSE /\ pc' = "write"
          /\ mine' = [mine EXCEPT !.st =
               IF waiting THEN SetBool(SetBool(@, "Waiting", TRUE), "ReconcileComplete", FALSE)
                          ELSE SetBool(ClearWaiting(@), "ReconcileComplete", TRUE)]
  /\ SameObjects
  /\ UNCHANGED <<base, todo, waiting, broken, fault, world, wake, lost, countVars>>

\* Mutant: ReconcileComplete keeps what the last success wrote.
FailedKeepsComplete(st) == SetDegraded(st, TRUE, "ReconcileError")

Failed(st) == SetBool(SetDegraded(st, TRUE, "ReconcileError"), "ReconcileComplete", FALSE)

\* The error path of Reconcile.
Fail ==
  /\ pc = "failed"
  /\ mine' = [mine EXCEPT !.st = Failed(@)]
  /\ pc' = "writeFailed"
  /\ SameObjects
  /\ UNCHANGED <<base, todo, waiting, broken, fault, world, wake, lost, countVars>>

\* When the pass is over the worker asks to be woken again: by the backoff
\* after a failure, else by the shortest of the delays there are.
After == IF pc = "writeFailed" \/ Interval \/ waiting THEN "later" ELSE "none"

\* updateStatus.  A status like the one read is not written.  A conflict is
\* resolved by taking over the resourceVersion, so the write replaces whatever
\* is stored; a CR that is gone is ignored.
UpdateStatus ==
  /\ pc \in {"write", "writeFailed"}
  /\ IF mine.st = base \/ ~cr.exists
     THEN wake' = Requeue(After) /\ SameObjects
     ELSE Store([cr EXCEPT !.st = [mine.st EXCEPT !.flipped = FALSE], !.rev = 1 - @], sts,
                Requeue(After))
  /\ EndPass
  /\ UNCHANGED <<world, lost, countVars>>

\* A status write that fails is an error of the pass; on the error path it is
\* only logged.
UpdateFails ==
  /\ pc \in {"write", "writeFailed"} /\ mine.st # base
  /\ CanFail("apiError") /\ faults' = faults + 1
  /\ IF pc = "write"
     THEN /\ pc' = "failed" /\ fault' = TRUE /\ UNCHANGED <<mine, base, todo, waiting, broken, wake>>
     ELSE EndPass /\ wake' = Requeue("later")
  /\ SameObjects
  /\ UNCHANGED <<world, lost, edits, changes>>

\* A 429 from the API server, or a panic of a hook: the pass ends without a
\* word in the status and is retried later.
Abandon ==
  /\ \/ CanFail("throttle") /\ pc \in {"identity", "role", "health"}
     \/ CanFail("panic") /\ pc \in {"gates", "role", "post"}
  /\ faults' = faults + 1
  /\ EndPass
  /\ wake' = Requeue("later")
  /\ SameObjects
  /\ UNCHANGED <<world, lost, edits, changes>>

\* The process dies; its successor starts with fresh caches.
Crash ==
  /\ CanFail("crash") /\ pc # "idle"
  /\ faults' = faults + 1
  /\ EndPass
  /\ wake' = "now" /\ crSeen' = cr /\ stsSeen' = sts
  /\ UNCHANGED <<cr, sts, world, lost, edits, changes>>
-----------------------------------------------------------------------------
Pass ==
  \/ Fetch \/ Observe \/ EnsureIdentity \/ PassGates
  \/ \E r \in Roles : ReconcileRole(r)
  \/ CheckHealth \/ PostReconcile \/ Settle \/ Fail
  \/ UpdateStatus \/ UpdateFails \/ Abandon \/ Crash

Environment ==
  \/ EditSpec \/ DeleteCR \/ CollectCR \/ ChangeWorld \/ SyncCR
  \/ \E r \in Roles : CollectSts(r) \/ StartRollout(r) \/ RollOut(r) \/ Disturb(r) \/ SyncSts(r)

Next == Pass \/ Environment

Spec == Init /\ [][Next]_vars

\* The worker takes what the workqueue holds and finishes its passes, timers
\* run out, informers catch up, and the StatefulSet controller and the garbage
\* collector do their work; a rollout need not complete.
Fairness ==
  /\ WF_vars(Pass) /\ WF_vars(SyncCR) /\ WF_vars(CollectCR)
  /\ \A r \in Roles : WF_vars(SyncSts(r)) /\ WF_vars(StartRollout(r)) /\ WF_vars(CollectSts(r))

FairSpec == Spec /\ Fairness
-----------------------------------------------------------------------------
(* Properties.                                                             *)

PassStates == {"idle", "observe", "identity", "gates", "role", "health", "post", "settle",
               "write", "failed", "writeFailed"}

Statuses == [cond : [Conditions -> {"none", "True", "False", "Unknown"}], why : Reasons,
             observed : 0 .. MaxEdits + 1, ledger : SUBSET Roles, flipped : BOOLEAN]

CRs == [gen : 0 .. MaxEdits + 1, op : {"run", "paused", "stopped"}, deleting : BOOLEAN,
        exists : BOOLEAN, rev : {0, 1}, st : Statuses]

\* Every variable has its type, and what is stored carries no flip.
TypeOK ==
  /\ cr \in CRs /\ crSeen \in CRs /\ mine \in CRs /\ base \in Statuses
  /\ ~cr.st.flipped /\ ~crSeen.st.flipped /\ ~base.flipped
  /\ sts \in [Roles -> Workloads] /\ stsSeen \in [Roles -> Workloads]
  /\ world \in [gate : [Gates -> GateOutcomes], role : [Roles -> RoleOutcomes],
                post : PostOutcomes, podsFail : BOOLEAN, probe : BOOLEAN]
  /\ wake \in {"none", "later", "now"} /\ pc \in PassStates /\ todo \subseteq Roles
  /\ {waiting, broken, fault, lost} \subseteq BOOLEAN
  /\ edits \in 0 .. MaxEdits /\ changes \in 0 .. MaxChanges /\ faults \in 0 .. MaxFaults

\* ReconcileComplete is a gate on the generation: when it is True and the
\* observed generation is the current one, every role that has a StatefulSet
\* has the current one (reconcile, "it is the documented generation gate").
GateHonest ==
  /\ cr.st.cond["ReconcileComplete"] = "True" /\ cr.st.observed = cr.gen
  => \A r \in Roles : sts[r].phase = "absent" \/ sts[r].gen = cr.gen

\* Nothing is queued, no pass runs and no event is on its way.
AtRest == pc = "idle" /\ wake = "none" /\ crSeen = cr /\ stsSeen = sts

\* The controller does not go to sleep over unfinished work: when no pass runs
\* and none will, the generation is applied, observed and reported complete and
\* every role is in the ledger.  A pass on a stale CR that meets a conflict
\* writes its whole status over the stored one, older generation and shorter
\* ledger included, "safe because the controller is the sole writer"
\* (updateStatus): what such a write takes back, a later pass puts there again.
RestsWhenDone ==
  AtRest /\ cr.exists /\ ~cr.deleting /\ cr.op # "paused" =>
    /\ cr.st.observed = cr.gen /\ cr.st.ledger = Roles
    /\ cr.st.cond["ReconcileComplete"] = "True"
    /\ \A r \in Roles : sts[r].phase = "absent" \/ sts[r].gen = cr.gen

\* A missing StatefulSet is reported as a fault only if somebody deleted one: a
\* role group that was not created yet is no fault (HealthManager.Check).
FirstInstallQuiet ==
  cr.st.cond["Degraded"] = "True" /\ cr.st.why = "WorkloadUnreadable" => lost

\* A wait is not a failure: a pass takes the error path only if something
\* really failed (RequeueAfterError).
WaitIsNoFault == pc \in {"failed", "writeFailed"} => fault

\* A cluster about which nothing changes any more stops being written: passes
\* do not schedule each other (updateStatus, SetCondition).
Settles == <>[][cr'.rev = cr.rev]_vars

AllWell ==
  /\ cr.exists /\ ~cr.deleting /\ cr.op = "run"
  /\ \A g \in Gates : world.gate[g] = "ok"
  /\ \A r \in Roles : world.role[r] = "ok" /\ sts[r].phase = "ready" /\ sts[r].synced
  /\ world.post = "ok" /\ ~world.podsFail /\ (Probe => world.probe)

SaysAllWell ==
  /\ \A c \in {"Available", "ReconcileComplete"} : cr.st.cond[c] = "True"
  /\ \A c \in {"Degraded", "Waiting", "Paused"} : cr.st.cond[c] # "True"

\* A cluster that has come to be well is reported so for good, whatever it went
\* through before: no condition of a failure, a wait or a pause is left over.
EventuallyReported == <>[]AllWell => <>[]SaysAllWell

\* A CR that is deleted in the foreground goes away: the operator does not
\* recreate what the garbage collector removes (Reconcile).
EventuallyDeleted == cr.deleting ~> ~cr.exists
=============================================================================
