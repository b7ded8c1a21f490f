-------------------------- MODULE RoleGroupCleaner --------------------------
(***************************************************************************)
(* The orphan teardown of pkg/reconciler/cleaner.go, inside the reconcile  *)
(* passes that drive it.  One operator worker reconciles one cluster CR;   *)
(* around it run the user who edits the CR, the API server, the informer   *)
(* caches the operator reads through, and the StatefulSet controller.      *)
(*                                                                         *)
(* A pass reads the CR, applies the resources of every declared role       *)
(* group, resets the teardown progress of those groups, reclaims the       *)
(* role-level PodDisruptionBudgets of vanished roles, discovers the        *)
(* orphaned role groups and tears each one down as far as it can, and      *)
(* writes the status.  Every call to the API server is a step of its own,  *)
(* so that a crash, an error or another actor may fall between two calls.  *)
(*                                                                         *)
(* Reads go through the cache, except for the uncached confirmation reader *)
(* and the list of extra resources.  Writes go to the API server.  An      *)
(* Update carries the resourceVersion of the cached object, so it is       *)
(* accepted only when the cached object is the current one; a Delete       *)
(* carries no precondition and removes whatever has that name.             *)
(***************************************************************************)
EXTENDS Integers, Sequences, FiniteSets

CONSTANTS
  Groups,       \* role groups, numbered in the order of their resource names
  Roles,        \* roles of the product, numbered too
  RoleOf,       \* the role of each group
  Alias,        \* <<g, suffix>> |-> the group whose resource name is g's name plus that suffix
  Shipped,      \* the slots the product's handler builds resources for
  Finalizers,   \* the group slots whose objects may outlive their Delete behind a finalizer
  DeletePVCs,   \* AnnotationDeletePVCs on the CR
  GracePeriod,  \* grayDeleteGracePeriod, 0 when gray deletion is off
  DrainTimeout, \* drainTimeout
  Wedged,       \* groups the finalizers of which are never processed
  ForeignKeys,  \* names another controller's objects occupy from the start
  Faults,       \* the misbehaviours of the environment that are allowed
  MaxAge,       \* bound on the ages of timestamps: older ones are not told apart
  MaxEdits,     \* bound on the user's edits of the CR
  MaxFaults     \* bound on crashes, API errors and squatters

Primaries == {"sts", "cm"}
Derived   == {"headless", "metrics"}
GroupSlots == {"pdb", "sts", "extra", "cm", "svc", "headless", "metrics"}

\* Every object the operator may own, named by what it belongs to and its slot.
Keys == (Groups \X GroupSlots) \cup (Roles \X {"rolePdb"})

AllFaults == {"crash", "throttle", "apiError", "lag", "applyLag", "svcLag", "squat", "idleSquat",
              "lateStatus"}

ASSUME GroupsAssumption == Groups \subseteq Nat /\ Roles \subseteq Nat
ASSUME RoleAssumption == RoleOf \in [Groups -> Roles]
ASSUME AliasAssumption ==
  /\ DOMAIN Alias \subseteq Groups \X Derived
  /\ \A d \in DOMAIN Alias : Alias[d] \in Groups
ASSUME SlotAssumption == Shipped \subseteq GroupSlots /\ Finalizers \subseteq GroupSlots
ASSUME ConfigAssumption ==
  /\ DeletePVCs \in BOOLEAN
  /\ GracePeriod \in Nat /\ DrainTimeout \in Nat
  /\ MaxAge \in Nat /\ GracePeriod <= MaxAge /\ DrainTimeout <= MaxAge
  /\ MaxEdits \in Nat /\ MaxFaults \in Nat
ASSUME FaultsAssumption ==
  Faults \subseteq AllFaults /\ ForeignKeys \subseteq Keys /\ Wedged \subseteq Groups

VARIABLES
  spec,       \* the groups the stored CR declares
  ledger,     \* the groups in the stored status.roleGroups
  cond,       \* the groups the stored OrphanCleanupPending condition lists; {} when not True
  gauge,      \* the groups the OrphanCleanupPending gauge of the process counts
  api,        \* the objects in the API server
  cache,      \* the operator's informer caches
  pods,       \* the groups whose StatefulSet has a running pod
  pvcs,       \* the groups that have a PersistentVolumeClaim
  pc,         \* the call the running pass makes next; "idle" between passes
  seen,       \* the pass's copy of the spec
  status,     \* the pass's copy of status.roleGroups
  mcond,      \* the pass's copy of the condition
  todo,       \* the groups the current loop of the pass has still to visit
  left,       \* the orphans whose teardown this pass could not finish
  cur,        \* the group being visited
  step,       \* the position in that group's list of calls
  edits,      \* edits of the CR so far
  faults,     \* crashes, API errors and squatters so far
  orphanAge,  \* history: since when a group is an orphan, that is how long ago a pass
              \* first found it so after the last pass that saw it declared
  scaledAge,  \* history: how long ago a group's StatefulSet was last scaled to zero
  interrupted \* history: the groups for which a fault kept the last pass that saw them
              \* declared from resetting their teardown progress

crVars   == <<spec, ledger, cond, gauge, edits>>
workVars == <<pods, pvcs>>
passVars == <<pc, seen, status, mcond, todo, left, cur, step>>
history  == <<orphanAge, scaledAge, interrupted>>
vars == <<crVars, api, cache, workVars, passVars, faults, history>>

-----------------------------------------------------------------------------
(* Objects.                                                                *)

\* A timestamp is modelled by its age in seconds.
NoStamp == -1
Stamps  == {NoStamp} \cup 0 .. MaxAge
Older(age) == IF age = NoStamp \/ age = MaxAge THEN age ELSE age + 1

\* An object as far as the cleaner reads it.  "leaving" is an owned object with
\* a deletionTimestamp, "foreign" one that has another controller.  mark is
\* AnnotationPendingDeletion, drain is AnnotationDrainStarted; a timestamp that
\* does not parse counts as none.  replicas and reported are spec.replicas and
\* status.replicas of a StatefulSet.
Objects == [st : {"absent", "owned", "leaving", "foreign"}, mark : Stamps,
            drain : Stamps, replicas : {0, 1}, reported : {0, 1}]

Absent  == [st |-> "absent", mark |-> NoStamp, drain |-> NoStamp,
            replicas |-> 0, reported |-> 0]
Foreign == [Absent EXCEPT !.st = "foreign"]

Aged(obj) == [obj EXCEPT !.mark = Older(@), !.drain = Older(@)]

\* What the handler builds for a slot.
Desired(slot) == [Absent EXCEPT !.st = "owned", !.replicas = IF slot = "sts" THEN 1 ELSE 0]

Present(obj) == obj.st # "absent"

\* Mutant: the controller reference is not looked at.
isOwnedByClusterAny(obj) == Present(obj)

\* isOwnedByCluster on an object that may be absent.
isOwnedByCluster(obj) == obj.st \in {"owned", "leaving"}

\* The object of group g in a slot.  Derived Service names are made by suffix,
\* so the derived Service of one group may be the client Service of another.
Key(g, slot) == IF <<g, slot>> \in DOMAIN Alias THEN <<Alias[<<g, slot>>], "svc">>
                                                ELSE <<g, slot>>

\* Mutant: derived names are not compared with those of declared groups.
LiveNameNever(g, slot) == FALSE

\* A derived name that is the resource name of a group the pass sees declared.
LiveName(g, slot) == <<g, slot>> \in DOMAIN Alias /\ Alias[<<g, slot>>] \in seen

\* The informers see what a step changes at once, or, under the fault named,
\* only when they catch up.
Mirror(fault) ==
  cache' = IF fault \in Faults THEN cache
           ELSE [k \in Keys |-> IF api'[k] = api[k] THEN cache[k] ELSE api'[k]]

\* Each kind has an informer of its own: that of the Services may be late while the
\* others keep up.
CreationLag(slot) == IF slot \in {"svc"} \cup Derived THEN "svcLag" ELSE "applyLag"

\* An Update sent from the cached copy of k is accepted.
Fresh(k) == cache[k] = api[k]

CanFail(fault) == fault \in Faults /\ faults < MaxFaults

\* A loop of API calls does all it has to, or less when one of them fails.
Partial(done, all) ==
  \/ done = all /\ faults' = faults
  \/ done # all /\ CanFail("apiError") /\ faults' = faults + 1
-----------------------------------------------------------------------------
Init ==
  /\ spec \in SUBSET Groups /\ ledger = {} /\ cond = {} /\ gauge = {} /\ edits = 0
  /\ api = [k \in Keys |-> IF k \in ForeignKeys THEN Foreign ELSE Absent]
  /\ cache = api
  /\ pods = {} /\ pvcs = {}
  /\ pc = "idle" /\ seen = {} /\ status = {} /\ mcond = {}
  /\ todo = {} /\ left = {} /\ cur = 0 /\ step = 0
  /\ faults = 0
  /\ orphanAge = [g \in Groups |-> NoStamp] /\ scaledAge = orphanAge /\ interrupted = {}

(***************************************************************************)
(* The environment.                                                        *)
(***************************************************************************)

\* The user adds role groups to the CR or removes some.
EditSpec ==
  /\ edits < MaxEdits
  /\ \E new \in SUBSET Groups \ {spec} : spec' = new
  /\ edits' = edits + 1
  /\ UNCHANGED <<ledger, cond, gauge, api, cache, workVars, passVars, faults, history>>

\* A second passes: every timestamp gets older, in the API server and in the
\* cached copies alike.
Tick ==
  /\ api' = [k \in Keys |-> Aged(api[k])]
  /\ cache' = [k \in Keys |-> Aged(cache[k])]
  /\ orphanAge' = [g \in Groups |-> Older(orphanAge[g])]
  /\ scaledAge' = [g \in Groups |-> Older(scaledAge[g])]
  /\ UNCHANGED <<crVars, workVars, passVars, faults, interrupted>>

\* The informer delivers the current state of one object.
Sync(k) ==
  /\ ~Fresh(k)
  /\ cache' = [cache EXCEPT ![k] = api[k]]
  /\ UNCHANGED <<crVars, api, workVars, passVars, faults, history>>

\* The pods of a StatefulSet that is gone are the garbage collector's.
DisownPods == pods' = {g \in pods : isOwnedByCluster(api'[<<g, "sts">>])}

\* The last finalizer of a deleted object is removed.
Finalize(k) ==
  /\ api[k].st = "leaving"
  /\ api' = [api EXCEPT ![k] = Absent]
  /\ DisownPods
  /\ Mirror("lag")
  /\ UNCHANGED <<crVars, pvcs, passVars, faults, history>>

\* Another controller creates its own object under a free name, be it one that
\* the product uses or one that it leaves idle.
Squat(k) ==
  /\ CanFail(IF k[2] \in Shipped \cup {"rolePdb"} THEN "squat" ELSE "idleSquat")
  /\ ~Present(api[k])
  /\ api' = [api EXCEPT ![k] = Foreign]
  /\ Mirror("lag")
  /\ faults' = faults + 1
  /\ UNCHANGED <<crVars, workVars, passVars, history>>

\* The StatefulSet controller starts or stops the pods of a group.  Unless
\* status updates may be late it reports the count in the same sync.
SetPods(g, running) ==
  LET k == <<g, "sts">> IN
  /\ isOwnedByCluster(api[k])
  /\ pods' = IF running THEN pods \cup {g} ELSE pods \ {g}
  /\ pvcs' = IF running THEN pvcs \cup {g} ELSE pvcs
  /\ api' = IF "lateStatus" \in Faults THEN api
            ELSE [api EXCEPT ![k].reported = IF running THEN 1 ELSE 0]
  /\ Mirror("lag")
  /\ UNCHANGED <<crVars, passVars, faults, history>>

StartPods(g) == api[<<g, "sts">>].replicas = 1 /\ g \notin pods /\ SetPods(g, TRUE)
DrainPods(g) == api[<<g, "sts">>].replicas = 0 /\ g \in pods /\ SetPods(g, FALSE)

\* The StatefulSet controller brings status.replicas up to date.
ReportReplicas(g) ==
  LET k == <<g, "sts">>
      n == IF g \in pods THEN 1 ELSE 0
  IN /\ isOwnedByCluster(api[k])
     /\ api[k].reported # n
     /\ api' = [api EXCEPT ![k].reported = n]
     /\ Mirror("lag")
     /\ UNCHANGED <<crVars, workVars, passVars, faults, history>>

-----------------------------------------------------------------------------
(***************************************************************************)
(* The pass.  Control moves along                                          *)
(*   apply* -> applyRoles -> clear* -> rolePdbs -> discover                *)
(*     -> (gray -> check/scale/stamp/delete/gone* -> confirm* )* -> report *)
(*     -> write.                                                           *)
(***************************************************************************)

PassStates == {"idle", "apply", "applyRoles", "clear", "rolePdbs", "discover", "gray",
               "check", "scale", "stamp", "delete", "gone", "confirm", "report", "write"}

\* Those in which the pass is at work on one group.
LoopStates == {"apply", "clear", "gray", "check", "scale", "stamp", "delete", "gone", "confirm"}

ApplyOrder    == <<"cm", "headless", "svc", "extra", "sts", "pdb", "metrics">>
TeardownOrder == <<"pdb", "sts", "extra", "cm", "svc", "headless", "metrics">>
LastStep      == 7

First(S) == CHOOSE g \in S : \A h \in S : g <= h

\* The next iteration, at "at", of a loop that has still to visit S, or "done".
Visit(S, at, done) ==
  IF S = {} THEN pc' = done /\ cur' = 0 /\ todo' = {} /\ step' = 0
  ELSE pc' = at /\ cur' = First(S) /\ todo' = S \ {First(S)} /\ step' = 1

\* The process forgets the pass: nothing of it survives but what it wrote.
EndPass ==
  /\ pc' = "idle" /\ seen' = {} /\ status' = {} /\ mcond' = {}
  /\ todo' = {} /\ left' = {} /\ cur' = 0 /\ step' = 0

StartPass ==
  /\ pc = "idle"
  /\ seen' = spec /\ status' = ledger /\ mcond' = cond /\ left' = {}
  /\ Visit(spec, "apply", "applyRoles")
  /\ orphanAge' = [g \in Groups |-> IF g \in spec THEN NoStamp ELSE orphanAge[g]]
  /\ interrupted' = interrupted \ spec
  /\ UNCHANGED <<crVars, api, cache, workVars, faults, scaledAge>>

(* Applying.  CreateOrUpdate reads the cached object: it creates an absent   *)
(* one, refuses one with another controller and writes an owned one only if *)
(* it differs from the desired state.  Annotations are merged, so marks stay.*)

Applies(slot, k) ==
  \/ slot \notin Shipped
  \/ ~Present(cache[k]) /\ ~Present(api[k])
  \/ isOwnedByCluster(cache[k]) /\ (Fresh(k) \/ cache[k].replicas = Desired(slot).replicas)

Applied(slot, k) ==
  IF slot \notin Shipped THEN api[k]
  ELSE IF ~Present(cache[k]) THEN Desired(slot)
  ELSE IF Fresh(k) THEN [api[k] EXCEPT !.replicas = Desired(slot).replicas]
  ELSE api[k]

\* One resource of the group being applied.  After the last one the group is
\* recorded in the status.  The code also reclaims a budget or a metrics Service
\* that the handler no longer builds; the product here never stops building a
\* slot, so there is nothing to reclaim in one that is not shipped.
ApplyResource ==
  /\ pc = "apply"
  /\ LET slot == ApplyOrder[step]
         k    == Key(cur, slot)
     IN /\ Applies(slot, k)
        /\ api' = [api EXCEPT ![k] = Applied(slot, k)]
        /\ Mirror(CreationLag(slot))
  /\ IF step < LastStep
     THEN step' = step + 1 /\ UNCHANGED <<pc, cur, todo, status>>
     ELSE status' = status \cup {cur} /\ Visit(todo, "apply", "applyRoles")
  /\ UNCHANGED <<crVars, workVars, seen, mcond, left, faults, history>>

\* A resource the API server rejects (AlreadyExists, conflict, another owner)
\* or fails on ends the apply of its group; the other groups still run.  Even
\* an unchanged object may be sent, and then conflicts if its copy is stale.
ApplyFails ==
  /\ pc = "apply"
  /\ LET slot == ApplyOrder[step]
         k    == Key(cur, slot)
     IN \/ (~Applies(slot, k) \/ (slot \in Shipped /\ ~Fresh(k))) /\ faults' = faults
        \/ CanFail("apiError") /\ faults' = faults + 1
  /\ Visit(todo, "apply", "applyRoles")
  /\ UNCHANGED <<crVars, api, cache, workVars, seen, status, mcond, left, history>>

Declared(S) == {RoleOf[g] : g \in S}

\* The role-level PodDisruptionBudget of every declared role; a role that
\* fails does not stop the others.
ApplyRolePDBs ==
  /\ pc = "applyRoles"
  /\ LET missing == {r \in Declared(seen) : /\ ~Present(cache[<<r, "rolePdb">>])
                                            /\ ~Present(api[<<r, "rolePdb">>])}
     IN \E made \in SUBSET missing :
          /\ Partial(made, missing)
          /\ api' = [k \in Keys |-> IF k[2] = "rolePdb" /\ k[1] \in made
                                    THEN Desired("rolePdb") ELSE api[k]]
  /\ Mirror("applyLag")
  /\ Visit(seen, "clear", "rolePdbs")
  /\ UNCHANGED <<crVars, workVars, seen, status, mcond, left, history>>

(* Cleanup.                                                                *)

\* Mutants: only one of the two annotations is removed.
UnmarkedButGrace(obj) == [obj EXCEPT !.drain = NoStamp]
UnmarkedButDrain(obj) == [obj EXCEPT !.mark = NoStamp]

\* What removing the progress annotations leaves of an object.
Unmarked(obj) == [obj EXCEPT !.mark = NoStamp, !.drain = NoStamp]

\* Both annotations are removed from both primaries of a declared group.  A
\* write that fails is only logged.  The group counts as interrupted when the
\* API server failed or the primaries were read from a stale cache.
ClearTeardownProgress ==
  /\ pc = "clear"
  /\ LET K(p) == <<cur, p>>
         need == {p \in Primaries : /\ isOwnedByCluster(cache[K(p)])
                                    /\ Unmarked(cache[K(p)]) # cache[K(p)]}
         good == {p \in need : Fresh(K(p))}
         Write(p, written) == IF p \in written THEN Unmarked(api[K(p)]) ELSE api[K(p)]
     IN \E written \in SUBSET good :
          /\ Partial(written, good)
          /\ api' = [api EXCEPT ![K("sts")] = Write("sts", written),
                                ![K("cm")]  = Write("cm", written)]
          /\ Mirror("lag")
  /\ interrupted' = IF faults' # faults \/ \E p \in Primaries : ~Fresh(<<cur, p>>)
                    THEN interrupted \cup {cur} ELSE interrupted
  /\ Visit(todo, "clear", "rolePdbs")
  /\ UNCHANGED <<crVars, workVars, seen, status, mcond, left, orphanAge, scaledAge>>

\* The role-level budgets, found by label in the cache, of roles that are no
\* longer declared.  The first Delete that fails ends the loop.
CleanupOrphanedRolePDBs ==
  /\ pc = "rolePdbs"
  /\ LET due == {r \in Roles \ Declared(seen) : isOwnedByCluster(cache[<<r, "rolePdb">>])}
     IN \E gone \in SUBSET due :
          /\ Partial(gone, due)
          /\ api' = [k \in Keys |-> IF k[2] = "rolePdb" /\ k[1] \in gone THEN Absent ELSE api[k]]
  /\ Mirror("lag")
  /\ pc' = "discover"
  /\ UNCHANGED <<crVars, workVars, seen, status, mcond, todo, left, cur, step, history>>

\* The calls of the teardown of one orphan.
OrphanStates == {"gray", "check", "scale", "stamp", "delete", "gone", "confirm"}

TeardownStart == IF GracePeriod > 0 THEN "gray" ELSE "check"

\* The undeclared groups of the pass's status, and those of which the cache
\* holds an owned StatefulSet or ConfigMap.
Orphans == {g \in Groups \ seen :
              g \in status \/ \E p \in Primaries : isOwnedByCluster(cache[<<g, p>>])}

\* With no orphan at all Cleanup returns at once, the condition cleared.
DiscoverOrphans ==
  /\ pc = "discover"
  /\ Visit(Orphans, TeardownStart, "write")
  /\ mcond' = IF Orphans = {} THEN {} ELSE mcond
  /\ orphanAge' = [g \in Groups |-> IF g \in Orphans /\ orphanAge[g] = NoStamp
                                     THEN 0 ELSE orphanAge[g]]
  /\ UNCHANGED <<crVars, api, cache, workVars, seen, status, left, faults, scaledAge, interrupted>>

\* Without an inventory the condition is left as it is.
DiscoverFails ==
  /\ pc = "discover"
  /\ CanFail("apiError")
  /\ faults' = faults + 1
  /\ pc' = "write"
  /\ UNCHANGED <<crVars, api, cache, workVars, seen, status, mcond, todo, left, cur, step, history>>

\* The pass is done with the current orphan, or must leave it for a later one.
NextOrphan == Visit(todo, TeardownStart, "report")

\* Mutants: an unfinished orphan is not reported; the first one ends the loop.
PendingForgotten == left' = left /\ NextOrphan
PendingStops     == left' = left \cup {cur} \cup todo /\ Visit({}, TeardownStart, "report")

Pending == left' = left \cup {cur} /\ NextOrphan

\* Mutant: one step too many.
SettledPastEnd ==
  /\ IF step <= LastStep THEN pc' = "check" /\ step' = step + 1
                         ELSE pc' = "confirm" /\ step' = 1
  /\ UNCHANGED <<todo, left, cur>>

\* The step at hand has settled: on to the next one, and from the last one to
\* the confirmation.
Settled ==
  /\ IF step < LastStep THEN pc' = "check" /\ step' = step + 1
                        ELSE pc' = "confirm" /\ step' = 1
  /\ UNCHANGED <<todo, left, cur>>

\* The primaries the teardown of the current group finds, and the mark that
\* counts: that of the first one that carries one, else a new one.
GrayPrimaries == {p \in Primaries : Present(cache[<<cur, p>>])}
GrayMarked    == {p \in GrayPrimaries : cache[<<cur, p>>].mark # NoStamp}
GrayMark      == IF "sts" \in GrayMarked THEN cache[<<cur, "sts">>].mark
                 ELSE IF "cm" \in GrayMarked THEN cache[<<cur, "cm">>].mark
                 ELSE 0

\* No primary, or a foreign one: there is no grace period.
NoGrace == GrayPrimaries = {} \/ \E p \in GrayPrimaries : cache[<<cur, p>>].st = "foreign"

\* The primaries that get an Update, the StatefulSet first: all that do not
\* carry the mark yet, unless one of the Updates fails.
MarkPrimaries(written) ==
  LET need == {p \in GrayPrimaries : cache[<<cur, p>>].mark # GrayMark}
      Write(p) == IF p \in written THEN [api[<<cur, p>>] EXCEPT !.mark = GrayMark]
                                   ELSE api[<<cur, p>>]
  IN /\ written \in {need, need \cap {"sts"}, {}}
     /\ \A p \in written : Fresh(<<cur, p>>)
     /\ \/ faults' = faults /\ (written = need \/ \E p \in need \ written : ~Fresh(<<cur, p>>))
        \/ faults' = faults + 1 /\ written # need /\ CanFail("apiError")
     /\ api' = [api EXCEPT ![<<cur, "sts">>] = Write("sts"), ![<<cur, "cm">>] = Write("cm")]
     /\ IF written = need /\ GrayMarked # {} /\ GrayMark >= GracePeriod
        THEN pc' = "check" /\ UNCHANGED <<todo, left, cur, step>>
        ELSE Pending

\* The grace period: every primary is marked with one timestamp, and the
\* teardown goes on once it is old enough.
CheckOrMarkGrayDelete ==
  /\ pc = "gray"
  /\ \/ NoGrace /\ pc' = "check" /\ UNCHANGED <<api, todo, left, cur, step, faults>>
     \/ ~NoGrace /\ \E written \in SUBSET Primaries : MarkPrimaries(written)
  /\ Mirror("lag")
  /\ UNCHANGED <<crVars, workVars, seen, status, mcond, history>>

Slot == TeardownOrder[step]
CurKey == Key(cur, Slot)

\* deleteOwned before its Delete: a derived name that is in use, an absent
\* object and one of another controller settle without a write.
CheckOwned ==
  /\ pc = "check" /\ Slot \notin {"sts", "extra"}
  /\ IF LiveName(cur, Slot) \/ ~isOwnedByCluster(cache[CurKey])
     THEN Settled
     ELSE pc' = "delete" /\ UNCHANGED <<todo, left, cur, step>>
  /\ UNCHANGED <<crVars, api, cache, workVars, seen, status, mcond, faults, history>>

\* Mutant: the deadline passes as soon as the drain has begun.
DrainExpiredAtOnce(sts) == sts.drain # NoStamp

\* The drain of a cached StatefulSet began at least DrainTimeout ago.
drainDeadlineExpired(sts) == sts.drain # NoStamp /\ sts.drain >= DrainTimeout

\* deleteStatefulSet up to its Delete: scale to zero, wait for the drain or
\* its deadline, then delete the PVCs if the CR asks for it.
CheckStatefulSet ==
  /\ pc = "check" /\ Slot = "sts"
  /\ LET sts == cache[CurKey]
         GoTo(at) == pc' = at /\ UNCHANGED <<pvcs, todo, left, cur, step>>
     IN \/ ~isOwnedByCluster(sts) /\ Settled /\ UNCHANGED pvcs
        \/ isOwnedByCluster(sts) /\ sts.replicas > 0 /\ GoTo("scale")
        \/ /\ isOwnedByCluster(sts) /\ sts.replicas = 0 /\ sts.reported > 0
           /\ sts.drain = NoStamp
           /\ GoTo("stamp")
        \/ /\ isOwnedByCluster(sts) /\ sts.replicas = 0 /\ sts.reported > 0
           /\ sts.drain # NoStamp /\ ~drainDeadlineExpired(sts)
           /\ Pending /\ UNCHANGED pvcs
        \/ /\ isOwnedByCluster(sts) /\ sts.replicas = 0
           /\ sts.reported = 0 \/ drainDeadlineExpired(sts)
           /\ pvcs' = IF DeletePVCs THEN pvcs \ {cur} ELSE pvcs
           /\ pc' = "delete"
           /\ UNCHANGED <<todo, left, cur, step>>
  /\ UNCHANGED <<crVars, api, cache, pods, seen, status, mcond, faults, history>>

\* scaleToZero reads the StatefulSet once more, whoever owns it by now, and
\* writes it unless it is gone or at zero.  The retry on a conflict is this
\* step taken after a later Sync; retries that run out write nothing.
ScaleToZero ==
  /\ pc = "scale"
  /\ LET k   == <<cur, "sts">>
         due == cache[k].replicas > 0 /\ Fresh(k)
     IN /\ api' = IF due THEN [api EXCEPT ![k].replicas = 0] ELSE api
        /\ scaledAge' = IF due THEN [scaledAge EXCEPT ![cur] = 0] ELSE scaledAge
  /\ Mirror("lag")
  /\ Pending
  /\ UNCHANGED <<crVars, workVars, seen, status, mcond, faults, orphanAge, interrupted>>

\* drainDeadlineExpired without a timestamp: the same second read, and the
\* start of the drain is stamped on whatever has the name.
StampDrain ==
  /\ pc = "stamp"
  /\ LET k == <<cur, "sts">> IN
     api' = IF Present(cache[k]) /\ Fresh(k) THEN [api EXCEPT ![k].drain = 0] ELSE api
  /\ Mirror("lag")
  /\ Pending
  /\ UNCHANGED <<crVars, workVars, seen, status, mcond, faults, history>>

\* What the API server makes of a Delete by name.
DeletedForms(k) ==
  {IF api[k].st = "leaving" THEN api[k] ELSE Absent}
    \cup (IF api[k].st = "owned" /\ k[2] \in Finalizers
          THEN {[api[k] EXCEPT !.st = "leaving"]} ELSE {})

\* deleteRoleGroupExtras, listed through the uncached reader.  Whatever it
\* finds leaves the step in flight.
CheckExtras ==
  /\ pc = "check" /\ Slot = "extra"
  /\ IF isOwnedByCluster(api[CurKey])
     THEN /\ \E obj \in DeletedForms(CurKey) : api' = [api EXCEPT ![CurKey] = obj]
          /\ Mirror("lag")
          /\ Pending
     ELSE Settled /\ UNCHANGED <<api, cache>>
  /\ UNCHANGED <<crVars, workVars, seen, status, mcond, faults, history>>

\* The Delete call, which names the object and nothing else.
Delete ==
  /\ pc = "delete"
  /\ \E obj \in DeletedForms(CurKey) : api' = [api EXCEPT ![CurKey] = obj]
  /\ DisownPods
  /\ Mirror("lag")
  /\ IF Present(api[CurKey]) THEN pc' = "gone" /\ UNCHANGED <<todo, left, cur, step>>
                             ELSE Settled
  /\ UNCHANGED <<crVars, pvcs, seen, status, mcond, faults, history>>

\* Mutant: a Delete that was accepted counts as done.
ConfirmNothing ==
  /\ pc = "gone"
  /\ Settled
  /\ UNCHANGED <<crVars, api, cache, workVars, seen, status, mcond, faults, history>>

\* confirmDeleted: the cached object must be gone before the next step.
ConfirmDeleted ==
  /\ pc = "gone"
  /\ IF Present(cache[CurKey]) THEN Pending ELSE Settled
  /\ UNCHANGED <<crVars, api, cache, workVars, seen, status, mcond, faults, history>>

\* Mutant: the confirmation reads the cache too.
stillOwnedInCache(k) == isOwnedByCluster(cache[k])

\* stillOwned, read through the uncached confirmation reader.
stillOwned(k) == isOwnedByCluster(api[k])

\* confirmRoleGroupReclaimed, one uncached read at a time.  After the last one
\* the group is pruned from the pass's status.
ConfirmReclaimed ==
  /\ pc = "confirm"
  /\ IF Slot # "extra" /\ ~LiveName(cur, Slot) /\ stillOwned(CurKey)
     THEN Pending /\ UNCHANGED status
     ELSE IF step < LastStep
     THEN step' = step + 1 /\ UNCHANGED <<pc, cur, todo, left, status>>
     ELSE status' = status \ {cur} /\ NextOrphan /\ UNCHANGED left
  /\ UNCHANGED <<crVars, api, cache, workVars, seen, mcond, faults, history>>

\* An API error in the teardown of a group leaves that group pending and the
\* others to be visited.
TeardownFails ==
  /\ pc \in OrphanStates
  /\ CanFail("apiError")
  /\ faults' = faults + 1
  /\ Pending
  /\ UNCHANGED <<crVars, api, cache, workVars, seen, status, mcond, history>>

\* setOrphanCleanupCondition, and the gauge.
ReportOrphans ==
  /\ pc = "report"
  /\ mcond' = left /\ gauge' = left
  /\ pc' = "write"
  /\ UNCHANGED <<spec, ledger, cond, edits, api, cache, workVars, seen, status, todo, left, cur, step, faults, history>>

\* Mutant: the stored status keeps the declared groups only.
WriteDeclared ==
  /\ pc = "write"
  /\ ledger' = status \cap seen /\ cond' = mcond
  /\ EndPass
  /\ UNCHANGED <<spec, gauge, edits, api, cache, workVars, faults, history>>

\* updateStatus.
WriteStatus ==
  /\ pc = "write"
  /\ ledger' = status /\ cond' = mcond
  /\ EndPass
  /\ UNCHANGED <<spec, gauge, edits, api, cache, workVars, faults, history>>

WriteFails ==
  /\ pc = "write"
  /\ CanFail("apiError")
  /\ faults' = faults + 1
  /\ EndPass
  /\ UNCHANGED <<crVars, api, cache, workVars, history>>

\* The declared groups whose teardown progress the running pass has yet to reset.
Unreset == CASE pc \in {"apply", "applyRoles"} -> seen
             [] pc = "clear" -> todo \cup {cur}
             [] OTHER -> {}

\* A 429 ends the pass on the spot, without a status write.
RateLimited ==
  /\ pc \notin {"idle", "clear", "report", "write"}
  /\ CanFail("throttle")
  /\ faults' = faults + 1
  /\ EndPass
  /\ interrupted' = interrupted \cup Unreset
  /\ UNCHANGED <<crVars, api, cache, workVars, orphanAge, scaledAge>>

\* The process dies, or loses its leadership, between two calls.
Crash ==
  /\ pc # "idle"
  /\ CanFail("crash")
  /\ faults' = faults + 1
  /\ EndPass
  /\ gauge' = {}
  /\ interrupted' = interrupted \cup Unreset
  /\ UNCHANGED <<spec, ledger, cond, edits, api, cache, workVars, orphanAge, scaledAge>>
-----------------------------------------------------------------------------
Pass ==
  \/ StartPass \/ ApplyResource \/ ApplyFails \/ ApplyRolePDBs
  \/ ClearTeardownProgress \/ CleanupOrphanedRolePDBs
  \/ DiscoverOrphans \/ DiscoverFails
  \/ CheckOrMarkGrayDelete \/ CheckOwned \/ CheckStatefulSet \/ ScaleToZero
  \/ StampDrain \/ CheckExtras
  \/ Delete \/ ConfirmDeleted \/ ConfirmReclaimed \/ TeardownFails
  \/ ReportOrphans \/ WriteStatus \/ WriteFails \/ RateLimited \/ Crash

Environment ==
  \/ EditSpec \/ Tick
  \/ \E k \in Keys : Sync(k) \/ Finalize(k) \/ Squat(k)
  \/ \E g \in Groups : StartPods(g) \/ DrainPods(g) \/ ReportReplicas(g)

Next == Pass \/ Environment

Spec == Init /\ [][Next]_vars

\* The worker keeps going and is requeued after every pass, time passes, the
\* informers catch up and finalizers are processed, except those of a wedged
\* group.  Pods need not terminate.
Fairness ==
  /\ WF_vars(Pass) /\ WF_vars(Tick)
  /\ \A k \in Keys : WF_vars(Sync(k))
  /\ \A k \in Keys : k[1] \notin Wedged => WF_vars(Finalize(k))

FairSpec == Spec /\ Fairness
-----------------------------------------------------------------------------
(* Properties.                                                             *)

\* Every variable has its type.
TypeOK ==
  /\ spec \subseteq Groups /\ ledger \subseteq Groups /\ cond \subseteq Groups
  /\ gauge \subseteq Groups
  /\ edits \in Nat /\ faults \in Nat
  /\ api \in [Keys -> Objects] /\ cache \in [Keys -> Objects]
  /\ pods \subseteq Groups /\ pvcs \subseteq Groups
  /\ pc \in PassStates
  /\ seen \subseteq Groups /\ status \subseteq Groups /\ mcond \subseteq Groups
  /\ todo \subseteq Groups /\ left \subseteq Groups
  /\ cur \in Groups \cup {0} /\ step \in 0 .. LastStep
  /\ pc \in LoopStates => cur \in Groups /\ step >= 1
  /\ orphanAge \in [Groups -> Stamps] /\ scaledAge \in [Groups -> Stamps]
  /\ interrupted \subseteq Groups

\* The group has nothing left that this cluster owns, except under a name that
\* belongs to a declared group.
Reclaimed(g) == \A slot \in GroupSlots : ~LiveName(g, slot) => ~isOwnedByCluster(api[Key(g, slot)])

\* A group leaves the stored status.roleGroups only when none of its resources
\* is left in the API server, however stale the cache was and wherever passes
\* failed: "a role group is removed from status.RoleGroups only once its
\* resources were really deleted" (Cleanup).
LedgerKept == [][\A g \in ledger \ ledger' : Reclaimed(g)]_vars

\* The first n steps of the current teardown have left nothing behind in the
\* API server.
StepsDone(n) ==
  \A i \in 1 .. n : LiveName(cur, TeardownOrder[i]) \/ ~isOwnedByCluster(api[Key(cur, TeardownOrder[i])])

\* Resources go in order: when a Delete is sent, nothing of the earlier steps
\* is left in the API server: "each step is confirmed gone before the next is
\* issued" (cleanupRoleGroup).
OrderedTeardown == [][Delete => StepsDone(step - 1)]_vars

\* While the informers keep up, a primary resource is deleted only when the grace
\* period has passed since a pass first found its group orphaned after the last
\* pass that saw the group declared, unless a fault interrupted that pass before
\* it had reset the group's progress (checkOrMarkGrayDelete,
\* clearTeardownProgress).
GraceHonoured ==
  [][Delete /\ Slot \in Primaries /\ isOwnedByCluster(api[CurKey]) /\ cur \notin interrupted
       => orphanAge[cur] >= GracePeriod]_vars

\* Expected violation: the same without the exemption.  "A role group which was
\* orphaned and then re-added starts its next teardown from scratch" (Cleanup);
\* a reset that fails is only logged, and nothing retries it.
FreshTeardown ==
  [][Delete /\ Slot \in Primaries /\ isOwnedByCluster(api[CurKey])
       => orphanAge[cur] >= GracePeriod]_vars

\* A StatefulSet whose pods are running is deleted only when the drain timeout
\* has passed since it was last scaled to zero: a timestamp of an earlier drain
\* does not count, under the same exemption (deleteStatefulSet,
\* drainDeadlineExpired, clearTeardownProgress).
DrainHonoured ==
  [][Delete /\ Slot = "sts" /\ isOwnedByCluster(api[CurKey]) /\ cur \in pods \ interrupted
       => scaledAge[cur] >= DrainTimeout]_vars

\* Volumes go only when the pods are gone or that drain has timed out
\* (deleteStatefulSet).
PurgeAfterDrain ==
  [][\A g \in pvcs \ pvcs' : g \in pods \ interrupted => scaledAge[g] >= DrainTimeout]_vars

\* The operator never changes or deletes an object of another controller.
ForeignKept == [][\A k \in Keys : api[k].st = "foreign" => api'[k] = api[k]]_vars

\* The teardown of an orphan never deletes an object in a slot of a group that
\* is declared.
LiveSlotsKept ==
  [][Delete => \A g \in seen, slot \in Shipped : CurKey # Key(g, slot)]_vars

\* Between passes, an undeclared group that still owns something can be found
\* again: through the stored status or through a primary resource.
NoInvisibleOrphan ==
  pc = "idle" => \A g \in Groups \ spec :
    (\E slot \in GroupSlots : isOwnedByCluster(api[<<g, slot>>]))
      => g \in ledger \/ \E p \in Primaries : isOwnedByCluster(api[<<g, p>>])

\* A status write never reports a finished cleanup over leftovers.
ConditionHonest ==
  [][WriteStatus => \A g \in Groups \ seen :
       (\E slot \in GroupSlots : isOwnedByCluster(api[<<g, slot>>])) => g \in cond']_vars

\* The gauge follows the condition down: once the CR says that nothing is
\* pending, the gauge is at zero (Cleanup, "Published on every pass").
GaugeFollows == [][WriteStatus /\ cond' = {} => gauge = {}]_vars

\* A group that stays undeclared is reclaimed and forgotten for good, even if
\* its pods never terminate and another group's teardown never finishes: "one
\* wedged role group cannot keep every other orphan alive forever" (Cleanup).
EventuallyReclaimed ==
  \A g \in Groups \ Wedged : <>[](g \notin spec) =>
    <>[](g \notin ledger \cup cond /\ \A slot \in GroupSlots : ~isOwnedByCluster(api[<<g, slot>>]))
=============================================================================
