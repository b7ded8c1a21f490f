------------------------ MODULE TeardownTimingProofs ------------------------
(***************************************************************************)
(* Proofs about what a teardown may delete and when, for any number of     *)
(* role groups, any grace period and any drain timeout: it keeps away from *)
(* the slots of declared groups, and it waits for the grace period and for *)
(* the drain of the present teardown, however often a group came back,     *)
(* unless a fault kept its progress from being reset; and what it leaves   *)
(* behind is found again and reported.                                     *)
(***************************************************************************)
EXTENDS RoleGroupCleanerProofs

\* The teardown is at work on groups the pass does not see declared.
Orphaned == pc \in OrphanStates => cur \notin seen /\ todo \cap seen = {}

\* A Delete is never about to be sent for a name that is in use.
Aimed == pc = "delete" => ~LiveName(cur, Slot)

LiveInv == TypeOK /\ Orphaned /\ Aimed

\* The loop over orphans goes on with one of those left, or ends.
LEMMA NextVisit ==
  ASSUME NEW S, S \subseteq Groups, NEW at, NEW done, Visit(S, at, done)
  PROVE  (pc' = done /\ todo' = {}) \/ (pc' = at /\ cur' \in S /\ todo' \subseteq S)
<1>1. CASE S = {}
  BY <1>1 DEF Visit
<1>2. CASE S # {}
  <2>1. First(S) \in S  BY <1>2, FirstIn, GroupsAssumption
  <2> QED BY <1>2, <2>1 DEF Visit
<1> QED BY <1>1, <1>2

\* What the loop does not visit next it still has to visit, or it is at its end.
LEMMA VisitAll ==
  ASSUME NEW S, NEW at, NEW done, Visit(S, at, done)
  PROVE  (S = {} /\ pc' = done) \/ (pc' = at /\ S \subseteq todo' \cup {cur'})
BY Zenon DEF Visit

\* What a step of a teardown makes of the loop: it stays at its group, moves on to
\* one of the groups left, or ends.
LEMMA TeardownMoves ==
  ASSUME TypeOK, pc \in OrphanStates, Pass
  PROVE  \/ pc' \in OrphanStates /\ UNCHANGED <<cur, todo, seen>>
         \/ pc' = TeardownStart /\ cur' \in todo /\ todo' \subseteq todo /\ seen' = seen
         \/ pc' \in {"report", "idle"}
<1> USE DEF passVars
<1>1. todo \subseteq Groups  BY DEF TypeOK
<1>2. ASSUME Visit(todo, TeardownStart, "report")
      PROVE  pc' = "report" \/ (pc' = TeardownStart /\ cur' \in todo /\ todo' \subseteq todo)
  BY <1>1, <1>2, NextVisit
<1>3. ASSUME Pending \/ NextOrphan
      PROVE  pc' = "report" \/ (pc' = TeardownStart /\ cur' \in todo /\ todo' \subseteq todo)
  BY <1>2, <1>3 DEF Pending, NextOrphan
<1>4. ASSUME Settled PROVE pc' \in OrphanStates /\ UNCHANGED <<cur, todo>>
  BY <1>4 DEF Settled, OrphanStates
<1>5. CASE CheckOrMarkGrayDelete
  <2>1. Pending \/ (pc' = "check" /\ UNCHANGED <<cur, todo>>)
    BY <1>5 DEF CheckOrMarkGrayDelete, MarkPrimaries
  <2> QED BY <1>3, <1>5, <2>1 DEF CheckOrMarkGrayDelete, OrphanStates
<1>6. CASE \/ CheckOwned \/ CheckStatefulSet \/ ScaleToZero \/ StampDrain \/ CheckExtras
           \/ Delete \/ ConfirmDeleted
  <2>1. /\ \/ Pending \/ Settled
           \/ pc' \in {"scale", "stamp", "delete", "gone"} /\ UNCHANGED <<cur, todo>>
        /\ seen' = seen
    BY <1>6 DEF CheckOwned, CheckStatefulSet, ScaleToZero, StampDrain, CheckExtras, Delete,
         ConfirmDeleted
  <2> QED BY <1>3, <1>4, <2>1 DEF OrphanStates
<1>7. CASE ConfirmReclaimed
  <2>1. /\ Pending \/ NextOrphan \/ UNCHANGED <<pc, cur, todo>>
        /\ seen' = seen
    BY <1>7 DEF ConfirmReclaimed
  <2> QED BY <1>3, <2>1 DEF OrphanStates
<1>8. CASE TeardownFails
  BY <1>3, <1>8 DEF TeardownFails
<1>9. CASE WriteFails \/ RateLimited \/ Crash
  BY <1>9 DEF WriteFails, RateLimited, Crash, EndPass
<1>10. CASE StartPass \/ ApplyResource \/ ApplyFails \/ ApplyRolePDBs \/ ClearTeardownProgress
            \/ CleanupOrphanedRolePDBs \/ DiscoverOrphans \/ DiscoverFails \/ ReportOrphans \/ WriteStatus
  BY <1>10 DEF StartPass, ApplyResource, ApplyFails, ApplyRolePDBs, ClearTeardownProgress,
       CleanupOrphanedRolePDBs, DiscoverOrphans, DiscoverFails, ReportOrphans, WriteStatus, OrphanStates
<1> QED BY <1>5, <1>6, <1>7, <1>8, <1>9, <1>10 DEF Pass

\* Only DiscoverOrphans starts a teardown.
LEMMA TeardownBegins ==
  ASSUME TypeOK, pc \notin OrphanStates, Pass
  PROVE  pc' \notin OrphanStates \/ DiscoverOrphans
<1>1. CASE StartPass \/ ApplyResource \/ ApplyFails \/ ApplyRolePDBs \/ ClearTeardownProgress
           \/ CleanupOrphanedRolePDBs \/ DiscoverFails \/ ReportOrphans \/ WriteStatus \/ WriteFails
           \/ RateLimited \/ Crash
  BY <1>1, VisitState DEF StartPass, ApplyResource, ApplyFails, ApplyRolePDBs, ClearTeardownProgress,
       CleanupOrphanedRolePDBs, DiscoverFails, ReportOrphans, WriteStatus, WriteFails,
       RateLimited, Crash, EndPass, OrphanStates
<1>2. CASE CheckOrMarkGrayDelete \/ CheckOwned \/ CheckStatefulSet \/ ScaleToZero \/ StampDrain
           \/ CheckExtras \/ Delete \/ ConfirmDeleted \/ ConfirmReclaimed \/ TeardownFails
  BY <1>2 DEF CheckOrMarkGrayDelete, CheckOwned, CheckStatefulSet, ScaleToZero, StampDrain,
       CheckExtras, Delete, ConfirmDeleted, ConfirmReclaimed, TeardownFails, OrphanStates
<1> QED BY <1>1, <1>2 DEF Pass

\* The actors around the operator do not touch the pass.
LEMMA EnvironmentOutside ==
  ASSUME Environment \/ UNCHANGED vars PROVE UNCHANGED passVars
BY DEF Environment, EditSpec, Tick, Sync, Finalize, Squat, StartPods, DrainPods,
       SetPods, ReportReplicas, vars

\* A primary resource has the name of its own group.
LEMMA PrimaryKey ==
  ASSUME NEW g, NEW slot \in Primaries
  PROVE  Key(g, slot) = <<g, slot>> /\ ~LiveName(g, slot)
BY AliasAssumption DEF Key, LiveName, Derived, Primaries

\* A write of the teardown that a read of its own precedes is made only after
\* that check.
LEMMA CheckedBefore ==
  ASSUME Pass, pc' \in {"scale", "stamp", "delete"}
  PROVE  /\ CheckOwned \/ CheckStatefulSet
         /\ ~Pending /\ ~Settled /\ UNCHANGED <<cur, step, seen>>
<1>1. ASSUME Pending \/ Settled \/ NextOrphan PROVE FALSE
  BY <1>1, VisitState, TeardownStartState DEF Pending, NextOrphan, Settled
<1>2. CheckOwned \/ CheckStatefulSet
  <2>1. CASE StartPass \/ ApplyResource \/ ApplyFails \/ ApplyRolePDBs \/ ClearTeardownProgress
             \/ CleanupOrphanedRolePDBs \/ DiscoverFails \/ ReportOrphans \/ WriteStatus \/ WriteFails
             \/ RateLimited \/ Crash
    BY <2>1, VisitState DEF StartPass, ApplyResource, ApplyFails, ApplyRolePDBs, ClearTeardownProgress,
         CleanupOrphanedRolePDBs, DiscoverFails, ReportOrphans, WriteStatus, WriteFails,
         RateLimited, Crash, EndPass
  <2>2. CASE DiscoverOrphans
    BY <2>2, VisitState, TeardownStartState DEF DiscoverOrphans
  <2>3. CASE CheckOrMarkGrayDelete
    BY <1>1, <2>3 DEF CheckOrMarkGrayDelete, MarkPrimaries
  <2>4. CASE ScaleToZero \/ StampDrain \/ CheckExtras \/ Delete \/ ConfirmDeleted
             \/ ConfirmReclaimed \/ TeardownFails
    BY <1>1, <2>4 DEF ScaleToZero, StampDrain, CheckExtras, Delete, ConfirmDeleted,
         ConfirmReclaimed, TeardownFails
  <2> QED BY <2>1, <2>2, <2>3, <2>4 DEF Pass
<1> QED BY <1>1, <1>2 DEF CheckOwned, CheckStatefulSet

LEMMA LiveStep == ASSUME LiveInv, [Next]_vars PROVE LiveInv'
<1> USE DEF passVars
<1>typ. TypeOK /\ TypeOK'  BY TypeStep DEF LiveInv
<1>1. CASE Environment \/ UNCHANGED vars
  <2>1. UNCHANGED passVars  BY <1>1, EnvironmentOutside
  <2>2. Orphaned'  BY <2>1 DEF LiveInv, Orphaned
  <2>3. Aimed'  BY <2>1 DEF LiveInv, Aimed, LiveName, Slot
  <2> QED BY <1>typ, <2>2, <2>3 DEF LiveInv
<1>2. CASE Pass
  <2>1. Orphaned'
    <3>1. CASE pc \in OrphanStates
      <4>1. cur \notin seen /\ todo \cap seen = {}  BY <3>1 DEF LiveInv, Orphaned
      <4> QED BY <1>2, <1>typ, <3>1, <4>1, TeardownMoves DEF Orphaned, OrphanStates
    <3>2. CASE DiscoverOrphans
      <4>1. Orphans \subseteq Groups \ seen  BY DEF Orphans
      <4>2. Visit(Orphans, TeardownStart, "write") /\ seen' = seen  BY <3>2 DEF DiscoverOrphans
      <4>3. pc' = "write" \/ (cur' \in Orphans /\ todo' \subseteq Orphans)
        BY <4>1, <4>2, NextVisit
      <4> QED BY <4>1, <4>2, <4>3 DEF Orphaned, OrphanStates
    <3>3. CASE pc \notin OrphanStates /\ ~DiscoverOrphans
      BY <1>2, <1>typ, <3>3, TeardownBegins DEF Orphaned
    <3> QED BY <3>1, <3>2, <3>3
  <2>2. Aimed'
    <3> SUFFICES ASSUME pc' = "delete" PROVE ~LiveName(cur, Slot)'
      BY DEF Aimed
    <3>1. /\ CheckOwned \/ CheckStatefulSet
          /\ ~Settled /\ UNCHANGED <<cur, step, seen>>
      BY <1>2, CheckedBefore
    <3>3. ~LiveName(cur, Slot) /\ UNCHANGED <<cur, step, seen>>
      <4>1. CASE CheckOwned
        BY <3>1, <4>1 DEF CheckOwned
      <4>2. CASE CheckStatefulSet
        <5>1. Slot = "sts"  BY <4>2 DEF CheckStatefulSet
        <5> QED BY <3>1, <5>1, PrimaryKey DEF Primaries
      <4> QED BY <3>1, <4>1, <4>2
    <3> QED BY <3>3 DEF LiveName, Slot
  <2> QED BY <1>typ, <2>1, <2>2 DEF LiveInv
<1> QED BY <1>1, <1>2 DEF Next

\* Under every fault, no Delete of a teardown hits a slot of a declared group, as
\* long as handlers build no derived Service under another group's resource name.
THEOREM LiveSlotsSafe ==
  (\A d \in DOMAIN Alias : d[2] \notin Shipped) => (Spec => LiveSlotsKept)
<1> SUFFICES ASSUME \A d \in DOMAIN Alias : d[2] \notin Shipped PROVE Spec => LiveSlotsKept
  OBVIOUS
<1>1. Init => LiveInv
  <2> SUFFICES ASSUME Init PROVE LiveInv  OBVIOUS
  <2>1. TypeOK  BY InitType
  <2> QED BY <2>1 DEF Init, LiveInv, Orphaned, Aimed, OrphanStates
<1>2. LiveInv /\ [Next]_vars => LiveInv'  BY LiveStep
<1>3. ASSUME LiveInv, Delete, NEW g \in seen, NEW slot \in Shipped
      PROVE  CurKey # Key(g, slot)
  <2>1. pc = "delete" /\ ~LiveName(cur, Slot) /\ cur \notin seen
    BY <1>3 DEF Delete, LiveInv, Aimed, Orphaned, OrphanStates
  <2>2. Key(g, slot) = <<g, slot>>
    <3>1. <<g, slot>>[2] = slot  OBVIOUS
    <3> QED BY <3>1 DEF Key
  <2>3. CASE <<cur, Slot>> \in DOMAIN Alias
    BY <2>1, <2>2, <2>3 DEF CurKey, Key, LiveName
  <2>4. CASE <<cur, Slot>> \notin DOMAIN Alias
    BY <2>1, <2>2, <2>4 DEF CurKey, Key
  <2> QED BY <2>3, <2>4
<1>4. LiveInv /\ [Next]_vars =>
        [Delete => \A g \in seen, slot \in Shipped : CurKey # Key(g, slot)]_vars
  BY <1>3
<1> QED BY <1>1, <1>2, <1>4, PTL DEF Spec, LiveSlotsKept

-----------------------------------------------------------------------------
(***************************************************************************)
(* The clock.  The code reads times off the annotations of the primaries,   *)
(* and the properties are about orphanAge and scaledAge, which the edits of *)
(* the CR and the scaling start, whatever becomes of the annotations.  What *)
(* joins them: outside the groups a fault has spoilt and those the running  *)
(* pass has yet to reset, no mark is older than the first and no drain      *)
(* timestamp older than the second.  The rest is what lets one step rely on *)
(* what another one read.                                                   *)
(***************************************************************************)

\* The operator sees what it and others wrote, StatefulSets report their pods, and
\* no other controller holds the name of a primary.
Prompt ==
  /\ Faults \cap {"lag", "applyLag", "svcLag", "lateStatus", "squat", "idleSquat"} = {}
  /\ \A g \in Groups, p \in Primaries : <<g, p>> \notin ForeignKeys

\* The informers are never behind.
Timely == Faults \cap {"lag", "applyLag", "svcLag"} = {}

Synced == cache = api

\* The groups whose annotations may be those of an earlier teardown.
Loose == interrupted \cup Unreset

\* A primary is the cluster's own or not there, and its mark is no older than the
\* present teardown.
PrimaryOK(o, g, age, loose) ==
  /\ isOwnedByCluster(o) \/ o = Absent
  /\ g \in loose \/ o.mark <= age

Stamped ==
  \A g \in Groups, p \in Primaries : PrimaryOK(api[<<g, p>>], g, orphanAge[g], Loose)

\* A StatefulSet reports its pods, it is at zero only since it was scaled down, and
\* the start of its drain is no earlier than that.
CountOK(o, g, running, down, loose) ==
  /\ g \in running <=> isOwnedByCluster(o) /\ o.reported = 1
  /\ isOwnedByCluster(o) /\ o.replicas = 0 => down >= 0
  /\ g \in loose \/ o.drain <= (IF o.replicas = 1 THEN NoStamp ELSE down)

Counted ==
  \A g \in Groups : CountOK(api[<<g, "sts">>], g, pods, scaledAge[g], Loose)

\* Every group the teardown visits is due.
Due == pc \in OrphanStates => orphanAge[cur] >= 0 /\ \A g \in todo : orphanAge[g] >= 0

\* Only declared groups are applied.
Started == pc = "apply" => cur \in seen /\ todo \subseteq seen

\* Past the gray step the grace period is over, or there is nothing to be gracious to.
GraceOver ==
  pc \in {"check", "scale", "stamp", "delete", "gone", "confirm"} =>
    \/ cur \in interrupted
    \/ orphanAge[cur] >= GracePeriod
    \/ \A p \in Primaries : ~isOwnedByCluster(api[<<cur, p>>])

\* A StatefulSet whose drain is about to be stamped stays scaled down.
Stamping ==
  pc = "stamp" /\ isOwnedByCluster(api[<<cur, "sts">>]) => api[<<cur, "sts">>].replicas = 0

\* A StatefulSet about to be deleted stays scaled down, and its pods are gone or
\* have had their time.
Drained ==
  pc = "delete" /\ Slot = "sts" /\ isOwnedByCluster(api[<<cur, "sts">>]) =>
    /\ api[<<cur, "sts">>].replicas = 0
    /\ cur \in pods => cur \in interrupted \/ scaledAge[cur] >= DrainTimeout

ClockState == Synced /\ Stamped /\ Counted
ClockControl == Due /\ Started /\ GraceOver /\ Stamping /\ Drained
ClockInv == TypeOK /\ ClockState /\ ClockControl

\* Ages.
LEMMA Ages ==
  /\ \A a \in Stamps : a \in Int /\ -1 <= a /\ Older(a) \in Stamps /\ a <= Older(a)
  /\ \A a, b \in Stamps : a <= b => Older(a) <= Older(b)
  /\ NoStamp \in Stamps /\ 0 \in Stamps /\ NoStamp = -1 /\ Older(NoStamp) = NoStamp
BY ConfigAssumption DEF Stamps, NoStamp, Older

\* The fields of an object.
LEMMA ObjectFields ==
  ASSUME NEW o \in Objects
  PROVE  /\ o.mark \in Stamps /\ o.drain \in Stamps /\ o.replicas \in {0, 1} /\ o.reported \in {0, 1}
         /\ LET a == Aged(o) IN /\ a.mark = Older(o.mark) /\ a.drain = Older(o.drain) /\ a.st = o.st
                                /\ a.replicas = o.replicas /\ a.reported = o.reported
         /\ LET u == Unmarked(o) IN /\ u.mark = NoStamp /\ u.drain = NoStamp /\ u.st = o.st
                                    /\ u.replicas = o.replicas /\ u.reported = o.reported
BY DEF Objects, Aged, Unmarked

LEMMA AbsentFields ==
  /\ Absent.mark = NoStamp /\ Absent.drain = NoStamp /\ Absent.reported = 0 /\ Absent.replicas = 0
  /\ ~isOwnedByCluster(Absent) /\ ~Present(Absent) /\ Aged(Absent) = Absent
  /\ \A slot : /\ isOwnedByCluster(Desired(slot)) /\ Desired(slot).mark = NoStamp
               /\ Desired(slot).drain = NoStamp /\ Desired(slot).reported = 0
  /\ Desired("sts").replicas = 1
<1>1. /\ Absent.mark = NoStamp /\ Absent.drain = NoStamp /\ Absent.reported = 0 /\ Absent.replicas = 0
      /\ ~isOwnedByCluster(Absent) /\ ~Present(Absent)
  BY DEF Absent, isOwnedByCluster, Present
<1>2. Aged(Absent) = Absent
  BY DEF Absent, Aged, Older, NoStamp
<1>3. ASSUME NEW slot
      PROVE  /\ isOwnedByCluster(Desired(slot)) /\ Desired(slot).mark = NoStamp
             /\ Desired(slot).drain = NoStamp /\ Desired(slot).reported = 0
  BY DEF Desired, Absent, isOwnedByCluster
<1>4. Desired("sts").replicas = 1
  BY DEF Desired, Absent
<1> QED BY <1>1, <1>2, <1>3, <1>4

\* Without lag the cache is the API server.
LEMMA SyncStep ==
  ASSUME Timely, TypeOK, Synced, [Next]_vars PROVE Synced'
<1> USE DEF crVars, workVars, passVars
<1>typ. api' \in [Keys -> Objects] /\ cache' \in [Keys -> Objects] /\ api \in [Keys -> Objects]
  BY TypeStep DEF TypeOK
<1>1. ASSUME Mirror("lag") \/ Mirror("applyLag") \/ Mirror("svcLag") PROVE Synced'
  <2>1. cache' = [k \in Keys |-> IF api'[k] = api[k] THEN cache[k] ELSE api'[k]]
    BY <1>1 DEF Mirror, Timely
  <2> QED BY <1>typ, <2>1 DEF Synced
<1>2. CASE Tick
  BY <1>2 DEF Tick, Synced
<1>3. ASSUME NEW k \in Keys, Sync(k) PROVE Synced'
  BY <1>3 DEF Sync, Fresh, Synced
<1>4. CASE \/ \E k \in Keys : Finalize(k) \/ Squat(k)
           \/ \E g \in Groups : StartPods(g) \/ DrainPods(g) \/ ReportReplicas(g)
           \/ ApplyResource \/ ApplyRolePDBs
           \/ ClearTeardownProgress \/ CleanupOrphanedRolePDBs \/ CheckOrMarkGrayDelete \/ Delete
  BY <1>1, <1>4 DEF CreationLag, Finalize, Squat, StartPods, DrainPods, SetPods, ReportReplicas, ApplyResource,
       ApplyRolePDBs, ClearTeardownProgress, CleanupOrphanedRolePDBs, CheckOrMarkGrayDelete, Delete
<1>5. CASE ScaleToZero \/ StampDrain \/ CheckExtras
  <2>1. Mirror("lag") \/ UNCHANGED <<api, cache>>  BY <1>5 DEF ScaleToZero, StampDrain, CheckExtras
  <2> QED BY <1>1, <2>1 DEF Synced
<1>6. CASE \/ EditSpec
           \/ StartPass \/ ApplyFails \/ DiscoverOrphans \/ DiscoverFails \/ CheckOwned
           \/ CheckStatefulSet \/ ConfirmDeleted \/ ConfirmReclaimed \/ TeardownFails \/ ReportOrphans
           \/ WriteStatus \/ WriteFails \/ RateLimited \/ Crash \/ UNCHANGED vars
  <2>1. UNCHANGED <<api, cache>>
    BY <1>6 DEF EditSpec, StartPass, ApplyFails, DiscoverOrphans,
         DiscoverFails, CheckOwned, CheckStatefulSet, ConfirmDeleted, ConfirmReclaimed, TeardownFails,
         ReportOrphans, WriteStatus, WriteFails, RateLimited, Crash, vars
  <2> QED BY <2>1 DEF Synced
<1> QED BY <1>2, <1>3, <1>4, <1>5, <1>6 DEF Next, Pass, Environment

\* A group stays loose until the pass has reset it.
LEMMA LooseKept ==
  ASSUME TypeOK, [Next]_vars, NEW g \in Loose
  PROVE  g \in Loose' \/ (ClearTeardownProgress /\ g = cur)
<1> USE DEF crVars, passVars, history
<1>typ. spec \subseteq Groups /\ seen \subseteq Groups /\ todo \subseteq Groups  BY DEF TypeOK
<1>1. CASE Environment \/ UNCHANGED vars
  <2>1. UNCHANGED <<pc, seen, todo, cur, interrupted>>
    BY <1>1 DEF Environment, EditSpec, Tick, Sync, Finalize, Squat, StartPods, DrainPods,
       SetPods, ReportReplicas, vars
  <2> QED BY <2>1 DEF Loose, Unreset
<1>2. CASE StartPass
  <2>1. /\ pc = "idle" /\ seen' = spec /\ interrupted' = interrupted \ spec
        /\ pc' \in {"apply", "applyRoles"}
    BY <1>2, VisitState DEF StartPass
  <2> QED BY <2>1 DEF Loose, Unreset
<1>3. CASE ApplyResource \/ ApplyFails
  <2>1. /\ pc = "apply" /\ seen' = seen /\ interrupted' = interrupted
        /\ pc' \in {"apply", "applyRoles"}
    BY <1>3, VisitState DEF ApplyResource, ApplyFails
  <2> QED BY <2>1 DEF Loose, Unreset
<1>4. CASE ApplyRolePDBs
  <2>1. /\ pc = "applyRoles" /\ interrupted' = interrupted
        /\ (seen = {} /\ pc' = "rolePdbs") \/ (pc' = "clear" /\ seen \subseteq todo' \cup {cur'})
    BY <1>4, VisitAll DEF ApplyRolePDBs
  <2> QED BY <2>1 DEF Loose, Unreset
<1>5. CASE ClearTeardownProgress
  <2>1. /\ pc = "clear" /\ interrupted \subseteq interrupted'
        /\ (todo = {} /\ pc' = "rolePdbs") \/ (pc' = "clear" /\ todo \subseteq todo' \cup {cur'})
    BY <1>5, VisitAll DEF ClearTeardownProgress
  <2> QED BY <1>5, <2>1 DEF Loose, Unreset
<1>6. CASE RateLimited \/ Crash
  BY <1>6 DEF RateLimited, Crash, Loose
<1>7. CASE CleanupOrphanedRolePDBs \/ DiscoverOrphans \/ DiscoverFails \/ CheckOrMarkGrayDelete
           \/ CheckOwned \/ CheckStatefulSet \/ ScaleToZero \/ StampDrain \/ CheckExtras \/ Delete
           \/ ConfirmDeleted \/ ConfirmReclaimed \/ TeardownFails \/ ReportOrphans \/ WriteStatus
           \/ WriteFails
  <2>1. pc \notin {"apply", "applyRoles", "clear"} /\ interrupted' = interrupted
    BY <1>7 DEF CleanupOrphanedRolePDBs, DiscoverOrphans, DiscoverFails, CheckOrMarkGrayDelete,
       CheckOwned, CheckStatefulSet, ScaleToZero, StampDrain, CheckExtras, Delete, ConfirmDeleted,
       ConfirmReclaimed, TeardownFails, OrphanStates, ReportOrphans, WriteStatus, WriteFails
  <2> QED BY <2>1 DEF Loose, Unreset
<1> QED BY <1>1, <1>2, <1>3, <1>4, <1>5, <1>6, <1>7 DEF Next, Pass

\* In the teardown nothing waits to be reset.
LEMMA LooseOrphan ==
  ASSUME pc \in OrphanStates PROVE Loose = interrupted
BY DEF OrphanStates, Loose, Unreset

\* The changes the steps make keep a primary in order.
LEMMA PrimaryKept ==
  ASSUME NEW o \in Objects, NEW g, NEW a \in Stamps, NEW l, PrimaryOK(o, g, a, l)
  PROVE  /\ PrimaryOK(Aged(o), g, Older(a), l) /\ PrimaryOK(Absent, g, a, l)
         /\ \A slot : PrimaryOK(Desired(slot), g, a, l)
         /\ \A b \in Stamps : a <= b => PrimaryOK(o, g, b, l)
         /\ isOwnedByCluster(o) =>
              /\ PrimaryOK(Unmarked(o), g, a, {})
              /\ PrimaryOK([o EXCEPT !.st = "leaving"], g, a, l)
              /\ \A n : /\ PrimaryOK([o EXCEPT !.replicas = n], g, a, l)
                        /\ PrimaryOK([o EXCEPT !.reported = n], g, a, l)
                        /\ PrimaryOK([o EXCEPT !.drain = n], g, a, l)
              /\ \A t \in Stamps : g \in l \/ t <= a => PrimaryOK([o EXCEPT !.mark = t], g, a, l)
<1>1. PrimaryOK(Absent, g, a, l) /\ \A slot : PrimaryOK(Desired(slot), g, a, l)
  BY AbsentFields, Ages DEF PrimaryOK
<1>2. PrimaryOK(Aged(o), g, Older(a), l)
  <2>1. g \in l \/ Older(o.mark) <= Older(a)  BY ObjectFields, Ages DEF PrimaryOK
  <2>2. isOwnedByCluster(Aged(o)) \/ Aged(o) = Absent
    BY SameOwner, AbsentFields DEF PrimaryOK
  <2> QED BY <2>1, <2>2, ObjectFields DEF PrimaryOK
<1>3. ASSUME NEW b \in Stamps, a <= b PROVE PrimaryOK(o, g, b, l)
  <2>1. o.mark \in Int /\ a \in Int /\ b \in Int  BY ObjectFields, Ages
  <2> QED BY <1>3, <2>1 DEF PrimaryOK
<1>4. ASSUME isOwnedByCluster(o) PROVE PrimaryOK(Unmarked(o), g, a, {})
  BY <1>4, SameOwner, ObjectFields, Ages DEF PrimaryOK
<1>5. ASSUME isOwnedByCluster(o)
      PROVE  /\ PrimaryOK([o EXCEPT !.st = "leaving"], g, a, l)
             /\ \A n : /\ PrimaryOK([o EXCEPT !.replicas = n], g, a, l)
                       /\ PrimaryOK([o EXCEPT !.reported = n], g, a, l)
                       /\ PrimaryOK([o EXCEPT !.drain = n], g, a, l)
             /\ \A t \in Stamps : g \in l \/ t <= a => PrimaryOK([o EXCEPT !.mark = t], g, a, l)
  BY <1>5 DEF PrimaryOK, isOwnedByCluster, Objects
<1> QED BY <1>1, <1>2, <1>3, <1>4, <1>5

LEMMA CountKept ==
  ASSUME NEW o \in Objects, NEW g, NEW r, NEW d \in Stamps, NEW l, CountOK(o, g, r, d, l)
  PROVE  /\ CountOK(Aged(o), g, r, Older(d), l) /\ CountOK(Unmarked(o), g, r, d, {})
         /\ \A n : CountOK([o EXCEPT !.mark = n], g, r, d, l)
         /\ g \in l => CountOK([o EXCEPT !.replicas = 1], g, r, d, l)
         /\ o.replicas = 1 => CountOK([o EXCEPT !.replicas = 0], g, r, 0, l)
         /\ isOwnedByCluster(o) /\ o.replicas = 0 => CountOK([o EXCEPT !.drain = 0], g, r, d, l)
         /\ isOwnedByCluster(o) => CountOK([o EXCEPT !.st = "leaving"], g, r, d, l)
         /\ ~isOwnedByCluster(o) => CountOK(Desired("sts"), g, r, d, l)
<1>typ. /\ o.drain \in Stamps /\ o.replicas \in {0, 1} /\ o.drain \in Int /\ d \in Int /\ -1 <= d
        /\ NoStamp = -1
  BY ObjectFields, Ages
<1>1. CountOK(Aged(o), g, r, Older(d), l)
  <2> DEFINE a == Aged(o)
  <2>1. /\ a.drain = Older(o.drain) /\ a.replicas = o.replicas /\ a.reported = o.reported
        /\ isOwnedByCluster(a) <=> isOwnedByCluster(o)
    BY SameOwner, ObjectFields
  <2>2. Older(d) \in Int /\ d <= Older(d)  BY Ages
  <2>3. o.replicas = 0 /\ o.drain <= d => Older(o.drain) <= Older(d)  BY <1>typ, Ages
  <2>4. o.drain <= NoStamp => Older(o.drain) <= NoStamp
    <3>1. o.drain <= NoStamp => o.drain = NoStamp  BY <1>typ, Ages
    <3> QED BY <3>1, Ages
  <2> HIDE DEF a
  <2>5. CountOK(a, g, r, Older(d), l)
    BY <1>typ, <2>1, <2>2, <2>3, <2>4 DEF CountOK
  <2> QED BY <2>5 DEF a
<1>2. CountOK(Unmarked(o), g, r, d, {})
  <2> DEFINE u == Unmarked(o)
  <2>1. /\ u.drain = NoStamp /\ u.replicas = o.replicas /\ u.reported = o.reported
        /\ isOwnedByCluster(u) <=> isOwnedByCluster(o)
    BY SameOwner, ObjectFields
  <2> HIDE DEF u
  <2>2. CountOK(u, g, r, d, {})  BY <1>typ, <2>1 DEF CountOK
  <2> QED BY <2>2 DEF u
<1>3. ASSUME NEW n PROVE CountOK([o EXCEPT !.mark = n], g, r, d, l)
  BY DEF CountOK, isOwnedByCluster, Objects
<1>4. g \in l => CountOK([o EXCEPT !.replicas = 1], g, r, d, l)
  BY DEF CountOK, isOwnedByCluster, Objects
<1>5. o.replicas = 1 => CountOK([o EXCEPT !.replicas = 0], g, r, 0, l)
  BY <1>typ DEF CountOK, isOwnedByCluster, Objects
<1>6. isOwnedByCluster(o) /\ o.replicas = 0 => CountOK([o EXCEPT !.drain = 0], g, r, d, l)
  BY <1>typ DEF CountOK, isOwnedByCluster, Objects
<1>7. isOwnedByCluster(o) => CountOK([o EXCEPT !.st = "leaving"], g, r, d, l)
  BY DEF CountOK, isOwnedByCluster, Objects
<1>8. ~isOwnedByCluster(o) => CountOK(Desired("sts"), g, r, d, l)
  BY <1>typ, AbsentFields DEF CountOK
<1> QED BY <1>1, <1>2, <1>3, <1>4, <1>5, <1>6, <1>7, <1>8

\* A group that is loose allows more.
LEMMA LooseMore ==
  ASSUME NEW o, NEW g, NEW a, NEW r, NEW d, NEW l, NEW m, g \in l => g \in m
  PROVE  /\ PrimaryOK(o, g, a, l) => PrimaryOK(o, g, a, m)
         /\ CountOK(o, g, r, d, l) => CountOK(o, g, r, d, m)
BY DEF PrimaryOK, CountOK

\* A step that writes one object, or none that is a primary.
LEMMA WriteOne ==
  ASSUME TypeOK, Stamped, Counted, orphanAge' = orphanAge, pods' = pods, Loose \subseteq Loose',
         NEW k \in Keys, NEW o, api' = [api EXCEPT ![k] = o],
         \A g \in Groups : k # <<g, "sts">> => scaledAge'[g] = scaledAge[g],
         \A g \in Groups, p \in Primaries : k = <<g, p>> => PrimaryOK(o, g, orphanAge[g], Loose),
         \A g \in Groups : k = <<g, "sts">> => CountOK(o, g, pods, scaledAge'[g], Loose)
  PROVE  Stamped' /\ Counted'
<1>1. api \in [Keys -> Objects]  BY DEF TypeOK
<1>2. ASSUME NEW g \in Groups, NEW p \in Primaries
      PROVE  PrimaryOK(api'[<<g, p>>], g, orphanAge[g], Loose')
  <2>1. <<g, p>> \in Keys  BY PrimaryInKeys DEF Primaries
  <2>2. api'[<<g, p>>] = IF k = <<g, p>> THEN o ELSE api[<<g, p>>]  BY <1>1, <2>1
  <2>3. PrimaryOK(api'[<<g, p>>], g, orphanAge[g], Loose)  BY <2>2 DEF Stamped
  <2> QED BY <2>3, LooseMore
<1>3. ASSUME NEW g \in Groups
      PROVE  CountOK(api'[<<g, "sts">>], g, pods, scaledAge'[g], Loose')
  <2>1. <<g, "sts">> \in Keys  BY PrimaryInKeys
  <2>2. api'[<<g, "sts">>] = IF k = <<g, "sts">> THEN o ELSE api[<<g, "sts">>]  BY <1>1, <2>1
  <2>3. CountOK(api'[<<g, "sts">>], g, pods, scaledAge'[g], Loose)
    BY <2>2 DEF Counted
  <2> QED BY <2>3, LooseMore
<1> QED BY <1>2, <1>3 DEF Stamped, Counted

\* A step that deletes one object; the pods of a StatefulSet go with it.
LEMMA RemoveOne ==
  ASSUME TypeOK, Stamped, Counted, UNCHANGED <<orphanAge, scaledAge>>, Loose \subseteq Loose',
         DisownPods \/ pods' = pods,
         NEW k \in Keys, NEW o, api' = [api EXCEPT ![k] = o],
         o = Absent \/ o = api[k] \/ (isOwnedByCluster(api[k]) /\ o = [api[k] EXCEPT !.st = "leaving"]),
         DisownPods \/ \A g \in Groups : k # <<g, "sts">>
  PROVE  Stamped' /\ Counted'
<1>1. /\ api \in [Keys -> Objects] /\ orphanAge \in [Groups -> Stamps] /\ pods \subseteq Groups
      /\ scaledAge \in [Groups -> Stamps]
  BY DEF TypeOK
<1>2. ASSUME NEW g \in Groups, NEW p \in Primaries
      PROVE  PrimaryOK(api'[<<g, p>>], g, orphanAge[g], Loose')
  <2>1. <<g, p>> \in Keys  BY PrimaryInKeys DEF Primaries
  <2>2. api'[<<g, p>>] = IF k = <<g, p>> THEN o ELSE api[<<g, p>>]  BY <1>1, <2>1
  <2>3. PrimaryOK(api[<<g, p>>], g, orphanAge[g], Loose)  BY DEF Stamped
  <2>4. api[<<g, p>>] \in Objects /\ orphanAge[g] \in Stamps  BY <1>1, <2>1
  <2>5. /\ PrimaryOK(Absent, g, orphanAge[g], Loose)
        /\ isOwnedByCluster(api[<<g, p>>]) =>
             PrimaryOK([api[<<g, p>>] EXCEPT !.st = "leaving"], g, orphanAge[g], Loose)
    BY <2>3, <2>4, PrimaryKept
  <2>6. PrimaryOK(api'[<<g, p>>], g, orphanAge[g], Loose)
    BY <2>2, <2>3, <2>5
  <2> QED BY <2>6, LooseMore
<1>3. ASSUME NEW g \in Groups
      PROVE  CountOK(api'[<<g, "sts">>], g, pods', scaledAge[g], Loose')
  <2> DEFINE q == <<g, "sts">>
  <2>1. q \in Keys  BY PrimaryInKeys
  <2>2. api'[q] = IF k = q THEN o ELSE api[q]  BY <1>1, <2>1
  <2>3. CountOK(api[q], g, pods, scaledAge[g], Loose)  BY DEF Counted
  <2>4. api[q] \in Objects /\ scaledAge[g] \in Stamps  BY <1>1, <2>1
  <2>5. CASE k # q
    <3>1. g \in pods' <=> g \in pods  BY <2>2, <2>3, <2>5 DEF DisownPods, CountOK
    <3>2. CountOK(api[q], g, pods', scaledAge[g], Loose)  BY <2>3, <3>1 DEF CountOK
    <3> QED BY <2>2, <2>5, <3>2, LooseMore
  <2>6. CASE k = q
    <3>1. g \in pods' <=> g \in pods /\ isOwnedByCluster(o)  BY <2>2, <2>6 DEF DisownPods
    <3>2. isOwnedByCluster(o) => isOwnedByCluster(api[q]) /\ o.reported = api[q].reported
      BY <2>4, <2>6, AbsentFields DEF Objects
    <3>3. /\ isOwnedByCluster(o) /\ o.replicas = 0 => scaledAge[g] >= 0
          /\ g \in Loose \/ o.drain <= (IF o.replicas = 1 THEN NoStamp ELSE scaledAge[g])
      <4>1. CASE o = Absent
        <5>1. scaledAge[g] \in Int /\ NoStamp <= scaledAge[g] /\ NoStamp <= NoStamp
          BY <2>4, Ages
        <5> QED BY <4>1, <5>1, AbsentFields
      <4>2. CASE o = api[q]
        BY <2>3, <4>2 DEF CountOK
      <4>3. CASE isOwnedByCluster(api[q]) /\ o = [api[q] EXCEPT !.st = "leaving"]
        <5>1. CountOK(o, g, pods, scaledAge[g], Loose)
          BY <2>3, <2>4, <4>3, CountKept
        <5> QED BY <5>1 DEF CountOK
      <4> QED BY <2>6, <4>1, <4>2, <4>3
    <3> HIDE DEF q
    <3>4. CountOK(o, g, pods', scaledAge[g], Loose)
      BY <2>3, <3>1, <3>2, <3>3 DEF CountOK
    <3>5. CountOK(api'[q], g, pods', scaledAge[g], Loose)  BY <2>2, <2>6, <3>4
    <3>6. CountOK(api'[q], g, pods', scaledAge[g], Loose')  BY <3>5, LooseMore
    <3> QED BY <3>6 DEF q
  <2> QED BY <2>5, <2>6
<1> QED BY <1>2, <1>3 DEF Stamped, Counted

LEMMA DeletedShapes ==
  ASSUME NEW k \in Keys, NEW o \in DeletedForms(k)
  PROVE  o = Absent \/ o = api[k] \/ (isOwnedByCluster(api[k]) /\ o = [api[k] EXCEPT !.st = "leaving"])
BY DEF DeletedForms, isOwnedByCluster

\* A step that writes both primaries of a group.
LEMMA WriteBoth ==
  ASSUME TypeOK, Stamped, Counted, pods' = pods, UNCHANGED <<orphanAge, scaledAge>>, NEW h \in Groups,
         Loose \ {h} \subseteq Loose',
         NEW s, NEW c, api' = [api EXCEPT ![<<h, "sts">>] = s, ![<<h, "cm">>] = c],
         PrimaryOK(s, h, orphanAge[h], Loose'), PrimaryOK(c, h, orphanAge[h], Loose'),
         CountOK(s, h, pods, scaledAge[h], Loose')
  PROVE  Stamped' /\ Counted'
<1>1. api \in [Keys -> Objects]  BY DEF TypeOK
<1>2. ASSUME NEW g \in Groups
      PROVE  /\ api'[<<g, "sts">>] = IF g = h THEN s ELSE api[<<g, "sts">>]
             /\ api'[<<g, "cm">>] = IF g = h THEN c ELSE api[<<g, "cm">>]
  <2>1. <<g, "sts">> \in Keys /\ <<g, "cm">> \in Keys /\ <<h, "sts">> \in Keys /\ <<h, "cm">> \in Keys
    BY PrimaryInKeys
  <2>2. <<g, "sts">> # <<h, "cm">> /\ <<g, "cm">> # <<h, "sts">>  OBVIOUS
  <2> QED BY <1>1, <2>1, <2>2
<1>3. ASSUME NEW g \in Groups, NEW p \in Primaries
      PROVE  PrimaryOK(api'[<<g, p>>], g, orphanAge[g], Loose')
  <2>1. PrimaryOK(api[<<g, p>>], g, orphanAge[g], Loose)  BY DEF Stamped
  <2>2. p = "sts" \/ p = "cm"  BY DEF Primaries
  <2>3. CASE g = h  BY <1>2, <2>2, <2>3
  <2>4. CASE g # h
    <3>1. api'[<<g, p>>] = api[<<g, p>>] /\ (g \in Loose => g \in Loose')  BY <1>2, <2>2, <2>4
    <3> QED BY <2>1, <3>1, LooseMore
  <2> QED BY <2>3, <2>4
<1>4. ASSUME NEW g \in Groups
      PROVE  CountOK(api'[<<g, "sts">>], g, pods, scaledAge[g], Loose')
  <2>1. CASE g = h  BY <1>2, <2>1
  <2>2. CASE g # h
    <3>1. api'[<<g, "sts">>] = api[<<g, "sts">>] /\ (g \in Loose => g \in Loose')  BY <1>2, <2>2
    <3>2. CountOK(api[<<g, "sts">>], g, pods, scaledAge[g], Loose)  BY DEF Counted
    <3> QED BY <3>1, <3>2, LooseMore
  <2> QED BY <2>1, <2>2
<1> QED BY <1>3, <1>4 DEF Stamped, Counted

\* A step that writes no primary.
LEMMA WriteNone ==
  ASSUME Stamped, Counted, UNCHANGED <<orphanAge, scaledAge, pods>>, Loose \subseteq Loose',
         \A g \in Groups, p \in Primaries : api'[<<g, p>>] = api[<<g, p>>]
  PROVE  Stamped' /\ Counted'
<1>1. \A g \in Groups : api'[<<g, "sts">>] = api[<<g, "sts">>]  BY DEF Primaries
<1>2. ASSUME NEW g \in Groups, NEW p \in Primaries
      PROVE  PrimaryOK(api'[<<g, p>>], g, orphanAge[g], Loose')
  <2>1. PrimaryOK(api'[<<g, p>>], g, orphanAge[g], Loose)  BY DEF Stamped
  <2> QED BY <2>1, LooseMore
<1>3. ASSUME NEW g \in Groups
      PROVE  CountOK(api'[<<g, "sts">>], g, pods, scaledAge[g], Loose')
  <2>1. CountOK(api'[<<g, "sts">>], g, pods, scaledAge[g], Loose)  BY <1>1 DEF Counted
  <2> QED BY <2>1, LooseMore
<1> QED BY <1>2, <1>3 DEF Stamped, Counted

LEMMA StateStep ==
  ASSUME Prompt, ClockInv, [Next]_vars PROVE Stamped' /\ Counted'
<1> USE DEF crVars, workVars, passVars, history
<1>typ. /\ TypeOK /\ Stamped /\ Counted /\ cache = api
        /\ api \in [Keys -> Objects] /\ orphanAge \in [Groups -> Stamps] /\ pods \subseteq Groups
        /\ scaledAge \in [Groups -> Stamps] /\ orphanAge' \in [Groups -> Stamps]
  BY TypeStep DEF ClockInv, ClockState, Synced, TypeOK
<1>fault. Faults \cap {"squat", "idleSquat"} = {} /\ "lateStatus" \notin Faults
  BY DEF Prompt
<1>key. ASSUME NEW g \in Groups, NEW p \in Primaries
        PROVE  /\ <<g, p>> \in Keys /\ api[<<g, p>>] \in Objects
               /\ orphanAge[g] \in Stamps /\ scaledAge[g] \in Stamps
               /\ PrimaryOK(api[<<g, p>>], g, orphanAge[g], Loose)
               /\ p = "sts" => CountOK(api[<<g, p>>], g, pods, scaledAge[g], Loose)
  BY <1>typ, PrimaryInKeys DEF Primaries, Stamped, Counted
<1>prim. "sts" \in Primaries /\ "cm" \in Primaries  BY DEF Primaries
<1>loop. ASSUME pc \in LoopStates
         PROVE  cur \in Groups /\ step \in 1 .. LastStep
  BY <1>loop, <1>typ DEF TypeOK, LastStep
<1>loose. ~ClearTeardownProgress => Loose \subseteq Loose'
  BY <1>typ, LooseKept
\* The key a pass works on is a primary only of its own group.
<1>mine. ASSUME NEW slot, NEW g, NEW p \in Primaries, Key(cur, slot) = <<g, p>>
         PROVE  cur = g /\ slot = p
  BY <1>mine DEF Key, Primaries
<1>1. CASE Tick
  <2>0. pods' = pods /\ Loose' = Loose  BY <1>1 DEF Tick, Loose, Unreset
  <2>1. ASSUME NEW g \in Groups, NEW p \in Primaries
        PROVE  /\ PrimaryOK(api'[<<g, p>>], g, orphanAge'[g], Loose)
               /\ api'[<<g, p>>] = Aged(api[<<g, p>>])
    <3>1. api'[<<g, p>>] = Aged(api[<<g, p>>]) /\ orphanAge'[g] = Older(orphanAge[g])
      BY <1>1, <1>key DEF Tick
    <3>2. /\ api[<<g, p>>] \in Objects /\ orphanAge[g] \in Stamps
          /\ PrimaryOK(api[<<g, p>>], g, orphanAge[g], Loose)
      BY <1>key
    <3>3. PrimaryOK(Aged(api[<<g, p>>]), g, Older(orphanAge[g]), Loose)  BY <3>2, PrimaryKept
    <3> QED BY <3>1, <3>3
  <2>2. ASSUME NEW g \in Groups
        PROVE  CountOK(api'[<<g, "sts">>], g, pods, scaledAge'[g], Loose)
    <3>1. /\ scaledAge'[g] = Older(scaledAge[g])
          /\ api'[<<g, "sts">>] = Aged(api[<<g, "sts">>])
      BY <1>1, <1>prim, <2>1 DEF Tick
    <3>2. /\ api[<<g, "sts">>] \in Objects /\ scaledAge[g] \in Stamps
          /\ CountOK(api[<<g, "sts">>], g, pods, scaledAge[g], Loose)
      BY <1>key, <1>prim
    <3>3. CountOK(Aged(api[<<g, "sts">>]), g, pods, Older(scaledAge[g]), Loose)
      BY <3>2, CountKept
    <3> QED BY <3>1, <3>3
  <2> QED BY <2>0, <2>1, <2>2 DEF Stamped, Counted
<1>2. ASSUME NEW k \in Keys, Finalize(k) PROVE Stamped' /\ Counted'
  <2>1. /\ api' = [api EXCEPT ![k] = Absent] /\ DisownPods /\ UNCHANGED <<orphanAge, scaledAge>>
        /\ Loose' = Loose
    BY <1>2 DEF Finalize, Loose, Unreset
  <2> QED BY <1>typ, <2>1, RemoveOne
<1>3. ASSUME NEW k \in Keys PROVE ~Squat(k)
  BY <1>fault DEF Squat, CanFail
<1>4. ASSUME NEW g \in Groups, NEW n \in {0, 1}, UNCHANGED <<orphanAge, scaledAge>>, Loose' = Loose,
             pods' = IF n = 1 THEN pods \cup {g} ELSE pods \ {g}, isOwnedByCluster(api[<<g, "sts">>]),
             api' = [api EXCEPT ![<<g, "sts">>].reported = n]
      PROVE  Stamped' /\ Counted'
  <2> DEFINE q == <<g, "sts">>
             o == [api[q] EXCEPT !.reported = n]
  <2>1. /\ q \in Keys /\ api[q] \in Objects /\ orphanAge[g] \in Stamps
        /\ PrimaryOK(api[q], g, orphanAge[g], Loose)
    BY <1>key, <1>prim
  <2>2. api' = [api EXCEPT ![q] = o]  BY <1>4
  <2>3. PrimaryOK([api[q] EXCEPT !.reported = n], g, orphanAge[g], Loose)
    <3> HIDE DEF q
    <3> QED BY <1>4, <2>1, PrimaryKept DEF q
  <2>4. /\ isOwnedByCluster(o) /\ o.reported = n /\ o.replicas = api[q].replicas
        /\ o.drain = api[q].drain
    BY <1>4, <2>1 DEF isOwnedByCluster, Objects
  <2> HIDE DEF o
  <2>5. ASSUME NEW h \in Groups, NEW p \in Primaries
        PROVE  PrimaryOK(api'[<<h, p>>], h, orphanAge[h], Loose)
    <3>1. api'[<<h, p>>] = IF <<h, p>> = q THEN o ELSE api[<<h, p>>]  BY <1>typ, <1>key, <2>2
    <3> QED BY <1>key, <2>3, <3>1 DEF o
  <2>6. ASSUME NEW h \in Groups
        PROVE  CountOK(api'[<<h, "sts">>], h, pods', scaledAge[h], Loose)
    <3>1. api'[<<h, "sts">>] = IF h = g THEN o ELSE api[<<h, "sts">>]
      BY <1>typ, <1>key, <1>prim, <2>2
    <3>2. CountOK(api[<<h, "sts">>], h, pods, scaledAge[h], Loose)  BY <1>key, <1>prim
    <3>3. CASE h = g
      <4>1. h \in pods' <=> n = 1  BY <1>4, <3>3
      <4> QED BY <1>4, <2>4, <3>1, <3>2, <3>3, <4>1 DEF CountOK
    <3>4. CASE h # g
      <4>1. h \in pods' <=> h \in pods  BY <1>4, <3>4
      <4> QED BY <3>1, <3>2, <3>4, <4>1 DEF CountOK
    <3> QED BY <3>3, <3>4
  <2> QED BY <1>4, <2>5, <2>6 DEF Stamped, Counted
<1>5. ASSUME NEW g \in Groups, StartPods(g) \/ DrainPods(g) \/ ReportReplicas(g)
      PROVE  Stamped' /\ Counted'
  <2>0. UNCHANGED <<orphanAge, scaledAge>> /\ Loose' = Loose /\ isOwnedByCluster(api[<<g, "sts">>])
    BY <1>5 DEF StartPods, DrainPods, SetPods, ReportReplicas, Loose, Unreset
  <2>1. CASE StartPods(g)
    <3>1. api' = [api EXCEPT ![<<g, "sts">>].reported = 1] /\ pods' = pods \cup {g}
      BY <1>fault, <2>1 DEF StartPods, SetPods
    <3>2. 1 \in {0, 1} /\ pods' = IF 1 = 1 THEN pods \cup {g} ELSE pods \ {g}  BY <3>1
    <3> QED BY <1>4, <2>0, <3>1, <3>2
  <2>2. CASE DrainPods(g)
    <3>1. api' = [api EXCEPT ![<<g, "sts">>].reported = 0] /\ pods' = pods \ {g}
      BY <1>fault, <2>2 DEF DrainPods, SetPods
    <3>2. 0 \in {0, 1} /\ pods' = IF 0 = 1 THEN pods \cup {g} ELSE pods \ {g}  BY <3>1
    <3> QED BY <1>4, <2>0, <3>1, <3>2
  <2>3. CASE ReportReplicas(g)
    <3>1. PICK n \in {0, 1} : /\ n = IF g \in pods THEN 1 ELSE 0
                              /\ api' = [api EXCEPT ![<<g, "sts">>].reported = n]
      BY <2>3 DEF ReportReplicas
    <3>2. pods' = pods  BY <2>3 DEF ReportReplicas
    <3>3. pods' = IF n = 1 THEN pods \cup {g} ELSE pods \ {g}  BY <3>1, <3>2
    <3> QED BY <1>4, <2>0, <3>1, <3>3
  <2> QED BY <1>5, <2>1, <2>2, <2>3
<1>6. CASE ApplyResource
  <2> DEFINE slot == ApplyOrder[step]
             k == Key(cur, slot)
             o == Applied(slot, k)
  <2>0. cur \in Loose /\ Loose \subseteq Loose'
    <3>1. pc = "apply" /\ ~ClearTeardownProgress  BY <1>6 DEF ApplyResource, ClearTeardownProgress
    <3> QED BY <1>loose, <3>1 DEF ClockInv, ClockControl, Started, Loose, Unreset
  <2>1. cur \in Groups /\ step \in 1 .. LastStep  BY <1>6, <1>loop DEF ApplyResource, LoopStates
  <2>2. k \in Keys  BY <2>1, SlotsOfOrders, KeyInKeys
  <2>3. /\ api' = [api EXCEPT ![k] = o] /\ Applies(slot, k)
        /\ UNCHANGED <<orphanAge, scaledAge, pods>>
    BY <1>6 DEF ApplyResource
  <2>4. o = api[k] \/ (~isOwnedByCluster(api[k]) /\ o = Desired(slot))
        \/ (isOwnedByCluster(api[k]) /\ o = [api[k] EXCEPT !.replicas = Desired(slot).replicas])
    <3>1. ~Present(api[k]) => ~isOwnedByCluster(api[k])  BY DEF Present, isOwnedByCluster
    <3> QED BY <1>typ, <2>3, <3>1 DEF Applied, Applies
  <2>5. \A g, p : p \in Primaries /\ k = <<g, p>> => cur = g /\ slot = p  BY <1>mine
  <2> HIDE DEF o, k, slot
  <2>6. ASSUME NEW g \in Groups, NEW p \in Primaries, k = <<g, p>>
        PROVE  PrimaryOK(o, g, orphanAge[g], Loose)
    <3>1. /\ api[k] \in Objects /\ orphanAge[g] \in Stamps
          /\ PrimaryOK(api[k], g, orphanAge[g], Loose)
      BY <1>key, <2>6
    <3> DEFINE n == Desired(slot).replicas
    <3>2. PrimaryOK(Desired(slot), g, orphanAge[g], Loose)  BY <3>1, PrimaryKept
    <3> HIDE DEF n
    <3>3. isOwnedByCluster(api[k]) => PrimaryOK([api[k] EXCEPT !.replicas = n], g, orphanAge[g], Loose)
      BY <3>1, PrimaryKept
    <3> QED BY <2>4, <3>1, <3>2, <3>3 DEF n
  <2>7. ASSUME NEW g \in Groups, k = <<g, "sts">>
        PROVE  CountOK(o, g, pods, scaledAge[g], Loose)
    <3>1. /\ api[k] \in Objects /\ scaledAge[g] \in Stamps
          /\ CountOK(api[k], g, pods, scaledAge[g], Loose)
      BY <1>key, <1>prim, <2>7
    <3>2. slot = "sts" /\ g \in Loose  BY <1>prim, <2>0, <2>5, <2>7
    <3>3. CountOK([api[k] EXCEPT !.replicas = 1], g, pods, scaledAge[g], Loose)
      BY <3>1, <3>2, CountKept
    <3>4. ~isOwnedByCluster(api[k]) => CountOK(Desired("sts"), g, pods, scaledAge[g], Loose)
      BY <3>1, CountKept
    <3> QED BY <2>4, <3>1, <3>2, <3>3, <3>4, AbsentFields
  <2> QED BY <1>typ, <2>0, <2>2, <2>3, <2>6, <2>7, WriteOne
<1>7. CASE ApplyRolePDBs \/ CleanupOrphanedRolePDBs
  <2>1. \E made, o : api' = [k \in Keys |-> IF k[2] = "rolePdb" /\ k[1] \in made THEN o ELSE api[k]]
    BY <1>7 DEF ApplyRolePDBs, CleanupOrphanedRolePDBs
  <2>2. \A g \in Groups, p \in Primaries : <<g, p>>[2] # "rolePdb"  BY DEF Primaries
  <2>3. \A g \in Groups, p \in Primaries : api'[<<g, p>>] = api[<<g, p>>]
    BY <1>key, <2>1, <2>2
  <2>4. UNCHANGED <<orphanAge, scaledAge, pods>> /\ ~ClearTeardownProgress
    BY <1>7 DEF ApplyRolePDBs, CleanupOrphanedRolePDBs, ClearTeardownProgress
  <2> QED BY <1>typ, <1>loose, <2>3, <2>4, WriteNone
<1>8. CASE ClearTeardownProgress
  <2> DEFINE K(p) == <<cur, p>>
             need == {p \in Primaries : isOwnedByCluster(cache[K(p)]) /\ Unmarked(cache[K(p)]) # cache[K(p)]}
             good == {p \in need : Fresh(K(p))}
             W(p, written) == IF p \in written THEN Unmarked(api[K(p)]) ELSE api[K(p)]
  <2>1. cur \in Groups /\ UNCHANGED <<pods, orphanAge, scaledAge>>
    BY <1>8, <1>loop DEF ClearTeardownProgress, LoopStates
  <2>2. PICK written \in SUBSET good :
          /\ Partial(written, good)
          /\ api' = [api EXCEPT ![K("sts")] = W("sts", written), ![K("cm")] = W("cm", written)]
    BY <1>8 DEF ClearTeardownProgress
  <2>3. good = need  BY <1>typ DEF Fresh
  <2>4. Loose \ {cur} \subseteq Loose'  BY <1>typ, LooseKept
  <2>5. cur \in Loose' \/ written = need
    <3>1. faults \in Nat  BY <1>typ DEF TypeOK
    <3>2. written = good \/ faults' # faults  BY <2>2, <3>1 DEF Partial
    <3>3. faults' # faults => cur \in interrupted'  BY <1>8 DEF ClearTeardownProgress
    <3> QED BY <2>3, <3>2, <3>3 DEF Loose
  <2>6. ASSUME NEW p \in Primaries
        PROVE  /\ PrimaryOK(W(p, written), cur, orphanAge[cur], Loose')
               /\ p = "sts" => CountOK(W(p, written), cur, pods, scaledAge[cur], Loose')
    <3> DEFINE o == api[K(p)]
    <3>1. /\ o \in Objects /\ PrimaryOK(o, cur, orphanAge[cur], Loose)
          /\ orphanAge[cur] \in Stamps /\ scaledAge[cur] \in Stamps
          /\ p = "sts" => CountOK(o, cur, pods, scaledAge[cur], Loose)
      BY <1>key, <2>1
    <3>2. p \in need <=> isOwnedByCluster(o) /\ Unmarked(o) # o  BY <1>typ
    <3>3. CASE p \in written
      <4>1. isOwnedByCluster(o) /\ W(p, written) = Unmarked(o)  BY <2>2, <2>3, <3>2, <3>3
      <4> HIDE DEF o, W
      <4>2. /\ PrimaryOK(Unmarked(o), cur, orphanAge[cur], {})
            /\ p = "sts" => CountOK(Unmarked(o), cur, pods, scaledAge[cur], {})
        BY <3>1, <4>1, PrimaryKept, CountKept
      <4> QED BY <4>1, <4>2, LooseMore
    <3>4. CASE p \notin written
      <4>1. W(p, written) = o  BY <3>4
      <4>2. CASE cur \in Loose'
        <5> HIDE DEF o, W
        <5> QED BY <3>1, <4>1, <4>2 DEF PrimaryOK, CountOK
      <4>3. CASE written = need
        <5>1. o.mark = NoStamp /\ o.drain = NoStamp
          <6>1. CASE isOwnedByCluster(o)
            <7>1. Unmarked(o) = o  BY <3>2, <3>4, <4>3, <6>1
            <7> HIDE DEF o
            <7> QED BY <3>1, <7>1, ObjectFields
          <6>2. CASE ~isOwnedByCluster(o)  BY <3>1, <6>2, AbsentFields DEF PrimaryOK
          <6> QED BY <6>1, <6>2
        <5>2. NoStamp <= orphanAge[cur] /\ NoStamp <= scaledAge[cur] /\ NoStamp <= NoStamp
          BY <3>1, Ages
        <5> HIDE DEF o, W
        <5> QED BY <3>1, <4>1, <5>1, <5>2 DEF PrimaryOK, CountOK
      <4> QED BY <2>5, <4>2, <4>3
    <3> QED BY <3>3, <3>4
  <2> HIDE DEF W
  <2> QED BY <1>typ, <1>prim, <2>1, <2>2, <2>4, <2>6, WriteBoth
<1>9. CASE StartPass
  <2>1. UNCHANGED <<api, pods, scaledAge>>  BY <1>9 DEF StartPass
  <2>2. pc' \in {"apply", "applyRoles"} /\ seen' = spec  BY <1>9, VisitState DEF StartPass
  <2>3. Loose \subseteq Loose' /\ spec \subseteq Loose'
    <3>1. ~ClearTeardownProgress  BY <1>9 DEF StartPass, ClearTeardownProgress
    <3> QED BY <1>loose, <2>2, <3>1 DEF Loose, Unreset
  <2>4. ASSUME NEW g \in Groups, NEW p \in Primaries
        PROVE  PrimaryOK(api[<<g, p>>], g, orphanAge'[g], Loose')
    <3>1. orphanAge'[g] = orphanAge[g] \/ g \in Loose'  BY <1>9, <2>3 DEF StartPass
    <3> QED BY <1>key, <2>3, <3>1 DEF PrimaryOK
  <2>5. ASSUME NEW g \in Groups
        PROVE  CountOK(api[<<g, "sts">>], g, pods, scaledAge[g], Loose')
    BY <1>key, <1>prim, <2>3, LooseMore
  <2> QED BY <2>1, <2>4, <2>5 DEF Stamped, Counted
<1>10. CASE DiscoverOrphans
  <2>1. UNCHANGED <<api, pods, scaledAge>> /\ ~ClearTeardownProgress
    BY <1>10 DEF DiscoverOrphans, ClearTeardownProgress
  <2>2. ASSUME NEW g \in Groups, NEW p \in Primaries
        PROVE  PrimaryOK(api[<<g, p>>], g, orphanAge'[g], Loose')
    <3>1. orphanAge'[g] = orphanAge[g] \/ (orphanAge[g] = NoStamp /\ orphanAge'[g] = 0)
      BY <1>10 DEF DiscoverOrphans
    <3>2. orphanAge[g] \in Stamps /\ orphanAge'[g] \in Stamps  BY <1>typ
    <3>3. orphanAge[g] \in Int /\ NoStamp = -1  BY <3>2, Ages
    <3>4. orphanAge[g] <= orphanAge'[g]  BY <3>1, <3>3
    <3>5. PrimaryOK(api[<<g, p>>], g, orphanAge'[g], Loose)  BY <1>key, <3>2, <3>4, PrimaryKept
    <3> QED BY <1>loose, <2>1, <3>5, LooseMore
  <2>3. ASSUME NEW g \in Groups
        PROVE  CountOK(api[<<g, "sts">>], g, pods, scaledAge[g], Loose')
    BY <1>key, <1>prim, <1>loose, <2>1, LooseMore
  <2> QED BY <2>1, <2>2, <2>3 DEF Stamped, Counted
<1>11. CASE CheckOrMarkGrayDelete
  <2>0. /\ pc = "gray" /\ cur \in Groups /\ UNCHANGED <<pods, orphanAge, scaledAge>>
        /\ Loose \subseteq Loose'
    <3>1. pc = "gray" /\ ~ClearTeardownProgress
      BY <1>11 DEF CheckOrMarkGrayDelete, ClearTeardownProgress
    <3> QED BY <1>11, <1>loop, <1>loose, <3>1 DEF CheckOrMarkGrayDelete, LoopStates
  <2>1. CASE NoGrace /\ api' = api
    BY <1>typ, <2>0, <2>1, WriteNone
  <2>2. ASSUME NEW written, ~NoGrace, MarkPrimaries(written) PROVE Stamped' /\ Counted'
    <3> DEFINE W(p) == IF p \in written THEN [api[<<cur, p>>] EXCEPT !.mark = GrayMark] ELSE api[<<cur, p>>]
    <3>1. /\ api' = [api EXCEPT ![<<cur, "sts">>] = W("sts"), ![<<cur, "cm">>] = W("cm")]
          /\ written \subseteq GrayPrimaries
      BY <2>2 DEF MarkPrimaries
    <3>2. \A p \in GrayPrimaries : p \in Primaries /\ api[<<cur, p>>].st # "absent"
      BY <1>typ DEF GrayPrimaries, Present
    <3>3. \A p \in GrayPrimaries : isOwnedByCluster(api[<<cur, p>>])
      <4>1. Absent.st = "absent"  BY DEF Absent
      <4> QED BY <1>key, <2>0, <3>2, <4>1 DEF PrimaryOK
    <3>4. GrayMark \in Stamps /\ (cur \in Loose \/ GrayMark <= orphanAge[cur])
      <4>1. /\ api[<<cur, "sts">>].mark \in Stamps
            /\ cur \in Loose \/ api[<<cur, "sts">>].mark <= orphanAge[cur]
            /\ api[<<cur, "cm">>].mark \in Stamps
            /\ cur \in Loose \/ api[<<cur, "cm">>].mark <= orphanAge[cur]
        BY <1>key, <1>prim, <2>0, ObjectFields DEF PrimaryOK
      <4>2. 0 <= orphanAge[cur]
        <5>1. orphanAge[cur] \in Int  BY <1>typ, <2>0, Ages
        <5> QED BY <2>0, <5>1 DEF ClockInv, ClockControl, Due, OrphanStates
      <4> QED BY <1>typ, <4>1, <4>2, Ages DEF GrayMark
    <3>5. ASSUME NEW p \in Primaries
          PROVE  /\ PrimaryOK(W(p), cur, orphanAge[cur], Loose)
                 /\ p = "sts" => CountOK(W(p), cur, pods, scaledAge[cur], Loose)
      <4>1. CASE p \in written
        BY <1>key, <2>0, <3>1, <3>3, <3>4, <4>1, PrimaryKept, CountKept
      <4>2. CASE p \notin written
        BY <1>key, <2>0, <4>2
      <4> QED BY <4>1, <4>2
    <3> HIDE DEF W
    <3>6. /\ PrimaryOK(W("sts"), cur, orphanAge[cur], Loose')
          /\ PrimaryOK(W("cm"), cur, orphanAge[cur], Loose')
          /\ CountOK(W("sts"), cur, pods, scaledAge[cur], Loose')
      BY <1>prim, <2>0, <3>5, LooseMore
    <3> QED BY <1>typ, <2>0, <3>1, <3>6, WriteBoth
  <2> QED BY <1>11, <2>1, <2>2 DEF CheckOrMarkGrayDelete
<1>12. CASE ScaleToZero \/ StampDrain
  <2> DEFINE q == <<cur, "sts">>
  <2>1. /\ cur \in Groups /\ UNCHANGED <<pods, orphanAge>> /\ Loose \subseteq Loose'
    <3>1. pc \in LoopStates /\ ~ClearTeardownProgress
      BY <1>12 DEF ScaleToZero, StampDrain, ClearTeardownProgress, LoopStates
    <3> QED BY <1>12, <1>loop, <1>loose, <3>1 DEF ScaleToZero, StampDrain
  <2>2. /\ q \in Keys /\ api[q] \in Objects /\ orphanAge[cur] \in Stamps /\ scaledAge[cur] \in Stamps
        /\ PrimaryOK(api[q], cur, orphanAge[cur], Loose)
        /\ CountOK(api[q], cur, pods, scaledAge[cur], Loose)
    BY <1>key, <1>prim, <2>1
  <2>3. Present(api[q]) => isOwnedByCluster(api[q])
    BY <2>2, AbsentFields DEF PrimaryOK
  <2>4. CASE UNCHANGED <<api, scaledAge>>
    BY <1>typ, <2>1, <2>4, WriteNone
  <2>5. ASSUME NEW o, api' = [api EXCEPT ![q] = o], PrimaryOK(o, cur, orphanAge[cur], Loose),
               CountOK(o, cur, pods, scaledAge'[cur], Loose),
               \A g \in Groups \ {cur} : scaledAge'[g] = scaledAge[g]
        PROVE  Stamped' /\ Counted'
    <3>1. \A g \in Groups, p \in Primaries : q = <<g, p>> => g = cur  OBVIOUS
    <3>2. \A g \in Groups : (q = <<g, "sts">> => g = cur) /\ (q # <<g, "sts">> => g # cur)  OBVIOUS
    <3> QED BY <1>typ, <2>1, <2>2, <2>5, <3>1, <3>2, WriteOne
  <2>6. CASE ScaleToZero
    <3>1. \/ UNCHANGED <<api, scaledAge>>
          \/ /\ api[q].replicas > 0
             /\ api' = [api EXCEPT ![q] = [api[q] EXCEPT !.replicas = 0]]
             /\ scaledAge' = [scaledAge EXCEPT ![cur] = 0]
      BY <1>typ, <2>6 DEF ScaleToZero
    <3>2. CASE /\ api[q].replicas > 0
               /\ api' = [api EXCEPT ![q] = [api[q] EXCEPT !.replicas = 0]]
               /\ scaledAge' = [scaledAge EXCEPT ![cur] = 0]
      <4>1. scaledAge'[cur] = 0 /\ \A g \in Groups \ {cur} : scaledAge'[g] = scaledAge[g]
        BY <1>typ, <2>1, <3>2
      <4>2. api[q].replicas = 1  BY <2>2, <3>2, ObjectFields
      <4> HIDE DEF q
      <4>3. isOwnedByCluster(api[q])  BY <2>2, <4>2, AbsentFields DEF PrimaryOK
      <4>4. /\ PrimaryOK([api[q] EXCEPT !.replicas = 0], cur, orphanAge[cur], Loose)
            /\ CountOK([api[q] EXCEPT !.replicas = 0], cur, pods, 0, Loose)
        BY <2>2, <4>2, <4>3, PrimaryKept, CountKept
      <4> QED BY <2>5, <3>2, <4>1, <4>4
    <3> QED BY <2>4, <3>1, <3>2
  <2>7. CASE StampDrain
    <3>1. scaledAge' = scaledAge /\ pc = "stamp"  BY <2>7 DEF StampDrain
    <3>2. api' = api \/ (Present(api[q]) /\ api' = [api EXCEPT ![q] = [api[q] EXCEPT !.drain = 0]])
      BY <1>typ, <2>7 DEF StampDrain
    <3>3. CASE Present(api[q]) /\ api' = [api EXCEPT ![q] = [api[q] EXCEPT !.drain = 0]]
      <4>1. isOwnedByCluster(api[q]) /\ api[q].replicas = 0
        BY <2>3, <3>1, <3>3 DEF ClockInv, ClockControl, Stamping
      <4> HIDE DEF q
      <4>2. /\ PrimaryOK([api[q] EXCEPT !.drain = 0], cur, orphanAge[cur], Loose)
            /\ CountOK([api[q] EXCEPT !.drain = 0], cur, pods, scaledAge[cur], Loose)
        BY <2>2, <4>1, PrimaryKept, CountKept
      <4> QED BY <2>5, <3>1, <3>3, <4>2
    <3> QED BY <2>4, <3>1, <3>2, <3>3
  <2> QED BY <1>12, <2>6, <2>7
<1>13. CASE CheckExtras \/ Delete
  <2>1. CurKey \in Keys
    BY <1>13, <1>loop, SlotsOfOrders, KeyInKeys DEF CheckExtras, Delete, LoopStates, CurKey, Slot
  <2>2. UNCHANGED <<orphanAge, scaledAge>> /\ Loose \subseteq Loose'
    <3>1. ~ClearTeardownProgress  BY <1>13 DEF CheckExtras, Delete, ClearTeardownProgress
    <3> QED BY <1>13, <1>loose, <3>1 DEF CheckExtras, Delete
  <2>3. CASE Delete
    <3>1. PICK o \in DeletedForms(CurKey) : api' = [api EXCEPT ![CurKey] = o]  BY <2>3 DEF Delete
    <3>2. DisownPods  BY <2>3 DEF Delete
    <3> QED BY <1>typ, <2>1, <2>2, <3>1, <3>2, DeletedShapes, RemoveOne
  <2>4. CASE CheckExtras
    <3>1. CurKey = <<cur, "extra">> /\ pods' = pods  BY <2>4, ExtraKey DEF CheckExtras, CurKey
    <3>2. api' = api \/ \E o : api' = [api EXCEPT ![CurKey] = o]  BY <2>4 DEF CheckExtras
    <3>3. ASSUME NEW g \in Groups, NEW p \in Primaries PROVE api'[<<g, p>>] = api[<<g, p>>]
      <4>1. <<g, p>> # CurKey  BY <3>1 DEF Primaries
      <4> QED BY <1>key, <1>typ, <3>2, <4>1
    <3> QED BY <1>typ, <2>2, <3>1, <3>3, WriteNone
  <2> QED BY <1>13, <2>3, <2>4
<1>14. CASE \/ EditSpec \/ \E k \in Keys : Sync(k)
            \/ ApplyFails \/ DiscoverFails \/ CheckOwned \/ CheckStatefulSet
            \/ ConfirmDeleted \/ ConfirmReclaimed \/ TeardownFails \/ ReportOrphans
            \/ WriteStatus \/ WriteFails \/ RateLimited \/ Crash
  <2>1. UNCHANGED <<api, pods, orphanAge, scaledAge>>
    BY <1>14 DEF EditSpec, Sync, ApplyFails, DiscoverFails, CheckOwned, CheckStatefulSet,
         ConfirmDeleted, ConfirmReclaimed, TeardownFails, ReportOrphans, WriteStatus, WriteFails,
         RateLimited, Crash
  <2>2. CASE ClearTeardownProgress  BY <1>8, <2>2
  <2>3. CASE ~ClearTeardownProgress  BY <1>typ, <1>loose, <2>1, <2>3, WriteNone
  <2> QED BY <2>2, <2>3
<1>15. CASE UNCHANGED vars
  <2>1. UNCHANGED <<api, pods, orphanAge, scaledAge>> /\ Loose' = Loose
    BY <1>15 DEF vars, Loose, Unreset
  <2> QED BY <1>typ, <2>1, WriteNone
<1> QED BY <1>1, <1>2, <1>3, <1>5, <1>6, <1>7, <1>8, <1>9, <1>10, <1>11, <1>12, <1>13, <1>14, <1>15
         DEF Next, Pass, Environment

\* Only a group that is declared again gets younger, and only scaling down starts the
\* drain once more.
LEMMA AgesGrow ==
  ASSUME TypeOK, [Next]_vars, ~StartPass, NEW g \in Groups
  PROVE  /\ orphanAge[g] \in Int /\ orphanAge'[g] \in Int /\ orphanAge[g] <= orphanAge'[g]
         /\ scaledAge[g] \in Int /\ scaledAge'[g] \in Int
         /\ ~ScaleToZero => scaledAge[g] <= scaledAge'[g]
         /\ interrupted \subseteq interrupted'
<1> USE DEF history
<1>typ. /\ orphanAge[g] \in Stamps /\ orphanAge'[g] \in Stamps
        /\ scaledAge[g] \in Stamps /\ scaledAge'[g] \in Stamps
  BY TypeStep DEF TypeOK
<1>int. /\ orphanAge[g] \in Int /\ orphanAge'[g] \in Int
        /\ scaledAge[g] \in Int /\ scaledAge'[g] \in Int /\ NoStamp = -1
  BY <1>typ, Ages
<1>1. CASE Tick
  <2>1. /\ orphanAge'[g] = Older(orphanAge[g]) /\ scaledAge'[g] = Older(scaledAge[g])
        /\ interrupted' = interrupted
    BY <1>1 DEF Tick
  <2> QED BY <1>typ, <1>int, <2>1, Ages
<1>2. CASE DiscoverOrphans
  <2>1. /\ orphanAge'[g] = orphanAge[g] \/ (orphanAge[g] = NoStamp /\ orphanAge'[g] = 0)
        /\ scaledAge' = scaledAge /\ interrupted' = interrupted
    BY <1>2 DEF DiscoverOrphans
  <2> QED BY <1>int, <2>1
<1>3. CASE \/ EditSpec
           \/ \E k \in Keys : Sync(k) \/ Finalize(k) \/ Squat(k)
           \/ \E h \in Groups : StartPods(h) \/ DrainPods(h) \/ ReportReplicas(h)
           \/ UNCHANGED vars
  <2>1. UNCHANGED <<orphanAge, scaledAge, interrupted>>
    BY <1>3 DEF EditSpec, Sync, Finalize, Squat, StartPods, DrainPods, SetPods, ReportReplicas, vars
  <2> QED BY <1>int, <2>1
<1>4. CASE Pass /\ ~DiscoverOrphans
  <2>0. ScaleToZero => UNCHANGED <<orphanAge, interrupted>>  BY DEF ScaleToZero
  <2>1. /\ orphanAge' = orphanAge /\ interrupted \subseteq interrupted'
        /\ ScaleToZero \/ scaledAge' = scaledAge
    BY <1>4, <2>0 DEF Pass, ApplyResource, ApplyFails, ApplyRolePDBs, ClearTeardownProgress,
         CleanupOrphanedRolePDBs, DiscoverFails, CheckOrMarkGrayDelete, CheckOwned, CheckStatefulSet,
         StampDrain, CheckExtras, Delete, ConfirmDeleted, ConfirmReclaimed, TeardownFails,
         ReportOrphans, WriteStatus, WriteFails, RateLimited, Crash
  <2> QED BY <1>int, <2>1
<1> QED BY <1>1, <1>2, <1>3, <1>4 DEF Next, Environment

LEMMA StartedStep == ASSUME TypeOK, Started, [Next]_vars PROVE Started'
<1> USE DEF passVars
<1>typ. spec \subseteq Groups /\ todo \subseteq Groups  BY DEF TypeOK
<1>1. CASE Environment \/ UNCHANGED vars
  <2>1. UNCHANGED passVars  BY <1>1, EnvironmentOutside
  <2> QED BY <2>1 DEF Started
<1>2. CASE StartPass
  <2>1. seen' = spec /\ Visit(spec, "apply", "applyRoles")  BY <1>2 DEF StartPass
  <2>2. pc' = "applyRoles" \/ (cur' \in spec /\ todo' \subseteq spec)  BY <1>typ, <2>1, NextVisit
  <2> QED BY <2>1, <2>2 DEF Started
<1>3. CASE ApplyResource \/ ApplyFails
  <2>1. /\ pc = "apply" /\ seen' = seen
        /\ UNCHANGED <<cur, todo>> \/ Visit(todo, "apply", "applyRoles")
    BY <1>3 DEF ApplyResource, ApplyFails
  <2>2. \/ UNCHANGED <<cur, todo>>
        \/ pc' = "applyRoles"
        \/ cur' \in todo /\ todo' \subseteq todo
    BY <1>typ, <2>1, NextVisit
  <2> QED BY <2>1, <2>2 DEF Started
<1>4. CASE Pass /\ ~StartPass /\ ~ApplyResource /\ ~ApplyFails
  <2>1. pc' # "apply"
    <3>1. CASE pc \in OrphanStates
      <4>1. pc' \in OrphanStates \cup {TeardownStart, "report", "idle"}  BY <1>4, <3>1, TeardownMoves
      <4> QED BY <4>1, TeardownStartState DEF OrphanStates
    <3>2. CASE pc \notin OrphanStates
      <4>1. CASE DiscoverOrphans
        BY <4>1, VisitState, TeardownStartState DEF DiscoverOrphans
      <4>2. CASE \/ ApplyRolePDBs \/ ClearTeardownProgress \/ CleanupOrphanedRolePDBs \/ DiscoverFails
                 \/ ReportOrphans \/ WriteStatus \/ WriteFails \/ RateLimited \/ Crash
        BY <4>2, VisitState DEF ApplyRolePDBs, ClearTeardownProgress, CleanupOrphanedRolePDBs,
           DiscoverFails, ReportOrphans, WriteStatus, WriteFails, RateLimited, Crash, EndPass
      <4>3. CASE \/ CheckOrMarkGrayDelete \/ CheckOwned \/ CheckStatefulSet \/ ScaleToZero \/ StampDrain
                 \/ CheckExtras \/ Delete \/ ConfirmDeleted \/ ConfirmReclaimed \/ TeardownFails
        BY <3>2, <4>3 DEF CheckOrMarkGrayDelete, CheckOwned, CheckStatefulSet, ScaleToZero, StampDrain,
           CheckExtras, Delete, ConfirmDeleted, ConfirmReclaimed, TeardownFails, OrphanStates
      <4> QED BY <1>4, <4>1, <4>2, <4>3 DEF Pass
    <3> QED BY <3>1, <3>2
  <2> QED BY <2>1 DEF Started
<1> QED BY <1>1, <1>2, <1>3, <1>4 DEF Next

LEMMA DueStep == ASSUME TypeOK, Due, [Next]_vars PROVE Due'
<1> USE DEF passVars
<1>typ. /\ orphanAge \in [Groups -> Stamps] /\ todo \subseteq Groups
        /\ pc \in OrphanStates => cur \in Groups
  BY DEF TypeOK, LoopStates, OrphanStates
<1>1. ASSUME pc \in OrphanStates PROVE ~StartPass
  BY <1>1 DEF OrphanStates, StartPass
<1>2. ASSUME pc \in OrphanStates, NEW g \in {cur} \cup todo PROVE orphanAge'[g] >= 0
  <2>1. g \in Groups /\ orphanAge[g] >= 0  BY <1>typ, <1>2 DEF Due
  <2>2. orphanAge[g] \in Int /\ orphanAge'[g] \in Int /\ orphanAge[g] <= orphanAge'[g]
    BY <1>1, <1>2, <2>1, AgesGrow
  <2> QED BY <2>1, <2>2
<1>3. CASE Environment \/ UNCHANGED vars
  <2>1. UNCHANGED passVars  BY <1>3, EnvironmentOutside
  <2> QED BY <1>2, <2>1 DEF Due
<1>4. CASE Pass /\ pc \in OrphanStates
  <2>1. \/ UNCHANGED <<cur, todo>>
        \/ cur' \in todo /\ todo' \subseteq todo
        \/ pc' \notin OrphanStates
    BY <1>4, TeardownMoves DEF OrphanStates
  <2> QED BY <1>2, <1>4, <2>1 DEF Due
<1>5. CASE DiscoverOrphans
  <2>1. Orphans \subseteq Groups  BY DEF Orphans
  <2>2. pc' = "write" \/ (cur' \in Orphans /\ todo' \subseteq Orphans)
    BY <1>5, <2>1, NextVisit DEF DiscoverOrphans
  <2>3. ASSUME NEW g \in Orphans PROVE orphanAge'[g] >= 0
    <3>1. orphanAge'[g] = IF orphanAge[g] = NoStamp THEN 0 ELSE orphanAge[g]
      BY <1>5, <2>1 DEF DiscoverOrphans
    <3>2. orphanAge[g] = NoStamp \/ orphanAge[g] \in Nat
      BY <1>typ, <2>1, ConfigAssumption DEF Stamps
    <3> QED BY <3>1, <3>2
  <2> QED BY <2>2, <2>3 DEF Due, OrphanStates
<1>6. CASE Pass /\ pc \notin OrphanStates /\ ~DiscoverOrphans
  BY <1>6, TeardownBegins DEF Due
<1> QED BY <1>3, <1>4, <1>5, <1>6 DEF Next

\* While a teardown is at work no object of a group appears.
LEMMA NothingAppears ==
  ASSUME TypeOK, [Next]_vars, pc \in OrphanStates, NEW g \in Groups, NEW p \in Primaries,
         isOwnedByCluster(api'[<<g, p>>])
  PROVE  isOwnedByCluster(api[<<g, p>>])
<1>1. ~ApplyResource /\ ~ApplyRolePDBs  BY DEF ApplyResource, ApplyRolePDBs, OrphanStates
<1>2. <<g, p>> \in Keys  BY PrimaryInKeys DEF Primaries
<1> QED BY <1>1, <1>2, OwnershipStep DEF NothingNewOwned

\* Leaving the gray step for the same group means the grace period is over, or
\* that the group has no primary.
LEMMA GrayLeft ==
  ASSUME Prompt, ClockInv, CheckOrMarkGrayDelete, pc' = "check", TeardownStart = "gray"
  PROVE  \/ cur \in interrupted
         \/ orphanAge[cur] >= GracePeriod
         \/ \A p \in Primaries : ~isOwnedByCluster(api[<<cur, p>>])
<1>typ. /\ cur \in Groups /\ cache = api /\ orphanAge[cur] \in Int /\ api \in [Keys -> Objects]
        /\ \A p \in Primaries : PrimaryOK(api[<<cur, p>>], cur, orphanAge[cur], interrupted)
  <2>1. pc = "gray" /\ TypeOK /\ Loose = interrupted
    BY LooseOrphan DEF CheckOrMarkGrayDelete, ClockInv, OrphanStates
  <2>2. cur \in Groups /\ orphanAge[cur] \in Stamps  BY <2>1 DEF TypeOK, LoopStates
  <2> QED BY <2>1, <2>2, Ages DEF ClockInv, ClockState, Synced, Stamped, TypeOK
<1>1. CASE NoGrace
  <2>1. \A p \in Primaries : api[<<cur, p>>].st # "foreign"
    <3>1. Absent.st = "absent"  BY DEF Absent
    <3> QED BY <1>typ, <3>1 DEF PrimaryOK, isOwnedByCluster
  <2>2. GrayPrimaries = {}  BY <1>1, <1>typ, <2>1 DEF NoGrace, GrayPrimaries
  <2> QED BY <1>typ, <2>2 DEF GrayPrimaries, Present, isOwnedByCluster
<1>2. CASE ~NoGrace
  <2>1. PICK written \in SUBSET Primaries : MarkPrimaries(written)
    BY <1>2 DEF CheckOrMarkGrayDelete
  <2>2. ~Pending
    BY VisitState DEF Pending, NextOrphan
  <2>3. GrayMarked # {} /\ GrayMark >= GracePeriod  BY <2>1, <2>2 DEF MarkPrimaries
  <2>4. PICK p \in Primaries : p \in GrayMarked /\ GrayMark = api[<<cur, p>>].mark
    <3>1. "sts" \in GrayMarked \/ "cm" \in GrayMarked
      BY <2>3 DEF GrayMarked, GrayPrimaries, Primaries
    <3> QED BY <1>typ, <3>1 DEF GrayMark, Primaries
  <2>5. <<cur, p>> \in Keys  BY <1>typ, PrimaryInKeys DEF Primaries
  <2>6. api[<<cur, p>>].mark \in Int  BY <1>typ, <2>5, ObjectFields, Ages
  <2>7. GracePeriod \in Int  BY ConfigAssumption
  <2>8. cur \in interrupted \/ api[<<cur, p>>].mark <= orphanAge[cur]  BY <1>typ DEF PrimaryOK
  <2> QED BY <1>typ, <2>3, <2>4, <2>6, <2>7, <2>8
<1> QED BY <1>1, <1>2

LEMMA GraceStep == ASSUME Prompt, ClockInv, [Next]_vars, Due' PROVE GraceOver'
<1> USE DEF passVars
<1> DEFINE Past == {"check", "scale", "stamp", "delete", "gone", "confirm"}
<1> SUFFICES ASSUME pc' \in Past
             PROVE  \/ cur' \in interrupted'
                    \/ orphanAge'[cur'] >= GracePeriod
                    \/ \A p \in Primaries : ~isOwnedByCluster(api'[<<cur', p>>])
  BY DEF GraceOver
<1>typ. TypeOK /\ TypeOK' /\ Due /\ GraceOver  BY TypeStep DEF ClockInv, ClockControl
<1>0. CASE GracePeriod = 0
  BY <1>0 DEF Due, OrphanStates
<1>1. ASSUME GracePeriod # 0 PROVE TeardownStart = "gray"
  BY <1>1, ConfigAssumption DEF TeardownStart
\* At the same group the first step past the gray one was right, and stays so.
<1>2. ASSUME pc \in OrphanStates, cur' = cur,
             \/ cur \in interrupted
             \/ orphanAge[cur] >= GracePeriod
             \/ \A p \in Primaries : ~isOwnedByCluster(api[<<cur, p>>])
      PROVE  \/ cur' \in interrupted'
             \/ orphanAge'[cur'] >= GracePeriod
             \/ \A p \in Primaries : ~isOwnedByCluster(api'[<<cur', p>>])
  <2>1. cur \in Groups  BY <1>2, <1>typ DEF TypeOK, LoopStates, OrphanStates
  <2>0. ~StartPass  BY <1>2 DEF OrphanStates, StartPass
  <2>2. CASE orphanAge[cur] >= GracePeriod
    <3>2. orphanAge[cur] \in Int /\ orphanAge'[cur] \in Int /\ orphanAge[cur] <= orphanAge'[cur]
      BY <1>typ, <2>0, <2>1, AgesGrow
    <3>3. GracePeriod \in Int  BY ConfigAssumption
    <3> QED BY <1>2, <2>2, <3>2, <3>3
  <2>4. CASE cur \in interrupted
    <3>1. interrupted \subseteq interrupted'  BY <1>typ, <2>0, <2>1, AgesGrow
    <3> QED BY <1>2, <2>4, <3>1
  <2>3. CASE \A p \in Primaries : ~isOwnedByCluster(api[<<cur, p>>])
    BY <1>2, <1>typ, <2>1, <2>3, NothingAppears
  <2> QED BY <1>2, <2>2, <2>3, <2>4
<1>3. CASE GracePeriod # 0 /\ (Environment \/ UNCHANGED vars)
  <2>1. pc' = pc /\ cur' = cur  BY <1>3, EnvironmentOutside
  <2> QED BY <1>2, <1>typ, <2>1 DEF GraceOver, OrphanStates
<1>4. CASE GracePeriod # 0 /\ Pass /\ pc \in OrphanStates
  <2>1. cur' = cur /\ todo' = todo
    <3>1. pc' # "gray" /\ pc' \notin {"report", "idle"}  OBVIOUS
    <3> QED BY <1>1, <1>4, <1>typ, <3>1, TeardownMoves
  <2>2. CASE pc # "gray"
    BY <1>2, <1>4, <1>typ, <2>1, <2>2 DEF GraceOver, OrphanStates
  <2>3. CASE pc = "gray"
    <3>1. ASSUME Pending PROVE FALSE
      BY <1>1, <1>4, <3>1, VisitState DEF Pending, NextOrphan
    <3>2. CheckOrMarkGrayDelete
      BY <1>4, <2>3, <3>1 DEF Pass, StartPass, ApplyResource, ApplyFails, ApplyRolePDBs,
           ClearTeardownProgress, CleanupOrphanedRolePDBs, DiscoverOrphans, DiscoverFails, CheckOwned,
           CheckStatefulSet, ScaleToZero, StampDrain, CheckExtras, Delete, ConfirmDeleted, ConfirmReclaimed, TeardownFails,
           ReportOrphans, WriteStatus, WriteFails, RateLimited, Crash, EndPass
    <3>3. pc' = "check"  BY <3>1, <3>2 DEF CheckOrMarkGrayDelete, MarkPrimaries
    <3> QED BY <1>1, <1>2, <1>4, <2>1, <3>2, <3>3, GrayLeft
  <2> QED BY <2>2, <2>3
<1>5. CASE GracePeriod # 0 /\ Pass /\ pc \notin OrphanStates
  <2>1. DiscoverOrphans  BY <1>5, <1>typ, TeardownBegins DEF OrphanStates
  <2> QED BY <1>1, <1>5, <2>1, VisitState DEF DiscoverOrphans
<1> QED BY <1>0, <1>3, <1>4, <1>5 DEF Next

\* Nobody around the operator scales up a StatefulSet, or starts pods of one that
\* is scaled down.
LEMMA StaysDown ==
  ASSUME TypeOK, Environment \/ UNCHANGED vars, NEW g \in Groups,
         api[<<g, "sts">>].replicas = 0, isOwnedByCluster(api'[<<g, "sts">>])
  PROVE  api'[<<g, "sts">>].replicas = 0 /\ (g \in pods' => g \in pods)
<1> USE DEF crVars, workVars, passVars
<1> DEFINE q == <<g, "sts">>
<1>typ. api \in [Keys -> Objects] /\ q \in Keys /\ api[q] \in Objects  BY PrimaryInKeys DEF TypeOK
<1>1. CASE Tick
  <2>1. api'[q] = Aged(api[q]) /\ pods' = pods  BY <1>1, <1>typ DEF Tick
  <2> QED BY <1>typ, <2>1, ObjectFields
<1>2. ASSUME NEW k \in Keys, Finalize(k) \/ Squat(k) PROVE api'[q] = api[q] /\ (g \in pods' => g \in pods)
  <2>1. PICK o \in {Absent, Foreign} : api' = [api EXCEPT ![k] = o]  BY <1>2 DEF Finalize, Squat
  <2>2. ~isOwnedByCluster(o)  BY SameOwner, ObjectTypes, <1>typ
  <2>3. k # q  BY <1>typ, <2>1, <2>2
  <2>4. g \in pods' => g \in pods  BY <1>2 DEF Finalize, Squat, DisownPods
  <2> QED BY <1>typ, <2>1, <2>3, <2>4
<1>3. ASSUME NEW h \in Groups, StartPods(h) \/ DrainPods(h) \/ ReportReplicas(h)
      PROVE  api'[q].replicas = 0 /\ (g \in pods' => g \in pods)
  <2>1. \/ api' = api
        \/ \E n : api' = [api EXCEPT ![<<h, "sts">>] = [@ EXCEPT !.reported = n]]
    BY <1>3, Zenon DEF StartPods, DrainPods, SetPods, ReportReplicas
  <2>2. ASSUME NEW n, api' = [api EXCEPT ![<<h, "sts">>] = [@ EXCEPT !.reported = n]]
        PROVE  api'[q].replicas = 0
    <3>1. CASE <<h, "sts">> = q
      <4>1. api'[q] = [api[q] EXCEPT !.reported = n]  BY <1>typ, <2>2, <3>1
      <4> QED BY <1>typ, <4>1 DEF Objects
    <3>2. CASE <<h, "sts">> # q
      BY <1>typ, <2>2, <3>2
    <3> QED BY <3>1, <3>2
  <2>3. StartPods(h) => h # g  BY DEF StartPods
  <2>4. g \in pods' => g \in pods
    BY <1>3, <2>3 DEF StartPods, DrainPods, SetPods, ReportReplicas
  <2> QED BY <2>1, <2>2, <2>4
<1>4. CASE EditSpec \/ (\E k \in Keys : Sync(k)) \/ UNCHANGED vars
  <2>1. api' = api /\ pods' = pods  BY <1>4 DEF EditSpec, Sync, vars
  <2> QED BY <2>1
<1> QED BY <1>1, <1>2, <1>3, <1>4 DEF Environment

\* What the checks of a StatefulSet know when they let it go.
LEMMA DrainRead ==
  ASSUME Prompt, ClockInv, CheckStatefulSet, isOwnedByCluster(api[<<cur, "sts">>]), pc' = "delete"
  PROVE  /\ UNCHANGED <<api, pods>> /\ cur \in Groups
         /\ api[<<cur, "sts">>].replicas = 0
         /\ cur \in pods => cur \in interrupted \/ scaledAge[cur] >= DrainTimeout
<1> DEFINE q == <<cur, "sts">>
<1>typ. /\ cache = api /\ cur \in Groups /\ q \in Keys /\ api[q] \in Objects
        /\ CountOK(api[q], cur, pods, scaledAge[cur], interrupted)
        /\ scaledAge[cur] \in Stamps
  <2>1. TypeOK /\ pc = "check" /\ cache = api /\ Loose = interrupted
    BY LooseOrphan DEF ClockInv, ClockState, Synced, CheckStatefulSet, OrphanStates
  <2>2. cur \in Groups  BY <2>1 DEF TypeOK, LoopStates
  <2>3. q \in Keys  BY <2>2, PrimaryInKeys
  <2> QED BY <2>1, <2>2, <2>3 DEF ClockInv, ClockState, Counted, TypeOK
<1>1. CurKey = q  BY PrimaryKey DEF CheckStatefulSet, CurKey, Primaries
<1>2. ~Pending /\ ~Settled
  BY VisitState, TeardownStartState DEF Pending, NextOrphan, Settled
<1>3. /\ UNCHANGED <<api, pods>> /\ api[q].replicas = 0
      /\ api[q].reported = 0 \/ api[q].drain >= DrainTimeout
  BY <1>typ, <1>1, <1>2 DEF CheckStatefulSet, drainDeadlineExpired
<1>4. ASSUME cur \in pods, cur \notin interrupted PROVE scaledAge[cur] >= DrainTimeout
  <2>1. api[q].reported = 1  BY <1>typ, <1>4 DEF CountOK
  <2>2. api[q].drain >= DrainTimeout  BY <1>3, <2>1
  <2>3. api[q].drain <= scaledAge[cur]  BY <1>typ, <1>3, <1>4 DEF CountOK
  <2>4. api[q].drain \in Int /\ scaledAge[cur] \in Int /\ DrainTimeout \in Int
    <3>1. api[q].drain \in Stamps  BY <1>typ, ObjectFields
    <3>2. scaledAge[cur] \in Stamps  BY <1>typ
    <3> HIDE DEF q
    <3> QED BY <3>1, <3>2, ConfigAssumption DEF Stamps, NoStamp
  <2> QED BY <2>2, <2>3, <2>4
<1> QED BY <1>typ, <1>3, <1>4

LEMMA StampingStep == ASSUME ClockInv, [Next]_vars PROVE Stamping'
<1> USE DEF passVars
<1> SUFFICES ASSUME pc' = "stamp", isOwnedByCluster(api'[<<cur', "sts">>])
             PROVE  api'[<<cur', "sts">>].replicas = 0
  BY DEF Stamping
<1>typ. TypeOK /\ Stamping /\ cache = api  BY DEF ClockInv, ClockControl, ClockState, Synced
<1>1. CASE Environment \/ UNCHANGED vars
  <2>1. UNCHANGED <<pc, cur>>  BY <1>1, EnvironmentOutside
  <2>2. cur \in Groups /\ pc \in OrphanStates /\ "sts" \in Primaries
    BY <1>typ, <2>1 DEF TypeOK, LoopStates, OrphanStates, Primaries
  <2>3. isOwnedByCluster(api[<<cur, "sts">>])  BY <1>typ, <2>1, <2>2, NothingAppears
  <2>4. api[<<cur, "sts">>].replicas = 0  BY <1>typ, <2>1, <2>3 DEF Stamping
  <2> QED BY <1>1, <1>typ, <2>1, <2>2, <2>4, StaysDown
<1>2. CASE Pass
  <2>1. CheckOwned \/ CheckStatefulSet  BY <1>2, CheckedBefore
  <2>2. ~Pending /\ ~Settled
    BY VisitState, TeardownStartState DEF Pending, NextOrphan, Settled
  <2>3. CheckStatefulSet  BY <2>1, <2>2 DEF CheckOwned
  <2>4. CurKey = <<cur, "sts">>  BY <2>3, PrimaryKey DEF CheckStatefulSet, CurKey, Primaries
  <2>5. cache[CurKey].replicas = 0 /\ UNCHANGED <<api, cur>>
    BY <2>2, <2>3 DEF CheckStatefulSet
  <2> QED BY <1>typ, <2>4, <2>5
<1> QED BY <1>1, <1>2 DEF Next

LEMMA DrainStep == ASSUME Prompt, ClockInv, [Next]_vars PROVE Drained'
<1> USE DEF passVars
<1> SUFFICES ASSUME pc' = "delete", Slot' = "sts", isOwnedByCluster(api'[<<cur', "sts">>])
             PROVE  /\ api'[<<cur', "sts">>].replicas = 0
                    /\ cur' \in pods' => cur' \in interrupted' \/ scaledAge'[cur'] >= DrainTimeout
  BY DEF Drained
<1>typ. TypeOK /\ Drained  BY DEF ClockInv, ClockControl
<1>1. ASSUME pc \in OrphanStates, cur' = cur PROVE cur \in Groups /\ isOwnedByCluster(api[<<cur, "sts">>])
  <2>1. cur \in Groups  BY <1>1, <1>typ DEF TypeOK, LoopStates, OrphanStates
  <2>2. "sts" \in Primaries  BY DEF Primaries
  <2> QED BY <1>1, <1>typ, <2>1, <2>2, NothingAppears
<1>2. ASSUME pc \in OrphanStates, ~ScaleToZero, cur' = cur,
             cur \in interrupted \/ scaledAge[cur] >= DrainTimeout
      PROVE  cur' \in interrupted' \/ scaledAge'[cur'] >= DrainTimeout
  <2>1. ~StartPass  BY <1>2 DEF OrphanStates, StartPass
  <2>2. /\ scaledAge[cur] \in Int /\ scaledAge'[cur] \in Int /\ scaledAge[cur] <= scaledAge'[cur]
        /\ interrupted \subseteq interrupted'
    BY <1>1, <1>2, <1>typ, <2>1, AgesGrow
  <2>3. DrainTimeout \in Int  BY ConfigAssumption
  <2> QED BY <1>2, <2>2, <2>3
<1>3. CASE Environment \/ UNCHANGED vars
  <2>1. UNCHANGED <<pc, cur, step>>  BY <1>3, EnvironmentOutside
  <2>2. pc \in OrphanStates /\ Slot = "sts" /\ ~ScaleToZero
    BY <2>1 DEF OrphanStates, Slot, ScaleToZero
  <2>3. /\ cur \in Groups /\ api[<<cur, "sts">>].replicas = 0
        /\ cur \in pods => cur \in interrupted \/ scaledAge[cur] >= DrainTimeout
    BY <1>1, <1>typ, <2>1, <2>2 DEF Drained
  <2>4. api'[<<cur, "sts">>].replicas = 0 /\ (cur \in pods' => cur \in pods)
    BY <1>3, <1>typ, <2>1, <2>3, StaysDown
  <2> QED BY <1>2, <2>1, <2>2, <2>3, <2>4
<1>4. CASE Pass
  <2>1. /\ CheckOwned \/ CheckStatefulSet
        /\ UNCHANGED <<cur, step>>
    BY <1>4, CheckedBefore
  <2>2. Slot = "sts" /\ pc \in OrphanStates /\ ~ScaleToZero
    BY <2>1 DEF Slot, CheckOwned, CheckStatefulSet, OrphanStates, ScaleToZero
  <2>3. CheckStatefulSet  BY <2>1, <2>2 DEF CheckOwned
  <2> QED BY <1>1, <1>2, <2>1, <2>2, <2>3, DrainRead
<1> QED BY <1>3, <1>4 DEF Next

LEMMA ClockInit == ASSUME Prompt, Init PROVE ClockInv
<1>1. TypeOK  BY InitType
<1>2. ASSUME NEW g \in Groups, NEW p \in Primaries
      PROVE  api[<<g, p>>] = Absent /\ orphanAge[g] = NoStamp /\ scaledAge[g] = NoStamp
  <2>1. <<g, p>> \in Keys /\ <<g, p>> \notin ForeignKeys  BY PrimaryInKeys DEF Primaries, Prompt
  <2> QED BY <2>1 DEF Init
<1>3. Stamped  BY <1>2, AbsentFields, Ages DEF Stamped, PrimaryOK
<1>4. Counted
  <2>1. "sts" \in Primaries /\ pods = {}  BY DEF Primaries, Init
  <2> QED BY <1>2, <2>1, AbsentFields, Ages DEF Counted, CountOK
<1>5. Synced /\ ClockControl
  BY DEF Init, Synced, ClockControl, Due, Started, GraceOver, Stamping, Drained, OrphanStates
<1> QED BY <1>1, <1>3, <1>4, <1>5 DEF ClockInv, ClockState

LEMMA ClockStep == ASSUME Prompt, ClockInv, [Next]_vars PROVE ClockInv'
<1>1. TypeOK'  BY TypeStep DEF ClockInv
<1>2. Synced'
  <2>1. Timely  BY DEF Timely, Prompt
  <2> QED BY <2>1, SyncStep DEF ClockInv, ClockState
<1>3. Stamped' /\ Counted'  BY StateStep
<1>4. Due'  BY DueStep DEF ClockInv, ClockControl
<1>5. GraceOver' /\ Drained'  BY <1>4, GraceStep, DrainStep
<1>6. Started' /\ Stamping'  BY StartedStep, StampingStep DEF ClockInv, ClockControl
<1> QED BY <1>1, <1>2, <1>3, <1>4, <1>5, <1>6 DEF ClockInv, ClockState, ClockControl

\* For every grace period and under crashes, throttling and API errors, a primary
\* resource is deleted only when the period has passed since a pass first found its
\* group orphaned after the last pass that saw it declared, unless a fault kept that
\* last pass from resetting the group's progress (checkOrMarkGrayDelete,
\* clearTeardownProgress).
THEOREM GraceSafe == Prompt => (Spec => GraceHonoured)
<1> SUFFICES ASSUME Prompt PROVE Spec => GraceHonoured
  OBVIOUS
<1>1. Init => ClockInv  BY ClockInit
<1>2. ClockInv /\ [Next]_vars => ClockInv'  BY ClockStep
<1>3. ASSUME ClockInv, Delete, Slot \in Primaries, isOwnedByCluster(api[CurKey]), cur \notin interrupted
      PROVE  orphanAge[cur] >= GracePeriod
  <2>1. CurKey = <<cur, Slot>>  BY <1>3, PrimaryKey DEF CurKey
  <2> QED BY <1>3, <2>1 DEF Delete, ClockInv, ClockControl, GraceOver
<1>4. ClockInv /\ [Next]_vars =>
        [Delete /\ Slot \in Primaries /\ isOwnedByCluster(api[CurKey]) /\ cur \notin interrupted
           => orphanAge[cur] >= GracePeriod]_vars
  BY <1>3
<1> QED BY <1>1, <1>2, <1>4, PTL DEF Spec, GraceHonoured

\* For every drain timeout, a StatefulSet with running pods is deleted only when the
\* timeout has passed since it was last scaled to zero, under the same exemption
\* (deleteStatefulSet, drainDeadlineExpired).
THEOREM DrainSafe == Prompt => (Spec => DrainHonoured)
<1> SUFFICES ASSUME Prompt PROVE Spec => DrainHonoured
  OBVIOUS
<1>1. Init => ClockInv  BY ClockInit
<1>2. ClockInv /\ [Next]_vars => ClockInv'  BY ClockStep
<1>3. ASSUME ClockInv, Delete, Slot = "sts", isOwnedByCluster(api[CurKey]),
             cur \in pods \ interrupted
      PROVE  scaledAge[cur] >= DrainTimeout
  <2>1. CurKey = <<cur, "sts">>  BY <1>3, PrimaryKey DEF CurKey, Primaries
  <2> QED BY <1>3, <2>1 DEF Delete, ClockInv, ClockControl, Drained
<1>4. ClockInv /\ [Next]_vars =>
        [Delete /\ Slot = "sts" /\ isOwnedByCluster(api[CurKey]) /\ cur \in pods \ interrupted
           => scaledAge[cur] >= DrainTimeout]_vars
  BY <1>3
<1> QED BY <1>1, <1>2, <1>4, PTL DEF Spec, DrainHonoured

\* The volumes of a group are deleted only when its pods are gone or the drain timeout
\* has passed since its StatefulSet was last scaled to zero, under the same exemption
\* (deleteStatefulSet, deletePVCs).
THEOREM PurgeSafe == Prompt => (Spec => PurgeAfterDrain)
<1> SUFFICES ASSUME Prompt PROVE Spec => PurgeAfterDrain
  OBVIOUS
<1>1. Init => ClockInv  BY ClockInit
<1>2. ClockInv /\ [Next]_vars => ClockInv'  BY ClockStep
<1>3. ASSUME ClockInv, Next, NEW g \in pvcs \ pvcs', g \in pods \ interrupted
      PROVE  scaledAge[g] >= DrainTimeout
  <2>1. CheckStatefulSet
    <3> USE DEF crVars, workVars, history
    <3>1. ASSUME Environment PROVE pvcs \subseteq pvcs'
      BY <3>1 DEF Environment, EditSpec, Tick, Sync, Finalize, Squat, StartPods, DrainPods,
           SetPods, ReportReplicas
    <3>2. ASSUME Pass, ~CheckStatefulSet PROVE pvcs' = pvcs
      BY <3>2 DEF Pass, StartPass, ApplyResource, ApplyFails, ApplyRolePDBs, ClearTeardownProgress,
           CleanupOrphanedRolePDBs, DiscoverOrphans, DiscoverFails, CheckOrMarkGrayDelete, CheckOwned,
           ScaleToZero, StampDrain, CheckExtras, Delete, ConfirmDeleted, ConfirmReclaimed, TeardownFails,
           ReportOrphans, WriteStatus, WriteFails, RateLimited, Crash
    <3> QED BY <1>3, <3>1, <3>2 DEF Next
  <2>2. /\ g = cur /\ isOwnedByCluster(cache[CurKey]) /\ pc' = "delete"
    BY <1>3, <2>1 DEF CheckStatefulSet
  <2>4. CurKey = <<cur, "sts">>  BY <2>1, PrimaryKey DEF CheckStatefulSet, CurKey, Primaries
  <2>5. isOwnedByCluster(api[<<cur, "sts">>])  BY <1>3, <2>2, <2>4 DEF ClockInv, ClockState, Synced
  <2> QED BY <1>3, <2>1, <2>2, <2>5, DrainRead
<1>4. ClockInv /\ [Next]_vars =>
        [\A g \in pvcs \ pvcs' : g \in pods \ interrupted => scaledAge[g] >= DrainTimeout]_vars
  BY <1>3
<1> QED BY <1>1, <1>2, <1>4, PTL DEF Spec, PurgeAfterDrain

-----------------------------------------------------------------------------
(***************************************************************************)
(* What is left of a group.  Neither property is inductive: between passes  *)
(* the stored status vouches for what a group owns, during a pass the       *)
(* pass's copy of it, or the apply that is at work on the group; and an     *)
(* orphan is in the loop's list, at hand, left over or reported, in turn.   *)
(***************************************************************************)

\* Nothing fails and no informer is behind, no other controller holds a name the
\* handler builds, and no derived Service that it builds has the resource name of
\* another group.
Calm ==
  /\ Faults \subseteq {"lateStatus"}
  /\ \A g \in Groups, slot \in Shipped : <<g, slot>> \notin ForeignKeys
  /\ \A d \in DOMAIN Alias : d[2] \notin Shipped

Owns(g) == \E slot \in GroupSlots : isOwnedByCluster(api[<<g, slot>>])

\* What the handler builds is never another controller's, and nothing is made under
\* a derived name that is another group's resource name.
Free ==
  /\ \A g \in Groups, slot \in Shipped : api[<<g, slot>>].st # "foreign"
  /\ \A d \in DOMAIN Alias : ~isOwnedByCluster(api[d])

\* A group that owns something is in the status, the stored one or the pass's copy.
Findable ==
  \A g \in Groups : Owns(g) =>
    IF pc = "idle" THEN g \in ledger ELSE g \in status \/ (pc = "apply" /\ g = cur)

\* An orphan that owns something is ahead of the teardown, at hand or left over, and
\* then reported.
Accounted ==
  \A g \in Groups \ seen : Owns(g) =>
    /\ pc \in OrphanStates => g \in left \cup todo \cup {cur}
    /\ pc = "report" => g \in left
    /\ pc = "write" => g \in mcond

FindInv == LedgerInv /\ ForeignInv /\ Synced /\ Free /\ Findable /\ Accounted

\* The apply phase makes objects of the group at hand, in the slots the handler
\* builds; nothing else makes any.
NewAtHand ==
  \A g \in Groups, slot \in GroupSlots :
    isOwnedByCluster(api'[<<g, slot>>])
      => isOwnedByCluster(api[<<g, slot>>]) \/ (ApplyResource /\ g = cur /\ slot \in Shipped)

LEMMA GroupKey == ASSUME NEW g \in Groups, NEW slot \in GroupSlots PROVE <<g, slot>> \in Keys
BY DEF Keys

LEMMA CalmFacts ==
  ASSUME Calm
  PROVE  /\ Timely /\ Faults \cap {"squat", "idleSquat"} = {}
         /\ ~CanFail("apiError") /\ ~CanFail("throttle") /\ ~CanFail("crash")
BY DEF Calm, Timely, CanFail

\* A slot the handler builds has the name of its own group.
LEMMA ShippedKey ==
  ASSUME Calm, NEW g, NEW slot \in Shipped PROVE Key(g, slot) = <<g, slot>>
<1>1. <<g, slot>>[2] = slot  OBVIOUS
<1> QED BY <1>1 DEF Calm, Key

LEMMA OwnsStep ==
  ASSUME Calm, TypeOK, [Next]_vars PROVE NewAtHand
<1>api. api \in [Keys -> Objects]  BY DEF TypeOK
<1>1. CASE NothingNewOwned
  BY <1>1, GroupKey DEF NothingNewOwned, NewAtHand
<1>2. CASE ApplyResource
  <2> DEFINE at == ApplyOrder[step]
             k == Key(cur, at)
  <2>1. cur \in Groups /\ step \in 1 .. LastStep  BY <1>2 DEF ApplyResource, TypeOK, LoopStates, LastStep
  <2>2. at \in GroupSlots /\ k \in Keys  BY <2>1, SlotsOfOrders, KeyInKeys
  <2>3. api' = [api EXCEPT ![k] = Applied(at, k)]  BY <1>2 DEF ApplyResource
  <2> HIDE DEF k, at
  <2>4. CASE at \notin Shipped
    <3>1. api' = api  BY <2>2, <2>3, <2>4, <1>api DEF Applied
    <3> QED BY <3>1 DEF NewAtHand
  <2>5. CASE at \in Shipped
    <3>1. k = <<cur, at>>  BY <2>5, ShippedKey DEF k
    <3>2. ASSUME NEW g \in Groups, NEW slot \in GroupSlots, <<g, slot>> # <<cur, at>>
          PROVE  api'[<<g, slot>>] = api[<<g, slot>>]
      <4>1. <<g, slot>> \in Keys  BY GroupKey
      <4> QED BY <1>api, <2>3, <3>1, <3>2, <4>1
    <3> QED BY <1>2, <2>5, <3>2 DEF NewAtHand
  <2> QED BY <2>4, <2>5
<1>3. CASE ApplyRolePDBs
  <2>1. PICK made : api' = [k \in Keys |-> IF k[2] = "rolePdb" /\ k[1] \in made
                                           THEN Desired("rolePdb") ELSE api[k]]
    BY <1>3, Zenon DEF ApplyRolePDBs
  <2>2. ASSUME NEW g \in Groups, NEW slot \in GroupSlots PROVE api'[<<g, slot>>] = api[<<g, slot>>]
    <3>1. <<g, slot>> \in Keys /\ <<g, slot>>[2] = slot /\ slot # "rolePdb"
      BY GroupKey DEF GroupSlots
    <3> QED BY <2>1, <3>1
  <2> QED BY <2>2 DEF NewAtHand
<1> QED BY <1>1, <1>2, <1>3, OwnershipStep

LEMMA FreeStep ==
  ASSUME Calm, FindInv, [Next]_vars, NewAtHand PROVE Free'
<1>1. ForeignSame  BY ForeignStep, CalmFacts DEF FindInv
<1>2. ASSUME NEW g \in Groups, NEW slot \in Shipped PROVE api'[<<g, slot>>].st # "foreign"
  <2>1. <<g, slot>> \in Keys  BY SlotAssumption, GroupKey
  <2> QED BY <1>1, <2>1 DEF ForeignSame, FindInv, Free
<1>3. ASSUME NEW d \in DOMAIN Alias PROVE ~isOwnedByCluster(api'[d])
  <2>1. PICK g \in Groups, slot \in Derived : d = <<g, slot>>  BY AliasAssumption
  <2>2. slot \in GroupSlots  BY DEF Derived, GroupSlots
  <2>3. slot \notin Shipped  BY <2>1 DEF Calm
  <2> QED BY <2>1, <2>2, <2>3 DEF NewAtHand, FindInv, Free
<1> QED BY <1>2, <1>3 DEF Free

\* Applying goes through: what is read is current and no other controller's.
LEMMA AlwaysApplies ==
  ASSUME Calm, FindInv PROVE ~ApplyFails
<1> SUFFICES ASSUME ApplyFails PROVE FALSE
  OBVIOUS
<1> DEFINE at == ApplyOrder[step]
           k == Key(cur, at)
<1>1. pc = "apply" /\ TypeOK  BY DEF ApplyFails, FindInv, ForeignInv
<1>2. cur \in Groups /\ step \in 1 .. LastStep  BY <1>1 DEF TypeOK, LoopStates, LastStep
<1>3. at \in GroupSlots /\ k \in Keys  BY <1>2, SlotsOfOrders, KeyInKeys
<1>4. ~Applies(at, k) \/ (at \in Shipped /\ ~Fresh(k))
  BY CalmFacts DEF ApplyFails
<1> HIDE DEF at, k
<1>5. Fresh(k) /\ cache = api  BY DEF FindInv, Synced, Fresh
<1>6. at \in Shipped  BY <1>4 DEF Applies
<1>7. k = <<cur, at>>  BY <1>6, ShippedKey DEF k
<1>8. api[k].st # "foreign"  BY <1>2, <1>6, <1>7 DEF FindInv, Free
<1>9. api[k] \in Objects  BY <1>1, <1>3 DEF TypeOK
<1>10. ~Present(api[k]) \/ isOwnedByCluster(api[k])
  BY <1>8, <1>9 DEF Objects, Present, isOwnedByCluster
<1> QED BY <1>4, <1>5, <1>10 DEF Applies

\* A confirmed group owns nothing.
LEMMA ReclaimedOwns ==
  ASSUME FindInv, NEW g \in Groups, Reclaimed(g) PROVE ~Owns(g)
<1> SUFFICES ASSUME NEW slot \in GroupSlots PROVE ~isOwnedByCluster(api[<<g, slot>>])
  BY DEF Owns
<1>1. CASE <<g, slot>> \in DOMAIN Alias
  BY <1>1 DEF FindInv, Free
<1>2. CASE <<g, slot>> \notin DOMAIN Alias
  BY <1>2 DEF Reclaimed, Key, LiveName
<1> QED BY <1>1, <1>2


\* Findable and Accounted over a step that owns nothing more.
LEMMA OwnsLess ==
  ASSUME NewAtHand, ~ApplyResource, NEW g \in Groups, Owns(g)' PROVE Owns(g)
BY DEF NewAtHand, Owns

LEMMA FindStep ==
  ASSUME Calm, FindInv, [Next]_vars PROVE Findable' /\ Accounted'
<1> USE DEF crVars, workVars, passVars
<1>typ. TypeOK /\ LedgerInv  BY DEF FindInv, ForeignInv
<1>new. NewAtHand  BY <1>typ, OwnsStep
<1>no. ~CanFail("apiError") /\ ~CanFail("throttle") /\ ~CanFail("crash")  BY CalmFacts
<1>find. \A g \in Groups : Owns(g) =>
           IF pc = "idle" THEN g \in ledger ELSE g \in status \/ (pc = "apply" /\ g = cur)
  BY DEF FindInv, Findable
<1>acc. \A g \in Groups \ seen : Owns(g) =>
          /\ pc \in OrphanStates => g \in left \cup todo \cup {cur}
          /\ pc = "report" => g \in left
          /\ pc = "write" => g \in mcond
  BY DEF FindInv, Accounted
\* A step that keeps the status and does not end a pass.
<1>keep. ASSUME ~ApplyResource, pc \notin {"idle", "apply"}, pc' # "idle", status' = status PROVE Findable'
  BY <1>keep, <1>new, <1>find, OwnsLess DEF Findable
\* A step before the orphans are known.
<1>early. ASSUME pc' \in {"idle", "apply", "applyRoles", "clear", "rolePdbs", "discover"} PROVE Accounted'
  BY <1>early DEF Accounted, OrphanStates
\* The orphan at hand stays.
<1>stay. ASSUME ~ApplyResource, pc \in OrphanStates, pc' \in OrphanStates, UNCHANGED <<seen, left, todo, cur>>
         PROVE  Accounted'
  BY <1>stay, <1>new, <1>acc, OwnsLess DEF Accounted, OrphanStates
\* The orphan at hand is left or owns nothing, and the loop goes on.
<1>next. ASSUME ~ApplyResource, pc \in OrphanStates, seen' = seen, NextOrphan, left \subseteq left',
                cur \in left' \/ ~Owns(cur)
         PROVE  Accounted' /\ pc' # "idle"
  <2>1. (todo = {} /\ pc' = "report") \/ (pc' = TeardownStart /\ todo \subseteq todo' \cup {cur'})
    BY <1>next, VisitAll DEF NextOrphan
  <2>2. pc' \notin {"idle", "write"}  BY <2>1, TeardownStartState
  <2>3. ASSUME NEW g \in Groups \ seen, Owns(g)' PROVE g \in left' \cup todo
    <3>1. Owns(g)  BY <1>next, <1>new, <2>3, OwnsLess
    <3> QED BY <1>next, <1>acc, <3>1
  <2>4. pc' = "report" => todo = {}  BY <2>1, TeardownStartState
  <2>5. pc' \in OrphanStates => todo \subseteq todo' \cup {cur'}
    BY <2>1 DEF OrphanStates
  <2> QED BY <1>next, <2>2, <2>3, <2>4, <2>5 DEF Accounted
<1>pend. ASSUME ~ApplyResource, pc \in OrphanStates, seen' = seen, status' = status, Pending
         PROVE  Findable' /\ Accounted'
  <2>1. NextOrphan /\ left \subseteq left' /\ cur \in left'  BY <1>pend DEF Pending
  <2>2. Accounted' /\ pc' # "idle"  BY <1>pend, <2>1, <1>next
  <2> QED BY <1>pend, <2>2, <1>keep DEF OrphanStates
<1>settle. ASSUME ~ApplyResource, pc \in OrphanStates, seen' = seen, status' = status, Settled
           PROVE  Findable' /\ Accounted'
  <2>1. pc' \in {"check", "confirm"} /\ UNCHANGED <<left, todo, cur>>  BY <1>settle DEF Settled
  <2>2. Accounted'  BY <1>settle, <2>1, <1>stay DEF OrphanStates
  <2> QED BY <1>settle, <2>1, <2>2, <1>keep DEF OrphanStates
<1>1. CASE Environment \/ UNCHANGED vars
  <2>1. UNCHANGED <<passVars, ledger>>
    BY <1>1 DEF Environment, EditSpec, Tick, Sync, Finalize, Squat, StartPods, DrainPods,
       SetPods, ReportReplicas, vars
  <2>2. ASSUME NEW g \in Groups, Owns(g)' PROVE Owns(g) \/ (pc = "apply" /\ g = cur)
    BY <1>new, <2>2 DEF NewAtHand, Owns, ApplyResource
  <2>3. pc = "apply" => Accounted'  BY <2>1, <1>early
  <2>4. pc # "apply" => Accounted'  BY <2>1, <2>2, <1>acc DEF Accounted
  <2> QED BY <2>1, <2>2, <2>3, <2>4, <1>find DEF Findable
<1>2. CASE StartPass
  <2>1. pc = "idle" /\ status' = ledger /\ pc' \in {"apply", "applyRoles"} /\ ~ApplyResource
    BY <1>2, VisitState DEF StartPass, ApplyResource
  <2>2. Findable'  BY <2>1, <1>new, <1>find, OwnsLess DEF Findable
  <2> QED BY <2>1, <2>2, <1>early
<1>3. CASE ApplyResource
  <2>1. pc = "apply" /\ cur \in Groups /\ pc' \in {"apply", "applyRoles"} /\ status \subseteq status'
    BY <1>3, <1>typ, VisitState DEF ApplyResource, TypeOK, LoopStates
  <2>2. cur \in status' \/ (pc' = "apply" /\ cur' = cur)
    BY <1>3 DEF ApplyResource
  <2>3. ASSUME NEW g \in Groups, Owns(g)' PROVE Owns(g) \/ g = cur
    BY <1>new, <2>3 DEF NewAtHand, Owns
  <2>4. Findable'  BY <2>1, <2>2, <2>3, <1>find DEF Findable
  <2> QED BY <2>1, <2>4, <1>early
<1>4. CASE ApplyFails
  BY <1>4, AlwaysApplies
<1>5. CASE ApplyRolePDBs \/ ClearTeardownProgress \/ CleanupOrphanedRolePDBs
  <2>1. /\ pc \in {"applyRoles", "clear", "rolePdbs"} /\ pc' \in {"clear", "rolePdbs", "discover"}
        /\ status' = status /\ ~ApplyResource
    BY <1>5, VisitState DEF ApplyRolePDBs, ClearTeardownProgress, CleanupOrphanedRolePDBs, ApplyResource
  <2> QED BY <2>1, <1>keep, <1>early
<1>6. CASE DiscoverOrphans
  <2>1. /\ pc = "discover" /\ Visit(Orphans, TeardownStart, "write") /\ UNCHANGED <<seen, status>>
        /\ ~ApplyResource
    BY <1>6 DEF DiscoverOrphans, ApplyResource
  <2>2. (Orphans = {} /\ pc' = "write") \/ (pc' = TeardownStart /\ Orphans \subseteq todo' \cup {cur'})
    BY <2>1, VisitAll
  <2>3. pc' \notin {"idle", "report"}  BY <2>2, TeardownStartState
  <2>4. ASSUME NEW g \in Groups \ seen, Owns(g)' PROVE g \in Orphans
    <3>1. Owns(g)  BY <1>new, <2>1, <2>4, OwnsLess
    <3> QED BY <1>find, <2>1, <3>1 DEF Orphans
  <2>5. pc' = "write" => Orphans = {}  BY <2>2, TeardownStartState
  <2>6. pc' \in OrphanStates => Orphans \subseteq todo' \cup {cur'}  BY <2>2 DEF OrphanStates
  <2>7. Accounted'  BY <2>1, <2>3, <2>4, <2>5, <2>6 DEF Accounted
  <2> QED BY <2>1, <2>3, <2>7, <1>keep
<1>7. CASE DiscoverFails \/ TeardownFails \/ WriteFails \/ RateLimited \/ Crash
  BY <1>7, <1>no DEF DiscoverFails, TeardownFails, WriteFails, RateLimited, Crash
<1>8. CASE CheckOrMarkGrayDelete \/ CheckOwned \/ CheckStatefulSet \/ ScaleToZero \/ StampDrain
           \/ CheckExtras \/ Delete \/ ConfirmDeleted
  <2>1. /\ pc \in OrphanStates /\ UNCHANGED <<seen, status>> /\ ~ApplyResource
        /\ \/ Pending \/ Settled
           \/ /\ pc' \in {"check", "scale", "stamp", "delete", "gone"}
              /\ UNCHANGED <<left, todo, cur>>
    BY <1>8 DEF CheckOrMarkGrayDelete, MarkPrimaries, CheckOwned, CheckStatefulSet, ScaleToZero,
       StampDrain, CheckExtras, Delete, ConfirmDeleted, OrphanStates, ApplyResource
  <2>2. CASE pc' \in {"check", "scale", "stamp", "delete", "gone"} /\ UNCHANGED <<left, todo, cur>>
    BY <2>1, <2>2, <1>stay, <1>keep DEF OrphanStates
  <2> QED BY <2>1, <2>2, <1>pend, <1>settle
<1>9. CASE ConfirmReclaimed
  <2>1. pc = "confirm" /\ pc \in OrphanStates /\ seen' = seen /\ api' = api /\ ~ApplyResource
    BY <1>9 DEF ConfirmReclaimed, ApplyResource, OrphanStates
  <2>2. cur \in Groups /\ step \in 1 .. LastStep  BY <2>1, <1>typ DEF TypeOK, LoopStates, LastStep
  <2> DEFINE here == Slot = "extra" \/ LiveName(cur, Slot) \/ ~isOwnedByCluster(api[CurKey])
  <2>3. CASE Pending /\ UNCHANGED status
    BY <2>1, <2>3, <1>pend
  <2>4. CASE UNCHANGED <<pc, cur, todo, left, status>>
    BY <2>1, <2>4, <1>stay, <1>keep
  <2>5. CASE here /\ step = LastStep /\ status' = status \ {cur} /\ NextOrphan /\ UNCHANGED left
    <3>1. Slot # "extra"  BY <2>5, TeardownThird, <2>2 DEF Slot, LastStep
    <3>2. Reclaimed(cur)  BY <2>1, <2>5, <3>1, <1>typ, ConfirmedAll DEF LedgerInv
    <3>3. ~Owns(cur)  BY <2>2, <3>2, ReclaimedOwns
    <3>4. Accounted' /\ pc' # "idle"  BY <2>1, <2>5, <3>3, <1>next
    <3>5. Findable'
      BY <2>1, <2>5, <3>3, <3>4, <1>new, <1>find, OwnsLess DEF Findable
    <3> QED BY <3>4, <3>5
  <2> QED BY <1>9, <2>2, <2>3, <2>4, <2>5 DEF ConfirmReclaimed, stillOwned, LastStep
<1>10. CASE ReportOrphans
  <2>1. /\ pc = "report" /\ pc' = "write" /\ mcond' = left /\ UNCHANGED <<seen, status>> /\ ~ApplyResource
    BY <1>10 DEF ReportOrphans, ApplyResource
  <2>2. Accounted'  BY <2>1, <1>new, <1>acc, OwnsLess DEF Accounted, OrphanStates
  <2> QED BY <2>1, <2>2, <1>keep
<1>11. CASE WriteStatus
  <2>1. pc = "write" /\ pc' = "idle" /\ ledger' = status /\ ~ApplyResource
    BY <1>11 DEF WriteStatus, EndPass, ApplyResource
  <2>2. Findable'  BY <2>1, <1>new, <1>find, OwnsLess DEF Findable
  <2> QED BY <2>1, <2>2, <1>early
<1> QED
  BY <1>1, <1>2, <1>3, <1>4, <1>5, <1>6, <1>7, <1>8, <1>9, <1>10, <1>11 DEF Next, Pass

LEMMA FindInit == ASSUME Calm, Init PROVE FindInv
<1>1. TypeOK  BY InitType
<1>2. LedgerInv
  BY <1>1 DEF Init, LedgerInv, ExtrasGone, Confirmed, PrunedGone, Position, Applying
<1>3. ForeignInv  BY <1>1, Timeless DEF Init, ForeignInv, Pinned, Targeted
<1>4. ASSUME NEW k \in Keys PROVE ~isOwnedByCluster(api[k]) /\ (api[k].st = "foreign" => k \in ForeignKeys)
  BY Timeless DEF Init, isOwnedByCluster
<1>5. Free
  <2>1. ASSUME NEW g \in Groups, NEW slot \in Shipped PROVE api[<<g, slot>>].st # "foreign"
    <3>1. <<g, slot>> \in Keys  BY SlotAssumption, GroupKey
    <3> QED BY <1>4, <3>1 DEF Calm
  <2>2. DOMAIN Alias \subseteq Keys  BY AliasAssumption DEF Derived, Keys, GroupSlots
  <2> QED BY <1>4, <2>1, <2>2 DEF Free
<1>6. \A g \in Groups : ~Owns(g)  BY <1>4, GroupKey DEF Owns
<1> QED BY <1>2, <1>3, <1>5, <1>6 DEF FindInv, Findable, Accounted, Init, Synced

LEMMA FindInvStep == ASSUME Calm, FindInv, [Next]_vars PROVE FindInv'
<1>1. LedgerInv'  BY LedgerStep DEF FindInv
<1>2. ForeignInv'  BY ForeignInvStep, CalmFacts DEF FindInv
<1>3. Synced'  BY SyncStep, CalmFacts DEF FindInv, ForeignInv
<1>4. NewAtHand  BY OwnsStep DEF FindInv, ForeignInv
<1>5. Free'  BY <1>4, FreeStep
<1> QED BY <1>1, <1>2, <1>3, <1>5, FindStep DEF FindInv

\* When nothing fails, whatever an undeclared group still owns can be found again by
\* the next pass, for any groups, names and finalizers and however the CR is edited
\* during a pass (Cleanup, updateStatus).
THEOREM OrphansFindable == Calm => (Spec => []NoInvisibleOrphan)
<1> SUFFICES ASSUME Calm PROVE Spec => []NoInvisibleOrphan
  OBVIOUS
<1>1. Init => FindInv  BY FindInit
<1>2. FindInv /\ [Next]_vars => FindInv'  BY FindInvStep
<1>3. FindInv => NoInvisibleOrphan  BY DEF FindInv, Findable, NoInvisibleOrphan, Owns
<1> QED BY <1>1, <1>2, <1>3, PTL DEF Spec

\* When nothing fails, a status write lists every undeclared group that still owns
\* something (setOrphanCleanupCondition).
THEOREM ConditionSafe == Calm => (Spec => ConditionHonest)
<1> SUFFICES ASSUME Calm PROVE Spec => ConditionHonest
  OBVIOUS
<1>1. Init => FindInv  BY FindInit
<1>2. FindInv /\ [Next]_vars => FindInv'  BY FindInvStep
<1>3. ASSUME FindInv, WriteStatus, NEW g \in Groups \ seen,
             \E slot \in GroupSlots : isOwnedByCluster(api[<<g, slot>>])
      PROVE  g \in cond'
  <2>1. pc = "write" /\ cond' = mcond  BY <1>3 DEF WriteStatus
  <2>2. Owns(g)  BY <1>3 DEF Owns
  <2> QED BY <1>3, <2>1, <2>2 DEF FindInv, Accounted
<1>4. FindInv /\ [Next]_vars =>
        [WriteStatus => \A g \in Groups \ seen :
           (\E slot \in GroupSlots : isOwnedByCluster(api[<<g, slot>>])) => g \in cond']_vars
  BY <1>3
<1> QED BY <1>1, <1>2, <1>4, PTL DEF Spec, ConditionHonest
=============================================================================
