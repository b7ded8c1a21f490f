----------------------- MODULE RoleGroupCleanerProofs -----------------------
(***************************************************************************)
(* Proofs about the orphan teardown, for any number of role groups, any    *)
(* grace period and drain timeout, and any mixture of faults.              *)
(***************************************************************************)
EXTENDS RoleGroupCleaner, WellFoundedInduction, TLAPS

\* A nonempty loop has a first group to visit.
LEMMA FirstIn == ASSUME NEW S, S \subseteq Nat, S # {} PROVE First(S) \in S
<1>1. PICK x \in S : \A y \in S : ~ (<<y, x>> \in OpToRel(<, Nat))
  BY NatLessThanWellFounded, WFMin
<1>2. \A y \in S : x <= y
  <2> TAKE y \in S
  <2>1. x \in Nat /\ y \in Nat  OBVIOUS
  <2>2. ~ (y < x)  BY <1>1, <2>1 DEF OpToRel
  <2> QED BY <2>1, <2>2
<1> QED BY <1>2, Zenon DEF First

\* The object of a group in a slot is one of the keys.
LEMMA KeyInKeys ==
  ASSUME NEW g \in Groups, NEW slot \in GroupSlots PROVE Key(g, slot) \in Keys
BY AliasAssumption DEF Key, Keys, GroupSlots, Derived

LEMMA PrimaryInKeys == ASSUME NEW g \in Groups PROVE <<g, "sts">> \in Keys /\ <<g, "cm">> \in Keys
BY DEF Keys, GroupSlots

\* Both orders of work name slots of a group.
LEMMA SlotsOfOrders ==
  ASSUME NEW i \in 1 .. LastStep
  PROVE  ApplyOrder[i] \in GroupSlots /\ TeardownOrder[i] \in GroupSlots
<1>1. i \in {1, 2, 3, 4, 5, 6, 7}  BY DEF LastStep
<1> QED BY <1>1 DEF ApplyOrder, TeardownOrder, GroupSlots

\* The changes the steps make to an object keep it an object.
LEMMA ObjectTypes ==
  /\ Absent \in Objects /\ Foreign \in Objects
  /\ \A slot : Desired(slot) \in Objects
  /\ \A o \in Objects :
       /\ Aged(o) \in Objects /\ Unmarked(o) \in Objects
       /\ \A t \in Stamps : [o EXCEPT !.mark = t] \in Objects /\ [o EXCEPT !.drain = t] \in Objects
       /\ \A n \in {0, 1} : [o EXCEPT !.replicas = n] \in Objects /\ [o EXCEPT !.reported = n] \in Objects
       /\ [o EXCEPT !.st = "leaving"] \in Objects
<1>1. MaxAge \in Nat  BY ConfigAssumption
<1>2. \A s \in Stamps : Older(s) \in Stamps  BY <1>1 DEF Older, Stamps, NoStamp
<1>3. NoStamp \in Stamps  BY DEF Stamps
<1>4. Absent \in Objects  BY <1>3 DEF Absent, Objects
<1>5. Foreign \in Objects  BY <1>4 DEF Foreign, Objects
<1>6. ASSUME NEW slot PROVE Desired(slot) \in Objects
  BY <1>4 DEF Desired, Objects
<1>7. ASSUME NEW o \in Objects PROVE Aged(o) \in Objects
  BY <1>2 DEF Aged, Objects
<1>8. ASSUME NEW o \in Objects PROVE Unmarked(o) \in Objects
  BY <1>3 DEF Unmarked, Objects
<1>9. ASSUME NEW o \in Objects, NEW t \in Stamps
      PROVE [o EXCEPT !.mark = t] \in Objects /\ [o EXCEPT !.drain = t] \in Objects
  BY DEF Objects
<1>10. ASSUME NEW o \in Objects, NEW n \in {0, 1}
       PROVE [o EXCEPT !.replicas = n] \in Objects /\ [o EXCEPT !.reported = n] \in Objects
  BY DEF Objects
<1>11. ASSUME NEW o \in Objects PROVE [o EXCEPT !.st = "leaving"] \in Objects
  BY DEF Objects
<1> QED BY <1>4, <1>5, <1>6, <1>7, <1>8, <1>9, <1>10, <1>11

\* The informers hold objects whatever they mirror.
LEMMA MirrorType ==
  ASSUME NEW f, cache \in [Keys -> Objects], api' \in [Keys -> Objects], Mirror(f)
  PROVE  cache' \in [Keys -> Objects]
BY DEF Mirror

\* What a Delete leaves under a name is an object.
LEMMA DeletedType ==
  ASSUME api \in [Keys -> Objects], NEW k \in Keys PROVE DeletedForms(k) \subseteq Objects
BY ObjectTypes DEF DeletedForms

\* Starting an iteration of a loop keeps the loop variables typed.
LEMMA VisitType ==
  ASSUME NEW S \in SUBSET Groups, NEW at \in PassStates, NEW done \in PassStates \ LoopStates,
         Visit(S, at, done)
  PROVE  /\ pc' \in PassStates /\ todo' \subseteq Groups
         /\ cur' \in Groups \cup {0} /\ step' \in 0 .. LastStep
         /\ pc' \in LoopStates => cur' \in Groups /\ step' >= 1
<1>1. CASE S = {}
  BY <1>1 DEF Visit, LastStep
<1>2. CASE S # {}
  <2>1. First(S) \in S  BY <1>2, FirstIn, GroupsAssumption
  <2> QED BY <1>2, <2>1 DEF Visit, LastStep
<1> QED BY <1>1, <1>2

LEMMA PendingType ==
  ASSUME TypeOK, pc \in LoopStates, Pending
  PROVE  /\ pc' \in PassStates /\ todo' \subseteq Groups /\ left' \subseteq Groups
         /\ cur' \in Groups \cup {0} /\ step' \in 0 .. LastStep
         /\ pc' \in LoopStates => cur' \in Groups /\ step' >= 1
<1>1. TeardownStart \in PassStates  BY DEF TeardownStart, PassStates
<1>2. "report" \in PassStates \ LoopStates  BY DEF PassStates, LoopStates
<1>3. todo \in SUBSET Groups /\ left \subseteq Groups /\ cur \in Groups  BY DEF TypeOK, LoopStates
<1>4. Visit(todo, TeardownStart, "report") /\ left' = left \cup {cur}  BY DEF Pending, NextOrphan
<1> QED BY <1>1, <1>2, <1>3, <1>4, VisitType

LEMMA SettledType ==
  ASSUME TypeOK, pc \in LoopStates, Settled
  PROVE  /\ pc' \in PassStates /\ todo' \subseteq Groups /\ left' \subseteq Groups
         /\ cur' \in Groups \cup {0} /\ step' \in 0 .. LastStep
         /\ pc' \in LoopStates => cur' \in Groups /\ step' >= 1
BY DEF TypeOK, LoopStates, Settled, PassStates, LastStep

\* Every step of every actor keeps the types.
LEMMA TypeStep == ASSUME TypeOK, [Next]_vars PROVE TypeOK'
<1> USE DEF crVars, workVars, passVars, history
<1> DEFINE ApiT   == api' \in [Keys -> Objects]
           LoopT  == /\ pc' \in PassStates /\ todo' \subseteq Groups
                     /\ cur' \in Groups \cup {0} /\ step' \in 0 .. LastStep
                     /\ pc' \in LoopStates => cur' \in Groups /\ step' >= 1
<1>api. api \in [Keys -> Objects] /\ cache \in [Keys -> Objects]  BY DEF TypeOK
<1>end. ASSUME EndPass PROVE LoopT /\ seen' \subseteq Groups /\ status' \subseteq Groups
                             /\ mcond' \subseteq Groups /\ left' \subseteq Groups
  BY <1>end DEF EndPass, PassStates, LoopStates, LastStep
<1>unset. Unreset \subseteq Groups
  BY DEF Unreset, TypeOK, LoopStates
<1>1. CASE EditSpec
  BY <1>1 DEF EditSpec, TypeOK
<1>2. CASE Tick
  <2>1. ApiT /\ cache' \in [Keys -> Objects]
    BY <1>2, <1>api, ObjectTypes DEF Tick
  <2>2. orphanAge' \in [Groups -> Stamps] /\ scaledAge' \in [Groups -> Stamps]
    BY <1>2, ConfigAssumption DEF Tick, TypeOK, Older, Stamps, NoStamp
  <2> QED BY <1>2, <2>1, <2>2 DEF Tick, TypeOK
<1>3. ASSUME NEW k \in Keys, Sync(k) \/ Finalize(k) \/ Squat(k) PROVE TypeOK'
  <2>1. CASE Sync(k)
    <3>1. cache' \in [Keys -> Objects]  BY <2>1, <1>api DEF Sync
    <3> QED BY <2>1, <3>1 DEF Sync, TypeOK
  <2>2. CASE Finalize(k)
    <3>1. ApiT  BY <2>2, <1>api, ObjectTypes DEF Finalize
    <3>2. cache' \in [Keys -> Objects]  BY <2>2, <3>1, <1>api, MirrorType DEF Finalize
    <3>3. pods' \subseteq Groups  BY <2>2 DEF Finalize, DisownPods, TypeOK
    <3> QED BY <2>2, <3>1, <3>2, <3>3 DEF Finalize, TypeOK
  <2>3. CASE Squat(k)
    <3>1. ApiT  BY <2>3, <1>api, ObjectTypes DEF Squat
    <3>2. cache' \in [Keys -> Objects]  BY <2>3, <3>1, <1>api, MirrorType DEF Squat
    <3> QED BY <2>3, <3>1, <3>2 DEF Squat, TypeOK
  <2> QED BY <1>3, <2>1, <2>2, <2>3
<1>4. ASSUME NEW g \in Groups,
             StartPods(g) \/ DrainPods(g) \/ ReportReplicas(g)
      PROVE  TypeOK'
  <2>1. ASSUME NEW b \in BOOLEAN, SetPods(g, b) PROVE TypeOK'
    <3>1. ApiT
      <4> DEFINE n == IF b THEN 1 ELSE 0
      <4>1. <<g, "sts">> \in Keys  BY PrimaryInKeys
      <4>2. [api[<<g, "sts">>] EXCEPT !.reported = n] \in Objects
        BY <4>1, <1>api, ObjectTypes
      <4>3. api' = api \/ api' = [api EXCEPT ![<<g, "sts">>] = [@ EXCEPT !.reported = n]]
        BY <2>1 DEF SetPods
      <4> QED BY <4>1, <4>2, <4>3, <1>api
    <3>2. cache' \in [Keys -> Objects]  BY <2>1, <3>1, <1>api, MirrorType DEF SetPods
    <3>3. pods' \subseteq Groups /\ pvcs' \subseteq Groups  BY <2>1 DEF SetPods, TypeOK
    <3> QED BY <2>1, <3>1, <3>2, <3>3 DEF SetPods, TypeOK
  <2>2. CASE ReportReplicas(g)
    <3>1. ApiT
      <4> DEFINE n == IF g \in pods THEN 1 ELSE 0
      <4>1. <<g, "sts">> \in Keys  BY PrimaryInKeys
      <4>2. [api[<<g, "sts">>] EXCEPT !.reported = n] \in Objects
        BY <4>1, <1>api, ObjectTypes
      <4>3. api' = [api EXCEPT ![<<g, "sts">>] = [@ EXCEPT !.reported = n]]
        BY <2>2 DEF ReportReplicas
      <4> QED BY <4>1, <4>2, <4>3, <1>api
    <3>2. cache' \in [Keys -> Objects]  BY <2>2, <3>1, <1>api, MirrorType DEF ReportReplicas
    <3> QED BY <2>2, <3>1, <3>2 DEF ReportReplicas, TypeOK
  <2> QED BY <1>4, <2>1, <2>2 DEF StartPods, DrainPods
<1>5. CASE StartPass
  <2>1. LoopT
    <3>1. "apply" \in PassStates /\ "applyRoles" \in PassStates \ LoopStates
      BY DEF PassStates, LoopStates
    <3> QED BY <1>5, <3>1, VisitType DEF StartPass, TypeOK
  <2>2. orphanAge' \in [Groups -> Stamps] /\ interrupted' \subseteq Groups
    BY <1>5 DEF StartPass, TypeOK, Stamps
  <2> QED BY <1>5, <2>1, <2>2 DEF StartPass, TypeOK
<1>6. CASE ApplyResource
  <2> DEFINE slot == ApplyOrder[step]
             k    == Key(cur, slot)
  <2>1. cur \in Groups /\ step \in 1 .. LastStep /\ slot \in GroupSlots /\ k \in Keys
    BY <1>6, SlotsOfOrders, KeyInKeys DEF ApplyResource, TypeOK, LoopStates, LastStep
  <2>2. Applied(slot, k) \in Objects
    <3>1. Desired(slot).replicas \in {0, 1}  BY ObjectTypes DEF Objects
    <3> QED BY <2>1, <3>1, <1>api, ObjectTypes DEF Applied
  <2>3. ApiT  BY <1>6, <2>1, <2>2, <1>api DEF ApplyResource
  <2>4. cache' \in [Keys -> Objects]  BY <1>6, <2>3, <1>api, MirrorType DEF ApplyResource
  <2>5. LoopT /\ status' \subseteq Groups
    <3>1. "apply" \in PassStates /\ "applyRoles" \in PassStates \ LoopStates
      BY DEF PassStates, LoopStates
    <3>2. CASE step < LastStep  BY <1>6, <2>1, <3>2, <3>1 DEF ApplyResource, TypeOK, LastStep
    <3>3. CASE ~(step < LastStep)
      <4>1. todo \in SUBSET Groups /\ status' \subseteq Groups
        BY <1>6, <2>1, <3>3 DEF ApplyResource, TypeOK
      <4>2. Visit(todo, "apply", "applyRoles")  BY <1>6, <3>3 DEF ApplyResource
      <4> QED BY <4>1, <4>2, <3>1, VisitType
    <3> QED BY <3>2, <3>3
  <2> QED BY <1>6, <2>3, <2>4, <2>5 DEF ApplyResource, TypeOK
<1>7. CASE ApplyFails
  <2>1. LoopT
    <3>1. "apply" \in PassStates /\ "applyRoles" \in PassStates \ LoopStates
      BY DEF PassStates, LoopStates
    <3> QED BY <1>7, <3>1, VisitType DEF ApplyFails, TypeOK
  <2> QED BY <1>7, <2>1 DEF ApplyFails, TypeOK
<1>8. CASE ApplyRolePDBs
  <2>1. LoopT
    <3>1. "clear" \in PassStates /\ "rolePdbs" \in PassStates \ LoopStates
      BY DEF PassStates, LoopStates
    <3> QED BY <1>8, <3>1, VisitType DEF ApplyRolePDBs, TypeOK
  <2>2. ApiT  BY <1>8, <1>api, ObjectTypes DEF ApplyRolePDBs
  <2>3. cache' \in [Keys -> Objects]  BY <1>8, <2>2, <1>api, MirrorType DEF ApplyRolePDBs
  <2>4. faults' \in Nat  BY <1>8 DEF ApplyRolePDBs, Partial, TypeOK
  <2> QED BY <1>8, <2>1, <2>2, <2>3, <2>4 DEF ApplyRolePDBs, TypeOK
<1>9. CASE ClearTeardownProgress
  <2>1. cur \in Groups  BY <1>9 DEF ClearTeardownProgress, TypeOK, LoopStates
  <2>2. LoopT
    <3>1. "clear" \in PassStates /\ "rolePdbs" \in PassStates \ LoopStates
      BY DEF PassStates, LoopStates
    <3> QED BY <1>9, <3>1, VisitType DEF ClearTeardownProgress, TypeOK
  <2>3. ApiT
    <3> DEFINE O(p, w) == IF p \in w THEN Unmarked(api[<<cur, p>>]) ELSE api[<<cur, p>>]
    <3>1. PICK w : api' = [api EXCEPT ![<<cur, "sts">>] = O("sts", w), ![<<cur, "cm">>] = O("cm", w)]
      BY <1>9, Zenon DEF ClearTeardownProgress
    <3>2. O("sts", w) \in Objects /\ O("cm", w) \in Objects
      BY <2>1, <1>api, ObjectTypes, PrimaryInKeys
    <3> HIDE DEF O
    <3> QED BY <3>1, <3>2, <2>1, <1>api
  <2>4. cache' \in [Keys -> Objects]  BY <1>9, <2>3, <1>api, MirrorType DEF ClearTeardownProgress
  <2>5. faults' \in Nat  BY <1>9 DEF ClearTeardownProgress, Partial, TypeOK
  <2>6. interrupted' \subseteq Groups
    BY <1>9, <2>1 DEF ClearTeardownProgress, TypeOK
  <2> QED BY <1>9, <2>2, <2>3, <2>4, <2>5, <2>6 DEF ClearTeardownProgress, TypeOK
<1>10. CASE CleanupOrphanedRolePDBs
  <2>1. ApiT  BY <1>10, <1>api, ObjectTypes DEF CleanupOrphanedRolePDBs
  <2>2. cache' \in [Keys -> Objects]  BY <1>10, <2>1, <1>api, MirrorType DEF CleanupOrphanedRolePDBs
  <2>3. faults' \in Nat  BY <1>10 DEF CleanupOrphanedRolePDBs, Partial, TypeOK
  <2> QED BY <1>10, <2>1, <2>2, <2>3 DEF CleanupOrphanedRolePDBs, TypeOK, PassStates, LoopStates
<1>11. CASE DiscoverOrphans
  <2>1. LoopT
    <3>1. TeardownStart \in PassStates /\ "write" \in PassStates \ LoopStates
      BY DEF PassStates, LoopStates, TeardownStart
    <3>2. Orphans \in SUBSET Groups  BY DEF Orphans
    <3> QED BY <1>11, <3>1, <3>2, VisitType DEF DiscoverOrphans
  <2>2. orphanAge' \in [Groups -> Stamps]
    BY <1>11, ConfigAssumption DEF DiscoverOrphans, TypeOK, Stamps
  <2> QED BY <1>11, <2>1, <2>2 DEF DiscoverOrphans, TypeOK
<1>12. CASE DiscoverFails
  BY <1>12 DEF DiscoverFails, TypeOK, PassStates, LoopStates
<1>13. CASE CheckOrMarkGrayDelete
  <2>1. cur \in Groups /\ pc \in LoopStates
    BY <1>13 DEF CheckOrMarkGrayDelete, TypeOK, LoopStates
  <2>2. ApiT
    <3> DEFINE O(p, w) == IF p \in w THEN [api[<<cur, p>>] EXCEPT !.mark = GrayMark] ELSE api[<<cur, p>>]
    <3>1. CASE api' = api  BY <3>1, <1>api
    <3>2. ASSUME NEW w, MarkPrimaries(w) PROVE ApiT
      <4>1. api' = [api EXCEPT ![<<cur, "sts">>] = O("sts", w), ![<<cur, "cm">>] = O("cm", w)]
        BY <3>2, Zenon DEF MarkPrimaries
      <4>2. <<cur, "sts">> \in Keys /\ <<cur, "cm">> \in Keys  BY <2>1, PrimaryInKeys
      <4>3. GrayMark \in Stamps
        BY <4>2, <1>api, ConfigAssumption DEF GrayMark, Stamps, Objects
      <4>4. O("sts", w) \in Objects /\ O("cm", w) \in Objects
        BY <4>2, <4>3, <1>api, ObjectTypes
      <4> HIDE DEF O
      <4> QED BY <4>1, <4>2, <4>4, <1>api
    <3> QED BY <1>13, <3>1, <3>2 DEF CheckOrMarkGrayDelete
  <2>3. cache' \in [Keys -> Objects]
    BY <1>13, <2>2, <1>api, MirrorType DEF CheckOrMarkGrayDelete
  <2>4. faults' \in Nat  BY <1>13 DEF CheckOrMarkGrayDelete, MarkPrimaries, TypeOK
  <2>5. LoopT /\ left' \subseteq Groups
    <3>1. CASE Pending  BY <3>1, <2>1, PendingType
    <3>2. CASE pc' = "check" /\ UNCHANGED <<todo, left, cur, step>>
      BY <3>2, <2>1 DEF TypeOK, PassStates, LoopStates
    <3> QED BY <1>13, <3>1, <3>2 DEF CheckOrMarkGrayDelete, MarkPrimaries
  <2> QED BY <1>13, <2>2, <2>3, <2>4, <2>5 DEF CheckOrMarkGrayDelete, TypeOK
<1>14. ASSUME pc \in OrphanStates
       PROVE  /\ pc \in LoopStates /\ cur \in Groups /\ step \in 1 .. LastStep
              /\ Slot \in GroupSlots /\ CurKey \in Keys
  BY <1>14, SlotsOfOrders, KeyInKeys DEF TypeOK, OrphanStates, LoopStates, LastStep, Slot, CurKey
<1>15. CASE CheckOwned
  <2>1. LoopT /\ left' \subseteq Groups
    <3>1. CASE Settled  BY <1>15, <3>1, <1>14, SettledType DEF CheckOwned, OrphanStates
    <3>2. CASE pc' = "delete" /\ UNCHANGED <<todo, left, cur, step>>
      BY <1>15, <3>2, <1>14 DEF CheckOwned, TypeOK, PassStates, LoopStates, OrphanStates
    <3> QED BY <1>15, <3>1, <3>2 DEF CheckOwned
  <2> QED BY <1>15, <2>1 DEF CheckOwned, TypeOK
<1>16. CASE CheckStatefulSet
  <2>1. CurKey \in Keys /\ pc \in LoopStates  BY <1>16, <1>14 DEF CheckStatefulSet, OrphanStates
  <2>2. pvcs' \subseteq Groups  BY <1>16 DEF CheckStatefulSet, TypeOK
  <2>3. LoopT /\ left' \subseteq Groups
    <3>1. CASE Settled  BY <3>1, <2>1, SettledType
    <3>2. CASE Pending  BY <3>2, <2>1, PendingType
    <3>3. CASE pc' \in {"scale", "stamp", "delete"} /\ UNCHANGED <<todo, left, cur, step>>
      BY <3>3, <2>1 DEF TypeOK, PassStates, LoopStates
    <3> QED BY <1>16, <3>1, <3>2, <3>3 DEF CheckStatefulSet
  <2> QED BY <1>16, <2>2, <2>3 DEF CheckStatefulSet, TypeOK
<1>down. CASE ScaleToZero \/ StampDrain
  <2> DEFINE k == <<cur, "sts">>
  <2>1. pc \in LoopStates /\ cur \in Groups /\ k \in Keys
    BY <1>down, <1>14, PrimaryInKeys DEF ScaleToZero, StampDrain, OrphanStates
  <2>2. 0 \in Stamps /\ 0 \in {0, 1}  BY ConfigAssumption DEF Stamps
  <2>3. ApiT
    <3>1. [api[k] EXCEPT !.replicas = 0] \in Objects /\ [api[k] EXCEPT !.drain = 0] \in Objects
      BY <2>1, <2>2, <1>api, ObjectTypes
    <3>2. \/ api' = api
          \/ api' = [api EXCEPT ![k] = [@ EXCEPT !.replicas = 0]]
          \/ api' = [api EXCEPT ![k] = [@ EXCEPT !.drain = 0]]
      BY <1>down DEF ScaleToZero, StampDrain
    <3> QED BY <2>1, <3>1, <3>2, <1>api
  <2>4. cache' \in [Keys -> Objects]
    BY <1>down, <2>3, <1>api, MirrorType DEF ScaleToZero, StampDrain
  <2>5. scaledAge' \in [Groups -> Stamps]
    BY <1>down, <2>1, <2>2 DEF ScaleToZero, StampDrain, TypeOK
  <2>6. LoopT /\ left' \subseteq Groups
    BY <1>down, <2>1, PendingType DEF ScaleToZero, StampDrain
  <2> QED BY <1>down, <2>3, <2>4, <2>5, <2>6 DEF ScaleToZero, StampDrain, TypeOK
<1>17. CASE CheckExtras
  <2>1. CurKey \in Keys /\ pc \in LoopStates  BY <1>17, <1>14 DEF CheckExtras, OrphanStates
  <2>2. ApiT  BY <1>17, <2>1, <1>api, DeletedType DEF CheckExtras
  <2>3. cache' \in [Keys -> Objects]  BY <1>17, <2>2, <1>api, MirrorType DEF CheckExtras
  <2>4. LoopT /\ left' \subseteq Groups
    BY <1>17, <2>1, SettledType, PendingType DEF CheckExtras
  <2> QED BY <1>17, <2>2, <2>3, <2>4 DEF CheckExtras, TypeOK
<1>18. CASE Delete
  <2>1. CurKey \in Keys /\ pc \in LoopStates  BY <1>18, <1>14 DEF Delete, OrphanStates
  <2>2. ApiT  BY <1>18, <2>1, <1>api, DeletedType DEF Delete
  <2>3. cache' \in [Keys -> Objects]  BY <1>18, <2>2, <1>api, MirrorType DEF Delete
  <2>4. LoopT /\ left' \subseteq Groups
    <3>1. CASE Settled  BY <3>1, <2>1, SettledType
    <3>2. CASE pc' = "gone" /\ UNCHANGED <<todo, left, cur, step>>
      BY <3>2, <2>1 DEF TypeOK, PassStates, LoopStates
    <3> QED BY <1>18, <3>1, <3>2 DEF Delete
  <2>5. pods' \subseteq Groups  BY <1>18 DEF Delete, DisownPods, TypeOK
  <2> QED BY <1>18, <2>2, <2>3, <2>4, <2>5 DEF Delete, TypeOK
<1>19. CASE ConfirmDeleted
  <2>1. LoopT /\ left' \subseteq Groups
    BY <1>19, <1>14, SettledType, PendingType DEF ConfirmDeleted, OrphanStates
  <2> QED BY <1>19, <2>1 DEF ConfirmDeleted, TypeOK
<1>20. CASE ConfirmReclaimed
  <2>1. LoopT /\ left' \subseteq Groups /\ status' \subseteq Groups
    <3>1. CASE Pending /\ UNCHANGED status
      BY <1>20, <3>1, <1>14, PendingType DEF ConfirmReclaimed, TypeOK, OrphanStates
    <3>2. CASE step < LastStep /\ step' = step + 1 /\ UNCHANGED <<pc, cur, todo, left, status>>
      BY <3>2 DEF TypeOK, LastStep
    <3>3. CASE status' = status \ {cur} /\ NextOrphan /\ UNCHANGED left
      <4>1. TeardownStart \in PassStates /\ "report" \in PassStates \ LoopStates
        BY DEF PassStates, LoopStates, TeardownStart
      <4>2. todo \in SUBSET Groups  BY DEF TypeOK
      <4> QED BY <3>3, <4>1, <4>2, VisitType DEF NextOrphan, TypeOK
    <3> QED BY <1>20, <3>1, <3>2, <3>3 DEF ConfirmReclaimed
  <2> QED BY <1>20, <2>1 DEF ConfirmReclaimed, TypeOK
<1>21. CASE TeardownFails
  <2>1. pc \in LoopStates  BY <1>21 DEF TeardownFails, LoopStates, OrphanStates
  <2>2. LoopT /\ left' \subseteq Groups  BY <1>21, <2>1, PendingType DEF TeardownFails
  <2> QED BY <1>21, <2>2 DEF TeardownFails, TypeOK
<1>22. CASE ReportOrphans
  BY <1>22 DEF ReportOrphans, TypeOK, PassStates, LoopStates
<1>23. CASE WriteStatus
  BY <1>23, <1>end DEF WriteStatus, TypeOK
<1>24. CASE WriteFails
  BY <1>24, <1>end DEF WriteFails, TypeOK
<1>25. CASE RateLimited
  BY <1>25, <1>end, <1>unset DEF RateLimited, TypeOK
<1>26. CASE Crash
  BY <1>26, <1>end, <1>unset DEF Crash, TypeOK
<1>27. CASE UNCHANGED vars
  BY <1>27 DEF vars, TypeOK
<1> QED
  BY <1>1, <1>2, <1>3, <1>4, <1>5, <1>6, <1>7, <1>8, <1>9, <1>10, <1>11, <1>12, <1>13,
     <1>15, <1>16, <1>down, <1>17, <1>18, <1>19, <1>20, <1>21, <1>22, <1>23, <1>24, <1>25, <1>26,
     <1>27
  DEF Next, Pass, Environment

LEMMA InitType == ASSUME Init PROVE TypeOK
<1>1. api \in [Keys -> Objects] /\ cache \in [Keys -> Objects]
  BY ObjectTypes DEF Init
<1>2. orphanAge \in [Groups -> Stamps] /\ scaledAge \in [Groups -> Stamps]  BY DEF Init, Stamps
<1> QED BY <1>1, <1>2 DEF Init, TypeOK, PassStates, LoopStates, LastStep

\* Type correctness, for every instance.
THEOREM TypeCorrect == Spec => []TypeOK
<1>1. Init => TypeOK  BY InitType
<1>2. TypeOK /\ [Next]_vars => TypeOK'  BY TypeStep
<1> QED BY <1>1, <1>2, PTL DEF Spec

-----------------------------------------------------------------------------
(***************************************************************************)
(* Ownership.  Only the apply phase makes the cluster the owner of an       *)
(* object it did not own.                                                  *)
(***************************************************************************)
Applying == pc \in {"apply", "applyRoles"}

NothingNewOwned == \A k \in Keys : isOwnedByCluster(api'[k]) => isOwnedByCluster(api[k])

\* Replacing one object by one that is owned only if the old one was makes no
\* new owned object.
LEMMA ReplaceOne ==
  ASSUME api \in [Keys -> Objects], NEW k \in Keys, NEW o,
         api' = [api EXCEPT ![k] = o], isOwnedByCluster(o) => isOwnedByCluster(api[k])
  PROVE  NothingNewOwned
BY DEF NothingNewOwned

LEMMA ReplacePrimaries ==
  ASSUME api \in [Keys -> Objects], NEW g \in Groups, NEW o1, NEW o2,
         api' = [api EXCEPT ![<<g, "sts">>] = o1, ![<<g, "cm">>] = o2],
         isOwnedByCluster(o1) => isOwnedByCluster(api[<<g, "sts">>]),
         isOwnedByCluster(o2) => isOwnedByCluster(api[<<g, "cm">>])
  PROVE  NothingNewOwned
BY PrimaryInKeys DEF NothingNewOwned

\* Annotations and counts do not change the owner.
LEMMA SameOwner ==
  ASSUME NEW o \in Objects
  PROVE  /\ isOwnedByCluster(Aged(o)) <=> isOwnedByCluster(o)
         /\ isOwnedByCluster(Unmarked(o)) <=> isOwnedByCluster(o)
         /\ \A t : isOwnedByCluster([o EXCEPT !.mark = t]) <=> isOwnedByCluster(o)
         /\ \A t : isOwnedByCluster([o EXCEPT !.drain = t]) <=> isOwnedByCluster(o)
         /\ \A n : isOwnedByCluster([o EXCEPT !.replicas = n]) <=> isOwnedByCluster(o)
         /\ \A n : isOwnedByCluster([o EXCEPT !.reported = n]) <=> isOwnedByCluster(o)
         /\ ~isOwnedByCluster(Absent) /\ ~isOwnedByCluster(Foreign)
BY DEF isOwnedByCluster, Aged, Unmarked, Objects, Absent, Foreign

LEMMA DeletedOwner ==
  ASSUME api \in [Keys -> Objects], NEW k \in Keys, NEW o \in DeletedForms(k)
  PROVE  /\ isOwnedByCluster(o) => isOwnedByCluster(api[k])
         /\ ~Present(api[k]) => o = Absent
<1>1. ~isOwnedByCluster(Absent)  BY DEF isOwnedByCluster, Absent
<1>2. (o = api[k] /\ api[k].st = "leaving") \/ o = Absent \/ api[k].st = "owned"
  BY DEF DeletedForms
<1>3. ~Present(api[k]) => api[k].st = "absent"  BY DEF Present
<1> QED BY <1>1, <1>2, <1>3 DEF isOwnedByCluster

LEMMA OwnershipStep ==
  ASSUME TypeOK, [Next]_vars
  PROVE  NothingNewOwned \/ ApplyResource \/ ApplyRolePDBs
<1>api. api \in [Keys -> Objects] /\ cache \in [Keys -> Objects]  BY DEF TypeOK
<1>same. ASSUME api' = api PROVE NothingNewOwned  BY <1>same DEF NothingNewOwned
<1>1. CASE Tick  BY <1>1, <1>api, SameOwner DEF Tick, NothingNewOwned
<1>2. ASSUME NEW k \in Keys, Finalize(k) \/ Squat(k) PROVE NothingNewOwned
  BY <1>2, <1>api, SameOwner, ReplaceOne, ObjectTypes DEF Finalize, Squat
<1>3. ASSUME NEW g \in Groups, StartPods(g) \/ DrainPods(g) \/ ReportReplicas(g)
      PROVE  NothingNewOwned
  <2>1. <<g, "sts">> \in Keys  BY PrimaryInKeys
  <2>2. \/ api' = api
        \/ \E n : api' = [api EXCEPT ![<<g, "sts">>] = [@ EXCEPT !.reported = n]]
    BY <1>3, Zenon DEF StartPods, DrainPods, SetPods, ReportReplicas
  <2>3. ASSUME NEW n, api' = [api EXCEPT ![<<g, "sts">>] = [@ EXCEPT !.reported = n]]
        PROVE  NothingNewOwned
    <3>1. api' = [api EXCEPT ![<<g, "sts">>] = [api[<<g, "sts">>] EXCEPT !.reported = n]]
      BY <2>3, Zenon
    <3>2. isOwnedByCluster([api[<<g, "sts">>] EXCEPT !.reported = n]) => isOwnedByCluster(api[<<g, "sts">>])
      BY <2>1, <1>api, SameOwner
    <3> HIDE DEF isOwnedByCluster
    <3> QED BY <2>1, <3>1, <3>2, <1>api, ReplaceOne
  <2> QED BY <2>2, <2>3, <1>same, Zenon
<1>4. CASE ClearTeardownProgress
  <2> DEFINE O(p, w) == IF p \in w THEN Unmarked(api[<<cur, p>>]) ELSE api[<<cur, p>>]
  <2>1. cur \in Groups  BY <1>4 DEF ClearTeardownProgress, TypeOK, LoopStates
  <2>2. PICK w : api' = [api EXCEPT ![<<cur, "sts">>] = O("sts", w), ![<<cur, "cm">>] = O("cm", w)]
    BY <1>4, Zenon DEF ClearTeardownProgress
  <2>3. /\ isOwnedByCluster(O("sts", w)) => isOwnedByCluster(api[<<cur, "sts">>])
        /\ isOwnedByCluster(O("cm", w)) => isOwnedByCluster(api[<<cur, "cm">>])
    BY <2>1, <1>api, SameOwner, PrimaryInKeys
  <2> HIDE DEF O
  <2> QED BY <2>1, <2>2, <2>3, <1>api, ReplacePrimaries
<1>5. CASE CleanupOrphanedRolePDBs
  <2>1. PICK gone : api' = [k \in Keys |-> IF k[2] = "rolePdb" /\ k[1] \in gone THEN Absent ELSE api[k]]
    BY <1>5, Zenon DEF CleanupOrphanedRolePDBs
  <2>2. ~isOwnedByCluster(Absent)  BY DEF isOwnedByCluster, Absent
  <2> QED BY <2>1, <2>2 DEF NothingNewOwned
<1>6. CASE CheckOrMarkGrayDelete
  <2> DEFINE O(p, w) == IF p \in w THEN [api[<<cur, p>>] EXCEPT !.mark = GrayMark] ELSE api[<<cur, p>>]
  <2>1. cur \in Groups  BY <1>6 DEF CheckOrMarkGrayDelete, TypeOK, LoopStates
  <2>2. ASSUME NEW w, MarkPrimaries(w) PROVE NothingNewOwned
    <3>1. api' = [api EXCEPT ![<<cur, "sts">>] = O("sts", w), ![<<cur, "cm">>] = O("cm", w)]
      BY <2>2, Zenon DEF MarkPrimaries
    <3>2. /\ isOwnedByCluster(O("sts", w)) => isOwnedByCluster(api[<<cur, "sts">>])
          /\ isOwnedByCluster(O("cm", w)) => isOwnedByCluster(api[<<cur, "cm">>])
      BY <2>1, <1>api, SameOwner, PrimaryInKeys
    <3> HIDE DEF O
    <3> QED BY <2>1, <3>1, <3>2, <1>api, ReplacePrimaries
  <2> QED BY <1>6, <2>2, <1>same DEF CheckOrMarkGrayDelete
<1>7. ASSUME pc \in {"check", "delete"} PROVE CurKey \in Keys
  BY <1>7, SlotsOfOrders, KeyInKeys DEF TypeOK, LoopStates, LastStep, Slot, CurKey
<1>8. CASE ScaleToZero \/ StampDrain
  <2> DEFINE k == <<cur, "sts">>
  <2>1. k \in Keys  BY <1>8, PrimaryInKeys DEF ScaleToZero, StampDrain, TypeOK, LoopStates
  <2>2. \/ api' = api
        \/ api' = [api EXCEPT ![k] = [api[k] EXCEPT !.replicas = 0]]
        \/ api' = [api EXCEPT ![k] = [api[k] EXCEPT !.drain = 0]]
    BY <1>8 DEF ScaleToZero, StampDrain
  <2> HIDE DEF k
  <2> QED BY <2>1, <2>2, <1>api, <1>same, SameOwner, ReplaceOne
<1>9. CASE CheckExtras \/ Delete
  <2>1. CurKey \in Keys  BY <1>9, <1>7 DEF CheckExtras, Delete
  <2>2. api' = api \/ \E o \in DeletedForms(CurKey) : api' = [api EXCEPT ![CurKey] = o]
    BY <1>9 DEF CheckExtras, Delete
  <2> QED BY <2>1, <2>2, <1>api, <1>same, DeletedOwner, ReplaceOne
<1>10. CASE \/ EditSpec \/ \E k \in Keys : Sync(k)
           
            \/ StartPass \/ ApplyFails \/ DiscoverOrphans \/ DiscoverFails \/ CheckOwned
            \/ CheckStatefulSet \/ ConfirmDeleted \/ ConfirmReclaimed \/ TeardownFails \/ ReportOrphans
            \/ WriteStatus \/ WriteFails \/ RateLimited \/ Crash \/ UNCHANGED vars
  <2>1. api' = api
    BY <1>10 DEF EditSpec, Sync, StartPass, ApplyFails, DiscoverOrphans,
         DiscoverFails, CheckOwned, CheckStatefulSet, ConfirmDeleted, ConfirmReclaimed, TeardownFails,
         ReportOrphans, WriteStatus, WriteFails, RateLimited, Crash, vars
  <2> QED BY <2>1, <1>same
<1> QED
  BY <1>1, <1>2, <1>3, <1>4, <1>5, <1>6, <1>8, <1>9, <1>10 DEF Next, Pass, Environment

-----------------------------------------------------------------------------
(***************************************************************************)
(* The ledger.  LedgerKept is not inductive: what licenses the pruning of a *)
(* group is spread over the pass.  The extra resources were listed, uncached,*)
(* before the later steps; the confirmation has read the other slots one by *)
(* one up to the current step; and what was pruned earlier in the pass is    *)
(* still gone when the status is written, because nothing but the apply      *)
(* phase, which comes first, creates anything.                               *)
(***************************************************************************)
ExtrasGone ==
  (pc = "confirm" \/ (pc \in {"check", "delete", "gone"} /\ step > 3))
    => ~isOwnedByCluster(api[<<cur, "extra">>])

Confirmed ==
  pc = "confirm" =>
    \A i \in 1 .. step - 1 : \/ TeardownOrder[i] = "extra"
                             \/ LiveName(cur, TeardownOrder[i])
                             \/ ~isOwnedByCluster(api[Key(cur, TeardownOrder[i])])

PrunedGone ==
  /\ pc # "idle" => \A g \in ledger \ status : Reclaimed(g)
  /\ Applying => ledger \subseteq status

Position == /\ pc = "gray" => step = 1
            /\ pc \in {"delete", "gone"} => step # 3

LedgerInv == TypeOK /\ ExtrasGone /\ Confirmed /\ PrunedGone /\ Position

LEMMA ExtraKey == ASSUME NEW g PROVE Key(g, "extra") = <<g, "extra">> /\ ~LiveName(g, "extra")
BY AliasAssumption DEF Key, LiveName, Derived

LEMMA ExtraInKeys == ASSUME NEW g \in Groups PROVE <<g, "extra">> \in Keys
BY DEF Keys, GroupSlots

\* Every slot of a group has a place in the teardown.
LEMMA SlotPlace ==
  ASSUME NEW slot \in GroupSlots PROVE \E i \in 1 .. LastStep : TeardownOrder[i] = slot
<1>1. /\ TeardownOrder[1] = "pdb" /\ TeardownOrder[2] = "sts" /\ TeardownOrder[3] = "extra"
      /\ TeardownOrder[4] = "cm" /\ TeardownOrder[5] = "svc" /\ TeardownOrder[6] = "headless"
      /\ TeardownOrder[7] = "metrics"
  BY DEF TeardownOrder
<1>2. 1 .. LastStep = {1, 2, 3, 4, 5, 6, 7}  BY DEF LastStep
<1> QED BY <1>1, <1>2 DEF GroupSlots

LEMMA TeardownThird == ASSUME NEW i \in 1 .. LastStep PROVE TeardownOrder[i] = "extra" <=> i = 3
<1>1. i \in {1, 2, 3, 4, 5, 6, 7}  BY DEF LastStep
<1> QED BY <1>1 DEF TeardownOrder

\* A reclaimed group stays reclaimed while nothing new is owned.
LEMMA StaysReclaimed ==
  ASSUME NEW g \in Groups, Reclaimed(g), NothingNewOwned, seen' = seen
  PROVE  Reclaimed(g)'
BY KeyInKeys DEF Reclaimed, NothingNewOwned, LiveName

\* A confirmation that has seen every slot makes the group reclaimed.
LEMMA ConfirmedAll ==
  ASSUME TypeOK, ExtrasGone, Confirmed, pc = "confirm", step = LastStep,
         LiveName(cur, Slot) \/ ~isOwnedByCluster(api[CurKey])
  PROVE  Reclaimed(cur)
<1> SUFFICES ASSUME NEW slot \in GroupSlots, ~LiveName(cur, slot)
             PROVE  ~isOwnedByCluster(api[Key(cur, slot)])
  BY DEF Reclaimed
<1>1. PICK i \in 1 .. LastStep : TeardownOrder[i] = slot  BY SlotPlace
<1>2. CASE slot = "extra"  BY <1>2, ExtraKey DEF ExtrasGone
<1>3. CASE slot # "extra" /\ i = LastStep  BY <1>1, <1>3 DEF Slot, CurKey
<1>4. CASE slot # "extra" /\ i # LastStep
  <2>1. i \in 1 .. step - 1  BY <1>1, <1>4 DEF LastStep
  <2> QED BY <1>1, <1>4, <2>1 DEF Confirmed
<1> QED BY <1>2, <1>3, <1>4

\* The control state a loop iteration starts in.
LEMMA VisitState ==
  ASSUME NEW S, NEW at, NEW done, Visit(S, at, done)
  PROVE  pc' = done \/ (pc' = at /\ step' = 1)
BY Zenon DEF Visit

LEMMA TeardownStartState == TeardownStart \in {"gray", "check"}
BY DEF TeardownStart

LEMMA LedgerStep == ASSUME LedgerInv, [Next]_vars PROVE LedgerInv'
<1> USE DEF crVars, workVars, passVars
<1>typ. TypeOK /\ TypeOK'  BY TypeStep DEF LedgerInv
<1>own. NothingNewOwned \/ ApplyResource \/ ApplyRolePDBs  BY <1>typ, OwnershipStep
<1>loop. ASSUME pc \in {"check", "delete", "gone", "confirm"}
         PROVE  cur \in Groups /\ step \in 1 .. LastStep
  BY <1>loop, <1>typ DEF TypeOK, LoopStates, LastStep
\* The pass stands still, or moves on without touching the status.
<1>still. ASSUME NothingNewOwned, UNCHANGED <<seen, status, ledger>>, pc # "idle", ~Applying,
                 ~Applying', pc' # "idle"
          PROVE  PrunedGone'
  <2> SUFFICES ASSUME NEW g \in ledger \ status PROVE Reclaimed(g)'
    BY <1>still DEF PrunedGone
  <2>1. g \in Groups /\ Reclaimed(g)  BY <1>still, <1>typ DEF LedgerInv, PrunedGone, TypeOK
  <2> QED BY <2>1, <1>still, StaysReclaimed
<1>env. ASSUME NothingNewOwned, UNCHANGED <<passVars, ledger>> PROVE LedgerInv'
  <2>1. ExtrasGone'
    BY <1>env, <1>loop, ExtraInKeys DEF LedgerInv, ExtrasGone, NothingNewOwned
  <2>2. Confirmed'
    <3> SUFFICES ASSUME pc = "confirm", NEW i \in 1 .. step - 1, TeardownOrder[i] # "extra",
                        ~LiveName(cur, TeardownOrder[i])
                 PROVE  ~isOwnedByCluster(api'[Key(cur, TeardownOrder[i])])
      BY <1>env DEF Confirmed, LiveName
    <3>1. cur \in Groups /\ i \in 1 .. LastStep  BY <1>loop DEF LastStep
    <3>2. Key(cur, TeardownOrder[i]) \in Keys  BY <3>1, SlotsOfOrders, KeyInKeys
    <3> QED BY <1>env, <3>2 DEF LedgerInv, Confirmed, NothingNewOwned
  <2>3. PrunedGone'
    <3>1. CASE pc = "idle"  BY <1>env, <3>1 DEF PrunedGone, Applying
    <3>2. CASE pc # "idle"
      <4> SUFFICES ASSUME NEW g \in ledger \ status PROVE Reclaimed(g)'
        BY <1>env DEF LedgerInv, PrunedGone, Applying
      <4>1. g \in Groups /\ Reclaimed(g)  BY <3>2, <1>typ DEF LedgerInv, PrunedGone, TypeOK
      <4> QED BY <4>1, <1>env, StaysReclaimed
    <3> QED BY <3>1, <3>2
  <2>4. Position'  BY <1>env DEF LedgerInv, Position
  <2> QED BY <1>typ, <2>1, <2>2, <2>3, <2>4 DEF LedgerInv
\* The pass leaves the group at hand, or starts one.
<1>move. ASSUME pc' \notin {"confirm", "delete", "gone"}, pc' \in {"gray", "check"} => step' = 1, PrunedGone'
         PROVE  LedgerInv'
  BY <1>move, <1>typ DEF LedgerInv, ExtrasGone, Confirmed, Position
<1>end. ASSUME EndPass PROVE LedgerInv'
  BY <1>end, <1>move DEF EndPass, PrunedGone, Applying
<1>pend. ASSUME NothingNewOwned, Visit(todo, TeardownStart, "report"),
                UNCHANGED <<seen, status, ledger>>, pc # "idle", ~Applying
         PROVE  LedgerInv'
  <2>1. pc' = "report" \/ (pc' \in {"gray", "check"} /\ step' = 1)
    BY <1>pend, VisitState, TeardownStartState
  <2> QED BY <2>1, <1>pend, <1>still, <1>move DEF Applying
\* A step that settles leaves the extras to be gone after the third one.
<1>settle. ASSUME NothingNewOwned, Settled, UNCHANGED <<seen, status, ledger>>,
                  pc \in {"check", "delete", "gone"},
                  step = 3 => ~isOwnedByCluster(api'[<<cur, "extra">>])
           PROVE  LedgerInv'
  <2>1. cur \in Groups /\ step \in 1 .. LastStep /\ cur' = cur  BY <1>settle, <1>loop DEF Settled
  <2>2. ExtrasGone'
    <3>1. step >= 3 => ~isOwnedByCluster(api'[<<cur, "extra">>])
      BY <1>settle, <2>1, ExtraInKeys DEF LedgerInv, ExtrasGone, NothingNewOwned, LastStep
    <3>2. pc' = "confirm" => step >= 3  BY <1>settle, <2>1 DEF Settled, LastStep
    <3>3. pc' = "check" /\ step' > 3 => step >= 3  BY <1>settle, <2>1 DEF Settled, LastStep
    <3>4. pc' \in {"check", "confirm"}  BY <1>settle DEF Settled
    <3> QED BY <2>1, <3>1, <3>2, <3>3, <3>4 DEF ExtrasGone
  <2>3. Confirmed'  BY <1>settle, <2>1 DEF Settled, Confirmed
  <2>4. PrunedGone'  BY <1>settle, <1>still DEF Settled, Applying
  <2>5. Position'  BY <1>settle DEF Settled, Position
  <2> QED BY <1>typ, <2>2, <2>3, <2>4, <2>5 DEF LedgerInv
\* A step goes on with its group and its position.
<1>stay. ASSUME NothingNewOwned, UNCHANGED <<seen, status, ledger, cur, step>>,
                \/ pc = "check" /\ pc' = "delete" /\ step # 3
                \/ pc = "delete" /\ pc' = "gone"
                \/ pc = "gray" /\ pc' = "check"
         PROVE  LedgerInv'
  <2>1. ExtrasGone'
    <3>1. CASE pc = "gray"  BY <1>stay, <3>1, <1>typ DEF LedgerInv, Position, ExtrasGone
    <3>2. CASE pc # "gray"
      BY <1>stay, <3>2, <1>loop, ExtraInKeys DEF LedgerInv, ExtrasGone, NothingNewOwned
    <3> QED BY <3>1, <3>2
  <2>2. Confirmed' /\ Position'  BY <1>stay DEF LedgerInv, Confirmed, Position
  <2>3. PrunedGone'  BY <1>stay, <1>still DEF Applying
  <2> QED BY <1>typ, <2>1, <2>2, <2>3 DEF LedgerInv
<1>1. CASE Environment
  <2>1. UNCHANGED <<passVars, ledger>>
    BY <1>1 DEF Environment, EditSpec, Tick, Sync, Finalize, Squat, StartPods, DrainPods,
                SetPods, ReportReplicas
  <2>2. ~ApplyResource \/ NothingNewOwned
    <3>1. SUFFICES ASSUME ApplyResource PROVE FALSE  OBVIOUS
    <3> QED BY <3>1, <2>1, <1>typ DEF ApplyResource, Visit, TypeOK, LastStep
  <2>3. ~ApplyRolePDBs \/ NothingNewOwned
    <3>1. SUFFICES ASSUME ApplyRolePDBs PROVE FALSE  OBVIOUS
    <3> QED BY <3>1, <2>1, VisitState DEF ApplyRolePDBs
  <2> QED BY <2>1, <2>2, <2>3, <1>own, <1>env
<1>2. CASE StartPass
  <2>1. pc' \in {"apply", "applyRoles"}  BY <1>2, VisitState DEF StartPass
  <2>2. PrunedGone'  BY <1>2 DEF StartPass, PrunedGone
  <2> QED BY <2>1, <2>2, <1>move
<1>3. CASE ApplyResource \/ ApplyFails \/ ApplyRolePDBs
  <2>1. pc' \in {"apply", "applyRoles", "clear", "rolePdbs"}
    BY <1>3, VisitState DEF ApplyResource, ApplyFails, ApplyRolePDBs
  <2>2. ledger' = ledger /\ status \subseteq status' /\ ledger \subseteq status
    BY <1>3 DEF ApplyResource, ApplyFails, ApplyRolePDBs, LedgerInv, PrunedGone, Applying
  <2>3. PrunedGone'  BY <2>2 DEF PrunedGone
  <2> QED BY <2>1, <2>3, <1>move
<1>notapp. ASSUME pc \notin {"apply", "applyRoles"} PROVE NothingNewOwned
  BY <1>notapp, <1>own DEF ApplyResource, ApplyRolePDBs
<1>4. CASE ClearTeardownProgress \/ CleanupOrphanedRolePDBs \/ DiscoverFails \/ ReportOrphans
  <2>1. pc' \in {"clear", "rolePdbs", "discover", "write"}
    BY <1>4, VisitState
    DEF ClearTeardownProgress, CleanupOrphanedRolePDBs, DiscoverFails, ReportOrphans
  <2>2. /\ pc \in {"clear", "rolePdbs", "discover", "report"}
        /\ UNCHANGED <<seen, status, ledger>>
    BY <1>4 DEF ClearTeardownProgress, CleanupOrphanedRolePDBs, DiscoverFails, ReportOrphans
  <2> QED BY <2>1, <2>2, <1>notapp, <1>still, <1>move DEF Applying
<1>5. CASE DiscoverOrphans
  <2>1. pc' = "write" \/ (pc' \in {"gray", "check"} /\ step' = 1)
    BY <1>5, VisitState, TeardownStartState DEF DiscoverOrphans
  <2>2. pc = "discover" /\ UNCHANGED <<seen, status, ledger>>  BY <1>5 DEF DiscoverOrphans
  <2> QED BY <2>1, <2>2, <1>notapp, <1>still, <1>move DEF Applying
<1>6. CASE CheckOrMarkGrayDelete
  <2>1. pc = "gray" /\ UNCHANGED <<seen, status, ledger>>  BY <1>6 DEF CheckOrMarkGrayDelete
  <2>2. CASE Pending  BY <2>1, <2>2, <1>notapp, <1>pend DEF Pending, NextOrphan, Applying
  <2>3. CASE pc' = "check" /\ UNCHANGED <<todo, left, cur, step>>
    BY <2>1, <2>3, <1>notapp, <1>stay
  <2> QED BY <1>6, <2>2, <2>3 DEF CheckOrMarkGrayDelete, MarkPrimaries
<1>7. CASE CheckOwned
  <2>1. pc = "check" /\ Slot # "extra" /\ UNCHANGED <<seen, status, ledger>>  BY <1>7 DEF CheckOwned
  <2>2. step # 3  BY <2>1 DEF Slot, TeardownOrder
  <2>3. CASE Settled  BY <2>1, <2>2, <2>3, <1>notapp, <1>settle
  <2>4. CASE pc' = "delete" /\ UNCHANGED <<todo, left, cur, step>>
    BY <2>1, <2>2, <2>4, <1>notapp, <1>stay
  <2> QED BY <1>7, <2>3, <2>4 DEF CheckOwned
<1>8. CASE CheckStatefulSet
  <2>1. pc = "check" /\ Slot = "sts" /\ UNCHANGED <<seen, status, ledger>>
    BY <1>8 DEF CheckStatefulSet
  <2>2. step # 3  BY <2>1 DEF Slot, TeardownOrder
  <2>3. CASE Settled  BY <2>1, <2>2, <2>3, <1>notapp, <1>settle
  <2>4. CASE pc' = "delete" /\ UNCHANGED <<todo, left, cur, step>>
    BY <2>1, <2>2, <2>4, <1>notapp, <1>stay
  <2>5. CASE Pending  BY <2>1, <2>5, <1>notapp, <1>pend DEF Pending, NextOrphan, Applying
  <2>6. CASE pc' \in {"scale", "stamp"}
    BY <2>1, <2>6, <1>notapp, <1>still, <1>move DEF Applying
  <2> QED BY <1>8, <2>3, <2>4, <2>5, <2>6 DEF CheckStatefulSet
<1>down. CASE ScaleToZero \/ StampDrain
  <2>1. pc \in {"scale", "stamp"} /\ UNCHANGED <<seen, status, ledger>> /\ Pending
    BY <1>down DEF ScaleToZero, StampDrain
  <2> QED BY <2>1, <1>notapp, <1>pend DEF Pending, NextOrphan, Applying
<1>9. CASE CheckExtras
  <2>1. pc = "check" /\ Slot = "extra" /\ UNCHANGED <<seen, status, ledger>>
    BY <1>9 DEF CheckExtras
  <2>2. CurKey = <<cur, "extra">>  BY <2>1, ExtraKey DEF CurKey
  <2>3. CASE Pending  BY <2>1, <2>3, <1>notapp, <1>pend DEF Pending, NextOrphan, Applying
  <2>4. CASE Settled /\ UNCHANGED api /\ ~isOwnedByCluster(api[CurKey])
    BY <2>1, <2>2, <2>4, <1>notapp, <1>settle
  <2> QED BY <1>9, <2>3, <2>4 DEF CheckExtras
<1>10. CASE Delete
  <2>1. pc = "delete" /\ UNCHANGED <<seen, status, ledger>>  BY <1>10 DEF Delete
  <2>2. CASE pc' = "gone" /\ UNCHANGED <<todo, left, cur, step>>
    BY <2>1, <2>2, <1>notapp, <1>stay
  <2>3. CASE Settled
    BY <2>1, <2>3, <1>notapp, <1>settle DEF LedgerInv, Position
  <2> QED BY <1>10, <2>2, <2>3 DEF Delete
<1>11. CASE ConfirmDeleted
  <2>1. pc = "gone" /\ UNCHANGED <<seen, status, ledger, api>>  BY <1>11 DEF ConfirmDeleted
  <2>2. CASE Pending  BY <2>1, <2>2, <1>notapp, <1>pend DEF Pending, NextOrphan, Applying
  <2>3. CASE Settled  BY <2>1, <2>3, <1>notapp, <1>settle DEF LedgerInv, Position
  <2> QED BY <1>11, <2>2, <2>3 DEF ConfirmDeleted
<1>12. CASE ConfirmReclaimed
  <2>1. pc = "confirm" /\ UNCHANGED <<seen, ledger, api>>  BY <1>12 DEF ConfirmReclaimed
  <2>2. cur \in Groups /\ step \in 1 .. LastStep  BY <2>1, <1>loop
  <2>3. CASE Pending /\ UNCHANGED status
    BY <2>1, <2>3, <1>notapp, <1>pend DEF Pending, NextOrphan, Applying
  <2> DEFINE here == Slot = "extra" \/ LiveName(cur, Slot) \/ ~isOwnedByCluster(api[CurKey])
  <2>4. CASE here /\ step' = step + 1 /\ UNCHANGED <<pc, cur, todo, left, status>>
    <3>1. ExtrasGone' /\ Position'  BY <2>1, <2>4 DEF LedgerInv, ExtrasGone, Position
    <3>2. Confirmed'
      <4> SUFFICES ASSUME NEW i \in 1 .. step
                   PROVE  \/ TeardownOrder[i] = "extra" \/ LiveName(cur, TeardownOrder[i])
                          \/ ~isOwnedByCluster(api[Key(cur, TeardownOrder[i])])
        BY <2>1, <2>2, <2>4 DEF Confirmed, LiveName
      <4>1. CASE i = step  BY <2>4, <4>1 DEF Slot, CurKey
      <4>2. CASE i # step
        <5>1. i \in 1 .. step - 1  BY <4>2, <2>2
        <5> QED BY <5>1, <2>1 DEF LedgerInv, Confirmed
      <4> QED BY <4>1, <4>2
    <3>3. PrunedGone'  BY <2>1, <2>4, <1>notapp, <1>still DEF Applying
    <3> QED BY <1>typ, <3>1, <3>2, <3>3 DEF LedgerInv
  <2>5. CASE here /\ step = LastStep /\ status' = status \ {cur} /\ NextOrphan
    <3>1. Slot # "extra"  BY <2>5, TeardownThird, <2>2 DEF Slot, LastStep
    <3>2. Reclaimed(cur)  BY <2>1, <2>5, <3>1, <1>typ, ConfirmedAll DEF LedgerInv
    <3>3. pc' = "report" \/ (pc' \in {"gray", "check"} /\ step' = 1)
      BY <2>5, VisitState, TeardownStartState DEF NextOrphan
    <3>4. PrunedGone'
      <4> SUFFICES ASSUME NEW g \in ledger \ status' PROVE Reclaimed(g)'
        BY <2>1, <3>3 DEF PrunedGone, Applying
      <4>1. g \in Groups /\ Reclaimed(g)
        BY <2>1, <2>2, <2>5, <3>2, <1>typ DEF LedgerInv, PrunedGone, TypeOK
      <4> QED BY <2>1, <4>1, <1>notapp, StaysReclaimed
    <3> QED BY <3>3, <3>4, <1>move
  <2> QED BY <1>12, <2>2, <2>3, <2>4, <2>5 DEF ConfirmReclaimed, stillOwned, LastStep
<1>13. CASE TeardownFails
  <2>1. pc \in OrphanStates /\ UNCHANGED <<seen, status, ledger>>
    BY <1>13 DEF TeardownFails
  <2> QED BY <1>13, <2>1, <1>notapp, <1>pend DEF TeardownFails, Pending, NextOrphan, Applying, OrphanStates
<1>14. CASE WriteStatus \/ WriteFails \/ RateLimited \/ Crash
  BY <1>14, <1>end DEF WriteStatus, WriteFails, RateLimited, Crash
<1>15. CASE UNCHANGED vars
  <2>1. NothingNewOwned  BY <1>15 DEF vars, NothingNewOwned
  <2> QED BY <1>15, <2>1, <1>env DEF vars
<1> QED
  BY <1>1, <1>2, <1>3, <1>4, <1>5, <1>6, <1>7, <1>8, <1>9, <1>10, <1>11, <1>12, <1>13, <1>14,
     <1>15, <1>down DEF Next, Pass

\* A group leaves the stored ledger only when nothing of it is left, under
\* every fault the model has.
THEOREM LedgerSafe == Spec => LedgerKept
<1>1. Init => LedgerInv
  <2> SUFFICES ASSUME Init PROVE LedgerInv  OBVIOUS
  <2>1. TypeOK  BY InitType
  <2> QED BY <2>1 DEF Init, LedgerInv, ExtrasGone, Confirmed, PrunedGone, Position, Applying
<1>2. LedgerInv /\ [Next]_vars => LedgerInv'  BY LedgerStep
<1>3. LedgerInv /\ [Next]_vars => [\A g \in ledger \ ledger' : Reclaimed(g)]_vars
  <2> SUFFICES ASSUME LedgerInv, Next, NEW g \in ledger \ ledger' PROVE Reclaimed(g)
    OBVIOUS
  <2>1. WriteStatus
    BY DEF Next, Pass, Environment, crVars, workVars, passVars, EditSpec, Tick, Sync, Finalize,
      Squat, StartPods, DrainPods, SetPods, ReportReplicas, StartPass,
      ApplyResource, ApplyFails, ApplyRolePDBs, ClearTeardownProgress, CleanupOrphanedRolePDBs,
      DiscoverOrphans, DiscoverFails, CheckOrMarkGrayDelete, CheckOwned, CheckStatefulSet,
      ScaleToZero, StampDrain, history, CheckExtras, Delete, ConfirmDeleted, ConfirmReclaimed, TeardownFails, ReportOrphans,
      WriteFails, RateLimited, Crash
  <2> QED BY <2>1 DEF WriteStatus, LedgerInv, PrunedGone
<1> QED BY <1>1, <1>2, <1>3, PTL DEF Spec, LedgerKept

-----------------------------------------------------------------------------
(***************************************************************************)
(* The order of the teardown.  Its steps look at the cache and the order is *)
(* about the API server, so the argument needs that the cache hides nothing:*)
(* as long as it shows what the apply phase wrote, whatever the cluster owns*)
(* is owned in the cache too, because the cache may then lag a removal but  *)
(* never a creation.                                                       *)
(***************************************************************************)
CacheCovers == \A k \in Keys : isOwnedByCluster(api[k]) => isOwnedByCluster(cache[k])

StepsGone == pc \in {"check", "delete", "gone"} => StepsDone(step - 1)

OrderInv == LedgerInv /\ CacheCovers /\ StepsGone

LEMMA CoverStep ==
  ASSUME TypeOK, CacheCovers, [Next]_vars, Faults \cap {"applyLag", "svcLag"} = {} PROVE CacheCovers'
<1> USE DEF crVars, workVars, passVars
<1>api. api \in [Keys -> Objects] /\ cache \in [Keys -> Objects]  BY DEF TypeOK
<1>1. ASSUME Mirror("lag"), NothingNewOwned PROVE CacheCovers'
  BY <1>1 DEF Mirror, NothingNewOwned, CacheCovers
<1>2. ASSUME Mirror("applyLag") \/ Mirror("svcLag") PROVE CacheCovers'
  BY <1>2 DEF Mirror, CacheCovers
<1>3. ASSUME UNCHANGED <<api, cache>> PROVE CacheCovers'
  BY <1>3 DEF CacheCovers
<1>4. ASSUME NEW k \in Keys, Sync(k) PROVE CacheCovers'
  BY <1>4, <1>api DEF Sync, CacheCovers
<1>5. CASE Tick
  BY <1>5, <1>api, SameOwner DEF Tick, CacheCovers
<1>6. CASE ApplyResource \/ ApplyRolePDBs
  BY <1>6, <1>2 DEF CreationLag, ApplyResource, ApplyRolePDBs
<1>7. NothingNewOwned \/ ApplyResource \/ ApplyRolePDBs  BY OwnershipStep
<1>8. CASE \/ \E k \in Keys : Finalize(k) \/ Squat(k)
           \/ \E g \in Groups : StartPods(g) \/ DrainPods(g) \/ ReportReplicas(g)
           \/ ClearTeardownProgress \/ CleanupOrphanedRolePDBs \/ CheckOrMarkGrayDelete \/ Delete
  <2>1. Mirror("lag")
    BY <1>8 DEF Finalize, Squat, StartPods, DrainPods, SetPods, ReportReplicas,
      ClearTeardownProgress, CleanupOrphanedRolePDBs, CheckOrMarkGrayDelete, Delete
  <2> QED BY <2>1, <1>1, <1>6, <1>7
<1>9. CASE ScaleToZero \/ StampDrain \/ CheckExtras
  <2>1. Mirror("lag") \/ UNCHANGED <<api, cache>>  BY <1>9 DEF ScaleToZero, StampDrain, CheckExtras
  <2> QED BY <2>1, <1>1, <1>3, <1>6, <1>7
<1>10. CASE \/ EditSpec
            \/ StartPass \/ ApplyFails \/ DiscoverOrphans \/ DiscoverFails \/ CheckOwned
            \/ CheckStatefulSet \/ ConfirmDeleted \/ ConfirmReclaimed \/ TeardownFails \/ ReportOrphans
            \/ WriteStatus \/ WriteFails \/ RateLimited \/ Crash \/ UNCHANGED vars
  <2>1. UNCHANGED <<api, cache>>
    BY <1>10 DEF EditSpec, StartPass, ApplyFails, DiscoverOrphans,
         DiscoverFails, CheckOwned, CheckStatefulSet, ConfirmDeleted, ConfirmReclaimed, TeardownFails,
         ReportOrphans, WriteStatus, WriteFails, RateLimited, Crash, vars
  <2> QED BY <2>1, <1>3
<1> QED BY <1>4, <1>5, <1>6, <1>8, <1>9, <1>10 DEF Next, Pass, Environment

LEMMA OrderStep ==
  ASSUME OrderInv, [Next]_vars, Faults \cap {"applyLag", "svcLag"} = {} PROVE OrderInv'
<1> USE DEF crVars, workVars, passVars
<1>led. LedgerInv /\ LedgerInv' /\ TypeOK  BY LedgerStep DEF OrderInv, LedgerInv
<1>cov. CacheCovers'  BY <1>led, CoverStep DEF OrderInv
<1>own. NothingNewOwned \/ ApplyResource \/ ApplyRolePDBs  BY <1>led, OwnershipStep
<1>loop. ASSUME pc \in {"check", "delete", "gone"}
         PROVE  cur \in Groups /\ step \in 1 .. LastStep /\ CurKey \in Keys
  BY <1>loop, <1>led, SlotsOfOrders, KeyInKeys DEF TypeOK, LoopStates, LastStep, CurKey, Slot
\* A fresh iteration has no earlier step.
<1>first. ASSUME pc' \in {"check", "delete", "gone"} => step' = 1 PROVE StepsGone'
  BY <1>first DEF StepsGone, StepsDone
\* What was gone stays gone.
<1>keep. ASSUME NothingNewOwned, UNCHANGED <<seen, cur>>, pc \in {"check", "delete", "gone"},
                NEW n \in 0 .. LastStep, StepsDone(n)
         PROVE  \A i \in 1 .. n : \/ LiveName(cur, TeardownOrder[i])'
                                  \/ ~isOwnedByCluster(api'[Key(cur, TeardownOrder[i])])
  <2> SUFFICES ASSUME NEW i \in 1 .. n, ~LiveName(cur, TeardownOrder[i])
               PROVE  ~isOwnedByCluster(api'[Key(cur, TeardownOrder[i])])
    BY <1>keep DEF LiveName
  <2>1. i \in 1 .. LastStep  BY <1>keep DEF LastStep
  <2>2. Key(cur, TeardownOrder[i]) \in Keys  BY <2>1, <1>keep, <1>loop, SlotsOfOrders, KeyInKeys
  <2> QED BY <1>keep, <2>2 DEF StepsDone, NothingNewOwned
<1>stay. ASSUME NothingNewOwned, UNCHANGED <<seen, cur, step>>, pc \in {"check", "delete", "gone"}
         PROVE  StepsGone'
  <2>1. step - 1 \in 0 .. LastStep /\ StepsDone(step - 1)
    BY <1>stay, <1>loop DEF OrderInv, StepsGone, LastStep
  <2>2. \A i \in 1 .. step - 1 : \/ LiveName(cur, TeardownOrder[i])'
                                \/ ~isOwnedByCluster(api'[Key(cur, TeardownOrder[i])])
    BY <1>stay, <2>1, <1>keep
  <2> QED BY <2>2, <1>stay DEF StepsGone, StepsDone
<1>settle. ASSUME NothingNewOwned, Settled, seen' = seen, pc \in {"check", "delete", "gone"},
                  LiveName(cur, Slot) \/ ~isOwnedByCluster(api[CurKey])
           PROVE  StepsGone'
  <2>1. cur' = cur /\ step \in 1 .. LastStep  BY <1>settle, <1>loop DEF Settled
  <2>2. StepsDone(step)
    <3> SUFFICES ASSUME NEW i \in 1 .. step
                 PROVE  LiveName(cur, TeardownOrder[i]) \/ ~isOwnedByCluster(api[Key(cur, TeardownOrder[i])])
      BY DEF StepsDone
    <3>1. CASE i = step  BY <1>settle, <3>1 DEF Slot, CurKey
    <3>2. CASE i # step
      <4>1. i \in 1 .. step - 1  BY <2>1, <3>2 DEF LastStep
      <4> QED BY <4>1, <1>settle DEF OrderInv, StepsGone, StepsDone
    <3> QED BY <3>1, <3>2
  <2>3. step \in 0 .. LastStep  BY <2>1 DEF LastStep
  <2>4. \A i \in 1 .. step : \/ LiveName(cur, TeardownOrder[i])'
                            \/ ~isOwnedByCluster(api'[Key(cur, TeardownOrder[i])])
    BY <1>settle, <2>1, <2>2, <2>3, <1>keep
  <2>5. pc' = "confirm" \/ (pc' = "check" /\ step' - 1 = step)
    BY <1>settle, <2>1 DEF Settled, LastStep
  <2>6. CASE pc' = "check" /\ step' - 1 = step
    BY <2>1, <2>4, <2>6 DEF StepsGone, StepsDone
  <2> QED BY <2>5, <2>6 DEF StepsGone
<1>next. ASSUME Visit(todo, TeardownStart, "report") PROVE StepsGone'
  BY <1>next, <1>first, VisitState, TeardownStartState
<1>notapp. ASSUME pc \notin {"apply", "applyRoles"} PROVE NothingNewOwned
  BY <1>notapp, <1>own DEF ApplyResource, ApplyRolePDBs
<1>1. CASE Environment \/ UNCHANGED vars
  <2>1. UNCHANGED passVars
    BY <1>1 DEF Environment, EditSpec, Tick, Sync, Finalize, Squat, StartPods, DrainPods,
                SetPods, ReportReplicas, vars
  <2>2. CASE pc \in {"check", "delete", "gone"}
    BY <2>1, <2>2, <1>notapp, <1>stay, <1>led, <1>cov DEF OrderInv
  <2>3. CASE pc \notin {"check", "delete", "gone"}
    BY <2>1, <2>3, <1>led, <1>cov DEF OrderInv, StepsGone
  <2> QED BY <2>2, <2>3
<1>2. CASE StartPass \/ ApplyResource \/ ApplyFails \/ ApplyRolePDBs \/ ClearTeardownProgress
           \/ CleanupOrphanedRolePDBs \/ DiscoverFails \/ ReportOrphans
           \/ WriteStatus \/ WriteFails \/ RateLimited \/ Crash
  <2>1. pc' \notin {"check", "delete", "gone"}
    BY <1>2, VisitState DEF StartPass, ApplyResource, ApplyFails, ApplyRolePDBs,
      ClearTeardownProgress, CleanupOrphanedRolePDBs, DiscoverFails, ReportOrphans,
      WriteStatus, WriteFails, RateLimited, Crash, EndPass
  <2> QED BY <2>1, <1>first, <1>led, <1>cov DEF OrderInv
<1>3. CASE DiscoverOrphans
  <2>1. StepsGone'  BY <1>3, <1>first, VisitState, TeardownStartState DEF DiscoverOrphans
  <2> QED BY <2>1, <1>led, <1>cov DEF OrderInv
<1>4. CASE CheckOrMarkGrayDelete
  <2>1. CASE Pending  BY <2>1, <1>next, <1>led, <1>cov DEF Pending, NextOrphan, OrderInv
  <2>2. CASE pc' = "check" /\ UNCHANGED <<todo, left, cur, step>>
    <3>1. step' = 1  BY <1>4, <2>2, <1>led DEF CheckOrMarkGrayDelete, LedgerInv, Position
    <3> QED BY <3>1, <1>first, <1>led, <1>cov DEF OrderInv
  <2> QED BY <1>4, <2>1, <2>2 DEF CheckOrMarkGrayDelete, MarkPrimaries
<1>5. CASE CheckOwned
  <2>1. pc = "check" /\ seen' = seen /\ CurKey \in Keys  BY <1>5, <1>loop DEF CheckOwned
  <2>2. CASE Settled /\ (LiveName(cur, Slot) \/ ~isOwnedByCluster(cache[CurKey]))
    <3>1. LiveName(cur, Slot) \/ ~isOwnedByCluster(api[CurKey])
      BY <2>1, <2>2 DEF OrderInv, CacheCovers
    <3> QED BY <2>1, <2>2, <3>1, <1>notapp, <1>settle, <1>led, <1>cov DEF OrderInv
  <2>3. CASE pc' = "delete" /\ UNCHANGED <<todo, left, cur, step>>
    BY <2>1, <2>3, <1>notapp, <1>stay, <1>led, <1>cov DEF OrderInv
  <2> QED BY <1>5, <2>2, <2>3 DEF CheckOwned
<1>6. CASE CheckStatefulSet
  <2>1. pc = "check" /\ seen' = seen /\ CurKey \in Keys  BY <1>6, <1>loop DEF CheckStatefulSet
  <2>2. CASE Settled /\ ~isOwnedByCluster(cache[CurKey])
    <3>1. ~isOwnedByCluster(api[CurKey])  BY <2>1, <2>2 DEF OrderInv, CacheCovers
    <3> QED BY <2>1, <2>2, <3>1, <1>notapp, <1>settle, <1>led, <1>cov DEF OrderInv
  <2>3. CASE pc' = "delete" /\ UNCHANGED <<todo, left, cur, step>>
    BY <2>1, <2>3, <1>notapp, <1>stay, <1>led, <1>cov DEF OrderInv
  <2>4. CASE Pending  BY <2>4, <1>next, <1>led, <1>cov DEF Pending, NextOrphan, OrderInv
  <2>5. CASE pc' \in {"scale", "stamp"}  BY <2>5, <1>first, <1>led, <1>cov DEF OrderInv
  <2> QED BY <1>6, <2>2, <2>3, <2>4, <2>5 DEF CheckStatefulSet
<1>down. CASE ScaleToZero \/ StampDrain
  BY <1>down, <1>next, <1>led, <1>cov
  DEF ScaleToZero, StampDrain, Pending, NextOrphan, OrderInv
<1>7. CASE CheckExtras
  <2>1. pc = "check" /\ seen' = seen  BY <1>7 DEF CheckExtras
  <2>2. CASE Settled /\ ~isOwnedByCluster(api[CurKey])
    BY <2>1, <2>2, <1>notapp, <1>settle, <1>led, <1>cov DEF OrderInv
  <2>3. CASE Pending  BY <2>3, <1>next, <1>led, <1>cov DEF Pending, NextOrphan, OrderInv
  <2> QED BY <1>7, <2>2, <2>3 DEF CheckExtras
<1>8. CASE Delete
  <2>1. pc = "delete" /\ seen' = seen  BY <1>8 DEF Delete
  <2>2. CASE Settled /\ ~Present(api[CurKey])
    <3>1. ~isOwnedByCluster(api[CurKey])  BY <2>2 DEF Present, isOwnedByCluster
    <3> QED BY <2>1, <2>2, <3>1, <1>notapp, <1>settle, <1>led, <1>cov DEF OrderInv
  <2>3. CASE pc' = "gone" /\ UNCHANGED <<todo, left, cur, step>>
    BY <2>1, <2>3, <1>notapp, <1>stay, <1>led, <1>cov DEF OrderInv
  <2> QED BY <1>8, <2>2, <2>3 DEF Delete
<1>9. CASE ConfirmDeleted
  <2>1. pc = "gone" /\ seen' = seen /\ CurKey \in Keys  BY <1>9, <1>loop DEF ConfirmDeleted
  <2>2. CASE Settled /\ ~Present(cache[CurKey])
    <3>1. ~isOwnedByCluster(cache[CurKey])  BY <2>2 DEF Present, isOwnedByCluster
    <3>2. ~isOwnedByCluster(api[CurKey])  BY <2>1, <3>1 DEF OrderInv, CacheCovers
    <3> QED BY <2>1, <2>2, <3>2, <1>notapp, <1>settle, <1>led, <1>cov DEF OrderInv
  <2>3. CASE Pending  BY <2>3, <1>next, <1>led, <1>cov DEF Pending, NextOrphan, OrderInv
  <2> QED BY <1>9, <2>2, <2>3 DEF ConfirmDeleted
<1>10. CASE ConfirmReclaimed
  <2>1. CASE Visit(todo, TeardownStart, "report")  BY <2>1, <1>next, <1>led, <1>cov DEF OrderInv
  <2>2. CASE pc' = pc
    BY <1>10, <2>2, <1>first, <1>led, <1>cov DEF ConfirmReclaimed, OrderInv
  <2> QED BY <1>10, <2>1, <2>2 DEF ConfirmReclaimed, Pending, NextOrphan
<1>11. CASE TeardownFails
  BY <1>11, <1>next, <1>led, <1>cov DEF TeardownFails, Pending, NextOrphan, OrderInv
<1> QED
  BY <1>1, <1>2, <1>3, <1>4, <1>5, <1>6, <1>7, <1>8, <1>9, <1>10, <1>11, <1>down
  DEF Next, Pass

\* When the cache shows the operator what it applied, every Delete of a
\* teardown finds the resources of the earlier steps gone from the API server,
\* under every other fault of the model.
THEOREM OrderSafe == Faults \cap {"applyLag", "svcLag"} = {} /\ Spec => OrderedTeardown
<1> SUFFICES ASSUME Faults \cap {"applyLag", "svcLag"} = {} PROVE Spec => OrderedTeardown
  OBVIOUS
<1>1. Init => OrderInv
  <2> SUFFICES ASSUME Init PROVE OrderInv  OBVIOUS
  <2>1. TypeOK  BY InitType
  <2>2. CacheCovers /\ StepsGone  BY DEF Init, CacheCovers, StepsGone
  <2> QED BY <2>1, <2>2
          DEF Init, OrderInv, LedgerInv, ExtrasGone, Confirmed, PrunedGone, Position, Applying
<1>2. OrderInv /\ [Next]_vars => OrderInv'  BY OrderStep
<1>3. OrderInv /\ [Next]_vars => [Delete => StepsDone(step - 1)]_vars
  BY DEF Delete, OrderInv, StepsGone
<1> QED BY <1>1, <1>2, <1>3, PTL DEF Spec, OrderedTeardown

-----------------------------------------------------------------------------
(***************************************************************************)
(* Objects of other controllers.  The operator judges ownership by the      *)
(* cached copy, so it needs that a name another controller holds is seen as *)
(* held in the cache too.  That is so unless an object can turn up under a  *)
(* name while the cache still shows the cluster's own.                      *)
(***************************************************************************)
Pinned == \A k \in Keys : /\ api[k].st = "foreign" => api[k] = Foreign /\ cache[k] = Foreign
                          /\ cache[k].st = "foreign" => api[k].st = "foreign"

Targeted == /\ pc \in {"scale", "stamp", "delete"} => api[CurKey].st # "foreign"
            /\ pc \in {"scale", "stamp"} => Slot = "sts"

ForeignInv == TypeOK /\ Pinned /\ Targeted

ForeignSame == \A k \in Keys : /\ api[k].st = "foreign" => api'[k] = api[k]
                               /\ api'[k].st = "foreign" => api[k].st = "foreign"

\* Replacing objects of no other controller by such objects.
LEMMA ForeignOne ==
  ASSUME api \in [Keys -> Objects], NEW k \in Keys, NEW o,
         api' = [api EXCEPT ![k] = o],
         o = api[k] \/ (o.st # "foreign" /\ api[k].st # "foreign")
  PROVE  ForeignSame
BY DEF ForeignSame

LEMMA ForeignPrimaries ==
  ASSUME api \in [Keys -> Objects], NEW g \in Groups, NEW o1, NEW o2,
         api' = [api EXCEPT ![<<g, "sts">>] = o1, ![<<g, "cm">>] = o2],
         o1 = api[<<g, "sts">>] \/ (o1.st # "foreign" /\ api[<<g, "sts">>].st # "foreign"),
         o2 = api[<<g, "cm">>] \/ (o2.st # "foreign" /\ api[<<g, "cm">>].st # "foreign")
  PROVE  ForeignSame
BY PrimaryInKeys DEF ForeignSame

\* The changes the steps make to an object keep its state.
LEMMA SameState ==
  ASSUME NEW o \in Objects
  PROVE  /\ Aged(o).st = o.st /\ Unmarked(o).st = o.st
         /\ \A t : [o EXCEPT !.mark = t].st = o.st
         /\ \A t : [o EXCEPT !.drain = t].st = o.st
         /\ \A n : [o EXCEPT !.replicas = n].st = o.st
         /\ \A n : [o EXCEPT !.reported = n].st = o.st
BY DEF Aged, Unmarked, Objects

LEMMA Timeless ==
  /\ Aged(Foreign) = Foreign /\ Foreign.st = "foreign" /\ Absent.st = "absent"
  /\ \A slot : Desired(slot).st = "owned"
BY DEF Aged, Older, Foreign, Absent, Desired

\* The name of a StatefulSet is the group's own.
LEMMA StatefulSetKey == ASSUME Slot = "sts" PROVE CurKey = <<cur, "sts">>
BY AliasAssumption DEF CurKey, Key, Derived

LEMMA ForeignStep ==
  ASSUME ForeignInv, [Next]_vars, Faults \cap {"squat", "idleSquat"} = {} PROVE ForeignSame
<1>api. api \in [Keys -> Objects] /\ cache \in [Keys -> Objects]  BY DEF ForeignInv, TypeOK
<1>pin. \A k \in Keys : isOwnedByCluster(cache[k]) => api[k].st # "foreign"
  BY Timeless DEF ForeignInv, Pinned, isOwnedByCluster
<1>same. ASSUME api' = api PROVE ForeignSame  BY <1>same DEF ForeignSame
<1>1. CASE Tick
  BY <1>1, <1>api, SameState, Timeless DEF Tick, ForeignSame, ForeignInv, Pinned
<1>2. ASSUME NEW k \in Keys, Finalize(k) PROVE ForeignSame
  BY <1>2, <1>api, Timeless, ForeignOne DEF Finalize
<1>3. ASSUME NEW g \in Groups, StartPods(g) \/ DrainPods(g) \/ ReportReplicas(g)
      PROVE  ForeignSame
  <2>1. <<g, "sts">> \in Keys  BY PrimaryInKeys
  <2>2. isOwnedByCluster(api[<<g, "sts">>])
    BY <1>3 DEF StartPods, DrainPods, SetPods, ReportReplicas
  <2>3. \/ api' = api
        \/ \E n : api' = [api EXCEPT ![<<g, "sts">>] = [api[<<g, "sts">>] EXCEPT !.reported = n]]
    BY <1>3, Zenon DEF StartPods, DrainPods, SetPods, ReportReplicas
  <2>4. ASSUME NEW n, api' = [api EXCEPT ![<<g, "sts">>] = [api[<<g, "sts">>] EXCEPT !.reported = n]]
        PROVE  ForeignSame
    BY <2>1, <2>2, <2>4, <1>api, SameState, ForeignOne DEF isOwnedByCluster
  <2> QED BY <2>3, <2>4, <1>same, Zenon
<1>4. CASE ApplyResource
  <2>1. cur \in Groups /\ step \in 1 .. LastStep
    BY <1>4 DEF ApplyResource, ForeignInv, TypeOK, LoopStates, LastStep
  <2> DEFINE slot == ApplyOrder[step]
             k == Key(cur, slot)
  <2>2. k \in Keys  BY <2>1, SlotsOfOrders, KeyInKeys
  <2>3. Applies(slot, k) /\ api' = [api EXCEPT ![k] = Applied(slot, k)]
    BY <1>4, Zenon DEF ApplyResource
  <2> HIDE DEF slot, k
  <2>4. \/ Applied(slot, k) = api[k]
        \/ ~Present(api[k]) /\ Applied(slot, k) = Desired(slot)
        \/ isOwnedByCluster(cache[k]) /\ Applied(slot, k).st = api[k].st
    BY <2>2, <2>3, <1>api, SameState DEF Applies, Applied, Present, isOwnedByCluster, Fresh
  <2>5. Applied(slot, k) = api[k] \/ (Applied(slot, k).st # "foreign" /\ api[k].st # "foreign")
    BY <2>2, <2>4, <1>pin, Timeless DEF Present
  <2> QED BY <2>2, <2>3, <2>5, <1>api, ForeignOne
<1>5. CASE ApplyRolePDBs
  <2>1. PICK made : /\ \A r \in made : ~Present(api[<<r, "rolePdb">>])
                    /\ api' = [k \in Keys |-> IF k[2] = "rolePdb" /\ k[1] \in made
                                              THEN Desired("rolePdb") ELSE api[k]]
    BY <1>5 DEF ApplyRolePDBs
  <2>2. \A k \in Keys : k = <<k[1], k[2]>>  BY DEF Keys
  <2> QED BY <2>1, <2>2, Timeless DEF ForeignSame, Present
<1>6. CASE CleanupOrphanedRolePDBs
  <2>1. PICK gone : /\ \A r \in gone : r \in Roles /\ isOwnedByCluster(cache[<<r, "rolePdb">>])
                    /\ api' = [k \in Keys |-> IF k[2] = "rolePdb" /\ k[1] \in gone
                                              THEN Absent ELSE api[k]]
    BY <1>6 DEF CleanupOrphanedRolePDBs
  <2>2. \A k \in Keys : k = <<k[1], k[2]>>  BY DEF Keys
  <2> QED BY <2>1, <2>2, <1>pin, Timeless DEF ForeignSame
<1>7. CASE ClearTeardownProgress
  <2> DEFINE O(p, w) == IF p \in w THEN Unmarked(api[<<cur, p>>]) ELSE api[<<cur, p>>]
  <2>1. cur \in Groups  BY <1>7 DEF ClearTeardownProgress, ForeignInv, TypeOK, LoopStates
  <2>2. PICK w : /\ \A p \in w : isOwnedByCluster(cache[<<cur, p>>])
                 /\ api' = [api EXCEPT ![<<cur, "sts">>] = O("sts", w), ![<<cur, "cm">>] = O("cm", w)]
    BY <1>7, Zenon DEF ClearTeardownProgress
  <2>3. \A p \in Primaries : \/ O(p, w) = api[<<cur, p>>]
                             \/ O(p, w).st # "foreign" /\ api[<<cur, p>>].st # "foreign"
    BY <2>1, <2>2, <1>api, <1>pin, SameState, PrimaryInKeys DEF Primaries
  <2> HIDE DEF O
  <2> QED BY <2>1, <2>2, <2>3, <1>api, ForeignPrimaries DEF Primaries
<1>8. CASE CheckOrMarkGrayDelete
  <2> DEFINE O(p, w) == IF p \in w THEN [api[<<cur, p>>] EXCEPT !.mark = GrayMark] ELSE api[<<cur, p>>]
  <2>1. cur \in Groups  BY <1>8 DEF CheckOrMarkGrayDelete, ForeignInv, TypeOK, LoopStates
  <2>2. ASSUME NEW w, w \subseteq Primaries, ~NoGrace, MarkPrimaries(w) PROVE ForeignSame
    <3>1. /\ api' = [api EXCEPT ![<<cur, "sts">>] = O("sts", w), ![<<cur, "cm">>] = O("cm", w)]
          /\ w \subseteq GrayPrimaries
      BY <2>2, Zenon DEF MarkPrimaries
    <3>2. \A p \in w : cache[<<cur, p>>].st # "foreign"
      BY <2>2, <3>1 DEF NoGrace
    <3>3. \A p \in w : api[<<cur, p>>].st # "foreign"
      BY <2>1, <2>2, <3>2, PrimaryInKeys, Timeless DEF ForeignInv, Pinned, Primaries
    <3>4. \A p \in Primaries : \/ O(p, w) = api[<<cur, p>>]
                               \/ O(p, w).st # "foreign" /\ api[<<cur, p>>].st # "foreign"
      BY <2>1, <3>3, <1>api, SameState, PrimaryInKeys DEF Primaries
    <3> HIDE DEF O
    <3> QED BY <2>1, <3>1, <3>4, <1>api, ForeignPrimaries DEF Primaries
  <2> QED BY <1>8, <2>2, <1>same DEF CheckOrMarkGrayDelete
<1>9. ASSUME pc \in {"check", "delete"} PROVE CurKey \in Keys
  BY <1>9, SlotsOfOrders, KeyInKeys DEF ForeignInv, TypeOK, LoopStates, LastStep, Slot, CurKey
<1>10. CASE ScaleToZero \/ StampDrain
  <2> DEFINE k == <<cur, "sts">>
  <2>1. k \in Keys  BY <1>10, PrimaryInKeys DEF ScaleToZero, StampDrain, ForeignInv, TypeOK, LoopStates
  <2>2. api[k].st # "foreign"
    BY <1>10, StatefulSetKey DEF ScaleToZero, StampDrain, ForeignInv, Targeted
  <2>3. \/ api' = api
        \/ api' = [api EXCEPT ![k] = [api[k] EXCEPT !.replicas = 0]]
        \/ api' = [api EXCEPT ![k] = [api[k] EXCEPT !.drain = 0]]
    BY <1>10 DEF ScaleToZero, StampDrain
  <2>4. /\ [api[k] EXCEPT !.replicas = 0].st # "foreign"
        /\ [api[k] EXCEPT !.drain = 0].st # "foreign"
    BY <2>1, <2>2, <1>api, SameState
  <2> HIDE DEF k
  <2> QED BY <2>1, <2>2, <2>3, <2>4, <1>api, <1>same, ForeignOne
<1>11. CASE CheckExtras \/ Delete
  <2>1. CurKey \in Keys  BY <1>11, <1>9 DEF CheckExtras, Delete
  <2>2. \/ api' = api
        \/ api[CurKey].st # "foreign" /\ \E o \in DeletedForms(CurKey) : api' = [api EXCEPT ![CurKey] = o]
    BY <1>11 DEF CheckExtras, Delete, isOwnedByCluster, ForeignInv, Targeted
  <2>3. api[CurKey].st # "foreign" => \A o \in DeletedForms(CurKey) : o.st # "foreign"
    BY <2>1, <1>api, Timeless DEF DeletedForms, Objects
  <2> QED BY <2>1, <2>2, <2>3, <1>api, <1>same, ForeignOne
<1>12. CASE \/ EditSpec \/ \E k \in Keys : Sync(k) \/ Squat(k)
           
            \/ StartPass \/ ApplyFails \/ DiscoverOrphans \/ DiscoverFails \/ CheckOwned
            \/ CheckStatefulSet \/ ConfirmDeleted \/ ConfirmReclaimed \/ TeardownFails \/ ReportOrphans
            \/ WriteStatus \/ WriteFails \/ RateLimited \/ Crash \/ UNCHANGED vars
  <2>1. api' = api
    BY <1>12 DEF EditSpec, Sync, Squat, CanFail, StartPass, ApplyFails, DiscoverOrphans,
         DiscoverFails, CheckOwned, CheckStatefulSet, ConfirmDeleted, ConfirmReclaimed, TeardownFails,
         ReportOrphans, WriteStatus, WriteFails, RateLimited, Crash, vars
  <2> QED BY <2>1, <1>same
<1> QED
  BY <1>1, <1>2, <1>3, <1>4, <1>5, <1>6, <1>7, <1>8, <1>10, <1>11, <1>12 DEF Next, Pass, Environment

LEMMA ForeignInvStep ==
  ASSUME ForeignInv, [Next]_vars, Faults \cap {"squat", "idleSquat"} = {} PROVE ForeignInv'
<1> USE DEF crVars, workVars, passVars
<1>typ. TypeOK /\ TypeOK'  BY TypeStep DEF ForeignInv
<1>same. ForeignSame  BY ForeignStep
<1>pin. Pinned'
  <2>1. ASSUME NEW f, Mirror(f) PROVE Pinned'
    BY <2>1, <1>same, Timeless DEF Mirror, ForeignSame, ForeignInv, Pinned
  <2>2. ASSUME cache' = cache PROVE Pinned'
    BY <2>2, <1>same DEF ForeignSame, ForeignInv, Pinned
  <2>3. ASSUME NEW k \in Keys, Sync(k) PROVE Pinned'
    BY <2>3, <1>typ, <1>same, Timeless DEF Sync, ForeignSame, ForeignInv, Pinned, TypeOK
  <2>4. CASE Tick
    BY <2>4, <1>typ, <1>same, SameState, Timeless DEF Tick, ForeignSame, ForeignInv, Pinned, TypeOK
  <2>5. CASE \/ \E k \in Keys : Finalize(k) \/ Squat(k)
             \/ \E g \in Groups : StartPods(g) \/ DrainPods(g) \/ ReportReplicas(g)
             \/ ApplyResource \/ ApplyRolePDBs \/ ClearTeardownProgress \/ CleanupOrphanedRolePDBs
             \/ CheckOrMarkGrayDelete \/ Delete \/ ScaleToZero \/ StampDrain \/ CheckExtras
    <3>1. Mirror("lag") \/ Mirror("applyLag") \/ Mirror("svcLag") \/ cache' = cache
      BY <2>5 DEF CreationLag, Finalize, Squat, StartPods, DrainPods, SetPods, ReportReplicas, ApplyResource,
        ApplyRolePDBs, ClearTeardownProgress, CleanupOrphanedRolePDBs, CheckOrMarkGrayDelete,
        Delete, ScaleToZero, StampDrain, CheckExtras
    <3> QED BY <3>1, <2>1, <2>2
  <2>6. CASE \/ EditSpec
             \/ StartPass \/ ApplyFails \/ DiscoverOrphans \/ DiscoverFails \/ CheckOwned
             \/ CheckStatefulSet \/ ConfirmDeleted \/ ConfirmReclaimed \/ TeardownFails \/ ReportOrphans
             \/ WriteStatus \/ WriteFails \/ RateLimited \/ Crash \/ UNCHANGED vars
    <3>1. cache' = cache
      BY <2>6 DEF EditSpec, StartPass, ApplyFails, DiscoverOrphans,
           DiscoverFails, CheckOwned, CheckStatefulSet, ConfirmDeleted, ConfirmReclaimed, TeardownFails,
           ReportOrphans, WriteStatus, WriteFails, RateLimited, Crash, vars
    <3> QED BY <3>1, <2>2
  <2> QED BY <2>3, <2>4, <2>5, <2>6 DEF Next, Pass, Environment
\* The pass turns to a Delete only for an object it sees as the cluster's.
<1>tgt. Targeted'
  <2> SUFFICES ASSUME pc' \in {"scale", "stamp", "delete"}
               PROVE  /\ (api[CurKey].st # "foreign")'
                      /\ pc' \in {"scale", "stamp"} => (Slot = "sts")'
    BY DEF Targeted
  <2>1. \/ Environment \/ UNCHANGED vars
        \/ CheckOwned \/ CheckStatefulSet
    BY VisitState, TeardownStartState
    DEF Next, Pass, StartPass, ApplyResource, ApplyFails, ApplyRolePDBs, ClearTeardownProgress,
        CleanupOrphanedRolePDBs, DiscoverOrphans, DiscoverFails, CheckOrMarkGrayDelete,
        MarkPrimaries, ScaleToZero, StampDrain, CheckExtras, Delete, ConfirmDeleted,
        ConfirmReclaimed, TeardownFails, ReportOrphans, WriteStatus, WriteFails, RateLimited,
        Crash, EndPass, Pending, NextOrphan, Settled
  <2>2. CurKey' \in Keys
    <3>1. cur' \in Groups /\ step' \in 1 .. LastStep
      BY <1>typ DEF TypeOK, LoopStates, LastStep
    <3> QED BY <3>1, SlotsOfOrders, KeyInKeys DEF CurKey, Slot
  <2>3. CASE Environment \/ UNCHANGED vars
    <3>1. UNCHANGED passVars
      BY <2>3 DEF Environment, EditSpec, Tick, Sync, Finalize, Squat, StartPods, DrainPods,
                  SetPods, ReportReplicas, vars
    <3>2. CurKey' = CurKey /\ Slot' = Slot  BY <3>1 DEF CurKey, Slot
    <3> QED BY <2>2, <3>1, <3>2, <1>same DEF ForeignSame, ForeignInv, Targeted
  <2>4. CASE CheckOwned \/ CheckStatefulSet
    <3>0. ~Settled /\ ~Pending
      BY VisitState, TeardownStartState DEF Settled, Pending, NextOrphan
    <3>1. isOwnedByCluster(cache[CurKey]) /\ UNCHANGED <<api, cur, step>>
      BY <2>4, <3>0 DEF CheckOwned, CheckStatefulSet
    <3>2. CurKey' = CurKey /\ Slot' = Slot  BY <3>1 DEF CurKey, Slot
    <3>3. pc' \in {"scale", "stamp"} => Slot = "sts"
      BY <2>4, <3>0 DEF CheckOwned, CheckStatefulSet
    <3> QED BY <2>2, <3>1, <3>2, <3>3, Timeless DEF ForeignInv, Pinned, isOwnedByCluster
  <2> QED BY <2>1, <2>3, <2>4
<1> QED BY <1>typ, <1>pin, <1>tgt DEF ForeignInv

\* Unless another controller takes a name the cache still shows as the
\* cluster's, no step of the operator touches an object it does not own.
THEOREM ForeignSafe == Faults \cap {"squat", "idleSquat"} = {} /\ Spec => ForeignKept
<1> SUFFICES ASSUME Faults \cap {"squat", "idleSquat"} = {} PROVE Spec => ForeignKept
  OBVIOUS
<1>1. Init => ForeignInv
  BY InitType, Timeless DEF Init, ForeignInv, Pinned, Targeted
<1>2. ForeignInv /\ [Next]_vars => ForeignInv'  BY ForeignInvStep
<1>3. ForeignInv /\ [Next]_vars => [\A k \in Keys : api[k].st = "foreign" => api'[k] = api[k]]_vars
  BY ForeignStep DEF ForeignSame
<1> QED BY <1>1, <1>2, <1>3, PTL DEF Spec, ForeignKept
=============================================================================
