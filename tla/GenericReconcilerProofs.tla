----------------------- MODULE GenericReconcilerProofs -----------------------
(***************************************************************************)
(* Proofs about GenericReconciler, for any roles, gates, hooks and bounds: *)
(* the types, and that the conditions of the CR can be trusted.  Each      *)
(* theorem names the settings it needs; without them TLC has a             *)
(* counterexample (README, "Where the properties stop holding").           *)
(***************************************************************************)
EXTENDS GenericReconciler, TLAPS

Values == {"none", "True", "False", "Unknown"}

-----------------------------------------------------------------------------
(* The status helpers.                                                      *)

\* t is the status s but for conditions other than ReconcileComplete and the
\* reason of Degraded.
Kept(s, t) ==
  /\ t \in Statuses /\ t.observed = s.observed /\ t.ledger = s.ledger
  /\ t.cond["ReconcileComplete"] = s.cond["ReconcileComplete"]

LEMMA NoStatusType == NoStatus \in Statuses /\ ~NoStatus.flipped
BY BoundsAssumption DEF NoStatus, Statuses, Reasons

LEMMA SetConditionFacts ==
  ASSUME NEW st \in Statuses, NEW c \in Conditions, NEW v \in Values
  PROVE  /\ SetCondition(st, c, v) \in Statuses
         /\ SetCondition(st, c, v).observed = st.observed
         /\ SetCondition(st, c, v).ledger = st.ledger
         /\ SetCondition(st, c, v).why = st.why
         /\ SetCondition(st, c, v).cond[c] = v
         /\ \A d \in Conditions \ {c} : SetCondition(st, c, v).cond[d] = st.cond[d]
<1> DEFINE cond == [st.cond EXCEPT ![c] = v]
           flip == st.flipped \/ st.cond[c] \notin {"none", v}
<1>1. cond \in [Conditions -> Values] /\ flip \in BOOLEAN
  BY DEF Statuses, Values
<1>2. SetCondition(st, c, v) = [st EXCEPT !.cond = cond, !.flipped = flip]
  BY DEF SetCondition
<1>3. cond[c] = v /\ \A d \in Conditions \ {c} : cond[d] = st.cond[d]
  BY DEF Statuses
<1> HIDE DEF cond, flip
<1> QED BY <1>1, <1>2, <1>3 DEF Statuses, Values

LEMMA OtherConditionKept ==
  ASSUME NEW st \in Statuses, NEW c \in Conditions \ {"ReconcileComplete"}, NEW v \in Values
  PROVE  Kept(st, SetCondition(st, c, v)) /\ SetCondition(st, c, v).why = st.why
<1>1. c \in Conditions /\ "ReconcileComplete" \in Conditions \ {c}  BY DEF Conditions
<1> DEFINE t == SetCondition(st, c, v)
<1>2. /\ t \in Statuses /\ t.observed = st.observed /\ t.ledger = st.ledger /\ t.why = st.why
      /\ t.cond["ReconcileComplete"] = st.cond["ReconcileComplete"]
  BY <1>1, SetConditionFacts
<1> HIDE DEF t
<1> QED BY <1>2 DEF Kept, t

\* SetBool is SetCondition with one of two values.
LEMMA SetBoolIs ==
  ASSUME NEW st, NEW c, NEW b
  PROVE  \E v \in Values : SetBool(st, c, b) = SetCondition(st, c, v)
<1>1. CASE b
  BY <1>1 DEF SetBool, Values
<1>2. CASE ~b
  BY <1>2 DEF SetBool, Values
<1> QED BY <1>1, <1>2

LEMMA ReasonKept ==
  ASSUME NEW st \in Statuses, NEW why \in Reasons
  PROVE  Kept(st, [st EXCEPT !.why = why]) /\ [st EXCEPT !.why = why].why = why
BY DEF Kept, Statuses

LEMMA KeptTransitive ==
  ASSUME NEW s, NEW t, NEW u, Kept(s, t), Kept(t, u)
  PROVE  Kept(s, u)
BY DEF Kept

LEMMA CheckStoppedKept ==
  ASSUME NEW st \in Statuses
  PROVE  Kept(st, CheckStopped(st)) /\ CheckStopped(st).why = "Stopped"
<1> DEFINE s1 == SetCondition(st, "Available", "False")
           s2 == SetCondition(s1, "Degraded", "False")
           s3 == [s2 EXCEPT !.why = "Stopped"]
           s4 == SetCondition(s3, "Progressing", "False")
           s5 == SetCondition(s4, "Paused", "False")
           s6 == SetCondition(s5, "ServiceHealthy", "False")
<1>0. /\ {"Available", "Progressing", "Paused", "Degraded", "ServiceHealthy"}
         \subseteq Conditions \ {"ReconcileComplete"}
      /\ "False" \in Values
  BY DEF Conditions, Values
<1>6. CheckStopped(st) = IF Probe THEN s6 ELSE s5
  BY DEF CheckStopped, SetBool, SetDegraded, SetPaused, SetProbe
<1>1. Kept(st, s1)  BY <1>0, OtherConditionKept
<1> HIDE DEF s1
<1>2. Kept(s1, s2)  BY <1>0, <1>1, OtherConditionKept DEF Kept
<1> HIDE DEF s2
<1>3. Kept(s2, s3) /\ s3.why = "Stopped"  BY <1>2, ReasonKept DEF Kept, Reasons
<1> HIDE DEF s3
<1>4. Kept(s3, s4) /\ s4.why = s3.why  BY <1>0, <1>3, OtherConditionKept DEF Kept
<1> HIDE DEF s4
<1>5. Kept(s4, s5) /\ s5.why = s4.why  BY <1>0, <1>4, OtherConditionKept DEF Kept
<1> HIDE DEF s5
<1>7. Kept(s5, s6) /\ s6.why = s5.why  BY <1>0, <1>5, OtherConditionKept DEF Kept
<1> HIDE DEF s6
<1>8. Kept(st, s5)  BY <1>1, <1>2, <1>3, <1>4, <1>5, KeptTransitive
<1>9. Kept(st, s6)  BY <1>7, <1>8, KeptTransitive
<1> QED BY <1>3, <1>4, <1>5, <1>6, <1>7, <1>8, <1>9

\* The reason WorkloadUnreadable is given only for a role the ledger knows and
\* the cache does not.
LEMMA CheckRunningKept ==
  ASSUME NEW st \in Statuses, NEW paused
  PROVE  /\ Kept(st, CheckRunning(st, paused))
         /\ CheckRunning(st, paused).why = "WorkloadUnreadable" => Unreadable(st) # {}
<1> DEFINE s1 == SetBool(st, "Available", Roles # {} /\ \A r \in Roles : stsSeen[r].phase \in {"ready", "surging"})
           s2 == SetBool(s1, "Progressing", \E r \in Roles : stsSeen[r].phase \in {"rolling", "surging"})
           pv == IF paused THEN "Unknown" ELSE IF world.probe THEN "True" ELSE "False"
           s3 == SetProbe(s2, pv)
           s4 == SetPaused(s3, paused)
           why == IF paused THEN "Paused" ELSE Verdict(st, paused)
           s5 == IF paused THEN SetBool(s4, "Degraded", FALSE)
                           ELSE SetBool(s4, "Degraded", Verdict(st, paused) # "Available")
           s6 == [s5 EXCEPT !.why = why]
<1>0. {"Available", "Progressing", "Paused", "Degraded", "ServiceHealthy"}
        \subseteq Conditions \ {"ReconcileComplete"}
  BY DEF Conditions
<1>5. why \in Reasons /\ (why = "WorkloadUnreadable" => Unreadable(st) # {})
  BY DEF Verdict, Reasons
<1>7. CheckRunning(st, paused) = s6
  BY DEF CheckRunning, SetDegraded
<1>1. PICK v1 \in Values : s1 = SetCondition(st, "Available", v1)  BY SetBoolIs
<1> HIDE DEF s1
<1>2. PICK v2 \in Values : s2 = SetCondition(s1, "Progressing", v2)  BY SetBoolIs
<1> HIDE DEF s2
<1>3. pv \in Values  BY DEF Values
<1>4. s3 = IF Probe THEN SetCondition(s2, "ServiceHealthy", pv) ELSE s2  BY DEF SetProbe
<1> HIDE DEF s3, pv
<1>6. PICK v4 \in Values : s4 = SetCondition(s3, "Paused", v4)  BY SetBoolIs DEF SetPaused
<1> HIDE DEF s4
<1>8. PICK v5 \in Values : s5 = SetCondition(s4, "Degraded", v5)
  <2>1. \E v \in Values : SetBool(s4, "Degraded", FALSE) = SetCondition(s4, "Degraded", v)
    BY SetBoolIs
  <2>2. \E v \in Values : SetBool(s4, "Degraded", Verdict(st, paused) # "Available")
                            = SetCondition(s4, "Degraded", v)
    BY SetBoolIs
  <2> QED BY <2>1, <2>2
<1> HIDE DEF s5, why
<1>11. Kept(st, s1)  BY <1>0, <1>1, OtherConditionKept
<1>12. Kept(s1, s2)
  <2>1. s1 \in Statuses  BY <1>11 DEF Kept
  <2> QED BY <1>0, <1>2, <2>1, OtherConditionKept
<1>13. Kept(s2, s3)
  <2>1. s2 \in Statuses /\ Kept(s2, s2)  BY <1>12 DEF Kept
  <2>2. Kept(s2, SetCondition(s2, "ServiceHealthy", pv))  BY <1>0, <1>3, <2>1, OtherConditionKept
  <2> QED BY <1>4, <2>1, <2>2
<1>14. Kept(s3, s4)
  <2>1. s3 \in Statuses  BY <1>13 DEF Kept
  <2> QED BY <1>0, <1>6, <2>1, OtherConditionKept
<1>15. Kept(s4, s5)
  <2>1. s4 \in Statuses  BY <1>14 DEF Kept
  <2> QED BY <1>0, <1>8, <2>1, OtherConditionKept
<1>16. Kept(s5, s6) /\ s6.why = why  BY <1>5, <1>15, ReasonKept DEF Kept
<1> HIDE DEF s6
<1>17. Kept(st, s6)  BY <1>11, <1>12, <1>13, <1>14, <1>15, <1>16, KeptTransitive
<1> QED BY <1>5, <1>7, <1>16, <1>17

\* HealthManager.Check leaves the ledger, the observed generation and
\* ReconcileComplete alone.
LEMMA CheckKept ==
  ASSUME NEW st \in Statuses, NEW op
  PROVE  /\ Kept(st, Check(st, op))
         /\ Check(st, op).why = "WorkloadUnreadable" => Unreadable(st) # {}
<1>1. CASE op = "stopped"
  BY <1>1, CheckStoppedKept DEF Check
<1>2. CASE op # "stopped"
  <2> DEFINE p == (op = "paused")
  <2>1. Check(st, op) = CheckRunning(st, p)  BY <1>2 DEF Check
  <2> HIDE DEF p
  <2> QED BY <2>1, CheckRunningKept
<1> QED BY <1>1, <1>2

LEMMA FailedFacts ==
  ASSUME NEW st \in Statuses
  PROVE  /\ Failed(st) \in Statuses /\ Failed(st).observed = st.observed
         /\ Failed(st).ledger = st.ledger /\ Failed(st).why = "ReconcileError"
         /\ Failed(st).cond["ReconcileComplete"] = "False"
<1> DEFINE s == SetCondition(st, "Degraded", "True")
           t == [s EXCEPT !.why = "ReconcileError"]
<1>0. /\ "Degraded" \in Conditions \ {"ReconcileComplete"} /\ "ReconcileComplete" \in Conditions
      /\ {"True", "False"} \subseteq Values
  BY DEF Conditions, Values
<1>3. Failed(st) = SetCondition(t, "ReconcileComplete", "False")  BY DEF Failed, SetDegraded, SetBool
<1>1. Kept(st, s)  BY <1>0, OtherConditionKept
<1> HIDE DEF s
<1>2. Kept(s, t) /\ t.why = "ReconcileError"  BY <1>1, ReasonKept DEF Kept, Reasons
<1> HIDE DEF t
<1>4. /\ t \in Statuses /\ t.observed = st.observed /\ t.ledger = st.ledger
      /\ t.why = "ReconcileError"
  BY <1>1, <1>2 DEF Kept
<1>5. LET u == SetCondition(t, "ReconcileComplete", "False")
      IN /\ u \in Statuses /\ u.observed = t.observed /\ u.ledger = t.ledger
         /\ u.why = t.why /\ u.cond["ReconcileComplete"] = "False"
  BY <1>0, <1>4, SetConditionFacts
<1> QED BY <1>3, <1>4, <1>5

\* What Settle writes.
Settled(st) ==
  IF waiting THEN SetBool(SetBool(st, "Waiting", TRUE), "ReconcileComplete", FALSE)
             ELSE SetBool(ClearWaiting(st), "ReconcileComplete", TRUE)

LEMMA SettledFacts ==
  ASSUME NEW st \in Statuses
  PROVE  /\ Settled(st) \in Statuses /\ Settled(st).observed = st.observed
         /\ Settled(st).ledger = st.ledger /\ Settled(st).why = st.why
         /\ Settled(st).cond["ReconcileComplete"] = IF waiting THEN "False" ELSE "True"
<1>0. /\ "Waiting" \in Conditions \ {"ReconcileComplete"} /\ "ReconcileComplete" \in Conditions
      /\ {"True", "False"} \subseteq Values
  BY DEF Conditions, Values
<1> DEFINE v == IF waiting THEN "True" ELSE "False"
           s == IF ~waiting /\ st.cond["Waiting"] = "none" THEN st ELSE SetCondition(st, "Waiting", v)
           w == IF waiting THEN "False" ELSE "True"
<1>1. v \in Values /\ w \in Values  BY <1>0
<1>2. Settled(st) = SetCondition(s, "ReconcileComplete", w)
  <2>1. CASE waiting
    BY <2>1 DEF Settled, SetBool
  <2>2. CASE ~waiting /\ st.cond["Waiting"] = "none"
    BY <2>2 DEF Settled, SetBool, ClearWaiting
  <2>3. CASE ~waiting /\ st.cond["Waiting"] # "none"
    BY <2>3 DEF Settled, SetBool, ClearWaiting
  <2> QED BY <2>1, <2>2, <2>3
<1> HIDE DEF v, w
<1>3. Kept(st, s) /\ s.why = st.why
  <2>1. Kept(st, st)  BY DEF Kept
  <2>2. Kept(st, SetCondition(st, "Waiting", v)) /\ SetCondition(st, "Waiting", v).why = st.why
    BY <1>0, <1>1, OtherConditionKept
  <2> QED BY <2>1, <2>2
<1> HIDE DEF s
<1>4. SetCondition(s, "ReconcileComplete", w).cond["ReconcileComplete"] = w
  BY <1>0, <1>1, <1>3, SetConditionFacts DEF Kept
<1> DEFINE t == SetCondition(s, "ReconcileComplete", w)
<1>5. s \in Statuses  BY <1>3 DEF Kept
<1>6. t \in Statuses /\ t.observed = s.observed /\ t.ledger = s.ledger /\ t.why = s.why
  BY <1>0, <1>1, <1>5, SetConditionFacts
<1>7. Settled(st) = t /\ t.cond["ReconcileComplete"] = w  BY <1>2, <1>4
<1> HIDE DEF t
<1> QED BY <1>3, <1>6, <1>7 DEF Kept, w
-----------------------------------------------------------------------------
(* The types.                                                               *)

ObjectsOK ==
  /\ cr \in CRs /\ crSeen \in CRs /\ ~cr.st.flipped /\ ~crSeen.st.flipped
  /\ sts \in [Roles -> Workloads] /\ stsSeen \in [Roles -> Workloads]
  /\ wake \in {"none", "later", "now"}

PassOK ==
  /\ mine \in CRs /\ base \in Statuses /\ ~base.flipped
  /\ pc \in PassStates /\ todo \subseteq Roles
  /\ waiting \in BOOLEAN /\ broken \in BOOLEAN /\ fault \in BOOLEAN

WorldOK ==
  world \in [gate : [Gates -> GateOutcomes], role : [Roles -> RoleOutcomes],
             post : PostOutcomes, podsFail : BOOLEAN, probe : BOOLEAN]

CountsOK ==
  /\ edits \in 0 .. MaxEdits /\ changes \in 0 .. MaxChanges /\ faults \in 0 .. MaxFaults
  /\ cr.gen <= edits + 1

\* The types, and that the generation of the CR counts its edits.
TypeInv == ObjectsOK /\ PassOK /\ WorldOK /\ CountsOK /\ lost \in BOOLEAN

LEMMA StoreTyped ==
  ASSUME ObjectsOK, NEW c \in CRs, NEW ss \in [Roles -> Workloads],
         NEW q \in {"none", "later", "now"}, ~c.st.flipped, Store(c, ss, q)
  PROVE  ObjectsOK' /\ cr' = c /\ sts' = ss
BY DEF ObjectsOK, Store

LEMMA SameObjectsTyped ==
  ASSUME ObjectsOK, SameObjects, wake' \in {"none", "later", "now"}
  PROVE  ObjectsOK' /\ cr' = cr /\ sts' = sts /\ crSeen' = crSeen /\ stsSeen' = stsSeen
BY DEF ObjectsOK, SameObjects

\* Between passes the worker holds nothing.
LEMMA NoPassType == NoPass \in CRs /\ NoStatus \in Statuses /\ ~NoStatus.flipped
<1>1. 0 \in 0 .. MaxEdits + 1  BY BoundsAssumption
<1> QED BY <1>1, NoStatusType DEF NoPass, CRs

LEMMA EndPassTyped == EndPass => PassOK'
BY NoPassType DEF EndPass, PassOK, PassStates

LEMMA GotoTyped == ASSUME PassOK, NEW p \in PassStates, Goto(p)  PROVE PassOK'
BY DEF Goto, PassOK

LEMMA PassVarsTyped == ASSUME PassOK, UNCHANGED passVars  PROVE PassOK'
BY DEF passVars, PassOK

\* A workload with another phase, or up to date.
LEMMA WorkloadChanged ==
  ASSUME NEW ss \in [Roles -> Workloads], NEW r \in Roles,
         NEW p \in {"absent", "short", "rolling", "surging", "ready"}
  PROVE  /\ [ss EXCEPT ![r].phase = p] \in [Roles -> Workloads]
         /\ [ss EXCEPT ![r].phase = p, ![r].synced = TRUE] \in [Roles -> Workloads]
         /\ [ss EXCEPT ![r] = AbsentSts] \in [Roles -> Workloads]
<1>1. AbsentSts \in Workloads
  <2>1. 0 \in 0 .. MaxEdits + 1  BY BoundsAssumption
  <2> QED BY <2>1 DEF AbsentSts, Workloads
<1>2. /\ [ss[r] EXCEPT !.phase = p] \in Workloads
      /\ [ss[r] EXCEPT !.phase = p, !.synced = TRUE] \in Workloads
  BY DEF Workloads
<1>3. [ss EXCEPT ![r].phase = p] = [ss EXCEPT ![r] = [ss[r] EXCEPT !.phase = p]]
  OBVIOUS
<1>4. [ss EXCEPT ![r].phase = p, ![r].synced = TRUE]
        = [ss EXCEPT ![r] = [ss[r] EXCEPT !.phase = p, !.synced = TRUE]]
  OBVIOUS
<1> QED BY <1>1, <1>2, <1>3, <1>4

LEMMA EditTyped == ASSUME TypeInv, EditSpec \/ DeleteCR  PROVE TypeInv'
<1>0. ObjectsOK /\ PassOK /\ WorldOK /\ CountsOK /\ lost \in BOOLEAN  BY DEF TypeInv
<1>1. CASE EditSpec
  <2>1. PICK op \in Ops : Store([cr EXCEPT !.gen = @ + 1, !.op = op], sts, wake)
    BY <1>1 DEF EditSpec
  <2>0. /\ cr.gen \in 0 .. MaxEdits + 1 /\ edits \in 0 .. MaxEdits /\ edits < MaxEdits
        /\ cr.gen <= edits + 1 /\ edits' = edits + 1 /\ UNCHANGED <<changes, faults>>
    BY <1>0, <1>1 DEF EditSpec, ObjectsOK, CountsOK, CRs
  <2>2. PICK g \in 0 .. MaxEdits + 1 : g = cr.gen + 1 /\ g <= edits' + 1
    BY <2>0, BoundsAssumption
  <2> DEFINE c == [cr EXCEPT !.gen = g, !.op = op]
  <2>3. c \in CRs /\ ~c.st.flipped /\ c.gen = g
    BY <1>0, OpsAssumption DEF ObjectsOK, CRs
  <2>4. Store(c, sts, wake)  BY <2>1, <2>2
  <2> HIDE DEF c
  <2>5. ObjectsOK' /\ cr' = c  BY <1>0, <2>3, <2>4, StoreTyped DEF ObjectsOK
  <2>6. CountsOK'  BY <1>0, <2>0, <2>2, <2>3, <2>5, BoundsAssumption DEF CountsOK
  <2>7. PassOK' /\ WorldOK' /\ lost' \in BOOLEAN
    BY <1>0, <1>1, PassVarsTyped DEF EditSpec, WorldOK
  <2> QED BY <2>5, <2>6, <2>7 DEF TypeInv
<1>2. CASE DeleteCR
  <2> DEFINE c == [cr EXCEPT !.deleting = TRUE]
  <2>3. c \in CRs /\ ~c.st.flipped /\ c.gen = cr.gen
    BY <1>0 DEF ObjectsOK, CRs
  <2>4. Store(c, sts, wake)  BY <1>2 DEF DeleteCR
  <2> HIDE DEF c
  <2>5. ObjectsOK' /\ cr' = c  BY <1>0, <2>3, <2>4, StoreTyped DEF ObjectsOK
  <2>6. CountsOK'
    BY <1>0, <1>2, <2>3, <2>5, BoundsAssumption DEF DeleteCR, CountsOK, ObjectsOK, CRs
  <2>7. PassOK' /\ WorldOK' /\ lost' \in BOOLEAN
    BY <1>0, <1>2, PassVarsTyped DEF DeleteCR, WorldOK
  <2> QED BY <2>5, <2>6, <2>7 DEF TypeInv
<1> QED BY <1>1, <1>2

LEMMA WorkloadsTyped ==
  ASSUME TypeInv, NEW r \in Roles, CollectSts(r) \/ StartRollout(r) \/ RollOut(r) \/ Disturb(r)
  PROVE  TypeInv'
<1>0. ObjectsOK /\ PassOK /\ WorldOK /\ CountsOK /\ lost \in BOOLEAN  BY DEF TypeInv
<1>1. \E ss \in [Roles -> Workloads] : Store(cr, ss, wake)
  <2>1. CASE CollectSts(r)
    BY <1>0, <2>1, WorkloadChanged DEF CollectSts, ObjectsOK
  <2>2. CASE StartRollout(r)
    BY <1>0, <2>2, WorkloadChanged DEF StartRollout, ObjectsOK
  <2>3. CASE RollOut(r)
    BY <1>0, <2>3, WorkloadChanged DEF RollOut, ObjectsOK
  <2>4. CASE Disturb(r)
    BY <1>0, <2>4, WorkloadChanged DEF Disturb, ObjectsOK
  <2> QED BY <2>1, <2>2, <2>3, <2>4
<1>2. ObjectsOK' /\ cr' = cr  BY <1>0, <1>1, StoreTyped DEF ObjectsOK
<1>3. UNCHANGED passVars /\ UNCHANGED world /\ lost' \in BOOLEAN
  BY <1>0 DEF CollectSts, StartRollout, RollOut, Disturb
<1>4. edits' = edits /\ faults' = faults /\ changes' \in 0 .. MaxChanges
  BY <1>0, BoundsAssumption DEF CollectSts, StartRollout, RollOut, Disturb, countVars, CountsOK
<1>5. CountsOK'  BY <1>0, <1>2, <1>4 DEF CountsOK
<1>6. PassOK' /\ WorldOK'  BY <1>0, <1>3, PassVarsTyped DEF WorldOK
<1> QED BY <1>2, <1>3, <1>5, <1>6 DEF TypeInv

LEMMA ChangeWorldTyped == ASSUME TypeInv, ChangeWorld  PROVE WorldOK'
<1>0. WorldOK  BY DEF TypeInv
<1>1. ASSUME NEW g \in Gates, NEW o \in GateOutcomes, world' = [world EXCEPT !.gate[g] = o]
      PROVE  WorldOK'
  <2> DEFINE f == [world.gate EXCEPT ![g] = o]
  <2>1. f \in [Gates -> GateOutcomes]  BY <1>0 DEF WorldOK
  <2>2. world' = [world EXCEPT !.gate = f]  BY <1>0, <1>1 DEF WorldOK
  <2> HIDE DEF f
  <2> QED BY <1>0, <2>1, <2>2 DEF WorldOK
<1>2. ASSUME NEW r \in Roles, NEW o \in RoleOutcomes, world' = [world EXCEPT !.role[r] = o]
      PROVE  WorldOK'
  <2> DEFINE f == [world.role EXCEPT ![r] = o]
  <2>1. f \in [Roles -> RoleOutcomes]  BY <1>0 DEF WorldOK
  <2>2. world' = [world EXCEPT !.role = f]  BY <1>0, <1>2 DEF WorldOK
  <2> HIDE DEF f
  <2> QED BY <1>0, <2>1, <2>2 DEF WorldOK
<1>3. ASSUME NEW o \in PostOutcomes, world' = [world EXCEPT !.post = o]
      PROVE  WorldOK'
  BY <1>0, <1>3 DEF WorldOK
<1>4. ASSUME NEW b \in BOOLEAN, world' = [world EXCEPT !.podsFail = b]
      PROVE  WorldOK'
  BY <1>0, <1>4 DEF WorldOK
<1>5. ASSUME NEW b \in BOOLEAN, world' = [world EXCEPT !.probe = b]
      PROVE  WorldOK'
  BY <1>0, <1>5 DEF WorldOK
<1>6. /\ world' = [world EXCEPT !.podsFail = ~@] => \E b \in BOOLEAN : world' = [world EXCEPT !.podsFail = b]
      /\ world' = [world EXCEPT !.probe = ~@] => \E b \in BOOLEAN : world' = [world EXCEPT !.probe = b]
  OBVIOUS
<1>7. \/ \E g \in Gates, o \in GateOutcomes : world' = [world EXCEPT !.gate[g] = o]
      \/ \E r \in Roles, o \in RoleOutcomes : world' = [world EXCEPT !.role[r] = o]
      \/ \E o \in PostOutcomes : world' = [world EXCEPT !.post = o]
      \/ world' = [world EXCEPT !.podsFail = ~@]
      \/ world' = [world EXCEPT !.probe = ~@]
  BY DEF ChangeWorld
<1> QED BY <1>1, <1>2, <1>3, <1>4, <1>5, <1>6, <1>7

LEMMA EnvironmentTyped == ASSUME TypeInv, Environment  PROVE TypeInv'
<1>0. ObjectsOK /\ PassOK /\ WorldOK /\ CountsOK /\ lost \in BOOLEAN  BY DEF TypeInv
<1>1. CASE EditSpec \/ DeleteCR
  BY <1>1, EditTyped
<1>2. CASE CollectCR
  <2> DEFINE c == [cr EXCEPT !.exists = FALSE]
  <2>1. c \in CRs /\ ~c.st.flipped /\ c.gen = cr.gen  BY <1>0 DEF ObjectsOK, CRs
  <2>2. Store(c, sts, wake)  BY <1>2 DEF CollectCR
  <2> HIDE DEF c
  <2>3. ObjectsOK' /\ cr' = c  BY <1>0, <2>1, <2>2, StoreTyped DEF ObjectsOK
  <2>4. CountsOK'  BY <1>0, <1>2, <2>1, <2>3 DEF CollectCR, countVars, CountsOK
  <2>5. PassOK' /\ WorldOK' /\ lost' \in BOOLEAN
    BY <1>0, <1>2, PassVarsTyped DEF CollectCR, WorldOK
  <2> QED BY <2>3, <2>4, <2>5 DEF TypeInv
<1>3. CASE ChangeWorld
  <2>1. WorldOK'  BY <1>3, ChangeWorldTyped
  <2>2. ObjectsOK' /\ cr' = cr  BY <1>0, <1>3, SameObjectsTyped DEF ChangeWorld, ObjectsOK
  <2>3. edits' = edits /\ faults' = faults /\ changes' = changes + 1 /\ changes < MaxChanges
    BY <1>3 DEF ChangeWorld
  <2>4. CountsOK'  BY <1>0, <2>2, <2>3, BoundsAssumption DEF CountsOK
  <2>5. PassOK' /\ lost' \in BOOLEAN  BY <1>0, <1>3, PassVarsTyped DEF ChangeWorld
  <2> QED BY <2>1, <2>2, <2>4, <2>5 DEF TypeInv
<1>4. CASE SyncCR
  <2>1. ObjectsOK' /\ cr' = cr  BY <1>0, <1>4 DEF SyncCR, ObjectsOK
  <2>2. CountsOK'  BY <1>0, <1>4, <2>1 DEF SyncCR, countVars, CountsOK
  <2>3. PassOK' /\ WorldOK' /\ lost' \in BOOLEAN
    BY <1>0, <1>4, PassVarsTyped DEF SyncCR, WorldOK
  <2> QED BY <2>1, <2>2, <2>3 DEF TypeInv
<1>5. ASSUME NEW r \in Roles, SyncSts(r)  PROVE TypeInv'
  <2>1. ObjectsOK' /\ cr' = cr  BY <1>0, <1>5 DEF SyncSts, ObjectsOK
  <2>2. CountsOK'  BY <1>0, <1>5, <2>1 DEF SyncSts, countVars, CountsOK
  <2>3. PassOK' /\ WorldOK' /\ lost' \in BOOLEAN
    BY <1>0, <1>5, PassVarsTyped DEF SyncSts, WorldOK
  <2> QED BY <2>1, <2>2, <2>3 DEF TypeInv
<1>6. ASSUME NEW r \in Roles, CollectSts(r) \/ StartRollout(r) \/ RollOut(r) \/ Disturb(r)
      PROVE  TypeInv'
  BY <1>6, WorkloadsTyped
<1> QED BY <1>1, <1>2, <1>3, <1>4, <1>5, <1>6 DEF Environment

\* A pass changes the CR's copy only in its status.
LEMMA StatusChanged ==
  ASSUME NEW c \in CRs, NEW st \in Statuses
  PROVE  LET d == [c EXCEPT !.st = st]
         IN d \in CRs /\ d.st = st /\ d.gen = c.gen /\ d.op = c.op
BY DEF CRs

LEMMA OpenedFacts ==
  ASSUME ObjectsOK
  PROVE  /\ Opened \in CRs /\ Opened.gen = crSeen.gen /\ Opened.op = crSeen.op
         /\ Opened.st \in Statuses /\ Opened.st.observed = crSeen.gen
         /\ Opened.st.ledger = crSeen.st.ledger /\ Opened.st.why = crSeen.st.why
         /\ Opened.st.cond = crSeen.st.cond
<1> DEFINE t == [crSeen.st EXCEPT !.observed = crSeen.gen]
<1>0. crSeen \in CRs  BY DEF ObjectsOK
<1>1. crSeen.gen \in 0 .. MaxEdits + 1 /\ crSeen.st \in Statuses  BY <1>0 DEF CRs
<1>2. /\ t \in Statuses /\ t.observed = crSeen.gen /\ t.ledger = crSeen.st.ledger
      /\ t.why = crSeen.st.why /\ t.cond = crSeen.st.cond
  BY <1>1 DEF Statuses
<1>3. Opened = [crSeen EXCEPT !.st = t]  BY DEF Opened
<1> HIDE DEF t
<1> QED BY <1>0, <1>2, <1>3, StatusChanged

LEMMA EntryFacts ==
  ASSUME PassOK, NEW r \in Roles
  PROVE  LET d == [mine EXCEPT !.st.ledger = @ \cup {r}]
         IN /\ d \in CRs /\ d.gen = mine.gen /\ d.op = mine.op
            /\ d.st.ledger = mine.st.ledger \cup {r} /\ d.st.observed = mine.st.observed
            /\ d.st.why = mine.st.why /\ d.st.cond = mine.st.cond
<1> DEFINE l == mine.st.ledger \cup {r}
           t == [mine.st EXCEPT !.ledger = l]
<1>0. mine \in CRs  BY DEF PassOK
<1>1. mine.st \in Statuses  BY <1>0 DEF CRs
<1>2. l \in SUBSET Roles  BY <1>1 DEF Statuses
<1>4. [mine EXCEPT !.st.ledger = @ \cup {r}] = [mine EXCEPT !.st = t]  OBVIOUS
<1> HIDE DEF l
<1>3. /\ t \in Statuses /\ t.observed = mine.st.observed /\ t.ledger = l
      /\ t.why = mine.st.why /\ t.cond = mine.st.cond
  BY <1>1, <1>2 DEF Statuses
<1> HIDE DEF t
<1> DEFINE d == [mine EXCEPT !.st = t]
<1>5. d \in CRs /\ d.st = t /\ d.gen = mine.gen /\ d.op = mine.op  BY <1>0, <1>3, StatusChanged
<1>6. [mine EXCEPT !.st.ledger = @ \cup {r}] = d  BY <1>4
<1> HIDE DEF d
<1> QED BY <1>3, <1>5, <1>6 DEF l

LEMMA CheckedFacts ==
  ASSUME PassOK, mine' = [mine EXCEPT !.st = Check(@, mine.op)]
  PROVE  /\ mine' \in CRs /\ mine'.gen = mine.gen /\ mine'.op = mine.op
         /\ Kept(mine.st, mine'.st)
         /\ mine'.st.why = "WorkloadUnreadable" => Unreadable(mine.st) # {}
<1> DEFINE t == Check(mine.st, mine.op)
<1>0. mine \in CRs  BY DEF PassOK
<1>1. mine.st \in Statuses  BY <1>0 DEF CRs
<1>2. Kept(mine.st, t) /\ (t.why = "WorkloadUnreadable" => Unreadable(mine.st) # {})
  BY <1>1, CheckKept
<1>3. mine' = [mine EXCEPT !.st = t] /\ t \in Statuses  BY <1>2 DEF Kept
<1> HIDE DEF t
<1> DEFINE d == [mine EXCEPT !.st = t]
<1>4. d \in CRs /\ d.st = t /\ d.gen = mine.gen /\ d.op = mine.op  BY <1>0, <1>2, StatusChanged DEF Kept
<1>5. mine' = d  BY <1>3
<1> HIDE DEF d
<1> QED BY <1>2, <1>4, <1>5

LEMMA SettledMine ==
  ASSUME PassOK, mine' = [mine EXCEPT !.st = Settled(@)]
  PROVE  /\ mine' \in CRs /\ mine'.gen = mine.gen /\ mine'.op = mine.op
         /\ mine'.st.observed = mine.st.observed /\ mine'.st.ledger = mine.st.ledger
         /\ mine'.st.why = mine.st.why
         /\ mine'.st.cond["ReconcileComplete"] = IF waiting THEN "False" ELSE "True"
<1> DEFINE t == Settled(mine.st)
<1>0. mine \in CRs  BY DEF PassOK
<1>1. mine.st \in Statuses  BY <1>0 DEF CRs
<1>2. /\ t \in Statuses /\ t.observed = mine.st.observed /\ t.ledger = mine.st.ledger
      /\ t.why = mine.st.why
      /\ t.cond["ReconcileComplete"] = IF waiting THEN "False" ELSE "True"
  BY <1>1, SettledFacts
<1>3. mine' = [mine EXCEPT !.st = t]  OBVIOUS
<1> HIDE DEF t
<1> DEFINE d == [mine EXCEPT !.st = t]
<1>4. d \in CRs /\ d.st = t /\ d.gen = mine.gen /\ d.op = mine.op  BY <1>0, <1>2, StatusChanged DEF Kept
<1>5. mine' = d  BY <1>3
<1> HIDE DEF d
<1> QED BY <1>2, <1>4, <1>5

LEMMA FailedMine ==
  ASSUME PassOK, mine' = [mine EXCEPT !.st = Failed(@)]
  PROVE  /\ mine' \in CRs /\ mine'.gen = mine.gen /\ mine'.op = mine.op
         /\ mine'.st.observed = mine.st.observed /\ mine'.st.ledger = mine.st.ledger
         /\ mine'.st.why = "ReconcileError" /\ mine'.st.cond["ReconcileComplete"] = "False"
<1> DEFINE t == Failed(mine.st)
<1>0. mine \in CRs  BY DEF PassOK
<1>1. mine.st \in Statuses  BY <1>0 DEF CRs
<1>2. /\ t \in Statuses /\ t.observed = mine.st.observed /\ t.ledger = mine.st.ledger
      /\ t.why = "ReconcileError" /\ t.cond["ReconcileComplete"] = "False"
  BY <1>1, FailedFacts
<1>3. mine' = [mine EXCEPT !.st = t]  OBVIOUS
<1> HIDE DEF t
<1> DEFINE d == [mine EXCEPT !.st = t]
<1>4. d \in CRs /\ d.st = t /\ d.gen = mine.gen /\ d.op = mine.op  BY <1>0, <1>2, StatusChanged DEF Kept
<1>5. mine' = d  BY <1>3
<1> HIDE DEF d
<1> QED BY <1>2, <1>4, <1>5

\* The CR with the status a pass writes.
Written == [cr EXCEPT !.st = [mine.st EXCEPT !.flipped = FALSE], !.rev = 1 - @]

LEMMA WrittenFacts ==
  ASSUME ObjectsOK, PassOK
  PROVE  /\ Written \in CRs /\ ~Written.st.flipped
         /\ Written.gen = cr.gen /\ Written.op = cr.op
         /\ Written.st.observed = mine.st.observed /\ Written.st.ledger = mine.st.ledger
         /\ Written.st.why = mine.st.why /\ Written.st.cond = mine.st.cond
<1> DEFINE t == [mine.st EXCEPT !.flipped = FALSE]
<1>0. cr \in CRs /\ mine.st \in Statuses  BY DEF ObjectsOK, PassOK, CRs
<1>1. /\ t \in Statuses /\ ~t.flipped /\ t.observed = mine.st.observed /\ t.ledger = mine.st.ledger
      /\ t.why = mine.st.why /\ t.cond = mine.st.cond
  BY <1>0 DEF Statuses
<1>2. PICK rev \in {0, 1} : rev = 1 - cr.rev  BY <1>0 DEF CRs
<1>3. Written = [cr EXCEPT !.st = t, !.rev = rev]  BY <1>2 DEF Written
<1> HIDE DEF t
<1> QED BY <1>0, <1>1, <1>2, <1>3 DEF CRs

\* What an update of the status stores, if it stores anything.
LEMMA UpdateStores ==
  ASSUME ObjectsOK, PassOK, UpdateStatus
  PROVE  /\ ObjectsOK' /\ sts' = sts
         /\ \/ cr' = cr /\ crSeen' = crSeen /\ stsSeen' = stsSeen
            \/ /\ cr' = Written
               /\ crSeen' = IF "crLag" \in Faults THEN crSeen ELSE Written
               /\ stsSeen' = IF "stsLag" \in Faults THEN stsSeen ELSE sts
<1>0. Requeue(After) \in {"none", "later", "now"}  BY DEF Requeue, After
<1>1. CASE mine.st = base \/ ~cr.exists
  <2>1. wake' = Requeue(After) /\ SameObjects  BY <1>1 DEF UpdateStatus
  <2> QED BY <1>0, <2>1, SameObjectsTyped
<1>2. CASE ~(mine.st = base \/ ~cr.exists)
  <2>1. Store(Written, sts, Requeue(After))  BY <1>2 DEF UpdateStatus, Written
  <2>2. ObjectsOK' /\ cr' = Written /\ sts' = sts
    BY <1>0, <2>1, WrittenFacts, StoreTyped DEF ObjectsOK
  <2> QED BY <2>1, <2>2 DEF Store
<1> QED BY <1>1, <1>2

LEMMA AppliedType ==
  ASSUME ObjectsOK, PassOK, NEW r \in Roles
  PROVE  /\ Applied(r) \in Workloads
         /\ [sts EXCEPT ![r] = Applied(r)] \in [Roles -> Workloads]
<1>1. sts[r] \in Workloads /\ stsSeen[r] \in Workloads /\ mine.gen \in 0 .. MaxEdits + 1
  BY DEF ObjectsOK, PassOK, CRs
<1> DEFINE p == IF stsSeen[r].phase = "absent" THEN "short" ELSE sts[r].phase
<1>2. p \in {"absent", "short", "rolling", "surging", "ready"}  BY <1>1 DEF Workloads
<1>3. Applied(r) = IF stsSeen[r].gen = mine.gen THEN sts[r]
                   ELSE [phase |-> p, gen |-> mine.gen, synced |-> FALSE]
  BY DEF Applied
<1> HIDE DEF p
<1>4. Applied(r) \in Workloads  BY <1>1, <1>2, <1>3 DEF Workloads
<1> QED BY <1>4 DEF ObjectsOK

\* What a role's reconciliation does to what the proofs below follow.
LEMMA RoleStep ==
  ASSUME ObjectsOK, PassOK, WorldOK, NEW r \in Roles, ReconcileRole(r)
  PROVE  /\ ObjectsOK' /\ cr' = cr
         /\ crSeen' = IF "crLag" \in Faults THEN crSeen ELSE cr
         /\ stsSeen' = IF "stsLag" \in Faults THEN stsSeen ELSE sts'
         /\ sts' = sts \/ sts' = [sts EXCEPT ![r] = Applied(r)]
         /\ sts' = sts \/ stsSeen[r] = sts[r] \/ stsSeen[r].gen = mine.gen
         /\ mine' \in CRs /\ mine'.gen = mine.gen /\ mine'.op = mine.op
         /\ mine'.st.observed = mine.st.observed /\ mine'.st.why = mine.st.why
         /\ mine'.st.cond = mine.st.cond
         /\ \/ mine'.st.ledger = mine.st.ledger
            \/ mine'.st.ledger = mine.st.ledger \cup {r} /\ sts' = [sts EXCEPT ![r] = Applied(r)]
         /\ waiting' \in BOOLEAN /\ broken' \in BOOLEAN /\ fault' = broken'
         /\ (waiting => waiting') /\ (broken => broken')
         /\ ~waiting' /\ ~broken' => /\ sts' = [sts EXCEPT ![r] = Applied(r)]
                                   /\ mine'.st.ledger = mine.st.ledger \cup {r}
         /\ wake' = "now" \/ UNCHANGED <<wake, crSeen, stsSeen>>
<1>1. PICK accepted \in Applies(r) :
        LET out     == world.role[r]
            reached == out \notin {"wait", "fail"}
            applied == reached /\ accepted
            done    == applied /\ out # "half"
        IN /\ Store(cr, IF applied THEN [sts EXCEPT ![r] = Applied(r)] ELSE sts, wake)
           /\ mine' = IF done THEN [mine EXCEPT !.st.ledger = @ \cup {r}] ELSE mine
           /\ waiting' = (waiting \/ out = "wait" \/ (done /\ out = "lateWait"))
           /\ broken' = (broken \/ (reached /\ ~accepted) \/ out \in {"fail", "half", "late"})
           /\ fault' = broken'
  BY DEF ReconcileRole, Recorded
<1> DEFINE out     == world.role[r]
           reached == out \notin {"wait", "fail"}
           applied == reached /\ accepted
           done    == applied /\ out # "half"
           ss      == IF applied THEN [sts EXCEPT ![r] = Applied(r)] ELSE sts
<1>2. Store(cr, ss, wake)  BY <1>1
<1>3. mine' = IF done THEN [mine EXCEPT !.st.ledger = @ \cup {r}] ELSE mine  BY <1>1
<1>4. /\ waiting' = (waiting \/ out = "wait" \/ (done /\ out = "lateWait"))
      /\ broken' = (broken \/ (reached /\ ~accepted) \/ out \in {"fail", "half", "late"})
      /\ fault' = broken'
  BY <1>1
<1>5. ss \in [Roles -> Workloads]  BY AppliedType DEF ObjectsOK
<1>6. done => applied  OBVIOUS
<1>7. ~waiting' /\ ~broken' => applied /\ done  BY <1>4
<1>8. waiting' \in BOOLEAN /\ broken' \in BOOLEAN /\ (waiting => waiting') /\ (broken => broken')
  BY <1>4
<1>9. sts' = ss  BY <1>2 DEF Store
<1>15. accepted => stsSeen[r] = sts[r] \/ stsSeen[r].gen = mine.gen
  BY DEF Applies
<1>16. applied => stsSeen[r] = sts[r] \/ stsSeen[r].gen = mine.gen  BY <1>15
<1>10. ss = IF applied THEN [sts EXCEPT ![r] = Applied(r)] ELSE sts  OBVIOUS
<1> HIDE DEF done, applied, reached, out, ss
<1>11. ObjectsOK' /\ cr' = cr  BY <1>2, <1>5, StoreTyped DEF ObjectsOK
<1>12. /\ crSeen' = IF "crLag" \in Faults THEN crSeen ELSE cr
       /\ stsSeen' = IF "stsLag" \in Faults THEN stsSeen ELSE sts'
  BY <1>2, <1>9 DEF Store
<1>17. wake' = "now" \/ UNCHANGED <<wake, crSeen, stsSeen>>  BY <1>2 DEF Store
<1>13. mine \in CRs  BY DEF PassOK
<1>14. /\ mine' \in CRs /\ mine'.gen = mine.gen /\ mine'.op = mine.op
       /\ mine'.st.observed = mine.st.observed /\ mine'.st.why = mine.st.why
       /\ mine'.st.cond = mine.st.cond
       /\ \/ mine'.st.ledger = mine.st.ledger
          \/ mine'.st.ledger = mine.st.ledger \cup {r} /\ done
       /\ done => mine'.st.ledger = mine.st.ledger \cup {r}
  BY <1>3, <1>13, EntryFacts
<1>18. ~waiting' /\ ~broken' => /\ sts' = [sts EXCEPT ![r] = Applied(r)]
                                /\ mine'.st.ledger = mine.st.ledger \cup {r}
  BY <1>7, <1>9, <1>10, <1>14
<1>19. \/ mine'.st.ledger = mine.st.ledger
       \/ mine'.st.ledger = mine.st.ledger \cup {r} /\ sts' = [sts EXCEPT ![r] = Applied(r)]
  BY <1>6, <1>9, <1>10, <1>14
<1>20. /\ sts' = sts \/ sts' = [sts EXCEPT ![r] = Applied(r)]
       /\ sts' = sts \/ stsSeen[r] = sts[r] \/ stsSeen[r].gen = mine.gen
  BY <1>9, <1>10, <1>16
<1>21. fault' = broken'  BY <1>1
<1> QED BY <1>8, <1>11, <1>12, <1>14, <1>17, <1>18, <1>19, <1>20, <1>21

\* A pass changes nothing of the world but the faults it has met, and of the CR
\* nothing but the status.
LEMMA PassCounts ==
  ASSUME TypeInv, Pass
  PROVE  /\ UNCHANGED <<world, lost, edits, changes>>
         /\ faults' \in 0 .. MaxFaults
<1>1. faults \in 0 .. MaxFaults  BY DEF TypeInv, CountsOK
<1>2. faults < MaxFaults => faults + 1 \in 0 .. MaxFaults  BY <1>1, BoundsAssumption
<1>3. CASE Fetch \/ Observe \/ EnsureIdentity \/ PassGates
  BY <1>1, <1>2, <1>3 DEF Fetch, Observe, EnsureIdentity, PassGates, CanFail, countVars
<1>4. CASE \E r \in Roles : ReconcileRole(r)
  BY <1>1, <1>4 DEF ReconcileRole, countVars
<1>5. CASE CheckHealth \/ PostReconcile \/ Settle \/ Fail
  BY <1>1, <1>5 DEF CheckHealth, PostReconcile, Settle, Fail, countVars
<1>6. CASE UpdateStatus \/ UpdateFails \/ Abandon \/ Crash
  BY <1>1, <1>2, <1>6 DEF UpdateStatus, UpdateFails, Abandon, Crash, CanFail, countVars
<1> QED BY <1>3, <1>4, <1>5, <1>6 DEF Pass

\* The steps of a pass that read and write no object.
Local ==
  \/ Fetch \/ Observe \/ EnsureIdentity \/ PassGates \/ CheckHealth \/ PostReconcile \/ Settle
  \/ Fail \/ UpdateFails \/ Abandon

LEMMA LocalObjects ==
  ASSUME ObjectsOK, Local
  PROVE  SameObjects /\ ObjectsOK'
<1>1. Requeue("later") \in {"none", "later", "now"}  BY DEF Requeue
<1>2. SameObjects
  BY DEF Local, Fetch, Observe, EnsureIdentity, PassGates, CheckHealth, PostReconcile, Settle,
         Fail, UpdateFails, Abandon
<1>3. wake' \in {"none", "later", "now"}
  BY <1>1 DEF Local, Fetch, Observe, EnsureIdentity, PassGates, CheckHealth, PostReconcile, Settle,
              Fail, UpdateFails, Abandon, ObjectsOK
<1> QED BY <1>2, <1>3, SameObjectsTyped

LEMMA LocalTyped ==
  ASSUME ObjectsOK, PassOK, WorldOK, Local
  PROVE  PassOK'
<1> USE DEF PassStates
<1>1. CASE Fetch
  <2>1. CASE Skips
    BY <1>1, <2>1, GotoTyped DEF Fetch
  <2>2. CASE ~Skips
    <3>1. mine' = Opened /\ base' = crSeen.st /\ pc' \in {"observe", "identity"}
          /\ UNCHANGED <<todo, waiting, broken, fault>>
      BY <1>1, <2>2 DEF Fetch
    <3>2. crSeen.st \in Statuses /\ ~crSeen.st.flipped  BY DEF ObjectsOK, CRs
    <3> QED BY <3>1, <3>2, OpenedFacts DEF PassOK
  <2> QED BY <2>1, <2>2
<1>2. CASE Observe
  <2>1. mine' \in CRs  BY <1>2, CheckedFacts DEF Observe
  <2> QED BY <1>2, <2>1 DEF Observe, PassOK
<1>3. CASE EnsureIdentity
  BY <1>3 DEF EnsureIdentity, Goto, PassOK
<1>4. CASE PassGates
  BY <1>4 DEF PassGates, PassOK
<1>5. CASE CheckHealth
  <2>1. mine' \in CRs  BY <1>5, CheckedFacts DEF CheckHealth
  <2> QED BY <1>5, <2>1 DEF CheckHealth, PassOK
<1>6. CASE PostReconcile
  BY <1>6 DEF PostReconcile, PassOK
<1>7. CASE Settle
  <2>1. mine' = mine \/ mine' = [mine EXCEPT !.st = Settled(@)]
    BY <1>7 DEF Settle, Settled
  <2>2. mine' \in CRs  BY <2>1, SettledMine DEF PassOK
  <2> QED BY <1>7, <2>2 DEF Settle, PassOK
<1>8. CASE Fail
  <2>1. mine' \in CRs  BY <1>8, FailedMine DEF Fail
  <2> QED BY <1>8, <2>1 DEF Fail, PassOK
<1>9. CASE UpdateFails \/ Abandon
  <2>1. CASE EndPass
    BY <2>1, EndPassTyped
  <2>2. CASE ~EndPass
    BY <1>9, <2>2 DEF UpdateFails, Abandon, PassOK
  <2> QED BY <2>1, <2>2
<1> QED BY <1>1, <1>2, <1>3, <1>4, <1>5, <1>6, <1>7, <1>8, <1>9 DEF Local

LEMMA PassTyped == ASSUME TypeInv, Pass  PROVE TypeInv'
<1>0. ObjectsOK /\ PassOK /\ WorldOK /\ CountsOK /\ lost \in BOOLEAN  BY DEF TypeInv
<1>1. ObjectsOK' /\ PassOK' /\ cr'.gen = cr.gen
  <2>1. CASE Local
    <3>1. cr' = cr  BY <1>0, <2>1, LocalObjects DEF SameObjects
    <3> QED BY <1>0, <2>1, <3>1, LocalObjects, LocalTyped
  <2>2. ASSUME NEW r \in Roles, ReconcileRole(r)
        PROVE  ObjectsOK' /\ PassOK' /\ cr'.gen = cr.gen
    <3>1. /\ ObjectsOK' /\ cr' = cr /\ mine' \in CRs
          /\ waiting' \in BOOLEAN /\ broken' \in BOOLEAN /\ fault' = broken'
      BY <1>0, <2>2, RoleStep
    <3>2. base' = base /\ todo' \subseteq Roles /\ pc' \in PassStates
      BY <1>0, <2>2 DEF ReconcileRole, PassOK, PassStates
    <3> QED BY <1>0, <3>1, <3>2 DEF PassOK
  <2>3. CASE UpdateStatus
    <3>1. ObjectsOK' /\ cr'.gen = cr.gen  BY <1>0, <2>3, UpdateStores, WrittenFacts
    <3>2. PassOK'  BY <2>3, EndPassTyped DEF UpdateStatus
    <3> QED BY <3>1, <3>2
  <2>4. CASE Crash
    <3>1. PassOK' /\ cr' = cr  BY <2>4, EndPassTyped DEF Crash
    <3>2. ObjectsOK'  BY <1>0, <2>4 DEF Crash, ObjectsOK
    <3> QED BY <3>1, <3>2
  <2> QED BY <2>1, <2>2, <2>3, <2>4 DEF Pass, Local
<1>2. UNCHANGED <<world, lost, edits, changes>> /\ faults' \in 0 .. MaxFaults  BY PassCounts
<1>3. WorldOK' /\ lost' \in BOOLEAN  BY <1>0, <1>2 DEF WorldOK
<1>4. CountsOK'  BY <1>0, <1>1, <1>2 DEF CountsOK
<1> QED BY <1>1, <1>3, <1>4 DEF TypeInv

LEMMA InitTyped == Init => TypeInv
<1> SUFFICES ASSUME Init  PROVE TypeInv
  OBVIOUS
<1>1. 1 \in 0 .. MaxEdits + 1 /\ 0 \in 0 .. MaxEdits + 1  BY BoundsAssumption
<1>2. cr \in CRs /\ ~cr.st.flipped /\ cr.gen = 1  BY <1>1, NoStatusType DEF Init, CRs
<1>3. AbsentSts \in Workloads  BY <1>1 DEF AbsentSts, Workloads
<1>4. sts \in [Roles -> Workloads]  BY <1>3 DEF Init
<1>5. ObjectsOK  BY <1>2, <1>4 DEF Init, ObjectsOK
<1>6. PassOK  BY NoPassType DEF Init, PassOK, PassStates
<1>7. WorldOK  BY DEF Init, WorldOK
<1>8. CountsOK  BY <1>2, BoundsAssumption DEF Init, CountsOK
<1> QED BY <1>5, <1>6, <1>7, <1>8 DEF Init, TypeInv

LEMMA StepTyped == TypeInv /\ [Next]_vars => TypeInv'
<1> SUFFICES ASSUME TypeInv, [Next]_vars  PROVE TypeInv'
  OBVIOUS
<1>1. CASE Next
  BY <1>1, PassTyped, EnvironmentTyped DEF Next
<1>2. CASE UNCHANGED vars
  BY <1>2 DEF vars, passVars, countVars, TypeInv, ObjectsOK, PassOK, WorldOK, CountsOK
<1> QED BY <1>1, <1>2

\* Every variable keeps its type, whatever the roles, gates, outcomes, faults
\* and bounds: the generations a pass notes, the ledgers it writes and the
\* status it assembles condition by condition stay in their sets.
THEOREM ReconcilerTypes == Spec => []TypeOK
<1>1. TypeInv => TypeOK
  BY DEF TypeInv, TypeOK, ObjectsOK, PassOK, WorldOK, CountsOK
<1> QED BY <1>1, InitTyped, StepTyped, PTL DEF Spec
-----------------------------------------------------------------------------
(* The invariants.                                                          *)

\* A role's failure is a failure of the pass, and no role has failed before the
\* roles are reconciled.
WaitInv ==
  /\ broken => fault
  /\ pc \in {"idle", "observe", "identity", "gates"} => ~broken
  /\ WaitIsNoFault

\* Nothing is left of a StatefulSet that is not there.
AbsentClean == \A r \in Roles : sts[r].phase = "absent" => sts[r] = AbsentSts

\* The status knows no role that has no StatefulSet, and blames none.
Innocent(st) ==
  /\ st.ledger \subseteq {r \in Roles : sts[r].phase # "absent"}
  /\ st.why # "WorkloadUnreadable"

QuietInv ==
  /\ AbsentClean /\ stsSeen = sts
  /\ cr.gen >= 1 /\ crSeen.gen >= 1 /\ (pc # "idle" => mine.gen >= 1)
  /\ ~lost => Innocent(cr.st) /\ Innocent(crSeen.st) /\ Innocent(mine.st)

\* A role without a StatefulSet, or with that of generation g.
UpToDate(r, g) == sts[r].phase = "absent" \/ sts[r].gen = g

\* Generations only grow: what is stored was observed, what was observed is
\* cached, and a pass runs ahead of neither.
Observed ==
  /\ cr.st.observed <= crSeen.gen /\ crSeen.gen <= cr.gen
  /\ pc # "idle" => /\ mine.st.observed = mine.gen
                    /\ cr.st.observed <= mine.gen /\ mine.gen <= crSeen.gen

\* The workloads were made for generations no newer than that of the pass, and
\* the cache is not ahead of them.
Workable ==
  \A r \in Roles :
    /\ sts[r].gen <= crSeen.gen /\ stsSeen[r].gen <= crSeen.gen
    /\ pc # "idle" => sts[r].gen <= mine.gen /\ stsSeen[r].gen <= mine.gen
    /\ sts[r].phase = "absent" \/ stsSeen[r].gen <= sts[r].gen

\* Nobody pauses, so a pass that says it is complete has reconciled every role.
Thorough ==
  /\ cr.op # "paused" /\ crSeen.op # "paused" /\ pc # "observe"
  /\ pc \in {"health", "post", "settle"} => todo = {}
  /\ pc \in {"role", "health", "post", "settle"} /\ ~broken /\ ~waiting
     => \A r \in Roles \ todo : UpToDate(r, mine.gen)
  /\ pc = "write" /\ mine.st.cond["ReconcileComplete"] = "True"
     => \A r \in Roles : UpToDate(r, mine.gen)
  /\ pc = "writeFailed" => mine.st.cond["ReconcileComplete"] = "False"

GateInv == AbsentClean /\ Observed /\ Workable /\ Thorough /\ GateHonest
-----------------------------------------------------------------------------
(* What the environment does to the objects.                                *)

\* A StatefulSet is kept, is removed by someone else, or changes its phase.
Carried(r) ==
  \/ sts'[r] = sts[r]
  \/ sts'[r] = AbsentSts /\ lost'
  \/ sts'[r].gen = sts[r].gen /\ sts[r].phase # "absent" /\ sts'[r].phase # "absent"

\* The CR keeps its status and never goes back to an earlier generation, and
\* the caches keep what they hold or learn what is stored.
EnvFrame ==
  /\ UNCHANGED passVars
  /\ cr'.st = cr.st /\ (cr'.op = cr.op \/ cr'.op \in Ops) /\ cr.gen <= cr'.gen
  /\ crSeen' = crSeen \/ crSeen' = cr'
  /\ "crLag" \notin Faults /\ crSeen = cr => crSeen' = cr'
  /\ "stsLag" \notin Faults /\ stsSeen = sts => stsSeen' = sts'
  /\ \A r \in Roles : Carried(r) /\ (stsSeen'[r] = stsSeen[r] \/ stsSeen'[r] = sts'[r])
  /\ lost => lost'

LEMMA CRFrame ==
  ASSUME TypeInv, NEW c, Store(c, sts, wake), c.st = cr.st, c.op = cr.op \/ c.op \in Ops,
         cr.gen <= c.gen, UNCHANGED <<passVars, lost>>
  PROVE  EnvFrame
<1>1. cr' = c /\ sts' = sts /\ (crSeen' = crSeen \/ crSeen' = c) /\ (stsSeen' = stsSeen \/ stsSeen' = sts)
  BY DEF Store
<1>2. /\ "crLag" \notin Faults => crSeen' = cr'
      /\ "stsLag" \notin Faults => stsSeen' = sts'
  BY DEF Store
<1> QED BY <1>1, <1>2 DEF EnvFrame, Carried

LEMMA StsFrame ==
  ASSUME TypeInv, NEW ss, Store(cr, ss, wake), NEW r \in Roles, NEW w,
         ss = [sts EXCEPT ![r] = w],
         \/ w = AbsentSts /\ lost'
         \/ w.gen = sts[r].gen /\ sts[r].phase # "absent" /\ w.phase # "absent",
         UNCHANGED passVars, lost => lost'
  PROVE  EnvFrame
<1>0. sts \in [Roles -> Workloads] /\ cr.gen \in 0 .. MaxEdits + 1  BY DEF TypeInv, ObjectsOK, CRs
<1>1. cr' = cr /\ sts' = ss /\ (crSeen' = crSeen \/ crSeen' = cr) /\ (stsSeen' = stsSeen \/ stsSeen' = ss)
  BY DEF Store
<1>2. /\ "crLag" \notin Faults => crSeen' = cr'
      /\ "stsLag" \notin Faults => stsSeen' = sts'
  BY DEF Store
<1>3. sts'[r] = w /\ \A q \in Roles \ {r} : sts'[q] = sts[q]  BY <1>0, <1>1
<1>4. \A q \in Roles : Carried(q)  BY <1>3 DEF Carried
<1>5. cr.gen <= cr'.gen  BY <1>0, <1>1, BoundsAssumption
<1> QED BY <1>1, <1>2, <1>4, <1>5 DEF EnvFrame

LEMMA EnvironmentFrame ==
  ASSUME TypeInv, AbsentClean, Environment
  PROVE  EnvFrame
<1>0. /\ cr \in CRs /\ sts \in [Roles -> Workloads] /\ stsSeen \in [Roles -> Workloads]
      /\ cr.gen \in 0 .. MaxEdits + 1
  BY DEF TypeInv, ObjectsOK, CRs
<1>01. cr.gen <= cr.gen /\ cr.gen <= cr.gen + 1  BY <1>0, BoundsAssumption
<1>1. CASE EditSpec
  <2>1. PICK op \in Ops : Store([cr EXCEPT !.gen = @ + 1, !.op = op], sts, wake)
    BY <1>1 DEF EditSpec
  <2>2. PICK g : g = cr.gen + 1  OBVIOUS
  <2> DEFINE c == [cr EXCEPT !.gen = g, !.op = op]
  <2>3. c.st = cr.st /\ c.op = op /\ c.gen = g  BY <1>0 DEF CRs
  <2>4. Store(c, sts, wake)  BY <2>1, <2>2
  <2> HIDE DEF c
  <2>5. UNCHANGED <<passVars, lost>>  BY <1>1 DEF EditSpec
  <2> QED BY <1>01, <2>2, <2>3, <2>4, <2>5, CRFrame
<1>2. CASE DeleteCR \/ CollectCR
  <2>1. \E c : Store(c, sts, wake) /\ c.st = cr.st /\ c.op = cr.op /\ c.gen = cr.gen
    <3>1. CASE DeleteCR
      BY <1>0, <3>1 DEF DeleteCR, CRs
    <3>2. CASE CollectCR
      BY <1>0, <3>2 DEF CollectCR, CRs
    <3> QED BY <1>2, <3>1, <3>2
  <2>2. UNCHANGED <<passVars, lost>>  BY <1>2 DEF DeleteCR, CollectCR
  <2> QED BY <1>01, <2>1, <2>2, CRFrame
<1>3. ASSUME NEW r \in Roles, CollectSts(r) \/ Disturb(r)  PROVE EnvFrame
  <2>1. CASE Store(cr, [sts EXCEPT ![r] = AbsentSts], wake) /\ lost'
    BY <1>3, <2>1, StsFrame DEF CollectSts, Disturb
  <2>2. CASE Store(cr, [sts EXCEPT ![r].phase = "short"], wake) /\ lost' = lost /\ Disturb(r)
    <3> DEFINE w == [sts[r] EXCEPT !.phase = "short"]
    <3>1. w.gen = sts[r].gen /\ w.phase = "short"  BY <1>0 DEF Workloads
    <3>2. [sts EXCEPT ![r].phase = "short"] = [sts EXCEPT ![r] = w]  OBVIOUS
    <3>3. sts[r].phase # "absent"  BY <2>2 DEF Disturb
    <3> HIDE DEF w
    <3>4. UNCHANGED passVars  BY <2>2 DEF Disturb
    <3> QED BY <2>2, <3>1, <3>2, <3>3, <3>4, StsFrame
  <2> QED BY <1>3, <2>1, <2>2 DEF CollectSts, Disturb
<1>4. ASSUME NEW r \in Roles, StartRollout(r) \/ RollOut(r)  PROVE EnvFrame
  <2>1. sts[r].phase # "absent"  BY <1>4 DEF StartRollout, RollOut, AbsentClean, AbsentSts
  <2>2. PICK w : /\ Store(cr, [sts EXCEPT ![r] = w], wake)
                 /\ w.gen = sts[r].gen /\ w.phase # "absent"
    <3>1. CASE StartRollout(r)
      <4>1. PICK p \in {"rolling", "surging"} :
              Store(cr, [sts EXCEPT ![r].phase = p, ![r].synced = TRUE], wake)
        BY <3>1 DEF StartRollout
      <4> DEFINE w == [sts[r] EXCEPT !.phase = p, !.synced = TRUE]
      <4>2. w.gen = sts[r].gen /\ w.phase # "absent"  BY <1>0 DEF Workloads
      <4>3. [sts EXCEPT ![r].phase = p, ![r].synced = TRUE] = [sts EXCEPT ![r] = w]  OBVIOUS
      <4> HIDE DEF w
      <4> QED BY <4>1, <4>2, <4>3
    <3>2. CASE RollOut(r)
      <4>1. Store(cr, [sts EXCEPT ![r].phase = "ready"], wake)  BY <3>2 DEF RollOut
      <4> DEFINE w == [sts[r] EXCEPT !.phase = "ready"]
      <4>2. w.gen = sts[r].gen /\ w.phase # "absent"  BY <1>0 DEF Workloads
      <4>3. [sts EXCEPT ![r].phase = "ready"] = [sts EXCEPT ![r] = w]  OBVIOUS
      <4> HIDE DEF w
      <4> QED BY <4>1, <4>2, <4>3
    <3> QED BY <1>4, <3>1, <3>2
  <2>3. UNCHANGED <<passVars, lost>>  BY <1>4 DEF StartRollout, RollOut
  <2> QED BY <2>1, <2>2, <2>3, StsFrame
<1>5. CASE ChangeWorld
  BY <1>01, <1>5 DEF ChangeWorld, SameObjects, EnvFrame, Carried
<1>6. CASE SyncCR
  BY <1>01, <1>6 DEF SyncCR, EnvFrame, Carried
<1>7. ASSUME NEW r \in Roles, SyncSts(r)  PROVE EnvFrame
  <2>1. UNCHANGED <<passVars, lost, cr, crSeen, sts>> /\ stsSeen' = [stsSeen EXCEPT ![r] = sts[r]]
    BY <1>7 DEF SyncSts
  <2>2. \A q \in Roles : stsSeen'[q] = stsSeen[q] \/ stsSeen'[q] = sts'[q]  BY <1>0, <2>1
  <2>3. stsSeen # sts  BY <1>7 DEF SyncSts
  <2> QED BY <1>01, <2>1, <2>2, <2>3 DEF EnvFrame, Carried
<1> QED BY <1>1, <1>2, <1>3, <1>4, <1>5, <1>6, <1>7 DEF Environment

LEMMA EnvironmentClean ==
  ASSUME TypeInv, AbsentClean, Environment
  PROVE  AbsentClean'
<1>1. EnvFrame  BY EnvironmentFrame
<1> QED BY <1>1 DEF EnvFrame, Carried, AbsentClean
-----------------------------------------------------------------------------
(* A wait is no failure.                                                    *)

LEMMA WaitStep ==
  ASSUME "wait" \notin PostOutcomes, TypeInv, WaitInv, [Next]_vars
  PROVE  WaitInv'
<1> USE DEF WaitInv, WaitIsNoFault
<1>0. world.post \in {"ok", "fail"} /\ broken \in BOOLEAN /\ fault \in BOOLEAN
  BY OutcomeAssumption DEF TypeInv, WorldOK, PassOK
<1>1. CASE Environment \/ UNCHANGED vars
  <2>1. UNCHANGED passVars
    BY <1>1 DEF Environment, EditSpec, DeleteCR, CollectCR, ChangeWorld, SyncCR, CollectSts,
                StartRollout, RollOut, Disturb, SyncSts, vars
  <2> QED BY <2>1 DEF passVars
<1>2. CASE Fetch \/ Observe \/ EnsureIdentity
  BY <1>0, <1>2 DEF Fetch, Observe, EnsureIdentity, Goto
<1>3. CASE PassGates
  <2>1. /\ pc = "gates" /\ broken' = broken
        /\ pc' \in {"failed", "health", "role"} /\ (pc' = "failed" => fault')
    BY <1>3 DEF PassGates
  <2> QED BY <2>1
<1>4. ASSUME NEW r \in Roles, ReconcileRole(r)  PROVE WaitInv'
  <2>1. fault' = broken'  BY <1>4, RoleStep DEF TypeInv
  <2>2. pc' \in {"health", "role"}  BY <1>4 DEF ReconcileRole
  <2> QED BY <2>1, <2>2
<1>5. CASE CheckHealth \/ Settle \/ Fail
  <2>1. UNCHANGED <<broken, fault>> /\ pc' \in {"post", "failed", "write", "writeFailed"}
        /\ (pc' = "failed" => broken) /\ (pc' = "writeFailed" => pc = "failed")
    BY <1>5 DEF CheckHealth, Settle, Fail
  <2> QED BY <2>1
<1>7. CASE PostReconcile
  <2>1. /\ pc' \in {"settle", "failed"} /\ broken' = broken /\ (fault => fault')
        /\ (pc' = "failed" => fault')
    BY <1>0, <1>7 DEF PostReconcile
  <2> QED BY <2>1
<1>6. CASE UpdateStatus \/ UpdateFails \/ Abandon \/ Crash
  BY <1>0, <1>6 DEF UpdateStatus, UpdateFails, Abandon, Crash, EndPass
<1> QED BY <1>1, <1>2, <1>3, <1>4, <1>5, <1>6, <1>7 DEF Next, Pass

\* With a PostReconcile that fails or succeeds, a pass takes the error path only
\* if something failed: no wait of a gate or of a role does it, in any mix with
\* the failures of other roles (reconcile, RequeueAfterError).
THEOREM WaitSafe == "wait" \notin PostOutcomes => (Spec => []WaitIsNoFault)
<1> SUFFICES ASSUME "wait" \notin PostOutcomes  PROVE Spec => []WaitIsNoFault
  OBVIOUS
<1>1. Init => WaitInv  BY DEF Init, WaitInv, WaitIsNoFault
<1>2. TypeInv /\ WaitInv /\ [Next]_vars => WaitInv'  BY WaitStep
<1>3. WaitInv => WaitIsNoFault  BY DEF WaitInv
<1> QED BY <1>1, <1>2, <1>3, InitTyped, StepTyped, PTL DEF Spec
-----------------------------------------------------------------------------
(* The controller rests when it is done.                                    *)

\* A status that says generation g is applied, with every role in the ledger.
Done(st, g) ==
  /\ st.observed = g /\ st.ledger = Roles
  /\ st.cond["ReconcileComplete"] = "True"

\* The StatefulSet of a role is that of generation g, or is gone, or the cache
\* has still to learn what became of it.
Fits(r, g) == UpToDate(r, g) \/ stsSeen[r].gen = g

\* As long as no event has come since a pass read the CR, it works on what the
\* cache holds; a paused one stays out of the stages that reconcile.
OnCourse ==
  pc # "idle" =>
    /\ mine.st.observed = mine.gen
    /\ mine.op = "paused" => pc \in {"observe", "write", "failed", "writeFailed"}
    /\ pc = "observe" => mine.op = "paused"
    /\ pc \in {"health", "post", "settle"} => todo = {}
    /\ wake # "now" => mine.gen = crSeen.gen /\ mine.op = crSeen.op /\ base = crSeen.st

\* Without failures and waits, what the pass has been through is done.
Finishing ==
  wake # "now" /\ ~waiting =>
    /\ pc \in {"role", "health", "post", "settle"} /\ ~broken
       => \A r \in Roles \ todo : r \in mine.st.ledger /\ Fits(r, mine.gen)
    /\ pc = "write" /\ mine.op # "paused"
       => Done(mine.st, mine.gen) /\ \A r \in Roles : Fits(r, mine.gen)

\* When nothing is queued, the CR in the cache has been dealt with.
Asleep ==
  pc = "idle" /\ wake = "none" /\ crSeen.exists /\ ~crSeen.deleting /\ crSeen.op # "paused" =>
    /\ ~cr.exists \/ Done(cr.st, crSeen.gen) \/ Done(crSeen.st, crSeen.gen)
    /\ \A r \in Roles : Fits(r, crSeen.gen)

RestInv == OnCourse /\ Finishing /\ Asleep

\* Every event wakes the controller, and a CR that is gone stays away.
LEMMA EnvironmentWakes ==
  ASSUME TypeInv, Environment
  PROVE  /\ wake' = "now" \/ UNCHANGED <<wake, crSeen, stsSeen>>
         /\ cr'.exists => cr.exists
<1>0. cr \in CRs  BY DEF TypeInv, ObjectsOK
<1>1. ASSUME NEW c, NEW ss, Store(c, ss, wake), c.exists => cr.exists
      PROVE  /\ wake' = "now" \/ UNCHANGED <<wake, crSeen, stsSeen>>
             /\ cr'.exists => cr.exists
  BY <1>1 DEF Store
<1>2. CASE EditSpec \/ DeleteCR
  <2>1. cr.exists /\ \E c : Store(c, sts, wake)  BY <1>2 DEF EditSpec, DeleteCR
  <2> QED BY <1>1, <2>1
<1>3. CASE CollectCR
  <2>1. cr.exists /\ \E c : Store(c, sts, wake)  BY <1>3 DEF CollectCR
  <2> QED BY <1>1, <2>1
<1>4. CASE \E r \in Roles : CollectSts(r) \/ StartRollout(r) \/ RollOut(r) \/ Disturb(r)
  <2>1. \E ss : Store(cr, ss, wake)  BY <1>4 DEF CollectSts, StartRollout, RollOut, Disturb
  <2> QED BY <1>1, <2>1
<1>5. CASE ChangeWorld \/ SyncCR \/ \E r \in Roles : SyncSts(r)
  BY <1>5 DEF ChangeWorld, SameObjects, SyncCR, SyncSts
<1> QED BY <1>2, <1>3, <1>4, <1>5 DEF Environment

\* A step that wakes the controller and leaves the pass alone.
LEMMA RestWoken ==
  ASSUME RestInv, UNCHANGED passVars, wake' = "now"
  PROVE  RestInv'
<1>1. OnCourse'  BY DEF RestInv, OnCourse, passVars
<1>2. Finishing' /\ Asleep'  BY DEF Finishing, Asleep
<1> QED BY <1>1, <1>2 DEF RestInv

LEMMA RestEnvironment ==
  ASSUME TypeInv, AbsentClean, RestInv, Environment
  PROVE  RestInv'
<1>0. EnvFrame  BY EnvironmentFrame
<1>1. UNCHANGED passVars /\ cr'.st = cr.st  BY <1>0 DEF EnvFrame
<1>2. CASE wake' = "now"
  BY <1>1, <1>2, RestWoken
<1>3. CASE wake' # "now"
  <2>1. UNCHANGED <<wake, crSeen, stsSeen>> /\ (cr'.exists => cr.exists)
    BY <1>3, EnvironmentWakes
  <2>2. ASSUME NEW r \in Roles, NEW g, Fits(r, g)  PROVE Fits(r, g)'
    BY <1>0, <2>1, <2>2 DEF EnvFrame, Carried, Fits, UpToDate, AbsentSts
  <2>3. OnCourse'  BY <1>1, <2>1 DEF RestInv, OnCourse, passVars
  <2>4. Finishing'  BY <1>1, <2>1, <2>2 DEF RestInv, Finishing, passVars, Done
  <2>5. Asleep'  BY <1>1, <2>1, <2>2 DEF RestInv, Asleep, passVars, Done
  <2> QED BY <2>3, <2>4, <2>5 DEF RestInv
<1> QED BY <1>2, <1>3

LEMMA RestLocal ==
  ASSUME TypeInv, RestInv, Local
  PROVE  RestInv'
<1>0. ObjectsOK /\ PassOK /\ WorldOK  BY DEF TypeInv
<1>00. UNCHANGED <<cr, crSeen, sts, stsSeen>>  BY <1>0, LocalObjects DEF SameObjects
<1>1. CASE Fetch
  <2>1. CASE Skips
    <3>1. pc' = "idle" /\ (~crSeen.exists \/ crSeen.deleting)  BY <1>1, <2>1 DEF Fetch, Goto, Skips
    <3> QED BY <1>00, <3>1 DEF RestInv, OnCourse, Finishing, Asleep
  <2>2. CASE ~Skips
    <3>1. /\ mine' = Opened /\ base' = crSeen.st
          /\ pc' = IF crSeen.op = "paused" THEN "observe" ELSE "identity"
      BY <1>1, <2>2 DEF Fetch
    <3>2. mine'.gen = crSeen.gen /\ mine'.op = crSeen.op /\ mine'.st.observed = crSeen.gen
      BY <1>0, <3>1, OpenedFacts
    <3> QED BY <1>00, <3>1, <3>2 DEF RestInv, OnCourse, Finishing, Asleep
  <2> QED BY <2>1, <2>2
<1>2. CASE Observe
  <2>1. /\ mine'.gen = mine.gen /\ mine'.op = mine.op /\ mine'.st.observed = mine.st.observed
        /\ pc = "observe" /\ pc' = "write" /\ UNCHANGED <<base, wake>>
    BY <1>0, <1>2, CheckedFacts DEF Observe, Kept
  <2> QED BY <1>00, <2>1 DEF RestInv, OnCourse, Finishing, Asleep
<1>3. CASE EnsureIdentity
  <2>1. /\ UNCHANGED <<mine, base, wake>> /\ pc = "identity" /\ pc' \in {"gates", "failed"}
    BY <1>3 DEF EnsureIdentity, Goto
  <2> QED BY <1>00, <2>1 DEF RestInv, OnCourse, Finishing, Asleep
<1>4. CASE PassGates
  <2> DEFINE said == {world.gate[g] : g \in Gates}
  <2>1. UNCHANGED <<mine, base, wake>> /\ pc = "gates"  BY <1>4 DEF PassGates
  <2>2. said \subseteq {"ok", "wait", "fail"}  BY <1>0, OutcomeAssumption DEF WorldOK
  <2>3. /\ waiting' = ("wait" \in said)
        /\ pc' = IF "fail" \in said THEN "failed"
                 ELSE IF "wait" \in said \/ Roles = {} THEN "health" ELSE "role"
        /\ todo' = IF said \subseteq {"ok"} THEN Roles ELSE {}
    BY <1>4 DEF PassGates
  <2> HIDE DEF said
  <2>4. /\ pc' \in {"failed", "health", "role"}
        /\ pc' = "health" => todo' = {}
        /\ pc' # "failed" /\ ~waiting' => Roles \ todo' = {}
    BY <2>2, <2>3
  <2>5. mine.op # "paused"  BY <2>1 DEF RestInv, OnCourse
  <2>6. OnCourse'  BY <1>00, <2>1, <2>4, <2>5 DEF RestInv, OnCourse
  <2>7. Finishing' /\ Asleep'  BY <2>4 DEF Finishing, Asleep
  <2> QED BY <2>6, <2>7 DEF RestInv
<1>5. CASE CheckHealth
  <2>1. /\ mine'.gen = mine.gen /\ mine'.op = mine.op /\ mine'.st.observed = mine.st.observed
        /\ mine'.st.ledger = mine.st.ledger
        /\ pc = "health" /\ pc' = "post" /\ UNCHANGED <<base, todo, waiting, broken, wake>>
    BY <1>0, <1>5, CheckedFacts DEF CheckHealth, Kept
  <2> QED BY <1>00, <2>1 DEF RestInv, OnCourse, Finishing, Asleep, Fits, UpToDate
<1>6. CASE PostReconcile
  <2>1. UNCHANGED <<mine, base, todo, waiting, broken, wake>> /\ pc = "post" /\ pc' \in {"settle", "failed"}
    BY <1>6 DEF PostReconcile
  <2> QED BY <1>00, <2>1 DEF RestInv, OnCourse, Finishing, Asleep, Fits, UpToDate
<1>7. CASE Settle
  <2>0. pc = "settle" /\ UNCHANGED <<base, todo, waiting, broken, wake>>  BY <1>7 DEF Settle
  <2>1. CASE broken
    <3>1. mine' = mine /\ pc' = "failed"  BY <1>7, <2>1 DEF Settle
    <3> QED BY <1>00, <2>0, <3>1 DEF RestInv, OnCourse, Finishing, Asleep
  <2>2. CASE ~broken
    <3>1. mine' = [mine EXCEPT !.st = Settled(@)] /\ pc' = "write"  BY <1>7, <2>2 DEF Settle, Settled
    <3>2. /\ mine' \in CRs /\ mine'.gen = mine.gen /\ mine'.op = mine.op
          /\ mine'.st.observed = mine.st.observed /\ mine'.st.ledger = mine.st.ledger
          /\ mine'.st.cond["ReconcileComplete"] = IF waiting THEN "False" ELSE "True"
      BY <1>0, <3>1, SettledMine
    <3>3. OnCourse'  BY <1>00, <2>0, <3>1, <3>2 DEF RestInv, OnCourse
    <3>4. mine'.st.ledger \subseteq Roles  BY <3>2 DEF CRs, Statuses
    <3>5. ASSUME wake # "now", ~waiting
          PROVE  Done(mine.st, mine.gen)' /\ \A r \in Roles : Fits(r, mine.gen)'
      <4>1. todo = {} /\ mine.st.observed = mine.gen  BY <2>0 DEF RestInv, OnCourse
      <4>2. \A r \in Roles : r \in mine.st.ledger /\ Fits(r, mine.gen)
        BY <2>0, <2>2, <3>5, <4>1 DEF RestInv, Finishing
      <4>3. Done(mine.st, mine.gen)'  BY <3>2, <3>4, <3>5, <4>1, <4>2 DEF Done
      <4> QED BY <1>00, <3>2, <4>2, <4>3 DEF Fits, UpToDate
    <3>6. Finishing'  BY <2>0, <3>1, <3>5 DEF Finishing
    <3>7. Asleep'  BY <3>1 DEF Asleep
    <3> QED BY <3>3, <3>6, <3>7 DEF RestInv
  <2> QED BY <2>1, <2>2
<1>8. CASE Fail
  <2>1. /\ mine'.gen = mine.gen /\ mine'.op = mine.op /\ mine'.st.observed = mine.st.observed
        /\ pc = "failed" /\ pc' = "writeFailed" /\ UNCHANGED <<base, wake>>
    BY <1>0, <1>8, FailedMine DEF Fail
  <2> QED BY <1>00, <2>1 DEF RestInv, OnCourse, Finishing, Asleep
<1>9. CASE UpdateFails \/ Abandon
  <2>1. \/ pc' = "idle" /\ wake' = Requeue("later")
        \/ pc' = "failed" /\ UNCHANGED <<mine, base, wake>> /\ pc # "idle"
    BY <1>9 DEF UpdateFails, Abandon, EndPass
  <2>2. Requeue("later") # "none"  BY DEF Requeue
  <2> QED BY <1>00, <2>1, <2>2 DEF RestInv, OnCourse, Finishing, Asleep
<1> QED BY <1>1, <1>2, <1>3, <1>4, <1>5, <1>6, <1>7, <1>8, <1>9 DEF Local

LEMMA RestRole ==
  ASSUME TypeInv, RestInv, NEW r \in Roles, ReconcileRole(r)
  PROVE  RestInv'
<1>0. ObjectsOK /\ PassOK /\ WorldOK  BY DEF TypeInv
<1>1. sts \in [Roles -> Workloads]  BY <1>0 DEF ObjectsOK
<1> DEFINE ss == [sts EXCEPT ![r] = Applied(r)]
<1>2. /\ sts' = sts \/ sts' = ss
      /\ mine'.gen = mine.gen /\ mine'.op = mine.op /\ mine'.st.observed = mine.st.observed
      /\ (waiting => waiting') /\ (broken => broken')
      /\ \/ mine'.st.ledger = mine.st.ledger
         \/ mine'.st.ledger = mine.st.ledger \cup {r}
      /\ ~waiting' /\ ~broken' => sts' = ss /\ mine'.st.ledger = mine.st.ledger \cup {r}
      /\ wake' = "now" \/ UNCHANGED <<wake, crSeen, stsSeen>>
  BY <1>0, RoleStep
<1>3. ss[r] = Applied(r) /\ \A q \in Roles \ {r} : ss[q] = sts[q]  BY <1>1
<1> HIDE DEF ss
<1>4. /\ pc = "role" /\ r \in todo /\ todo' = todo \ {r} /\ base' = base
      /\ pc' = IF todo = {r} THEN "health" ELSE "role"
  BY DEF ReconcileRole
<1>5. OnCourse'
  BY <1>2, <1>4 DEF RestInv, OnCourse
<1>6. Asleep'  BY <1>4 DEF Asleep
<1>7. ASSUME wake' # "now", ~waiting', ~broken', NEW q \in Roles \ todo'
      PROVE  q \in mine'.st.ledger /\ Fits(q, mine.gen)'
  <2>0. /\ UNCHANGED <<wake, crSeen, stsSeen>> /\ wake # "now" /\ ~waiting /\ ~broken
        /\ sts' = ss /\ mine'.st.ledger = mine.st.ledger \cup {r}
    BY <1>2, <1>7
  <2>1. CASE q = r
    <3>1. stsSeen[r].gen = mine.gen \/ Applied(r).gen = mine.gen  BY DEF Applied
    <3> QED BY <1>2, <1>3, <2>0, <2>1, <3>1 DEF Fits, UpToDate
  <2>2. CASE q # r
    <3>1. q \in Roles \ todo  BY <1>4, <1>7, <2>2
    <3>2. q \in mine.st.ledger /\ Fits(q, mine.gen)
      BY <1>4, <2>0, <3>1 DEF RestInv, Finishing
    <3> QED BY <1>2, <1>3, <2>0, <2>2, <3>1, <3>2 DEF Fits, UpToDate
  <2> QED BY <2>1, <2>2
<1>8. Finishing'  BY <1>4, <1>7 DEF Finishing
<1> QED BY <1>5, <1>6, <1>8 DEF RestInv

LEMMA RestUpdate ==
  ASSUME TypeInv, RestInv, UpdateStatus
  PROVE  RestInv'
<1>0. ObjectsOK /\ PassOK  BY DEF TypeInv
<1>1. pc \in {"write", "writeFailed"} /\ pc' = "idle"  BY DEF UpdateStatus, EndPass
<1>2. OnCourse' /\ Finishing'  BY <1>1 DEF OnCourse, Finishing
<1>3. ASSUME wake' = "none", crSeen'.exists, ~crSeen'.deleting, crSeen'.op # "paused"
      PROVE  /\ ~cr'.exists \/ Done(cr'.st, crSeen'.gen) \/ Done(crSeen'.st, crSeen'.gen)
             /\ \A r \in Roles : Fits(r, crSeen.gen)'
  <2>1. /\ Requeue(After) = "none" /\ UNCHANGED <<crSeen, stsSeen, sts>>
        /\ \/ cr' = cr /\ (mine.st = base \/ ~cr.exists)
           \/ cr' = Written
    BY <1>3 DEF UpdateStatus, Store, SameObjects, Written
  <2>2. wake # "now" /\ pc = "write" /\ ~waiting  BY <1>1, <2>1 DEF Requeue, After
  <2>3. mine.gen = crSeen.gen /\ mine.op = crSeen.op /\ base = crSeen.st
    BY <2>2 DEF RestInv, OnCourse
  <2>4. Done(mine.st, mine.gen) /\ \A r \in Roles : Fits(r, mine.gen)
    BY <1>3, <2>1, <2>2, <2>3 DEF RestInv, Finishing
  <2>5. Done(Written.st, mine.gen)  BY <1>0, <2>4, WrittenFacts DEF Done
  <2>6. ~cr'.exists \/ Done(cr'.st, crSeen'.gen) \/ Done(crSeen'.st, crSeen'.gen)
    BY <2>1, <2>3, <2>4, <2>5
  <2>7. \A r \in Roles : Fits(r, crSeen.gen)'  BY <2>1, <2>3, <2>4 DEF Fits, UpToDate
  <2> QED BY <2>6, <2>7
<1>4. Asleep'  BY <1>3 DEF Asleep
<1> QED BY <1>2, <1>4 DEF RestInv

LEMMA RestStep ==
  ASSUME TypeInv, AbsentClean, RestInv, [Next]_vars
  PROVE  RestInv'
<1>1. CASE Environment
  BY <1>1, RestEnvironment
<1>2. CASE Local
  BY <1>2, RestLocal
<1>3. ASSUME NEW r \in Roles, ReconcileRole(r)  PROVE RestInv'
  BY <1>3, RestRole
<1>4. CASE UpdateStatus
  BY <1>4, RestUpdate
<1>5. CASE Crash
  <2>1. pc' = "idle" /\ wake' = "now"  BY <1>5 DEF Crash, EndPass
  <2> QED BY <2>1 DEF RestInv, OnCourse, Finishing, Asleep
<1>6. CASE UNCHANGED vars
  BY <1>6 DEF vars, passVars, RestInv, OnCourse, Finishing, Asleep, Done, Fits, UpToDate
<1> QED BY <1>1, <1>2, <1>3, <1>4, <1>5, <1>6 DEF Next, Pass, Local

\* Nothing is left of a StatefulSet that is not there, whatever a pass applies.
LEMMA CleanStep ==
  ASSUME TypeInv, AbsentClean, [Next]_vars
  PROVE  AbsentClean'
<1>0. ObjectsOK /\ PassOK /\ WorldOK  BY DEF TypeInv
<1>1. CASE Environment
  BY <1>1, EnvironmentClean
<1>2. CASE Local
  BY <1>0, <1>2, LocalObjects DEF SameObjects, AbsentClean
<1>3. ASSUME NEW r \in Roles, ReconcileRole(r)  PROVE AbsentClean'
  <2>1. sts \in [Roles -> Workloads]  BY <1>0 DEF ObjectsOK
  <2> DEFINE ss == [sts EXCEPT ![r] = Applied(r)]
  <2>2. /\ sts' = sts \/ sts' = ss
        /\ sts' = sts \/ stsSeen[r] = sts[r] \/ stsSeen[r].gen = mine.gen
    BY <1>0, <1>3, RoleStep
  <2>3. ss[r] = Applied(r) /\ \A q \in Roles \ {r} : ss[q] = sts[q]  BY <2>1
  <2> HIDE DEF ss
  <2>4. stsSeen[r] = sts[r] \/ stsSeen[r].gen = mine.gen
        => Applied(r) = sts[r] \/ Applied(r).phase # "absent"
    BY DEF Applied
  <2> QED BY <2>2, <2>3, <2>4 DEF AbsentClean
<1>4. CASE UpdateStatus
  BY <1>0, <1>4, UpdateStores DEF AbsentClean
<1>5. CASE Crash \/ UNCHANGED vars
  BY <1>5 DEF Crash, vars, AbsentClean
<1> QED BY <1>1, <1>2, <1>3, <1>4, <1>5 DEF Next, Pass, Local

\* The controller does not go to sleep over unfinished work, with any lag of the
\* caches, any conflict, crash or failure: when no pass runs and none will, the
\* generation is applied, observed and reported complete, and the ledger is
\* whole, although a pass on a stale CR may have written an older one over it
\* (updateStatus, "safe because the controller is the sole writer").
THEOREM RestSafe == Spec => []RestsWhenDone
<1>1. Init => AbsentClean /\ RestInv
  BY DEF Init, AbsentClean, RestInv, OnCourse, Finishing, Asleep
<1>2. TypeInv /\ AbsentClean /\ RestInv /\ [Next]_vars => AbsentClean' /\ RestInv'
  BY CleanStep, RestStep
<1>3. RestInv => RestsWhenDone
  BY DEF RestInv, Asleep, Done, Fits, UpToDate, RestsWhenDone, AtRest
<1> QED BY <1>1, <1>2, <1>3, InitTyped, StepTyped, PTL DEF Spec
-----------------------------------------------------------------------------
(* A first install is quiet.                                                *)

LEMMA InnocentKept ==
  ASSUME NEW s, NEW t, Innocent(s), t.ledger = s.ledger,
         t.why \in {s.why, "ReconcileError", "none"}
  PROVE  Innocent(t)
BY DEF Innocent

LEMMA NoPassInnocent == Innocent(NoStatus) /\ NoPass.st = NoStatus
BY DEF Innocent, NoStatus, NoPass

LEMMA QuietEnvironment ==
  ASSUME "stsLag" \notin Faults, TypeInv, QuietInv, Environment
  PROVE  QuietInv'
<1>0. EnvFrame /\ TypeInv'  BY EnvironmentFrame, EnvironmentTyped DEF QuietInv
<1>1. AbsentClean' /\ stsSeen' = sts'
  BY <1>0, EnvironmentClean DEF QuietInv, EnvFrame
<1>2. cr.gen \in Int /\ cr'.gen \in Int
  BY <1>0, BoundsAssumption DEF TypeInv, ObjectsOK, CRs
<1>3. UNCHANGED <<pc, mine>>  BY <1>0 DEF EnvFrame, passVars
<1>4. cr'.gen >= 1 /\ crSeen'.gen >= 1 /\ (pc' # "idle" => mine'.gen >= 1)
  BY <1>0, <1>2, <1>3 DEF EnvFrame, QuietInv
<1>5. ASSUME ~lost'  PROVE Innocent(cr.st)' /\ Innocent(crSeen.st)' /\ Innocent(mine.st)'
  <2>1. ~lost /\ \A r \in Roles : sts[r].phase # "absent" => sts'[r].phase # "absent"
    BY <1>0, <1>5 DEF EnvFrame, Carried
  <2>2. Innocent(cr.st) /\ Innocent(crSeen.st) /\ Innocent(mine.st)  BY <2>1 DEF QuietInv
  <2>3. /\ cr'.st = cr.st /\ mine'.st = mine.st
        /\ (crSeen'.st = crSeen.st \/ crSeen'.st = cr.st)
    BY <1>0, <1>3 DEF EnvFrame
  <2> QED BY <2>1, <2>2, <2>3 DEF Innocent
<1> QED BY <1>1, <1>4, <1>5 DEF QuietInv

LEMMA QuietLocal ==
  ASSUME TypeInv, QuietInv, Local
  PROVE  /\ pc' # "idle" => mine'.gen >= 1
         /\ ~lost => Innocent(mine'.st)
<1>0. ObjectsOK /\ PassOK  BY DEF TypeInv
<1>1. CASE Fetch
  <2>1. \/ mine' = Opened
        \/ pc' = "idle" /\ mine' = mine
    BY <1>1 DEF Fetch, Goto
  <2> QED BY <1>0, <2>1, OpenedFacts, InnocentKept DEF QuietInv
<1>2. CASE Observe \/ CheckHealth
  <2>1. /\ mine'.gen = mine.gen /\ mine'.st.ledger = mine.st.ledger
        /\ mine'.st.why = "WorkloadUnreadable" => Unreadable(mine.st) # {}
    BY <1>0, <1>2, CheckedFacts DEF Observe, CheckHealth, Kept
  <2>2. pc # "idle"  BY <1>2 DEF Observe, CheckHealth
  <2>3. ~lost => Unreadable(mine.st) = {}  BY DEF QuietInv, Innocent, Unreadable
  <2> QED BY <2>1, <2>2, <2>3 DEF QuietInv, Innocent
<1>3. CASE EnsureIdentity \/ PassGates \/ PostReconcile
  <2>1. mine' = mine /\ pc # "idle"  BY <1>3 DEF EnsureIdentity, Goto, PassGates, PostReconcile
  <2> QED BY <2>1 DEF QuietInv
<1>4. CASE Settle
  <2>1. mine' = mine \/ mine' = [mine EXCEPT !.st = Settled(@)]
    BY <1>4 DEF Settle, Settled
  <2>2. mine'.gen = mine.gen /\ mine'.st.ledger = mine.st.ledger /\ mine'.st.why = mine.st.why
    BY <1>0, <2>1, SettledMine
  <2>3. pc # "idle"  BY <1>4 DEF Settle
  <2> QED BY <2>2, <2>3, InnocentKept DEF QuietInv
<1>5. CASE Fail
  <2>1. mine'.gen = mine.gen /\ mine'.st.ledger = mine.st.ledger /\ mine'.st.why = "ReconcileError"
    BY <1>0, <1>5, FailedMine DEF Fail
  <2>2. pc # "idle"  BY <1>5 DEF Fail
  <2> QED BY <2>1, <2>2, InnocentKept DEF QuietInv
<1>6. CASE UpdateFails \/ Abandon
  <2>1. (mine' = mine /\ pc # "idle") \/ (mine' = NoPass /\ pc' = "idle")
    BY <1>6 DEF UpdateFails, Abandon, EndPass
  <2> QED BY <2>1, NoPassInnocent DEF QuietInv
<1> QED BY <1>1, <1>2, <1>3, <1>4, <1>5, <1>6 DEF Local

\* A role that enters the ledger has its StatefulSet.
LEMMA QuietRole ==
  ASSUME "stsLag" \notin Faults, TypeInv, QuietInv, NEW r \in Roles, ReconcileRole(r)
  PROVE  QuietInv'
<1>0. ObjectsOK /\ PassOK /\ WorldOK  BY DEF TypeInv
<1> DEFINE ss == [sts EXCEPT ![r] = Applied(r)]
<1>1. /\ cr' = cr /\ (crSeen' = crSeen \/ crSeen' = cr) /\ stsSeen' = sts'
      /\ sts' = sts \/ sts' = ss
      /\ mine'.gen = mine.gen /\ mine'.st.why = mine.st.why
      /\ \/ mine'.st.ledger = mine.st.ledger
         \/ mine'.st.ledger = mine.st.ledger \cup {r} /\ sts' = ss
  BY <1>0, RoleStep
<1>2. pc # "idle" /\ lost' = lost  BY DEF ReconcileRole
<1>3. sts \in [Roles -> Workloads] /\ mine.gen >= 1  BY <1>0, <1>2 DEF ObjectsOK, QuietInv
<1>4. Applied(r).phase # "absent"
  <2>1. CASE stsSeen[r].gen = mine.gen
    <3>1. sts[r].gen >= 1  BY <1>3, <2>1 DEF QuietInv
    <3>2. sts[r].phase # "absent"  BY <3>1 DEF QuietInv, AbsentClean, AbsentSts
    <3> QED BY <2>1, <3>2 DEF Applied
  <2>2. CASE stsSeen[r].gen # mine.gen
    BY <2>2 DEF Applied, QuietInv
  <2> QED BY <2>1, <2>2
<1>5. ss[r] = Applied(r) /\ \A q \in Roles \ {r} : ss[q] = sts[q]  BY <1>3
<1> HIDE DEF ss
<1>6. \A q \in Roles : sts'[q] = sts[q] \/ sts'[q].phase # "absent"
  BY <1>1, <1>4, <1>5
<1>7. AbsentClean'  BY <1>6 DEF QuietInv, AbsentClean
<1>8. ASSUME ~lost'  PROVE Innocent(cr.st)' /\ Innocent(crSeen.st)' /\ Innocent(mine.st)'
  <2>1. Innocent(cr.st) /\ Innocent(crSeen.st) /\ Innocent(mine.st)  BY <1>2, <1>8 DEF QuietInv
  <2>2. ASSUME NEW st, Innocent(st)
        PROVE  st.ledger \subseteq {q \in Roles : sts'[q].phase # "absent"}
    BY <1>6, <2>2 DEF Innocent
  <2>3. mine'.st.ledger \subseteq {q \in Roles : sts'[q].phase # "absent"}
    BY <1>1, <1>4, <1>5, <2>1, <2>2
  <2> QED BY <1>1, <2>1, <2>2, <2>3 DEF Innocent
<1>9. cr'.gen >= 1 /\ crSeen'.gen >= 1 /\ mine'.gen >= 1  BY <1>1, <1>3 DEF QuietInv
<1> QED BY <1>1, <1>7, <1>8, <1>9 DEF QuietInv

LEMMA QuietStep ==
  ASSUME "stsLag" \notin Faults, TypeInv, QuietInv, [Next]_vars
  PROVE  QuietInv'
<1>0. ObjectsOK /\ PassOK /\ WorldOK  BY DEF TypeInv
<1>1. CASE Environment
  BY <1>1, QuietEnvironment
<1>2. CASE Local
  <2>1. UNCHANGED <<cr, crSeen, sts, stsSeen>>  BY <1>0, <1>2, LocalObjects DEF SameObjects
  <2>2. lost' = lost  BY <1>2, PassCounts DEF Pass, Local
  <2>3. /\ pc' # "idle" => mine'.gen >= 1
        /\ ~lost => Innocent(mine'.st)
    BY <1>2, QuietLocal
  <2> QED BY <2>1, <2>2, <2>3 DEF QuietInv, AbsentClean, Innocent
<1>3. ASSUME NEW r \in Roles, ReconcileRole(r)  PROVE QuietInv'
  BY <1>3, QuietRole
<1>4. CASE UpdateStatus
  <2>1. pc' = "idle" /\ mine' = NoPass /\ lost' = lost  BY <1>4 DEF UpdateStatus, EndPass
  <2>2. /\ sts' = sts /\ stsSeen' = sts' /\ (cr' = cr \/ cr' = Written)
        /\ (crSeen' = crSeen \/ crSeen' = Written)
    BY <1>0, <1>4, UpdateStores DEF QuietInv
  <2>3. Written.gen = cr.gen /\ (Innocent(mine.st) => Innocent(Written.st))
    BY <1>0, WrittenFacts, InnocentKept
  <2>4. cr'.gen >= 1 /\ crSeen'.gen >= 1  BY <2>2, <2>3 DEF QuietInv
  <2>5. ~lost => Innocent(cr'.st) /\ Innocent(crSeen'.st) /\ Innocent(mine'.st)
    BY <2>1, <2>2, <2>3, NoPassInnocent DEF QuietInv
  <2> QED BY <2>1, <2>2, <2>4, <2>5 DEF QuietInv, AbsentClean, Innocent
<1>5. CASE Crash
  <2>1. /\ pc' = "idle" /\ mine' = NoPass /\ UNCHANGED <<lost, cr, sts>>
        /\ crSeen' = cr /\ stsSeen' = sts
    BY <1>5 DEF Crash, EndPass
  <2>2. Innocent(NoPass.st)  BY NoPassInnocent
  <2> QED BY <2>1, <2>2 DEF QuietInv, AbsentClean, Innocent
<1>6. CASE UNCHANGED vars
  BY <1>6 DEF vars, passVars, QuietInv, AbsentClean, Innocent
<1> QED BY <1>1, <1>2, <1>3, <1>4, <1>5, <1>6 DEF Next, Pass, Local

\* When the cache knows what was applied, a missing StatefulSet is blamed only
\* after somebody has deleted one: a role that was not created yet is not in the
\* ledger, after a crash, a failed write or a stale CR as well (HealthManager.Check).
THEOREM InstallSafe == "stsLag" \notin Faults => (Spec => []FirstInstallQuiet)
<1> SUFFICES ASSUME "stsLag" \notin Faults  PROVE Spec => []FirstInstallQuiet
  OBVIOUS
<1>1. Init => QuietInv
  <2> SUFFICES ASSUME Init  PROVE QuietInv
    OBVIOUS
  <2>1. AbsentClean  BY DEF Init, AbsentClean
  <2>2. Innocent(cr.st) /\ Innocent(crSeen.st) /\ Innocent(mine.st)
    BY NoPassInnocent DEF Init
  <2> QED BY <2>1, <2>2 DEF Init, QuietInv
<1>2. TypeInv /\ QuietInv /\ [Next]_vars => QuietInv'  BY QuietStep
<1>3. QuietInv => FirstInstallQuiet  BY DEF QuietInv, Innocent, FirstInstallQuiet
<1> QED BY <1>1, <1>2, <1>3, InitTyped, StepTyped, PTL DEF Spec
-----------------------------------------------------------------------------
(* ReconcileComplete is a gate on the generation.                           *)

Gens == 0 .. MaxEdits + 1

LEMMA GensTyped ==
  ASSUME TypeInv
  PROVE  /\ cr.gen \in Gens /\ crSeen.gen \in Gens /\ mine.gen \in Gens
         /\ cr.st.observed \in Gens /\ mine.st.observed \in Gens
         /\ \A r \in Roles : sts[r].gen \in Gens /\ stsSeen[r].gen \in Gens
<1>1. cr \in CRs /\ crSeen \in CRs /\ mine \in CRs  BY DEF TypeInv, ObjectsOK, PassOK
<1>2. cr.st \in Statuses /\ mine.st \in Statuses  BY <1>1 DEF CRs
<1>3. \A r \in Roles : sts[r] \in Workloads /\ stsSeen[r] \in Workloads
  BY DEF TypeInv, ObjectsOK
<1> QED BY <1>1, <1>2, <1>3 DEF CRs, Statuses, Workloads, Gens

LEMMA GensOrdered == Gens \subseteq Int
BY BoundsAssumption DEF Gens

LEMMA GateEnvironment ==
  ASSUME "paused" \notin Ops, TypeInv, GateInv, Environment
  PROVE  GateInv'
<1>0. EnvFrame /\ TypeInv' /\ AbsentClean'
  BY EnvironmentFrame, EnvironmentTyped, EnvironmentClean DEF GateInv
<1>1. UNCHANGED <<pc, mine, todo, waiting, broken>>  BY <1>0 DEF EnvFrame, passVars
<1>2. /\ cr.gen \in Int /\ crSeen.gen \in Int /\ mine.gen \in Int /\ cr.st.observed \in Int
      /\ cr'.gen \in Int
      /\ \A r \in Roles : sts[r].gen \in Int /\ stsSeen[r].gen \in Int
  <2>1. cr'.gen \in Gens  BY <1>0 DEF TypeInv, ObjectsOK, CRs, Gens
  <2> QED BY <2>1, GensTyped, GensOrdered
<1>3. cr'.st = cr.st /\ cr.gen <= cr'.gen /\ (crSeen' = crSeen \/ crSeen' = cr')
  BY <1>0 DEF EnvFrame
<1>31. crSeen'.gen = crSeen.gen \/ crSeen'.gen = cr'.gen  BY <1>3
<1>4. crSeen'.gen \in Int /\ crSeen.gen <= crSeen'.gen /\ crSeen'.gen <= cr'.gen
  BY <1>2, <1>3, <1>31 DEF GateInv, Observed
<1>5. Observed'
  <2>1. cr'.st.observed <= crSeen'.gen  BY <1>2, <1>3, <1>4 DEF GateInv, Observed
  <2>2. ASSUME pc' # "idle"
        PROVE  mine'.st.observed = mine'.gen /\ cr'.st.observed <= mine'.gen /\ mine'.gen <= crSeen'.gen
    BY <1>1, <1>2, <1>3, <1>4, <2>2 DEF GateInv, Observed
  <2> QED BY <1>4, <2>1, <2>2 DEF Observed
<1>6. ASSUME NEW r \in Roles, NEW g, UpToDate(r, g)  PROVE UpToDate(r, g)'
  BY <1>0, <1>6 DEF EnvFrame, Carried, UpToDate, AbsentSts
<1>7. Workable'
  <2> SUFFICES ASSUME NEW r \in Roles
               PROVE  /\ sts'[r].gen <= crSeen'.gen /\ stsSeen'[r].gen <= crSeen'.gen
                      /\ pc' # "idle" => sts'[r].gen <= mine'.gen /\ stsSeen'[r].gen <= mine'.gen
                      /\ sts'[r].phase = "absent" \/ stsSeen'[r].gen <= sts'[r].gen
    BY DEF Workable
  <2>1. \/ sts'[r].phase = "absent" /\ sts'[r].gen = 0
        \/ sts'[r].gen = sts[r].gen /\ (sts[r].phase = "absent" => sts'[r].phase = "absent")
    BY <1>0 DEF EnvFrame, Carried, AbsentSts
  <2>2. stsSeen'[r].gen = stsSeen[r].gen \/ stsSeen'[r].gen = sts'[r].gen  BY <1>0 DEF EnvFrame
  <2>3. /\ sts[r].gen <= crSeen.gen /\ stsSeen[r].gen <= crSeen.gen
        /\ pc # "idle" => sts[r].gen <= mine.gen /\ stsSeen[r].gen <= mine.gen
        /\ sts[r].phase = "absent" \/ stsSeen[r].gen <= sts[r].gen
    BY DEF GateInv, Workable
  <2>4. 0 <= crSeen.gen /\ 0 <= mine.gen  BY GensTyped, BoundsAssumption DEF Gens
  <2>5. sts[r].gen \in Int /\ stsSeen[r].gen \in Int  BY <1>2
  <2>6. sts'[r].gen <= crSeen'.gen /\ (pc' # "idle" => sts'[r].gen <= mine'.gen)
    BY <1>1, <1>2, <1>4, <2>1, <2>3, <2>4, <2>5
  <2>7. stsSeen'[r].gen <= crSeen'.gen /\ (pc' # "idle" => stsSeen'[r].gen <= mine'.gen)
    BY <1>1, <1>2, <1>4, <2>2, <2>3, <2>5, <2>6
  <2>8. sts'[r].phase = "absent" \/ stsSeen'[r].gen <= sts'[r].gen
    BY <2>1, <2>2, <2>3, <2>5
  <2> QED BY <2>6, <2>7, <2>8
<1>8. Thorough'
  <2>1. cr'.op # "paused" /\ crSeen'.op # "paused"  BY <1>0 DEF EnvFrame, GateInv, Thorough
  <2> QED BY <1>1, <1>6, <2>1 DEF GateInv, Thorough
<1>9. GateHonest'
  <2> SUFFICES ASSUME cr'.st.cond["ReconcileComplete"] = "True", cr'.st.observed = cr'.gen, NEW r \in Roles
               PROVE  sts'[r].phase = "absent" \/ sts'[r].gen = cr'.gen
    BY DEF GateHonest
  <2>1. cr'.gen = cr.gen  BY <1>2, <1>3 DEF GateInv, Observed
  <2>2. UpToDate(r, cr.gen)  BY <1>3, <2>1 DEF GateInv, GateHonest, UpToDate
  <2>3. PICK g : g = cr.gen  OBVIOUS
  <2>4. UpToDate(r, g)'  BY <1>6, <2>2, <2>3
  <2> QED BY <2>1, <2>3, <2>4 DEF UpToDate
<1> QED BY <1>0, <1>5, <1>7, <1>8, <1>9 DEF GateInv

\* A step that changes no object and goes on with the pass.
LEMMA GateGoesOn ==
  ASSUME GateInv, UNCHANGED <<cr, crSeen, sts, stsSeen>>, pc # "idle",
         mine'.gen = mine.gen, mine'.st.observed = mine.st.observed
  PROVE  AbsentClean' /\ Observed' /\ Workable' /\ GateHonest'
BY DEF GateInv, AbsentClean, Observed, Workable, GateHonest

\* A step that changes no object and ends the pass.
LEMMA GateEnds ==
  ASSUME GateInv, UNCHANGED <<cr, crSeen, sts, stsSeen>>, pc' = "idle"
  PROVE  GateInv'
<1>1. AbsentClean' /\ Observed' /\ Workable' /\ GateHonest'
  BY DEF GateInv, AbsentClean, Observed, Workable, GateHonest
<1>2. Thorough'  BY DEF GateInv, Thorough
<1> QED BY <1>1, <1>2 DEF GateInv

LEMMA GateLocal ==
  ASSUME TypeInv, GateInv, Local
  PROVE  GateInv'
<1>0. ObjectsOK /\ PassOK /\ WorldOK  BY DEF TypeInv
<1>00. UNCHANGED <<cr, crSeen, sts, stsSeen>>  BY <1>0, LocalObjects DEF SameObjects
<1>1. CASE Fetch
  <2>1. CASE Skips
    BY <1>00, <1>1, <2>1, GateEnds DEF Fetch, Goto
  <2>2. CASE ~Skips
    <3>1. mine' = Opened /\ pc' = "identity"  BY <1>1, <2>2 DEF Fetch, GateInv, Thorough
    <3>2. mine'.gen = crSeen.gen /\ mine'.st.observed = crSeen.gen  BY <1>0, <3>1, OpenedFacts
    <3>6. crSeen.gen \in Int  BY GensTyped, GensOrdered
    <3>3. crSeen.gen <= crSeen.gen  BY <3>6
    <3>4. AbsentClean' /\ Observed' /\ Workable' /\ GateHonest'
      BY <1>00, <3>1, <3>2, <3>3 DEF GateInv, AbsentClean, Observed, Workable, GateHonest
    <3>5. Thorough'  BY <1>00, <3>1 DEF GateInv, Thorough
    <3> QED BY <3>4, <3>5 DEF GateInv
  <2> QED BY <2>1, <2>2
<1>2. CASE Observe
  BY <1>2 DEF Observe, GateInv, Thorough
<1>3. CASE EnsureIdentity
  <2>1. mine' = mine /\ pc # "idle" /\ pc' \in {"gates", "failed"}
    BY <1>3 DEF EnsureIdentity, Goto
  <2>2. Thorough'  BY <1>00, <2>1 DEF GateInv, Thorough
  <2> QED BY <1>00, <2>1, <2>2, GateGoesOn DEF GateInv
<1>4. CASE PassGates
  <2> DEFINE said == {world.gate[g] : g \in Gates}
  <2>1. mine' = mine /\ pc # "idle" /\ broken' = broken  BY <1>4 DEF PassGates
  <2>2. said \subseteq {"ok", "wait", "fail"}  BY <1>0, OutcomeAssumption DEF WorldOK
  <2>3. /\ waiting' = ("wait" \in said)
        /\ pc' = IF "fail" \in said THEN "failed"
                 ELSE IF "wait" \in said \/ Roles = {} THEN "health" ELSE "role"
        /\ todo' = IF said \subseteq {"ok"} THEN Roles ELSE {}
    BY <1>4 DEF PassGates
  <2> HIDE DEF said
  <2>4. /\ pc' \in {"failed", "health", "role"}
        /\ pc' = "health" => todo' = {}
        /\ pc' # "failed" /\ ~waiting' => todo' = Roles
    BY <2>2, <2>3
  <2>5. Thorough'
    <3>1. \A r \in Roles \ todo' : pc' # "failed" => waiting'  BY <2>4
    <3> QED BY <1>00, <2>1, <2>4, <3>1 DEF GateInv, Thorough
  <2> QED BY <1>00, <2>1, <2>5, GateGoesOn DEF GateInv
<1>5. CASE CheckHealth
  <2>1. mine'.gen = mine.gen /\ mine'.st.observed = mine.st.observed
    BY <1>0, <1>5, CheckedFacts DEF CheckHealth, Kept
  <2>2. pc = "health" /\ pc' = "post" /\ UNCHANGED <<todo, waiting, broken>>  BY <1>5 DEF CheckHealth
  <2>3. Thorough'  BY <1>00, <2>1, <2>2 DEF GateInv, Thorough, UpToDate
  <2> QED BY <1>00, <2>1, <2>2, <2>3, GateGoesOn DEF GateInv
<1>6. CASE PostReconcile
  <2>1. mine' = mine /\ pc = "post" /\ pc' \in {"settle", "failed"} /\ UNCHANGED <<todo, waiting, broken>>
    BY <1>6 DEF PostReconcile
  <2>2. Thorough'  BY <1>00, <2>1 DEF GateInv, Thorough, UpToDate
  <2> QED BY <1>00, <2>1, <2>2, GateGoesOn DEF GateInv
<1>7. CASE Settle
  <2>1. CASE broken
    <3>1. mine' = mine /\ pc' = "failed" /\ pc # "idle"  BY <1>7, <2>1 DEF Settle
    <3>2. Thorough'  BY <1>00, <3>1 DEF GateInv, Thorough
    <3> QED BY <1>00, <3>1, <3>2, GateGoesOn DEF GateInv
  <2>2. CASE ~broken
    <3>1. mine' = [mine EXCEPT !.st = Settled(@)] /\ pc = "settle" /\ pc' = "write"
      BY <1>7, <2>2 DEF Settle, Settled
    <3>2. /\ mine'.gen = mine.gen /\ mine'.st.observed = mine.st.observed
          /\ mine'.st.cond["ReconcileComplete"] = IF waiting THEN "False" ELSE "True"
      BY <1>0, <3>1, SettledMine
    <3>3. ~waiting => \A r \in Roles : UpToDate(r, mine.gen)  BY <2>2, <3>1 DEF GateInv, Thorough
    <3>4. Thorough'  BY <1>00, <3>1, <3>2, <3>3 DEF GateInv, Thorough, UpToDate
    <3> QED BY <1>00, <3>1, <3>2, <3>4, GateGoesOn DEF GateInv
  <2> QED BY <2>1, <2>2
<1>8. CASE Fail
  <2>1. /\ mine'.gen = mine.gen /\ mine'.st.observed = mine.st.observed
        /\ mine'.st.cond["ReconcileComplete"] = "False"
    BY <1>0, <1>8, FailedMine DEF Fail
  <2>2. pc # "idle" /\ pc' = "writeFailed"  BY <1>8 DEF Fail
  <2>3. Thorough'  BY <1>00, <2>1, <2>2 DEF GateInv, Thorough
  <2> QED BY <1>00, <2>1, <2>2, <2>3, GateGoesOn DEF GateInv
<1>9. CASE UpdateFails \/ Abandon
  <2>1. pc' = "idle" \/ (pc' = "failed" /\ mine' = mine /\ pc # "idle")
    BY <1>9 DEF UpdateFails, Abandon, EndPass
  <2>2. CASE pc' = "idle"
    BY <1>00, <2>2, GateEnds
  <2>3. CASE pc' = "failed" /\ mine' = mine /\ pc # "idle"
    <3>1. Thorough'  BY <1>00, <2>3 DEF GateInv, Thorough
    <3> QED BY <1>00, <2>3, <3>1, GateGoesOn DEF GateInv
  <2> QED BY <2>1, <2>2, <2>3
<1> QED BY <1>1, <1>2, <1>3, <1>4, <1>5, <1>6, <1>7, <1>8, <1>9 DEF Local

\* What becomes of the StatefulSet of the role that is reconciled.
LEMMA GateApplied ==
  ASSUME TypeInv, GateInv, NEW r \in Roles, ReconcileRole(r)
  PROVE  /\ sts'[r] = sts[r] \/ (sts'[r].gen = mine.gen /\ sts'[r].phase # "absent")
         /\ \A q \in Roles \ {r} : sts'[q] = sts[q]
         /\ ~waiting' /\ ~broken' => sts'[r].phase = "absent" \/ sts'[r].gen = mine.gen
<1>0. ObjectsOK /\ PassOK /\ WorldOK  BY DEF TypeInv
<1>1. sts \in [Roles -> Workloads]  BY <1>0 DEF ObjectsOK
<1> DEFINE ss == [sts EXCEPT ![r] = Applied(r)]
<1>2. /\ sts' = sts \/ sts' = ss
      /\ sts' = sts \/ stsSeen[r] = sts[r] \/ stsSeen[r].gen = mine.gen
      /\ ~waiting' /\ ~broken' => sts' = ss
  BY <1>0, RoleStep
<1>3. ss[r] = Applied(r) /\ \A q \in Roles \ {r} : ss[q] = sts[q]  BY <1>1
<1> HIDE DEF ss
<1>4. \A q \in Roles \ {r} : sts'[q] = sts[q]  BY <1>2, <1>3
<1>5. CASE stsSeen[r].gen = mine.gen
  <2>1. Applied(r) = sts[r]  BY <1>5 DEF Applied
  <2>2. sts'[r] = sts[r]  BY <1>2, <1>3, <2>1
  <2>3. sts[r].phase = "absent" \/ sts[r].gen = mine.gen
    <3>1. pc # "idle"  BY DEF ReconcileRole
    <3>2. /\ sts[r].gen <= mine.gen
          /\ sts[r].phase = "absent" \/ mine.gen <= sts[r].gen
      BY <1>5, <3>1 DEF GateInv, Workable
    <3>3. sts[r].gen \in Int /\ mine.gen \in Int  BY GensTyped, GensOrdered
    <3> QED BY <3>2, <3>3
  <2> QED BY <1>4, <2>2, <2>3 DEF UpToDate
<1>6. CASE stsSeen[r].gen # mine.gen
  <2>1. CASE sts' = sts
    <3>1. ~waiting' /\ ~broken' => sts[r] = Applied(r)  BY <1>2, <1>3, <2>1
    <3>2. Applied(r).gen = mine.gen  BY <1>6 DEF Applied
    <3> QED BY <1>4, <2>1, <3>1, <3>2 DEF UpToDate
  <2>2. CASE sts' # sts
    <3>1. stsSeen[r] = sts[r] /\ sts'[r] = Applied(r)  BY <1>2, <1>3, <1>6, <2>2
    <3>2. Applied(r).gen = mine.gen /\ Applied(r).phase # "absent"  BY <1>6, <3>1 DEF Applied
    <3> QED BY <1>4, <3>1, <3>2 DEF UpToDate
  <2> QED BY <2>1, <2>2
<1> QED BY <1>5, <1>6

LEMMA GateRole ==
  ASSUME TypeInv, GateInv, NEW r \in Roles, ReconcileRole(r)
  PROVE  GateInv'
<1>0. ObjectsOK /\ PassOK /\ WorldOK  BY DEF TypeInv
<1>1. /\ cr' = cr /\ (crSeen' = crSeen \/ crSeen' = cr) /\ (stsSeen' = stsSeen \/ stsSeen' = sts')
      /\ mine'.gen = mine.gen /\ mine'.st.observed = mine.st.observed /\ mine'.st.cond = mine.st.cond
      /\ (waiting => waiting') /\ (broken => broken')
  BY <1>0, RoleStep
<1>2. /\ sts'[r] = sts[r] \/ (sts'[r].gen = mine.gen /\ sts'[r].phase # "absent")
      /\ \A q \in Roles \ {r} : sts'[q] = sts[q]
      /\ ~waiting' /\ ~broken' => sts'[r].phase = "absent" \/ sts'[r].gen = mine.gen
  BY GateApplied
<1>3. /\ pc = "role" /\ r \in todo /\ todo' = todo \ {r}
      /\ pc' = IF todo = {r} THEN "health" ELSE "role"
  BY DEF ReconcileRole
<1>4. /\ cr.gen \in Int /\ crSeen.gen \in Int /\ mine.gen \in Int /\ cr.st.observed \in Int
      /\ \A q \in Roles : sts[q].gen \in Int /\ stsSeen[q].gen \in Int
  BY GensTyped, GensOrdered
<1>5. /\ cr.st.observed <= mine.gen /\ mine.gen <= crSeen.gen /\ crSeen.gen <= cr.gen
      /\ cr.st.observed <= crSeen.gen /\ mine.st.observed = mine.gen
  BY <1>3 DEF GateInv, Observed
<1>6. /\ crSeen'.gen \in Int /\ mine.gen <= crSeen'.gen /\ crSeen'.gen <= cr.gen
      /\ cr.st.observed <= crSeen'.gen
  <2>1. crSeen'.gen = crSeen.gen \/ crSeen'.gen = cr.gen  BY <1>1
  <2> QED BY <1>4, <1>5, <2>1
<1>7. AbsentClean'  BY <1>2 DEF GateInv, AbsentClean
<1>8. Observed'  BY <1>1, <1>5, <1>6 DEF Observed
<1>9. Workable'
  <2> SUFFICES ASSUME NEW q \in Roles
               PROVE  /\ sts'[q].gen <= mine.gen /\ stsSeen'[q].gen <= mine.gen
                      /\ sts'[q].gen <= crSeen'.gen /\ stsSeen'[q].gen <= crSeen'.gen
                      /\ sts'[q].phase = "absent" \/ stsSeen'[q].gen <= sts'[q].gen
    BY <1>1 DEF Workable
  <2>1. /\ sts[q].gen <= mine.gen /\ stsSeen[q].gen <= mine.gen
        /\ sts[q].phase = "absent" \/ stsSeen[q].gen <= sts[q].gen
    BY <1>3 DEF GateInv, Workable
  <2>2. sts[q].gen \in Int /\ stsSeen[q].gen \in Int  BY <1>4
  <2>3. sts'[q] = sts[q] \/ (sts'[q].gen = mine.gen /\ sts'[q].phase # "absent")  BY <1>2
  <2>4. sts'[q].gen \in Int /\ sts'[q].gen <= mine.gen  BY <1>4, <2>1, <2>2, <2>3
  <2>5. stsSeen'[q].gen = stsSeen[q].gen \/ stsSeen'[q].gen = sts'[q].gen  BY <1>1
  <2>6. stsSeen'[q].gen \in Int /\ stsSeen'[q].gen <= mine.gen  BY <1>4, <2>1, <2>2, <2>4, <2>5
  <2>7. sts'[q].phase = "absent" \/ stsSeen'[q].gen <= sts'[q].gen
    BY <1>4, <2>1, <2>2, <2>3, <2>4, <2>5
  <2> QED BY <1>4, <1>6, <2>4, <2>6, <2>7
<1>10. Thorough'
  <2>1. cr'.op # "paused" /\ crSeen'.op # "paused"  BY <1>1 DEF GateInv, Thorough
  <2>2. pc' \in {"role", "health"} /\ (pc' = "health" => todo' = {})  BY <1>3
  <2>3. ASSUME ~broken', ~waiting', NEW q \in Roles \ todo'
        PROVE  sts'[q].phase = "absent" \/ sts'[q].gen = mine'.gen
    <3>1. CASE q = r
      BY <1>1, <1>2, <2>3, <3>1 DEF UpToDate
    <3>2. CASE q # r
      <4>1. q \in Roles \ todo /\ ~broken /\ ~waiting  BY <1>1, <1>3, <2>3, <3>2
      <4>2. UpToDate(q, mine.gen)  BY <1>3, <4>1 DEF GateInv, Thorough
      <4> QED BY <1>1, <1>2, <3>2, <4>2 DEF UpToDate
    <3> QED BY <3>1, <3>2
  <2> QED BY <2>1, <2>2, <2>3 DEF Thorough, UpToDate
<1>11. GateHonest'
  <2> SUFFICES ASSUME cr.st.cond["ReconcileComplete"] = "True", cr.st.observed = cr.gen, NEW q \in Roles
               PROVE  sts'[q].phase = "absent" \/ sts'[q].gen = cr.gen
    BY <1>1 DEF GateHonest
  <2>1. mine.gen = cr.gen  BY <1>4, <1>5
  <2>2. sts[q].phase = "absent" \/ sts[q].gen = cr.gen  BY DEF GateInv, GateHonest
  <2> QED BY <1>2, <2>1, <2>2
<1> QED BY <1>7, <1>8, <1>9, <1>10, <1>11 DEF GateInv

LEMMA GateUpdate ==
  ASSUME TypeInv, GateInv, UpdateStatus
  PROVE  GateInv'
<1>0. ObjectsOK /\ PassOK /\ WorldOK  BY DEF TypeInv
<1>1. pc \in {"write", "writeFailed"} /\ pc' = "idle"  BY DEF UpdateStatus, EndPass
<1>2. CASE UNCHANGED <<cr, crSeen, sts, stsSeen>>
  BY <1>1, <1>2, GateEnds
<1>3. CASE ~UNCHANGED <<cr, crSeen, sts, stsSeen>>
  <2>1. /\ cr' = Written /\ sts' = sts /\ (crSeen' = crSeen \/ crSeen' = Written)
        /\ (stsSeen' = stsSeen \/ stsSeen' = sts)
    BY <1>0, <1>3, UpdateStores
  <2>2. /\ Written.gen = cr.gen /\ Written.op = cr.op
        /\ Written.st.observed = mine.st.observed /\ Written.st.cond = mine.st.cond
    BY <1>0, WrittenFacts
  <2>3. /\ cr.gen \in Int /\ crSeen.gen \in Int /\ mine.gen \in Int
        /\ \A q \in Roles : sts[q].gen \in Int /\ stsSeen[q].gen \in Int
    BY GensTyped, GensOrdered
  <2>4. mine.gen <= crSeen.gen /\ crSeen.gen <= cr.gen /\ mine.st.observed = mine.gen
    BY <1>1 DEF GateInv, Observed
  <2>5. crSeen'.gen = crSeen.gen \/ crSeen'.gen = cr.gen  BY <2>1, <2>2
  <2>6. crSeen'.gen \in Int /\ crSeen.gen <= crSeen'.gen /\ crSeen'.gen <= cr.gen
    BY <2>3, <2>4, <2>5
  <2>7. AbsentClean'  BY <2>1 DEF GateInv, AbsentClean
  <2>8. Observed'
    <3>1. cr'.st.observed = mine.gen /\ cr'.gen = cr.gen  BY <2>1, <2>2, <2>4
    <3>2. mine.gen <= crSeen'.gen  BY <2>3, <2>4, <2>6
    <3> QED BY <1>1, <2>6, <3>1, <3>2 DEF Observed
  <2>9. Workable'
    <3> SUFFICES ASSUME NEW q \in Roles
                 PROVE  /\ sts'[q].gen <= crSeen'.gen /\ stsSeen'[q].gen <= crSeen'.gen
                        /\ sts'[q].phase = "absent" \/ stsSeen'[q].gen <= sts'[q].gen
      BY <1>1 DEF Workable
    <3>1. /\ sts[q].gen <= crSeen.gen /\ stsSeen[q].gen <= crSeen.gen
          /\ sts[q].phase = "absent" \/ stsSeen[q].gen <= sts[q].gen
          /\ sts[q].gen \in Int /\ stsSeen[q].gen \in Int
      BY <2>3 DEF GateInv, Workable
    <3>2. sts'[q] = sts[q] /\ (stsSeen'[q].gen = stsSeen[q].gen \/ stsSeen'[q].gen = sts[q].gen)
      BY <2>1
    <3> QED BY <2>3, <2>6, <3>1, <3>2
  <2>10. Thorough'
    <3>1. cr'.op # "paused" /\ crSeen'.op # "paused"  BY <2>1, <2>2 DEF GateInv, Thorough
    <3> QED BY <1>1, <3>1 DEF Thorough
  <2>11. GateHonest'
    <3> SUFFICES ASSUME mine.st.cond["ReconcileComplete"] = "True", mine.gen = cr.gen, NEW q \in Roles
                 PROVE  sts[q].phase = "absent" \/ sts[q].gen = cr.gen
      BY <2>1, <2>2, <2>4 DEF GateHonest
    <3>1. pc = "write"  BY <1>1 DEF GateInv, Thorough
    <3>2. UpToDate(q, mine.gen)  BY <3>1 DEF GateInv, Thorough
    <3> QED BY <3>2 DEF UpToDate
  <2> QED BY <2>7, <2>8, <2>9, <2>10, <2>11 DEF GateInv
<1> QED BY <1>2, <1>3

LEMMA GateCrash ==
  ASSUME TypeInv, GateInv, Crash
  PROVE  GateInv'
<1>1. pc' = "idle" /\ UNCHANGED <<cr, sts>> /\ crSeen' = cr /\ stsSeen' = sts
  BY DEF Crash, EndPass
<1>2. /\ cr.gen \in Int /\ crSeen.gen \in Int /\ cr.st.observed \in Int
      /\ \A q \in Roles : sts[q].gen \in Int
  BY GensTyped, GensOrdered
<1>3. crSeen.gen <= cr.gen /\ cr.st.observed <= cr.gen /\ cr.gen <= cr.gen
  BY <1>2 DEF GateInv, Observed
<1>4. Observed'  BY <1>1, <1>3 DEF Observed
<1>5. \A q \in Roles : sts[q].gen <= cr.gen /\ sts[q].gen <= sts[q].gen
  BY <1>2, <1>3 DEF GateInv, Workable
<1>6. Workable'  BY <1>1, <1>5 DEF Workable
<1>7. AbsentClean' /\ Thorough' /\ GateHonest'
  BY <1>1 DEF GateInv, AbsentClean, Thorough, GateHonest
<1> QED BY <1>4, <1>6, <1>7 DEF GateInv

LEMMA GateStep ==
  ASSUME "paused" \notin Ops, TypeInv, GateInv, [Next]_vars
  PROVE  GateInv'
<1>1. CASE Environment
  BY <1>1, GateEnvironment
<1>2. CASE Local
  BY <1>2, GateLocal
<1>3. ASSUME NEW r \in Roles, ReconcileRole(r)  PROVE GateInv'
  BY <1>3, GateRole
<1>4. CASE UpdateStatus
  BY <1>4, GateUpdate
<1>5. CASE Crash
  BY <1>5, GateCrash
<1>6. CASE UNCHANGED vars
  BY <1>6 DEF vars, passVars, GateInv, AbsentClean, Observed, Workable, Thorough, UpToDate, GateHonest
<1> QED BY <1>1, <1>2, <1>3, <1>4, <1>5, <1>6 DEF Next, Pass, Local

LEMMA GateInit == Init => GateInv
<1> SUFFICES ASSUME Init  PROVE GateInv
  OBVIOUS
<1>1. /\ cr.gen = 1 /\ crSeen.gen = 1 /\ cr.st.observed = 0 /\ cr.op = "run" /\ crSeen.op = "run"
      /\ cr.st.cond["ReconcileComplete"] = "none" /\ pc = "idle"
  BY DEF Init, NoStatus, Conditions
<1>2. \A r \in Roles : sts[r] = AbsentSts /\ stsSeen[r] = AbsentSts  BY DEF Init
<1>3. AbsentClean  BY <1>2 DEF AbsentClean
<1>4. Observed  BY <1>1 DEF Observed
<1>5. Workable  BY <1>1, <1>2 DEF Workable, AbsentSts
<1>6. Thorough /\ GateHonest  BY <1>1 DEF Thorough, GateHonest
<1> QED BY <1>3, <1>4, <1>5, <1>6 DEF GateInv

\* As long as nobody pauses the cluster, ReconcileComplete means what it says,
\* with any lag of the caches, any crash and any failure: when it is True for
\* the current generation, every StatefulSet there is has that generation
\* (reconcile, "it is the documented generation gate").
THEOREM GateSafe == "paused" \notin Ops => (Spec => []GateHonest)
<1> SUFFICES ASSUME "paused" \notin Ops  PROVE Spec => []GateHonest
  OBVIOUS
<1>1. TypeInv /\ GateInv /\ [Next]_vars => GateInv'  BY GateStep
<1>2. GateInv => GateHonest  BY DEF GateInv
<1> QED BY <1>1, <1>2, GateInit, InitTyped, StepTyped, PTL DEF Spec
=============================================================================
