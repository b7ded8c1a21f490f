----------------------------- MODULE RoleNames -----------------------------
(***************************************************************************)
(* The names and labels of a cluster's objects: RoleGroupResourceName and  *)
(* its relatives in generic_reconciler.go, the label and selector helpers  *)
(* of base_role_group_handler.go, and the predicates by which a reclaim    *)
(* tells the framework's objects from others under the same name.          *)
(*                                                                         *)
(* A name is a sequence of characters; a character is a one-tuple, and the *)
(* hash of a name is one character that carries the whole name, so that    *)
(* two names have one hash only if they are equal.  Lengths are scaled     *)
(* down: MaxRoleGroupNameLen stands for 54, MaxLabelLen for 63, HashLen    *)
(* for the eight digits of the hash.                                       *)
(***************************************************************************)
EXTENDS Integers, Sequences, FiniteSets

CONSTANTS
  ClusterName, Roles, Groups,   \* names: sequences of characters
  MaxRoleGroupNameLen, MaxLabelLen, HashLen,
  Domains,                      \* whether the product has a LabelDomain
  LabelKeys,                    \* the keys a user may label the CR with
  MaxSlots                      \* bound on the groups declared at one time

VARIABLES
  slots,        \* the role groups the spec declares
  crLabels,     \* the keys of the CR's labels; their values are all "true"
  labelDomain   \* LabelDomain is set

nameVars == <<slots, crLabels, labelDomain>>

Dash == <<"-">>
Char(c) == << <<c>> >>
Hash(name) == <<"#", name>>
HeadlessSuffix == <<Dash, <<"h">> >>
MetricsSuffix == <<Dash, <<"m">> >>
LabelMetricsService == Char("metrics.kubedoop.dev/service")
LabelRolePodDisruptionBudget == Char("pdb.kubedoop.dev/role")
LabelRoleGroupPodDisruptionBudget == Char("pdb.kubedoop.dev/role-group")
True == Char("true")

\* The characters of the names the user chooses.
NameChars ==
  {Dash} \cup UNION {{n[i] : i \in DOMAIN n} : n \in {ClusterName} \cup Roles \cup Groups}

\* Names are such as the API server accepts in the name of an object.  The limit
\* of a resource name leaves room for the suffix of the headless Service.
ASSUME NamesAssumption ==
  /\ \A n \in {ClusterName} \cup Roles \cup Groups : n \in Seq(NameChars) /\ n # << >>
  /\ \A g \in Groups : g[Len(g)] # Dash
  /\ \A c \in NameChars : Len(c) = 1
  /\ Domains \subseteq BOOLEAN
ASSUME LengthsAssumption ==
  /\ MaxRoleGroupNameLen \in Nat /\ MaxLabelLen \in Nat /\ HashLen \in Nat
  /\ MaxRoleGroupNameLen > HashLen + 1
  /\ MaxRoleGroupNameLen + Len(HeadlessSuffix) <= MaxLabelLen

\* The length of a name: its hash counts for HashLen characters.
NameLen(name) ==
  Len(name) + Cardinality({i \in DOMAIN name : Len(name[i]) > 1}) * (HashLen - 1)

-----------------------------------------------------------------------------
(* Names.                                                                   *)

\* strings.TrimRight(name, "-").
TrimRight(name) ==
  LET kept == {i \in DOMAIN name : name[i] # Dash}
  IN SubSeq(name, 1, IF kept = {} THEN 0 ELSE CHOOSE i \in kept : \A j \in kept : j <= i)

\* A name over the limit keeps its head and a hash of all of it.
Bounded(name, limit) ==
  IF NameLen(name) <= limit THEN name
  ELSE TrimRight(SubSeq(name, 1, limit - HashLen - 1)) \o <<Dash, Hash(name)>>

PlainName(role, group) == ClusterName \o <<Dash>> \o role \o <<Dash>> \o group

\* Mutant: the name is cut at the limit.
CutResourceName(role, group) ==
  IF NameLen(PlainName(role, group)) <= MaxRoleGroupNameLen THEN PlainName(role, group)
  ELSE TrimRight(SubSeq(PlainName(role, group), 1, MaxRoleGroupNameLen))

RoleGroupResourceName(role, group) == Bounded(PlainName(role, group), MaxRoleGroupNameLen)

\* Not bounded: a PodDisruptionBudget's name may have 253 bytes.
RoleResourceName(role) == ClusterName \o <<Dash>> \o role

\* "<cluster>-<group>" where that is a legal label key.
RoleGroupMarkerLabelKey(role, group) ==
  LET key == ClusterName \o <<Dash>> \o group
  IN IF NameLen(key) <= MaxLabelLen THEN key ELSE RoleGroupResourceName(role, group)

-----------------------------------------------------------------------------
(* Labels: functions from keys to values.                                   *)

NoLabels == [k \in {} |-> True]
Label(k, v) == [l \in {k} |-> v]

\* The labels f, and those of g under other keys.
Over(f, g) == [k \in DOMAIN f \cup DOMAIN g |-> IF k \in DOMAIN f THEN f[k] ELSE g[k]]

\* Mutant: the labels of the CR reach the objects as they are.
AllLabels(keys) == [k \in keys |-> True]

\* The CR's labels without the markers that make an object a reclaim's target.
handlerWritableLabels(keys) ==
  [k \in keys \ {LabelMetricsService, LabelRolePodDisruptionBudget,
                 LabelRoleGroupPodDisruptionBudget} |-> True]

\* Role-level objects carry no label of a group.
recommendedLabels(role) ==
  Over(Label(Char("instance"), ClusterName),
       Over(Label(Char("component"), role), Label(Char("managed-by"), Char("operator-go"))))

frameworkSelectorLabels(s) ==
  Over(recommendedLabels(s.role), Label(RoleGroupMarkerLabelKey(s.role, s.group), True))

roleIdentityLabels(role) ==
  IF ~labelDomain THEN NoLabels
  ELSE Over(Label(Char("domain/cluster"), ClusterName), Label(Char("domain/role"), role))

identityLabels(s) ==
  IF ~labelDomain THEN NoLabels
  ELSE Over(roleIdentityLabels(s.role), Label(Char("domain/role-group"), s.group))

buildSelectorLabels(s) == IF labelDomain THEN identityLabels(s) ELSE frameworkSelectorLabels(s)

\* The labels of a group's objects and pods: the framework's over the CR's.
buildLabels(s) ==
  Over(identityLabels(s),
       Over(frameworkSelectorLabels(s),
            Over(Over(recommendedLabels(s.role), Label(Char("role-group"), s.group)),
                 handlerWritableLabels(crLabels))))

buildRoleSelectorLabels(role) == IF labelDomain THEN roleIdentityLabels(role) ELSE recommendedLabels(role)

buildRoleLabels(role) ==
  Over(roleIdentityLabels(role), Over(recommendedLabels(role), handlerWritableLabels(crLabels)))

\* markRolePodDisruptionBudget: the role, on the budget the role gets.
RolePDBLabels(role) == Over(Label(LabelRolePodDisruptionBudget, role), buildRoleLabels(role))

\* markRoleGroupPodDisruptionBudget: the group, on one its handler builds.
GroupPDBLabels(s) == Over(Label(LabelRoleGroupPodDisruptionBudget, s.group), buildLabels(s))

-----------------------------------------------------------------------------
(* What a reclaim finds under a name, and takes for the framework's own.    *)

\* Label l is v.
Labelled(labels, l, v) == l \in DOMAIN labels /\ labels[l] = v

isFrameworkRoleGroupPDB(labels, s) ==
  \/ Labelled(labels, LabelRoleGroupPodDisruptionBudget, s.group)
  \/ /\ Labelled(labels, Char("managed-by"), Char("operator-go"))
     /\ Labelled(labels, RoleGroupMarkerLabelKey(s.role, s.group), True)

\* reclaimRoleGroupPDB of group s deletes the budget of role r.
TakesRolePDB(s, role) ==
  /\ RoleGroupResourceName(s.role, s.group) = RoleResourceName(role)
  /\ isFrameworkRoleGroupPDB(RolePDBLabels(role), s)

\* reclaimMetricsService of group s deletes the client Service of group t.
TakesService(s, t) ==
  /\ RoleGroupResourceName(s.role, s.group) \o MetricsSuffix = RoleGroupResourceName(t.role, t.group)
  /\ Labelled(buildLabels(t), LabelMetricsService, True)

\* cleanupOrphanedRolePDBs, which goes by the label, deletes a budget with
\* these labels.
TakesAsOrphan(labels) ==
  /\ LabelRolePodDisruptionBudget \in DOMAIN labels
  /\ labels[LabelRolePodDisruptionBudget] \notin {s.role : s \in slots}

-----------------------------------------------------------------------------
(* The user declares and removes groups, and labels the CR.                 *)

Slot(role, group) == [role |-> role, group |-> group]

NamesInit == slots = {} /\ crLabels = {} /\ labelDomain \in Domains

DeclareGroup(role, group) ==
  /\ Cardinality(slots) < MaxSlots
  /\ slots' = slots \cup {Slot(role, group)}
  /\ UNCHANGED <<crLabels, labelDomain>>

RemoveGroup(s) == slots' = slots \ {s} /\ UNCHANGED <<crLabels, labelDomain>>

LabelCR(k) ==
  /\ crLabels' = IF k \in crLabels THEN crLabels \ {k} ELSE crLabels \cup {k}
  /\ UNCHANGED <<slots, labelDomain>>

NamesNext ==
  \/ \E r \in Roles, g \in Groups : DeclareGroup(r, g)
  \/ \E s \in slots : RemoveGroup(s)
  \/ \E k \in LabelKeys : LabelCR(k)

NamesSpec == NamesInit /\ [][NamesNext]_nameVars

-----------------------------------------------------------------------------
(* Properties.                                                              *)

\* Two groups whose names put together differ never share the name of their
\* StatefulSet, ConfigMap and Services, however long the names and whatever
\* the cut leaves of them; a name is legal and leaves room for the suffix of
\* the headless Service (RoleGroupResourceName and its hash).
ResourceNamesDistinct ==
  /\ \A s, t \in slots : PlainName(s.role, s.group) # PlainName(t.role, t.group) =>
       RoleGroupResourceName(s.role, s.group) # RoleGroupResourceName(t.role, t.group)
  /\ \A s \in slots : LET name == RoleGroupResourceName(s.role, s.group)
                      IN /\ NameLen(name \o HeadlessSuffix) <= MaxLabelLen
                         /\ name[Len(name)] # Dash

\* A pod answers to a selector that asks for these labels.
Selects(selector, labels) == \A k \in DOMAIN selector : Labelled(labels, k, selector[k])

\* The user put the marker of group s on the CR, from where every pod of the
\* cluster inherits it.
MarkerOnCR(s) == RoleGroupMarkerLabelKey(s.role, s.group) \in crLabels

\* The selector of group s asks of its role's pods for no more than the CR
\* gives each of them.
SelectorGivenAway(s) == ~labelDomain /\ MarkerOnCR(s)

\* For any labels of the CR: a role's budget takes in the pods of that role
\* alone, and no reclaim takes the client Service of another group or the
\* budget of a role that is declared.  A group's selector takes in its own
\* pods, and those of another group exactly when that is of the same role, the
\* product has no label domain and the CR carries the marker of the first; and
\* the reclaim of a group takes the budget of a role whose name its own equals
\* exactly under that marker.  handlerWritableLabels keeps the reclaim markers
\* off the objects, but not these (the precedence of buildLabels,
\* handlerWritableLabels, the slot markers).
SlotsSeparate ==
  \A s, t \in slots :
    /\ Selects(buildSelectorLabels(s), buildLabels(t)) <=>
         s = t \/ (s.role = t.role /\ SelectorGivenAway(s))
    /\ Selects(buildRoleSelectorLabels(s.role), buildLabels(t)) <=> s.role = t.role
    /\ ~TakesService(s, t)
    /\ TakesRolePDB(s, t.role) <=>
         RoleGroupResourceName(s.role, s.group) = RoleResourceName(t.role) /\ MarkerOnCR(s)
    /\ ~TakesAsOrphan(RolePDBLabels(s.role)) /\ ~TakesAsOrphan(GroupPDBLabels(s))
=============================================================================
