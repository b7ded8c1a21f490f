---------------------------- MODULE DesiredState ----------------------------
(***************************************************************************)
(* applyResource and copyDesiredState (pkg/reconciler/apply.go): how the   *)
(* object a handler builds is written over the live one.  The user edits   *)
(* the CR, so the handler builds something else; the API server fills in   *)
(* defaults, allocates node ports, and refuses changes of immutable fields *)
(* and objects that make no sense; the restarter stamps the pod template,  *)
(* and other controllers write into the object as well.                    *)
(*                                                                         *)
(* One object is followed in a behaviour.  An Update carries the           *)
(* resourceVersion that was read and a conflict changes nothing, so a read *)
(* and the Update it leads to are one step.                                *)
(***************************************************************************)
EXTENDS Integers, Sequences, FiniteSets

CONSTANTS
  Shapes,       \* kind |-> the objects the handler may build; the first is in Shapes too
  MaxReshapes,  \* bound on the user's edits
  MaxStamps     \* bound on what other controllers write, and on ConfigMap versions

VARIABLES
  kind,      \* the kind of the object, "none" until the CR asks for one
  desired,   \* what the handler builds
  live,      \* the object at the API server, or Absent
  ignored,   \* the paths the last apply reported as ImmutableFieldIgnored
  refused,   \* the API server refused the last Update
  version,   \* the version of the ConfigMap that the restarter watches
  reshapes, stamps

applyVars == <<kind, desired, live, ignored, refused, version, reshapes, stamps>>

ApplyKinds == {"sts", "svc", "job", "cm", "sa", "pdb", "extra", "discovery"}
Absent == [owner |-> "absent"]

ASSUME ShapesAssumption ==
  /\ DOMAIN Shapes = ApplyKinds
  /\ \A k \in ApplyKinds : IsFiniteSet(Shapes[k])
  /\ MaxReshapes \in Nat /\ MaxStamps \in Nat

ApplyInit ==
  /\ kind = "none" /\ desired = Absent /\ live = Absent
  /\ ignored = {} /\ refused = FALSE
  /\ version = 0 /\ reshapes = 0 /\ stamps = 0

SeqElems(s) == {s[i] : i \in DOMAIN s}

\* The function f, and g where f says nothing.
Overlay(f, g) == [x \in DOMAIN f \cup DOMAIN g |-> IF x \in DOMAIN f THEN f[x] ELSE g[x]]

-----------------------------------------------------------------------------
(* The API server.                                                          *)

\* What the server fills in of a claim template, and of a pod template.
ClaimFilled(c) == [c EXCEPT !.mode = IF @ = "" THEN "fs" ELSE @, !.phase = IF @ = "" THEN "pending" ELSE @]

NodePortsOf(obj) == {p.nodePort : p \in SeqElems(obj.ports)} \ {0}

\* The types of Service that are reached through node ports.
NodePorted(o) == o.type \in {"NodePort", "LoadBalancer"}

\* Every port without a node port gets one that neither object uses.
Allocated(old, new) ==
  LET used  == NodePortsOf(new) \cup (IF old = Absent THEN {} ELSE NodePortsOf(old))
      bare  == {i \in DOMAIN new.ports : new.ports[i].nodePort = 0}
      fresh(i) == CHOOSE n \in (1 .. Cardinality(used) + Len(new.ports)) \ used :
                    Cardinality({m \in 1 .. n - 1 : m \notin used})
                      = Cardinality({j \in bare : j < i})
  IN  [i \in DOMAIN new.ports |->
         IF i \in bare THEN [new.ports[i] EXCEPT !.nodePort = fresh(i)] ELSE new.ports[i]]

\* The object stored for new, an old one of the same name being there or not.
Stored(k, old, new) ==
  CASE k = "sts" -> [new EXCEPT !.claims = [i \in DOMAIN @ |-> ClaimFilled(@[i])],
                                !.policy = IF @ = "" THEN "ordered" ELSE @]
    [] k = "svc" -> [new EXCEPT !.clusterIP = IF @ = "" THEN "allocated" ELSE @,
                                !.loadBalancerClass = IF new.type = "LoadBalancer" THEN @ ELSE "",
                                !.ports = IF NodePorted(new) THEN Allocated(old, new)
                                          ELSE [i \in DOMAIN @ |-> [@[i] EXCEPT !.nodePort = 0]]]
    [] k = "job" -> [new EXCEPT !.selector = IF @ = "" THEN "generated" ELSE @,
                                !.template = [@ EXCEPT !.defaulted = TRUE],
                                !.completions = IF @ = 0 THEN 1 ELSE @]
    [] OTHER     -> new

\* A pod template that can run: every mount is backed, no path is used twice, and
\* the labels match the selector.
MountsBacked(o) ==
  /\ \A m \in o.mounts : m.volume \in o.volumes \cup {c.name : c \in SeqElems(o.claims)}
  /\ \A m, n \in o.mounts : m.container = n.container /\ m.path = n.path => m = n
SelectorMatches(o) == o.selector \subseteq o.templateLabels

\* No two ports on one node port.
NodePortsUnique(o) ==
  \A i, j \in DOMAIN o.ports :
    o.ports[i].nodePort = o.ports[j].nodePort /\ o.ports[i].nodePort # 0 => i = j

Immutable(k) ==
  CASE k = "sts" -> {"selector", "serviceName", "claims", "policy"}
    [] k = "svc" -> {"clusterIP", "loadBalancerClass"}
    [] k = "job" -> {"selector", "template", "completions"}
    [] OTHER     -> {}

\* Only a cluster-internal Service is headless, and one that gives up its node
\* ports or its load balancer may still name them.
ServiceAccepted(old, new) ==
  /\ NodePortsUnique(new)
  /\ new.clusterIP = "None" => new.type = "ClusterIP"
  /\ NodePorted(new)
       \/ NodePortsOf(new) \subseteq (IF old = Absent THEN {} ELSE NodePortsOf(old))
  /\ new.type = "LoadBalancer"
       \/ new.loadBalancerClass = (IF old = Absent THEN "" ELSE old.loadBalancerClass)

\* The server accepts new in the place of old.
Accepts(k, old, new) ==
  /\ old = Absent \/ \A f \in Immutable(k) : new[f] = old[f]
  /\ k = "sts" => MountsBacked(new) /\ SelectorMatches(new)
  /\ k = "svc" => ServiceAccepted(old, new)

\* The fields that copyDesiredState and the API server tell apart.
FieldsOf(k) ==
  {"owner", "labels", "annotations"} \cup
  CASE k = "sts" -> {"selector", "serviceName", "policy", "claims", "containers", "volumes",
                     "mounts", "templateLabels", "templateAnnotations"}
    [] k = "svc" -> {"type", "clusterIP", "loadBalancerClass", "ports"}
    [] k = "job" -> {"selector", "template", "completions", "parallelism"}
    [] OTHER     -> {"fields"}

\* A sequence of records with these fields.
IsList(s, fields) ==
  s \in Seq(SeqElems(s)) /\ \A i \in DOMAIN s : s[i] = [f \in fields |-> s[i][f]]
IsClaims(s) == IsList(s, {"name", "size", "mode", "phase"})
IsPorts(s) == IsList(s, {"name", "port", "nodePort"})

\* Names and numbers are unique in a Service.
PortsDistinct(ports) ==
  \A i, j \in DOMAIN ports :
    i # j => ports[i].port # ports[j].port /\ (ports[i].name = "" \/ ports[i].name # ports[j].name)

\* Handlers build what the API server would accept as a new object.
ASSUME HandlersAssumption ==
  \A k \in ApplyKinds : \A d \in Shapes[k] :
    /\ DOMAIN d = FieldsOf(k) /\ Accepts(k, Absent, d)
    /\ k = "sts" => IsClaims(d.claims)
    /\ k = "svc" => IsPorts(d.ports) /\ PortsDistinct(d.ports)

-----------------------------------------------------------------------------
(* copyDesiredState: want is the handler's object, have the live one.       *)

\* mergeAnnotations, for an object's own annotations and for a template's.
mergeAnnotations(have, want) == Overlay(want, have)

\* Mutant: the live claim templates are compared as they are.
claimTemplatesDifferExactly(want, have) == want # have

\* claimTemplateAsRequested: what the server filled in and the handler left out.
claimTemplateAsRequested(want, have) ==
  [have EXCEPT !.mode = IF want.mode = "" THEN "" ELSE @,
               !.phase = IF want.phase = "" THEN "" ELSE @]

claimTemplatesDiffer(want, have) ==
  \/ Len(want) # Len(have)
  \/ \E i \in DOMAIN want : want[i] # claimTemplateAsRequested(want[i], have[i])

\* Mutants: mounts of claims that do not exist are kept; those of claims that are
\* no longer asked for are not put back.
KeepDangling(want, have) ==
  LET names(cs) == {c.name : c \in SeqElems(cs)}
      gone == names(have.claims) \ names(want.claims)
  IN  want.mounts \cup {m \in have.mounts : m.volume \in gone /\ m.container \in want.containers}
DropOnly(want, have) ==
  {m \in want.mounts :
     m.volume \in want.volumes \cup {c.name : c \in SeqElems(have.claims)}}

\* reconcileClaimVolumeMounts: a mount of a claim that was not created is dropped,
\* unless an ordinary volume backs it; a preserved claim that is not asked for any
\* more keeps its mounts, where its container still exists and the path is free.
reconcileClaimVolumeMounts(want, have) ==
  LET names(cs) == {c.name : c \in SeqElems(cs)}
      created == names(have.claims)
      asked   == names(want.claims)
      kept == {m \in want.mounts : m.volume \notin (asked \ created) \ want.volumes}
  IN  kept \cup {m \in have.mounts :
                   /\ m.volume \in created \ asked
                   /\ m.container \in want.containers
                   /\ ~\E n \in kept : n.container = m.container /\ n.path = m.path}

\* Mutant: the template's annotations are the handler's.
TemplateAnnotationsReplaced(want, have) == want.templateAnnotations

TemplateAnnotations(want, have) ==
  mergeAnnotations(have.templateAnnotations, want.templateAnnotations)

copyStatefulSetState(want, have) ==
  [want EXCEPT
     !.selector = have.selector, !.serviceName = have.serviceName,
     !.claims = have.claims, !.policy = have.policy,
     !.mounts = IF claimTemplatesDiffer(want.claims, have.claims)
                THEN reconcileClaimVolumeMounts(want, have) ELSE @,
     !.templateAnnotations = TemplateAnnotations(want, have)]

\* Mutant: a renamed port is a new one.
findByNameOnly(ports, p) == {i \in DOMAIN ports : ports[i].name = p.name}

\* The live ports that findServicePort may take p for: by name, else by number.
\* Names and numbers are unique in a Service.
findServicePort(ports, p) ==
  LET byName == {i \in DOMAIN ports : p.name # "" /\ ports[i].name = p.name}
  IN  IF byName # {} THEN byName ELSE {i \in DOMAIN ports : ports[i].port = p.port}

CarriedPort(ports, p) ==
  LET found == findServicePort(ports, p)
  IN  IF p.nodePort # 0 \/ found = {} THEN p
      ELSE [p EXCEPT !.nodePort = ports[CHOOSE i \in found : TRUE].nodePort]

copyServiceState(want, have) ==
  [want EXCEPT !.clusterIP = have.clusterIP, !.loadBalancerClass = have.loadBalancerClass,
               !.ports = [i \in DOMAIN @ |-> CarriedPort(have.ports, @[i])]]

copyJobState(want, have) ==
  [want EXCEPT !.selector = have.selector, !.template = have.template,
               !.completions = have.completions]

\* Mutant: the status is part of the payload.
copyGenericAll(want, have) == Overlay(want.fields, have.fields)

\* copyGenericState: the top-level fields the handler set, except the status, over
\* the live ones.
copyGenericFields(want, have) ==
  Overlay([f \in DOMAIN want.fields \ {"status"} |-> want.fields[f]], have.fields)

\* EnsureDiscoveryConfigMap, which the product calls from a hook, replaces the data
\* too.
EnsureDiscoveryConfigMap(want, have) == want

\* The rule of each kind.  A ConfigMap's data and a budget's spec are replaced, a
\* ServiceAccount has nothing to copy.
CopiedSpec(k, want, have) ==
  CASE k = "sts" -> copyStatefulSetState(want, have)
    [] k = "svc" -> copyServiceState(want, have)
    [] k = "job" -> copyJobState(want, have)
    [] k \in {"cm", "pdb"} -> want
    [] k = "discovery" -> EnsureDiscoveryConfigMap(want, have)
    [] k = "sa"  -> [want EXCEPT !.fields = have.fields]
    [] k = "extra" -> [want EXCEPT !.fields = copyGenericFields(want, have)]

\* Labels are the handler's, annotations are merged, the CR becomes the controller.
copyDesiredState(k, want, have) ==
  [CopiedSpec(k, want, have) EXCEPT
     !.owner = "cr", !.annotations = mergeAnnotations(have.annotations, want.annotations)]

\* The preserved paths whose desired value, when the handler states one, differs.
Ignored(k, want, have) ==
  CASE k = "sts" ->
         {f \in {"selector"} : want.selector # {} /\ want.selector # have.selector}
         \cup {f \in {"serviceName"} : want.serviceName # "" /\ want.serviceName # have.serviceName}
         \cup {f \in {"claims"} : claimTemplatesDiffer(want.claims, have.claims)}
         \cup {f \in {"policy"} : want.policy # "" /\ want.policy # have.policy}
    [] k = "svc" ->
         {f \in {"clusterIP"} : want.clusterIP # "" /\ want.clusterIP # have.clusterIP}
    [] k = "job" ->
         {f \in {"template"} : want.template # have.template}
         \cup {f \in {"completions"} : want.completions # 0 /\ want.completions # have.completions}
    [] OTHER -> {}

-----------------------------------------------------------------------------
(* Steps.                                                                   *)

\* applyResource creates the object,
CreateResource ==
  /\ kind # "none" /\ live = Absent
  /\ live' = Stored(kind, Absent, [desired EXCEPT !.owner = "cr"])
  /\ ignored' = {} /\ refused' = FALSE
  /\ UNCHANGED <<kind, desired, version, reshapes, stamps>>

\* or writes over the live one, unless another controller owns it.  The report is
\* made whether the Update is accepted or not.
UpdateResource ==
  /\ kind # "none" /\ live # Absent /\ live.owner # "other"
  /\ LET new == copyDesiredState(kind, desired, live) IN
     /\ refused' = ~Accepts(kind, live, new)
     /\ live' = IF refused' THEN live ELSE Stored(kind, live, new)
  /\ ignored' = Ignored(kind, desired, live)
  /\ UNCHANGED <<kind, desired, version, reshapes, stamps>>

ApplyResource == CreateResource \/ UpdateResource

\* Another controller's object is an error before anything is copied.
RejectForeign ==
  /\ kind # "none" /\ live # Absent /\ live.owner = "other"
  /\ ignored' = {} /\ refused' = FALSE
  /\ UNCHANGED <<kind, desired, live, version, reshapes, stamps>>

\* The user's edit makes the handler build something else.
Reshape ==
  /\ reshapes < MaxReshapes
  /\ reshapes' = reshapes + 1
  /\ \E k \in ApplyKinds : \E d \in Shapes[k] :
       /\ kind \in {"none", k} /\ d # desired
       /\ kind' = k /\ desired' = d
  /\ UNCHANGED <<live, ignored, refused, version, stamps>>

\* Something of another controller is already there under the name.
SquatObject ==
  /\ live = Absent /\ kind # "none" /\ stamps < MaxStamps
  /\ stamps' = stamps + 1
  /\ \E d \in Shapes[kind], o \in {"none", "other"} :
       live' = Stored(kind, Absent, [d EXCEPT !.owner = o])
  /\ UNCHANGED <<kind, desired, ignored, refused, version, reshapes>>

\* Others annotate the object, label it, and write its status or its tokens.
StampObject ==
  /\ live # Absent /\ stamps < MaxStamps
  /\ stamps' = stamps + 1
  /\ \/ live' = [live EXCEPT !.annotations = Overlay([a \in {"foreign"} |-> stamps'], @)]
     \/ live' = [live EXCEPT !.labels = @ \cup {"foreign"}]
     \/ kind \in {"sa", "extra"} /\ live' = [live EXCEPT !.fields = Overlay([f \in {"status"} |-> stamps'], @)]
  /\ UNCHANGED <<kind, desired, ignored, refused, version, reshapes>>

\* A new version of the ConfigMap, which leaves the StatefulSet's own spec alone.
NewConfig ==
  /\ kind = "sts" /\ version < MaxStamps
  /\ version' = version + 1
  /\ UNCHANGED <<kind, desired, live, ignored, refused, reshapes, stamps>>

\* The restarter, woken by every change of the StatefulSet or of the ConfigMap.
RestartPods ==
  /\ kind = "sts" /\ live # Absent /\ version > 0
  /\ live' = [live EXCEPT !.templateAnnotations = Overlay([a \in {"restarter"} |-> version], @)]
  /\ live' # live
  /\ UNCHANGED <<kind, desired, ignored, refused, version, reshapes, stamps>>

ApplyNext ==
  \/ CreateResource \/ UpdateResource \/ RejectForeign \/ Reshape \/ SquatObject \/ StampObject
  \/ NewConfig \/ RestartPods

\* Every pass applies every resource, and the restarter keeps up.
ApplyFairness == WF_applyVars(ApplyResource) /\ WF_applyVars(RestartPods)

ApplySpec == ApplyInit /\ [][ApplyNext]_applyVars /\ ApplyFairness

-----------------------------------------------------------------------------
(* Properties.                                                              *)

\* Two ports of the handler that findServicePort takes for one live port.
PortTakenTwice ==
  \E i, j \in DOMAIN desired.ports :
    /\ i # j /\ desired.ports[i].nodePort = 0
    /\ CarriedPort(live.ports, desired.ports[i]).nodePort
         = CarriedPort(live.ports, desired.ports[j]).nodePort
    /\ CarriedPort(live.ports, desired.ports[i]).nodePort # 0

\* copyDesiredState keeps the API server from refusing an edit of the CR for good:
\* whatever sequence of edits, squatters and defaults came before, an Update is
\* refused only where the code is known to give up, that is for a new label layout
\* the kept selector does not match, for two ports on one node port, and for a
\* headless Service, whose "None" is kept, that is to be reached from outside.
RefusedOnlyAsKnown ==
  [][UpdateResource /\ refused' =>
       \/ kind = "sts" /\ ~(live.selector \subseteq desired.templateLabels)
       \/ kind = "svc" /\ (PortTakenTwice \/ (live.clusterIP = "None" /\ desired.type # "ClusterIP"))]_applyVars

\* reconcileClaimVolumeMounts: a path that is backed by a volume claim does not
\* fall through to the container's own layer because storage was removed or
\* renamed in the CR, as long as the claim itself is still there.
DataStaysMounted ==
  [][UpdateResource /\ kind = "sts" /\ ~refused' =>
       \A m \in live.mounts :
         /\ m.volume \in {c.name : c \in SeqElems(live.claims)}
         /\ m.volume \notin {c.name : c \in SeqElems(desired.claims)}
         /\ m.container \in desired.containers
         => \E n \in live'.mounts : n.container = m.container /\ n.path = m.path]_applyVars

\* The handler has an opinion about an immutable field.
Stated(f) ==
  CASE f = "selector"    -> desired.selector # {}
    [] f = "completions" -> desired.completions # 0
    [] f \in {"claims", "template"} -> TRUE
    [] OTHER             -> desired[f] # ""

\* Fields that are kept and never reported.
KeptSilently(k) ==
  CASE k = "svc" -> {"loadBalancerClass"}
    [] k = "job" -> {"selector"}
    [] OTHER     -> {}

\* The edits an Update drops: the fields where the stored object differs from the
\* one that creating it anew would store.
Dropped ==
  {f \in Immutable(kind) \ KeptSilently(kind) :
     Stated(f) /\ live[f] # Stored(kind, Absent, desired)[f]}

\* The ImmutableFieldIgnored event leaves out no edit that is dropped, but for a
\* Service's load balancer class and a Job's selector, which are kept silently.
\* For a StatefulSet or a Service it warns of nothing else either; a Job's template
\* it names on every pass, since what the API server filled in counts as a
\* difference (copyJobState).
IgnoredIsTruthful ==
  [][UpdateResource /\ kind \in {"sts", "svc", "job"} /\ live.owner = "cr" =>
       /\ Dropped \subseteq ignored'
       /\ kind # "job" => ignored' = Dropped]_applyVars

\* A port that keeps its number, or its name, keeps its node port through renames
\* and renumberings, as long as the handler does not pin one.
NodePortsKept ==
  \A i \in DOMAIN live.ports, j \in DOMAIN live'.ports :
    /\ desired.ports[j].nodePort = 0 /\ live.ports[i].nodePort # 0
    /\ \/ live.ports[i].name # "" /\ live.ports[i].name = live'.ports[j].name
       \/ /\ live.ports[i].port = live'.ports[j].port
          /\ \A n \in DOMAIN live.ports : live.ports[n].name # live'.ports[j].name
    => live'.ports[j].nodePort = live.ports[i].nodePort

\* What others wrote survives every apply: annotations the handler does not set, the
\* status of an extra resource, the tokens of a ServiceAccount, and the node ports
\* the API server gave a Service that stays on node ports (copyGenericFields,
\* copyServiceState, findServicePort).
OthersWritesKept ==
  [][UpdateResource =>
       /\ \A a \in DOMAIN live.annotations \ DOMAIN desired.annotations :
            a \in DOMAIN live'.annotations /\ live'.annotations[a] = live.annotations[a]
       /\ kind \in {"sa", "extra"} /\ "status" \in DOMAIN live.fields =>
            live'.fields["status"] = live.fields["status"]
       /\ kind = "svc" /\ ~refused' /\ NodePorted(live') => NodePortsKept]_applyVars

\* Applying and restarting come to rest once the user and the others do: the
\* framework and the restarter do not undo each other's writes for ever.
RolloutSettles == <>[][FALSE]_live
=============================================================================
