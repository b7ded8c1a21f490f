--------------------------- MODULE RoleGroupBuild ---------------------------
(***************************************************************************)
(* The build of a role group: the gates before it (validateDependencies,   *)
(* declareRoles), its context (buildRoleGroupContext), BuildResources of   *)
(* the base handler and the apply of its ConfigMap and StatefulSet.        *)
(* Clusters are reconciled by concurrent workers that share one handler    *)
(* and the SidecarManager registered with it; the reconciler gives every   *)
(* build a manager of its own, a product that calls the handler directly   *)
(* has the handler's.  The inputs of a build (the CR, the declaration of   *)
(* its role, what the product registers, the objects it refers to) are one *)
(* record.                                                                 *)
(***************************************************************************)
EXTENDS PodAssembly

CONSTANTS
  Inputs,            \* cluster |-> the inputs a build of it may have
  HandlerSidecars,   \* the manager registered with the handler; empty: it has none
  MaxEdits           \* bound on the changes of inputs

Clusters == DOMAIN Inputs

VARIABLES
  input,      \* cluster |-> its inputs as they are
  managers,   \* the handler's SidecarManager and those of the builds
  build,      \* cluster |-> its running build
  configMap,  \* cluster |-> its ConfigMap in the API server
  workload,   \* cluster |-> its StatefulSet in the API server
  edits       \* the changes so far

buildVars == <<input, managers, build, configMap, workload, edits>>

Handler == "handler"
Nowhere == [exists |-> FALSE]
Idle == [at |-> "idle"]

\* What the types of the code guarantee of a container, a mount and the
\* configuration of a sidecar.
IsMount(m) == m = <<m[1], m[2]>>
IsContainer(k) == k = Container(k.image, k.mounts) /\ \A m \in k.mounts : IsMount(m)
IsSidecar(cfg) ==
  /\ cfg = [image |-> cfg.image, phase |-> cfg.phase, enabled |-> cfg.enabled]
  /\ cfg.image \in {NoImage, OwnImage} /\ cfg.enabled \in BOOLEAN

ASSUME InputsAssumption ==
  /\ Handler \notin Clusters
  /\ \A n \in DOMAIN HandlerSidecars : IsSidecar(HandlerSidecars[n])
  /\ \A c \in Clusters : \A in \in Inputs[c] :
       /\ \A k \in allPodContainers(in.overrides) : IsContainer(k)
       /\ ~in.overrides.set => in.overrides = NoOverrides
       /\ \A m \in in.provided.mounts : IsMount(m)
       /\ \A n \in DOMAIN in.sidecars : IsSidecar(in.sidecars[n])

InputChoices ==
  {f \in [Clusters -> UNION {Inputs[c] : c \in Clusters}] : \A c \in Clusters : f[c] \in Inputs[c]}

BuildInit ==
  /\ input \in InputChoices
  /\ managers = [m \in Clusters \cup {Handler} |-> IF m = Handler THEN HandlerSidecars ELSE << >>]
  /\ build = [c \in Clusters |-> Idle]
  /\ configMap = [c \in Clusters |-> Nowhere] /\ workload = [c \in Clusters |-> Nowhere]
  /\ edits = 0

-----------------------------------------------------------------------------
(* The gates and the context.                                               *)

\* ValidateConfigMap and ValidateSecret, against the API server.
ObjectExists(d) == d.kind \in {"ConfigMap", "Secret"} /\ d.name = "there"

\* validateDependencies: each is of a known kind, named, and there.
DependenciesMet(in) == \A d \in in.dependencies : ObjectExists(d)

LogDirSegment(p) == IF p.dir = "" THEN p.container ELSE p.dir
ContainerLogFileName(p) == <<p.container, p.framework>>

\* The file a producer logs to: its directory and its name.
LogFile(p) == <<LogDirSegment(p), IF p.file = "" THEN ContainerLogFileName(p) ELSE p.file>>

\* Unless the framework renders the configuration, the product names the
\* file; its name is a bare one with a suffix the agent looks for; no two
\* producers write one file.
ValidateProducers(producers) ==
  /\ \A p \in producers : p.framework = "" => p.file # "" /\ p.suffixKnown
  /\ \A p, q \in producers : p # q => LogFile(p) # LogFile(q)

\* RoleDeclaration.Validate.
ValidateDeclaration(decl) ==
  /\ \A d \in decl.data : d.path # "" /\ d.name \notin reservedVolumeNames
  /\ decl.servicePorts => decl.containerPorts
  /\ ValidateProducers(decl.producers)

\* declareRoles with ValidateCatalog: the product knows the role.
RolesDeclared(in) == in.known /\ ValidateDeclaration(in.decl)

IsAgentEnabled(in) == in.agent

\* resolveVectorAggregatorAddress: asked of a CR that names an aggregator,
\* when there is something to ship to it.
AddressResolves(in) ==
  IsAgentEnabled(in) /\ in.decl.producers # {} /\ in.aggregator # "notProvider"
    => in.aggregator = "found"

HasAddress(in) == IsAgentEnabled(in) /\ in.decl.producers # {} /\ in.aggregator = "found"

vectorConfigIsProvided(in) == in.aggregator # "notProvider" \/ in.decl.ownsVectorConfig

AgentRuns(in) == IsAgentEnabled(in) /\ in.decl.producers # {} /\ vectorConfigIsProvided(in)

\* buildSidecarManager, and what the product registers with it.
buildSidecarManager(in) ==
  [n \in DOMAIN in.sidecars \cup (IF AgentRuns(in) THEN {"vector"} ELSE {}) |->
     IF n \in DOMAIN in.sidecars THEN in.sidecars[n] ELSE Sidecar(NoImage, SidecarPhasePipeline)]

\* Mutant: the build works on the handler's manager itself.
SharedForBuild(ms, c) == [managers |-> ms, ref |-> Handler]

CloneForBuild(ms, c) == [managers |-> [ms EXCEPT ![c] = ms[Handler]], ref |-> c]

\* The manager the build of cluster c works on.
ManagerFor(c, in) ==
  IF in.direct THEN CloneForBuild(managers, c)
  ELSE [managers |-> [managers EXCEPT ![c] = buildSidecarManager(in)], ref |-> c]

GatesOpen(in) == in.direct \/ (DependenciesMet(in) /\ RolesDeclared(in) /\ AddressResolves(in))

BeginBuild(c) ==
  LET in == input[c]
      m == ManagerFor(c, in)
  IN /\ build[c] = Idle
     /\ GatesOpen(in)
     /\ managers' = m.managers
     /\ build' = [build EXCEPT ![c] = [at |-> "begun", in |-> in, ref |-> m.ref]]
     /\ UNCHANGED <<input, configMap, workload, edits>>

\* A gate refuses: the pass ends and is tried again.
RefuseBuild(c) ==
  /\ build[c] = Idle /\ ~GatesOpen(input[c])
  /\ UNCHANGED buildVars

-----------------------------------------------------------------------------
(* BuildResources.                                                          *)

Drop(c) == build' = [build EXCEPT ![c] = Idle]

\* The reconciler gives every build a manager, the handler where it has one.
HasManager(in) == ~in.direct \/ DOMAIN HandlerSidecars # {}

\* Without a manager nothing asks for the image here.
PropagateImage(c) ==
  LET b == build[c]
  IN /\ b.at = "begun"
     /\ IF b.in.image = NoImage /\ HasManager(b.in)
        THEN Drop(c) /\ UNCHANGED managers
        ELSE /\ managers' = [managers EXCEPT ![b.ref] = SetProductImage(@, b.in.image)]
             /\ build' = [build EXCEPT ![c].at = "stamped"]
     /\ UNCHANGED <<input, configMap, workload, edits>>

\* Mutant: the flag alone turns the file appender on.
PipelineByFlag(in) == IsAgentEnabled(in)

\* The agent is really there; of a context made by hand only the flag is known.
vectorLogPipelineActive(in) == IsAgentEnabled(in) /\ (in.direct \/ AgentRuns(in))

\* RenderLoggingConfigMapData: one file per producer the framework renders
\* for, and the agent's own.
Rendered(in) == {p \in in.decl.producers : p.framework # ""}
AgentConfig(in) == IF vectorLogPipelineActive(in) /\ HasAddress(in) THEN {"vector.yaml"} ELSE {}
LoggingFiles(in) == {p.config : p \in Rendered(in)} \cup AgentConfig(in)

\* Where the configuration a product writes itself sends the log of p: to its
\* file, or to none.
Console == << >>
LogFileTarget(in, p) == IF vectorLogPipelineActive(in) THEN LogFile(p) ELSE Console

\* A file name is taken once; a log file keeps the suffix of its framework.
ConfigRefused(in) ==
  \/ ~ValidateProducers(in.decl.producers)
  \/ Cardinality(LoggingFiles(in)) # Cardinality(Rendered(in)) + Cardinality(AgentConfig(in))
  \/ LoggingFiles(in) \cap in.files # {}
  \/ vectorLogPipelineActive(in) /\ \E p \in Rendered(in) : p.file # "" /\ ~p.suffixKnown

buildConfigMap(in) ==
  [exists |-> TRUE, in |-> in, keys |-> in.files \cup LoggingFiles(in),
   fileAppender |-> vectorLogPipelineActive(in),
   targets |-> {<<p.container, LogFileTarget(in, p)>> : p \in in.decl.producers \ Rendered(in)}]

\* validateRoleGroupResources: the extra objects are named, in the namespace
\* of the cluster, and none is the object of a slot or of another extra.
validateRoleGroupResources(c, in) ==
  /\ \A e \in in.extras : e.name # "" /\ e.namespace = "own"
  /\ ~\E e \in in.extras : e.kind \in {"ConfigMap", "StatefulSet"} /\ e.name = c

\* The pod template with the overrides merged, and the sidecars to inject.
Assemble(c) ==
  LET b == build[c]
      base == Build(c, b.in)
      merged == strategicMergePodTemplate(base, b.in.overrides, b.in.decl.main)
  IN /\ b.at = "stamped"
     /\ IF ConfigRefused(b.in) \/ b.in.badTimeout \/ PodOverridesViolated(base, merged, b.in.overrides)
        THEN Drop(c)
        ELSE build' = [build EXCEPT ![c] = [at |-> "injecting", in |-> b.in, ref |-> b.ref,
                                            pod |-> merged, left |-> DOMAIN managers[b.ref]]]
     /\ UNCHANGED <<input, managers, configMap, workload, edits>>

\* One turn of InjectAll: of the sidecars left the first, if it is enabled.
InjectNext(c) ==
  LET b == build[c]
      manager == managers[b.ref]
      after(n) == IF manager[n].enabled THEN Inject(n, b.pod, manager[n], c, b.in) ELSE b.pod
  IN /\ b.at = "injecting"
     /\ \E n \in b.left :
          /\ \A m \in b.left \ {n} : InjectsBefore(manager, n, m)
          /\ IF manager[n].enabled /\ InjectFails(n, b.pod, manager[n], b.in)
             THEN Drop(c)
             ELSE build' = [build EXCEPT ![c].pod = after(n), ![c].left = @ \ {n}]
     /\ UNCHANGED <<input, managers, configMap, workload, edits>>

\* The handler returns what it built, and the reconciler looks it over.
CompleteBuild(c) ==
  LET b == build[c]
  IN /\ b.at = "injecting" /\ b.left = {}
     /\ IF Imageless(b.pod) \/ ~validateRoleGroupResources(c, b.in)
        THEN Drop(c)
        ELSE build' = [build EXCEPT ![c].at = "built"]
     /\ UNCHANGED <<input, managers, configMap, workload, edits>>

-----------------------------------------------------------------------------
(* applyResources.                                                          *)

ApplyConfigMap(c) ==
  /\ build[c].at = "built"
  /\ configMap' = [configMap EXCEPT ![c] = buildConfigMap(build[c].in)]
  /\ build' = [build EXCEPT ![c].at = "configured"]
  /\ UNCHANGED <<input, managers, workload, edits>>

\* Validate of each provider, against the API server.
VectorValid(c) == configMap[c].exists /\ "vector.yaml" \in configMap[c].keys
JMXValid(in) == in.jmxConfig
OAuth2Valid(in) == in.policy /\ in.secret

ValidateProvider(name, c, in) ==
  CASE name = "vector" -> VectorValid(c)
    [] name = "jmx-exporter" -> JMXValid(in)
    [] name = "oauth2-proxy" -> OAuth2Valid(in)
    [] OTHER -> TRUE

ValidateAll(manager, c, in) == \A n \in DOMAIN manager : manager[n].enabled => ValidateProvider(n, c, in)

\* Only the manager of the build context is validated, not the handler's.
validateSidecars(c) ==
  LET b == build[c] IN b.in.direct \/ ValidateAll(managers[b.ref], c, b.in)

\* The API server refuses names, paths and volumes given twice, and mounts
\* of no volume.
Admitted(pod) ==
  /\ DOMAIN pod.containers \cap DOMAIN pod.inits = {}
  /\ \A v, w \in pod.volumes : v[1] = w[1] => v = w
  /\ \A x \in allPodContainers(pod) : \A m, n \in x.mounts : m[1] = n[1] => m = n
  /\ \A x \in allPodContainers(pod) : \A m \in x.mounts : m[2] \in Declared(pod)

ApplyWorkload(c) ==
  LET b == build[c]
  IN /\ b.at = "configured"
     /\ workload' = IF validateSidecars(c) /\ Admitted(b.pod)
                    THEN [workload EXCEPT ![c] = [exists |-> TRUE, in |-> b.in, pod |-> b.pod]]
                    ELSE workload
     /\ Drop(c)
     /\ UNCHANGED <<input, managers, configMap, edits>>

\* The operator dies: the builds are lost, the objects stay.
CrashBuilds ==
  /\ build # [c \in Clusters |-> Idle]
  /\ build' = [c \in Clusters |-> Idle]
  /\ managers' = [m \in DOMAIN managers |-> IF m = Handler THEN HandlerSidecars ELSE << >>]
  /\ UNCHANGED <<input, configMap, workload, edits>>

EditInput(c) ==
  /\ edits < MaxEdits /\ edits' = edits + 1
  /\ \E in \in Inputs[c] \ {input[c]} : input' = [input EXCEPT ![c] = in]
  /\ UNCHANGED <<managers, build, configMap, workload>>

BuildNext ==
  \/ \E c \in Clusters : \/ BeginBuild(c) \/ RefuseBuild(c) \/ PropagateImage(c) \/ Assemble(c)
                         \/ InjectNext(c) \/ CompleteBuild(c)
                         \/ ApplyConfigMap(c) \/ ApplyWorkload(c) \/ EditInput(c)
  \/ CrashBuilds

BuildSpec == BuildInit /\ [][BuildNext]_buildVars

-----------------------------------------------------------------------------
(* Properties.                                                              *)

\* The build of cluster c has come to a pod.
Assembled(c) == build[c].at \in {"built", "configured"}

\* The user or the product names volume v for the pod.
NamesVolume(in, v) == v \in {w[1] : w \in in.overrides.volumes \cup in.provided.volumes}

\* A VolumeProvider asks for mount m in a build without podOverrides, where
\* nothing looks for the volume before the API server does.
Unchecked(in, m) == ~in.overrides.set /\ m \in in.provided.mounts

\* Whatever the overrides, a pod that is put together mounts its group's
\* ConfigMap in the main container where the product reads it, and its data
\* claims, unless an init container takes the name of the main one, which the
\* API server refuses; each mount has its volume, but for those of the product
\* that are checked only beside podOverrides; and no claim hides a volume of the
\* framework, also not one a sidecar adds after the overrides
\* (checkPodOverrideMountInvariants, RoleDeclaration.Validate).
FrameworkMountsKept ==
  \A c \in Clusters : Assembled(c) =>
    LET in == build[c].in
        pod == build[c].pod
        main == pod.containers[in.decl.main]
    IN /\ in.decl.main \notin DOMAIN pod.inits =>
            /\ <<ConfigPath, "config">> \in main.mounts
            /\ in.storage => \A d \in in.decl.data : <<d.path, ClaimName(d)>> \in main.mounts
       /\ NamesVolume(in, "config") \/ <<"config", c>> \in pod.volumes
       /\ \A x \in allPodContainers(pod) : \A m \in x.mounts :
            m[2] \in Declared(pod) \/ Unchecked(in, m)
       /\ ~in.direct => pod.claims \cap reservedVolumeNames = {}

\* The mounts the product and the user ask for.
MountsAsked(in) == in.provided.mounts \cup UNION {k.mounts : k \in allPodContainers(in.overrides)}

\* One of them mounts the log volume elsewhere, which the agent's provider
\* takes for its own mount.
LogVolumeElsewhere(in) == \E m \in MountsAsked(in) : m[2] = "log" /\ m[1] # LogPath

\* The overrides bring an init container by the name of a sidecar, or the
\* product an agent of its own: theirs is then not told from the framework's.
SidecarNamesTaken(in) ==
  \/ "vector" \in DOMAIN in.sidecars
  \/ DOMAIN in.overrides.inits \cap (DOMAIN in.sidecars \cup {"vector"}) # {}

\* The mounts of container n, of either kind.
MountsOf(pod, n) == IF n \in DOMAIN pod.containers THEN pod.containers[n].mounts ELSE pod.inits[n].mounts

\* The log files of a workload reach its agent.  The products write files,
\* where the framework renders their configuration and where they do, exactly
\* when there is an agent; it has its configuration, the one in the
\* ConfigMap of the group; it shares the log volume with every container that
\* writes, unless someone mounts that volume elsewhere; and no two write one
\* file.  Both objects are of the same input: between the two writes they
\* differ (vectorLogPipelineActive, buildSidecarManager, the order of
\* applyResources).
LogsReachAgent ==
  \A c \in Clusters :
    LET in == workload[c].in
        pod == workload[c].pod
        agent == "vector" \in DOMAIN pod.inits
        logs == IF LogVolumeElsewhere(in) THEN {} ELSE Producers(in)
    IN /\ workload[c].exists /\ configMap[c].exists /\ configMap[c].in = in
       /\ ~in.direct /\ ~SidecarNamesTaken(in)
       => /\ configMap[c].fileAppender <=> agent
          /\ \A t \in configMap[c].targets : t[2] # Console <=> agent
          /\ agent => /\ "vector.yaml" \in configMap[c].keys
                      /\ NamesVolume(in, "vector-config") \/ <<"vector-config", c>> \in pod.volumes
                      /\ \A n \in logs \cup {"vector"} : <<LogPath, "log">> \in MountsOf(pod, n)
          /\ \A p, q \in in.decl.producers : p # q => LogFile(p) # LogFile(q)

\* The containers of a workload run the image its own cluster asks for, but
\* for those that bring an image and those the overrides give one, and none
\* runs without; the image of another cluster, or of an earlier version, never
\* reaches it through the manager the clusters share (SetProductImage,
\* CloneForBuild).
ImagesOwn ==
  \A c \in Clusters : workload[c].exists =>
    LET in == workload[c].in
        given == {k.image : k \in allPodContainers(in.overrides)}
    IN \A x \in allPodContainers(workload[c].pod) :
         x.image # NoImage /\ x.image \in {in.image, OwnImage} \cup given
=============================================================================
