---------------------------- MODULE PodAssembly ----------------------------
(***************************************************************************)
(* How the pod of a role group is put together: the StatefulSetBuilder     *)
(* (builder/statefulset_builder.go), the merge of the user's podOverrides  *)
(* and its invariants (builder/pod_override_merge.go), and the injection   *)
(* of sidecars (sidecar/manager.go and the providers).                     *)
(*                                                                         *)
(* A pod has containers and init containers by name, each an image and a   *)
(* set of mounts <<path, volume>>, and a set of volumes <<name, source>>;  *)
(* claims are the names of the volume claim templates.  Ports, probes,     *)
(* environments, resources and security contexts are set field by field    *)
(* and left out.                                                           *)
(***************************************************************************)
EXTENDS Integers, FiniteSets, Sequences

CONSTANT Alphabet    \* the names of sidecars, in the order of strings

NoImage == ""
Container(image, mounts) == [image |-> image, mounts |-> mounts]

\* podOverrides: none, or a layer that is there, which may be empty.
NoOverrides == [set |-> FALSE, containers |-> << >>, inits |-> << >>, volumes |-> {}]
EmptyOverrides == [NoOverrides EXCEPT !.set = TRUE]
NoVolumes == [volumes |-> {}, mounts |-> {}]

ConfigPath == "/config"
LogPath == "/log"

\* Names of volumes the framework gives a pod, which no claim may take.
reservedVolumeNames ==
  {"config", "log", "vector-config", "vector-data", "jmx-exporter-config"}

-----------------------------------------------------------------------------
(* The StatefulSetBuilder.                                                  *)

DefaultDataVolumeName == "data"
ClaimName(d) == IF d.name = "" THEN DefaultDataVolumeName ELSE d.name

\* The data claims of a role that declares data, when storage is configured,
\* and their mounts, under one name.
WithNamedStorage(in) ==
  LET data == IF in.storage THEN in.decl.data ELSE {}
  IN [claims |-> {ClaimName(d) : d \in data}, mounts |-> {<<d.path, ClaimName(d)>> : d \in data}]

\* The group's ConfigMap (named like its cluster c) and what the product's
\* VolumeProviders add, for the main container.
wireVolumes(c, in) ==
  [volumes |-> {<<"config", c>>} \cup in.provided.volumes,
   mounts |-> {<<ConfigPath, "config">>} \cup in.provided.mounts]

buildContainer(c, in) == Container(in.image, WithNamedStorage(in).mounts \cup wireVolumes(c, in).mounts)

buildPodSpec(c, in) ==
  [containers |-> [n \in {in.decl.main} |-> buildContainer(c, in)], inits |-> << >>,
   volumes |-> wireVolumes(c, in).volumes]

\* What Build starts from, before the overrides.
Build(c, in) ==
  LET spec == buildPodSpec(c, in)
  IN [containers |-> spec.containers, inits |-> spec.inits, volumes |-> spec.volumes,
      claims |-> WithNamedStorage(in).claims, replicas |-> IF in.stopped THEN 0 ELSE 1]

\* Mounts merge by path, and an image is replaced where one is given.
mergeContainer(base, over) ==
  Container(IF over.image = NoImage THEN base.image ELSE over.image,
            over.mounts \cup {m \in base.mounts : \A o \in over.mounts : o[1] # m[1]})

mergeContainers(base, over) ==
  [n \in DOMAIN base \cup DOMAIN over |->
     IF n \notin DOMAIN over THEN base[n]
     ELSE IF n \notin DOMAIN base THEN over[n]
     ELSE mergeContainer(base[n], over[n])]

\* A container without a name is the main one.
Addressed(containers, main) ==
  [n \in {IF k = "" THEN main ELSE k : k \in DOMAIN containers} |->
     IF n \in DOMAIN containers THEN containers[n] ELSE containers[""]]

\* strategicMergePodTemplate over clearSupersededUnions: volumes merge by
\* name, the source of the override in place of the other.  Where there are no
\* podOverrides there is nothing to merge.
strategicMergePodTemplate(pod, over, main) ==
  [containers |-> mergeContainers(pod.containers, Addressed(over.containers, main)),
   inits |-> mergeContainers(pod.inits, over.inits),
   volumes |-> over.volumes \cup {v \in pod.volumes : \A o \in over.volumes : o[1] # v[1]},
   claims |-> pod.claims, replicas |-> pod.replicas]

allPodContainers(pod) ==
  {pod.containers[n] : n \in DOMAIN pod.containers} \cup {pod.inits[n] : n \in DOMAIN pod.inits}

Declared(pod) == {v[1] : v \in pod.volumes} \cup pod.claims

\* Mutant: the merge is taken as it comes.
NoMountCheck(base, merged) == FALSE

\* Some mount of the framework was displaced, or a mount has no volume.  A
\* container is looked up by its name among the init containers first.
checkPodOverrideMountInvariants(base, merged) ==
  LET found(n) == IF n \in DOMAIN merged.inits THEN merged.inits[n] ELSE merged.containers[n]
      kept(containers) == \A n \in DOMAIN containers : containers[n].mounts \subseteq found(n).mounts
  IN \/ ~kept(base.containers) \/ ~kept(base.inits)
     \/ \E x \in allPodContainers(merged) : \E m \in x.mounts : m[2] \notin Declared(merged)

\* PodOverrideViolations: only a build with podOverrides is checked.
PodOverridesViolated(base, merged, over) == over.set /\ checkPodOverrideMountInvariants(base, merged)

-----------------------------------------------------------------------------
(* Sidecars.  A manager is a function from the names of the registered      *)
(* providers to their configurations.                                       *)

Sidecar(image, phase) == [image |-> image, phase |-> phase, enabled |-> TRUE]
SidecarPhaseProducer == 10
SidecarPhaseDefault == 50
SidecarPhasePipeline == 90
OwnImage == "own"    \* what a provider runs by default, not the product's image

\* By phase, then by name.
InjectsBefore(manager, a, b) ==
  \/ manager[a].phase < manager[b].phase
  \/ /\ manager[a].phase = manager[b].phase
     /\ \E i, j \in DOMAIN Alphabet : i < j /\ Alphabet[i] = a /\ Alphabet[j] = b

OwnsImage(name) == name = "oauth2-proxy"

\* Fills the images nobody configured; fails without an image.
SetProductImage(manager, image) ==
  [n \in DOMAIN manager |->
     IF manager[n].enabled /\ ~OwnsImage(n) /\ manager[n].image = NoImage
     THEN [manager[n] EXCEPT !.image = image] ELSE manager[n]]

AddVolumes(pod, volumes) ==
  [pod EXCEPT !.volumes = @ \cup {v \in volumes : \A o \in @ : o[1] # v[1]}]

\* A mount is taken to be there when its volume is mounted anywhere.
AddVolumeMounts(container, mounts) ==
  [container EXCEPT !.mounts = @ \cup {m \in mounts : \A o \in @ : o[2] # m[2]}]

AddOrReplaceInitContainer(pod, name, container) ==
  [pod EXCEPT !.inits = [n \in DOMAIN @ \cup {name} |-> IF n = name THEN container ELSE @[n]]]

InjectJMX(pod, cfg) ==
  AddVolumes(AddOrReplaceInitContainer(pod, "jmx-exporter",
               Container(cfg.image, {<<"/config/jmx-exporter", "jmx-exporter-config">>})),
             {<<"jmx-exporter-config", "jmx-exporter-config">>})

InjectOAuth2(pod, cfg) ==
  AddOrReplaceInitContainer(pod, "oauth2-proxy",
    Container(IF cfg.image = NoImage THEN OwnImage ELSE cfg.image, {}))

\* StaticContainerProvider: a container the product has put together.
InjectStatic(pod, name) == AddOrReplaceInitContainer(pod, name, Container(OwnImage, {}))

VectorAgent(cfg) ==
  Container(cfg.image, {<<"/etc/vector", "vector-config">>, <<"/var", "vector-data">>, <<LogPath, "log">>})

VectorVolumes(c) == {<<"vector-config", c>>, <<"vector-data", "empty">>, <<"log", "empty">>}

WithAgent(pod, cfg, c) ==
  AddVolumes(AddOrReplaceInitContainer(pod, "vector", VectorAgent(cfg)), VectorVolumes(c))

\* Every producer of logs gets the log volume, whichever kind of container it is.
ShareLogs(pod, producers) ==
  LET logs(containers) ==
        [n \in DOMAIN containers |-> IF n \in producers
                                     THEN AddVolumeMounts(containers[n], {<<LogPath, "log">>})
                                     ELSE containers[n]]
  IN [pod EXCEPT !.containers = logs(@), !.inits = logs(@)]

InjectVector(pod, cfg, c, producers) == ShareLogs(WithAgent(pod, cfg, c), producers)

Producers(in) == {p.container : p \in in.decl.producers}

Inject(name, pod, cfg, c, in) ==
  CASE name = "jmx-exporter" -> InjectJMX(pod, cfg)
    [] name = "oauth2-proxy" -> InjectOAuth2(pod, cfg)
    [] name = "vector" -> InjectVector(pod, cfg, c, Producers(in))
    [] OTHER -> InjectStatic(pod, name)

\* A provider returns an error: without an image, without a policy on who may
\* log in, and for a producer of logs that is no container of the pod.
InjectFails(name, pod, cfg, in) ==
  \/ name \in {"jmx-exporter", "vector"} /\ cfg.image = NoImage
  \/ name = "oauth2-proxy" /\ ~in.policy
  \/ name = "vector" /\ ~(Producers(in) \subseteq DOMAIN pod.containers \cup DOMAIN pod.inits \cup {"vector"})

-----------------------------------------------------------------------------

\* Nothing runs without an image, as a container of the overrides does that
\* addresses none of the pod's.
Imageless(pod) == \E x \in allPodContainers(pod) : x.image = NoImage
=============================================================================
