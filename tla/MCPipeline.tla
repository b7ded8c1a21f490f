----------------------------- MODULE MCPipeline -----------------------------
(* Small instances of what a pass goes through before it writes: the hooks *)
(* of the extensions and the errors they return (ExtensionRegistry), the   *)
(* names and labels of a group (RoleNames), the fold of the layers of its  *)
(* configuration (ConfigLayers), the files it is written to                *)
(* (ConfigFormats) and the build of its objects (RoleGroupBuild).  They    *)
(* share no state, so a behaviour follows one of them, the focus, and      *)
(* leaves the others in their initial states.                              *)
EXTENDS ExtensionRegistry, ErrorWalks, RoleNames, ConfigLayers, ConfigFormats, RoleGroupBuild

VARIABLE focus

pipelineVars == <<focus, hookVars, nameVars, layerVars, formatVars, buildVars>>

-----------------------------------------------------------------------------
(* The errors of hooks: a failure, an error of no type of the framework's,  *)
(* waits at the bounds of a delay, alone and joined.                        *)

MCHookErrors ==
  {RateLimit, Opaque, Wait(0),
   Joined(<<Wait(40), Wrapped(Joined(<<Wait(1), Wait(-1)>>))>>),
   Wrapped(Joined(<<Wait(5), EmptyJoin>>))}

\* The walks over the trees are the judgements the pass relies on.
MCTrees ==
  LET errors == MCHookErrors \cup {NoError, Failure, Wait(1), Wait(30)}
      joins  == {Joined(<<d, e>>) : d, e \in errors}
  IN joins \cup {Wrapped(e) : e \in joins}

ASSUME JudgesAssumption ==
  /\ Leafs(NoError) = {}
  /\ \A e \in MCTrees : JudgesError(e)
  /\ \A d, e \in MCTrees : JudgesJoin(<<d, e>>)

-----------------------------------------------------------------------------
(* Names: with a dash in the role or the group, at the limit, and past it,  *)
(* where two differ only in what is cut.                                    *)

Name(s) == [i \in DOMAIN s |-> <<s[i]>>]

MCCluster == Name(<<"c">>)
MCRoles == {Name(<<"d">>), Name(<<"d", "-", "x">>), Name(<<"d", "d">>)}
MCGroups ==
  {Name(<<"x">>), Name(<<"x", "-", "m">>),
   Name(<<"a", "a", "a", "a", "a", "x">>), Name(<<"a", "a", "a", "a", "a", "y">>),
   Name(<<"a", "a", "a", "a", "a", "a", "a", "x">>), Name(<<"a", "a", "a", "a", "a", "a", "a", "y">>)}
MCKeys ==
  {LabelMetricsService, LabelRoleGroupPodDisruptionBudget, LabelRolePodDisruptionBudget,
   Char("component"), Name(<<"c", "-", "x">>)}

-----------------------------------------------------------------------------
(* The leaves of each part of the configuration.                            *)

In(s, fs) == {s} \X fs
MCLeaves ==
  [resources |-> In("cpu", {"min", "max"}) \cup In("memory", {"limit"}) \cup In("storage", {"capacity"}),
   timeout |-> In("timeout", {"timeout"}),
   logging |-> In("vector", {"agent"}) \cup In("main", {"console", "logger"}),
   files |-> In("f", {"a", "b"}) \cup In("g", {"a"}),
   env |-> {"A", "B"} \X {"value"},
   cli |-> In("cli", {"args"}),
   pointer |-> In("pointer", {"value"}),
   bare |-> In("bare", {"value"}),
   composite |-> In("composite", {"a", "b"}),
   atomic |-> In("atomic", {"a", "b"}),
   affinity |-> In("affinity", {"node", "pod"}),
   pod |-> In("main", {"image", "env"}) \cup In("side", {"image"}) \cup In("spec", {"nodeSelector"}),
   unnamedImage |-> In("image", {"custom", "repo", "productVersion"}),
   image |-> In("image", {"custom", "repo", "productVersion", "kubedoopVersion", "pullPolicy"})]

-----------------------------------------------------------------------------
(* The characters that mean something to a format, and files of each; the   *)
(* product has a suffix of its own, longer than one of the defaults.        *)

MCLetters ==
  [properties |-> {"n", BS, "=", SP, "#"},
   env |-> {"a", BS, Quote, "$", NL},
   export |-> {"a", BS, SP, "="},
   ini |-> {"a", SP, "=", "[", "#"},
   xml |-> {"amp", "&", ";", CR, "control"}]
MCFiles == {<<"x", ".ini">>, <<"x", ".xml">>, <<"x", ".env">>, <<"setup", ".env">>}
MCProductFormats == <<"setup", ".env">> :> "export"

-----------------------------------------------------------------------------
(* The inputs of builds: one that goes through, and what may be different.  *)

Producer(container, framework) ==
  [container |-> container, framework |-> framework, dir |-> "", file |-> "",
   config |-> IF framework = "" THEN "" ELSE "logback.xml", suffixKnown |-> TRUE]

BaseInput ==
  [dependencies |-> {[kind |-> "Secret", name |-> "there"]}, known |-> TRUE,
   decl |-> [main |-> "main", data |-> {[name |-> "data", path |-> "/data"]},
             servicePorts |-> TRUE, containerPorts |-> TRUE,
             producers |-> {Producer("main", "logback")}, ownsVectorConfig |-> FALSE],
   image |-> "v1", agent |-> TRUE, aggregator |-> "found", files |-> {"site.xml"},
   storage |-> TRUE, badTimeout |-> FALSE, stopped |-> FALSE,
   overrides |-> NoOverrides, provided |-> NoVolumes, sidecars |-> << >>,
   policy |-> TRUE, secret |-> TRUE, jmxConfig |-> TRUE, extras |-> {}, direct |-> FALSE]

\* The image, the agent and its aggregator, storage.
PlainInputs ==
  {BaseInput, [BaseInput EXCEPT !.image = "v2"], [BaseInput EXCEPT !.image = NoImage],
   [BaseInput EXCEPT !.storage = FALSE, !.stopped = TRUE], [BaseInput EXCEPT !.badTimeout = TRUE],
   [BaseInput EXCEPT !.decl.data = {[name |-> "", path |-> "/data"]}]}
  \cup {[BaseInput EXCEPT !.aggregator = "notProvider", !.decl.ownsVectorConfig = f[1], !.files = {f[2]}] :
          f \in {<<FALSE, "site.xml">>, <<TRUE, "site.xml">>, <<TRUE, "vector.yaml">>}}
  \cup {[BaseInput EXCEPT !.agent = f[1], !.files = {f[2]}] :
          f \in {<<TRUE, "vector.yaml">>, <<FALSE, "vector.yaml">>, <<TRUE, "logback.xml">>}}
  \cup {[BaseInput EXCEPT !.agent = FALSE, !.aggregator = "unset"], [BaseInput EXCEPT !.agent = FALSE],
         [BaseInput EXCEPT !.agent = FALSE, !.decl.producers = {[Producer("main", "") EXCEPT !.file = "out"]}]}

\* Inputs the gates refuse.
GatedInputs ==
  {[BaseInput EXCEPT !.known = FALSE],
   [BaseInput EXCEPT !.aggregator = "unset"],
   [BaseInput EXCEPT !.dependencies = {[kind |-> "Secret", name |-> "absent"]}],
   [BaseInput EXCEPT !.decl.containerPorts = FALSE],
   [BaseInput EXCEPT !.decl.data = {[name |-> "log", path |-> "/data"]}]}

\* The producers of logs, the sidecar that ships them among them: it is
\* injected before the agent, with it or after it.
LoggedInputs ==
  LET both == {Producer("main", "logback"), Producer("shipper", "")}
      named == {Producer("main", "logback"), [Producer("shipper", "") EXCEPT !.file = "out"]}
      same == {[Producer(n, "logback") EXCEPT !.dir = "main", !.file = "out"] : n \in {"main", "shipper"}}
      rendered == {Producer("main", "logback"), Producer("shipper", "logback")}
  IN {[BaseInput EXCEPT !.decl.producers = p, !.sidecars = "shipper" :> Sidecar(OwnImage, SidecarPhaseProducer)] :
        p \in {both, named, same, rendered}}
     \cup {[BaseInput EXCEPT !.decl.producers = named, !.sidecars = "shipper" :> Sidecar(OwnImage, phase)] :
             phase \in {SidecarPhaseDefault, SidecarPhasePipeline + 5}}
     \cup {[BaseInput EXCEPT !.decl.producers = p] :
             p \in {{}, named, {[Producer("main", "") EXCEPT !.file = "out"]},
                    {[Producer("main", "logback") EXCEPT !.file = "out", !.suffixKnown = FALSE]},
                    {[Producer("main", "") EXCEPT !.file = "out", !.suffixKnown = FALSE]}}}

\* podOverrides and VolumeProviders.
OverriddenInputs ==
  {[BaseInput EXCEPT !.overrides = o] : o \in
     {[EmptyOverrides EXCEPT !.containers = "" :> Container("patched", {})],
      [EmptyOverrides EXCEPT !.containers = "main" :> Container(NoImage, {<<ConfigPath, "tmp">>}),
                          !.volumes = {<<"tmp", "empty">>}],
      [EmptyOverrides EXCEPT !.containers = "main" :> Container(NoImage, {<<"/data", "config">>})],
      [EmptyOverrides EXCEPT !.containers = "main" :> Container(NoImage, {<<"/tmp", "tmp">>})],
      [EmptyOverrides EXCEPT !.containers = "main" :> Container(NoImage, {<<"/elsewhere", "log">>}),
                          !.volumes = {<<"log", "host">>}],
      [EmptyOverrides EXCEPT !.containers = "helper" :> Container(NoImage, {})],
      [EmptyOverrides EXCEPT !.containers = "vector" :> Container("patched", {})],
      [EmptyOverrides EXCEPT !.inits = "setup" :> Container("patched", {<<ConfigPath, "config">>})],
      [EmptyOverrides EXCEPT !.inits = "main" :> Container("patched", {})],
      [EmptyOverrides EXCEPT !.containers = "main" :> Container(NoImage, {<<ConfigPath, "tmp">>}),
                          !.inits = "main" :> Container("patched", {<<ConfigPath, "config">>, <<"/data", "data">>}),
                          !.volumes = {<<"tmp", "empty">>}],
      [EmptyOverrides EXCEPT !.volumes = {<<"config", "theirs">>}],
      [EmptyOverrides EXCEPT !.volumes = {<<"vector-config", "theirs">>}]}}
  \cup {[BaseInput EXCEPT !.overrides = o, !.provided.mounts = {<<"/tls", "tls">>}] :
           o \in {NoOverrides, EmptyOverrides}}
  \cup {[BaseInput EXCEPT !.provided = [volumes |-> {v[1]}, mounts |-> {v[2]}]] : v \in
          {<<<<"tls", "secret">>, <<"/tls", "tls">>>>, <<<<"tls", "secret">>, <<LogPath, "log">>>>,
           <<<<"log", "host">>, <<LogPath, "log">>>>, <<<<"log", "host">>, <<"/elsewhere", "log">>>>}}

MCAlphabet == <<"jmx-exporter", "oauth2-proxy", "shipper", "vector">>

MCHandlerSidecars == "jmx-exporter" :> Sidecar(NoImage, SidecarPhaseDefault)

\* Other sidecars, and the objects they need.
SidecarInputs ==
  {[BaseInput EXCEPT !.sidecars = MCHandlerSidecars @@ ("oauth2-proxy" :> Sidecar(NoImage, SidecarPhaseDefault)),
                     !.policy = p # "policy", !.secret = p # "secret",
                     !.jmxConfig = p # "jmx"] : p \in {"policy", "secret", "jmx", "none"}}
  \cup {[BaseInput EXCEPT !.sidecars = "jmx-exporter" :> [Sidecar(NoImage, SidecarPhaseDefault) EXCEPT !.enabled = FALSE],
                           !.jmxConfig = FALSE]}
  \cup {[BaseInput EXCEPT !.extras = {e}] : e \in
          {[kind |-> "Service", name |-> "a", namespace |-> "own"],
           [kind |-> "ConfigMap", name |-> "a", namespace |-> "own"],
           [kind |-> "Secret", name |-> "x", namespace |-> "other"]}}

\* A product that calls the handler itself: the handler's sidecars, no gates.
Direct(image) == [BaseInput EXCEPT !.direct = TRUE, !.image = image, !.aggregator = "notProvider"]

MCInputs ==
  [a |-> PlainInputs \cup GatedInputs \cup LoggedInputs \cup OverriddenInputs \cup SidecarInputs
         \cup {Direct("v1"), Direct("v2"), Direct(NoImage)},
   b |-> {Direct("v3")}]

\* What cluster a starts with; an edit takes it to any other input.
FirstInputs == {BaseInput, [BaseInput EXCEPT !.agent = FALSE], [BaseInput EXCEPT !.image = "v2"], Direct("v1")}

-----------------------------------------------------------------------------
(* The specification.                                                       *)

\* The components out of focus start in one state each.
StillNames == slots = {} /\ crLabels = {} /\ labelDomain = TRUE
StillLayers == aspect = "affinity"
StillFormats == file = <<"x", ".xml">> /\ entries = << >>
StillBuilds == input = [a |-> BaseInput, b |-> Direct("v3")]

PipelineInit ==
  /\ BuildInit
  /\ focus \in {"hooks", "names", "layers", "formats", "build"}
  /\ IF focus = "build" THEN input["a"] \in FirstInputs ELSE StillBuilds
  /\ NamesInit
  /\ focus # "names" => StillNames
  /\ LayersInit
  /\ focus # "layers" => StillLayers
  /\ FormatsInit
  /\ focus # "formats" => StillFormats
  /\ HooksInit

PipelineNext ==
  /\ \/ focus = "hooks" /\ HooksNext /\ UNCHANGED <<nameVars, layerVars, formatVars, buildVars>>
     \/ focus = "names" /\ NamesNext /\ UNCHANGED <<hookVars, layerVars, formatVars, buildVars>>
     \/ focus = "layers" /\ LayersNext /\ UNCHANGED <<hookVars, nameVars, formatVars, buildVars>>
     \/ focus = "formats" /\ FormatsNext /\ UNCHANGED <<hookVars, nameVars, layerVars, buildVars>>
     \/ focus = "build" /\ BuildNext /\ UNCHANGED <<hookVars, nameVars, layerVars, formatVars>>
  /\ UNCHANGED focus

PipelineSpec == PipelineInit /\ [][PipelineNext]_pipelineVars
=============================================================================
