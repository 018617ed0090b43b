------------------------------ MODULE AgentPod ------------------------------
(***************************************************************************)
(* What the operator renders for an Agent and for a run of it: the Agent's *)
(* admission webhook (agent_webhook.go), config.json (configmap.go) and    *)
(* the pod of a daemon's Deployment or of a run's Job                      *)
(* (agent_deployment.go, agent_job.go).                                    *)
(***************************************************************************)
EXTENDS PodSecurity, GitWorkspace, ProviderConfig

CONSTANTS
    AgentName,
    ToolName,       \* names of OCI tools, and of unknown built-in ones
    IntegrationName,
    EnvName,        \* names of variables that users set
    AccountName,    \* names of ServiceAccounts that users set
    MemoryProject   \* projects of the memory that users set

BuiltinTools == {"bash", "read", "edit", "write", "grep", "ls", "glob", "fetch"}

(* A slice, nil or not. *)
IsList(s) == s \in Seq(Range(s))

(* spec.memory, and what config.json makes of it, which is not taken for   *)
(* "no memory".                                                            *)
AgentMemory ==
    [project : Opt(MemoryProject), contextLimit : 0..50, autoSummarize : Opt(BOOLEAN),
     autoSave : Opt(BOOLEAN), autoSearch : Opt(BOOLEAN)]
ASSUME MemoryAssumption ==
    None \notin [project : MemoryProject \cup AgentName, contextLimit : 1..50,
                 autoSummarize : BOOLEAN, autoSave : BOOLEAN, autoSearch : BOOLEAN]

(* spec, without what is copied to config.json unseen.  tools[i].env is a  *)
(* sequence of [name, value]; env is a function on the names that are set; *)
(* a fallback model is the provider before its first "/", None without.    *)
(* The temperature is in tenths.                                           *)
IsAgent(a) ==
    /\ a.name \in AgentName /\ a.mode \in {"daemon", "task", "unknown"}
    /\ a.storage \in Opt({"sized", "unsized"})
    /\ \A f \in {"tools", "providerRefs", "integrations", "secrets", "contextFiles"} : IsList(a[f])
    /\ \A i \in DOMAIN a.tools : IsList(a.tools[i].env)
    /\ IsFiniteSet(DOMAIN a.env)
    /\ a.builtinTools \subseteq BuiltinTools \cup ToolName
    /\ \A i \in DOMAIN a.tools : a.tools[i].name \in ToolName /\ a.tools[i].pullSecret \in Opt(Secret)
    /\ \A i \in DOMAIN a.providerRefs : /\ a.providerRefs[i].name \in ProviderName
                                         /\ a.providerRefs[i].overrides \in Opt(CallDefaults)
    /\ a.fallback \subseteq Opt(ProviderName)
    /\ \A i \in DOMAIN a.integrations : a.integrations[i].name \in IntegrationName
    /\ a.serviceAccount # None => a.serviceAccount \in AccountName
    /\ a.netpol \in BOOLEAN
    /\ a.memory \in Opt(AgentMemory)
    /\ a.delegation # None => a.delegation.maxFanOut \in 0..10
    /\ DOMAIN a.env \subseteq EnvName
    /\ a.security \in SecurityOverrides

-----------------------------------------------------------------------------

(* The webhook.  Unknown audit tools only earn a warning. *)
ValidateMode(a) ==
    /\ a.mode \in {"daemon", "task"}
    /\ a.mode = "task" => a.storage = None
    /\ a.storage # "unsized"

ValidateRuntime(a) ==
    /\ a.builtinTools \subseteq BuiltinTools
    /\ a.temperature # None => a.temperature \in 0..20
    /\ a.maxSteps # None => a.maxSteps > 0

ValidateProviders(a) ==
    LET names == {a.providerRefs[i].name : i \in DOMAIN a.providerRefs}
    IN  names # {} /\ a.fallback \ {None} \subseteq names

ValidateTools(a) == a.tools # << >> \/ a.builtinTools # {}

ValidateToolHooks(a) == a.hooks # None => ~a.hooks.relativePath

ValidateIntegrations(a) ==
    IsInjective([i \in DOMAIN a.integrations |-> a.integrations[i].name])

ValidateSchedule(a) == a.schedule => a.schedulePrompt

ValidateAgent(a) ==
    /\ ValidateMode(a) /\ ValidateRuntime(a) /\ ValidateProviders(a) /\ ValidateTools(a)
    /\ ValidateToolHooks(a) /\ ValidateIntegrations(a) /\ ValidateSchedule(a)

AuditWarnings(a) ==
    IF a.hooks = None THEN {}
      ELSE a.hooks.auditTools
             \ (a.builtinTools \cup {a.tools[i].name : i \in DOMAIN a.tools}
                  \cup {"run_agent", "get_agent_run"})

-----------------------------------------------------------------------------

(* config.json.  A tool entry is the tool's name, which is also the last   *)
(* segment of its path under /tools.  The binding of an object is the last *)
(* one with its name.                                                      *)
LastWith(bindings, name) ==
    bindings[Max({i \in DOMAIN bindings : bindings[i].name = name})]

(* The settings of the memory, with their defaults.  (serverRef is never   *)
(* empty, so that there is always a URL.)                                  *)
BuildMemoryEntry(a) ==
    IF a.memory = None THEN None
      ELSE [a.memory EXCEPT !.project = FirstSet(@, None, a.name),
                            !.contextLimit = IF @ = 0 THEN 5 ELSE @,
                            !.autoSummarize = (@ # FALSE),
                            !.autoSave = (@ # FALSE),
                            !.autoSearch = (@ # FALSE)]

(* What the agent is told: who it is, its team, and how to use its memory. *)
BuildDelegationProtocol(delegation) ==
    When(delegation # None /\ delegation.team # {},
         << "team" >> \o When(delegation.maxFanOut \in 1..9, << "fan-out" >>))

BuildMemoryProtocol(memory) ==
    When(memory # None,
         << "memory", IF memory.autoSave # FALSE THEN "save" ELSE "save disabled",
            IF memory.autoSearch # FALSE THEN "search" ELSE "search disabled" >>)

BuildPlatformProtocol(a) ==
    << "identity" >> \o BuildDelegationProtocol(a.delegation) \o BuildMemoryProtocol(a.memory)

BuildAgentConfigMap(a, integrations, providers) ==
    [memory |-> BuildMemoryEntry(a),
     delegation |-> a.delegation,
     protocol |-> BuildPlatformProtocol(a),
     tools |-> [i \in DOMAIN a.tools |-> a.tools[i].name],
     builtinTools |-> a.builtinTools,
     providers |->
        [i \in DOMAIN providers |->
            BuildProviderEntry(providers[i], LastWith(a.providerRefs, providers[i].name).overrides)],
     fallback |-> a.fallback,
     hooks |-> a.hooks,
     resources |->
        [i \in DOMAIN integrations |->
            [name |-> integrations[i].name, kind |-> integrations[i].kind,
             readOnly |-> LastWith(a.integrations, integrations[i].name).readOnly,
             block |-> MapIntegrationKind(integrations[i])]]]

(* Mutant: the entries of the git platform are appended blindly. *)
BuildRunConfigBlindly(config, entries) == [config EXCEPT !.tools = @ \o entries]

(* The ConfigMap of a run with a git workspace: the entries that the       *)
(* agent's own config has not got are appended.                            *)
BuildAgentRunConfigMap(config, entries) ==
    [config EXCEPT
       !.tools = @ \o FlattenSeq([i \in DOMAIN entries |->
                         When(entries[i] \notin Range(config.tools), << entries[i] >>)])]

(* The ConfigMap that the run's pod is to mount is created under the run's *)
(* name; one that is there already is taken for that of an earlier         *)
(* attempt.  The agent's own has the agent's name and the same suffix.     *)
CreateRunConfigMap(a, run, config, entries) ==
    IF ObjectName(run.name, "config") = ObjectName(a.name, "config") THEN config
      ELSE BuildAgentRunConfigMap(config, entries)

-----------------------------------------------------------------------------

(* The objects around a daemon's pods.  Labels are pairs of key and value; *)
(* a rule is a verb and a resource.                                        *)
CommonLabels(name, component) ==
    {<<"agent", name>>, <<"component", component>>, <<"managed-by", "agentops">>}

AgentRuntimePort == 4096

BuildAgentService(a) ==
    [name |-> a.name, selector |-> {<<"agent", a.name>>, <<"component", "runtime">>},
     port |-> AgentRuntimePort, targetPort |-> AgentRuntimePort]
AgentServiceURL(a) == <<a.name, AgentRuntimePort>>

BuildAgentNetworkPolicy(a) ==
    [selector |-> {<<"agent", a.name>>, <<"component", "runtime">>}, ingress |-> {AgentRuntimePort}]

BuildAgentPVC(a) ==
    [name |-> ObjectName(a.name, "storage")]

(* With a ServiceAccount of the user's, nothing is bound to the Role. *)
AgentServiceAccountName(a) == FirstSet(a.serviceAccount, None, ObjectName(a.name, "agent"))

BuildAgentRBAC(a) ==
    [account |-> AgentServiceAccountName(a),
     role |-> ObjectName(a.name, "agent"),
     rules |-> ({"create", "get", "list", "watch"} \X {"agentruns"})
               \cup ({"get", "patch", "update"} \X {"agentruns/status"})
               \cup ({"get", "list", "watch"} \X {"agents"})
               \cup ({"get", "list"} \X {"integrations"}),
     binding |-> [role |-> ObjectName(a.name, "agent"), subject |-> AgentServiceAccountName(a)]]

-----------------------------------------------------------------------------

(* The pod. *)
BuildVolumes(a, taskMode) ==
    << Volume(<<"tools">>, <<"emptyDir">>),
       Volume(<<"operator-config">>, <<"configMap", ObjectName(a.name, "config")>>),
       Volume(<<"data">>, IF ~taskMode /\ a.storage # None THEN <<"pvc", ObjectName(a.name, "storage")>>
                            ELSE <<"emptyDir">>) >>
    \o [i \in DOMAIN a.contextFiles |-> Volume(<<"context", i>>, <<"configMap", a.contextFiles[i]>>)]
    \o FlattenSeq([i \in DOMAIN a.tools |->
           When(a.tools[i].pullSecret # None,
                << Volume(<<"pull-secret", a.tools[i].name>>, <<"secret", a.tools[i].pullSecret>>) >>)])

Container(name, mounts, env, target, ports) ==
    [name |-> name, mounts |-> mounts, env |-> env, target |-> target, ports |-> ports, sc |-> None]

(* One init container per tool, which unpacks it to its directory. *)
BuildInitContainers(a) ==
    [i \in DOMAIN a.tools |->
        LET t == a.tools[i]
        IN  Container(<<"init-pull-tool", t.name>>,
                      << Mount(<<"tools">>, <<"/tools">>) >>
                      \o When(t.pullSecret # None,
                              << Mount(<<"pull-secret", t.name>>, <<"/tmp/pull-secret">>) >>),
                      << EnvVar(<<"HOME">>, "/tmp") >>
                      \o When(t.pullSecret # None, << EnvVar(<<"DOCKER_CONFIG">>, "/tmp/docker-config") >>),
                      t.name, {})]

(* The user's own variables (in the order of their names, which are        *)
(* distinct), those of the tools and the user's secrets, then the          *)
(* providers' credentials and a daemon's GitLab identity.                  *)
BuildEnvVars(a, providers, integrations, taskMode) ==
    << EnvVar(<<"AGENT_NAME">>, a.name), EnvVar(<<"AGENT_MODE">>, a.mode) >>
    \o SetToSeq({EnvVar(k, a.env[k]) : k \in DOMAIN a.env})
    \o FlattenSeq([i \in DOMAIN a.tools |->
           [j \in DOMAIN a.tools[i].env |-> EnvVar(a.tools[i].env[j].name, a.tools[i].env[j].value)]])
    \o [i \in DOMAIN a.secrets |-> SecretEnvVar(a.secrets[i].name, a.secrets[i].secret)]
    \o FlattenSeq([i \in DOMAIN providers |-> ProviderEnv(providers[i])])
    \o When(~taskMode,
            GitLabEnvFromIntegrations(integrations,
                [i \in DOMAIN integrations |-> LastWith(a.integrations, integrations[i].name).readOnly]))

BuildMainContainer(a, providers, integrations, taskMode) ==
    Container(<<"agent-runtime">>,
              << Mount(<<"tools">>, <<"/tools">>), Mount(<<"operator-config">>, <<"/etc/operator">>),
                 Mount(<<"data">>, <<"/data">>) >>
              \o [i \in DOMAIN a.contextFiles |->
                     Mount(<<"context", i>>, <<"/etc/context", a.contextFiles[i]>>)],
              BuildEnvVars(a, providers, integrations, taskMode),
              IF taskMode THEN "task" ELSE "daemon",
              IF taskMode THEN {} ELSE {AgentRuntimePort})

BuildAgentPodSpec(a, providers, integrations, taskMode) ==
    ApplySecurity([init |-> BuildInitContainers(a),
                   main |-> BuildMainContainer(a, providers, integrations, taskMode),
                   volumes |-> BuildVolumes(a, taskMode),
                   account |-> AgentServiceAccountName(a),
                   sc |-> None, automount |-> None],
                  a.security)

(* A daemon's Deployment.  With a claim the pods are replaced one by one.  *)
BuildAgentDeployment(a, providers, integrations) ==
    [pod |-> BuildAgentPodSpec(a, providers, integrations, FALSE),
     labels |-> CommonLabels(a.name, "runtime"),
     selector |-> {<<"agent", a.name>>, <<"component", "runtime">>},
     strategy |-> IF a.storage # None THEN "Recreate" ELSE "RollingUpdate"]

(* A run's Job; g is the run's workspace or None. *)
BuildAgentRunJob(a, run, providers, g) ==
    LET pod == BuildAgentPodSpec(a, providers, << >>, TRUE)
    IN  [pod |-> [pod EXCEPT
            !.main.env = @ \o << EnvVar(<<"AGENT_PROMPT">>, run.prompt), EnvVar(<<"AGENT_RUN_NAME">>, run.name) >>
                           \o When(g # None, GitEnvVars(g)),
            !.volumes = [i \in DOMAIN @ |->
                IF g # None /\ @[i].name = <<"operator-config">>
                  THEN Volume(@[i].name, <<"configMap", ObjectName(run.name, "config")>>) ELSE @[i]]],
         labels |-> CommonLabels(a.name, "task-run")]
=============================================================================
