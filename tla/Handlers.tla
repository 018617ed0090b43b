------------------------------ MODULE Handlers ------------------------------
(***************************************************************************)
(* From the objects that users submit to what runs in the cluster: the     *)
(* admission webhooks, the checks and the builders of the reconcilers, and *)
(* the MCP gateway's proxy, composed.  One behaviour is the way of one     *)
(* object: it is submitted, admitted or refused, and rendered.  Which of   *)
(* the other objects it refers to exist, and what they look like, is part  *)
(* of item; the reconcilers' loops around the rendering are in Workloads   *)
(* and TaskRun.                                                            *)
(***************************************************************************)
EXTENDS ChannelBridge, McpProxy

CONSTANTS
    Providers,     \* Provider specs that are submitted
    Integrations,  \* Integration specs that are submitted
    Agents,        \* Agents, with the Providers and the Integrations they name
    Runs,          \* runs, with their Agent and the Integration of their spec.git
    Channels,      \* Channels, with the Agent (None if there is none) and the
                   \* Integrations they name
    Requests       \* HTTP requests to a gateway, with its start parameters

(* What a run finds of the objects that the references name. *)
Found(objects, refs) ==
    /\ IsList(objects)
    /\ \A n \in DOMAIN objects : \E m \in DOMAIN refs : objects[n].name = refs[m].name
    /\ \A n, m \in DOMAIN objects : objects[n].name = objects[m].name => objects[n] = objects[m]

(* What resolveProviders and resolveIntegrations return: all of them, in   *)
(* the order of the references.                                            *)
Resolves(objects, refs) ==
    /\ Found(objects, refs)
    /\ DOMAIN objects = DOMAIN refs
    /\ \A n \in DOMAIN refs : objects[n].name = refs[n].name

(* They are objects that the CRDs let users write, and what they name. *)
ASSUME InputAssumption ==
    /\ \A p \in Providers : IsProvider(p)
    /\ \A r \in Integrations : IsIntegration(r)
    /\ \A i \in Agents : /\ IsAgent(i.agent)
                         /\ Resolves(i.providers, i.agent.providerRefs)
                         /\ Resolves(i.integrations, i.agent.integrations)
                         /\ \A n \in DOMAIN i.providers : IsProvider(i.providers[n])
                         /\ \A n \in DOMAIN i.integrations : IsIntegration(i.integrations[n])
    /\ \A i \in Runs : /\ IsAgent(i.agent)
                       /\ Found(i.providers, i.agent.providerRefs)
                       /\ \A n \in DOMAIN i.providers : IsProvider(i.providers[n])
                       /\ i.git # None => i.git \in RunGit /\ IsIntegration(i.integration)
    /\ \A i \in Channels : /\ IsChannel(i.channel)
                           /\ \A n \in DOMAIN i.integrations : IsIntegration(i.integrations[n])
    /\ \A i \in Requests : IsRequest(i)

VARIABLES
    kind,    \* what item is
    item,
    stage,   \* "submitted", "admitted", "refused", "done" or "failed"
    out      \* what the handler made of it

vars == <<kind, item, stage, out>>

Init ==
    /\ \/ kind = "Provider" /\ item \in Providers
       \/ kind = "Integration" /\ item \in Integrations
       \/ kind = "Agent" /\ item \in Agents
       \/ kind = "AgentRun" /\ item \in Runs
       \/ kind = "Channel" /\ item \in Channels
       \/ kind = "Request" /\ item \in Requests
    /\ stage = "submitted"
    /\ out = None

-----------------------------------------------------------------------------

(* The webhooks. *)
Admit(valid, warnings) ==
    /\ stage = "submitted"
    /\ stage' = IF valid THEN "admitted" ELSE "refused"
    /\ out' = warnings
    /\ UNCHANGED <<kind, item>>

AdmitProvider == kind = "Provider" /\ Admit(ValidateProvider(item), {})
AdmitIntegration == kind = "Integration" /\ Admit(ValidateIntegration(item), {})
AdmitAgent == kind = "Agent" /\ Admit(ValidateAgent(item.agent), AuditWarnings(item.agent))
AdmitChannel == kind = "Channel" /\ Admit(ValidateChannel(item.channel), {})

Finish(result) ==
    /\ stage' = "done"
    /\ out' = result
    /\ UNCHANGED <<kind, item>>

Fail ==
    /\ stage' = "failed"
    /\ out' = None
    /\ UNCHANGED <<kind, item>>

(* The reconcilers' own checks decide on the phase. *)
ReconcileProvider ==
    /\ kind = "Provider" /\ stage = "admitted"
    /\ IF IsReady(item) THEN Finish("Ready") ELSE Fail

ReconcileIntegration ==
    /\ kind = "Integration" /\ stage = "admitted"
    /\ IF ValidateResource(item) THEN Finish("Ready") ELSE Fail

(* An Agent whose Providers and Integrations are Ready is rendered: the    *)
(* ConfigMap and the RBAC objects, and for a daemon the Deployment and     *)
(* what is around it.                                                      *)
RenderAgent ==
    /\ kind = "Agent" /\ stage = "admitted"
    /\ \A i \in DOMAIN item.providers : IsReady(item.providers[i])
    /\ \A i \in DOMAIN item.integrations : ValidateResource(item.integrations[i])
    /\ LET a == item.agent
           daemon == a.mode = "daemon"
           Only(c, object) == IF c THEN object ELSE None
       IN  Finish([rbac |-> Only(a.serviceAccount = None, BuildAgentRBAC(a)),
                   pvc |-> Only(daemon /\ a.storage # None, BuildAgentPVC(a)),
                   config |-> BuildAgentConfigMap(a, item.integrations, item.providers),
                   deployment |-> Only(daemon, BuildAgentDeployment(a, item.providers, item.integrations)),
                   service |-> Only(daemon, BuildAgentService(a)),
                   netpol |-> Only(daemon /\ a.netpol, BuildAgentNetworkPolicy(a)),
                   warnings |-> out,
                   violations |-> ComputeSecurityViolations(a.security)])

(* A run has no webhook.  Its workspace is resolved, its ConfigMap made    *)
(* from its agent's, and its Job; it fails if there is no workspace.       *)
RenderRun ==
    /\ kind = "AgentRun" /\ stage = "submitted"
    /\ LET a == item.agent
           g == IF item.git = None THEN None ELSE ResolveGitWorkspace(item.git, item.integration)
           config == BuildAgentConfigMap(a, << >>, item.providers)
       IN  IF item.git # None /\ g = None THEN Fail
             ELSE Finish([config |-> IF g = None THEN config
                                       ELSE CreateRunConfigMap(a, item.run, config, GitToolEntries(g)),
                          job |-> BuildAgentRunJob(a, item.run, item.providers, g),
                          violations |-> ComputeSecurityViolations(a.security)])

(* A Channel needs its Agent, of whatever mode, and a poll channel its     *)
(* Integration.                                                            *)
RenderChannel ==
    /\ kind = "Channel" /\ stage = "admitted"
    /\ LET ch == item.channel
           ref == IntegrationRef(ch)
       IN  IF item.agent = None \/ (IsPollType(ch.type) /\ ref \notin DOMAIN item.integrations)
             THEN Fail
             ELSE Finish([deployment |-> BuildChannelDeployment(ch, item.agent,
                                            IF ref = None THEN None ELSE item.integrations[ref]),
                          service |-> BuildChannelService(ch),
                          ingress |-> BuildChannelIngress(ch),
                          rbac |-> BuildChannelRBAC(ch),
                          violations |-> ComputeSecurityViolations(ch.security)])

(* The gateway serves a request. *)
Serve ==
    /\ kind = "Request" /\ stage = "submitted"
    /\ Finish(Handler(RunProxy(item.gateway), item.request))

Next ==
    \/ AdmitProvider \/ AdmitIntegration \/ AdmitAgent \/ AdmitChannel
    \/ ReconcileProvider \/ ReconcileIntegration
    \/ RenderAgent \/ RenderRun \/ RenderChannel
    \/ Serve

Spec == Init /\ [][Next]_vars

-----------------------------------------------------------------------------

RenderedPods ==
    IF stage # "done" THEN {}
      ELSE CASE kind = "Agent" -> IF out.deployment = None THEN {} ELSE {out.deployment.pod}
             [] kind = "AgentRun" -> {out.job.pod}
             [] kind = "Channel" -> {out.deployment.pod}
             [] OTHER -> {}

Containers(pod) == Range(pod.init) \cup {pod.main}

Overrides == IF kind = "Channel" THEN item.channel.security ELSE item.agent.security

(* Whatever overrides users ask for, every container of every pod that the *)
(* operator builds is restricted, with SELinux options outside the         *)
(* standard only where they ask for these; each field that they set, but   *)
(* for those that the merge does not look at (sysctls, procMount, AppArmor *)
(* and others, which it neither applies nor reports), is either in force   *)
(* in the pod or listed in the condition SecurityPolicyViolations; and the *)
(* pod has an API token only if they ask for it or it is the bridge of a   *)
(* task agent and they leave it open (security.go).                        *)
SecurityFloor ==
    \A pod \in RenderedPods :
        /\ \A c \in Containers(pod) : Restricted(c.sc, pod.sc)
        /\ SELinuxAsAsked(pod.sc, Overrides.pod)
        /\ SELinuxAsAsked(pod.main.sc, Overrides.container)
        /\ \A c \in Range(pod.init) : SELinuxAsAsked(c.sc, None)
        /\ HonouredOrReported(Overrides.pod, [out |-> pod.sc, violations |-> out.violations.pod])
        /\ HonouredOrReported(Overrides.container,
                              [out |-> pod.main.sc, violations |-> out.violations.container])
        /\ pod.automount => \/ Overrides.automount = TRUE
                            \/ /\ kind = "Channel" /\ item.agent.mode = "task"
                               /\ Overrides.automount = None

Env(name) == EnvValue((CHOOSE pod \in RenderedPods : TRUE).main.env, <<name>>)
Plain(v) == <<"plain", v>>

(* A run's git identity is all of one piece, in the environment that its   *)
(* container sees: a repository that its Integration covers, the token of  *)
(* the same Integration, and the branch to merge to that the run, or else  *)
(* the Integration, or else "main" says.  The repository may be another    *)
(* only for a group without an allow-list and a run whose project is not a *)
(* normal path: nothing normalises it, and it is cloned as it is written.  *)
(* An admitted Integration fails a run only if it is of no git kind, or is *)
(* a group and the run names no project that it covers                     *)
(* (ResolveGitWorkspace, GitEnvVars).                                      *)
RunGitInScope ==
    LET res == item.integration
        url == Env("GIT_REPO_URL")[2]
        b == res.block[res.kind]
    IN  kind = "AgentRun" /\ item.git # None =>
            /\ stage = "done" =>
                  /\ \/ Covers(res, url)
                     \/ res.kind = "gitlab-group" /\ b.projects = {} /\ ~IsNormal(item.git.project)
                  /\ res.credentials # None =>
                        /\ Env("GIT_TOKEN") = <<"secret", res.credentials>>
                        /\ Env("GIT_PROVIDER") = Plain("gitlab") => Env("GITLAB_TOKEN") = Env("GIT_TOKEN")
                        /\ Env("GIT_PROVIDER") = Plain("github") => Env("GH_TOKEN") = Env("GIT_TOKEN")
                  /\ Env("GIT_PROVIDER") = Plain("gitlab") =>
                        /\ Env("GITLAB_URL") = Plain(url[1])
                        /\ Env("GIT_PROJECT") = Plain(url[2]) /\ Env("GITLAB_PROJECT") = Plain(url[2])
                  /\ Env("GIT_BASE_BRANCH") =
                        Plain(IF item.git.baseBranch # None THEN item.git.baseBranch
                                ELSE IF res.kind # "gitlab-group" /\ b.defaultBranch # None
                                  THEN b.defaultBranch ELSE "main")
            /\ stage = "failed" /\ ValidateIntegration(res) =>
                  \/ res.kind \in {"github-org", "s3-bucket", "documentation"}
                  \/ /\ res.kind = "gitlab-group"
                     /\ item.git.project = None \/ ~Covers(res, <<b.baseURL, item.git.project>>)

(* The variables whose names users choose. *)
UserVariables(a) ==
    DOMAIN a.env \cup {a.secrets[i].name : i \in DOMAIN a.secrets}
      \cup UNION {{a.tools[i].env[j].name : j \in DOMAIN a.tools[i].env} : i \in DOMAIN a.tools}

(* The GitLab identity of a daemon is that of one of its Integrations, of  *)
(* a group if one is bound (and then of no single project, unless the user *)
(* sets one), and it is read-only if the binding or the group says so      *)
(* (GitLabEnvFromIntegrations).                                            *)
DaemonGitInScope ==
    LET bound == {i \in DOMAIN item.integrations :
                     item.integrations[i].kind \in {"gitlab-group", "gitlab-project"}}
        IsIdentity(i) ==
            LET res == item.integrations[i]
                b == res.block[res.kind]
            IN  /\ Env("GITLAB_URL") = Plain(b.baseURL)
                /\ res.credentials # None =>
                      /\ Env("GITLAB_TOKEN") = <<"secret", res.credentials>>
                      /\ Env("GIT_TOKEN") = <<"secret", res.credentials>>
                /\ IF res.kind = "gitlab-group"
                     THEN /\ Env("GITLAB_GROUP") = Plain(b.group)
                          /\ <<"GITLAB_PROJECT">> \notin UserVariables(item.agent) => Env("GITLAB_PROJECT") = None
                          /\ b.projects # {} => Env("GITLAB_PROJECTS") = Plain(b.projects)
                          /\ b.readOnly => Env("GITLAB_READONLY") = Plain("true")
                     ELSE /\ Env("GITLAB_PROJECT") = Plain(b.project)
                          /\ \A j \in bound : item.integrations[j].kind = "gitlab-project"
                /\ item.agent.integrations[i].readOnly => Env("GITLAB_READONLY") = Plain("true")
    IN  kind = "Agent" /\ RenderedPods # {} /\ bound # {} => \E i \in bound : IsIdentity(i)

(* Runs and daemons use a git platform only as their Integrations say. *)
GitInScope == RunGitInScope /\ DaemonGitInScope

(* A single tools/call that the policy of its server forbids never gets to *)
(* the upstream server, nor one whose parameters cannot be read, and no    *)
(* other request is held back (handlePost, checkToolCall, Check).          *)
ToolCallsPoliced ==
    LET g == item.gateway
        policy == IF g.config = "readable" /\ g.server \in DOMAIN g.policies
                    THEN g.policies[g.server] ELSE Unset
        r == item.request
        isCall == r.route = "POST /mcp" /\ r.body.shape = "request" /\ r.body.method = "tools/call"
        stopped == /\ isCall /\ policy # Unset
                   /\ r.body.params = Malformed \/ Forbidden(policy, r.body.params)
    IN  kind = "Request" /\ stage = "done" => (out = "blocked" <=> stopped)

(* The webhooks and what lies behind them agree: an admitted Provider is   *)
(* Ready exactly if it has one kind of credentials (which no webhook asks  *)
(* for) and, if that is an API key, its Secret is there; an admitted       *)
(* Integration is Ready; an admitted Channel with the block of its type    *)
(* only fails for an Agent or an Integration that does not exist (and for  *)
(* no Agent that is of the wrong mode: see ChatNeedsDaemon); and what the  *)
(* webhook of Agents lets through is there when the agent runs: the        *)
(* providers of its fallback models, the tools it audits but for those it  *)
(* was warned of, and of each bound Integration the one binding.           *)
AdmissionAgrees ==
    /\ kind = "Provider" /\ stage \in {"done", "failed"} =>
          (stage = "done" <=> /\ (item.apiKey # None) # (item.oauth2 # None)
                              /\ item.apiKey # None => item.keyExists)
    /\ kind = "Integration" => stage # "failed"
    /\ kind = "Channel" /\ stage = "failed" /\ OnlyOwnBlock(item.channel) =>
          \/ item.agent = None
          \/ item.channel.block[item.channel.type].integrationRef \notin DOMAIN item.integrations
    /\ kind = "Agent" /\ stage = "done" =>
          /\ out.config.fallback \ {None} \subseteq {e.name : e \in Range(out.config.providers)}
          /\ out.config.hooks # None =>
                out.config.hooks.auditTools \ out.warnings
                  \subseteq out.config.builtinTools \cup Range(out.config.tools)
                               \cup {"run_agent", "get_agent_run"}
          /\ \A i \in DOMAIN item.integrations :
                \E b \in Range(item.agent.integrations) :
                   /\ b.name = item.integrations[i].name
                   /\ b.readOnly = out.config.resources[i].readOnly
                   /\ \A c \in Range(item.agent.integrations) : c.name = b.name => c = b

(* A chat Channel gets a bridge only if its Agent is a daemon, which takes *)
(* the bridge's messages over HTTP: the validation of "chat type + task    *)
(* agent" that channel_webhook.go leaves to the controller.                *)
ChatNeedsDaemon ==
    kind = "Channel" /\ stage = "done" /\ ~IsEventType(item.channel.type) => item.agent.mode = "daemon"

(* A Service finds the pods of a Deployment, which owns them, and the port *)
(* that they listen on.                                                    *)
Serves(service, deployment) ==
    /\ service.selector \cup deployment.selector \subseteq deployment.labels
    /\ service.targetPort \in deployment.pod.main.ports

(* RBAC allows what a pod does with its token. *)
May(rbac, pod, deed) ==
    /\ pod.account = rbac.account /\ rbac.binding.subject = pod.account
    /\ rbac.binding.role = rbac.role /\ deed \in rbac.rules

(* What a setting of a call comes to: the agent's, else the provider's. *)
CallSetting(p, overrides, family, f) ==
    LET Of(d) == IF d = None THEN None ELSE IF d[family] = None THEN None ELSE d[family][f]
    IN  IF Of(overrides) # None THEN Of(overrides) ELSE Of(p.defaults)

(* config.json, the pod of a daemon or a run and the objects around it fit *)
(* each other, as long as the names of the tools and the keys of the       *)
(* context files are distinct (which nothing checks): every mount has its  *)
(* volume and no two are at one path; the agent is told to save to, or to  *)
(* search, its memory if and only if that is switched on; each tool of     *)
(* config.json is there once, and unpacked by an init container unless it  *)
(* is the run's git platform; the run's git platform is among the tools    *)
(* unless the run has the name of its agent (when the agent's ConfigMap is *)
(* taken for the run's own); the credentials that the provider entries     *)
(* rely on are the Provider's own whatever the user puts in the            *)
(* environment; each call setting is the agent's, or else the Provider's;  *)
(* a claim is that of BuildAgentPVC and never shared by two pods; Service  *)
(* and NetworkPolicy select the daemon's pods and their port, and the Role *)
(* lets them create runs (configmap.go, agent_deployment.go, agent_job.go, *)
(* service.go, rbac.go).                                                   *)
PodCoherent ==
    LET a == item.agent
        entries == out.config.providers
        tools == out.config.tools
        Told(part) == part \in Range(out.config.protocol)
        Remembers(f) == out.config.memory # None /\ out.config.memory[f]
        platform == IF kind = "AgentRun" /\ item.git # None THEN {"github", "gitlab"} ELSE {}
    IN  /\ kind \in {"Agent", "AgentRun"}
        /\ IsInjective(a.contextFiles) /\ IsInjective([i \in DOMAIN a.tools |-> a.tools[i].name])
        => \A pod \in RenderedPods :
            /\ IsInjective([i \in DOMAIN pod.volumes |-> pod.volumes[i].name])
            /\ \A c \in Containers(pod) :
                  /\ IsInjective([i \in DOMAIN c.mounts |-> c.mounts[i].path])
                  /\ \A m \in Range(c.mounts) : \E v \in Range(pod.volumes) : v.name = m.volume
            /\ Told("save") <=> Remembers("autoSave")
            /\ Told("search") <=> Remembers("autoSearch")
            /\ IsInjective(tools)
            /\ \A t \in Range(tools) \ platform : \E c \in Range(pod.init) : c.target = t
            /\ \A i \in DOMAIN item.providers :
                  LET p == item.providers[i]
                  IN  /\ p.apiKey # None =>
                            EnvValue(pod.main.env, <<"API_KEY", p.name>>) = <<"secret", p.apiKey>>
                      /\ p.oauth2 # None =>
                            /\ EnvValue(pod.main.env, entries[i].oauth2.clientIDEnv) = <<"secret", p.oauth2.id>>
                            /\ EnvValue(pod.main.env, entries[i].oauth2.clientSecretEnv)
                                  = <<"secret", p.oauth2.secret>>
                      /\ entries[i].callDefaults # None =>
                            \A family \in DOMAIN entries[i].callDefaults :
                               LET merged == entries[i].callDefaults[family]
                               IN  merged # None =>
                                     \A f \in DOMAIN merged :
                                        merged[f] = CallSetting(p, LastWith(a.providerRefs, p.name).overrides, family, f)
            /\ \A v \in Range(pod.volumes) : v.source[1] = "pvc" =>
                  kind = "Agent" /\ v.source[2] = out.pvc.name /\ out.deployment.strategy = "Recreate"
            /\ kind = "Agent" =>
                  /\ Serves(out.service, out.deployment)
                  /\ out.netpol # None =>
                        /\ out.netpol.selector \subseteq out.deployment.labels
                        /\ out.netpol.ingress = pod.main.ports
                  /\ out.rbac # None => May(out.rbac, pod, <<"create", "agentruns">>)
            /\ kind = "AgentRun" /\ item.git # None =>
                  item.run.name = a.name \/ Env("GIT_PROVIDER")[2] \in Range(tools) \cup {"git"}

(* A bridge whose Channel has the block of its type only has what its      *)
(* platform needs: the token or secret of the block, or for a poll type    *)
(* the project or group and the token of the Integration that the block    *)
(* names (if that is a GitLab one that the webhook let through); one       *)
(* prompt template if it is driven by events, the user's if there is one;  *)
(* the URL of a daemon and of no other agent; and with a task agent an API *)
(* token unless the user decides otherwise, for an account that may create *)
(* runs.  Its Service and the Ingress lead to its pod (channel.go,         *)
(* service.go, rbac.go).                                                   *)
BridgeIsEquipped ==
    LET ch == item.channel
        own == ch.block[ch.type]
        res == item.integrations[own.integrationRef]
        b == res.block[res.kind]
        env == out.deployment.pod.main.env
        prompts == {i \in DOMAIN env : env[i].name = <<"PROMPT_TEMPLATE">>}
    IN  kind = "Channel" /\ stage = "done" /\ OnlyOwnBlock(ch) =>
            /\ IF IsPollType(ch.type)
                 THEN res.kind \in {"gitlab-project", "gitlab-group"} /\ ValidateIntegration(res) =>
                        /\ Env("GITLAB_BASE_URL") = Plain(b.baseURL)
                        /\ Env("GITLAB_PROJECT") =
                              IF res.kind = "gitlab-project" THEN Plain(b.project) ELSE None
                        /\ Env("GITLAB_GROUP") =
                              IF res.kind = "gitlab-group" THEN Plain(b.group) ELSE None
                        /\ res.credentials # None => Env("GITLAB_TOKEN") = <<"secret", res.credentials>>
                 ELSE own # None /\ own.secret # None =>
                        \E v \in Range(env) : v.value = <<"secret", own.secret>>
            /\ IsEventType(ch.type) =>
                  Cardinality(prompts) = 1 /\ (ch.prompt # None => Env("PROMPT_TEMPLATE") = Plain(ch.prompt))
            /\ Env("AGENT_URL") = IF item.agent.mode = "daemon" THEN Plain(AgentServiceURL(item.agent)) ELSE None
            /\ Serves(out.service, out.deployment)
            /\ out.ingress # None => out.ingress.backend = <<out.service.name, out.service.port>>
            /\ May(out.rbac, out.deployment.pod, <<"create", "agentruns">>)
            /\ out.deployment.pod.automount <=>
                  \/ ch.security.automount = TRUE
                  \/ item.agent.mode = "task" /\ ch.security.automount # FALSE
=============================================================================
