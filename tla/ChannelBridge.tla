---------------------------- MODULE ChannelBridge ---------------------------
(***************************************************************************)
(* What the operator renders for a Channel: its admission webhook          *)
(* (channel_webhook.go), the choice of its Integration (Reconcile of       *)
(* channel_controller.go), the bridge's Deployment and the Ingress         *)
(* (internal/resources/channel.go).                                        *)
(***************************************************************************)
EXTENDS AgentPod

CONSTANTS
    ChannelName,
    Prompt,       \* prompt templates that users write
    Label         \* GitLab labels

ChannelType ==
    {"telegram", "slack", "discord", "gitlab", "github", "webhook", "gitlab-label", "gitlab-comment"}
IsEventType(t) == t \in {"gitlab", "github", "webhook", "gitlab-label", "gitlab-comment"}
IsPollType(t) == t \in {"gitlab-label", "gitlab-comment"}

(* The platform blocks.  Those of the poll types name an Integration, the  *)
(* others have a secret, which only "webhook" may leave out.               *)
PlatformBlock(t) ==
    CASE t = "gitlab-label" -> [integrationRef : Opt(IntegrationName), labels : SUBSET Label]
      [] t = "gitlab-comment" -> [integrationRef : Opt(IntegrationName), planningLabel : Opt(Label)]
      [] t = "webhook" -> [secret : Opt(Secret)]
      [] OTHER -> [secret : Secret]

IsChannel(ch) ==
    /\ ch.name \in ChannelName /\ ch.type \in ChannelType /\ ch.agentRef \in AgentName
    /\ DOMAIN ch.block = ChannelType
    /\ \A t \in ChannelType : ch.block[t] # None => ch.block[t] \in PlatformBlock(t)
    /\ ch.prompt \in Opt(Prompt)
    /\ ch.ingress \in Opt(Host)
    /\ ch.security \in SecurityOverrides

(* The webhook: the block of the type, with an Integration for the poll    *)
(* types, and a prompt for the other event types.  Further blocks are let  *)
(* through.                                                                *)
ValidateChannel(ch) ==
    /\ ch.type # "webhook" => ch.block[ch.type] # None
    /\ IsPollType(ch.type) => ch.block[ch.type].integrationRef # None
    /\ IsEventType(ch.type) /\ ~IsPollType(ch.type) => ch.prompt # None

(* A Channel as it is meant to be: no block but that of its type. *)
OnlyOwnBlock(ch) == \A t \in ChannelType \ {ch.type} : ch.block[t] = None

-----------------------------------------------------------------------------

(* The reconciler: the Integration of a poll channel is that of its        *)
(* gitlab-label block if it has one, whatever its type.                    *)
IntegrationRef(ch) ==
    IF ~IsPollType(ch.type) THEN None
      ELSE IF ch.block["gitlab-label"] # None THEN ch.block["gitlab-label"].integrationRef
      ELSE IF ch.block["gitlab-comment"] # None THEN ch.block["gitlab-comment"].integrationRef
      ELSE None

TokenEnvName(t) ==
    CASE t = "telegram" -> <<"TELEGRAM_BOT_TOKEN">>
      [] t = "slack" -> <<"SLACK_BOT_TOKEN">>
      [] t = "discord" -> <<"DISCORD_BOT_TOKEN">>
      [] OTHER -> <<"WEBHOOK_SECRET">>

(* Who the bridge is on GitLab.  The block, not the kind, is looked at. *)
GitLabIdentity(res) ==
    LET project == res.block["gitlab-project"]
        group == res.block["gitlab-group"]
    IN  When(project # None, << EnvVar(<<"GITLAB_BASE_URL">>, project.baseURL),
                                EnvVar(<<"GITLAB_PROJECT">>, project.project) >>)
        \o When(project = None /\ group # None,
                << EnvVar(<<"GITLAB_BASE_URL">>, group.baseURL), EnvVar(<<"GITLAB_GROUP">>, group.group) >>)
        \o When(res.credentials # None, << SecretEnvVar(<<"GITLAB_TOKEN">>, res.credentials) >>)

BuildGitLabLabelEnv(ch, res) ==
    LET cfg == ch.block["gitlab-label"]
        project == res.block["gitlab-project"]
    IN  IF cfg = None THEN << >>
          ELSE GitLabIdentity(res)
               \o << EnvVar(<<"GITLAB_LABELS">>, cfg.labels),
                     EnvVar(<<"GITLAB_INTEGRATION_REF">>, cfg.integrationRef),
                     EnvVar(<<"GITLAB_BASE_BRANCH">>,
                            IF project # None /\ project.defaultBranch # None
                              THEN project.defaultBranch ELSE "main") >>
               \o When(ch.prompt = None, << EnvVar(<<"PROMPT_TEMPLATE">>, "default label prompt") >>)

BuildGitLabCommentEnv(ch, res) ==
    LET cfg == ch.block["gitlab-comment"]
    IN  IF cfg = None THEN << >>
          ELSE GitLabIdentity(res)
               \o << EnvVar(<<"GITLAB_PLANNING_LABEL">>,
                            IF cfg.planningLabel # None THEN cfg.planningLabel ELSE "agent::planning") >>
               \o When(ch.prompt = None, << EnvVar(<<"PROMPT_TEMPLATE">>, "default planning prompt") >>)

BuildChannelPlatformEnv(ch, res) ==
    LET b == ch.block[ch.type]
    IN  CASE ch.type = "gitlab-label" -> BuildGitLabLabelEnv(ch, res)
          [] ch.type = "gitlab-comment" -> BuildGitLabCommentEnv(ch, res)
          [] OTHER -> IF b = None \/ b.secret = None THEN << >>
                        ELSE << SecretEnvVar(TokenEnvName(ch.type), b.secret) >>

(* Mutant: the token is mounted for task agents whatever the user says. *)
BridgeSecurityForced(ch, agent) ==
    [ch.security EXCEPT !.automount = IF agent.mode = "task" THEN TRUE ELSE @]

(* The bridge of a task agent creates AgentRuns and needs the API token,   *)
(* unless the user decides otherwise.                                      *)
BridgeSecurity(ch, agent) ==
    [ch.security EXCEPT !.automount = IF agent.mode = "task" /\ @ = None THEN TRUE ELSE @]

BridgePort == 8080
ChannelServiceAccountName(ch) == ObjectName(ch.name, "channel")

BuildChannelRBAC(ch) ==
    [account |-> ChannelServiceAccountName(ch),
     role |-> ObjectName(ch.name, "channel"),
     rules |-> {"create", "get", "list"} \X {"agentruns"},
     binding |-> [role |-> ObjectName(ch.name, "channel"), subject |-> ChannelServiceAccountName(ch)]]

BuildChannelService(ch) ==
    [name |-> ch.name, selector |-> {<<"component", "channel">>, <<"app", ch.name>>},
     port |-> BridgePort, targetPort |-> BridgePort]

BuildChannelDeployment(ch, agent, res) ==
    LET env == << EnvVar(<<"CHANNEL_TYPE">>, ch.type) >>
               \o When(agent.mode = "daemon", << EnvVar(<<"AGENT_URL">>, AgentServiceURL(agent)) >>)
               \o << EnvVar(<<"AGENT_REF">>, ch.agentRef), EnvVar(<<"CHANNEL_NAME">>, ch.name),
                     EnvVar(<<"AGENT_MODE">>, agent.mode) >>
               \o When(ch.prompt # None, << EnvVar(<<"PROMPT_TEMPLATE">>, ch.prompt) >>)
               \o BuildChannelPlatformEnv(ch, res)
    IN  [pod |-> ApplySecurity(
                    [init |-> << >>,
                     main |-> Container(<<"channel">>, << >>, env, "channel", {BridgePort}),
                     volumes |-> << >>, account |-> ChannelServiceAccountName(ch),
                     sc |-> None, automount |-> None],
                    BridgeSecurity(ch, agent)),
         labels |-> {<<"component", "channel">>, <<"managed-by", "agentops">>, <<"app", ch.name>>},
         selector |-> {<<"app", ch.name>>}]

BuildChannelIngress(ch) ==
    IF ch.ingress = None THEN None
      ELSE [host |-> ch.ingress, backend |-> <<ch.name, BridgePort>>]
=============================================================================
