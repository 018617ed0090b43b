--------------------------- MODULE ProviderConfig ---------------------------
(***************************************************************************)
(* Providers as configuration: the admission webhook, the reconciler's own *)
(* check of the same spec, and what an agent's pod and config.json get of  *)
(* a Provider and of the agent's overrides (provider_webhook.go,           *)
(* provider_controller.go, configmap.go, agent_deployment.go).             *)
(*                                                                         *)
(* p.config is the set of the fields of spec.config that are set, p.apiKey *)
(* and p.oauth2 are the references to the credentials, p.baseURL tells     *)
(* whether endpoint.baseURL is set (oauth2 is part of the endpoint too),   *)
(* and p.keyExists whether the cluster has the Secret and the key that     *)
(* p.apiKey names.                                                         *)
(***************************************************************************)
EXTENDS PodSpec

CONSTANTS
    ProviderName,
    Setting       \* values of per-call settings

ProviderType ==
    {"anthropic", "openai", "google", "azure", "bedrock", "openrouter", "openaicompat"}
ConfigField ==
    {"vertex", "bedrock", "azureAPIVersion", "organization", "project", "useResponsesAPI"}

(* Per-call defaults: one optional record of settings per family. *)
CallDefaults ==
    [anthropic : Opt([effort : Opt(Setting), thinkingBudgetTokens : Opt(Setting),
                      disableParallelToolUse : Opt(Setting)]),
     openai : Opt([reasoningEffort : Opt(Setting), serviceTier : Opt(Setting)]),
     google : Opt([thinkingLevel : Opt(Setting), thinkingBudgetTokens : Opt(Setting),
                   safetySettings : Opt(Setting)])]

IsProvider(p) ==
    /\ p.name \in ProviderName /\ p.type \in ProviderType \cup {"unknown"}
    /\ p.apiKey \in Opt(Secret) /\ p.oauth2 \in Opt([id : Secret, secret : Secret])
    /\ p.keyExists \in BOOLEAN /\ p.baseURL \in BOOLEAN /\ p.config \subseteq ConfigField
    /\ p.defaults = None \/ p.defaults \in CallDefaults

-----------------------------------------------------------------------------

(* The webhook: which types a field of the config, and a family of the     *)
(* defaults, is for.                                                       *)
AllowedTypes ==
    [vertex |-> {"anthropic", "google"}, bedrock |-> {"anthropic", "bedrock"},
     azureAPIVersion |-> {"azure"}, organization |-> {"openai"}, project |-> {"openai"},
     useResponsesAPI |-> {"openai", "azure", "openaicompat"}]
FamilyTypes ==
    [anthropic |-> {"anthropic", "bedrock"},
     openai |-> {"openai", "azure", "openaicompat", "openrouter"},
     google |-> {"google"}]

(* Mutant: the check of azureAPIVersion is missing. *)
ValidateProviderConfigLoosely(p) ==
    /\ \A f \in p.config \ {"azureAPIVersion"} : p.type \in AllowedTypes[f]
    /\ ~({"vertex", "bedrock"} \subseteq p.config)

ValidateProviderConfig(p) ==
    /\ \A f \in p.config : p.type \in AllowedTypes[f]
    /\ ~({"vertex", "bedrock"} \subseteq p.config)

ValidateDefaults(p) ==
    p.defaults # None =>
        /\ \A f \in DOMAIN p.defaults : p.defaults[f] # None => p.type \in FamilyTypes[f]
        /\ p.defaults.google # None =>
               None \in {p.defaults.google.thinkingLevel, p.defaults.google.thinkingBudgetTokens}

ValidateProvider(p) ==
    /\ p.type \in ProviderType
    /\ p.type = "openaicompat" => p.baseURL
    /\ ValidateProviderConfig(p)
    /\ ValidateDefaults(p)

(* The reconciler looks at the same fields in its own way, and at the      *)
(* credentials; the defaults and vertex with bedrock it leaves alone.      *)
ValidateConfig(p) ==
    /\ "vertex" \in p.config => p.type = "anthropic" \/ p.type = "google"
    /\ "bedrock" \in p.config => p.type = "anthropic" \/ p.type = "bedrock"
    /\ "azureAPIVersion" \in p.config => p.type = "azure"
    /\ p.config \cap {"organization", "project"} # {} => p.type = "openai"
    /\ "useResponsesAPI" \in p.config => p.type \in {"openai", "azure", "openaicompat"}
    /\ p.type = "openaicompat" => p.baseURL
    /\ (p.apiKey = None) # (p.oauth2 = None)

(* The Secrets of OAuth2 credentials are not looked at. *)
ValidateSecret(p) == p.apiKey # None => p.keyExists

IsReady(p) == ValidateConfig(p) /\ ValidateSecret(p)

-----------------------------------------------------------------------------

MergeFamily(base, override) ==
    IF override = None THEN base
      ELSE IF base = None THEN override
      ELSE [f \in DOMAIN base |-> IF override[f] # None THEN override[f] ELSE base[f]]

MergeCallDefaults(base, override) ==
    IF base = None THEN override
      ELSE IF override = None THEN base
      ELSE [family \in DOMAIN base |-> MergeFamily(base[family], override[family])]

(* The environment variables hold the upper-cased name of the provider,    *)
(* and object names are lower case: each provider has its own.             *)
ProviderEnvVarName(name) == <<"API_KEY", name>>
OAuth2ClientIDEnvVar(name) == <<"OAUTH2_CLIENT_ID", name>>
OAuth2ClientSecretEnvVar(name) == <<"OAUTH2_CLIENT_SECRET", name>>

(* The entry of config.json: p merged with the agent's binding. *)
BuildProviderEntry(p, overrides) ==
    [name |-> p.name, type |-> p.type, baseURL |-> p.baseURL, config |-> p.config,
     oauth2 |-> IF p.oauth2 = None THEN None
                  ELSE [clientIDEnv |-> OAuth2ClientIDEnvVar(p.name),
                        clientSecretEnv |-> OAuth2ClientSecretEnvVar(p.name)],
     callDefaults |-> MergeCallDefaults(p.defaults, overrides)]

(* The variables that one Provider adds to the main container. *)
ProviderEnv(p) ==
    When(p.apiKey # None, << SecretEnvVar(ProviderEnvVarName(p.name), p.apiKey) >>)
    \o When(p.oauth2 # None,
            << SecretEnvVar(OAuth2ClientIDEnvVar(p.name), p.oauth2.id),
               SecretEnvVar(OAuth2ClientSecretEnvVar(p.name), p.oauth2.secret) >>)
=============================================================================
