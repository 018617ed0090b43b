----------------------------- MODULE MCHandlers -----------------------------
(* Inputs of Handlers for TLC: small sets of objects that vary what the    *)
(* handlers tell apart.                                                    *)
EXTENDS Handlers

CONSTANTS p1, p2, i1, i2, s1, s2, s3, b1, h1, h2, x, y, k1, k2, set, a1, c1, run

-----------------------------------------------------------------------------
\* Providers

MCProviders ==
    [name : {p1}, type : ProviderType \cup {"unknown"}, apiKey : {None, s1},
     keyExists : BOOLEAN, oauth2 : {None, [id |-> s2, secret |-> s3]}, baseURL : BOOLEAN,
     config : {F \in SUBSET ConfigField : Cardinality(F) <= 2},
     defaults : {None} \cup
        {[anthropic |-> n, openai |-> o, google |-> g] :
            n \in {None, [effort |-> set, thinkingBudgetTokens |-> None, disableParallelToolUse |-> None]},
            o \in {None, [reasoningEffort |-> set, serviceTier |-> None]},
            g \in {None, [thinkingLevel |-> set, thinkingBudgetTokens |-> set, safetySettings |-> None]}}]

-----------------------------------------------------------------------------
\* Integrations

NoBlock == [k \in IntegrationKind |-> None]
Res(name, kind_, block, credentials) ==
    [name |-> name, kind |-> kind_, credentials |-> credentials,
     block |-> [NoBlock EXCEPT ![kind_] = block], triggers |-> "none"]

Opaque1 == [opaque |-> TRUE]
Project(path, default) == [baseURL |-> h1, project |-> path, defaultBranch |-> default]
Group(path, projects, ro) == [baseURL |-> h2, group |-> path, projects |-> projects, readOnly |-> ro]
Hub(api) == [owner |-> <<x>>, repo |-> <<y>>, defaultBranch |-> None, apiURL |-> api]
Repo == [url |-> <<h1, <<x>>>>, defaultBranch |-> b1]
Example ==
    [k \in IntegrationKind |->
        CASE k = "github-repo" -> Hub(None)
          [] k = "gitlab-project" -> Project(<<x, "/", y>>, None)
          [] k = "gitlab-group" -> Group(<<x>>, {}, FALSE)
          [] k = "git-repo" -> Repo
          [] OTHER -> Opaque1]

MCIntegrations ==
    {[Res(i1, k, None, None) EXCEPT !.block = [j \in IntegrationKind |-> IF j \in B THEN Example[j] ELSE None],
                                    !.triggers = t] :
        k \in IntegrationKind, B \in {B \in SUBSET IntegrationKind : Cardinality(B) <= 2},
        t \in {"none", "valid", "incomplete"}}

GitIntegrations ==
    UNION {{Res(i1, "github-repo", Hub(None), c), Res(i1, "github-repo", Hub(h1), c),
            Res(i1, "gitlab-project", Project(<<x, "/", y>>, None), c),
            Res(i1, "gitlab-project", Project(<<x, "/", y>>, b1), c),
            Res(i1, "gitlab-group", Group(<<x>>, {}, FALSE), c),
            Res(i1, "gitlab-group", Group(<<x>>, {<<x, "/", y>>, <<y, "/", x>>}, FALSE), c),
            Res(i1, "gitlab-group", Group(<<x, "/", y>>, {}, TRUE), c),
            Res(i1, "git-repo", Repo, c),
            Res(i1, "s3-bucket", Opaque1, c),
            Res(i1, "gitlab-group", None, c)} : c \in {None, s1}}

-----------------------------------------------------------------------------
\* Agents

Tool1(name, secret, env) == [name |-> name, pullSecret |-> secret, env |-> env]
Ref(name, overrides) == [name |-> name, overrides |-> overrides]
Bind(name, ro) == [name |-> name, readOnly |-> ro]
User(name, value) == [name |-> name, value |-> value]
NoEnv == [n \in {} |-> None]

Prov(name, key, oauth2, defaults) ==
    [name |-> name, type |-> "anthropic", apiKey |-> key, keyExists |-> TRUE, oauth2 |-> oauth2, baseURL |-> FALSE,
     config |-> {}, defaults |-> defaults]
Anthropic(effort, budget) ==
    [anthropic |-> [effort |-> effort, thinkingBudgetTokens |-> budget, disableParallelToolUse |-> None],
     openai |-> None, google |-> None]
WithKey == Prov(p1, s1, None, Anthropic(s1, None))
WithOAuth == Prov(p2, None, [id |-> s2, secret |-> s3], None)

Base ==
    [name |-> a1, mode |-> "daemon", storage |-> None, builtinTools |-> {"bash"}, temperature |-> None,
     maxSteps |-> None, tools |-> << >>, providerRefs |-> << Ref(p1, None) >>, fallback |-> {},
     integrations |-> << >>, env |-> NoEnv, secrets |-> << >>, contextFiles |-> << >>,
     memory |-> None, delegation |-> None, hooks |-> None, schedule |-> FALSE,
     schedulePrompt |-> FALSE, serviceAccount |-> None, netpol |-> FALSE, security |-> NoOverrides]

MCEnvName ==
    {<<"API_KEY", p1>>, <<"GIT_TOKEN">>, <<"GITLAB_TOKEN">>, <<"GIT_REPO_URL">>}

Item(agent, providers, integrations) ==
    [agent |-> agent, providers |-> providers, integrations |-> integrations]

\* for the webhook
Submitted ==
    {[Base EXCEPT !.mode = m, !.storage = s, !.builtinTools = t, !.tools = o, !.fallback = f,
                  !.hooks = hk, !.providerRefs = r] :
        m \in {"daemon", "task", "unknown"}, s \in {None, "sized", "unsized"},
        t \in {{}, {"bash"}, {"search"}}, o \in {<< >>, << Tool1("search", None, << >>) >>},
        f \in {{}, {None}, {p1}, {p2}},
        hk \in {None, [relativePath |-> TRUE, auditTools |-> {}],
                [relativePath |-> FALSE, auditTools |-> {"bash", "search", "run_agent"}]},
        r \in {<< >>, << Ref(p1, None) >>}}
    \cup {[Base EXCEPT !.temperature = t, !.maxSteps = n, !.schedule = s, !.schedulePrompt = q] :
        t \in {None, 0 - 1, 0, 20, 21}, n \in {None, 0, 1}, s \in BOOLEAN, q \in BOOLEAN}

\* for the integrations
IntegrationsOf(b1_, b2_) ==
    {<< [Res(i1, "gitlab-project", Project(<<x>>, None), s1) EXCEPT !.name = b1_],
        Res(b2_, "gitlab-group", Group(<<y>>, {<<y, "/", x>>}, ro), c) >> : ro \in BOOLEAN, c \in {None, s2}}
    \cup {<< Res(b1_, "gitlab-project", Project(<<x>>, None), s1),
             Res(b2_, "gitlab-project", Project(<<y>>, None), s2) >>,
          << Res(b1_, "gitlab-group", Group(<<x>>, {}, TRUE), s1),
             Res(b2_, "gitlab-group", Group(<<y>>, {}, FALSE), s2) >>}

\* for the pod
Rendered ==
    {[Base EXCEPT !.mode = m, !.storage = s, !.tools = t, !.env = e, !.secrets = c,
                  !.contextFiles = f, !.providerRefs = r] :
        m \in {"daemon"}, s \in {None, "sized"},
        t \in {<< >>, << Tool1("gitlab", s1, << User(<<"GITLAB_TOKEN">>, x) >>), Tool1("search", None, << >>) >>,
               << Tool1("search", s1, << >>), Tool1("search", s2, << >>) >>},
        e \in {NoEnv, [n \in {<<"API_KEY", p1>>} |-> x], [n \in {<<"GIT_TOKEN">>} |-> x]},
        c \in {<< >>, << [name |-> <<"OAUTH2_CLIENT_ID", p2>>, secret |-> s1] >>},
        f \in {<< >>, << k1, k2 >>, << k1, k1 >>},
        r \in {<< Ref(p1, None), Ref(p2, Anthropic(None, s2)) >>, << Ref(p1, Anthropic(s2, s2)) >>}}

Remembering ==
    {[Base EXCEPT !.memory = m, !.delegation = d, !.serviceAccount = sa, !.netpol = (sa = None)] :
        m \in {None} \cup [project : {None, x}, contextLimit : {0, 1, 50}, autoSummarize : Opt(BOOLEAN),
                           autoSave : Opt(BOOLEAN), autoSearch : Opt(BOOLEAN)],
        d \in {None} \cup [team : {{a1}}, maxFanOut : {1, 9, 10}],
        sa \in {None, x}}

ProvidersOf(a) ==
    [i \in DOMAIN a.providerRefs |-> IF a.providerRefs[i].name = p1 THEN WithKey ELSE WithOAuth]

\* for the security floor
PodOverrides ==
    {None} \cup [runAsNonRoot : Opt(BOOLEAN), runAsUser : Opt(Uid), seccomp : Opt(Seccomp), passed : Opt(Opaque),
                 seLinux : {None}, ignored : {None}]
    \cup [runAsNonRoot : {None}, runAsUser : {None, 0}, seccomp : {None}, passed : Opt(Opaque),
          seLinux : Opt(SELinux), ignored : Opt(Opaque)]
ContainerOverrides ==
    {None} \cup
    [allowPrivilegeEscalation : {None, TRUE}, privileged : Opt(BOOLEAN), readOnlyRootFilesystem : {None, FALSE},
     runAsNonRoot : {None, FALSE}, runAsUser : Opt(Uid), add : {{}, {"NET_RAW"}}, seccomp : Opt(Seccomp),
     passed : {None}, seLinux : {None, "other"}, ignored : {None}]
SELinuxOverrides ==
    [allowPrivilegeEscalation : {None}, privileged : {None}, readOnlyRootFilesystem : {None},
     runAsNonRoot : {None}, runAsUser : {None, 0}, add : {{}}, seccomp : {None},
     passed : {None}, seLinux : Opt(SELinux), ignored : Opt(Opaque)]
Sampled ==
    {[pod |-> p, container |-> None, automount |-> m] : p \in PodOverrides, m \in Opt(BOOLEAN)}
    \cup {[pod |-> None, container |-> c, automount |-> None] : c \in ContainerOverrides}
    \cup {[pod |-> p, container |-> c, automount |-> None] :
             p \in {q \in PodOverrides \ {None} : q.seLinux # None}, c \in SELinuxOverrides}

MCAgents ==
    {Item(a, [i \in DOMAIN a.providerRefs |-> WithKey], << >>) : a \in Submitted}
    \cup {Item([Base EXCEPT !.integrations = << Bind(l[1].name, r1), Bind(l[2].name, r2) >>,
                            !.env = [n \in {<<"GITLAB_TOKEN">>} |-> x]], << WithKey >>, l) :
             r1 \in BOOLEAN, r2 \in BOOLEAN,
             l \in UNION {{m, << m[1], m[1] >>} : m \in IntegrationsOf(i1, i2)}}
    \cup {Item(a, ProvidersOf(a), << >>) : a \in Rendered \cup Remembering}
    \cup {Item([Base EXCEPT !.security = o, !.tools = << Tool1("search", s1, << >>) >>], << WithKey >>, << >>) :
             o \in Sampled}

-----------------------------------------------------------------------------
\* Runs

Worker ==
    {[Base EXCEPT !.mode = "task", !.tools = t, !.env = e] :
        t \in {<< >>, << Tool1("gitlab", None, << >>) >>},
        e \in {NoEnv, [n \in {<<"GITLAB_TOKEN">>, <<"GIT_REPO_URL">>} |-> x]}}
RunSpecs == [name : {a1, run}, prompt : {x}]

MCRuns ==
    [agent : Worker, run : RunSpecs, providers : {<< WithKey >>},
     git : [project : {None, <<x>>, <<x, "/", y>>, <<y, "/", x>>, <<x, "/", y, "/", x>>, <<x, y, "/", x>>,
                       <<x, "/">>, <<x, "/", ".", "/", y>>}, branch : {b1}, baseBranch : {None, b1}],
     integration : GitIntegrations]
    \cup [agent : {[w EXCEPT !.providerRefs = << Ref(p1, None), Ref(p2, None) >>] : w \in Worker},
          run : RunSpecs, providers : {<< WithKey, WithOAuth >>},
          git : {None}, integration : {None}]

-----------------------------------------------------------------------------
\* Channels

NoPlatform == [t \in ChannelType |-> None]
LabelBlock(ref) == [integrationRef |-> ref, labels |-> {}]
CommentBlock(ref) == [integrationRef |-> ref, planningLabel |-> None]
BlockChoices(t) ==
    CASE t = "gitlab-label" -> {None, LabelBlock(None), LabelBlock(i1), LabelBlock(i2)}
      [] t = "gitlab-comment" -> {None, CommentBlock(None), CommentBlock(i1)}
      [] t = "webhook" -> {None, [secret |-> None], [secret |-> s1]}
      [] OTHER -> {None, [secret |-> s1]}

ChannelOf(t, block, prompt, ingress, security) ==
    [name |-> c1, type |-> t, agentRef |-> a1, block |-> block, prompt |-> prompt,
     ingress |-> ingress, security |-> security]

ChannelSpecs ==
    UNION {{ChannelOf(t, [NoPlatform EXCEPT ![t] = b], q, g, [NoOverrides EXCEPT !.automount = m]) :
                b \in BlockChoices(t), q \in {None, x}, g \in {None, h1}, m \in Opt(BOOLEAN)} : t \in ChannelType}
    \cup {ChannelOf(t, [NoPlatform EXCEPT !["gitlab-label"] = l, !["gitlab-comment"] = CommentBlock(i1)],
                    None, None, NoOverrides) :
             t \in {"gitlab-label", "gitlab-comment"}, l \in BlockChoices("gitlab-label")}

MCChannels ==
    [channel : ChannelSpecs,
     agent : {None} \cup {[name |-> a1, mode |-> m] : m \in {"daemon", "task"}},
     integrations : {[i \in {i1} |-> Res(i1, "gitlab-project", Project(<<x, "/", y>>, b1), s1)],
                     [i \in {i1} |-> Res(i1, "gitlab-group", Group(<<x>>, {}, FALSE), None)],
                     [i \in {i1} |-> Res(i1, "github-repo", Hub(None), s1)]}]

-----------------------------------------------------------------------------
\* Requests

Rules ==
    {<< >>} \cup {<< r >> : r \in Rule}
    \cup {<< [tool |-> "read", constraint |-> Malformed], [tool |-> "write", constraint |-> Unset] >>}
Gateways ==
    [config : {"readable"}, server : {"srv"},
     policies : {[s \in {"srv"} |-> [mode |-> m, rules |-> r]] : m \in {"deny", "allow", "other"}, r \in Rules}]
    \cup [config : {"unset", "unreadable", "readable"}, server : {Unset, "srv", "other"},
          policies : {[s \in {"srv"} |-> [mode |-> "allow", rules |-> << >>]]}]
Calls ==
    {[name |-> t, args |-> g] : t \in Tool, g \in UNION {[A -> {<< >>, << "a" >>, << "a", "b" >>, << "a", "*" >>}] : A \in SUBSET Arg}}
Bodies ==
    {[shape |-> "request", method |-> m, params |-> c] : m \in {"tools/call", "tools/list"}, c \in Calls \cup {Malformed}}
    \cup {[shape |-> s, method |-> Unset, params |-> Unset] : s \in {"unreadable", "other"}}
MCRequests ==
    {[gateway |-> g, request |-> [route |-> r, body |-> b]] :
        g \in Gateways, r \in {"POST /mcp"}, b \in Bodies}
    \cup {[gateway |-> g, request |-> [route |-> r, body |-> b]] :
        g \in {[config |-> "unset", server |-> Unset, policies |-> [s \in {} |-> None]]},
        r \in {"GET /mcp", "GET /health", "POST /other"}, b \in Bodies}
=============================================================================
