---------------------------- MODULE GitWorkspace ----------------------------
(***************************************************************************)
(* Integrations as git platforms (internal/resources/agent_git.go): which  *)
(* repository, which token and which branch the pod of a run works with,   *)
(* and which GitLab identity a daemon agent carries.                       *)
(*                                                                         *)
(* A repository or group path is the sequence of its characters: letters,  *)
(* "/", "." and "%", which stands for all others that mean something in a  *)
(* URL.  Nothing checks that what users write is a normal path.  A clone   *)
(* URL is the pair of host and path.                                       *)
(***************************************************************************)
EXTENDS PodSpec, SequencesExt

CONSTANTS
    Letter,      \* characters of paths that mean nothing in a URL
    Host,        \* base URLs of git servers
    Branch       \* branch names

IntegrationKind ==
    {"github-repo", "github-org", "gitlab-project", "gitlab-group", "git-repo",
     "s3-bucket", "documentation"}

Path == Seq(Letter \cup {"/", ".", "%"}) \ {<< >>}

(* What the properties need of a kind's block of configuration.            *)
Block(kind) ==
    CASE kind = "github-repo" ->
           [owner : Path, repo : Path, defaultBranch : Opt(Branch), apiURL : Opt(Host)]
      [] kind = "gitlab-project" ->
           [baseURL : Host, project : Path, defaultBranch : Opt(Branch)]
      [] kind = "gitlab-group" ->
           [baseURL : Host, group : Path, projects : SUBSET Path, readOnly : BOOLEAN]
      [] kind = "git-repo" ->
           [url : Host \X Path, defaultBranch : Opt(Branch)]
      [] OTHER -> [opaque : {TRUE}]

(* An Integration: block[k] is the configuration block of kind k, if any.  *)
IsIntegration(res) ==
    /\ res.kind \in IntegrationKind
    /\ res.credentials \in Opt(Secret)
    /\ DOMAIN res.block = IntegrationKind
    /\ \A k \in IntegrationKind : res.block[k] # None => res.block[k] \in Block(k)
    /\ res.triggers \in {"none", "valid", "incomplete"}

(* spec.git of a run. *)
RunGit == [project : Opt(Path), branch : Branch, baseBranch : Opt(Branch)]

(* The admission webhook: the block of the kind and no other, and triggers *)
(* with event, agent and prompt.                                           *)
ValidateIntegration(res) ==
    /\ {k \in IntegrationKind : res.block[k] # None} = {res.kind}
    /\ res.triggers # "incomplete"

(* The reconciler's check, the safety net behind the webhook. *)
ValidateResource(res) ==
    res.kind \in IntegrationKind /\ res.block[res.kind] # None

(* The block as config.json shows it: a group's readOnly stays out of it.  *)
MapIntegrationKind(res) ==
    LET b == res.block[res.kind]
    IN  IF b = None THEN None ELSE [f \in DOMAIN b \ {"readOnly"} |-> b[f]]

-----------------------------------------------------------------------------

FirstSet(a, b, default) == IF a # None THEN a ELSE IF b # None THEN b ELSE default

Workspace(provider, url, git, defaultBranch, res) ==
    [provider |-> provider, cloneURL |-> url, branch |-> git.branch,
     baseBranch |-> FirstSet(git.baseBranch, defaultBranch, "main"),
     credentials |-> res.credentials, github |-> None]

(* What is resolved is not taken for "not resolved". *)
ASSUME WorkspaceAssumption ==
    None \notin [provider : {"github", "gitlab", "git"}, cloneURL : (Host \cup {"github.com"}) \X Path,
                 branch : Branch, baseBranch : Branch \cup {"main"},
                 credentials : Opt(Secret), github : Opt([owner : Path, repo : Path, apiURL : Opt(Host)])]

(* Mutant: a name that begins like the group's is taken for a member. *)
BeginsLikeGroup(project, b) ==
    /\ IsPrefix(b.group, project)
    /\ b.projects = {} \/ project \in b.projects

(* A group's token is for the projects that begin with the group and a     *)
(* slash, and only for those on its allow-list if it has one.              *)
InGroup(project, b) ==
    /\ IsPrefix(b.group \o <<"/">>, project)
    /\ b.projects = {} \/ project \in b.projects

(* None when the workspace cannot be resolved; the run then fails.  A      *)
(* group needs the run to name a project inside it, on its allow-list if   *)
(* it has one; the other kinds ignore the run's project.                   *)
ResolveGitWorkspace(git, res) ==
    LET b == res.block[res.kind]
    IN  CASE b = None -> None
          [] b # None /\ res.kind = "github-repo" ->
               [Workspace("github",
                          <<FirstSet(b.apiURL, None, "github.com"), b.owner \o <<"/">> \o b.repo>>,
                          git, b.defaultBranch, res)
                  EXCEPT !.github = [owner |-> b.owner, repo |-> b.repo, apiURL |-> b.apiURL]]
          [] b # None /\ res.kind = "gitlab-project" ->
               Workspace("gitlab", <<b.baseURL, b.project>>, git, b.defaultBranch, res)
          [] b # None /\ res.kind = "gitlab-group" ->
               IF git.project = None \/ ~InGroup(git.project, b) THEN None
                 ELSE Workspace("gitlab", <<b.baseURL, git.project>>, git, None, res)
          [] b # None /\ res.kind = "git-repo" ->
               Workspace("git", b.url, git, b.defaultBranch, res)
          [] OTHER -> None

TokenName(provider) ==
    CASE provider = "github" -> <<"GH_TOKEN">>
      [] provider = "gitlab" -> <<"GITLAB_TOKEN">>
      [] OTHER -> <<"GIT_TOKEN">>

(* The variables of the run's pod. *)
GitEnvVars(g) ==
    LET path == g.cloneURL[2]
    IN  << EnvVar(<<"GIT_PROVIDER">>, g.provider), EnvVar(<<"GIT_REPO_URL">>, g.cloneURL),
           EnvVar(<<"GIT_BRANCH">>, g.branch), EnvVar(<<"GIT_BASE_BRANCH">>, g.baseBranch) >>
        \o When(g.provider = "github",
                << EnvVar(<<"GIT_OWNER">>, g.github.owner), EnvVar(<<"GIT_REPO">>, g.github.repo) >>
                \o When(g.github.apiURL # None, << EnvVar(<<"GITHUB_API_URL">>, g.github.apiURL) >>))
        \o When(g.provider = "gitlab",
                << EnvVar(<<"GIT_PROJECT">>, path), EnvVar(<<"GITLAB_URL">>, g.cloneURL[1]),
                   EnvVar(<<"GITLAB_PROJECT">>, path) >>)
        \o When(g.credentials # None,
                << SecretEnvVar(TokenName(g.provider), g.credentials) >>
                \o When(g.provider # "git", << SecretEnvVar(<<"GIT_TOKEN">>, g.credentials) >>))

(* The tool that config.json must offer for the platform. *)
GitToolEntries(g) == When(g.provider \in {"github", "gitlab"}, << g.provider >>)

(* A daemon's GitLab identity: the first bound group, else the first bound *)
(* project.  readOnly[i] is the binding of integrations[i].                *)
GitLabEnvFromIntegrations(integrations, readOnly) ==
    LET Of(kind) == {i \in DOMAIN integrations : integrations[i].kind = kind}
        group == Of("gitlab-group")
        project == Of("gitlab-project")
        chosen == IF group # {} THEN Min(group) ELSE Min(project)
        res == integrations[chosen]
        b == res.block[res.kind]
    IN  IF group \cup project = {} \/ b = None THEN << >>
          ELSE << EnvVar(<<"GITLAB_URL">>, b.baseURL) >>
               \o When(group = {}, << EnvVar(<<"GITLAB_PROJECT">>, b.project) >>)
               \o When(group # {}, << EnvVar(<<"GITLAB_GROUP">>, b.group) >>
                       \o When(b.projects # {}, << EnvVar(<<"GITLAB_PROJECTS">>, b.projects) >>))
               \o When(readOnly[chosen] \/ (group # {} /\ b.readOnly),
                       << EnvVar(<<"GITLAB_READONLY">>, "true") >>)
               \o When(res.credentials # None,
                       << SecretEnvVar(<<"GITLAB_TOKEN">>, res.credentials),
                          SecretEnvVar(<<"GIT_TOKEN">>, res.credentials) >>)

-----------------------------------------------------------------------------

(* The namespaces that a path is in: what is before each of its slashes.   *)
Namespaces(p) == {SubSeq(p, 1, i - 1) : i \in {j \in DOMAIN p : p[j] = "/"}}

(* The path has no segment that is empty, "." or ".." and nothing that has *)
(* to be decoded, so that what it names is in all of its namespaces.       *)
IsNormal(p) ==
    LET At(i) == IF i \in DOMAIN p THEN p[i] ELSE "/"
    IN  /\ \A i \in DOMAIN p : p[i] # "%"
        /\ \A i \in 0 .. Len(p), dots \in 0 .. 2 :
              At(i) = "/" /\ At(i + dots + 1) = "/" => \E n \in 1 .. dots : At(i + n) # "."

(* What the token of an Integration may be used for.  A group without an   *)
(* allow-list vouches for normal paths only.                               *)
Covers(res, url) ==
    LET b == res.block[res.kind]
    IN  CASE res.kind = "github-repo" ->
               url = <<FirstSet(b.apiURL, None, "github.com"), b.owner \o <<"/">> \o b.repo>>
          [] res.kind = "gitlab-project" -> url = <<b.baseURL, b.project>>
          [] res.kind = "gitlab-group" ->
               /\ url[1] = b.baseURL
               /\ b.group \in Namespaces(url[2])
               /\ IF b.projects = {} THEN IsNormal(url[2]) ELSE url[2] \in b.projects
          [] res.kind = "git-repo" -> url = b.url
          [] OTHER -> FALSE
=============================================================================
