--------------------------- MODULE HandlersProofs ---------------------------
(***************************************************************************)
(* Handlers, proved for every set of inputs.                               *)
(*                                                                         *)
(* The security floor follows from HandlersInv: what is rendered went      *)
(* through ApplySecurity.  That tool calls are policed, for rules and      *)
(* values of any length, follows from ServedByHandler and from lemmas on   *)
(* patterns.  Three theorems are about operators alone: the test on the    *)
(* first characters of a project is one of namespaces, the two checks of a *)
(* Provider agree, and merged call settings come from the right side.      *)
(*                                                                         *)
(* The other theorems rest on Handled, which says of every kind of object  *)
(* what is known of it at each stage of its way.  That the two             *)
(* gatekeepers agree is read off it.  What a container finds in its        *)
(* environment (a bridge's settings, a pod's git identity) is computed     *)
(* from the lists that the builder puts together: Sole, LastIs and Nowhere *)
(* say what a list has of a name, and lemmas carry them over               *)
(* concatenation, flattening and the list of a set.                        *)
(***************************************************************************)
EXTENDS Handlers, SequenceTheorems, FiniteSetTheorems, WellFoundedInduction, TLAPS

LEMMA PodMerge ==
    ASSUME NEW o, o # None
    PROVE  /\ MergePodSecurityContext(o).out.runAsNonRoot = TRUE
           /\ MergePodSecurityContext(o).out.runAsUser = Merged(RestrictedRunAsUser, o.runAsUser, {0})
           /\ MergePodSecurityContext(o).out.seccomp = Merged("RuntimeDefault", o.seccomp, {"Unconfined"})
           /\ MergePodSecurityContext(o).out.passed = o.passed
           /\ MergePodSecurityContext(o).out.seLinux = o.seLinux
           /\ MergePodSecurityContext(o).out.ignored = None
           /\ o.runAsNonRoot = FALSE => "runAsNonRoot" \in MergePodSecurityContext(o).violations
           /\ o.runAsUser = 0 => "runAsUser" \in MergePodSecurityContext(o).violations
           /\ o.seccomp = "Unconfined" => "seccomp" \in MergePodSecurityContext(o).violations
   BY DEF MergePodSecurityContext, RestrictedPodSecurityContext

LEMMA ContainerMerge ==
    ASSUME NEW o, o # None
    PROVE  /\ MergeContainerSecurityContext(o).out.allowPrivilegeEscalation = FALSE
           /\ MergeContainerSecurityContext(o).out.privileged = None
           /\ MergeContainerSecurityContext(o).out.readOnlyRootFilesystem = TRUE
           /\ MergeContainerSecurityContext(o).out.runAsNonRoot = TRUE
           /\ MergeContainerSecurityContext(o).out.runAsUser = Merged(None, o.runAsUser, {0})
           /\ MergeContainerSecurityContext(o).out.add = {}
           /\ MergeContainerSecurityContext(o).out.drop = {"ALL", "NET_RAW"}
           /\ MergeContainerSecurityContext(o).out.seccomp = Merged("RuntimeDefault", o.seccomp, {"Unconfined"})
           /\ MergeContainerSecurityContext(o).out.passed = o.passed
           /\ MergeContainerSecurityContext(o).out.seLinux = o.seLinux
           /\ MergeContainerSecurityContext(o).out.ignored = None
   BY DEF MergeContainerSecurityContext, RestrictedContainerSecurityContext

LEMMA ContainerReports ==
    ASSUME NEW o \in ContainerOverride, o # None
    PROVE  /\ o.allowPrivilegeEscalation = TRUE => "allowPrivilegeEscalation" \in MergeContainerSecurityContext(o).violations
           /\ o.privileged = TRUE => "privileged" \in MergeContainerSecurityContext(o).violations
           /\ o.readOnlyRootFilesystem = FALSE => "readOnlyRootFilesystem" \in MergeContainerSecurityContext(o).violations
           /\ o.runAsNonRoot = FALSE => "runAsNonRoot" \in MergeContainerSecurityContext(o).violations
           /\ o.runAsUser = 0 => "runAsUser" \in MergeContainerSecurityContext(o).violations
           /\ o.add # {} => "add" \in MergeContainerSecurityContext(o).violations
           /\ o.seccomp = "Unconfined" => "seccomp" \in MergeContainerSecurityContext(o).violations
   BY DEF MergeContainerSecurityContext, ContainerOverride

LEMMA PodHonoured ==
    ASSUME NEW o \in Opt(PodOverride)
    PROVE  HonouredOrReported(o, MergePodSecurityContext(o))
  <1> DEFINE m == MergePodSecurityContext(o)
  <1> SUFFICES ASSUME o # None
               PROVE  \A f \in DOMAIN o \ {"ignored"} : o[f] \in {None, m.out[f]} \/ f \in m.violations
    BY DEF HonouredOrReported
  <1>1. /\ DOMAIN o = {"runAsNonRoot", "runAsUser", "seccomp", "passed", "seLinux", "ignored"}
        /\ o.runAsNonRoot \in Opt(BOOLEAN) /\ o.runAsUser \in Opt(Uid) /\ o.seccomp \in Opt(Seccomp)
    BY DEF PodOverride, Opt
  <1>2. o.runAsNonRoot \in {None, m.out.runAsNonRoot} \/ "runAsNonRoot" \in m.violations
    <2>1. o.runAsNonRoot = None \/ o.runAsNonRoot = TRUE \/ o.runAsNonRoot = FALSE
      BY <1>1 DEF Opt
    <2>2. m.out.runAsNonRoot = TRUE
      BY PodMerge
    <2>3. o.runAsNonRoot = FALSE => "runAsNonRoot" \in m.violations
      BY PodMerge
    <2> HIDE DEF m
    <2> QED  BY <2>1, <2>2, <2>3
  <1>3. o.runAsUser \in {None, m.out.runAsUser} \/ "runAsUser" \in m.violations
    <2>1. m.out.runAsUser = Merged(RestrictedRunAsUser, o.runAsUser, {0})
      BY PodMerge
    <2>2. o.runAsUser = 0 => "runAsUser" \in m.violations
      BY PodMerge
    <2> HIDE DEF m
    <2> QED  BY <2>1, <2>2 DEF Merged
  <1>4. o.seccomp \in {None, m.out.seccomp} \/ "seccomp" \in m.violations
    <2>1. m.out.seccomp = Merged("RuntimeDefault", o.seccomp, {"Unconfined"})
      BY PodMerge
    <2>2. o.seccomp = "Unconfined" => "seccomp" \in m.violations
      BY PodMerge
    <2> HIDE DEF m
    <2> QED  BY <2>1, <2>2 DEF Merged
  <1>5. o.passed \in {None, m.out.passed} /\ o.seLinux \in {None, m.out.seLinux}
    BY PodMerge
  <1> HIDE DEF m
  <1> QED  BY <1>1, <1>2, <1>3, <1>4, <1>5

LEMMA ContainerHonoured ==
    ASSUME NEW o \in Opt(ContainerOverride)
    PROVE  HonouredOrReported(o, MergeContainerSecurityContext(o))
  <1> DEFINE m == MergeContainerSecurityContext(o)
  <1> DEFINE P(f) == \/ o[f] \in {None, m.out[f]}
                     \/ f = "privileged" /\ o[f] = FALSE
                     \/ f \in m.violations
  <1> SUFFICES ASSUME o # None
               PROVE  \A f \in DOMAIN o \ {"ignored"} : P(f)
    BY DEF HonouredOrReported
  <1>1. o \in ContainerOverride
    BY DEF Opt
  <1>2. /\ DOMAIN o = {"allowPrivilegeEscalation", "privileged", "readOnlyRootFilesystem",
                       "runAsNonRoot", "runAsUser", "add", "seccomp", "passed", "seLinux", "ignored"}
        /\ o.allowPrivilegeEscalation \in Opt(BOOLEAN) /\ o.privileged \in Opt(BOOLEAN)
        /\ o.readOnlyRootFilesystem \in Opt(BOOLEAN) /\ o.runAsNonRoot \in Opt(BOOLEAN)
    BY <1>1 DEF ContainerOverride
  <1>3. /\ o.allowPrivilegeEscalation = None \/ o.allowPrivilegeEscalation = TRUE \/ o.allowPrivilegeEscalation = FALSE
        /\ o.privileged = None \/ o.privileged = TRUE \/ o.privileged = FALSE
        /\ o.readOnlyRootFilesystem = None \/ o.readOnlyRootFilesystem = TRUE \/ o.readOnlyRootFilesystem = FALSE
        /\ o.runAsNonRoot = None \/ o.runAsNonRoot = TRUE \/ o.runAsNonRoot = FALSE
    BY <1>2 DEF Opt
  <1>4. /\ m.out.allowPrivilegeEscalation = FALSE
        /\ m.out.readOnlyRootFilesystem = TRUE
        /\ m.out.runAsNonRoot = TRUE
        /\ m.out.runAsUser = Merged(None, o.runAsUser, {0})
        /\ m.out.add = {}
        /\ m.out.seccomp = Merged("RuntimeDefault", o.seccomp, {"Unconfined"})
        /\ m.out.passed = o.passed /\ m.out.seLinux = o.seLinux
    BY ContainerMerge
  <1>5. /\ o.allowPrivilegeEscalation = TRUE => "allowPrivilegeEscalation" \in m.violations
        /\ o.privileged = TRUE => "privileged" \in m.violations
        /\ o.readOnlyRootFilesystem = FALSE => "readOnlyRootFilesystem" \in m.violations
        /\ o.runAsNonRoot = FALSE => "runAsNonRoot" \in m.violations
        /\ o.runAsUser = 0 => "runAsUser" \in m.violations
        /\ o.add # {} => "add" \in m.violations
        /\ o.seccomp = "Unconfined" => "seccomp" \in m.violations
    BY <1>1, ContainerReports
  <1> HIDE DEF m
  <1>6. P("allowPrivilegeEscalation") /\ P("readOnlyRootFilesystem") /\ P("runAsNonRoot")
    BY <1>3, <1>4, <1>5
  <1>7. P("privileged")
    BY <1>3, <1>5
  <1>8. P("runAsUser") /\ P("seccomp") /\ P("add") /\ P("passed") /\ P("seLinux")
    BY <1>4, <1>5 DEF Merged
  <1> HIDE DEF P
  <1> QED  BY <1>2, <1>6, <1>7, <1>8

-----------------------------------------------------------------------------

(* What the two merges guarantee of their results, separately. *)
ContainerFloor(c) ==
    /\ c.allowPrivilegeEscalation = FALSE /\ c.privileged = None
    /\ c.readOnlyRootFilesystem = TRUE /\ c.runAsNonRoot = TRUE
    /\ c.runAsUser # 0
    /\ c.add = {} /\ c.drop = {"ALL", "NET_RAW"}
    /\ c.seccomp = "RuntimeDefault" \/ c.seccomp = "Localhost"
    /\ c.ignored = None

LEMMA FloorRestricts ==
    ASSUME NEW c, NEW p, ContainerFloor(c), p.runAsUser # 0, p.ignored = None
    PROVE  Restricted(c, p)
  <1>1. None # TRUE /\ None # "RuntimeDefault" /\ None # "Localhost"
    BY SecurityAssumption DEF SecurityAssumption, Seccomp
  <1>2. Effective(c, p, "runAsNonRoot") = TRUE
    BY <1>1 DEF ContainerFloor, Effective
  <1>3. Effective(c, p, "runAsUser") # 0
    BY DEF ContainerFloor, Effective
  <1>4. Effective(c, p, "seccomp") \in {"RuntimeDefault", "Localhost"}
    BY <1>1 DEF ContainerFloor, Effective
  <1>5. c.privileged # TRUE
    BY <1>1 DEF ContainerFloor
  <1>6. "ALL" \in c.drop
    BY DEF ContainerFloor
  <1> QED  BY <1>2, <1>3, <1>4, <1>5, <1>6 DEF ContainerFloor, Restricted

LEMMA RestrictedFloor == ContainerFloor(RestrictedContainerSecurityContext)
  BY SecurityAssumption
  DEF ContainerFloor, RestrictedContainerSecurityContext, SecurityAssumption, RestrictedRunAsUser

LEMMA ContainerMergeFloor ==
    ASSUME NEW o \in Opt(ContainerOverride)
    PROVE  ContainerFloor(MergeContainerSecurityContext(o).out)
  <1> DEFINE c == MergeContainerSecurityContext(o).out
  <1> SUFFICES ContainerFloor(c)
    OBVIOUS
  <1>1. CASE o = None
    <2>1. c = RestrictedContainerSecurityContext
      BY <1>1 DEF MergeContainerSecurityContext
    <2> QED  BY <2>1, RestrictedFloor
  <1>2. CASE o # None
    <2>1. /\ c.allowPrivilegeEscalation = FALSE /\ c.privileged = None
          /\ c.readOnlyRootFilesystem = TRUE /\ c.runAsNonRoot = TRUE
          /\ c.runAsUser = Merged(None, o.runAsUser, {0})
          /\ c.add = {} /\ c.drop = {"ALL", "NET_RAW"}
          /\ c.seccomp = Merged("RuntimeDefault", o.seccomp, {"Unconfined"})
          /\ c.ignored = None
      BY <1>2, ContainerMerge
    <2> HIDE DEF c
    <2>2. o.seccomp \in {None, "RuntimeDefault", "Localhost", "Unconfined"}
      BY <1>2 DEF Opt, ContainerOverride, Seccomp
    <2>3. c.runAsUser # 0
      BY <2>1, SecurityAssumption DEF Merged, SecurityAssumption, RestrictedRunAsUser
    <2>4. c.seccomp = "RuntimeDefault" \/ c.seccomp = "Localhost"
      BY <2>1, <2>2 DEF Merged
    <2> QED  BY <2>1, <2>3, <2>4 DEF ContainerFloor
  <1> QED  BY <1>1, <1>2

LEMMA PodMergeFloor ==
    ASSUME NEW o \in Opt(PodOverride)
    PROVE  MergePodSecurityContext(o).out.runAsUser # 0 /\ MergePodSecurityContext(o).out.ignored = None
  <1>1. CASE o = None
    BY <1>1 DEF MergePodSecurityContext, RestrictedPodSecurityContext, RestrictedRunAsUser
  <1>2. CASE o # None
    <2>1. /\ MergePodSecurityContext(o).out.runAsUser = Merged(RestrictedRunAsUser, o.runAsUser, {0})
          /\ MergePodSecurityContext(o).out.ignored = None
      BY <1>2, PodMerge
    <2> QED  BY <2>1 DEF Merged, RestrictedRunAsUser
  <1> QED  BY <1>1, <1>2

LEMMA SELinuxMerge ==
    ASSUME NEW o
    PROVE  /\ SELinuxAsAsked(MergePodSecurityContext(o).out, o)
           /\ SELinuxAsAsked(MergeContainerSecurityContext(o).out, o)
  <1> DEFINE p == MergePodSecurityContext(o).out
             c == MergeContainerSecurityContext(o).out
  <1>1. CASE o = None
    <2>1. p = RestrictedPodSecurityContext /\ c = RestrictedContainerSecurityContext
      BY <1>1 DEF MergePodSecurityContext, MergeContainerSecurityContext
    <2>2. p.seLinux = None /\ c.seLinux = None
      BY <2>1 DEF RestrictedPodSecurityContext, RestrictedContainerSecurityContext
    <2> QED  BY <2>2 DEF SELinuxAsAsked
  <1>2. CASE o # None
    <2>1. p.seLinux = o.seLinux
      BY <1>2, PodMerge
    <2>2. c.seLinux = o.seLinux
      BY <1>2, ContainerMerge
    <2> QED  BY <1>2, <2>1, <2>2 DEF SELinuxAsAsked
  <1> QED  BY <1>1, <1>2

-----------------------------------------------------------------------------

(* pod came out of ApplySecurity with the overrides o. *)
Secured(pod, o) ==
    /\ pod.sc = MergePodSecurityContext(o.pod).out
    /\ pod.main.sc = MergeContainerSecurityContext(o.container).out
    /\ \A i \in DOMAIN pod.init : pod.init[i].sc = RestrictedContainerSecurityContext
    /\ pod.automount => o.automount = TRUE

LEMMA ApplyContainerFacts ==
    ASSUME NEW c, NEW sc, "sc" \in DOMAIN c
    PROVE  /\ ApplyContainer(c, sc).sc = sc
           /\ DOMAIN ApplyContainer(c, sc) = DOMAIN c
  BY DEF ApplyContainer

LEMMA ApplySecurityFacts ==
    ASSUME NEW init, NEW main, NEW volumes, NEW account, NEW o,
           "sc" \in DOMAIN main, \A i \in DOMAIN init : "sc" \in DOMAIN init[i],
           NEW pod, pod = ApplySecurity([init |-> init, main |-> main, volumes |-> volumes,
                                         account |-> account, sc |-> None, automount |-> None], o)
    PROVE  /\ Secured(pod, o)
           /\ DOMAIN pod = {"init", "main", "volumes", "account", "sc", "automount"}
           /\ DOMAIN pod.main = DOMAIN main
  <1>1. /\ pod.sc = MergePodSecurityContext(o.pod).out
        /\ pod.automount = (o.automount = TRUE)
        /\ pod.init = [i \in DOMAIN init |-> ApplyContainer(init[i], RestrictedContainerSecurityContext)]
        /\ pod.main = ApplyContainer(main, MergeContainerSecurityContext(o.container).out)
        /\ DOMAIN pod = {"init", "main", "volumes", "account", "sc", "automount"}
    BY DEF ApplySecurity
  <1>2. pod.main.sc = MergeContainerSecurityContext(o.container).out /\ DOMAIN pod.main = DOMAIN main
    BY <1>1, ApplyContainerFacts
  <1>3. \A i \in DOMAIN pod.init : pod.init[i].sc = RestrictedContainerSecurityContext
    BY <1>1, ApplyContainerFacts
  <1> QED  BY <1>1, <1>2, <1>3 DEF Secured

LEMMA AgentPodSecured ==
    ASSUME NEW a, NEW providers, NEW integrations, NEW taskMode
    PROVE  LET pod == BuildAgentPodSpec(a, providers, integrations, taskMode)
           IN  /\ Secured(pod, a.security)
               /\ DOMAIN pod = {"init", "main", "volumes", "account", "sc", "automount"}
               /\ {"sc", "env", "mounts", "ports"} \subseteq DOMAIN pod.main
  <1> DEFINE pod == BuildAgentPodSpec(a, providers, integrations, taskMode)
             init == BuildInitContainers(a)
             main == BuildMainContainer(a, providers, integrations, taskMode)
  <1>1. {"sc", "env", "mounts", "ports"} \subseteq DOMAIN main
    BY DEF BuildMainContainer, Container
  <1>2. \A i \in DOMAIN init : "sc" \in DOMAIN init[i]
    BY DEF BuildInitContainers, Container
  <1>3. pod = ApplySecurity([init |-> init, main |-> main, volumes |-> BuildVolumes(a, taskMode),
                             account |-> AgentServiceAccountName(a), sc |-> None, automount |-> None],
                            a.security)
    BY DEF BuildAgentPodSpec
  <1> SUFFICES /\ Secured(pod, a.security)
               /\ DOMAIN pod = {"init", "main", "volumes", "account", "sc", "automount"}
               /\ {"sc", "env", "mounts", "ports"} \subseteq DOMAIN pod.main
    OBVIOUS
  <1> HIDE DEF init, main, pod
  <1> QED  BY <1>1, <1>2, <1>3, ApplySecurityFacts

LEMMA RunPodSecured ==
    ASSUME NEW a, NEW run, NEW providers, NEW g
    PROVE  Secured(BuildAgentRunJob(a, run, providers, g).pod, a.security)
  <1> DEFINE taskMode == TRUE
             pod == BuildAgentPodSpec(a, providers, << >>, taskMode)
             job == BuildAgentRunJob(a, run, providers, g).pod
             env == pod.main.env
                      \o << EnvVar(<<"AGENT_PROMPT">>, run.prompt), EnvVar(<<"AGENT_RUN_NAME">>, run.name) >>
                      \o When(g # None, GitEnvVars(g))
             vols == [i \in DOMAIN pod.volumes |->
                        IF g # None /\ pod.volumes[i].name = <<"operator-config">>
                          THEN Volume(pod.volumes[i].name, <<"configMap", ObjectName(run.name, "config")>>)
                          ELSE pod.volumes[i]]
  <1>1. job = [pod EXCEPT !.main.env = env, !.volumes = vols]
    BY DEF BuildAgentRunJob
  <1>2. /\ Secured(pod, a.security)
        /\ DOMAIN pod = {"init", "main", "volumes", "account", "sc", "automount"}
        /\ {"sc", "env"} \subseteq DOMAIN pod.main
    <2> HIDE DEF taskMode
    <2> QED  BY AgentPodSecured
  <1> SUFFICES Secured(job, a.security)
    OBVIOUS
  <1> HIDE DEF taskMode, pod, job, env, vols
  <1>3. job.sc = pod.sc /\ job.init = pod.init /\ job.automount = pod.automount
    BY <1>1, <1>2
  <1>4. job.main.sc = pod.main.sc
    BY <1>1, <1>2
  <1> QED  BY <1>2, <1>3, <1>4 DEF Secured

LEMMA ChannelPodSecured ==
    ASSUME NEW ch, NEW agent, NEW res
    PROVE  Secured(BuildChannelDeployment(ch, agent, res).pod, BridgeSecurity(ch, agent))
  <1>1. PICK env : BuildChannelDeployment(ch, agent, res).pod =
                     ApplySecurity([init |-> << >>,
                                    main |-> Container(<<"channel">>, << >>, env, "channel", {BridgePort}),
                                    volumes |-> << >>, account |-> ChannelServiceAccountName(ch),
                                    sc |-> None, automount |-> None],
                                   BridgeSecurity(ch, agent))
    BY DEF BuildChannelDeployment
  <1>2. "sc" \in DOMAIN Container(<<"channel">>, << >>, env, "channel", {BridgePort})
    BY DEF Container
  <1>3. DOMAIN << >> = {}
    OBVIOUS
  <1> QED  BY <1>1, <1>2, <1>3, ApplySecurityFacts

LEMMA DaemonPodSecured ==
    ASSUME NEW a, NEW providers, NEW integrations
    PROVE  Secured(BuildAgentDeployment(a, providers, integrations).pod, a.security)
  <1> DEFINE taskMode == FALSE
  <1>1. BuildAgentDeployment(a, providers, integrations).pod
            = BuildAgentPodSpec(a, providers, integrations, taskMode)
    BY DEF BuildAgentDeployment
  <1> HIDE DEF taskMode
  <1> QED  BY <1>1, AgentPodSecured

(* A pod that ApplySecurity has seen has the floor, and the violations     *)
(* that are computed apart from it are its own.                            *)
LEMMA SecuredFloor ==
    ASSUME NEW o \in SecurityOverrides, NEW pod, Secured(pod, o)
    PROVE  /\ \A c \in Containers(pod) : Restricted(c.sc, pod.sc)
           /\ SELinuxAsAsked(pod.sc, o.pod)
           /\ SELinuxAsAsked(pod.main.sc, o.container)
           /\ \A c \in Range(pod.init) : SELinuxAsAsked(c.sc, None)
           /\ HonouredOrReported(o.pod, [out |-> pod.sc,
                                         violations |-> ComputeSecurityViolations(o).pod])
           /\ HonouredOrReported(o.container, [out |-> pod.main.sc,
                                               violations |-> ComputeSecurityViolations(o).container])
  <1>1. o.pod \in Opt(PodOverride) /\ o.container \in Opt(ContainerOverride)
    BY DEF SecurityOverrides
  <1>2. pod.sc.runAsUser # 0 /\ pod.sc.ignored = None
    BY <1>1, PodMergeFloor DEF Secured
  <1>3. ContainerFloor(pod.main.sc)
    BY <1>1, ContainerMergeFloor DEF Secured
  <1>4. \A c \in Containers(pod) : ContainerFloor(c.sc)
    BY <1>3, RestrictedFloor DEF Containers, Range, Secured
  <1>5. \A c \in Containers(pod) : Restricted(c.sc, pod.sc)
    BY <1>2, <1>4, FloorRestricts
  <1>6. HonouredOrReported(o.pod, [out |-> pod.sc, violations |-> ComputeSecurityViolations(o).pod])
    <2>1. HonouredOrReported(o.pod, MergePodSecurityContext(o.pod))
      BY <1>1, PodHonoured
    <2>2. ComputeSecurityViolations(o).pod = MergePodSecurityContext(o.pod).violations
      BY DEF ComputeSecurityViolations
    <2> QED  BY <2>1, <2>2 DEF HonouredOrReported, Secured
  <1>7. HonouredOrReported(o.container,
                           [out |-> pod.main.sc, violations |-> ComputeSecurityViolations(o).container])
    <2>1. HonouredOrReported(o.container, MergeContainerSecurityContext(o.container))
      BY <1>1, ContainerHonoured
    <2>2. ComputeSecurityViolations(o).container = MergeContainerSecurityContext(o.container).violations
      BY DEF ComputeSecurityViolations
    <2> QED  BY <2>1, <2>2 DEF HonouredOrReported, Secured
  <1>8. SELinuxAsAsked(pod.sc, o.pod) /\ SELinuxAsAsked(pod.main.sc, o.container)
    BY SELinuxMerge DEF Secured
  <1>9. \A c \in Range(pod.init) : SELinuxAsAsked(c.sc, None)
    <2>1. MergeContainerSecurityContext(None).out = RestrictedContainerSecurityContext
      BY DEF MergeContainerSecurityContext
    <2> QED  BY <2>1, SELinuxMerge DEF Secured, Range
  <1> QED  BY <1>5, <1>6, <1>7, <1>8, <1>9

LEMMA BridgeSecurityFacts ==
    ASSUME NEW ch, NEW agent, ch.security \in SecurityOverrides
    PROVE  /\ BridgeSecurity(ch, agent).pod = ch.security.pod
           /\ BridgeSecurity(ch, agent).container = ch.security.container
           /\ BridgeSecurity(ch, agent).automount = TRUE =>
                 \/ ch.security.automount = TRUE
                 \/ agent.mode = "task" /\ ch.security.automount = None
  <1>1. DOMAIN ch.security = {"pod", "container", "automount"}
    BY DEF SecurityOverrides
  <1> QED  BY <1>1 DEF BridgeSecurity

(* What a handler has rendered went through ApplySecurity last. *)
RenderedSecured ==
    stage = "done" =>
        /\ kind = "Agent" =>
              /\ out.deployment = None \/ Secured(out.deployment.pod, item.agent.security)
              /\ out.violations = ComputeSecurityViolations(item.agent.security)
        /\ kind = "AgentRun" =>
              /\ Secured(out.job.pod, item.agent.security)
              /\ out.violations = ComputeSecurityViolations(item.agent.security)
        /\ kind = "Channel" =>
              /\ Secured(out.deployment.pod, BridgeSecurity(item.channel, item.agent))
              /\ out.violations = ComputeSecurityViolations(item.channel.security)

(* The item is one of the inputs. *)
FromInputs ==
    /\ kind = "Agent" => item \in Agents
    /\ kind = "AgentRun" => item \in Runs
    /\ kind = "Channel" => item \in Channels

HandlersInv == FromInputs /\ RenderedSecured

LEMMA RenderAgentInv ==
    ASSUME HandlersInv, RenderAgent
    PROVE  HandlersInv'
  <1>1. kind' = "Agent" /\ kind' = kind /\ item' = item
    BY DEF RenderAgent, Finish
  <1>2. /\ out'.violations = ComputeSecurityViolations(item.agent.security)
        /\ out'.deployment = IF item.agent.mode = "daemon"
                               THEN BuildAgentDeployment(item.agent, item.providers, item.integrations)
                               ELSE None
    BY DEF RenderAgent, Finish
  <1>3. out'.deployment = None \/ Secured(out'.deployment.pod, item.agent.security)
    BY <1>2, DaemonPodSecured
  <1> QED  BY <1>1, <1>2, <1>3 DEF HandlersInv, FromInputs, RenderedSecured

LEMMA RenderRunInv ==
    ASSUME HandlersInv, RenderRun
    PROVE  HandlersInv'
  <1>1. kind' = "AgentRun" /\ kind' = kind /\ item' = item
    BY DEF RenderRun, Finish, Fail
  <1>2. ASSUME stage' = "done"
        PROVE  /\ out'.violations = ComputeSecurityViolations(item.agent.security)
               /\ Secured(out'.job.pod, item.agent.security)
    <2>1. PICK g : /\ out'.violations = ComputeSecurityViolations(item.agent.security)
                   /\ out'.job = BuildAgentRunJob(item.agent, item.run, item.providers, g)
      BY <1>2 DEF RenderRun, Finish, Fail
    <2> QED  BY <2>1, RunPodSecured
  <1> QED  BY <1>1, <1>2 DEF HandlersInv, FromInputs, RenderedSecured

LEMMA RenderChannelInv ==
    ASSUME HandlersInv, RenderChannel
    PROVE  HandlersInv'
  <1>1. kind' = "Channel" /\ kind' = kind /\ item' = item
    BY DEF RenderChannel, Finish, Fail
  <1>2. ASSUME stage' = "done"
        PROVE  /\ out'.violations = ComputeSecurityViolations(item.channel.security)
               /\ Secured(out'.deployment.pod, BridgeSecurity(item.channel, item.agent))
    <2>1. PICK res : /\ out'.violations = ComputeSecurityViolations(item.channel.security)
                     /\ out'.deployment = BuildChannelDeployment(item.channel, item.agent, res)
      BY <1>2 DEF RenderChannel, Finish, Fail
    <2> QED  BY <2>1, ChannelPodSecured
  <1> QED  BY <1>1, <1>2 DEF HandlersInv, FromInputs, RenderedSecured

(* Whatever is rendered went through ApplySecurity with the overrides of   *)
(* its owner, and the owner's condition was computed from the same.        *)
THEOREM HandlersInvariant == Spec => []HandlersInv
  <1>1. Init => HandlersInv
    BY DEF Init, HandlersInv, FromInputs, RenderedSecured
  <1>2. HandlersInv /\ [Next]_vars => HandlersInv'
    <2> SUFFICES ASSUME HandlersInv, [Next]_vars PROVE HandlersInv'
      OBVIOUS
    <2>1. CASE AdmitProvider \/ AdmitIntegration \/ AdmitAgent \/ AdmitChannel
      BY <2>1
      DEF AdmitProvider, AdmitIntegration, AdmitAgent, AdmitChannel, Admit,
          HandlersInv, FromInputs, RenderedSecured
    <2>2. CASE ReconcileProvider \/ ReconcileIntegration \/ Serve
      BY <2>2
      DEF ReconcileProvider, ReconcileIntegration, Serve, Finish, Fail,
          HandlersInv, FromInputs, RenderedSecured
    <2>3. CASE RenderAgent
      BY <2>3, RenderAgentInv
    <2>4. CASE RenderRun
      BY <2>4, RenderRunInv
    <2>5. CASE RenderChannel
      BY <2>5, RenderChannelInv
    <2>6. CASE UNCHANGED vars
      BY <2>6 DEF vars, HandlersInv, FromInputs, RenderedSecured
    <2> QED  BY <2>1, <2>2, <2>3, <2>4, <2>5, <2>6 DEF Next
  <1> QED  BY <1>1, <1>2, PTL DEF Spec

(* Whatever overrides users ask for, all pods that the operator builds are *)
(* restricted, SELinux options outside the standard are there only where   *)
(* asked for, every field that users set and the merge looks at is in      *)
(* force or reported, and the API token is not mounted unless asked for or *)
(* needed (security.go).                                                   *)
THEOREM FloorAlwaysHolds == Spec => []SecurityFloor
  <1>1. HandlersInv => SecurityFloor
    <2> SUFFICES ASSUME HandlersInv, NEW pod \in RenderedPods
                 PROVE  /\ \A c \in Containers(pod) : Restricted(c.sc, pod.sc)
                        /\ SELinuxAsAsked(pod.sc, Overrides.pod)
                        /\ SELinuxAsAsked(pod.main.sc, Overrides.container)
                        /\ \A c \in Range(pod.init) : SELinuxAsAsked(c.sc, None)
                        /\ HonouredOrReported(Overrides.pod,
                               [out |-> pod.sc, violations |-> out.violations.pod])
                        /\ HonouredOrReported(Overrides.container,
                               [out |-> pod.main.sc, violations |-> out.violations.container])
                        /\ pod.automount =>
                              \/ Overrides.automount = TRUE
                              \/ /\ kind = "Channel" /\ item.agent.mode = "task"
                                 /\ Overrides.automount = None
      BY DEF SecurityFloor
    <2>1. stage = "done" /\ kind \in {"Agent", "AgentRun", "Channel"}
      BY DEF RenderedPods
    <2>2. CASE kind \in {"Agent", "AgentRun"}
      <3>1. Overrides = item.agent.security /\ item.agent.security \in SecurityOverrides
        BY <2>2, InputAssumption DEF Overrides, HandlersInv, FromInputs, InputAssumption, IsAgent
      <3>2. /\ Secured(pod, item.agent.security)
            /\ out.violations = ComputeSecurityViolations(item.agent.security)
        BY <2>1, <2>2 DEF RenderedPods, HandlersInv, RenderedSecured
      <3>3. pod.automount => item.agent.security.automount = TRUE
        BY <3>2 DEF Secured
      <3> QED  BY <3>1, <3>2, <3>3, SecuredFloor
    <2>3. CASE kind = "Channel"
      <3> DEFINE own == item.channel.security
                 o == BridgeSecurity(item.channel, item.agent)
      <3>1. Overrides = own /\ own \in SecurityOverrides
        BY <2>3, InputAssumption DEF Overrides, HandlersInv, FromInputs, InputAssumption, IsChannel
      <3>2. Secured(pod, o) /\ out.violations = ComputeSecurityViolations(own)
        BY <2>1, <2>3 DEF RenderedPods, HandlersInv, RenderedSecured
      <3>3. /\ o.pod = own.pod /\ o.container = own.container
            /\ o.automount = TRUE => \/ own.automount = TRUE
                                     \/ item.agent.mode = "task" /\ own.automount = None
        BY <3>1, BridgeSecurityFacts
      <3>4. pod.automount => o.automount = TRUE
        BY <3>2 DEF Secured
      <3>5. o \in SecurityOverrides
        BY <3>1 DEF BridgeSecurity, SecurityOverrides, Opt
      <3>6. ComputeSecurityViolations(o) = ComputeSecurityViolations(own)
        BY <3>3 DEF ComputeSecurityViolations
      <3> HIDE DEF o, own
      <3>7. /\ \A c \in Containers(pod) : Restricted(c.sc, pod.sc)
            /\ SELinuxAsAsked(pod.sc, own.pod)
            /\ SELinuxAsAsked(pod.main.sc, own.container)
            /\ \A c \in Range(pod.init) : SELinuxAsAsked(c.sc, None)
            /\ HonouredOrReported(own.pod, [out |-> pod.sc, violations |-> out.violations.pod])
            /\ HonouredOrReported(own.container,
                                  [out |-> pod.main.sc, violations |-> out.violations.container])
        BY <3>2, <3>3, <3>5, <3>6, SecuredFloor
      <3> QED  BY <2>3, <3>1, <3>3, <3>4, <3>7
    <2> QED  BY <2>1, <2>2, <2>3
  <1> QED  BY HandlersInvariant, <1>1, PTL

-----------------------------------------------------------------------------

LEMMA ValueIsSeq == Value \subseteq Seq(Character)
  BY ProxyAssumption, SeqDef DEF Value, ProxyAssumption

(* matchPattern decides what Denotes says. *)
LEMMA PatternDenotes ==
    ASSUME NEW v \in Seq(Character), NEW p \in Seq(Character)
    PROVE  MatchPattern(v, p) <=> Denotes(p, v)
  <1>1. ASSUME p # << >>, p[Len(p)] = "*", NEW n \in 0..Len(v), p = Append(SubSeq(v, 1, n), "*")
        PROVE  n = Len(p) - 1 /\ SubSeq(v, 1, n) = SubSeq(p, 1, n)
    <2>1. /\ SubSeq(v, 1, n) \in Seq(Character) /\ Len(SubSeq(v, 1, n)) = n
          /\ \A i \in 1..n : SubSeq(v, 1, n)[i] = v[i]
      BY <1>1, SubSeqProperties, ElementOfSeq
    <2>2. Len(p) = n + 1 /\ \A i \in 1..n : p[i] = SubSeq(v, 1, n)[i]
      BY <1>1, <2>1, ProxyAssumption, AppendProperties DEF ProxyAssumption
    <2>3. /\ SubSeq(p, 1, n) \in Seq(Character) /\ Len(SubSeq(p, 1, n)) = n
          /\ \A i \in 1..n : SubSeq(p, 1, n)[i] = p[i]
      BY <1>1, <2>2, SubSeqProperties, ElementOfSeq
    <2>4. SubSeq(v, 1, n) = SubSeq(p, 1, n)
      BY <2>1, <2>2, <2>3, SeqEqual
    <2> QED  BY <2>2, <2>4
  <1>2. ASSUME p # << >>, p[Len(p)] = "*", NEW n \in Nat, n = Len(p) - 1, Len(v) >= n,
               SubSeq(v, 1, n) = SubSeq(p, 1, n)
        PROVE  n \in 0..Len(v) /\ p = Append(SubSeq(v, 1, n), "*")
    <2>1. n \in 0..Len(v) /\ n + 1 = Len(p) /\ Len(p) \in Nat /\ Len(v) \in Nat
      BY <1>2, LenProperties
    <2>2. /\ SubSeq(p, 1, n) \in Seq(Character) /\ Len(SubSeq(p, 1, n)) = n
          /\ \A i \in 1..n : SubSeq(p, 1, n)[i] = p[i]
      BY <1>2, <2>1, SubSeqProperties, ElementOfSeq
    <2> DEFINE q == Append(SubSeq(p, 1, n), "*")
    <2>3. /\ q \in Seq(Character) /\ Len(q) = n + 1 /\ q[n + 1] = "*"
          /\ \A i \in 1..n : q[i] = SubSeq(p, 1, n)[i]
      BY <2>2, ProxyAssumption, AppendProperties DEF ProxyAssumption
    <2> HIDE DEF q
    <2>4. \A i \in 1..Len(p) : q[i] = p[i]
      BY <1>2, <2>1, <2>2, <2>3
    <2>5. q = p
      BY <2>1, <2>3, <2>4, SeqEqual
    <2> QED  BY <1>2, <2>1, <2>5 DEF q
  <1>3. ASSUME NEW n \in 0..Len(v), p = Append(SubSeq(v, 1, n), "*")
        PROVE  p # << >> /\ p[Len(p)] = "*"
    <2>1. SubSeq(v, 1, n) \in Seq(Character)
      BY SubSeqProperties, ElementOfSeq
    <2> QED  BY <1>3, <2>1, ProxyAssumption, AppendProperties DEF ProxyAssumption
  <1>4. Len(v) \in Nat /\ Len(p) \in Nat /\ (p # << >> => Len(p) > 0)
    BY LenProperties, EmptySeq
  <1>5. CASE p # << >> /\ p[Len(p)] = "*"
    <2> DEFINE n == Len(p) - 1
    <2>1. n \in Nat
      BY <1>4, <1>5
    <2>2. MatchPattern(v, p) <=> Len(v) >= n /\ SubSeq(v, 1, n) = SubSeq(p, 1, n)
      BY <1>5 DEF MatchPattern
    <2>3. Denotes(p, v) <=> \E k \in 0..Len(v) : p = Append(SubSeq(v, 1, k), "*")
      BY <1>5 DEF Denotes
    <2>4. MatchPattern(v, p) => Denotes(p, v)
      BY <1>2, <1>5, <2>1, <2>2, <2>3
    <2>5. ASSUME NEW k \in 0..Len(v), p = Append(SubSeq(v, 1, k), "*")
          PROVE  MatchPattern(v, p)
      BY <1>1, <1>4, <1>5, <2>2, <2>5
    <2> QED  BY <2>3, <2>4, <2>5
  <1>6. CASE p = << >> \/ p[Len(p)] # "*"
    BY <1>3, <1>6 DEF MatchPattern, Denotes
  <1> QED  BY <1>5, <1>6

(* matchRule is Applies. *)
LEMMA RuleApplies ==
    ASSUME NEW rule \in Rule, NEW call \in Call
    PROVE  MatchRule(call, rule) <=> Applies(rule, call)
  <1> DEFINE c == rule.constraint
  <1>1. c \in Constraint \cup {Unset, Malformed} /\ Unset # Malformed
    BY ProxyAssumption DEF Rule, ProxyAssumption
  <1>2. \A a \in DOMAIN call.args : call.args[a] \in Value
    BY DEF Call
  <1>3. CASE c = Unset
    BY <1>1, <1>3 DEF MatchRule, Applies
  <1>4. CASE c = Malformed
    BY <1>1, <1>4 DEF MatchRule, Applies
  <1>5. CASE c \notin {Unset, Malformed}
    <2>1. c.pattern \in Value
      BY <1>1, <1>5 DEF Constraint
    <2>2. \A a \in DOMAIN call.args :
              MatchPattern(call.args[a], c.pattern) <=> Denotes(c.pattern, call.args[a])
      BY <1>2, <2>1, ValueIsSeq, PatternDenotes
    <2> QED  BY <1>5, <2>2 DEF MatchRule, Applies
  <1> QED  BY <1>3, <1>4, <1>5

(* Check lets through what the policy does not forbid. *)
LEMMA CheckForbids ==
    ASSUME NEW policy, NEW call \in Call, \A n \in DOMAIN policy.rules : policy.rules[n] \in Rule
    PROVE  Check(policy, call) <=> ~Forbidden(policy, call)
  <1>1. \A n \in DOMAIN policy.rules :
            MatchRule(call, policy.rules[n]) <=> Applies(policy.rules[n], call)
    BY RuleApplies
  <1>2. (\E n \in DOMAIN policy.rules : MatchRule(call, policy.rules[n]))
            <=> {n \in DOMAIN policy.rules : Applies(policy.rules[n], call)} # {}
    BY <1>1
  <1>3. CASE policy.mode = "deny"
    BY <1>2, <1>3 DEF Check, Forbidden
  <1>4. CASE policy.mode = "allow"
    BY <1>2, <1>4 DEF Check, Forbidden
  <1>5. CASE policy.mode \notin {"deny", "allow"}
    BY <1>5 DEF Check, Forbidden
  <1> QED  BY <1>3, <1>4, <1>5

(* A request that was served was served by Handler. *)
ServedByHandler ==
    kind = "Request" =>
        /\ item \in Requests
        /\ stage = "done" => out = Handler(RunProxy(item.gateway), item.request)

LEMMA ServedInvariant == Spec => []ServedByHandler
  <1>1. Init => ServedByHandler
    BY DEF Init, ServedByHandler
  <1>2. ServedByHandler /\ [Next]_vars => ServedByHandler'
    <2> SUFFICES ASSUME ServedByHandler, [Next]_vars PROVE ServedByHandler'
      OBVIOUS
    <2>1. CASE Serve
      BY <2>1 DEF Serve, Finish, ServedByHandler
    <2>2. CASE Next /\ ~Serve
      <3>1. kind # "Request" /\ kind' = kind
        BY <2>2
        DEF Next, AdmitProvider, AdmitIntegration, AdmitAgent, AdmitChannel, Admit,
            ReconcileProvider, ReconcileIntegration, RenderAgent, RenderRun, RenderChannel,
            Finish, Fail
      <3> QED  BY <3>1 DEF ServedByHandler
    <2>3. CASE UNCHANGED vars
      BY <2>3 DEF vars, ServedByHandler
    <2> QED  BY <2>1, <2>2, <2>3
  <1> QED  BY <1>1, <1>2, PTL DEF Spec

(* For all rules, patterns, arguments and policies: the gateway holds back *)
(* a tools/call exactly if the policy of its server forbids it or, under a *)
(* policy, its parameters cannot be read (proxy.go, permissions.go).       *)
THEOREM ToolCallsAlwaysPoliced == Spec => []ToolCallsPoliced
  <1>1. ServedByHandler => ToolCallsPoliced
    <2> DEFINE g == item.gateway
               r == item.request
               policy == RunProxy(g)
               isCall == r.route = "POST /mcp" /\ r.body.shape = "request" /\ r.body.method = "tools/call"
    <2> SUFFICES ASSUME ServedByHandler, kind = "Request", stage = "done"
                 PROVE  ToolCallsPoliced
      BY DEF ToolCallsPoliced
    <2>1. IsRequest(item) /\ out = Handler(policy, r)
      BY InputAssumption DEF ServedByHandler, InputAssumption
    <2>2. policy = IF g.config = "readable" /\ g.server \in DOMAIN g.policies
                     THEN g.policies[g.server] ELSE Unset
      BY <2>1, ProxyAssumption DEF IsRequest, RunProxy, ProxyAssumption
    <2>3. out = "blocked" <=> isCall /\ ~CheckToolCall(policy, r.body.params)
      BY <2>1 DEF IsRequest, Handler, HandlePost
    <2>4. ASSUME policy # Unset, isCall, r.body.params # Malformed
          PROVE  Check(policy, r.body.params) <=> ~Forbidden(policy, r.body.params)
      <3>1. \A n \in DOMAIN policy.rules : policy.rules[n] \in Rule
        BY <2>1, <2>2, <2>4 DEF IsRequest
      <3>2. r.body.params \in Call
        BY <2>1, <2>4 DEF IsRequest
      <3> QED  BY <3>1, <3>2, CheckForbids
    <2>5. out = "blocked" <=>
            /\ isCall /\ policy # Unset
            /\ r.body.params = Malformed \/ Forbidden(policy, r.body.params)
      BY <2>3, <2>4 DEF CheckToolCall
    <2> HIDE DEF policy
    <2> QED  BY <2>2, <2>5 DEF ToolCallsPoliced
  <1> QED  BY ServedInvariant, <1>1, PTL

-----------------------------------------------------------------------------

(* The test of the first characters, HasPrefix(project, group + "/"), is a *)
(* test of namespaces: a project passes it exactly if what it has before   *)
(* one of its slashes is the group, and never for a name that merely       *)
(* begins like the group's (ResolveGitWorkspace).                          *)
THEOREM PrefixIsNamespace ==
    ASSUME NEW C, "/" \in C, NEW group \in Seq(C), NEW project \in Seq(C)
    PROVE  IsPrefix(group \o <<"/">>, project) <=> group \in Namespaces(project)
  <1> DEFINE n == Len(group)
             s == group \o <<"/">>
  <1>1. n \in Nat /\ Len(project) \in Nat /\ DOMAIN project = 1 .. Len(project)
    BY LenProperties
  <1>2. /\ s \in Seq(C) /\ Len(s) = n + 1
        /\ \A i \in 1 .. n : s[i] = group[i]
        /\ s[n + 1] = "/"
    <2>1. <<"/">> \in Seq(C) /\ Len(<<"/">>) = 1
      OBVIOUS
    <2> QED  BY <1>1, <2>1, ConcatProperties
  <1> HIDE DEF n, s
  <1>3. IsPrefix(s, project) <=> n + 1 <= Len(project) /\ \A i \in 1 .. n + 1 : s[i] = project[i]
    <2>1. Len(s) <= Len(project) =>
            /\ SubSeq(s, 1, Len(s)) \in Seq(C) /\ Len(SubSeq(s, 1, Len(s))) = n + 1
            /\ SubSeq(project, 1, Len(s)) \in Seq(C) /\ Len(SubSeq(project, 1, Len(s))) = n + 1
            /\ \A i \in 1 .. n + 1 : SubSeq(s, 1, Len(s))[i] = s[i] /\ SubSeq(project, 1, Len(s))[i] = project[i]
      BY <1>1, <1>2, SubSeqProperties, ElementOfSeq
    <2>2. Len(s) <= Len(project) =>
            (SubSeq(s, 1, Len(s)) = SubSeq(project, 1, Len(s)) <=> \A i \in 1 .. n + 1 : s[i] = project[i])
      BY <1>1, <2>1, SeqEqual
    <2> QED  BY <1>2, <2>2 DEF IsPrefix
  <1>4. group \in Namespaces(project) <=> n + 1 <= Len(project) /\ project[n + 1] = "/" /\ group = SubSeq(project, 1, n)
    <2>1. \A i \in DOMAIN project : Len(SubSeq(project, 1, i - 1)) = i - 1
      BY <1>1, SubSeqProperties
    <2>2. ASSUME group \in Namespaces(project)
          PROVE  n + 1 <= Len(project) /\ project[n + 1] = "/" /\ group = SubSeq(project, 1, n)
      <3>1. PICK i \in DOMAIN project : project[i] = "/" /\ group = SubSeq(project, 1, i - 1)
        BY <2>2 DEF Namespaces
      <3>2. n = i - 1
        BY <2>1, <3>1 DEF n
      <3> QED  BY <1>1, <3>1, <3>2
    <2>3. ASSUME n + 1 <= Len(project), project[n + 1] = "/", group = SubSeq(project, 1, n)
          PROVE  group \in Namespaces(project)
      <3>1. n + 1 \in DOMAIN project /\ (n + 1) - 1 = n
        BY <1>1, <2>3
      <3> QED  BY <2>3, <3>1 DEF Namespaces
    <2> QED  BY <2>2, <2>3
  <1>5. n + 1 <= Len(project) => (group = SubSeq(project, 1, n) <=> \A i \in 1 .. n : group[i] = project[i])
    <2>1. n + 1 <= Len(project) =>
            /\ SubSeq(project, 1, n) \in Seq(C) /\ Len(SubSeq(project, 1, n)) = n
            /\ \A i \in 1 .. n : SubSeq(project, 1, n)[i] = project[i]
      BY <1>1, SubSeqProperties, ElementOfSeq
    <2>2. group \in Seq(C) /\ Len(group) = n
      BY DEF n
    <2> QED  BY <1>1, <2>1, <2>2, SeqEqual
  <1>6. IsPrefix(s, project) <=> group \in Namespaces(project)
    <2>1. (\A i \in 1 .. n + 1 : s[i] = project[i]) <=> (\A i \in 1 .. n : s[i] = project[i]) /\ s[n + 1] = project[n + 1]
      BY <1>1
    <2> QED  BY <1>2, <1>3, <1>4, <1>5, <2>1
  <1> QED  BY <1>6 DEF s

LEMMA GroupCovers ==
    ASSUME NEW res, IsIntegration(res), res.kind = "gitlab-group", res.block["gitlab-group"] # None,
           NEW project \in Path
    PROVE  LET b == res.block["gitlab-group"]
           IN  InGroup(project, b) <=>
                   \/ Covers(res, <<b.baseURL, project>>)
                   \/ InGroup(project, b) /\ b.projects = {} /\ ~IsNormal(project)
  <1> DEFINE b == res.block["gitlab-group"]
             C == Letter \cup {"/", ".", "%"}
  <1>1. b.group \in Seq(C) /\ project \in Seq(C) /\ "/" \in C
    BY DEF IsIntegration, IntegrationKind, Block, Path
  <1> HIDE DEF C
  <1>2. IsPrefix(b.group \o <<"/">>, project) <=> b.group \in Namespaces(project)
    BY <1>1, PrefixIsNamespace
  <1>3. Covers(res, <<b.baseURL, project>>) <=>
            /\ b.group \in Namespaces(project)
            /\ IF b.projects = {} THEN IsNormal(project) ELSE project \in b.projects
    BY DEF Covers
  <1> QED  BY <1>2, <1>3 DEF InGroup

(* What is resolved is covered by the Integration, but for the projects of *)
(* a group without an allow-list that are no normal paths.                 *)
LEMMA WorkspaceInScope ==
    ASSUME NEW res, IsIntegration(res), NEW git \in RunGit,
           NEW g, g = ResolveGitWorkspace(git, res), g # None
    PROVE  /\ \/ Covers(res, g.cloneURL)
              \/ res.kind = "gitlab-group" /\ res.block[res.kind].projects = {} /\ ~IsNormal(git.project)
           /\ g.credentials = res.credentials
  <1> DEFINE b == res.block[res.kind]
  <1>1. b # None /\ res.kind \in {"github-repo", "gitlab-project", "gitlab-group", "git-repo"}
    BY DEF ResolveGitWorkspace
  <1>2. CASE res.kind = "github-repo"
    BY <1>1, <1>2 DEF ResolveGitWorkspace, Workspace, Covers
  <1>3. CASE res.kind = "gitlab-project"
    BY <1>1, <1>3 DEF ResolveGitWorkspace, Workspace, Covers
  <1>4. CASE res.kind = "gitlab-group"
    <2>1. /\ g = Workspace("gitlab", <<b.baseURL, git.project>>, git, None, res)
          /\ git.project # None /\ InGroup(git.project, b)
      BY <1>1, <1>4 DEF ResolveGitWorkspace
    <2>2. g.cloneURL = <<b.baseURL, git.project>> /\ g.credentials = res.credentials
      BY <2>1 DEF Workspace
    <2>3. git.project \in Path
      BY <2>1 DEF RunGit, Opt
    <2>4. \/ Covers(res, <<b.baseURL, git.project>>)
          \/ b.projects = {} /\ ~IsNormal(git.project)
      BY <1>1, <1>4, <2>1, <2>3, GroupCovers
    <2> QED  BY <1>4, <2>2, <2>4
  <1>5. CASE res.kind = "git-repo"
    BY <1>1, <1>5 DEF ResolveGitWorkspace, Workspace, Covers
  <1> QED  BY <1>1, <1>2, <1>3, <1>4, <1>5

(* A Provider that the webhook admits passes the reconciler's check of the *)
(* same spec exactly if it has one kind of credentials (provider_webhook.go *)
(* and provider_controller.go check the same rules in their own ways).     *)
THEOREM ProviderChecksAgree ==
    ASSUME NEW p, IsProvider(p), ValidateProvider(p)
    PROVE  ValidateConfig(p) <=> (p.apiKey = None) # (p.oauth2 = None)
  <1>1. \A f \in p.config : p.type \in AllowedTypes[f]
    BY DEF ValidateProvider, ValidateProviderConfig
  <1>2. /\ "vertex" \in p.config => p.type = "anthropic" \/ p.type = "google"
        /\ "bedrock" \in p.config => p.type = "anthropic" \/ p.type = "bedrock"
        /\ "azureAPIVersion" \in p.config => p.type = "azure"
        /\ "organization" \in p.config => p.type = "openai"
        /\ "project" \in p.config => p.type = "openai"
        /\ "useResponsesAPI" \in p.config => p.type \in {"openai", "azure", "openaicompat"}
    BY <1>1 DEF AllowedTypes
  <1>3. p.type = "openaicompat" => p.baseURL
    BY DEF ValidateProvider
  <1> QED  BY <1>2, <1>3 DEF ValidateConfig

(* Each setting of a call is the agent's if it has one and else the        *)
(* Provider's, for all defaults and overrides (mergeCallDefaults).         *)
THEOREM OverridesWin ==
    ASSUME NEW p, p.defaults \in Opt(CallDefaults), NEW overrides \in Opt(CallDefaults),
           NEW family \in {"anthropic", "openai", "google"},
           NEW merged, merged = MergeCallDefaults(p.defaults, overrides), merged # None,
           merged[family] # None, NEW f \in DOMAIN merged[family]
    PROVE  merged[family][f] = CallSetting(p, overrides, family, f)
  <1> DEFINE base == p.defaults
             Of(d) == IF d = None THEN None ELSE IF d[family] = None THEN None ELSE d[family][f]
  <1>1. CallSetting(p, overrides, family, f) = IF Of(overrides) # None THEN Of(overrides) ELSE Of(base)
    BY DEF CallSetting
  <1>2. CASE base = None
    <2>1. merged = overrides
      BY <1>2 DEF MergeCallDefaults
    <2> QED  BY <1>1, <1>2, <2>1
  <1>3. CASE base # None /\ overrides = None
    <2>1. merged = base
      BY <1>3 DEF MergeCallDefaults
    <2> QED  BY <1>1, <1>3, <2>1
  <1>4. CASE base # None /\ overrides # None
    <2>1. family \in DOMAIN base
      BY <1>4 DEF Opt, CallDefaults
    <2>2. merged[family] = MergeFamily(base[family], overrides[family])
      BY <1>4, <2>1 DEF MergeCallDefaults
    <2>3. CASE overrides[family] = None
      <3>1. merged[family] = base[family]
        BY <2>2, <2>3 DEF MergeFamily
      <3> QED  BY <1>1, <1>4, <2>3, <3>1
    <2>4. CASE overrides[family] # None /\ base[family] = None
      <3>1. merged[family] = overrides[family]
        BY <2>2, <2>4 DEF MergeFamily
      <3> QED  BY <1>1, <1>4, <2>4, <3>1
    <2>5. CASE overrides[family] # None /\ base[family] # None
      <3>1. merged[family][f] = IF overrides[family][f] # None THEN overrides[family][f] ELSE base[family][f]
        BY <2>2, <2>5 DEF MergeFamily
      <3> QED  BY <1>1, <1>4, <2>5, <3>1
    <2> QED  BY <2>3, <2>4, <2>5
  <1> QED  BY <1>2, <1>3, <1>4

-----------------------------------------------------------------------------
(* The workspace of a run, if it is to have one. *)
RunWorkspace == IF item.git = None THEN None ELSE ResolveGitWorkspace(item.git, item.integration)

Admitted == stage \in {"admitted", "done", "failed"}

(* What is known of each kind of object at each stage of its way. *)
ProviderHandled ==
    kind = "Provider" =>
        /\ item \in Providers
        /\ Admitted => ValidateProvider(item)
        /\ stage = "done" => IsReady(item)
        /\ stage = "failed" => ~IsReady(item)

IntegrationHandled ==
    kind = "Integration" =>
        /\ item \in Integrations
        /\ Admitted => ValidateIntegration(item)
        /\ stage = "failed" => ~ValidateResource(item)

AgentHandled ==
    kind = "Agent" =>
        /\ item \in Agents
        /\ Admitted => ValidateAgent(item.agent)
        /\ stage = "admitted" => out = AuditWarnings(item.agent)
        /\ stage = "done" =>
              /\ \A i \in DOMAIN item.integrations : ValidateResource(item.integrations[i])
              /\ out.warnings = AuditWarnings(item.agent)
              /\ out.config = BuildAgentConfigMap(item.agent, item.integrations, item.providers)
              /\ out.deployment = IF item.agent.mode = "daemon"
                                    THEN BuildAgentDeployment(item.agent, item.providers, item.integrations)
                                    ELSE None
              /\ out.rbac = IF item.agent.serviceAccount = None THEN BuildAgentRBAC(item.agent) ELSE None
              /\ out.deployment # None =>
                    /\ item.agent.storage # None => out.pvc = BuildAgentPVC(item.agent)
                    /\ out.service = BuildAgentService(item.agent)
                    /\ out.netpol = IF item.agent.netpol THEN BuildAgentNetworkPolicy(item.agent) ELSE None

RunHandled ==
    kind = "AgentRun" =>
        /\ item \in Runs
        /\ stage = "done" =>
              /\ item.git # None => RunWorkspace # None
              /\ out.job = BuildAgentRunJob(item.agent, item.run, item.providers, RunWorkspace)
              /\ out.config =
                    LET config == BuildAgentConfigMap(item.agent, << >>, item.providers)
                    IN  IF RunWorkspace = None THEN config
                          ELSE CreateRunConfigMap(item.agent, item.run, config, GitToolEntries(RunWorkspace))
        /\ stage = "failed" => item.git # None /\ RunWorkspace = None

ChannelHandled ==
    kind = "Channel" =>
        /\ item \in Channels
        /\ Admitted => ValidateChannel(item.channel)
        /\ stage = "failed" =>
              \/ item.agent = None
              \/ /\ IsPollType(item.channel.type)
                 /\ IntegrationRef(item.channel) \notin DOMAIN item.integrations
        /\ stage = "done" =>
              /\ IsPollType(item.channel.type) => IntegrationRef(item.channel) \in DOMAIN item.integrations
              /\ out.deployment = BuildChannelDeployment(item.channel, item.agent,
                                     IF IntegrationRef(item.channel) = None THEN None
                                       ELSE item.integrations[IntegrationRef(item.channel)])
              /\ out.service = BuildChannelService(item.channel)
              /\ out.ingress = BuildChannelIngress(item.channel)
              /\ out.rbac = BuildChannelRBAC(item.channel)

Handled == ProviderHandled /\ IntegrationHandled /\ AgentHandled /\ RunHandled /\ ChannelHandled

LEMMA ProviderStep ==
    ASSUME Handled, AdmitProvider \/ ReconcileProvider
    PROVE  Handled'
  <1>1. kind = "Provider" /\ UNCHANGED <<kind, item>>
    BY DEF AdmitProvider, Admit, ReconcileProvider, Finish, Fail
  <1>2. ProviderHandled'
    BY DEF AdmitProvider, Admit, ReconcileProvider, Finish, Fail, Handled, ProviderHandled, Admitted
  <1> QED  BY <1>1, <1>2
    DEF Handled, IntegrationHandled, AgentHandled, RunHandled, ChannelHandled

LEMMA IntegrationStep ==
    ASSUME Handled, AdmitIntegration \/ ReconcileIntegration
    PROVE  Handled'
  <1>1. kind = "Integration" /\ UNCHANGED <<kind, item>>
    BY DEF AdmitIntegration, Admit, ReconcileIntegration, Finish, Fail
  <1>2. IntegrationHandled'
    BY DEF AdmitIntegration, Admit, ReconcileIntegration, Finish, Fail, Handled, IntegrationHandled, Admitted
  <1> QED  BY <1>1, <1>2
    DEF Handled, ProviderHandled, AgentHandled, RunHandled, ChannelHandled

LEMMA AgentStep ==
    ASSUME Handled, AdmitAgent \/ RenderAgent
    PROVE  Handled'
  <1>1. kind = "Agent" /\ UNCHANGED <<kind, item>>
    BY DEF AdmitAgent, Admit, RenderAgent, Finish
  <1>2. AgentHandled'
    <2>1. CASE AdmitAgent
      BY <2>1 DEF AdmitAgent, Admit, Handled, AgentHandled, Admitted
    <2>2. CASE RenderAgent
      <3>1. /\ stage = "admitted" /\ stage' = "done"
            /\ \A i \in DOMAIN item.integrations : ValidateResource(item.integrations[i])
        BY <2>2 DEF RenderAgent, Finish
      <3>2. /\ out'.warnings = out
            /\ out'.config = BuildAgentConfigMap(item.agent, item.integrations, item.providers)
            /\ out'.deployment = IF item.agent.mode = "daemon"
                                   THEN BuildAgentDeployment(item.agent, item.providers, item.integrations)
                                   ELSE None
        BY <2>2 DEF RenderAgent, Finish
      <3>3. /\ out'.rbac = IF item.agent.serviceAccount = None THEN BuildAgentRBAC(item.agent) ELSE None
            /\ item.agent.mode = "daemon" =>
                  /\ item.agent.storage # None => out'.pvc = BuildAgentPVC(item.agent)
                  /\ out'.service = BuildAgentService(item.agent)
                  /\ out'.netpol = IF item.agent.netpol THEN BuildAgentNetworkPolicy(item.agent) ELSE None
        BY <2>2 DEF RenderAgent, Finish
      <3> QED  BY <1>1, <3>1, <3>2, <3>3 DEF Handled, AgentHandled, Admitted
    <2> QED  BY <2>1, <2>2
  <1> QED  BY <1>1, <1>2
    DEF Handled, ProviderHandled, IntegrationHandled, RunHandled, ChannelHandled

LEMMA RunStep ==
    ASSUME Handled, RenderRun
    PROVE  Handled'
  <1>1. kind = "AgentRun" /\ UNCHANGED <<kind, item>>
    BY DEF RenderRun, Finish, Fail
  <1>2. RunHandled'
    <2>1. \/ stage' = "failed" /\ item.git # None /\ RunWorkspace = None
          \/ /\ stage' = "done" /\ (item.git = None \/ RunWorkspace # None)
             /\ out'.job = BuildAgentRunJob(item.agent, item.run, item.providers, RunWorkspace)
             /\ out'.config =
                   LET config == BuildAgentConfigMap(item.agent, << >>, item.providers)
                   IN  IF RunWorkspace = None THEN config
                         ELSE CreateRunConfigMap(item.agent, item.run, config, GitToolEntries(RunWorkspace))
      BY DEF RenderRun, Finish, Fail, RunWorkspace
    <2>2. RunWorkspace' = RunWorkspace
      BY <1>1 DEF RunWorkspace
    <2> QED  BY <1>1, <2>1, <2>2 DEF Handled, RunHandled
  <1> QED  BY <1>1, <1>2
    DEF Handled, ProviderHandled, IntegrationHandled, AgentHandled, ChannelHandled

LEMMA ChannelStep ==
    ASSUME Handled, AdmitChannel \/ RenderChannel
    PROVE  Handled'
  <1>1. kind = "Channel" /\ UNCHANGED <<kind, item>>
    BY DEF AdmitChannel, Admit, RenderChannel, Finish, Fail
  <1>2. ChannelHandled'
    <2>1. CASE AdmitChannel
      BY <2>1 DEF AdmitChannel, Admit, Handled, ChannelHandled, Admitted
    <2>2. CASE RenderChannel
      <3> DEFINE ch == item.channel
                 ref == IntegrationRef(ch)
                 res == IF ref = None THEN None ELSE item.integrations[ref]
      <3>1. \/ /\ stage' = "failed"
               /\ item.agent = None \/ (IsPollType(ch.type) /\ ref \notin DOMAIN item.integrations)
            \/ /\ stage' = "done" /\ (~IsPollType(ch.type) \/ ref \in DOMAIN item.integrations)
               /\ out'.deployment = BuildChannelDeployment(ch, item.agent, res)
               /\ out'.service = BuildChannelService(ch)
               /\ out'.ingress = BuildChannelIngress(ch)
               /\ out'.rbac = BuildChannelRBAC(ch)
        BY <2>2 DEF RenderChannel, Finish, Fail
      <3>2. stage = "admitted"
        BY <2>2 DEF RenderChannel
      <3> QED  BY <1>1, <3>1, <3>2 DEF Handled, ChannelHandled, Admitted
    <2> QED  BY <2>1, <2>2
  <1> QED  BY <1>1, <1>2
    DEF Handled, ProviderHandled, IntegrationHandled, AgentHandled, RunHandled

(* What is known of an object at each stage follows from the way it took. *)
LEMMA HandledInvariant == Spec => []Handled
  <1>1. Init => Handled
    BY DEF Init, Handled, ProviderHandled, IntegrationHandled, AgentHandled, RunHandled,
           ChannelHandled, Admitted
  <1>2. ASSUME Handled, [Next]_vars PROVE Handled'
    <2>1. CASE Serve
      <3>1. kind = "Request" /\ kind' = kind
        BY <2>1 DEF Serve, Finish
      <3> QED  BY <3>1
        DEF Handled, ProviderHandled, IntegrationHandled, AgentHandled, RunHandled, ChannelHandled
    <2>2. CASE UNCHANGED vars
      <3>1. UNCHANGED <<kind, item, stage, out>>
        BY <2>2 DEF vars
      <3> QED  BY <1>2, <3>1
        DEF Handled, ProviderHandled, IntegrationHandled, AgentHandled, RunHandled, ChannelHandled,
            Admitted, RunWorkspace
    <2> QED  BY <1>2, <2>1, <2>2, ProviderStep, IntegrationStep, AgentStep, RunStep, ChannelStep DEF Next
  <1> QED  BY <1>1, <1>2, PTL DEF Spec

-----------------------------------------------------------------------------
(* Admission and what lies behind it.                                      *)

LEMMA MaxOfOne ==
    ASSUME NEW n \in Nat
    PROVE  Max({n}) = n
  BY DEF Max

LEMMA ListDomain ==
    ASSUME NEW s, IsList(s)
    PROVE  DOMAIN s = 1..Len(s) /\ Len(s) \in Nat /\ DOMAIN s \subseteq Nat
  <1>1. s \in Seq(Range(s))
    BY DEF IsList
  <1>2. DOMAIN s = 1..Len(s) /\ Len(s) \in Nat
    BY <1>1, LenProperties
  <1> QED  BY <1>2

(* A list whose names are distinct has one entry of a name. *)
LEMMA LastOfOne ==
    ASSUME NEW s, IsList(s), NEW i \in DOMAIN s,
           \A j, k \in DOMAIN s : s[j].name = s[k].name => j = k
    PROVE  LastWith(s, s[i].name) = s[i]
  <1>1. {j \in DOMAIN s : s[j].name = s[i].name} = {i}
    OBVIOUS
  <1>2. i \in Nat
    BY ListDomain
  <1> QED  BY <1>1, <1>2, MaxOfOne DEF LastWith

LEMMA ProviderAgrees ==
    ASSUME Handled, kind = "Provider", stage \in {"done", "failed"}
    PROVE  stage = "done" <=> /\ (item.apiKey # None) # (item.oauth2 # None)
                              /\ item.apiKey # None => item.keyExists
  <1>1. IsProvider(item) /\ ValidateProvider(item)
    BY InputAssumption DEF InputAssumption, Handled, ProviderHandled, Admitted
  <1>2. ValidateConfig(item) <=> (item.apiKey = None) # (item.oauth2 = None)
    BY <1>1, ProviderChecksAgree
  <1>3. stage = "done" <=> IsReady(item)
    BY DEF Handled, ProviderHandled
  <1>4. IsReady(item) <=> ValidateConfig(item) /\ (item.apiKey # None => item.keyExists)
    BY DEF IsReady, ValidateSecret
  <1> QED  BY <1>2, <1>3, <1>4

LEMMA IntegrationAgrees ==
    ASSUME Handled, kind = "Integration"
    PROVE  stage # "failed"
  <1>1. IsIntegration(item)
    BY InputAssumption DEF InputAssumption, Handled, IntegrationHandled
  <1>2. ValidateIntegration(item) => ValidateResource(item)
    BY <1>1 DEF IsIntegration, ValidateIntegration, ValidateResource
  <1> QED  BY <1>2 DEF Handled, IntegrationHandled, Admitted

(* The Integration of a poll channel without foreign blocks is its own. *)
LEMMA OwnIntegrationRef ==
    ASSUME NEW ch, IsPollType(ch.type), ValidateChannel(ch), OnlyOwnBlock(ch)
    PROVE  /\ IntegrationRef(ch) = ch.block[ch.type].integrationRef
           /\ IntegrationRef(ch) # None
  <1>1. ch.type = "gitlab-label" \/ ch.type = "gitlab-comment"
    BY DEF IsPollType
  <1>2. ch.block[ch.type] # None /\ ch.block[ch.type].integrationRef # None
    BY <1>1 DEF ValidateChannel, IsPollType
  <1>3. ch.type = "gitlab-comment" => ch.block["gitlab-label"] = None
    BY DEF OnlyOwnBlock, ChannelType
  <1> QED  BY <1>1, <1>2, <1>3 DEF IntegrationRef, IsPollType

LEMMA ChannelAgrees ==
    ASSUME Handled, kind = "Channel", stage = "failed", OnlyOwnBlock(item.channel)
    PROVE  \/ item.agent = None
           \/ item.channel.block[item.channel.type].integrationRef \notin DOMAIN item.integrations
  <1> SUFFICES ASSUME item.agent # None
               PROVE  item.channel.block[item.channel.type].integrationRef \notin DOMAIN item.integrations
    OBVIOUS
  <1>1. /\ IsPollType(item.channel.type) /\ ValidateChannel(item.channel)
        /\ IntegrationRef(item.channel) \notin DOMAIN item.integrations
    BY DEF Handled, ChannelHandled, Admitted
  <1> QED  BY <1>1, OwnIntegrationRef

LEMMA FallbackAgrees ==
    ASSUME NEW a, NEW providers, NEW integrations, ValidateProviders(a),
           Resolves(providers, a.providerRefs),
           NEW config, config = BuildAgentConfigMap(a, integrations, providers)
    PROVE  config.fallback \ {None} \subseteq {e.name : e \in Range(config.providers)}
  <1>1. config.fallback = a.fallback
    BY DEF BuildAgentConfigMap
  <1>2. /\ DOMAIN config.providers = DOMAIN providers
        /\ \A i \in DOMAIN providers : config.providers[i].name = providers[i].name
    BY DEF BuildAgentConfigMap, BuildProviderEntry
  <1>3. ASSUME NEW n \in config.fallback \ {None}
        PROVE  \E e \in Range(config.providers) : n = e.name
    <2>1. PICK i \in DOMAIN a.providerRefs : n = a.providerRefs[i].name
      BY <1>1, <1>3 DEF ValidateProviders
    <2>2. i \in DOMAIN config.providers /\ config.providers[i].name = n
      BY <1>2, <2>1 DEF Resolves
    <2>3. config.providers[i] \in Range(config.providers)
      BY <2>2 DEF Range
    <2> QED  BY <2>2, <2>3
  <1> QED  BY <1>3

LEMMA AuditAgrees ==
    ASSUME NEW a, NEW providers, NEW integrations,
           NEW config, config = BuildAgentConfigMap(a, integrations, providers), config.hooks # None
    PROVE  config.hooks.auditTools \ AuditWarnings(a)
              \subseteq config.builtinTools \cup Range(config.tools) \cup {"run_agent", "get_agent_run"}
  <1>1. /\ config.hooks = a.hooks /\ config.builtinTools = a.builtinTools
        /\ config.tools = [i \in DOMAIN a.tools |-> a.tools[i].name]
    BY DEF BuildAgentConfigMap
  <1>2. Range(config.tools) = {a.tools[i].name : i \in DOMAIN a.tools}
    BY <1>1 DEF Range
  <1> QED  BY <1>1, <1>2 DEF AuditWarnings

LEMMA BindingAgrees ==
    ASSUME NEW a, IsAgent(a), NEW providers, NEW integrations, ValidateIntegrations(a),
           Resolves(integrations, a.integrations),
           NEW config, config = BuildAgentConfigMap(a, integrations, providers),
           NEW i \in DOMAIN integrations
    PROVE  \E b \in Range(a.integrations) :
              /\ b.name = integrations[i].name
              /\ b.readOnly = config.resources[i].readOnly
              /\ \A c \in Range(a.integrations) : c.name = b.name => c = b
  <1> DEFINE s == a.integrations
  <1>1. IsList(s) /\ i \in DOMAIN s /\ s[i].name = integrations[i].name
    BY DEF IsAgent, Resolves
  <1>2. \A j, k \in DOMAIN s : s[j].name = s[k].name => j = k
    BY DEF ValidateIntegrations, IsInjective
  <1>3. config.resources[i].readOnly = LastWith(s, integrations[i].name).readOnly
    BY DEF BuildAgentConfigMap
  <1>4. LastWith(s, s[i].name) = s[i]
    <2> HIDE DEF s
    <2> QED  BY <1>1, <1>2, LastOfOne
  <1>5. s[i] \in Range(s) /\ \A c \in Range(s) : c.name = s[i].name => c = s[i]
    BY <1>1, <1>2 DEF Range
  <1> HIDE DEF s
  <1> QED  BY <1>1, <1>3, <1>4, <1>5 DEF s

(* For all objects: the webhooks and the reconcilers' own checks agree,    *)
(* and what the webhook of Agents lets through is in the config.json that  *)
(* BuildAgentConfigMap makes of the resolved objects: fallback providers,  *)
(* audited tools and, of each Integration, the one binding.                *)
THEOREM AdmissionAlwaysAgrees == Spec => []AdmissionAgrees
  <1>1. ASSUME Handled PROVE AdmissionAgrees
    <2>1. ASSUME kind = "Agent", stage = "done"
          PROVE  /\ out.config.fallback \ {None} \subseteq {e.name : e \in Range(out.config.providers)}
                 /\ out.config.hooks # None =>
                       out.config.hooks.auditTools \ out.warnings
                         \subseteq out.config.builtinTools \cup Range(out.config.tools)
                                      \cup {"run_agent", "get_agent_run"}
                 /\ \A i \in DOMAIN item.integrations :
                       \E b \in Range(item.agent.integrations) :
                          /\ b.name = item.integrations[i].name
                          /\ b.readOnly = out.config.resources[i].readOnly
                          /\ \A c \in Range(item.agent.integrations) : c.name = b.name => c = b
      <3>1. /\ IsAgent(item.agent)
            /\ Resolves(item.providers, item.agent.providerRefs)
            /\ Resolves(item.integrations, item.agent.integrations)
        BY <1>1, <2>1, InputAssumption DEF InputAssumption, Handled, AgentHandled
      <3>2. /\ ValidateProviders(item.agent) /\ ValidateIntegrations(item.agent)
            /\ out.warnings = AuditWarnings(item.agent)
            /\ out.config = BuildAgentConfigMap(item.agent, item.integrations, item.providers)
        BY <1>1, <2>1 DEF Handled, AgentHandled, Admitted, ValidateAgent
      <3>3. out.config.fallback \ {None} \subseteq {e.name : e \in Range(out.config.providers)}
        BY <3>1, <3>2, FallbackAgrees
      <3>4. out.config.hooks # None =>
               out.config.hooks.auditTools \ out.warnings
                 \subseteq out.config.builtinTools \cup Range(out.config.tools)
                              \cup {"run_agent", "get_agent_run"}
        BY <3>2, AuditAgrees
      <3>5. \A i \in DOMAIN item.integrations :
               \E b \in Range(item.agent.integrations) :
                  /\ b.name = item.integrations[i].name
                  /\ b.readOnly = out.config.resources[i].readOnly
                  /\ \A c \in Range(item.agent.integrations) : c.name = b.name => c = b
        BY <3>1, <3>2, BindingAgrees
      <3> QED  BY <3>3, <3>4, <3>5
    <2>2. kind = "Provider" /\ stage \in {"done", "failed"} =>
             (stage = "done" <=> /\ (item.apiKey # None) # (item.oauth2 # None)
                                 /\ item.apiKey # None => item.keyExists)
      BY <1>1, ProviderAgrees
    <2>3. kind = "Integration" => stage # "failed"
      BY <1>1, IntegrationAgrees
    <2>4. kind = "Channel" /\ stage = "failed" /\ OnlyOwnBlock(item.channel) =>
             \/ item.agent = None
             \/ item.channel.block[item.channel.type].integrationRef \notin DOMAIN item.integrations
      BY <1>1, ChannelAgrees
    <2> QED  BY <2>1, <2>2, <2>3, <2>4 DEF AdmissionAgrees
  <1> QED  BY <1>1, HandledInvariant, PTL

-----------------------------------------------------------------------------
(* Environments.  A builder puts them together from short lists; what the  *)
(* kubelet makes of a name follows from what each list has of it.          *)

Nowhere(env, n) == \A i \in DOMAIN env : env[i].name # n

(* The last entry of n in env has the value v. *)
LastIs(env, n, v) ==
    \E i \in DOMAIN env :
       /\ env[i].name = n /\ env[i].value = v
       /\ \A j \in DOMAIN env : env[j].name = n => j <= i

(* It is the only one. *)
Sole(env, n, v) ==
    \E i \in DOMAIN env :
       /\ env[i].value = v
       /\ \A j \in DOMAIN env : env[j].name = n <=> j = i

LEMMA ListConcat ==
    ASSUME NEW s, NEW t, IsList(s), IsList(t)
    PROVE  /\ IsList(s \o t)
           /\ DOMAIN s = 1..Len(s) /\ DOMAIN t = 1..Len(t)
           /\ DOMAIN (s \o t) = 1..(Len(s) + Len(t))
           /\ Len(s) \in Nat /\ Len(t) \in Nat
           /\ \A i \in DOMAIN s : (s \o t)[i] = s[i]
           /\ \A i \in DOMAIN t : (s \o t)[Len(s) + i] = t[i]
           /\ \A i \in DOMAIN (s \o t) : i \in DOMAIN s \/ i - Len(s) \in DOMAIN t
  <1> DEFINE S == Range(s) \cup Range(t)
  <1>1. s \in Seq(S) /\ t \in Seq(S)
    <2>1. s \in Seq(Range(s)) /\ t \in Seq(Range(t))
      BY DEF IsList
    <2>2. Range(s) \subseteq S /\ Range(t) \subseteq S
      OBVIOUS
    <2> HIDE DEF S
    <2> QED  BY <2>1, <2>2, SeqMonotonic
  <1> HIDE DEF S
  <1>2. /\ s \o t \in Seq(S) /\ Len(s \o t) = Len(s) + Len(t)
        /\ \A i \in 1 .. Len(s) + Len(t) : (s \o t)[i] = IF i <= Len(s) THEN s[i] ELSE t[i - Len(s)]
    BY <1>1, ConcatProperties
  <1>3. s \o t \in Seq(Range(s \o t))
    BY <1>2, SeqOfRange
  <1>4. /\ Len(s) \in Nat /\ DOMAIN s = 1..Len(s)
        /\ Len(t) \in Nat /\ DOMAIN t = 1..Len(t)
        /\ DOMAIN (s \o t) = 1..Len(s \o t)
    BY <1>1, <1>2, LenProperties
  <1>5. DOMAIN (s \o t) = 1..(Len(s) + Len(t))
    BY <1>2, <1>4
  <1>6. \A i \in DOMAIN s : (s \o t)[i] = s[i]
    BY <1>2, <1>4
  <1>7. \A i \in DOMAIN t : (s \o t)[Len(s) + i] = t[i]
    BY <1>2, <1>4
  <1>8. \A i \in DOMAIN (s \o t) : i \in DOMAIN s \/ i - Len(s) \in DOMAIN t
    BY <1>4, <1>5
  <1> QED  BY <1>3, <1>4, <1>5, <1>6, <1>7, <1>8 DEF IsList

(* The entries of s \o t are those of s and those of t, shifted. *)
LEMMA ConcatEntries ==
    ASSUME NEW s, NEW t, IsList(s), IsList(t), NEW i \in DOMAIN (s \o t)
    PROVE  \/ i \in DOMAIN s /\ (s \o t)[i] = s[i]
           \/ \E j \in DOMAIN t : i = Len(s) + j /\ (s \o t)[i] = t[j]
  <1>1. i \in Nat /\ Len(s) \in Nat
    BY ListConcat
  <1>2. CASE i \in DOMAIN s
    BY <1>2, ListConcat
  <1>3. CASE i - Len(s) \in DOMAIN t
    <2>1. Len(s) + (i - Len(s)) = i
      BY <1>1
    <2>2. (s \o t)[Len(s) + (i - Len(s))] = t[i - Len(s)]
      BY <1>3, ListConcat
    <2> QED  BY <1>3, <2>1, <2>2
  <1> QED  BY <1>2, <1>3, ListConcat

LEMMA NowhereConcat ==
    ASSUME NEW s, NEW t, IsList(s), IsList(t), NEW n, Nowhere(s, n), Nowhere(t, n)
    PROVE  Nowhere(s \o t, n)
  BY ConcatEntries DEF Nowhere

LEMMA SoleLeft ==
    ASSUME NEW s, NEW t, IsList(s), IsList(t), NEW n, NEW v, Sole(s, n, v), Nowhere(t, n)
    PROVE  Sole(s \o t, n, v)
  <1>1. PICK i \in DOMAIN s : /\ s[i].value = v
                              /\ \A j \in DOMAIN s : s[j].name = n <=> j = i
    BY DEF Sole
  <1>2. i \in DOMAIN (s \o t) /\ (s \o t)[i] = s[i]
    BY ListConcat
  <1>3. ASSUME NEW j \in DOMAIN (s \o t) PROVE (s \o t)[j].name = n <=> j = i
    <2>1. CASE j \in DOMAIN s /\ (s \o t)[j] = s[j]
      BY <1>1, <2>1
    <2>2. ASSUME NEW k \in DOMAIN t, j = Len(s) + k, (s \o t)[j] = t[k]
          PROVE  (s \o t)[j].name # n /\ j # i
      <3>1. j # i
        BY <2>2, ListConcat
      <3> QED  BY <2>2, <3>1 DEF Nowhere
    <2> QED  BY <1>3, <2>1, <2>2, ConcatEntries
  <1> QED  BY <1>1, <1>2, <1>3 DEF Sole

LEMMA SoleRight ==
    ASSUME NEW s, NEW t, IsList(s), IsList(t), NEW n, NEW v, Nowhere(s, n), Sole(t, n, v)
    PROVE  Sole(s \o t, n, v)
  <1>1. PICK i \in DOMAIN t : /\ t[i].value = v
                              /\ \A j \in DOMAIN t : t[j].name = n <=> j = i
    BY DEF Sole
  <1>2. Len(s) + i \in DOMAIN (s \o t) /\ (s \o t)[Len(s) + i] = t[i]
    BY ListConcat
  <1>3. ASSUME NEW j \in DOMAIN (s \o t) PROVE (s \o t)[j].name = n <=> j = Len(s) + i
    <2>1. CASE j \in DOMAIN s /\ (s \o t)[j] = s[j]
      <3>1. j # Len(s) + i
        BY <2>1, ListConcat
      <3> QED  BY <2>1, <3>1 DEF Nowhere
    <2>2. ASSUME NEW k \in DOMAIN t, j = Len(s) + k, (s \o t)[j] = t[k]
          PROVE  (s \o t)[j].name = n <=> j = Len(s) + i
      <3>1. Len(s) \in Nat /\ k \in Nat /\ i \in Nat
        BY ListConcat, ListDomain
      <3>2. Len(s) + k = Len(s) + i <=> k = i
        BY <3>1
      <3> QED  BY <1>1, <2>2, <3>2
    <2> QED  BY <1>3, <2>1, <2>2, ConcatEntries
  <1> HIDE DEF Nowhere
  <1> QED  BY <1>1, <1>2, <1>3 DEF Sole

LEMMA LastRight ==
    ASSUME NEW s, NEW t, IsList(s), IsList(t), NEW n, NEW v, LastIs(t, n, v)
    PROVE  LastIs(s \o t, n, v)
  <1>1. PICK i \in DOMAIN t : /\ t[i].name = n /\ t[i].value = v
                              /\ \A j \in DOMAIN t : t[j].name = n => j <= i
    BY DEF LastIs
  <1>2. Len(s) + i \in DOMAIN (s \o t) /\ (s \o t)[Len(s) + i] = t[i]
    BY ListConcat
  <1>3. ASSUME NEW j \in DOMAIN (s \o t), (s \o t)[j].name = n PROVE j <= Len(s) + i
    <2>1. CASE j \in DOMAIN s
      BY <2>1, ListConcat
    <2>2. ASSUME NEW k \in DOMAIN t, j = Len(s) + k, (s \o t)[j] = t[k]
          PROVE  j <= Len(s) + i
      <3>1. k <= i
        BY <1>1, <1>3, <2>2
      <3>2. k \in Nat /\ i \in Nat /\ Len(s) \in Nat
        BY ListConcat
      <3> QED  BY <2>2, <3>1, <3>2
    <2> QED  BY <1>3, <2>1, <2>2, ConcatEntries
  <1> QED  BY <1>1, <1>2, <1>3 DEF LastIs

LEMMA LastLeft ==
    ASSUME NEW s, NEW t, IsList(s), IsList(t), NEW n, NEW v, LastIs(s, n, v), Nowhere(t, n)
    PROVE  LastIs(s \o t, n, v)
  <1>1. PICK i \in DOMAIN s : /\ s[i].name = n /\ s[i].value = v
                              /\ \A j \in DOMAIN s : s[j].name = n => j <= i
    BY DEF LastIs
  <1>2. i \in DOMAIN (s \o t) /\ (s \o t)[i] = s[i]
    BY ListConcat
  <1>3. ASSUME NEW j \in DOMAIN (s \o t), (s \o t)[j].name = n PROVE j <= i
    BY <1>1, <1>3, ConcatEntries DEF Nowhere
  <1> QED  BY <1>1, <1>2, <1>3 DEF LastIs

LEMMA SoleIsLast ==
    ASSUME NEW s, IsList(s), NEW n, NEW v, Sole(s, n, v)
    PROVE  LastIs(s, n, v)
  <1>1. PICK i \in DOMAIN s : /\ s[i].value = v
                              /\ \A j \in DOMAIN s : s[j].name = n <=> j = i
    BY DEF Sole
  <1>2. i <= i
    BY ListDomain
  <1> QED  BY <1>1, <1>2 DEF LastIs

LEMMA LastValue ==
    ASSUME NEW s, IsList(s), NEW n, NEW v, LastIs(s, n, v)
    PROVE  EnvValue(s, n) = v
  <1> DEFINE at == {i \in DOMAIN s : s[i].name = n}
  <1>1. PICK i \in DOMAIN s : /\ s[i].name = n /\ s[i].value = v
                              /\ \A j \in DOMAIN s : s[j].name = n => j <= i
    BY DEF LastIs
  <1>2. at \subseteq Nat /\ i \in at /\ \A j \in at : i >= j
    BY <1>1, ListDomain
  <1> HIDE DEF at
  <1>3. Max(at) \in at /\ \A j \in at : Max(at) >= j
    BY <1>2 DEF Max
  <1>4. EnvValue(s, n) = s[Max(at)].value
    BY <1>2 DEF EnvValue, at
  <1>5. Max(at) \in Nat /\ i \in Nat /\ Max(at) >= i /\ i >= Max(at)
    BY <1>2, <1>3
  <1>6. Max(at) = i
    BY <1>5
  <1> QED  BY <1>1, <1>4, <1>6

LEMMA SoleValue ==
    ASSUME NEW s, IsList(s), NEW n, NEW v, Sole(s, n, v)
    PROVE  EnvValue(s, n) = v
  BY SoleIsLast, LastValue

LEMMA NoValue ==
    ASSUME NEW s, NEW n, Nowhere(s, n)
    PROVE  EnvValue(s, n) = None
  BY DEF Nowhere, EnvValue

(* Lists that are written out, and conditional ones. *)
LEMMA EmptyList == IsList(<< >>) /\ \A n : Nowhere(<< >>, n)
  BY DEF IsList, Nowhere

LEMMA OneEntry ==
    ASSUME NEW e, NEW n
    PROVE  /\ IsList(<< e >>)
           /\ e.name = n => Sole(<< e >>, n, e.value)
           /\ e.name # n => Nowhere(<< e >>, n)
  <1>1. DOMAIN << e >> = {1} /\ << e >>[1] = e
    OBVIOUS
  <1>2. e \in Range(<< e >>)
    BY <1>1 DEF Range
  <1>3. << e >> \in Seq(Range(<< e >>))
    BY <1>2
  <1>4. e.name = n => Sole(<< e >>, n, e.value)
    BY <1>1 DEF Sole
  <1>5. e.name # n => Nowhere(<< e >>, n)
    BY <1>1 DEF Nowhere
  <1> QED  BY <1>3, <1>4, <1>5 DEF IsList

LEMMA TwoEntries ==
    ASSUME NEW d, NEW e
    PROVE  << d, e >> = << d >> \o << e >>
  <1> DEFINE S == {d, e}
             s == << d >>
             t == << e >>
             u == << d, e >>
  <1>1. s \in Seq(S) /\ t \in Seq(S) /\ u \in Seq(S)
    OBVIOUS
  <1>2. Len(s) = 1 /\ s[1] = d /\ Len(t) = 1 /\ t[1] = e /\ Len(u) = 2 /\ u[1] = d /\ u[2] = e
    OBVIOUS
  <1> SUFFICES u = s \o t
    OBVIOUS
  <1> HIDE DEF S, s, t, u
  <1>3. /\ s \o t \in Seq(S) /\ Len(s \o t) = 2
        /\ \A i \in 1..2 : (s \o t)[i] = IF i <= 1 THEN s[i] ELSE t[i - 1]
    BY <1>1, <1>2, ConcatProperties
  <1>4. (s \o t)[1] = u[1] /\ (s \o t)[2] = u[2]
    BY <1>2, <1>3
  <1>5. 1..2 = {1, 2}
    OBVIOUS
  <1>6. \A i \in 1..2 : (s \o t)[i] = u[i]
    BY <1>4, <1>5
  <1> QED  BY <1>1, <1>2, <1>3, <1>6, SeqEqual

LEMMA ThreeEntries ==
    ASSUME NEW c, NEW d, NEW e
    PROVE  << c, d, e >> = << c, d >> \o << e >>
  <1> DEFINE S == {c, d, e}
             s == << c, d >>
             t == << e >>
             u == << c, d, e >>
  <1>1. s \in Seq(S) /\ t \in Seq(S) /\ u \in Seq(S)
    OBVIOUS
  <1>2. /\ Len(s) = 2 /\ s[1] = c /\ s[2] = d /\ Len(t) = 1 /\ t[1] = e
        /\ Len(u) = 3 /\ u[1] = c /\ u[2] = d /\ u[3] = e
    OBVIOUS
  <1> SUFFICES u = s \o t
    OBVIOUS
  <1> HIDE DEF S, s, t, u
  <1>3. /\ s \o t \in Seq(S) /\ Len(s \o t) = 3
        /\ \A i \in 1..3 : (s \o t)[i] = IF i <= 2 THEN s[i] ELSE t[i - 2]
    <2>1. /\ s \o t \in Seq(S) /\ Len(s \o t) = Len(s) + Len(t)
          /\ \A i \in 1..Len(s) + Len(t) : (s \o t)[i] = IF i <= Len(s) THEN s[i] ELSE t[i - Len(s)]
      BY <1>1, ConcatProperties
    <2> QED  BY <1>2, <2>1
  <1>4. (s \o t)[1] = u[1] /\ (s \o t)[2] = u[2] /\ (s \o t)[3] = u[3]
    BY <1>2, <1>3
  <1>5. 1..3 = {1, 2, 3}
    OBVIOUS
  <1>6. \A i \in 1..3 : (s \o t)[i] = u[i]
    BY <1>4, <1>5
  <1> QED  BY <1>1, <1>2, <1>3, <1>6, SeqEqual

LEMMA TwoEntriesFacts ==
    ASSUME NEW d, NEW e, NEW n
    PROVE  /\ IsList(<< d, e >>)
           /\ d.name = n /\ e.name # n => Sole(<< d, e >>, n, d.value)
           /\ d.name # n /\ e.name = n => Sole(<< d, e >>, n, e.value)
           /\ d.name # n /\ e.name # n => Nowhere(<< d, e >>, n)
  <1> DEFINE s == << d >>
             t == << e >>
  <1>1. << d, e >> = s \o t
    BY TwoEntries
  <1>2. /\ IsList(s) /\ IsList(t)
        /\ d.name = n => Sole(s, n, d.value)
        /\ d.name # n => Nowhere(s, n)
        /\ e.name = n => Sole(t, n, e.value)
        /\ e.name # n => Nowhere(t, n)
    BY OneEntry
  <1> HIDE DEF s, t
  <1>3. IsList(s \o t)
    BY <1>2, ListConcat
  <1>4. d.name = n /\ e.name # n => Sole(s \o t, n, d.value)
    BY <1>2, SoleLeft
  <1>5. d.name # n /\ e.name = n => Sole(s \o t, n, e.value)
    BY <1>2, SoleRight
  <1>6. d.name # n /\ e.name # n => Nowhere(s \o t, n)
    BY <1>2, NowhereConcat
  <1> QED  BY <1>1, <1>3, <1>4, <1>5, <1>6

LEMMA ThreeEntriesFacts ==
    ASSUME NEW c, NEW d, NEW e, NEW n
    PROVE  /\ IsList(<< c, d, e >>)
           /\ c.name = n /\ d.name # n /\ e.name # n => Sole(<< c, d, e >>, n, c.value)
           /\ c.name # n /\ d.name = n /\ e.name # n => Sole(<< c, d, e >>, n, d.value)
           /\ c.name # n /\ d.name # n /\ e.name = n => Sole(<< c, d, e >>, n, e.value)
           /\ c.name # n /\ d.name # n /\ e.name # n => Nowhere(<< c, d, e >>, n)
  <1> DEFINE s == << c, d >>
             t == << e >>
  <1>1. << c, d, e >> = s \o t
    BY ThreeEntries
  <1>2. /\ IsList(s) /\ IsList(t)
        /\ c.name = n /\ d.name # n => Sole(s, n, c.value)
        /\ c.name # n /\ d.name = n => Sole(s, n, d.value)
        /\ c.name # n /\ d.name # n => Nowhere(s, n)
        /\ e.name = n => Sole(t, n, e.value)
        /\ e.name # n => Nowhere(t, n)
    BY OneEntry, TwoEntriesFacts
  <1> HIDE DEF s, t
  <1>3. IsList(s \o t)
    BY <1>2, ListConcat
  <1>4. e.name # n => /\ c.name = n /\ d.name # n => Sole(s \o t, n, c.value)
                      /\ c.name # n /\ d.name = n => Sole(s \o t, n, d.value)
    BY <1>2, SoleLeft
  <1>5. c.name # n /\ d.name # n /\ e.name = n => Sole(s \o t, n, e.value)
    BY <1>2, SoleRight
  <1>6. c.name # n /\ d.name # n /\ e.name # n => Nowhere(s \o t, n)
    BY <1>2, NowhereConcat
  <1> QED  BY <1>1, <1>3, <1>4, <1>5, <1>6

(* A variable has the name and the value that it is built from. *)
LEMMA EntryFacts ==
    ASSUME NEW n, NEW v
    PROVE  /\ EnvVar(n, v).name = n /\ EnvVar(n, v).value = <<"plain", v>>
           /\ SecretEnvVar(n, v).name = n /\ SecretEnvVar(n, v).value = <<"secret", v>>
  BY DEF EnvVar, SecretEnvVar

-----------------------------------------------------------------------------
(* Bridges.                                                                *)

LEMMA IdentityFacts ==
    ASSUME NEW res
    PROVE  /\ IsList(GitLabIdentity(res))
           /\ Nowhere(GitLabIdentity(res), <<"PROMPT_TEMPLATE">>)
           /\ Nowhere(GitLabIdentity(res), <<"AGENT_URL">>)
  <1> DEFINE project == res.block["gitlab-project"]
             group == res.block["gitlab-group"]
             p == When(project # None, << EnvVar(<<"GITLAB_BASE_URL">>, project.baseURL),
                                          EnvVar(<<"GITLAB_PROJECT">>, project.project) >>)
             g == When(project = None /\ group # None,
                       << EnvVar(<<"GITLAB_BASE_URL">>, group.baseURL), EnvVar(<<"GITLAB_GROUP">>, group.group) >>)
             c == When(res.credentials # None, << SecretEnvVar(<<"GITLAB_TOKEN">>, res.credentials) >>)
  <1>1. GitLabIdentity(res) = (p \o g) \o c
    BY DEF GitLabIdentity
  <1>2. ASSUME NEW n \in {<<"PROMPT_TEMPLATE">>, <<"AGENT_URL">>}
        PROVE  /\ IsList(p) /\ IsList(g) /\ IsList(c)
               /\ Nowhere(p, n) /\ Nowhere(g, n) /\ Nowhere(c, n)
    <2>1. /\ n # <<"GITLAB_BASE_URL">> /\ n # <<"GITLAB_PROJECT">> /\ n # <<"GITLAB_GROUP">>
          /\ n # <<"GITLAB_TOKEN">>
      BY <1>2
    <2>2. IsList(p) /\ Nowhere(p, n)
      BY <2>1, EntryFacts, TwoEntriesFacts, EmptyList DEF When
    <2>3. IsList(g) /\ Nowhere(g, n)
      BY <2>1, EntryFacts, TwoEntriesFacts, EmptyList DEF When
    <2>4. IsList(c) /\ Nowhere(c, n)
      BY <2>1, EntryFacts, OneEntry, EmptyList DEF When
    <2> QED  BY <2>2, <2>3, <2>4
  <1> HIDE DEF p, g, c
  <1> QED  BY <1>1, <1>2, ListConcat, NowhereConcat

(* Who a bridge is on GitLab, if its Integration is an admitted project or *)
(* group: the one or the other, with the token of the same Integration.    *)
LEMMA IdentityOf ==
    ASSUME NEW res, IsIntegration(res), ValidateIntegration(res),
           res.kind \in {"gitlab-project", "gitlab-group"},
           NEW b, b = res.block[res.kind]
    PROVE  LET id == GitLabIdentity(res)
           IN  /\ Sole(id, <<"GITLAB_BASE_URL">>, Plain(b.baseURL))
               /\ IF res.kind = "gitlab-project"
                    THEN Sole(id, <<"GITLAB_PROJECT">>, Plain(b.project)) /\ Nowhere(id, <<"GITLAB_GROUP">>)
                    ELSE Sole(id, <<"GITLAB_GROUP">>, Plain(b.group)) /\ Nowhere(id, <<"GITLAB_PROJECT">>)
               /\ res.credentials # None => Sole(id, <<"GITLAB_TOKEN">>, <<"secret", res.credentials>>)
  <1> DEFINE project == res.block["gitlab-project"]
             group == res.block["gitlab-group"]
             u == IF res.kind = "gitlab-project"
                    THEN << EnvVar(<<"GITLAB_BASE_URL">>, b.baseURL), EnvVar(<<"GITLAB_PROJECT">>, b.project) >>
                    ELSE << EnvVar(<<"GITLAB_BASE_URL">>, b.baseURL), EnvVar(<<"GITLAB_GROUP">>, b.group) >>
             c == When(res.credentials # None, << SecretEnvVar(<<"GITLAB_TOKEN">>, res.credentials) >>)
             id == GitLabIdentity(res)
  <1>1. /\ res.kind = "gitlab-project" => b = project /\ project # None
        /\ res.kind = "gitlab-group" => b = group /\ group # None /\ project = None
    BY DEF ValidateIntegration, IntegrationKind
  <1>2. IsList(u) /\ IsList(c)
    BY TwoEntriesFacts, OneEntry, EmptyList DEF When
  <1>3. id = u \o c
    <2>1. CASE res.kind = "gitlab-project"
      <3>1. id = (u \o << >>) \o c
        BY <1>1, <2>1 DEF GitLabIdentity, When
      <3>2. u \o << >> = u
        BY <1>2, ConcatEmptySeq DEF IsList
      <3> QED  BY <3>1, <3>2
    <2>2. CASE res.kind = "gitlab-group"
      <3>1. id = (<< >> \o u) \o c
        BY <1>1, <2>2 DEF GitLabIdentity, When
      <3>2. << >> \o u = u
        BY <1>2, ConcatEmptySeq DEF IsList
      <3> QED  BY <3>1, <3>2
    <2> QED  BY <2>1, <2>2
  <1>4. /\ Sole(u, <<"GITLAB_BASE_URL">>, Plain(b.baseURL))
        /\ IF res.kind = "gitlab-project"
             THEN Sole(u, <<"GITLAB_PROJECT">>, Plain(b.project)) /\ Nowhere(u, <<"GITLAB_GROUP">>)
             ELSE Sole(u, <<"GITLAB_GROUP">>, Plain(b.group)) /\ Nowhere(u, <<"GITLAB_PROJECT">>)
        /\ Nowhere(u, <<"GITLAB_TOKEN">>)
    <2> DEFINE d == EnvVar(<<"GITLAB_BASE_URL">>, b.baseURL)
    <2>1. d.name = <<"GITLAB_BASE_URL">> /\ d.value = Plain(b.baseURL)
      BY EntryFacts DEF Plain
    <2>2. CASE res.kind = "gitlab-project"
      <3> DEFINE e == EnvVar(<<"GITLAB_PROJECT">>, b.project)
      <3>1. e.name = <<"GITLAB_PROJECT">> /\ e.value = Plain(b.project)
        BY EntryFacts DEF Plain
      <3>2. u = << d, e >>
        BY <2>2
      <3> HIDE DEF d, e, u
      <3> QED  BY <2>1, <2>2, <3>1, <3>2, TwoEntriesFacts
    <2>3. CASE res.kind = "gitlab-group"
      <3> DEFINE e == EnvVar(<<"GITLAB_GROUP">>, b.group)
      <3>1. e.name = <<"GITLAB_GROUP">> /\ e.value = Plain(b.group)
        BY EntryFacts DEF Plain
      <3>2. u = << d, e >>
        BY <2>3
      <3> HIDE DEF d, e, u
      <3> QED  BY <2>1, <2>3, <3>1, <3>2, TwoEntriesFacts
    <2> QED  BY <2>2, <2>3
  <1>5. /\ Nowhere(c, <<"GITLAB_BASE_URL">>) /\ Nowhere(c, <<"GITLAB_PROJECT">>)
        /\ Nowhere(c, <<"GITLAB_GROUP">>)
        /\ res.credentials # None => Sole(c, <<"GITLAB_TOKEN">>, <<"secret", res.credentials>>)
    BY EntryFacts, OneEntry, EmptyList DEF When
  <1> HIDE DEF u, c, id
  <1>6. Sole(id, <<"GITLAB_BASE_URL">>, Plain(b.baseURL))
    BY <1>2, <1>3, <1>4, <1>5, SoleLeft
  <1>7. IF res.kind = "gitlab-project"
          THEN Sole(id, <<"GITLAB_PROJECT">>, Plain(b.project)) /\ Nowhere(id, <<"GITLAB_GROUP">>)
          ELSE Sole(id, <<"GITLAB_GROUP">>, Plain(b.group)) /\ Nowhere(id, <<"GITLAB_PROJECT">>)
    BY <1>2, <1>3, <1>4, <1>5, SoleLeft, NowhereConcat
  <1>8. res.credentials # None => Sole(id, <<"GITLAB_TOKEN">>, <<"secret", res.credentials>>)
    BY <1>2, <1>3, <1>4, <1>5, SoleRight
  <1> QED  BY <1>6, <1>7, <1>8 DEF id

IdentityNames == {<<"GITLAB_BASE_URL">>, <<"GITLAB_PROJECT">>, <<"GITLAB_GROUP">>, <<"GITLAB_TOKEN">>}

(* The platform's part p of a poll bridge's environment: who it is, and a  *)
(* prompt if the user has none.                                            *)
PollsAs(p, id, prompt) ==
    /\ IsList(p)
    /\ \A n \in IdentityNames : Nowhere(id, n) => Nowhere(p, n)
    /\ \A n \in IdentityNames : \A v : Sole(id, n, v) => Sole(p, n, v)
    /\ Nowhere(p, <<"AGENT_URL">>)
    /\ prompt # None => Nowhere(p, <<"PROMPT_TEMPLATE">>)
    /\ prompt = None => \E v : Sole(p, <<"PROMPT_TEMPLATE">>, v)

LEMMA PollsAsConcat ==
    ASSUME NEW id, NEW m, NEW text, NEW prompt, IsList(id), IsList(m),
           Nowhere(id, <<"AGENT_URL">>), Nowhere(id, <<"PROMPT_TEMPLATE">>),
           \A n \in IdentityNames \cup {<<"AGENT_URL">>, <<"PROMPT_TEMPLATE">>} : Nowhere(m, n),
           NEW w, w = IF prompt = None THEN << EnvVar(<<"PROMPT_TEMPLATE">>, text) >> ELSE << >>
    PROVE  PollsAs((id \o m) \o w, id, prompt)
  <1> DEFINE s == id \o m
             p == s \o w
  <1>1. IsList(s) /\ Nowhere(s, <<"AGENT_URL">>) /\ Nowhere(s, <<"PROMPT_TEMPLATE">>)
    BY ListConcat, NowhereConcat
  <1>2. /\ \A n \in IdentityNames : Nowhere(id, n) => Nowhere(s, n)
        /\ \A n \in IdentityNames : \A v : Sole(id, n, v) => Sole(s, n, v)
    BY NowhereConcat, SoleLeft
  <1>3. /\ IsList(w)
        /\ prompt # None => Nowhere(w, <<"PROMPT_TEMPLATE">>)
        /\ prompt = None => Sole(w, <<"PROMPT_TEMPLATE">>, Plain(text))
    BY EntryFacts, OneEntry, EmptyList DEF Plain
  <1>4. \A n \in IdentityNames \cup {<<"AGENT_URL">>} : Nowhere(w, n)
    <2>1. \A n \in IdentityNames \cup {<<"AGENT_URL">>} : n # <<"PROMPT_TEMPLATE">>
      BY DEF IdentityNames
    <2> QED  BY <2>1, EntryFacts, OneEntry, EmptyList
  <1> SUFFICES PollsAs(p, id, prompt)
    OBVIOUS
  <1> HIDE DEF s
  <1>5. IsList(p) /\ Nowhere(p, <<"AGENT_URL">>)
    BY <1>1, <1>3, <1>4, ListConcat, NowhereConcat
  <1>6. /\ \A n \in IdentityNames : Nowhere(id, n) => Nowhere(p, n)
        /\ \A n \in IdentityNames : \A v : Sole(id, n, v) => Sole(p, n, v)
    BY <1>1, <1>2, <1>3, <1>4, NowhereConcat, SoleLeft
  <1>7. prompt # None => Nowhere(p, <<"PROMPT_TEMPLATE">>)
    BY <1>1, <1>3, NowhereConcat
  <1>8. prompt = None => Sole(p, <<"PROMPT_TEMPLATE">>, Plain(text))
    BY <1>1, <1>3, SoleRight
  <1> HIDE DEF p
  <1> QED  BY <1>5, <1>6, <1>7, <1>8 DEF PollsAs

LEMMA PollPlatform ==
    ASSUME NEW ch, NEW res, IsPollType(ch.type), ch.block[ch.type] # None
    PROVE  PollsAs(BuildChannelPlatformEnv(ch, res), GitLabIdentity(res), ch.prompt)
  <1> DEFINE id == GitLabIdentity(res)
             Other == IdentityNames \cup {<<"AGENT_URL">>, <<"PROMPT_TEMPLATE">>}
  <1>1. IsList(id) /\ Nowhere(id, <<"AGENT_URL">>) /\ Nowhere(id, <<"PROMPT_TEMPLATE">>)
    BY IdentityFacts
  <1>2. CASE ch.type = "gitlab-label"
    <2> DEFINE cfg == ch.block["gitlab-label"]
               project == res.block["gitlab-project"]
               branch == IF project # None /\ project.defaultBranch # None THEN project.defaultBranch ELSE "main"
               m == << EnvVar(<<"GITLAB_LABELS">>, cfg.labels),
                       EnvVar(<<"GITLAB_INTEGRATION_REF">>, cfg.integrationRef),
                       EnvVar(<<"GITLAB_BASE_BRANCH">>, branch) >>
    <2>1. BuildChannelPlatformEnv(ch, res) =
             (id \o m) \o (IF ch.prompt = None
                            THEN << EnvVar(<<"PROMPT_TEMPLATE">>, "default label prompt") >> ELSE << >>)
      BY <1>2 DEF BuildChannelPlatformEnv, BuildGitLabLabelEnv, When
    <2>2. IsList(m) /\ \A n \in Other : Nowhere(m, n)
      <3> HIDE DEF cfg, branch
      <3>1. \A n \in Other : /\ n # <<"GITLAB_LABELS">> /\ n # <<"GITLAB_INTEGRATION_REF">>
                             /\ n # <<"GITLAB_BASE_BRANCH">>
        BY DEF IdentityNames
      <3> HIDE DEF Other
      <3> QED  BY <3>1, EntryFacts, ThreeEntriesFacts
    <2> HIDE DEF m, id
    <2>3. PollsAs(BuildChannelPlatformEnv(ch, res), id, ch.prompt)
      BY <1>1, <2>1, <2>2, PollsAsConcat
    <2> QED  BY <2>3 DEF id
  <1>3. CASE ch.type = "gitlab-comment"
    <2> DEFINE cfg == ch.block["gitlab-comment"]
               label == IF cfg.planningLabel # None THEN cfg.planningLabel ELSE "agent::planning"
               m == << EnvVar(<<"GITLAB_PLANNING_LABEL">>, label) >>
    <2>1. BuildChannelPlatformEnv(ch, res) =
             (id \o m) \o (IF ch.prompt = None
                            THEN << EnvVar(<<"PROMPT_TEMPLATE">>, "default planning prompt") >> ELSE << >>)
      BY <1>3 DEF BuildChannelPlatformEnv, BuildGitLabCommentEnv, When
    <2>2. IsList(m) /\ \A n \in Other : Nowhere(m, n)
      <3> HIDE DEF cfg, label
      <3>1. \A n \in Other : n # <<"GITLAB_PLANNING_LABEL">>
        BY DEF IdentityNames
      <3> HIDE DEF Other
      <3> QED  BY <3>1, EntryFacts, OneEntry
    <2> HIDE DEF m, id
    <2>3. PollsAs(BuildChannelPlatformEnv(ch, res), id, ch.prompt)
      BY <1>1, <2>1, <2>2, PollsAsConcat
    <2> QED  BY <2>3 DEF id
  <1> QED  BY <1>2, <1>3 DEF IsPollType

(* The platform's part of any other bridge: its secret, if it has one. *)
LEMMA OtherPlatform ==
    ASSUME NEW ch, NEW res, ch.type \in ChannelType, ~IsPollType(ch.type),
           NEW p, p = BuildChannelPlatformEnv(ch, res)
    PROVE  /\ IsList(p)
           /\ Nowhere(p, <<"AGENT_URL">>) /\ Nowhere(p, <<"PROMPT_TEMPLATE">>)
           /\ ch.block[ch.type] # None /\ ch.block[ch.type].secret # None =>
                 \E n : Sole(p, n, <<"secret", ch.block[ch.type].secret>>)
  <1> DEFINE b == ch.block[ch.type]
             t == TokenEnvName(ch.type)
  <1>1. p = IF b = None \/ b.secret = None THEN << >> ELSE << SecretEnvVar(t, b.secret) >>
    BY DEF BuildChannelPlatformEnv, IsPollType
  <1>2. t # <<"AGENT_URL">> /\ t # <<"PROMPT_TEMPLATE">>
    BY DEF TokenEnvName
  <1> HIDE DEF t
  <1> QED  BY <1>1, <1>2, EntryFacts, OneEntry, EmptyList

(* The part of a bridge's environment that all platforms share. *)
BridgeFront(ch, agent) ==
    << EnvVar(<<"CHANNEL_TYPE">>, ch.type) >>
    \o (IF agent.mode = "daemon" THEN << EnvVar(<<"AGENT_URL">>, AgentServiceURL(agent)) >> ELSE << >>)
    \o << EnvVar(<<"AGENT_REF">>, ch.agentRef), EnvVar(<<"CHANNEL_NAME">>, ch.name),
          EnvVar(<<"AGENT_MODE">>, agent.mode) >>
    \o (IF ch.prompt # None THEN << EnvVar(<<"PROMPT_TEMPLATE">>, ch.prompt) >> ELSE << >>)

LEMMA FrontFacts ==
    ASSUME NEW ch, NEW agent, NEW f, f = BridgeFront(ch, agent)
    PROVE  /\ IsList(f)
           /\ \A n \in IdentityNames : Nowhere(f, n)
           /\ IF agent.mode = "daemon" THEN Sole(f, <<"AGENT_URL">>, Plain(AgentServiceURL(agent)))
                ELSE Nowhere(f, <<"AGENT_URL">>)
           /\ IF ch.prompt # None THEN Sole(f, <<"PROMPT_TEMPLATE">>, Plain(ch.prompt))
                ELSE Nowhere(f, <<"PROMPT_TEMPLATE">>)
  <1> DEFINE url == AgentServiceURL(agent)
             h == << EnvVar(<<"CHANNEL_TYPE">>, ch.type) >>
             u == IF agent.mode = "daemon" THEN << EnvVar(<<"AGENT_URL">>, url) >> ELSE << >>
             m == << EnvVar(<<"AGENT_REF">>, ch.agentRef), EnvVar(<<"CHANNEL_NAME">>, ch.name),
                     EnvVar(<<"AGENT_MODE">>, agent.mode) >>
             q == IF ch.prompt # None THEN << EnvVar(<<"PROMPT_TEMPLATE">>, ch.prompt) >> ELSE << >>
             Seen == IdentityNames \cup {<<"AGENT_URL">>, <<"PROMPT_TEMPLATE">>}
  <1>1. f = ((h \o u) \o m) \o q
    BY DEF BridgeFront
  <1>2. \A n \in Seen : /\ n # <<"CHANNEL_TYPE">> /\ n # <<"AGENT_REF">> /\ n # <<"CHANNEL_NAME">>
                        /\ n # <<"AGENT_MODE">>
    BY DEF IdentityNames
  <1>3. /\ \A n \in IdentityNames : n # <<"AGENT_URL">> /\ n # <<"PROMPT_TEMPLATE">>
        /\ <<"AGENT_URL">> # <<"PROMPT_TEMPLATE">>
    BY DEF IdentityNames
  <1>4. IdentityNames \subseteq Seen /\ <<"AGENT_URL">> \in Seen /\ <<"PROMPT_TEMPLATE">> \in Seen
    OBVIOUS
  <1> HIDE DEF Seen, url
  <1>5. IsList(h) /\ \A n \in Seen : Nowhere(h, n)
    BY <1>2, EntryFacts, OneEntry
  <1>6. IsList(m) /\ \A n \in Seen : Nowhere(m, n)
    BY <1>2, EntryFacts, ThreeEntriesFacts
  <1>7. /\ IsList(u) /\ Nowhere(u, <<"PROMPT_TEMPLATE">>) /\ \A n \in IdentityNames : Nowhere(u, n)
        /\ IF agent.mode = "daemon" THEN Sole(u, <<"AGENT_URL">>, Plain(url))
             ELSE Nowhere(u, <<"AGENT_URL">>)
    BY <1>3, EntryFacts, OneEntry, EmptyList DEF Plain
  <1>8. /\ IsList(q) /\ Nowhere(q, <<"AGENT_URL">>) /\ \A n \in IdentityNames : Nowhere(q, n)
        /\ IF ch.prompt # None THEN Sole(q, <<"PROMPT_TEMPLATE">>, Plain(ch.prompt))
             ELSE Nowhere(q, <<"PROMPT_TEMPLATE">>)
    BY <1>3, EntryFacts, OneEntry, EmptyList DEF Plain
  <1> HIDE DEF h, u, m, q
  <1>9. /\ IsList(h \o u) /\ IsList((h \o u) \o m) /\ IsList(f)
    BY <1>1, <1>5, <1>6, <1>7, <1>8, ListConcat
  <1>10. \A n \in IdentityNames : Nowhere(f, n)
    <2> TAKE n \in IdentityNames
    <2>1. Nowhere(h \o u, n)
      BY <1>4, <1>5, <1>7, NowhereConcat
    <2>2. Nowhere((h \o u) \o m, n)
      BY <1>4, <1>6, <1>9, <2>1, NowhereConcat
    <2> QED  BY <1>1, <1>8, <1>9, <2>2, NowhereConcat
  <1>11. IF agent.mode = "daemon" THEN Sole(f, <<"AGENT_URL">>, Plain(url)) ELSE Nowhere(f, <<"AGENT_URL">>)
    <2> DEFINE n == <<"AGENT_URL">>
    <2>1. Nowhere(h, n) /\ Nowhere(m, n) /\ Nowhere(q, n)
      BY <1>4, <1>5, <1>6, <1>8
    <2> HIDE DEF n
    <2>2. ASSUME Sole(u, n, Plain(url)) PROVE Sole(f, n, Plain(url))
      <3>1. Sole(h \o u, n, Plain(url))
        BY <1>5, <1>7, <2>1, <2>2, SoleRight
      <3>2. Sole((h \o u) \o m, n, Plain(url))
        BY <1>6, <1>9, <2>1, <3>1, SoleLeft
      <3> QED  BY <1>1, <1>8, <1>9, <2>1, <3>2, SoleLeft
    <2>3. ASSUME Nowhere(u, n) PROVE Nowhere(f, n)
      <3>1. Nowhere(h \o u, n)
        BY <1>5, <1>7, <2>1, <2>3, NowhereConcat
      <3>2. Nowhere((h \o u) \o m, n)
        BY <1>6, <1>9, <2>1, <3>1, NowhereConcat
      <3> QED  BY <1>1, <1>8, <1>9, <2>1, <3>2, NowhereConcat
    <2> QED  BY <1>7, <2>2, <2>3 DEF n
  <1>12. IF ch.prompt # None THEN Sole(f, <<"PROMPT_TEMPLATE">>, Plain(ch.prompt))
           ELSE Nowhere(f, <<"PROMPT_TEMPLATE">>)
    <2> DEFINE n == <<"PROMPT_TEMPLATE">>
    <2>1. Nowhere(h, n) /\ Nowhere(m, n) /\ Nowhere(u, n)
      BY <1>4, <1>5, <1>6, <1>7
    <2> HIDE DEF n
    <2>2. Nowhere(h \o u, n)
      BY <1>5, <1>7, <2>1, NowhereConcat
    <2>3. Nowhere((h \o u) \o m, n)
      BY <1>6, <1>9, <2>1, <2>2, NowhereConcat
    <2>4. Sole(q, n, Plain(ch.prompt)) => Sole(f, n, Plain(ch.prompt))
      BY <1>1, <1>8, <1>9, <2>3, SoleRight
    <2>5. Nowhere(q, n) => Nowhere(f, n)
      BY <1>1, <1>8, <1>9, <2>3, NowhereConcat
    <2> QED  BY <1>8, <2>4, <2>5 DEF n
  <1> QED  BY <1>9, <1>10, <1>11, <1>12 DEF url

(* The Deployment of a bridge. *)
IsBridge(d, ch, agent, res) ==
    /\ d.pod.main.env = BridgeFront(ch, agent) \o BuildChannelPlatformEnv(ch, res)
    /\ d.pod.main.ports = {BridgePort}
    /\ d.pod.account = ChannelServiceAccountName(ch)
    /\ d.pod.automount <=> \/ ch.security.automount = TRUE
                           \/ agent.mode = "task" /\ ch.security.automount # FALSE
    /\ d.labels = {<<"component", "channel">>, <<"managed-by", "agentops">>, <<"app", ch.name>>}
    /\ d.selector = {<<"app", ch.name>>}

LEMMA DeploymentFacts ==
    ASSUME NEW ch, NEW agent, NEW res, ch.security \in SecurityOverrides
    PROVE  IsBridge(BuildChannelDeployment(ch, agent, res), ch, agent, res)
  <1> DEFINE d == BuildChannelDeployment(ch, agent, res)
             env == BridgeFront(ch, agent) \o BuildChannelPlatformEnv(ch, res)
             main == Container(<<"channel">>, << >>, env, "channel", {BridgePort})
             o == BridgeSecurity(ch, agent)
  <1>1. /\ d.labels = {<<"component", "channel">>, <<"managed-by", "agentops">>, <<"app", ch.name>>}
        /\ d.selector = {<<"app", ch.name>>}
        /\ d.pod = ApplySecurity([init |-> << >>, main |-> main, volumes |-> << >>,
                                  account |-> ChannelServiceAccountName(ch), sc |-> None, automount |-> None], o)
    BY DEF BuildChannelDeployment, BridgeFront, When
  <1>2. /\ {"sc", "mounts", "env", "ports"} \subseteq DOMAIN main
        /\ main.env = env /\ main.ports = {BridgePort}
    BY DEF Container
  <1>3. o.automount = TRUE <=> \/ ch.security.automount = TRUE
                               \/ agent.mode = "task" /\ ch.security.automount # FALSE
    <2>1. DOMAIN ch.security = {"pod", "container", "automount"} /\ ch.security.automount \in Opt(BOOLEAN)
      BY DEF SecurityOverrides
    <2>2. o.automount = IF agent.mode = "task" /\ ch.security.automount = None THEN TRUE
                          ELSE ch.security.automount
      BY <2>1 DEF BridgeSecurity
    <2>3. \/ ch.security.automount = TRUE \/ ch.security.automount = FALSE \/ ch.security.automount = None
      BY <2>1 DEF Opt
    <2>4. None # FALSE
      BY SecurityAssumption DEF SecurityAssumption
    <2> QED  BY <2>2, <2>3, <2>4
  <1> HIDE DEF main, o, env
  <1>4. /\ d.pod.main.env = env /\ d.pod.main.ports = {BridgePort}
        /\ d.pod.account = ChannelServiceAccountName(ch)
        /\ d.pod.automount <=> o.automount = TRUE
    <2> DEFINE pod == d.pod
               account == ChannelServiceAccountName(ch)
    <2>1. pod = ApplySecurity([init |-> << >>, main |-> main, volumes |-> << >>,
                               account |-> account, sc |-> None, automount |-> None], o)
      BY <1>1
    <2> HIDE DEF pod, account
    <2>2. /\ pod.automount = (o.automount = TRUE)
          /\ pod.main = ApplyContainer(main, MergeContainerSecurityContext(o.container).out)
          /\ pod.account = account
      BY <2>1 DEF ApplySecurity
    <2>3. pod.main.env = main.env /\ pod.main.ports = main.ports
      BY <1>2, <2>2 DEF ApplyContainer
    <2> QED  BY <1>2, <2>2, <2>3 DEF pod, account
  <1> HIDE DEF d
  <1>5. IsBridge(d, ch, agent, res)
    BY <1>1, <1>3, <1>4 DEF env, IsBridge
  <1> QED  BY <1>5 DEF d

(* The whole environment of a bridge. *)
IsBridgeEnv(env, ch, agent, res) ==
    /\ IsList(env)
    /\ IF agent.mode = "daemon" THEN Sole(env, <<"AGENT_URL">>, Plain(AgentServiceURL(agent)))
         ELSE Nowhere(env, <<"AGENT_URL">>)
    /\ ch.prompt # None => Sole(env, <<"PROMPT_TEMPLATE">>, Plain(ch.prompt))
    /\ IsEventType(ch.type) => \E v : Sole(env, <<"PROMPT_TEMPLATE">>, v)
    /\ IsPollType(ch.type) =>
          \A n \in IdentityNames :
             /\ Nowhere(GitLabIdentity(res), n) => Nowhere(env, n)
             /\ \A v : Sole(GitLabIdentity(res), n, v) => Sole(env, n, v)
    /\ ~IsPollType(ch.type) /\ ch.block[ch.type] # None /\ ch.block[ch.type].secret # None =>
          \E i \in DOMAIN env : env[i].value = <<"secret", ch.block[ch.type].secret>>

LEMMA BridgeEnv ==
    ASSUME NEW ch, NEW agent, NEW res, ch.type \in ChannelType, ValidateChannel(ch)
    PROVE  IsBridgeEnv(BridgeFront(ch, agent) \o BuildChannelPlatformEnv(ch, res), ch, agent, res)
  <1> DEFINE f == BridgeFront(ch, agent)
             p == BuildChannelPlatformEnv(ch, res)
             env == f \o p
             url == Plain(AgentServiceURL(agent))
  <1>1. /\ IsList(f) /\ \A n \in IdentityNames : Nowhere(f, n)
        /\ IF agent.mode = "daemon" THEN Sole(f, <<"AGENT_URL">>, url) ELSE Nowhere(f, <<"AGENT_URL">>)
        /\ IF ch.prompt # None THEN Sole(f, <<"PROMPT_TEMPLATE">>, Plain(ch.prompt))
             ELSE Nowhere(f, <<"PROMPT_TEMPLATE">>)
    BY FrontFacts
  <1>2. IsPollType(ch.type) => PollsAs(p, GitLabIdentity(res), ch.prompt)
    BY PollPlatform DEF ValidateChannel, IsPollType
  <1>3. ~IsPollType(ch.type) =>
          /\ IsList(p) /\ Nowhere(p, <<"AGENT_URL">>) /\ Nowhere(p, <<"PROMPT_TEMPLATE">>)
          /\ ch.block[ch.type] # None /\ ch.block[ch.type].secret # None =>
                \E n : Sole(p, n, <<"secret", ch.block[ch.type].secret>>)
    BY OtherPlatform
  <1>4. env = f \o p
    OBVIOUS
  <1>5. IsEventType(ch.type) /\ ~IsPollType(ch.type) => ch.prompt # None
    BY DEF ValidateChannel
  <1> HIDE DEF f, p, env, url
  <1>6. /\ IsList(p) /\ Nowhere(p, <<"AGENT_URL">>)
        /\ ch.prompt # None => Nowhere(p, <<"PROMPT_TEMPLATE">>)
    BY <1>2, <1>3 DEF PollsAs
  <1>7. IsList(env)
    BY <1>1, <1>4, <1>6, ListConcat
  <1>8. IF agent.mode = "daemon" THEN Sole(env, <<"AGENT_URL">>, url) ELSE Nowhere(env, <<"AGENT_URL">>)
    BY <1>1, <1>4, <1>6, SoleLeft, NowhereConcat
  <1>9. ch.prompt # None => Sole(env, <<"PROMPT_TEMPLATE">>, Plain(ch.prompt))
    BY <1>1, <1>4, <1>6, SoleLeft
  <1>10. ASSUME IsEventType(ch.type) PROVE \E v : Sole(env, <<"PROMPT_TEMPLATE">>, v)
    <2>1. CASE ch.prompt # None
      BY <1>9, <2>1
    <2>2. CASE ch.prompt = None
      <3>1. \E v : Sole(p, <<"PROMPT_TEMPLATE">>, v)
        BY <1>2, <1>5, <1>10, <2>2 DEF PollsAs
      <3> QED  BY <1>1, <1>4, <1>6, <2>2, <3>1, SoleRight
    <2> QED  BY <2>1, <2>2
  <1>11. ASSUME IsPollType(ch.type), NEW n \in IdentityNames
         PROVE  /\ Nowhere(GitLabIdentity(res), n) => Nowhere(env, n)
                /\ \A v : Sole(GitLabIdentity(res), n, v) => Sole(env, n, v)
    <2>1. /\ Nowhere(GitLabIdentity(res), n) => Nowhere(p, n)
          /\ \A v : Sole(GitLabIdentity(res), n, v) => Sole(p, n, v)
      BY <1>2, <1>11 DEF PollsAs
    <2> QED  BY <1>1, <1>4, <1>6, <2>1, NowhereConcat, SoleRight
  <1>12. ASSUME ~IsPollType(ch.type), ch.block[ch.type] # None, ch.block[ch.type].secret # None
         PROVE  \E i \in DOMAIN env : env[i].value = <<"secret", ch.block[ch.type].secret>>
    <2> DEFINE v == <<"secret", ch.block[ch.type].secret>>
    <2>1. PICK n : Sole(p, n, v)
      BY <1>3, <1>12
    <2> HIDE DEF v
    <2>2. PICK i \in DOMAIN p : p[i].value = v
      BY <2>1 DEF Sole
    <2>3. /\ DOMAIN p = 1..Len(p) /\ DOMAIN env = 1..(Len(f) + Len(p))
          /\ Len(f) \in Nat /\ Len(p) \in Nat
          /\ env[Len(f) + i] = p[i]
      BY <1>1, <1>4, <1>6, ListConcat
    <2>4. Len(f) + i \in DOMAIN env
      BY <2>3
    <2> QED  BY <2>2, <2>3, <2>4 DEF v
  <1>13. IsBridgeEnv(env, ch, agent, res)
    BY <1>7, <1>8, <1>9, <1>10, <1>11, <1>12 DEF url, IsBridgeEnv
  <1> QED  BY <1>13 DEF env, f, p

(* Everything that BridgeIsEquipped asks of the bridge and the objects     *)
(* around it, from how they are built.                                     *)
LEMMA BridgeBuilt ==
    ASSUME Handled, kind = "Channel", stage = "done", OnlyOwnBlock(item.channel)
    PROVE  BridgeIsEquipped
  <1> DEFINE ch == item.channel
             agent == item.agent
             own == ch.block[ch.type]
             ref == IntegrationRef(ch)
             res == IF ref = None THEN None ELSE item.integrations[ref]
             b == res.block[res.kind]
             d == out.deployment
             env == d.pod.main.env
             prompts == {i \in DOMAIN env : env[i].name = <<"PROMPT_TEMPLATE">>}
  <1>1. /\ item \in Channels /\ ValidateChannel(ch)
        /\ d = BuildChannelDeployment(ch, agent, res)
        /\ out.service = BuildChannelService(ch)
        /\ out.ingress = BuildChannelIngress(ch)
        /\ out.rbac = BuildChannelRBAC(ch)
    BY DEF Handled, ChannelHandled, Admitted
  <1>2. IsPollType(ch.type) => ref \in DOMAIN item.integrations
    BY DEF Handled, ChannelHandled
  <1>3. /\ ch.type \in ChannelType /\ ch.security \in SecurityOverrides
        /\ \A n \in DOMAIN item.integrations : IsIntegration(item.integrations[n])
    BY <1>1, InputAssumption DEF InputAssumption, IsChannel
  <1> HIDE DEF ch, agent, res, ref, d
  <1>4. /\ env = BridgeFront(ch, agent) \o BuildChannelPlatformEnv(ch, res)
        /\ d.pod.main.ports = {BridgePort}
        /\ d.pod.account = ChannelServiceAccountName(ch)
        /\ d.pod.automount <=> \/ ch.security.automount = TRUE
                               \/ agent.mode = "task" /\ ch.security.automount # FALSE
        /\ d.labels = {<<"component", "channel">>, <<"managed-by", "agentops">>, <<"app", ch.name>>}
        /\ d.selector = {<<"app", ch.name>>}
    <2>1. IsBridge(d, ch, agent, res)
      BY <1>1, <1>3, DeploymentFacts
    <2> QED  BY <2>1 DEF IsBridge
  <1>5. \A n : Env(n) = EnvValue(env, <<n>>)
    <2>1. RenderedPods = {d.pod}
      BY DEF RenderedPods, d
    <2>2. (CHOOSE pod \in RenderedPods : TRUE) = d.pod
      BY <2>1
    <2> QED  BY <2>2 DEF Env
  <1>6. /\ IsList(env)
        /\ IF agent.mode = "daemon" THEN Sole(env, <<"AGENT_URL">>, Plain(AgentServiceURL(agent)))
             ELSE Nowhere(env, <<"AGENT_URL">>)
        /\ ch.prompt # None => Sole(env, <<"PROMPT_TEMPLATE">>, Plain(ch.prompt))
        /\ IsEventType(ch.type) => \E v : Sole(env, <<"PROMPT_TEMPLATE">>, v)
        /\ IsPollType(ch.type) =>
              \A n \in IdentityNames :
                 /\ Nowhere(GitLabIdentity(res), n) => Nowhere(env, n)
                 /\ \A v : Sole(GitLabIdentity(res), n, v) => Sole(env, n, v)
        /\ ~IsPollType(ch.type) /\ own # None /\ own.secret # None =>
              \E i \in DOMAIN env : env[i].value = <<"secret", own.secret>>
    <2>1. IsBridgeEnv(env, ch, agent, res)
      BY <1>1, <1>3, <1>4, BridgeEnv
    <2> HIDE DEF env
    <2> QED  BY <2>1 DEF IsBridgeEnv
  <1> HIDE DEF env
  <1>7. ASSUME IsPollType(ch.type), res.kind \in {"gitlab-project", "gitlab-group"}, ValidateIntegration(res)
        PROVE  /\ Env("GITLAB_BASE_URL") = Plain(b.baseURL)
               /\ Env("GITLAB_PROJECT") = IF res.kind = "gitlab-project" THEN Plain(b.project) ELSE None
               /\ Env("GITLAB_GROUP") = IF res.kind = "gitlab-group" THEN Plain(b.group) ELSE None
               /\ res.credentials # None => Env("GITLAB_TOKEN") = <<"secret", res.credentials>>
    <2> DEFINE id == GitLabIdentity(res)
    <2>1. IsIntegration(res)
      <3>1. ref # None
        BY <1>1, <1>7, OwnIntegrationRef DEF ref, ch
      <3> QED  BY <1>2, <1>3, <1>7, <3>1 DEF res
    <2>2. /\ Sole(id, <<"GITLAB_BASE_URL">>, Plain(b.baseURL))
          /\ IF res.kind = "gitlab-project"
               THEN Sole(id, <<"GITLAB_PROJECT">>, Plain(b.project)) /\ Nowhere(id, <<"GITLAB_GROUP">>)
               ELSE Sole(id, <<"GITLAB_GROUP">>, Plain(b.group)) /\ Nowhere(id, <<"GITLAB_PROJECT">>)
          /\ res.credentials # None => Sole(id, <<"GITLAB_TOKEN">>, <<"secret", res.credentials>>)
      BY <1>7, <2>1, IdentityOf
    <2>3. \A n \in IdentityNames : /\ Nowhere(id, n) => Nowhere(env, n)
                                   /\ \A v : Sole(id, n, v) => Sole(env, n, v)
      BY <1>6, <1>7
    <2> HIDE DEF id, b
    <2>4. /\ <<"GITLAB_BASE_URL">> \in IdentityNames /\ <<"GITLAB_PROJECT">> \in IdentityNames
          /\ <<"GITLAB_GROUP">> \in IdentityNames /\ <<"GITLAB_TOKEN">> \in IdentityNames
      BY DEF IdentityNames
    <2>5. /\ Sole(env, <<"GITLAB_BASE_URL">>, Plain(b.baseURL))
          /\ IF res.kind = "gitlab-project"
               THEN Sole(env, <<"GITLAB_PROJECT">>, Plain(b.project)) /\ Nowhere(env, <<"GITLAB_GROUP">>)
               ELSE Sole(env, <<"GITLAB_GROUP">>, Plain(b.group)) /\ Nowhere(env, <<"GITLAB_PROJECT">>)
          /\ res.credentials # None => Sole(env, <<"GITLAB_TOKEN">>, <<"secret", res.credentials>>)
      BY <2>2, <2>3, <2>4
    <2>6. Env("GITLAB_BASE_URL") = Plain(b.baseURL)
      BY <1>5, <1>6, <2>5, SoleValue
    <2>7. Env("GITLAB_PROJECT") = IF res.kind = "gitlab-project" THEN Plain(b.project) ELSE None
      BY <1>5, <1>6, <2>5, SoleValue, NoValue
    <2>8. Env("GITLAB_GROUP") = IF res.kind = "gitlab-group" THEN Plain(b.group) ELSE None
      BY <1>5, <1>6, <1>7, <2>5, SoleValue, NoValue
    <2>9. res.credentials # None => Env("GITLAB_TOKEN") = <<"secret", res.credentials>>
      BY <1>5, <1>6, <2>5, SoleValue
    <2> QED  BY <2>6, <2>7, <2>8, <2>9
  <1>8. IsPollType(ch.type) => item.integrations[own.integrationRef] = res
    BY <1>1, OwnIntegrationRef DEF res, ref, ch
  <1>9. ~IsPollType(ch.type) /\ own # None /\ own.secret # None =>
          \E v \in Range(env) : v.value = <<"secret", own.secret>>
    BY <1>6 DEF Range
  <1>10. ASSUME IsEventType(ch.type) PROVE Cardinality(prompts) = 1
    <2>1. PICK i \in DOMAIN env : \A j \in DOMAIN env : env[j].name = <<"PROMPT_TEMPLATE">> <=> j = i
      BY <1>6, <1>10 DEF Sole
    <2>2. prompts = {i}
      BY <2>1
    <2> QED  BY <2>2, FS_Singleton
  <1>11. /\ ch.prompt # None => Env("PROMPT_TEMPLATE") = Plain(ch.prompt)
         /\ Env("AGENT_URL") = IF agent.mode = "daemon" THEN Plain(AgentServiceURL(agent)) ELSE None
    BY <1>5, <1>6, SoleValue, NoValue
  <1>12. Serves(out.service, d)
    BY <1>1, <1>4 DEF Serves, BuildChannelService
  <1>13. out.ingress # None => out.ingress.backend = <<out.service.name, out.service.port>>
    BY <1>1 DEF BuildChannelIngress, BuildChannelService
  <1>14. May(out.rbac, d.pod, <<"create", "agentruns">>)
    BY <1>1, <1>4 DEF May, BuildChannelRBAC
  <1> QED
    BY <1>4, <1>7, <1>8, <1>9, <1>10, <1>11, <1>12, <1>13, <1>14 DEF BridgeIsEquipped, env, d, ch, agent

(* A bridge always has what its platform needs and the objects around it   *)
(* lead to it, for any Channel, Agent and Integration (channel.go,         *)
(* service.go, rbac.go).                                                   *)
THEOREM BridgeAlwaysEquipped == Spec => []BridgeIsEquipped
  <1>1. Handled => BridgeIsEquipped
    BY BridgeBuilt DEF BridgeIsEquipped
  <1> QED  BY <1>1, HandledInvariant, PTL

-----------------------------------------------------------------------------
(* A set of naturals has a least element: with it, what holds for a        *)
(* natural number if it holds for the one before holds for all.            *)
LEMMA LeastNat ==
    ASSUME NEW T \in SUBSET Nat, T # {}
    PROVE  \E m \in T : \A n \in T : m <= n
  <1> DEFINE R == {p \in Nat \X Nat : p[1] < p[2]}
  <1>1. IsWellFoundedOn(R, Nat)
    BY NatLessThanWellFounded DEF OpToRel
  <1> HIDE DEF R
  <1>2. PICK m \in T : \A n \in T : ~ (<<n, m>> \in R)
    BY <1>1, WFMin, Zenon
  <1>3. \A n \in T : ~ (n < m)
    BY <1>2 DEF R
  <1> QED  BY <1>3

(* The recursive function of FlattenSeq. *)
Flattens(f, seqs) ==
    f = [i \in 1..Len(seqs) |-> IF i = 1 THEN seqs[i] ELSE f[i-1] \o seqs[i]]

LEMMA FlattenExists ==
    ASSUME NEW S, NEW seqs \in Seq(Seq(S)), Len(seqs) # 0
    PROVE  \E f : Flattens(f, seqs)
  <1> DEFINE n == Len(seqs)
             P(m) == \E f \in [1..m -> Seq(S)] :
                        \A i \in 1..m : f[i] = IF i = 1 THEN seqs[i] ELSE f[i-1] \o seqs[i]
             T == {m \in 1..n : ~ P(m)}
  <1>1. n \in Nat /\ n >= 1 /\ \A i \in 1..n : seqs[i] \in Seq(S)
    OBVIOUS
  <1>2. P(1)
    <2> DEFINE f == [i \in 1..1 |-> seqs[1]]
    <2>1. f \in [1..1 -> Seq(S)]
      BY <1>1
    <2>2. \A i \in 1..1 : i = 1 /\ f[i] = seqs[i]
      OBVIOUS
    <2> HIDE DEF f
    <2> QED  BY <2>1, <2>2
  <1>3. ASSUME NEW m \in 1..n, m # n, P(m) PROVE P(m + 1)
    <2>1. PICK f \in [1..m -> Seq(S)] :
             \A i \in 1..m : f[i] = IF i = 1 THEN seqs[i] ELSE f[i-1] \o seqs[i]
      BY <1>3
    <2> DEFINE h == [i \in 1..m+1 |-> IF i <= m THEN f[i] ELSE f[m] \o seqs[m+1]]
    <2>2. f[m] \o seqs[m+1] \in Seq(S)
      <3>1. f[m] \in Seq(S) /\ seqs[m+1] \in Seq(S)
        BY <1>1, <1>3
      <3> QED  BY <3>1
    <2>3. h \in [1..m+1 -> Seq(S)]
      BY <2>1, <2>2
    <2>4. ASSUME NEW i \in 1..m+1
          PROVE  h[i] = IF i = 1 THEN seqs[i] ELSE h[i-1] \o seqs[i]
      <3>1. m \in Nat /\ m >= 1 /\ i \in Nat /\ i >= 1 /\ i <= m + 1
        BY <1>1, <1>3, <2>4
      <3>2. CASE i <= m
        <4>1. i \in 1..m /\ h[i] = f[i]
          BY <3>1, <3>2
        <4>2. i # 1 => i - 1 \in 1..m+1 /\ i - 1 <= m
          BY <3>1, <3>2
        <4>3. i # 1 => h[i - 1] = f[i - 1]
          BY <4>2
        <4> HIDE DEF h
        <4> QED  BY <2>1, <4>1, <4>3
      <3>3. CASE i = m + 1
        <4>1. i # 1 /\ i - 1 = m /\ ~(i <= m) /\ m \in 1..m+1 /\ m <= m
          BY <3>1, <3>3
        <4>2. h[i] = f[m] \o seqs[i] /\ h[m] = f[m]
          BY <3>3, <4>1
        <4> HIDE DEF h
        <4> QED  BY <4>1, <4>2
      <3>4. i <= m \/ i = m + 1
        BY <3>1
      <3> QED  BY <3>2, <3>3, <3>4
    <2> HIDE DEF h
    <2> QED  BY <2>3, <2>4
  <1>4. T = {}
    <2> SUFFICES ASSUME T # {} PROVE FALSE
      OBVIOUS
    <2>1. T \in SUBSET Nat
      BY <1>1
    <2>2. PICK m \in T : \A k \in T : m <= k
      BY <2>1, LeastNat
    <2> HIDE DEF P
    <2>3. m \in 1..n /\ ~ P(m) /\ m # 1
      BY <1>2, <2>2
    <2>4. m - 1 \in 1..n /\ m - 1 # n /\ m - 1 \notin T /\ (m - 1) + 1 = m
      BY <1>1, <2>2, <2>3
    <2>5. P(m - 1)
      BY <2>4
    <2>6. P((m - 1) + 1)
      BY <1>3, <2>4, <2>5
    <2> QED  BY <2>3, <2>4, <2>6
  <1>5. P(n)
    <2> HIDE DEF P
    <2> QED  BY <1>1, <1>4
  <1>6. PICK f \in [1..n -> Seq(S)] :
           \A i \in 1..n : f[i] = IF i = 1 THEN seqs[i] ELSE f[i-1] \o seqs[i]
    BY <1>5
  <1> QED  BY <1>6 DEF Flattens

LEMMA FlattenedIn ==
    ASSUME NEW S, NEW seqs \in Seq(Seq(S)), NEW f, Flattens(f, seqs)
    PROVE  \A i \in 1..Len(seqs) : f[i] \in Seq(S)
  <1> DEFINE T == {m \in 1..Len(seqs) : f[m] \notin Seq(S)}
  <1>1. Len(seqs) \in Nat /\ \A i \in 1..Len(seqs) : seqs[i] \in Seq(S)
    OBVIOUS
  <1>2. \A i \in 1..Len(seqs) : f[i] = IF i = 1 THEN seqs[i] ELSE f[i-1] \o seqs[i]
    BY DEF Flattens
  <1>3. T = {}
    <2> SUFFICES ASSUME T # {} PROVE FALSE
      OBVIOUS
    <2>1. T \in SUBSET Nat
      BY <1>1
    <2>2. PICK m \in T : \A k \in T : m <= k
      BY <2>1, LeastNat
    <2>3. m # 1
      BY <1>1, <1>2, <2>2
    <2>4. f[m - 1] \in Seq(S)
      BY <1>1, <2>2, <2>3
    <2>5. f[m] = f[m - 1] \o seqs[m]
      BY <1>2, <2>2, <2>3
    <2>6. f[m - 1] \o seqs[m] \in Seq(S)
      BY <1>1, <2>2, <2>4
    <2> QED  BY <2>2, <2>5, <2>6
  <1> QED  BY <1>3

LEMMA FlattenType ==
    ASSUME NEW S, NEW seqs \in Seq(Seq(S))
    PROVE  FlattenSeq(seqs) \in Seq(S)
  <1>1. CASE Len(seqs) = 0
    BY <1>1 DEF FlattenSeq
  <1>2. CASE Len(seqs) # 0
    <2> DEFINE g == CHOOSE f : Flattens(f, seqs)
    <2>1. Flattens(g, seqs)
      BY <1>2, FlattenExists
    <2>2. FlattenSeq(seqs) = g[Len(seqs)]
      BY <1>2 DEF FlattenSeq, Flattens
    <2> HIDE DEF g
    <2>3. Len(seqs) \in 1..Len(seqs)
      BY <1>2
    <2> QED  BY <2>1, <2>2, <2>3, FlattenedIn
  <1> QED  BY <1>1, <1>2

LEMMA SetToSeqType ==
    ASSUME NEW S, IsFiniteSet(S)
    PROVE  SetToSeq(S) \in Seq(S)
  <1>1. /\ Cardinality(S) \in Nat
        /\ ExistsBijection(1..Cardinality(S), S)
    BY FS_CardinalityType
  <1>2. \E f \in [1..Cardinality(S) -> S] : IsInjective(f)
    BY <1>1 DEF ExistsBijection, Bijection, Injection, IsInjective
  <1>3. SetToSeq(S) \in [1..Cardinality(S) -> S]
    BY <1>2 DEF SetToSeq
  <1> QED  BY <1>1, <1>3

-----------------------------------------------------------------------------

LEMMA MapList ==
    ASSUME NEW s, IsList(s), NEW t, t = [i \in DOMAIN s |-> t[i]]
    PROVE  IsList(t)
  <1>1. Len(s) \in Nat /\ DOMAIN s = 1..Len(s)
    BY LenProperties DEF IsList
  <1>2. t = [i \in 1..Len(s) |-> t[i]]
    BY <1>1
  <1>3. \A i \in 1..Len(s) : t[i] \in Range(t)
    BY <1>2 DEF Range
  <1>4. t \in [1..Len(s) -> Range(t)]
    BY <1>2, <1>3
  <1> QED  BY <1>1, <1>4, SeqDef DEF IsList

(* A list of lists, one after the other. *)
IsFlat(flat, seqs) ==
    /\ IsList(flat)
    /\ \A j \in DOMAIN flat : \E i \in DOMAIN seqs : \E k \in DOMAIN seqs[i] : flat[j] = seqs[i][k]

LEMMA FlattenList ==
    ASSUME NEW seqs, IsList(seqs), \A i \in DOMAIN seqs : IsList(seqs[i])
    PROVE  IsFlat(FlattenSeq(seqs), seqs)
  <1> DEFINE flat == FlattenSeq(seqs)
             S == UNION {Range(seqs[i]) : i \in DOMAIN seqs}
  <1>1. \A i \in DOMAIN seqs : Range(seqs[i]) \subseteq S
    OBVIOUS
  <1>2. \A x \in S : \E i \in DOMAIN seqs : \E k \in DOMAIN seqs[i] : x = seqs[i][k]
    BY DEF Range
  <1> HIDE DEF S
  <1>3. \A i \in DOMAIN seqs : seqs[i] \in Seq(S)
    BY <1>1, SeqMonotonic DEF IsList
  <1>4. seqs \in Seq(Seq(S))
    <2>1. Len(seqs) \in Nat /\ DOMAIN seqs = 1..Len(seqs) /\ seqs \in [1..Len(seqs) -> Range(seqs)]
      BY LenProperties DEF IsList
    <2>2. seqs \in [1..Len(seqs) -> Seq(S)]
      BY <1>3, <2>1
    <2> QED  BY <2>1, <2>2, SeqDef
  <1>5. flat \in Seq(S)
    BY <1>4, FlattenType
  <1> HIDE DEF flat
  <1>6. IsList(flat)
    BY <1>5, SeqOfRange DEF IsList
  <1>7. \A j \in DOMAIN flat : flat[j] \in S
    BY <1>5, ElementOfSeq, LenProperties
  <1>8. IsFlat(flat, seqs)
    BY <1>2, <1>6, <1>7 DEF IsFlat
  <1> QED  BY <1>8 DEF flat

-----------------------------------------------------------------------------
(* The environment of an agent's container, up to its git identity. *)
AgentFront(a, providers) ==
    << EnvVar(<<"AGENT_NAME">>, a.name), EnvVar(<<"AGENT_MODE">>, a.mode) >>
    \o SetToSeq({EnvVar(k, a.env[k]) : k \in DOMAIN a.env})
    \o FlattenSeq([i \in DOMAIN a.tools |->
           [j \in DOMAIN a.tools[i].env |-> EnvVar(a.tools[i].env[j].name, a.tools[i].env[j].value)]])
    \o [i \in DOMAIN a.secrets |-> SecretEnvVar(a.secrets[i].name, a.secrets[i].secret)]
    \o FlattenSeq([i \in DOMAIN providers |-> ProviderEnv(providers[i])])

(* The user's own variables. *)
LEMMA EnvList ==
    ASSUME NEW a, IsFiniteSet(DOMAIN a.env),
           NEW s, s = SetToSeq({EnvVar(k, a.env[k]) : k \in DOMAIN a.env})
    PROVE  IsList(s) /\ \A i \in DOMAIN s : s[i].name \in DOMAIN a.env
  <1> DEFINE D == DOMAIN a.env
             f == [k \in D |-> EnvVar(k, a.env[k])]
             T == {EnvVar(k, a.env[k]) : k \in D}
  <1>1. f \in Surjection(D, T)
    BY DEF Surjection
  <1>2. \A e \in T : e.name \in D
    BY EntryFacts
  <1>3. s = SetToSeq(T) /\ IsFiniteSet(D)
    OBVIOUS
  <1> HIDE DEF T, f, D
  <1>4. IsFiniteSet(T)
    BY <1>1, <1>3, FS_Surjection
  <1>5. s \in Seq(T)
    BY <1>3, <1>4, SetToSeqType
  <1>6. \A i \in DOMAIN s : s[i] \in T
    BY <1>5, ElementOfSeq, LenProperties
  <1>7. IsList(s)
    BY <1>5, SeqOfRange DEF IsList
  <1> QED  BY <1>2, <1>6, <1>7 DEF D

(* Those of the tools. *)
LEMMA ToolEnvList ==
    ASSUME NEW a, IsList(a.tools), \A i \in DOMAIN a.tools : IsList(a.tools[i].env),
           NEW s, s = FlattenSeq([i \in DOMAIN a.tools |->
                         [j \in DOMAIN a.tools[i].env |->
                            EnvVar(a.tools[i].env[j].name, a.tools[i].env[j].value)]])
    PROVE  IsList(s) /\ \A i \in DOMAIN s : s[i].name \in UserVariables(a)
  <1> DEFINE t == [i \in DOMAIN a.tools |->
                     [j \in DOMAIN a.tools[i].env |->
                        EnvVar(a.tools[i].env[j].name, a.tools[i].env[j].value)]]
  <1>1. /\ t = [i \in DOMAIN a.tools |-> t[i]]
        /\ DOMAIN t = DOMAIN a.tools
    OBVIOUS
  <1>2. ASSUME NEW i \in DOMAIN a.tools
        PROVE  /\ IsList(t[i]) /\ DOMAIN t[i] = DOMAIN a.tools[i].env
               /\ \A j \in DOMAIN a.tools[i].env : t[i][j].name = a.tools[i].env[j].name
    <2> DEFINE u == t[i]
    <2>1. u = [j \in DOMAIN a.tools[i].env |-> u[j]]
      OBVIOUS
    <2>2. DOMAIN u = DOMAIN a.tools[i].env
      OBVIOUS
    <2>3. \A j \in DOMAIN a.tools[i].env : u[j].name = a.tools[i].env[j].name
      BY EntryFacts
    <2> HIDE DEF u
    <2>4. IsList(u)
      BY <2>1, MapList
    <2> QED  BY <2>2, <2>3, <2>4 DEF u
  <1>3. s = FlattenSeq(t)
    OBVIOUS
  <1> HIDE DEF t
  <1>4. IsList(t)
    BY <1>1, MapList
  <1>5. /\ IsList(s)
        /\ \A n \in DOMAIN s : \E i \in DOMAIN t : \E k \in DOMAIN t[i] : s[n] = t[i][k]
    <2>1. \A i \in DOMAIN t : IsList(t[i])
      BY <1>1, <1>2
    <2>2. IsFlat(s, t)
      BY <1>3, <1>4, <2>1, FlattenList
    <2> QED  BY <2>2 DEF IsFlat
  <1>6. \A i \in DOMAIN a.tools : \A j \in DOMAIN a.tools[i].env : a.tools[i].env[j].name \in UserVariables(a)
    BY DEF UserVariables
  <1>7. ASSUME NEW n \in DOMAIN s PROVE s[n].name \in UserVariables(a)
    <2>1. PICK i \in DOMAIN t : \E k \in DOMAIN t[i] : s[n] = t[i][k]
      BY <1>5
    <2>2. PICK k \in DOMAIN t[i] : s[n] = t[i][k]
      BY <2>1
    <2>3. i \in DOMAIN a.tools /\ k \in DOMAIN a.tools[i].env /\ t[i][k].name = a.tools[i].env[k].name
      BY <1>1, <1>2
    <2> QED  BY <1>6, <2>2, <2>3
  <1> QED  BY <1>5, <1>7

(* The user's secrets. *)
LEMMA SecretEnvList ==
    ASSUME NEW a, IsList(a.secrets),
           NEW s, s = [i \in DOMAIN a.secrets |-> SecretEnvVar(a.secrets[i].name, a.secrets[i].secret)]
    PROVE  IsList(s) /\ \A i \in DOMAIN s : s[i].name \in UserVariables(a)
  <1>1. IsList(s)
    BY MapList
  <1>2. \A i \in DOMAIN s : s[i].name = a.secrets[i].name /\ i \in DOMAIN a.secrets
    BY EntryFacts
  <1> QED  BY <1>1, <1>2 DEF UserVariables

(* The names of the variables with a provider's credentials. *)
Credential(n) == Len(n) = 2

(* The providers' credentials. *)
LEMMA ProviderEnvFacts ==
    ASSUME NEW p
    PROVE  /\ IsList(ProviderEnv(p))
           /\ \A n : ~Credential(n) => Nowhere(ProviderEnv(p), n)
  <1> DEFINE k == When(p.apiKey # None, << SecretEnvVar(ProviderEnvVarName(p.name), p.apiKey) >>)
             o == When(p.oauth2 # None, << SecretEnvVar(OAuth2ClientIDEnvVar(p.name), p.oauth2.id),
                                           SecretEnvVar(OAuth2ClientSecretEnvVar(p.name), p.oauth2.secret) >>)
  <1>1. ProviderEnv(p) = k \o o
    BY DEF ProviderEnv
  <1>2. IsList(k) /\ IsList(o)
    BY OneEntry, TwoEntriesFacts, EmptyList DEF When
  <1>3. /\ Credential(ProviderEnvVarName(p.name))
        /\ Credential(OAuth2ClientIDEnvVar(p.name)) /\ Credential(OAuth2ClientSecretEnvVar(p.name))
    BY DEF Credential, ProviderEnvVarName, OAuth2ClientIDEnvVar, OAuth2ClientSecretEnvVar
  <1>4. ASSUME NEW n, ~Credential(n) PROVE Nowhere(k, n) /\ Nowhere(o, n)
    <2>1. /\ n # ProviderEnvVarName(p.name) /\ n # OAuth2ClientIDEnvVar(p.name)
          /\ n # OAuth2ClientSecretEnvVar(p.name)
      BY <1>3, <1>4
    <2>2. Nowhere(k, n)
      BY <2>1, EntryFacts, OneEntry, EmptyList DEF When
    <2>3. Nowhere(o, n)
      BY <2>1, EntryFacts, TwoEntriesFacts, EmptyList DEF When
    <2> QED  BY <2>2, <2>3
  <1> HIDE DEF k, o
  <1> QED  BY <1>1, <1>2, <1>4, ListConcat, NowhereConcat

LEMMA ProvidersEnvList ==
    ASSUME NEW providers, IsList(providers),
           NEW s, s = FlattenSeq([i \in DOMAIN providers |-> ProviderEnv(providers[i])])
    PROVE  IsList(s) /\ \A n : ~Credential(n) => Nowhere(s, n)
  <1> DEFINE t == [i \in DOMAIN providers |-> ProviderEnv(providers[i])]
  <1>1. /\ t = [i \in DOMAIN providers |-> t[i]] /\ DOMAIN t = DOMAIN providers
        /\ s = FlattenSeq(t)
    OBVIOUS
  <1>2. \A i \in DOMAIN t : IsList(t[i]) /\ \A n : ~Credential(n) => Nowhere(t[i], n)
    BY ProviderEnvFacts
  <1> HIDE DEF t
  <1>3. IsList(t)
    BY <1>1, MapList
  <1>4. /\ IsList(s)
        /\ \A j \in DOMAIN s : \E i \in DOMAIN t : \E k \in DOMAIN t[i] : s[j] = t[i][k]
    <2>1. IsFlat(s, t)
      BY <1>1, <1>2, <1>3, FlattenList
    <2> QED  BY <2>1 DEF IsFlat
  <1> QED  BY <1>2, <1>4 DEF Nowhere

(* The whole front: besides the user's variables, it only holds the name   *)
(* and the mode of the agent and credentials.                              *)
LEMMA AgentFrontFacts ==
    ASSUME NEW a, IsAgent(a), NEW providers, IsList(providers),
           NEW f, f = AgentFront(a, providers)
    PROVE  /\ IsList(f)
           /\ \A n : /\ n # <<"AGENT_NAME">> /\ n # <<"AGENT_MODE">>
                     /\ n \notin UserVariables(a) /\ ~Credential(n)
                     => Nowhere(f, n)
           /\ \A n, v : LastIs(FlattenSeq([i \in DOMAIN providers |-> ProviderEnv(providers[i])]), n, v)
                       => LastIs(f, n, v)
  <1> DEFINE h == << EnvVar(<<"AGENT_NAME">>, a.name), EnvVar(<<"AGENT_MODE">>, a.mode) >>
             e == SetToSeq({EnvVar(k, a.env[k]) : k \in DOMAIN a.env})
             t == FlattenSeq([i \in DOMAIN a.tools |->
                     [j \in DOMAIN a.tools[i].env |-> EnvVar(a.tools[i].env[j].name, a.tools[i].env[j].value)]])
             s == [i \in DOMAIN a.secrets |-> SecretEnvVar(a.secrets[i].name, a.secrets[i].secret)]
             p == FlattenSeq([i \in DOMAIN providers |-> ProviderEnv(providers[i])])
             V == UserVariables(a)
  <1>1. f = (((h \o e) \o t) \o s) \o p
    BY DEF AgentFront
  <1>2. IsList(h) /\ \A n : n # <<"AGENT_NAME">> /\ n # <<"AGENT_MODE">> => Nowhere(h, n)
    BY EntryFacts, TwoEntriesFacts
  <1>3. IsList(e) /\ \A i \in DOMAIN e : e[i].name \in V
    <2>1. IsList(e) /\ \A i \in DOMAIN e : e[i].name \in DOMAIN a.env
      BY EnvList DEF IsAgent
    <2> HIDE DEF e
    <2> QED  BY <2>1 DEF UserVariables
  <1>4. IsList(t) /\ \A i \in DOMAIN t : t[i].name \in V
    BY ToolEnvList DEF IsAgent
  <1>5. IsList(s) /\ \A i \in DOMAIN s : s[i].name \in V
    BY SecretEnvList DEF IsAgent
  <1>6. IsList(p) /\ \A n : ~Credential(n) => Nowhere(p, n)
    BY ProvidersEnvList
  <1> HIDE DEF h, e, t, s, p
  <1>7. IsList(h \o e) /\ IsList((h \o e) \o t) /\ IsList(((h \o e) \o t) \o s) /\ IsList(f)
    BY <1>1, <1>2, <1>3, <1>4, <1>5, <1>6, ListConcat
  <1>8. ASSUME NEW n, n # <<"AGENT_NAME">>, n # <<"AGENT_MODE">>, n \notin V, ~Credential(n)
        PROVE  Nowhere(f, n)
    <2>1. Nowhere(h, n) /\ Nowhere(e, n) /\ Nowhere(t, n) /\ Nowhere(s, n) /\ Nowhere(p, n)
      BY <1>2, <1>3, <1>4, <1>5, <1>6, <1>8 DEF Nowhere
    <2>2. Nowhere(h \o e, n)
      BY <1>2, <1>3, <2>1, NowhereConcat
    <2>3. Nowhere((h \o e) \o t, n)
      BY <1>4, <1>7, <2>1, <2>2, NowhereConcat
    <2>4. Nowhere(((h \o e) \o t) \o s, n)
      BY <1>5, <1>7, <2>1, <2>3, NowhereConcat
    <2> QED  BY <1>1, <1>6, <1>7, <2>1, <2>4, NowhereConcat
  <1>9. \A n, v : LastIs(p, n, v) => LastIs(f, n, v)
    BY <1>1, <1>6, <1>7, LastRight
  <1> QED  BY <1>7, <1>8, <1>9 DEF p

-----------------------------------------------------------------------------
(* The git identity of a run. *)

LEMMA FourEntries ==
    ASSUME NEW c, NEW d, NEW e, NEW f
    PROVE  << c, d, e, f >> = << c, d, e >> \o << f >>
  <1> DEFINE S == {c, d, e, f}
             t == << c, d, e >> \o << f >>
  <1>1. << c, d, e, f >> \in Seq(S) /\ << c, d, e >> \in Seq(S) /\ << f >> \in Seq(S)
    OBVIOUS
  <1>2. t \in Seq(S) /\ Len(t) = 4 /\ t[1] = c /\ t[2] = d /\ t[3] = e /\ t[4] = f
    OBVIOUS
  <1> HIDE DEF t, S
  <1>3. << c, d, e, f >> = t
    BY <1>1, <1>2
  <1> QED  BY <1>3 DEF t

(* What the properties ask of the variables that GitEnvVars returns. *)
IsGitEnv(env, g) ==
    /\ IsList(env)
    /\ LastIs(env, <<"GIT_PROVIDER">>, Plain(g.provider))
    /\ LastIs(env, <<"GIT_REPO_URL">>, Plain(g.cloneURL))
    /\ LastIs(env, <<"GIT_BASE_BRANCH">>, Plain(g.baseBranch))
    /\ g.provider = "gitlab" =>
          /\ LastIs(env, <<"GIT_PROJECT">>, Plain(g.cloneURL[2]))
          /\ LastIs(env, <<"GITLAB_URL">>, Plain(g.cloneURL[1]))
          /\ LastIs(env, <<"GITLAB_PROJECT">>, Plain(g.cloneURL[2]))
    /\ g.credentials # None =>
          /\ LastIs(env, <<"GIT_TOKEN">>, <<"secret", g.credentials>>)
          /\ g.provider = "gitlab" => LastIs(env, <<"GITLAB_TOKEN">>, <<"secret", g.credentials>>)
          /\ g.provider = "github" => LastIs(env, <<"GH_TOKEN">>, <<"secret", g.credentials>>)

HeadNames == {<<"GIT_PROVIDER">>, <<"GIT_REPO_URL">>, <<"GIT_BASE_BRANCH">>}
ProjectNames == {<<"GIT_PROJECT">>, <<"GITLAB_URL">>, <<"GITLAB_PROJECT">>}

LEMMA GitHead ==
    ASSUME NEW provider, NEW url, NEW branch, NEW base,
           NEW h, h = << EnvVar(<<"GIT_PROVIDER">>, provider), EnvVar(<<"GIT_REPO_URL">>, url),
                         EnvVar(<<"GIT_BRANCH">>, branch), EnvVar(<<"GIT_BASE_BRANCH">>, base) >>
    PROVE  /\ IsList(h)
           /\ LastIs(h, <<"GIT_PROVIDER">>, Plain(provider))
           /\ LastIs(h, <<"GIT_REPO_URL">>, Plain(url))
           /\ LastIs(h, <<"GIT_BASE_BRANCH">>, Plain(base))
  <1> DEFINE s == << EnvVar(<<"GIT_PROVIDER">>, provider), EnvVar(<<"GIT_REPO_URL">>, url),
                     EnvVar(<<"GIT_BRANCH">>, branch) >>
             t == << EnvVar(<<"GIT_BASE_BRANCH">>, base) >>
  <1>1. h = s \o t
    BY FourEntries
  <1>2. /\ IsList(s) /\ Sole(s, <<"GIT_PROVIDER">>, Plain(provider))
        /\ Sole(s, <<"GIT_REPO_URL">>, Plain(url))
    BY EntryFacts, ThreeEntriesFacts DEF Plain
  <1>3. /\ IsList(t) /\ Sole(t, <<"GIT_BASE_BRANCH">>, Plain(base))
        /\ Nowhere(t, <<"GIT_PROVIDER">>) /\ Nowhere(t, <<"GIT_REPO_URL">>)
    BY EntryFacts, OneEntry DEF Plain
  <1> HIDE DEF s, t
  <1> QED  BY <1>1, <1>2, <1>3, ListConcat, SoleIsLast, LastLeft, LastRight

LEMMA GitHub ==
    ASSUME NEW g, NEW owner, NEW repo,
           NEW s, s = IF g.provider = "github"
                        THEN << EnvVar(<<"GIT_OWNER">>, owner), EnvVar(<<"GIT_REPO">>, repo) >>
                             \o (IF g.github.apiURL # None THEN << EnvVar(<<"GITHUB_API_URL">>, g.github.apiURL) >> ELSE << >>)
                        ELSE << >>
    PROVE  IsList(s) /\ \A n \in HeadNames : Nowhere(s, n)
  <1> DEFINE t == << EnvVar(<<"GIT_OWNER">>, owner), EnvVar(<<"GIT_REPO">>, repo) >>
             u == IF g.github.apiURL # None THEN << EnvVar(<<"GITHUB_API_URL">>, g.github.apiURL) >> ELSE << >>
  <1>1. s = IF g.provider = "github" THEN t \o u ELSE << >>
    OBVIOUS
  <1>2. \A n \in HeadNames : n # <<"GIT_OWNER">> /\ n # <<"GIT_REPO">> /\ n # <<"GITHUB_API_URL">>
    BY DEF HeadNames
  <1>3. IsList(t) /\ \A n \in HeadNames : Nowhere(t, n)
    <2> DEFINE d == EnvVar(<<"GIT_OWNER">>, owner)
               e == EnvVar(<<"GIT_REPO">>, repo)
    <2>1. \A n \in HeadNames : d.name # n /\ e.name # n
      BY <1>2, EntryFacts
    <2> HIDE DEF d, e
    <2>2. IsList(<< d, e >>) /\ \A n \in HeadNames : Nowhere(<< d, e >>, n)
      BY <2>1, TwoEntriesFacts
    <2> QED  BY <2>2 DEF d, e
  <1>4. IsList(u) /\ \A n \in HeadNames : Nowhere(u, n)
    BY <1>2, EntryFacts, OneEntry, EmptyList
  <1> HIDE DEF t, u
  <1>5. IsList(t \o u) /\ \A n \in HeadNames : Nowhere(t \o u, n)
    BY <1>3, <1>4, ListConcat, NowhereConcat
  <1>6. IsList(<< >>) /\ \A n \in HeadNames : Nowhere(<< >>, n)
    BY EmptyList
  <1>7. CASE g.provider = "github"
    <2>1. s = t \o u
      BY <1>1, <1>7
    <2> QED  BY <1>5, <2>1
  <1>8. CASE g.provider # "github"
    <2>1. s = << >>
      BY <1>1, <1>8
    <2> QED  BY <1>6, <2>1
  <1> QED  BY <1>7, <1>8

LEMMA GitLab ==
    ASSUME NEW g, NEW path, NEW host,
           NEW s, s = IF g.provider = "gitlab"
                        THEN << EnvVar(<<"GIT_PROJECT">>, path), EnvVar(<<"GITLAB_URL">>, host),
                                EnvVar(<<"GITLAB_PROJECT">>, path) >>
                        ELSE << >>
    PROVE  /\ IsList(s) /\ \A n \in HeadNames : Nowhere(s, n)
           /\ g.provider = "gitlab" =>
                 /\ LastIs(s, <<"GIT_PROJECT">>, Plain(path)) /\ LastIs(s, <<"GITLAB_URL">>, Plain(host))
                 /\ LastIs(s, <<"GITLAB_PROJECT">>, Plain(path))
  <1> DEFINE t == << EnvVar(<<"GIT_PROJECT">>, path), EnvVar(<<"GITLAB_URL">>, host),
                     EnvVar(<<"GITLAB_PROJECT">>, path) >>
  <1>1. s = IF g.provider = "gitlab" THEN t ELSE << >>
    OBVIOUS
  <1>2. \A n \in HeadNames : n # <<"GIT_PROJECT">> /\ n # <<"GITLAB_URL">> /\ n # <<"GITLAB_PROJECT">>
    BY DEF HeadNames
  <1>3. IsList(t) /\ \A n \in HeadNames : Nowhere(t, n)
    BY <1>2, EntryFacts, ThreeEntriesFacts
  <1>4. /\ Sole(t, <<"GIT_PROJECT">>, Plain(path)) /\ Sole(t, <<"GITLAB_URL">>, Plain(host))
        /\ Sole(t, <<"GITLAB_PROJECT">>, Plain(path))
    <2> DEFINE c == EnvVar(<<"GIT_PROJECT">>, path)
               d == EnvVar(<<"GITLAB_URL">>, host)
               e == EnvVar(<<"GITLAB_PROJECT">>, path)
    <2>1. /\ c.name = <<"GIT_PROJECT">> /\ c.value = Plain(path)
          /\ d.name = <<"GITLAB_URL">> /\ d.value = Plain(host)
          /\ e.name = <<"GITLAB_PROJECT">> /\ e.value = Plain(path)
      BY EntryFacts DEF Plain
    <2> HIDE DEF c, d, e
    <2>2. /\ Sole(<< c, d, e >>, c.name, c.value) /\ Sole(<< c, d, e >>, d.name, d.value)
          /\ Sole(<< c, d, e >>, e.name, e.value)
      <3>1. c.name # d.name /\ c.name # e.name /\ d.name # e.name
        BY <2>1
      <3> QED  BY <3>1, ThreeEntriesFacts
    <2>3. t = << c, d, e >>
      BY DEF c, d, e
    <2> HIDE DEF t
    <2> QED  BY <2>1, <2>2, <2>3
  <1> HIDE DEF t
  <1> QED  BY <1>1, <1>3, <1>4, SoleIsLast, EmptyList

TokenEnv(g) ==
    IF g.credentials # None
      THEN << SecretEnvVar(TokenName(g.provider), g.credentials) >>
           \o (IF g.provider # "git" THEN << SecretEnvVar(<<"GIT_TOKEN">>, g.credentials) >> ELSE << >>)
      ELSE << >>

IsTokenEnv(s, g) ==
    /\ IsList(s) /\ \A n \in HeadNames \cup ProjectNames : Nowhere(s, n)
    /\ g.credentials # None =>
          /\ LastIs(s, <<"GIT_TOKEN">>, <<"secret", g.credentials>>)
          /\ g.provider = "gitlab" => LastIs(s, <<"GITLAB_TOKEN">>, <<"secret", g.credentials>>)
          /\ g.provider = "github" => LastIs(s, <<"GH_TOKEN">>, <<"secret", g.credentials>>)

LEMMA GitToken ==
    ASSUME NEW g, g.provider \in {"github", "gitlab", "git"}
    PROVE  IsTokenEnv(TokenEnv(g), g)
  <1> DEFINE s == TokenEnv(g)
             n1 == TokenName(g.provider)
             v == <<"secret", g.credentials>>
             t == << SecretEnvVar(n1, g.credentials) >>
             u == IF g.provider # "git" THEN << SecretEnvVar(<<"GIT_TOKEN">>, g.credentials) >> ELSE << >>
             N == HeadNames \cup ProjectNames
  <1>1. s = IF g.credentials # None THEN t \o u ELSE << >>
    BY DEF TokenEnv
  <1>2. /\ g.provider = "gitlab" => n1 = <<"GITLAB_TOKEN">>
        /\ g.provider = "github" => n1 = <<"GH_TOKEN">>
        /\ g.provider = "git" => n1 = <<"GIT_TOKEN">>
    BY DEF TokenName
  <1>3. \A n \in N : n # <<"GITLAB_TOKEN">> /\ n # <<"GH_TOKEN">> /\ n # <<"GIT_TOKEN">>
    BY DEF HeadNames, ProjectNames
  <1> HIDE DEF n1, N, s
  <1>4. \A n \in N : n # n1 /\ n # <<"GIT_TOKEN">>
    BY <1>2, <1>3
  <1>5. IsList(t) /\ Sole(t, n1, v) /\ \A n \in N : Nowhere(t, n)
    <2> DEFINE e == SecretEnvVar(n1, g.credentials)
    <2>1. e.name = n1 /\ e.value = v
      BY EntryFacts
    <2> HIDE DEF e, v
    <2>2. IsList(<< e >>) /\ Sole(<< e >>, n1, e.value) /\ \A n \in N : Nowhere(<< e >>, n)
      BY <1>4, <2>1, OneEntry
    <2> QED  BY <2>1, <2>2 DEF e
  <1>6. /\ IsList(u) /\ \A n \in N : Nowhere(u, n)
        /\ g.provider # "git" => Sole(u, <<"GIT_TOKEN">>, v)
        /\ g.provider = "git" => u = << >>
        /\ Nowhere(u, <<"GITLAB_TOKEN">>) /\ Nowhere(u, <<"GH_TOKEN">>)
    <2> DEFINE e == SecretEnvVar(<<"GIT_TOKEN">>, g.credentials)
    <2>1. e.name = <<"GIT_TOKEN">> /\ e.value = v
      BY EntryFacts
    <2> HIDE DEF e, v
    <2>2. /\ IsList(<< e >>) /\ Sole(<< e >>, <<"GIT_TOKEN">>, v) /\ \A n \in N : Nowhere(<< e >>, n)
          /\ Nowhere(<< e >>, <<"GITLAB_TOKEN">>) /\ Nowhere(<< e >>, <<"GH_TOKEN">>)
      <3>1. <<"GITLAB_TOKEN">> # <<"GIT_TOKEN">> /\ <<"GH_TOKEN">> # <<"GIT_TOKEN">>
        OBVIOUS
      <3>2. \A n \in N \cup {<<"GITLAB_TOKEN">>, <<"GH_TOKEN">>} : e.name # n
        BY <1>4, <2>1, <3>1
      <3> QED  BY <2>1, <3>2, OneEntry
    <2>3. u = IF g.provider # "git" THEN << e >> ELSE << >>
      BY DEF e
    <2> HIDE DEF u
    <2> QED  BY <2>2, <2>3, EmptyList
  <1> HIDE DEF t, u, v
  <1>7. IsList(t \o u) /\ \A n \in N : Nowhere(t \o u, n)
    BY <1>5, <1>6, ListConcat, NowhereConcat
  <1>8. g.provider # "git" => LastIs(t \o u, <<"GIT_TOKEN">>, v)
    BY <1>5, <1>6, SoleIsLast, LastRight
  <1>9. ASSUME g.provider = "git" PROVE LastIs(t \o u, <<"GIT_TOKEN">>, v)
    <2>1. Nowhere(u, <<"GIT_TOKEN">>)
      BY <1>6, <1>9, EmptyList
    <2> QED  BY <1>2, <1>5, <1>6, <1>9, <2>1, SoleIsLast, LastLeft
  <1>10. /\ g.provider = "gitlab" => LastIs(t \o u, <<"GITLAB_TOKEN">>, v)
         /\ g.provider = "github" => LastIs(t \o u, <<"GH_TOKEN">>, v)
    BY <1>2, <1>5, <1>6, SoleIsLast, LastLeft
  <1>11. IsTokenEnv(s, g)
    BY <1>1, <1>7, <1>8, <1>9, <1>10, EmptyList DEF N, v, IsTokenEnv
  <1> QED  BY <1>11 DEF s

LEMMA GitEnvFacts ==
    ASSUME NEW g, g.provider \in {"github", "gitlab", "git"}
    PROVE  IsGitEnv(GitEnvVars(g), g)
  <1> DEFINE path == g.cloneURL[2]
             h == << EnvVar(<<"GIT_PROVIDER">>, g.provider), EnvVar(<<"GIT_REPO_URL">>, g.cloneURL),
                     EnvVar(<<"GIT_BRANCH">>, g.branch), EnvVar(<<"GIT_BASE_BRANCH">>, g.baseBranch) >>
             gh == IF g.provider = "github"
                     THEN << EnvVar(<<"GIT_OWNER">>, g.github.owner), EnvVar(<<"GIT_REPO">>, g.github.repo) >>
                          \o (IF g.github.apiURL # None THEN << EnvVar(<<"GITHUB_API_URL">>, g.github.apiURL) >> ELSE << >>)
                     ELSE << >>
             gl == IF g.provider = "gitlab"
                     THEN << EnvVar(<<"GIT_PROJECT">>, path), EnvVar(<<"GITLAB_URL">>, g.cloneURL[1]),
                             EnvVar(<<"GITLAB_PROJECT">>, path) >>
                     ELSE << >>
             c == TokenEnv(g)
             env == GitEnvVars(g)
  <1>1. env = ((h \o gh) \o gl) \o c
    BY DEF GitEnvVars, When, TokenEnv
  <1>2. /\ IsList(h)
        /\ LastIs(h, <<"GIT_PROVIDER">>, Plain(g.provider))
        /\ LastIs(h, <<"GIT_REPO_URL">>, Plain(g.cloneURL))
        /\ LastIs(h, <<"GIT_BASE_BRANCH">>, Plain(g.baseBranch))
    BY GitHead
  <1>3. IsList(gh) /\ \A n \in HeadNames : Nowhere(gh, n)
    BY GitHub
  <1>4. /\ IsList(gl) /\ \A n \in HeadNames : Nowhere(gl, n)
        /\ g.provider = "gitlab" =>
              /\ LastIs(gl, <<"GIT_PROJECT">>, Plain(path)) /\ LastIs(gl, <<"GITLAB_URL">>, Plain(g.cloneURL[1]))
              /\ LastIs(gl, <<"GITLAB_PROJECT">>, Plain(path))
    BY GitLab
  <1>5. /\ IsList(c) /\ \A n \in HeadNames \cup ProjectNames : Nowhere(c, n)
        /\ g.credentials # None =>
              /\ LastIs(c, <<"GIT_TOKEN">>, <<"secret", g.credentials>>)
              /\ g.provider = "gitlab" => LastIs(c, <<"GITLAB_TOKEN">>, <<"secret", g.credentials>>)
              /\ g.provider = "github" => LastIs(c, <<"GH_TOKEN">>, <<"secret", g.credentials>>)
    <2>1. IsTokenEnv(c, g)
      BY GitToken
    <2> HIDE DEF c
    <2> QED  BY <2>1 DEF IsTokenEnv
  <1> HIDE DEF h, gh, gl, c, env
  <1>6. IsList(h \o gh) /\ IsList((h \o gh) \o gl) /\ IsList(env)
    BY <1>1, <1>2, <1>3, <1>4, <1>5, ListConcat
  <1>7. ASSUME NEW n \in HeadNames, NEW v, LastIs(h, n, v) PROVE LastIs(env, n, v)
    <2>1. LastIs(h \o gh, n, v)
      BY <1>2, <1>3, <1>7, LastLeft
    <2>2. LastIs((h \o gh) \o gl, n, v)
      BY <1>4, <1>6, <2>1, LastLeft
    <2> QED  BY <1>1, <1>5, <1>6, <2>2, LastLeft
  <1>8. ASSUME NEW n \in ProjectNames, NEW v, LastIs(gl, n, v) PROVE LastIs(env, n, v)
    <2>1. LastIs((h \o gh) \o gl, n, v)
      BY <1>4, <1>6, <1>8, LastRight
    <2> QED  BY <1>1, <1>5, <1>6, <2>1, LastLeft
  <1>9. \A n, v : LastIs(c, n, v) => LastIs(env, n, v)
    BY <1>1, <1>5, <1>6, LastRight
  <1>10. /\ <<"GIT_PROVIDER">> \in HeadNames /\ <<"GIT_REPO_URL">> \in HeadNames
         /\ <<"GIT_BASE_BRANCH">> \in HeadNames /\ <<"GIT_PROJECT">> \in ProjectNames
         /\ <<"GITLAB_URL">> \in ProjectNames /\ <<"GITLAB_PROJECT">> \in ProjectNames
    BY DEF HeadNames, ProjectNames
  <1>11. IsGitEnv(env, g)
    BY <1>2, <1>4, <1>5, <1>6, <1>7, <1>8, <1>9, <1>10 DEF IsGitEnv
  <1> QED  BY <1>11 DEF env

LEMMA PodEnv ==
    ASSUME NEW a, NEW providers, NEW integrations, NEW taskMode
    PROVE  BuildAgentPodSpec(a, providers, integrations, taskMode).main.env
             = BuildEnvVars(a, providers, integrations, taskMode)
  <1> DEFINE pod == BuildAgentPodSpec(a, providers, integrations, taskMode)
             env == BuildEnvVars(a, providers, integrations, taskMode)
             main == BuildMainContainer(a, providers, integrations, taskMode)
             init == BuildInitContainers(a)
             volumes == BuildVolumes(a, taskMode)
             account == AgentServiceAccountName(a)
  <1>1. main.env = env /\ {"sc", "mounts", "env"} \subseteq DOMAIN main
    <2> HIDE DEF env
    <2>1. \E name, mounts, target, ports : main = Container(name, mounts, env, target, ports)
      BY DEF BuildMainContainer, env
    <2> HIDE DEF main
    <2> QED  BY <2>1 DEF Container
  <1>2. pod = ApplySecurity([init |-> init, main |-> main, volumes |-> volumes,
                             account |-> account, sc |-> None, automount |-> None], a.security)
    BY DEF BuildAgentPodSpec
  <1> HIDE DEF pod, env, main, init, volumes, account
  <1>3. pod.main = ApplyContainer(main, MergeContainerSecurityContext(a.security.container).out)
    BY <1>2 DEF ApplySecurity
  <1>4. pod.main.env = env
    BY <1>1, <1>3 DEF ApplyContainer
  <1> QED  BY <1>4 DEF pod, env

(* The environment of a run that has a workspace ends with its git         *)
(* identity.                                                               *)
JobFront(a, run, providers) ==
    (AgentFront(a, providers) \o << >>)
    \o << EnvVar(<<"AGENT_PROMPT">>, run.prompt), EnvVar(<<"AGENT_RUN_NAME">>, run.name) >>

LEMMA JobEnv ==
    ASSUME NEW a, NEW run, NEW providers, NEW g
    PROVE  BuildAgentRunJob(a, run, providers, g).pod.main.env
             = JobFront(a, run, providers) \o (IF g # None THEN GitEnvVars(g) ELSE << >>)
  <1> DEFINE taskMode == TRUE
             pod == BuildAgentPodSpec(a, providers, << >>, taskMode)
             job == BuildAgentRunJob(a, run, providers, g).pod
             two == << EnvVar(<<"AGENT_PROMPT">>, run.prompt), EnvVar(<<"AGENT_RUN_NAME">>, run.name) >>
             front == AgentFront(a, providers)
             vols == [i \in DOMAIN pod.volumes |->
                        IF g # None /\ pod.volumes[i].name = <<"operator-config">>
                          THEN Volume(pod.volumes[i].name, <<"configMap", ObjectName(run.name, "config")>>)
                          ELSE pod.volumes[i]]
             tail == IF g # None THEN GitEnvVars(g) ELSE << >>
  <1>1. job = [pod EXCEPT !.main.env = (pod.main.env \o two) \o tail, !.volumes = vols]
    BY DEF BuildAgentRunJob, When
  <1>2. /\ DOMAIN pod = {"init", "main", "volumes", "account", "sc", "automount"}
        /\ {"sc", "env"} \subseteq DOMAIN pod.main
    <2> HIDE DEF taskMode
    <2> QED  BY AgentPodSecured
  <1>3. pod.main.env = BuildEnvVars(a, providers, << >>, TRUE)
    BY PodEnv
  <1>4. BuildEnvVars(a, providers, << >>, TRUE) = front \o << >>
    BY DEF BuildEnvVars, AgentFront, When
  <1> HIDE DEF taskMode, pod, job, two, front, vols, tail
  <1>5. job.main.env = (pod.main.env \o two) \o tail
    BY <1>1, <1>2
  <1>6. job.main.env = ((front \o << >>) \o two) \o tail
    BY <1>3, <1>4, <1>5
  <1> QED  BY <1>6 DEF job, two, front, tail, JobFront

(* What a resolved workspace is. *)
LEMMA WorkspaceFacts ==
    ASSUME NEW res, NEW git, NEW g, g = ResolveGitWorkspace(git, res), g # None
    PROVE  /\ g.provider \in {"github", "gitlab", "git"}
           /\ g.baseBranch = IF git.baseBranch # None THEN git.baseBranch
                               ELSE IF res.kind # "gitlab-group" /\ res.block[res.kind].defaultBranch # None
                                 THEN res.block[res.kind].defaultBranch ELSE "main"
  <1> DEFINE b == res.block[res.kind]
  <1>1. b # None /\ res.kind \in {"github-repo", "gitlab-project", "gitlab-group", "git-repo"}
    BY DEF ResolveGitWorkspace
  <1>2. CASE res.kind = "github-repo"
    BY <1>1, <1>2 DEF ResolveGitWorkspace, Workspace, FirstSet
  <1>3. CASE res.kind = "gitlab-project"
    BY <1>1, <1>3 DEF ResolveGitWorkspace, Workspace, FirstSet
  <1>4. CASE res.kind = "gitlab-group"
    BY <1>1, <1>4 DEF ResolveGitWorkspace, Workspace, FirstSet
  <1>5. CASE res.kind = "git-repo"
    BY <1>1, <1>5 DEF ResolveGitWorkspace, Workspace, FirstSet
  <1> QED  BY <1>1, <1>2, <1>3, <1>4, <1>5

(* When there is none, for an Integration that the webhook let through. *)
LEMMA NoWorkspace ==
    ASSUME NEW res, IsIntegration(res), ValidateIntegration(res), NEW git \in RunGit,
           ResolveGitWorkspace(git, res) = None
    PROVE  \/ res.kind \in {"github-org", "s3-bucket", "documentation"}
           \/ /\ res.kind = "gitlab-group"
              /\ git.project = None \/ ~Covers(res, <<res.block[res.kind].baseURL, git.project>>)
  <1> DEFINE b == res.block[res.kind]
             Hub == [owner : Path, repo : Path, apiURL : Opt(Host)]
             W == [provider : {"github", "gitlab", "git"}, cloneURL : (Host \cup {"github.com"}) \X Path,
                   branch : Branch, baseBranch : Branch \cup {"main"},
                   credentials : Opt(Secret), github : Opt(Hub)]
  <1>1. res.kind \in IntegrationKind /\ b # None
    BY DEF IsIntegration, ValidateIntegration
  <1>2. b \in Block(res.kind) /\ res.credentials \in Opt(Secret)
    BY <1>1 DEF IsIntegration
  <1>3. git.branch \in Branch /\ git.baseBranch \in Opt(Branch) /\ git.project \in Opt(Path)
    BY DEF RunGit
  <1>4. None \notin W
    BY WorkspaceAssumption DEF WorkspaceAssumption
  <1>5. ASSUME NEW provider \in {"github", "gitlab", "git"}, NEW url \in (Host \cup {"github.com"}) \X Path,
               NEW branch \in Opt(Branch), NEW hub \in Opt(Hub)
        PROVE  [Workspace(provider, url, git, branch, res) EXCEPT !.github = hub] \in W
    <2> HIDE DEF Hub
    <2>1. FirstSet(git.baseBranch, branch, "main") \in Branch \cup {"main"}
      BY <1>3, <1>5 DEF FirstSet, Opt
    <2>2. [Workspace(provider, url, git, branch, res) EXCEPT !.github = hub]
            = [provider |-> provider, cloneURL |-> url, branch |-> git.branch,
               baseBranch |-> FirstSet(git.baseBranch, branch, "main"),
               credentials |-> res.credentials, github |-> hub]
      BY DEF Workspace
    <2> QED  BY <1>2, <1>3, <1>5, <2>1, <2>2
  <1> HIDE DEF W, Hub
  <1>6. ASSUME NEW provider \in {"github", "gitlab", "git"}, NEW url \in (Host \cup {"github.com"}) \X Path,
               NEW branch \in Opt(Branch)
        PROVE  Workspace(provider, url, git, branch, res) # None
    <2>1. Workspace(provider, url, git, branch, res) =
             [Workspace(provider, url, git, branch, res) EXCEPT !.github = None]
      BY DEF Workspace
    <2>2. None \in Opt(Hub)
      BY DEF Opt
    <2> QED  BY <1>4, <1>5, <1>6, <2>1, <2>2
  <1>7. res.kind # "github-repo"
    <2> SUFFICES ASSUME res.kind = "github-repo" PROVE FALSE
      OBVIOUS
    <2> DEFINE path == b.owner \o <<"/">> \o b.repo
               url == <<FirstSet(b.apiURL, None, "github.com"), path>>
               C == Letter \cup {"/", ".", "%"}
    <2>1. /\ b.owner \in Path /\ b.repo \in Path
          /\ b.defaultBranch \in Opt(Branch) /\ b.apiURL \in Opt(Host)
      BY <1>2 DEF Block
    <2>2. path \in Path
      <3>1. b.owner \in Seq(C) /\ b.repo \in Seq(C) /\ b.owner # << >> /\ <<"/">> \in Seq(C)
        BY <2>1 DEF Path
      <3>2. /\ b.owner \o <<"/">> \in Seq(C)
            /\ Len(b.owner \o <<"/">>) = Len(b.owner) + 1
        <4> HIDE DEF C
        <4> QED  BY <3>1, ConcatProperties
      <3>3. /\ path \in Seq(C)
            /\ Len(path) = Len(b.owner \o <<"/">>) + Len(b.repo)
        <4> HIDE DEF C
        <4> QED  BY <3>1, <3>2, ConcatProperties
      <3>4. path # << >>
        <4> DEFINE k == Len(b.owner)
                   l == Len(b.repo)
                   m == Len(b.owner \o <<"/">>)
        <4>1. k \in Nat /\ l \in Nat /\ m = k + 1 /\ Len(path) = m + l
          BY <3>1, <3>2, <3>3, LenProperties
        <4> HIDE DEF k, l, m, path
        <4>2. Len(path) # 0
          BY <4>1
        <4>3. Len(<< >>) = 0
          OBVIOUS
        <4> QED  BY <4>2, <4>3
      <3> QED  BY <3>3, <3>4 DEF Path
    <2> HIDE DEF path
    <2>3. url \in (Host \cup {"github.com"}) \X Path
      BY <2>1, <2>2 DEF FirstSet, Opt
    <2>4. ResolveGitWorkspace(git, res) =
             [Workspace("github", url, git, b.defaultBranch, res)
                EXCEPT !.github = [owner |-> b.owner, repo |-> b.repo, apiURL |-> b.apiURL]]
      BY <1>1 DEF ResolveGitWorkspace, path
    <2>5. [owner |-> b.owner, repo |-> b.repo, apiURL |-> b.apiURL] \in Opt(Hub)
      BY <2>1 DEF Hub, Opt
    <2> HIDE DEF url
    <2> QED  BY <1>4, <1>5, <2>1, <2>3, <2>4, <2>5
  <1>8. res.kind # "gitlab-project"
    <2> SUFFICES ASSUME res.kind = "gitlab-project" PROVE FALSE
      OBVIOUS
    <2>1. <<b.baseURL, b.project>> \in (Host \cup {"github.com"}) \X Path /\ b.defaultBranch \in Opt(Branch)
      BY <1>2 DEF Block
    <2>2. ResolveGitWorkspace(git, res) = Workspace("gitlab", <<b.baseURL, b.project>>, git, b.defaultBranch, res)
      BY <1>1 DEF ResolveGitWorkspace
    <2> QED  BY <1>6, <2>1, <2>2
  <1>9. res.kind # "git-repo"
    <2> SUFFICES ASSUME res.kind = "git-repo" PROVE FALSE
      OBVIOUS
    <2>1. b.url \in (Host \cup {"github.com"}) \X Path /\ b.defaultBranch \in Opt(Branch)
      BY <1>2 DEF Block
    <2>2. ResolveGitWorkspace(git, res) = Workspace("git", b.url, git, b.defaultBranch, res)
      BY <1>1 DEF ResolveGitWorkspace
    <2> QED  BY <1>6, <2>1, <2>2
  <1>10. ASSUME res.kind = "gitlab-group", git.project # None PROVE ~Covers(res, <<b.baseURL, git.project>>)
    <2>1. b.baseURL \in Host /\ git.project \in Path
      BY <1>2, <1>3, <1>10 DEF Block, Opt
    <2>2. <<b.baseURL, git.project>> \in (Host \cup {"github.com"}) \X Path /\ None \in Opt(Branch)
      BY <2>1 DEF Opt
    <2>3. Workspace("gitlab", <<b.baseURL, git.project>>, git, None, res) # None
      BY <1>6, <2>2
    <2>4. ~InGroup(git.project, b)
      BY <1>1, <1>10, <2>3 DEF ResolveGitWorkspace
    <2> QED  BY <1>1, <1>10, <2>1, <2>4, GroupCovers
  <1> QED  BY <1>1, <1>7, <1>8, <1>9, <1>10 DEF IntegrationKind

LEMMA RunInScope ==
    ASSUME Handled
    PROVE  RunGitInScope
  <1> SUFFICES ASSUME kind = "AgentRun", item.git # None PROVE RunGitInScope
    BY DEF RunGitInScope
  <1> DEFINE a == item.agent
             res == item.integration
             git == item.git
             b == res.block[res.kind]
             g == RunWorkspace
  <1>1. /\ item \in Runs
        /\ stage = "done" => g # None /\ out.job = BuildAgentRunJob(a, item.run, item.providers, g)
        /\ stage = "failed" => g = None
    BY DEF Handled, RunHandled
  <1>2. IsAgent(a) /\ IsList(item.providers) /\ git \in RunGit /\ IsIntegration(res)
    BY <1>1, InputAssumption DEF InputAssumption, Found
  <1>3. g = ResolveGitWorkspace(git, res)
    BY DEF RunWorkspace
  <1>4. ASSUME stage = "done"
        PROVE  /\ \/ Covers(res, Env("GIT_REPO_URL")[2])
                  \/ res.kind = "gitlab-group" /\ b.projects = {} /\ ~IsNormal(git.project)
               /\ res.credentials # None =>
                     /\ Env("GIT_TOKEN") = <<"secret", res.credentials>>
                     /\ Env("GIT_PROVIDER") = Plain("gitlab") => Env("GITLAB_TOKEN") = Env("GIT_TOKEN")
                     /\ Env("GIT_PROVIDER") = Plain("github") => Env("GH_TOKEN") = Env("GIT_TOKEN")
               /\ Env("GIT_PROVIDER") = Plain("gitlab") =>
                     /\ Env("GITLAB_URL") = Plain(Env("GIT_REPO_URL")[2][1])
                     /\ Env("GIT_PROJECT") = Plain(Env("GIT_REPO_URL")[2][2])
                     /\ Env("GITLAB_PROJECT") = Plain(Env("GIT_REPO_URL")[2][2])
               /\ Env("GIT_BASE_BRANCH") =
                     Plain(IF git.baseBranch # None THEN git.baseBranch
                             ELSE IF res.kind # "gitlab-group" /\ b.defaultBranch # None
                               THEN b.defaultBranch ELSE "main")
    <2> DEFINE env == out.job.pod.main.env
               two == << EnvVar(<<"AGENT_PROMPT">>, item.run.prompt), EnvVar(<<"AGENT_RUN_NAME">>, item.run.name) >>
               front == AgentFront(a, item.providers)
               base == IF git.baseBranch # None THEN git.baseBranch
                         ELSE IF res.kind # "gitlab-group" /\ b.defaultBranch # None
                           THEN b.defaultBranch ELSE "main"
    <2> HIDE DEF g
    <2>1. g # None
      BY <1>1, <1>4
    <2>2. env = ((front \o << >>) \o two) \o GitEnvVars(g)
      <3>1. env = JobFront(a, item.run, item.providers) \o GitEnvVars(g)
        BY <1>1, <1>4, <2>1, JobEnv
      <3> QED  BY <3>1 DEF JobFront
    <2>3. \A n : Env(n) = EnvValue(env, <<n>>)
      <3>1. RenderedPods = {out.job.pod}
        BY <1>4 DEF RenderedPods
      <3>2. (CHOOSE pod \in RenderedPods : TRUE) = out.job.pod
        BY <3>1
      <3> QED  BY <3>2 DEF Env
    <2>4. g.provider \in {"github", "gitlab", "git"} /\ g.baseBranch = base
      BY <1>3, <2>1, WorkspaceFacts
    <2>5. /\ \/ Covers(res, g.cloneURL)
             \/ res.kind = "gitlab-group" /\ b.projects = {} /\ ~IsNormal(git.project)
          /\ g.credentials = res.credentials
      BY <1>2, <1>3, <2>1, WorkspaceInScope
    <2>6. IsGitEnv(GitEnvVars(g), g)
      BY <2>4, GitEnvFacts
    <2>7. IsList(front)
      BY <1>2, AgentFrontFacts
    <2>8. IsList(two)
      BY TwoEntriesFacts
    <2> HIDE DEF env, two, front, base
    <2>9. IsList((front \o << >>) \o two) /\ IsList(GitEnvVars(g))
      BY <2>6, <2>7, <2>8, EmptyList, ListConcat DEF IsGitEnv
    <2>10. \A n, v : LastIs(GitEnvVars(g), n, v) => EnvValue(env, n) = v
      BY <2>2, <2>9, LastRight, LastValue, ListConcat
    <2>11. /\ Env("GIT_PROVIDER") = Plain(g.provider)
           /\ Env("GIT_REPO_URL") = Plain(g.cloneURL)
           /\ Env("GIT_BASE_BRANCH") = Plain(g.baseBranch)
      BY <2>3, <2>6, <2>10 DEF IsGitEnv
    <2>12. g.provider = "gitlab" =>
             /\ Env("GIT_PROJECT") = Plain(g.cloneURL[2])
             /\ Env("GITLAB_URL") = Plain(g.cloneURL[1])
             /\ Env("GITLAB_PROJECT") = Plain(g.cloneURL[2])
      BY <2>3, <2>6, <2>10 DEF IsGitEnv
    <2>13. g.credentials # None =>
             /\ Env("GIT_TOKEN") = <<"secret", g.credentials>>
             /\ g.provider = "gitlab" => Env("GITLAB_TOKEN") = <<"secret", g.credentials>>
             /\ g.provider = "github" => Env("GH_TOKEN") = <<"secret", g.credentials>>
      BY <2>3, <2>6, <2>10 DEF IsGitEnv
    <2>14. /\ Env("GIT_REPO_URL")[2] = g.cloneURL
           /\ \A p : Env("GIT_PROVIDER") = Plain(p) => g.provider = p
      BY <2>11 DEF Plain
    <2> QED  BY <2>4, <2>5, <2>11, <2>12, <2>13, <2>14 DEF base
  <1>5. ASSUME stage = "failed", ValidateIntegration(res)
        PROVE  \/ res.kind \in {"github-org", "s3-bucket", "documentation"}
               \/ /\ res.kind = "gitlab-group"
                  /\ git.project = None \/ ~Covers(res, <<b.baseURL, git.project>>)
    BY <1>1, <1>2, <1>3, <1>5, NoWorkspace
  <1> QED  BY <1>4, <1>5 DEF RunGitInScope

-----------------------------------------------------------------------------
(* The GitLab identity of a daemon. *)

GitLabUrl(b) == << EnvVar(<<"GITLAB_URL">>, b.baseURL) >>
GitLabProject(c, b) == IF c THEN << >> ELSE << EnvVar(<<"GITLAB_PROJECT">>, b.project) >>
GitLabGroup(c, b) ==
    IF c THEN << EnvVar(<<"GITLAB_GROUP">>, b.group) >>
              \o (IF b.projects # {} THEN << EnvVar(<<"GITLAB_PROJECTS">>, b.projects) >> ELSE << >>)
      ELSE << >>
GitLabReadOnly(c) == IF c THEN << EnvVar(<<"GITLAB_READONLY">>, "true") >> ELSE << >>
GitLabTokens(res) ==
    IF res.credentials # None
      THEN << SecretEnvVar(<<"GITLAB_TOKEN">>, res.credentials), SecretEnvVar(<<"GIT_TOKEN">>, res.credentials) >>
      ELSE << >>

IdentityVars ==
    {<<"GITLAB_URL">>, <<"GITLAB_PROJECT">>, <<"GITLAB_GROUP">>, <<"GITLAB_PROJECTS">>, <<"GITLAB_READONLY">>}

LEMMA GitLabPieces ==
    ASSUME NEW b, NEW res, NEW group \in BOOLEAN, NEW ro
    PROVE  /\ IsList(GitLabUrl(b)) /\ LastIs(GitLabUrl(b), <<"GITLAB_URL">>, Plain(b.baseURL))
           /\ Nowhere(GitLabUrl(b), <<"GITLAB_PROJECT">>)
           /\ IsList(GitLabProject(group, b)) /\ Nowhere(GitLabProject(group, b), <<"GITLAB_URL">>)
           /\ group => Nowhere(GitLabProject(group, b), <<"GITLAB_PROJECT">>)
           /\ ~group => LastIs(GitLabProject(group, b), <<"GITLAB_PROJECT">>, Plain(b.project))
           /\ IsList(GitLabReadOnly(ro))
           /\ ro => LastIs(GitLabReadOnly(ro), <<"GITLAB_READONLY">>, Plain("true"))
           /\ \A n \in IdentityVars \ {<<"GITLAB_READONLY">>} : Nowhere(GitLabReadOnly(ro), n)
           /\ IsList(GitLabTokens(res)) /\ \A n \in IdentityVars : Nowhere(GitLabTokens(res), n)
           /\ res.credentials # None =>
                 /\ LastIs(GitLabTokens(res), <<"GITLAB_TOKEN">>, <<"secret", res.credentials>>)
                 /\ LastIs(GitLabTokens(res), <<"GIT_TOKEN">>, <<"secret", res.credentials>>)
  <1>1. /\ IsList(GitLabUrl(b)) /\ LastIs(GitLabUrl(b), <<"GITLAB_URL">>, Plain(b.baseURL))
        /\ Nowhere(GitLabUrl(b), <<"GITLAB_PROJECT">>)
    <2> DEFINE e == EnvVar(<<"GITLAB_URL">>, b.baseURL)
    <2>1. e.name = <<"GITLAB_URL">> /\ e.value = Plain(b.baseURL) /\ e.name # <<"GITLAB_PROJECT">>
      BY EntryFacts DEF Plain
    <2> HIDE DEF e
    <2> QED  BY <2>1, OneEntry, SoleIsLast DEF GitLabUrl, e
  <1>2. /\ IsList(GitLabProject(group, b)) /\ Nowhere(GitLabProject(group, b), <<"GITLAB_URL">>)
        /\ group => Nowhere(GitLabProject(group, b), <<"GITLAB_PROJECT">>)
        /\ ~group => LastIs(GitLabProject(group, b), <<"GITLAB_PROJECT">>, Plain(b.project))
    <2> DEFINE e == EnvVar(<<"GITLAB_PROJECT">>, b.project)
    <2>1. e.name = <<"GITLAB_PROJECT">> /\ e.value = Plain(b.project) /\ e.name # <<"GITLAB_URL">>
      BY EntryFacts DEF Plain
    <2> HIDE DEF e
    <2>2. /\ IsList(<< e >>) /\ Nowhere(<< e >>, <<"GITLAB_URL">>)
          /\ LastIs(<< e >>, <<"GITLAB_PROJECT">>, Plain(b.project))
      BY <2>1, OneEntry, SoleIsLast
    <2>3. GitLabProject(group, b) = IF group THEN << >> ELSE << e >>
      BY DEF GitLabProject, e
    <2> QED  BY <2>2, <2>3, EmptyList
  <1>3. /\ IsList(GitLabReadOnly(ro))
        /\ ro => LastIs(GitLabReadOnly(ro), <<"GITLAB_READONLY">>, Plain("true"))
        /\ \A n \in IdentityVars \ {<<"GITLAB_READONLY">>} : Nowhere(GitLabReadOnly(ro), n)
    <2> DEFINE e == EnvVar(<<"GITLAB_READONLY">>, "true")
    <2>1. e.name = <<"GITLAB_READONLY">> /\ e.value = Plain("true")
      BY EntryFacts DEF Plain
    <2> HIDE DEF e
    <2>2. /\ IsList(<< e >>) /\ \A n \in IdentityVars \ {<<"GITLAB_READONLY">>} : Nowhere(<< e >>, n)
          /\ LastIs(<< e >>, <<"GITLAB_READONLY">>, Plain("true"))
      BY <2>1, OneEntry, SoleIsLast
    <2>3. GitLabReadOnly(ro) = IF ro THEN << e >> ELSE << >>
      BY DEF GitLabReadOnly, e
    <2> QED  BY <2>2, <2>3, EmptyList
  <1>4. /\ IsList(GitLabTokens(res)) /\ \A n \in IdentityVars : Nowhere(GitLabTokens(res), n)
        /\ res.credentials # None =>
              /\ LastIs(GitLabTokens(res), <<"GITLAB_TOKEN">>, <<"secret", res.credentials>>)
              /\ LastIs(GitLabTokens(res), <<"GIT_TOKEN">>, <<"secret", res.credentials>>)
    <2> DEFINE d == SecretEnvVar(<<"GITLAB_TOKEN">>, res.credentials)
               e == SecretEnvVar(<<"GIT_TOKEN">>, res.credentials)
               v == <<"secret", res.credentials>>
    <2>1. d.name = <<"GITLAB_TOKEN">> /\ d.value = v /\ e.name = <<"GIT_TOKEN">> /\ e.value = v
      BY EntryFacts
    <2>2. d.name # e.name /\ \A n \in IdentityVars : d.name # n /\ e.name # n
      BY <2>1 DEF IdentityVars
    <2> HIDE DEF d, e, v
    <2>3. IsList(<< d, e >>) /\ \A n \in IdentityVars : Nowhere(<< d, e >>, n)
      BY <2>2, TwoEntriesFacts
    <2>4. LastIs(<< d, e >>, d.name, d.value) /\ LastIs(<< d, e >>, e.name, e.value)
      BY <2>2, <2>3, TwoEntriesFacts, SoleIsLast
    <2>5. GitLabTokens(res) = IF res.credentials # None THEN << d, e >> ELSE << >>
      BY DEF GitLabTokens, d, e
    <2> QED  BY <2>1, <2>3, <2>4, <2>5, EmptyList DEF v
  <1> QED  BY <1>1, <1>2, <1>3, <1>4

LEMMA GitLabGroupFacts ==
    ASSUME NEW b, NEW group \in BOOLEAN
    PROVE  /\ IsList(GitLabGroup(group, b))
           /\ Nowhere(GitLabGroup(group, b), <<"GITLAB_URL">>)
           /\ Nowhere(GitLabGroup(group, b), <<"GITLAB_PROJECT">>)
           /\ group => /\ LastIs(GitLabGroup(group, b), <<"GITLAB_GROUP">>, Plain(b.group))
                       /\ b.projects # {} =>
                             LastIs(GitLabGroup(group, b), <<"GITLAB_PROJECTS">>, Plain(b.projects))
  <1> DEFINE d == EnvVar(<<"GITLAB_GROUP">>, b.group)
             e == EnvVar(<<"GITLAB_PROJECTS">>, b.projects)
             t == << d >>
             u == IF b.projects # {} THEN << e >> ELSE << >>
  <1>1. d.name = <<"GITLAB_GROUP">> /\ d.value = Plain(b.group)
    BY EntryFacts DEF Plain
  <1>2. e.name = <<"GITLAB_PROJECTS">> /\ e.value = Plain(b.projects)
    BY EntryFacts DEF Plain
  <1>3. GitLabGroup(group, b) = IF group THEN t \o u ELSE << >>
    BY DEF GitLabGroup
  <1> HIDE DEF d, e
  <1>4. /\ d.name # <<"GITLAB_URL">> /\ d.name # <<"GITLAB_PROJECT">>
        /\ e.name # <<"GITLAB_URL">> /\ e.name # <<"GITLAB_PROJECT">> /\ e.name # <<"GITLAB_GROUP">>
    BY <1>1, <1>2
  <1>5. /\ IsList(t) /\ Nowhere(t, <<"GITLAB_URL">>) /\ Nowhere(t, <<"GITLAB_PROJECT">>)
        /\ LastIs(t, <<"GITLAB_GROUP">>, Plain(b.group))
    BY <1>1, <1>4, OneEntry, SoleIsLast
  <1>6. /\ IsList(u) /\ Nowhere(u, <<"GITLAB_URL">>) /\ Nowhere(u, <<"GITLAB_PROJECT">>)
        /\ Nowhere(u, <<"GITLAB_GROUP">>)
        /\ b.projects # {} => LastIs(u, <<"GITLAB_PROJECTS">>, Plain(b.projects))
    <2>1. /\ IsList(<< e >>) /\ Nowhere(<< e >>, <<"GITLAB_URL">>) /\ Nowhere(<< e >>, <<"GITLAB_PROJECT">>)
          /\ Nowhere(<< e >>, <<"GITLAB_GROUP">>)
          /\ LastIs(<< e >>, <<"GITLAB_PROJECTS">>, Plain(b.projects))
      BY <1>2, <1>4, OneEntry, SoleIsLast
    <2> QED  BY <2>1, EmptyList
  <1> HIDE DEF t, u
  <1>7. /\ IsList(t \o u) /\ Nowhere(t \o u, <<"GITLAB_URL">>) /\ Nowhere(t \o u, <<"GITLAB_PROJECT">>)
        /\ LastIs(t \o u, <<"GITLAB_GROUP">>, Plain(b.group))
        /\ b.projects # {} => LastIs(t \o u, <<"GITLAB_PROJECTS">>, Plain(b.projects))
    BY <1>5, <1>6, ListConcat, NowhereConcat, LastLeft, LastRight
  <1> QED  BY <1>3, <1>7, EmptyList

(* Who a daemon is on GitLab: by Integration res, a group or a project. *)
IsIdentityEnv(env, res, b, group, ro) ==
    /\ IsList(env)
    /\ LastIs(env, <<"GITLAB_URL">>, Plain(b.baseURL))
    /\ res.credentials # None =>
          /\ LastIs(env, <<"GITLAB_TOKEN">>, <<"secret", res.credentials>>)
          /\ LastIs(env, <<"GIT_TOKEN">>, <<"secret", res.credentials>>)
    /\ group => /\ LastIs(env, <<"GITLAB_GROUP">>, Plain(b.group))
                /\ Nowhere(env, <<"GITLAB_PROJECT">>)
                /\ b.projects # {} => LastIs(env, <<"GITLAB_PROJECTS">>, Plain(b.projects))
    /\ ~group => LastIs(env, <<"GITLAB_PROJECT">>, Plain(b.project))
    /\ ro => LastIs(env, <<"GITLAB_READONLY">>, Plain("true"))

LEMMA IdentityEnvFacts ==
    ASSUME NEW b, NEW res, NEW group \in BOOLEAN, NEW ro
    PROVE  IsIdentityEnv((((GitLabUrl(b) \o GitLabProject(group, b)) \o GitLabGroup(group, b))
                            \o GitLabReadOnly(ro)) \o GitLabTokens(res), res, b, group, ro)
  <1> DEFINE u == GitLabUrl(b)
             p == GitLabProject(group, b)
             g == GitLabGroup(group, b)
             r == GitLabReadOnly(ro)
             c == GitLabTokens(res)
             s1 == u \o p
             s2 == s1 \o g
             s3 == s2 \o r
             env == s3 \o c
  <1>1. /\ IsList(u) /\ LastIs(u, <<"GITLAB_URL">>, Plain(b.baseURL))
        /\ Nowhere(u, <<"GITLAB_PROJECT">>)
        /\ IsList(p) /\ Nowhere(p, <<"GITLAB_URL">>)
        /\ group => Nowhere(p, <<"GITLAB_PROJECT">>)
        /\ ~group => LastIs(p, <<"GITLAB_PROJECT">>, Plain(b.project))
    BY GitLabPieces
  <1>2. /\ IsList(r)
        /\ ro => LastIs(r, <<"GITLAB_READONLY">>, Plain("true"))
        /\ \A n \in IdentityVars \ {<<"GITLAB_READONLY">>} : Nowhere(r, n)
    BY GitLabPieces
  <1>3. /\ IsList(c) /\ \A n \in IdentityVars : Nowhere(c, n)
        /\ res.credentials # None =>
              /\ LastIs(c, <<"GITLAB_TOKEN">>, <<"secret", res.credentials>>)
              /\ LastIs(c, <<"GIT_TOKEN">>, <<"secret", res.credentials>>)
    BY GitLabPieces
  <1>4. /\ IsList(g) /\ Nowhere(g, <<"GITLAB_URL">>) /\ Nowhere(g, <<"GITLAB_PROJECT">>)
        /\ group => /\ LastIs(g, <<"GITLAB_GROUP">>, Plain(b.group))
                    /\ b.projects # {} => LastIs(g, <<"GITLAB_PROJECTS">>, Plain(b.projects))
    BY GitLabGroupFacts
  <1> HIDE DEF u, p, g, r, c
  <1>5. IsList(s1) /\ IsList(s2) /\ IsList(s3) /\ IsList(env)
    BY <1>1, <1>2, <1>3, <1>4, ListConcat
  <1>6. \A n, v : LastIs(c, n, v) => LastIs(env, n, v)
    BY <1>3, <1>5, LastRight
  <1>7. <<"GITLAB_READONLY">> \in IdentityVars
    BY DEF IdentityVars
  <1>8. \A v : LastIs(r, <<"GITLAB_READONLY">>, v) => LastIs(env, <<"GITLAB_READONLY">>, v)
    BY <1>2, <1>3, <1>5, <1>7, LastLeft, LastRight
  <1>9. ASSUME NEW n \in IdentityVars \ {<<"GITLAB_READONLY">>}, NEW v, LastIs(s2, n, v)
        PROVE  LastIs(env, n, v)
    <2>1. Nowhere(r, n) /\ Nowhere(c, n)
      BY <1>2, <1>3
    <2>2. LastIs(s3, n, v)
      BY <1>2, <1>5, <1>9, <2>1, LastLeft
    <2> QED  BY <1>3, <1>5, <2>1, <2>2, LastLeft
  <1>10. /\ <<"GITLAB_URL">> \in IdentityVars \ {<<"GITLAB_READONLY">>}
         /\ <<"GITLAB_PROJECT">> \in IdentityVars \ {<<"GITLAB_READONLY">>}
         /\ <<"GITLAB_GROUP">> \in IdentityVars \ {<<"GITLAB_READONLY">>}
         /\ <<"GITLAB_PROJECTS">> \in IdentityVars \ {<<"GITLAB_READONLY">>}
    BY DEF IdentityVars
  <1>11. LastIs(env, <<"GITLAB_URL">>, Plain(b.baseURL))
    <2>1. LastIs(s1, <<"GITLAB_URL">>, Plain(b.baseURL))
      BY <1>1, LastLeft
    <2>2. LastIs(s2, <<"GITLAB_URL">>, Plain(b.baseURL))
      BY <1>4, <1>5, <2>1, LastLeft
    <2> QED  BY <1>9, <1>10, <2>2
  <1>12. ASSUME group
         PROVE  /\ LastIs(env, <<"GITLAB_GROUP">>, Plain(b.group))
                /\ Nowhere(env, <<"GITLAB_PROJECT">>)
                /\ b.projects # {} => LastIs(env, <<"GITLAB_PROJECTS">>, Plain(b.projects))
    <2>1. /\ LastIs(s2, <<"GITLAB_GROUP">>, Plain(b.group))
          /\ b.projects # {} => LastIs(s2, <<"GITLAB_PROJECTS">>, Plain(b.projects))
      BY <1>4, <1>5, <1>12, LastRight
    <2>2. Nowhere(s1, <<"GITLAB_PROJECT">>)
      BY <1>1, <1>12, NowhereConcat
    <2>3. Nowhere(s2, <<"GITLAB_PROJECT">>)
      BY <1>4, <1>5, <2>2, NowhereConcat
    <2>4. Nowhere(r, <<"GITLAB_PROJECT">>) /\ Nowhere(c, <<"GITLAB_PROJECT">>)
      BY <1>2, <1>3, <1>10
    <2>5. Nowhere(s3, <<"GITLAB_PROJECT">>)
      BY <1>2, <1>5, <2>3, <2>4, NowhereConcat
    <2>6. Nowhere(env, <<"GITLAB_PROJECT">>)
      BY <1>3, <1>5, <2>4, <2>5, NowhereConcat
    <2> HIDE DEF env, s2
    <2> QED  BY <1>9, <1>10, <2>1, <2>6
  <1>13. ASSUME ~group PROVE LastIs(env, <<"GITLAB_PROJECT">>, Plain(b.project))
    <2>1. LastIs(s1, <<"GITLAB_PROJECT">>, Plain(b.project))
      BY <1>1, <1>13, LastRight
    <2>2. LastIs(s2, <<"GITLAB_PROJECT">>, Plain(b.project))
      BY <1>4, <1>5, <2>1, LastLeft
    <2> HIDE DEF env, s2
    <2> QED  BY <1>9, <1>10, <2>2
  <1> HIDE DEF env
  <1>14. IsIdentityEnv(env, res, b, group, ro)
    BY <1>2, <1>3, <1>5, <1>6, <1>8, <1>11, <1>12, <1>13 DEF IsIdentityEnv
  <1> QED  BY <1>14 DEF env, u, p, g, r, c

(* The identity is that of integrations[i]. *)
IsIdentityOf(env, integrations, readOnly, i) ==
    LET res == integrations[i]
        b == res.block[res.kind]
    IN  \E group \in BOOLEAN : \E ro :
           /\ group <=> res.kind = "gitlab-group"
           /\ readOnly[i] => ro
           /\ group /\ b.readOnly => ro
           /\ IsIdentityEnv(env, res, b, group, ro)

LEMMA DaemonIdentity ==
    ASSUME NEW integrations, IsList(integrations), NEW readOnly,
           \A i \in DOMAIN integrations : ValidateResource(integrations[i]),
           NEW bound,
           bound = {i \in DOMAIN integrations : integrations[i].kind \in {"gitlab-group", "gitlab-project"}},
           bound # {}
    PROVE  \E i \in bound :
              /\ IsIdentityOf(GitLabEnvFromIntegrations(integrations, readOnly), integrations, readOnly, i)
              /\ integrations[i].kind = "gitlab-project" =>
                    \A j \in bound : integrations[j].kind = "gitlab-project"
  <1> DEFINE group == {i \in DOMAIN integrations : integrations[i].kind = "gitlab-group"}
             project == {i \in DOMAIN integrations : integrations[i].kind = "gitlab-project"}
             chosen == IF group # {} THEN Min(group) ELSE Min(project)
             res == integrations[chosen]
             b == res.block[res.kind]
             grp == group # {}
             ro == readOnly[chosen] \/ (group # {} /\ b.readOnly)
             env == GitLabEnvFromIntegrations(integrations, readOnly)
  <1>1. /\ group \in SUBSET Nat /\ project \in SUBSET Nat
        /\ bound = group \cup project /\ group \cup project # {}
    BY ListDomain
  <1>2. ASSUME NEW T \in SUBSET Nat, T # {} PROVE Min(T) \in T
    BY <1>2, LeastNat DEF Min
  <1>3. /\ group # {} => chosen \in group
        /\ group = {} => chosen \in project
    <2> HIDE DEF group, project
    <2> QED  BY <1>1, <1>2
  <1>4. /\ chosen \in bound
        /\ res.kind = "gitlab-group" <=> group # {}
        /\ res.kind = "gitlab-project" => group = {}
    <2> HIDE DEF chosen
    <2>1. CASE group # {}
      BY <1>1, <1>3, <2>1
    <2>2. CASE group = {}
      BY <1>1, <1>3, <2>2
    <2> QED  BY <2>1, <2>2
  <1>5. b # None
    <2> HIDE DEF chosen
    <2> QED  BY <1>4 DEF ValidateResource
  <1>6. group = {} => \A j \in bound : integrations[j].kind = "gitlab-project"
    OBVIOUS
  <1>7. env = (((GitLabUrl(b) \o GitLabProject(grp, b)) \o GitLabGroup(grp, b))
                 \o GitLabReadOnly(ro)) \o GitLabTokens(res)
    <2>1. env = IF group \cup project = {} \/ b = None THEN << >>
                  ELSE << EnvVar(<<"GITLAB_URL">>, b.baseURL) >>
                       \o When(group = {}, << EnvVar(<<"GITLAB_PROJECT">>, b.project) >>)
                       \o When(group # {}, << EnvVar(<<"GITLAB_GROUP">>, b.group) >>
                               \o When(b.projects # {}, << EnvVar(<<"GITLAB_PROJECTS">>, b.projects) >>))
                       \o When(readOnly[chosen] \/ (group # {} /\ b.readOnly),
                               << EnvVar(<<"GITLAB_READONLY">>, "true") >>)
                       \o When(res.credentials # None,
                               << SecretEnvVar(<<"GITLAB_TOKEN">>, res.credentials),
                                  SecretEnvVar(<<"GIT_TOKEN">>, res.credentials) >>)
      BY DEF GitLabEnvFromIntegrations
    <2> HIDE DEF env, group, project, chosen
    <2>2. When(group = {}, << EnvVar(<<"GITLAB_PROJECT">>, b.project) >>) = GitLabProject(grp, b)
      BY DEF When, GitLabProject
    <2>3. When(group # {}, << EnvVar(<<"GITLAB_GROUP">>, b.group) >>
                  \o When(b.projects # {}, << EnvVar(<<"GITLAB_PROJECTS">>, b.projects) >>))
            = GitLabGroup(grp, b)
      BY DEF When, GitLabGroup
    <2>4. When(readOnly[chosen] \/ (group # {} /\ b.readOnly), << EnvVar(<<"GITLAB_READONLY">>, "true") >>)
            = GitLabReadOnly(ro)
      BY DEF When, GitLabReadOnly
    <2>5. When(res.credentials # None,
               << SecretEnvVar(<<"GITLAB_TOKEN">>, res.credentials),
                  SecretEnvVar(<<"GIT_TOKEN">>, res.credentials) >>) = GitLabTokens(res)
      BY DEF When, GitLabTokens
    <2>6. << EnvVar(<<"GITLAB_URL">>, b.baseURL) >> = GitLabUrl(b)
      BY DEF GitLabUrl
    <2>7. ~(group \cup project = {} \/ b = None)
      BY <1>1, <1>5
    <2> QED  BY <2>1, <2>2, <2>3, <2>4, <2>5, <2>6, <2>7
  <1>8. grp \in BOOLEAN /\ (readOnly[chosen] => ro) /\ (grp /\ b.readOnly => ro) /\ (grp <=> group # {})
    OBVIOUS
  <1> HIDE DEF env, grp, ro, group, project, chosen
  <1>9. IsIdentityEnv(env, res, b, grp, ro)
    BY <1>7, <1>8, IdentityEnvFacts
  <1>10. IsIdentityOf(env, integrations, readOnly, chosen)
    BY <1>4, <1>8, <1>9 DEF IsIdentityOf
  <1>11. IsIdentityOf(GitLabEnvFromIntegrations(integrations, readOnly), integrations, readOnly, chosen)
    BY <1>10 DEF env
  <1> QED  BY <1>4, <1>6, <1>11

LEMMA DaemonInScope ==
    ASSUME Handled
    PROVE  DaemonGitInScope
  <1> DEFINE a == item.agent
             integrations == item.integrations
             bound == {i \in DOMAIN integrations : integrations[i].kind \in {"gitlab-group", "gitlab-project"}}
             readOnly == [i \in DOMAIN integrations |-> LastWith(a.integrations, integrations[i].name).readOnly]
             env == out.deployment.pod.main.env
             front == AgentFront(a, item.providers)
             id == GitLabEnvFromIntegrations(integrations, readOnly)
             Identity(i) ==
                LET res == integrations[i]
                    b == res.block[res.kind]
                IN  /\ Env("GITLAB_URL") = Plain(b.baseURL)
                    /\ res.credentials # None =>
                          /\ Env("GITLAB_TOKEN") = <<"secret", res.credentials>>
                          /\ Env("GIT_TOKEN") = <<"secret", res.credentials>>
                    /\ IF res.kind = "gitlab-group"
                         THEN /\ Env("GITLAB_GROUP") = Plain(b.group)
                              /\ <<"GITLAB_PROJECT">> \notin UserVariables(a) => Env("GITLAB_PROJECT") = None
                              /\ b.projects # {} => Env("GITLAB_PROJECTS") = Plain(b.projects)
                              /\ b.readOnly => Env("GITLAB_READONLY") = Plain("true")
                         ELSE /\ Env("GITLAB_PROJECT") = Plain(b.project)
                              /\ \A j \in bound : integrations[j].kind = "gitlab-project"
                    /\ a.integrations[i].readOnly => Env("GITLAB_READONLY") = Plain("true")
  <1> SUFFICES ASSUME kind = "Agent", RenderedPods # {}, bound # {} PROVE \E i \in bound : Identity(i)
    BY DEF DaemonGitInScope
  <1>1. stage = "done" /\ out.deployment # None /\ RenderedPods = {out.deployment.pod}
    BY DEF RenderedPods
  <1>2. /\ item \in Agents /\ ValidateAgent(a)
        /\ out.deployment = BuildAgentDeployment(a, item.providers, integrations)
        /\ \A i \in DOMAIN integrations : ValidateResource(integrations[i])
    BY <1>1 DEF Handled, AgentHandled, Admitted
  <1>3. /\ IsAgent(a) /\ IsList(item.providers) /\ IsList(integrations)
        /\ Resolves(integrations, a.integrations)
    BY <1>2, InputAssumption DEF InputAssumption, Resolves, Found
  <1>4. env = front \o id
    <2> DEFINE pod == BuildAgentPodSpec(a, item.providers, integrations, FALSE)
    <2>1. out.deployment.pod = pod
      BY <1>2 DEF BuildAgentDeployment
    <2>2. pod.main.env = BuildEnvVars(a, item.providers, integrations, FALSE)
      BY PodEnv
    <2>3. BuildEnvVars(a, item.providers, integrations, FALSE) = front \o id
      BY DEF BuildEnvVars, AgentFront, When
    <2> HIDE DEF pod, front, id
    <2> QED  BY <2>1, <2>2, <2>3
  <1>5. \A n : Env(n) = EnvValue(env, <<n>>)
    <2>1. (CHOOSE pod \in RenderedPods : TRUE) = out.deployment.pod
      BY <1>1
    <2> QED  BY <2>1 DEF Env
  <1>6. /\ IsList(front)
        /\ \A n : /\ n # <<"AGENT_NAME">> /\ n # <<"AGENT_MODE">>
                  /\ n \notin UserVariables(a) /\ ~Credential(n)
                  => Nowhere(front, n)
    BY <1>3, AgentFrontFacts
  <1>7. <<"GITLAB_PROJECT">> \notin UserVariables(a) => Nowhere(front, <<"GITLAB_PROJECT">>)
    <2>1. /\ <<"GITLAB_PROJECT">> # <<"AGENT_NAME">> /\ <<"GITLAB_PROJECT">> # <<"AGENT_MODE">>
          /\ ~Credential(<<"GITLAB_PROJECT">>)
      BY DEF Credential
    <2> HIDE DEF front
    <2> QED  BY <1>6, <2>1
  <1>8. PICK i \in bound :
           /\ IsIdentityOf(id, integrations, readOnly, i)
           /\ integrations[i].kind = "gitlab-project" =>
                 \A j \in bound : integrations[j].kind = "gitlab-project"
    <2> HIDE DEF readOnly
    <2> QED  BY <1>2, <1>3, DaemonIdentity
  <1>9. readOnly[i] = a.integrations[i].readOnly
    <2> DEFINE s == a.integrations
    <2>1. IsList(s) /\ i \in DOMAIN s /\ s[i].name = integrations[i].name
      BY <1>3 DEF IsAgent, Resolves, Found
    <2>2. \A j, k \in DOMAIN s : s[j].name = s[k].name => j = k
      BY <1>2 DEF ValidateAgent, ValidateIntegrations, IsInjective
    <2>3. readOnly[i] = LastWith(s, integrations[i].name).readOnly
      OBVIOUS
    <2> HIDE DEF s, readOnly
    <2>4. LastWith(s, s[i].name) = s[i]
      BY <2>1, <2>2, LastOfOne
    <2> QED  BY <2>1, <2>3, <2>4 DEF s
  <1>10. i \in DOMAIN integrations /\ integrations[i].kind \in {"gitlab-group", "gitlab-project"}
    OBVIOUS
  <1> DEFINE res == integrations[i]
             b == res.block[res.kind]
  <1> HIDE DEF front, id, env, readOnly, bound
  <1> DEFINE Of(group, ro) ==
                /\ group <=> res.kind = "gitlab-group"
                /\ readOnly[i] => ro
                /\ group /\ b.readOnly => ro
                /\ IsIdentityEnv(id, res, b, group, ro)
  <1>a. PICK group \in BOOLEAN : \E ro : Of(group, ro)
    BY <1>8 DEF IsIdentityOf
  <1>b. PICK ro : Of(group, ro)
    BY <1>a
  <1>11. /\ group <=> res.kind = "gitlab-group"
         /\ readOnly[i] => ro
         /\ group /\ b.readOnly => ro
         /\ IsIdentityEnv(id, res, b, group, ro)
    BY <1>b
  <1>12. IsList(id)
    BY <1>11 DEF IsIdentityEnv
  <1>13. \A n, v : LastIs(id, n, v) => EnvValue(env, n) = v
    BY <1>4, <1>6, <1>12, LastRight, LastValue, ListConcat
  <1>14. \A n : Nowhere(front, n) /\ Nowhere(id, n) => EnvValue(env, n) = None
    BY <1>4, <1>6, <1>12, NowhereConcat, NoValue
  <1>15. /\ Env("GITLAB_URL") = Plain(b.baseURL)
         /\ res.credentials # None =>
               /\ Env("GITLAB_TOKEN") = <<"secret", res.credentials>>
               /\ Env("GIT_TOKEN") = <<"secret", res.credentials>>
    BY <1>5, <1>11, <1>13 DEF IsIdentityEnv
  <1>16. ro => Env("GITLAB_READONLY") = Plain("true")
    BY <1>5, <1>11, <1>13 DEF IsIdentityEnv
  <1>17. group => /\ Env("GITLAB_GROUP") = Plain(b.group)
                  /\ Nowhere(id, <<"GITLAB_PROJECT">>)
                  /\ b.projects # {} => Env("GITLAB_PROJECTS") = Plain(b.projects)
    BY <1>5, <1>11, <1>13 DEF IsIdentityEnv
  <1>18. ~group => Env("GITLAB_PROJECT") = Plain(b.project)
    BY <1>5, <1>11, <1>13 DEF IsIdentityEnv
  <1>19. group /\ <<"GITLAB_PROJECT">> \notin UserVariables(a) => Env("GITLAB_PROJECT") = None
    BY <1>5, <1>7, <1>14, <1>17
  <1>20. Identity(i)
    <2>1. group <=> res.kind = "gitlab-group"
      BY <1>11
    <2>2. a.integrations[i].readOnly => ro
      BY <1>9, <1>11
    <2>3. group /\ b.readOnly => ro
      BY <1>11
    <2>4. ~group => \A j \in bound : integrations[j].kind = "gitlab-project"
      BY <1>8, <1>10, <2>1
    <2> QED  BY <1>15, <1>16, <1>17, <1>18, <1>19, <2>1, <2>2, <2>3, <2>4
  <1> HIDE DEF Identity
  <1> QED  BY <1>20

(* For all objects: whatever the user puts into the environment, a run and *)
(* a daemon use a git platform as their Integrations say, with the         *)
(* repository, the token, the branch and the read-only flag of one and the *)
(* same Integration (ResolveGitWorkspace, GitEnvVars,                      *)
(* GitLabEnvFromIntegrations, BuildEnvVars).                               *)
THEOREM GitAlwaysInScope == Spec => []GitInScope
  <1>1. Handled => GitInScope
    BY RunInScope, DaemonInScope DEF GitInScope
  <1> QED  BY <1>1, HandledInvariant, PTL

-----------------------------------------------------------------------------
(* What lists consist of, and lists without repetitions. *)

(* No two entries of s agree in their field f. *)
Distinct(s, f) == \A i, j \in DOMAIN s : s[i][f] = s[j][f] => i = j

(* Ranges of lists that are written out and of concatenations. *)
LEMMA RangeOne ==
    ASSUME NEW e
    PROVE  IsList(<< e >>) /\ Range(<< e >>) = {e} /\ \A f : Distinct(<< e >>, f)
  <1>1. DOMAIN << e >> = {1} /\ << e >>[1] = e
    OBVIOUS
  <1> QED  BY <1>1, OneEntry DEF Range, Distinct

LEMMA RangeNone == IsList(<< >>) /\ Range(<< >>) = {} /\ \A f : Distinct(<< >>, f)
  BY EmptyList DEF Range, Distinct

LEMMA RangeConcat ==
    ASSUME NEW s, NEW t, IsList(s), IsList(t)
    PROVE  IsList(s \o t) /\ Range(s \o t) = Range(s) \cup Range(t)
  <1>1. ASSUME NEW e \in Range(s \o t) PROVE e \in Range(s) \cup Range(t)
    <2>1. PICK i \in DOMAIN (s \o t) : e = (s \o t)[i]
      BY <1>1 DEF Range
    <2>2. \/ i \in DOMAIN s /\ (s \o t)[i] = s[i]
          \/ \E j \in DOMAIN t : i = Len(s) + j /\ (s \o t)[i] = t[j]
      BY ConcatEntries
    <2> QED  BY <2>1, <2>2 DEF Range
  <1>2. ASSUME NEW i \in DOMAIN s PROVE s[i] \in Range(s \o t)
    <2>1. i \in DOMAIN (s \o t) /\ (s \o t)[i] = s[i]
      BY ListConcat
    <2> QED  BY <2>1 DEF Range
  <1>3. ASSUME NEW j \in DOMAIN t PROVE t[j] \in Range(s \o t)
    <2>1. Len(s) + j \in DOMAIN (s \o t) /\ (s \o t)[Len(s) + j] = t[j]
      BY ListConcat
    <2> QED  BY <2>1 DEF Range
  <1>4. Range(s) \cup Range(t) \subseteq Range(s \o t)
    BY <1>2, <1>3 DEF Range
  <1> QED  BY <1>1, <1>4, ListConcat

(* Two lists with different entries make one without repetitions. *)
LEMMA DistinctConcat ==
    ASSUME NEW s, NEW t, IsList(s), IsList(t), NEW f, Distinct(s, f), Distinct(t, f),
           \A d \in Range(s), e \in Range(t) : d[f] # e[f]
    PROVE  Distinct(s \o t, f)
  <1> DEFINE u == s \o t
  <1>1. \A i \in DOMAIN s : s[i] \in Range(s)
    BY DEF Range
  <1>2. \A i \in DOMAIN t : t[i] \in Range(t)
    BY DEF Range
  <1>3. \A i \in DOMAIN s, j \in DOMAIN t : s[i][f] # t[j][f]
    BY <1>1, <1>2
  <1>4. \A i \in DOMAIN u : \/ i \in DOMAIN s /\ u[i] = s[i]
                            \/ \E j \in DOMAIN t : i = Len(s) + j /\ u[i] = t[j]
    BY ConcatEntries
  <1> HIDE DEF u
  <1>5. ASSUME NEW i \in DOMAIN u, NEW j \in DOMAIN u, u[i][f] = u[j][f] PROVE i = j
    <2>1. CASE i \in DOMAIN s /\ u[i] = s[i]
      <3>1. CASE j \in DOMAIN s /\ u[j] = s[j]
        BY <1>5, <2>1, <3>1 DEF Distinct
      <3>2. CASE \E k \in DOMAIN t : j = Len(s) + k /\ u[j] = t[k]
        BY <1>3, <1>5, <2>1, <3>2
      <3> QED  BY <1>4, <3>1, <3>2
    <2>2. CASE \E k \in DOMAIN t : i = Len(s) + k /\ u[i] = t[k]
      <3>1. CASE j \in DOMAIN s /\ u[j] = s[j]
        BY <1>3, <1>5, <2>2, <3>1
      <3>2. CASE \E k \in DOMAIN t : j = Len(s) + k /\ u[j] = t[k]
        <4>1. PICK k \in DOMAIN t : i = Len(s) + k /\ u[i] = t[k]
          BY <2>2
        <4>2. PICK l \in DOMAIN t : j = Len(s) + l /\ u[j] = t[l]
          BY <3>2
        <4>3. k = l
          BY <1>5, <4>1, <4>2 DEF Distinct
        <4> QED  BY <4>1, <4>2, <4>3
      <3> QED  BY <1>4, <3>1, <3>2
    <2> QED  BY <1>4, <2>1, <2>2
  <1> QED  BY <1>5 DEF Distinct, u

(* What holds for 1, and with m for m + 1, holds up to n. *)
LEMMA UpTo ==
    ASSUME NEW n \in Nat, NEW P, n # 0 => 1 \in P,
           \A m \in 1..n : m \in P /\ m # n => m + 1 \in P
    PROVE  1..n \subseteq P
  <1> DEFINE T == {m \in 1..n : m \notin P}
  <1> SUFFICES ASSUME T # {} PROVE FALSE
    OBVIOUS
  <1>1. PICK m \in T : \A k \in T : m <= k
    <2>1. T \in SUBSET Nat
      OBVIOUS
    <2> HIDE DEF T
    <2> QED  BY <2>1, LeastNat
  <1>2. m \in 1..n /\ m \notin P /\ n # 0
    BY <1>1
  <1>3. m # 1 /\ m - 1 \in 1..n /\ m - 1 # n /\ (m - 1) + 1 = m
    BY <1>2
  <1>4. m - 1 \in P
    BY <1>1, <1>3
  <1> QED  BY <1>2, <1>3, <1>4

(* The lists that FlattenSeq puts together, and what they hold. *)
LEMMA FlattenSteps ==
    ASSUME NEW seqs, IsList(seqs), \A i \in DOMAIN seqs : IsList(seqs[i]), Len(seqs) # 0
    PROVE  \E f : /\ FlattenSeq(seqs) = f[Len(seqs)]
                  /\ \A i \in 1..Len(seqs) : f[i] = IF i = 1 THEN seqs[i] ELSE f[i-1] \o seqs[i]
  <1> DEFINE S == UNION {Range(seqs[i]) : i \in DOMAIN seqs}
             g == CHOOSE f : Flattens(f, seqs)
  <1>1. \A i \in DOMAIN seqs : Range(seqs[i]) \subseteq S
    OBVIOUS
  <1> HIDE DEF S
  <1>2. \A i \in DOMAIN seqs : seqs[i] \in Seq(S)
    BY <1>1, SeqMonotonic DEF IsList
  <1>3. seqs \in Seq(Seq(S))
    <2>1. Len(seqs) \in Nat /\ DOMAIN seqs = 1..Len(seqs) /\ seqs \in [1..Len(seqs) -> Range(seqs)]
      BY LenProperties DEF IsList
    <2>2. seqs \in [1..Len(seqs) -> Seq(S)]
      BY <1>2, <2>1
    <2> QED  BY <2>1, <2>2, SeqDef
  <1>4. Flattens(g, seqs)
    BY <1>3, FlattenExists
  <1>5. FlattenSeq(seqs) = g[Len(seqs)]
    BY DEF FlattenSeq, Flattens
  <1> HIDE DEF g
  <1>6. \A i \in 1..Len(seqs) : g[i] = IF i = 1 THEN seqs[i] ELSE g[i-1] \o seqs[i]
    BY <1>4 DEF Flattens
  <1> QED  BY <1>5, <1>6

(* FlattenSeq keeps all entries, and repeats none. *)
Flat(flat, seqs, n) ==
    IsList(flat) /\ Range(flat) = UNION {Range(seqs[i]) : i \in 1..n}

LEMMA FlattenRange ==
    ASSUME NEW seqs, IsList(seqs), \A i \in DOMAIN seqs : IsList(seqs[i])
    PROVE  Flat(FlattenSeq(seqs), seqs, Len(seqs))
  <1> DEFINE n == Len(seqs)
  <1>1. n \in Nat /\ DOMAIN seqs = 1..n
    BY ListDomain
  <1>2. CASE n = 0
    <2>1. FlattenSeq(seqs) = seqs /\ DOMAIN seqs = {} /\ 1..n = {}
      BY <1>1, <1>2 DEF FlattenSeq
    <2> QED  BY <2>1 DEF Flat, Range
  <1>3. CASE n # 0
    <2>1. PICK f : /\ FlattenSeq(seqs) = f[n]
                   /\ \A i \in 1..n : f[i] = IF i = 1 THEN seqs[i] ELSE f[i-1] \o seqs[i]
      BY <1>3, FlattenSteps
    <2> DEFINE P == {m \in 1..n : Flat(f[m], seqs, m)}
    <2>2. 1 \in P
      <3>1. 1 \in 1..n /\ f[1] = seqs[1] /\ 1..1 = {1}
        BY <1>1, <1>3, <2>1
      <3>2. Flat(f[1], seqs, 1)
        BY <1>1, <3>1 DEF Flat
      <3> QED  BY <3>1, <3>2
    <2>3. ASSUME NEW m \in 1..n, m \in P, m # n PROVE m + 1 \in P
      <3>1. m + 1 \in 1..n /\ m + 1 # 1 /\ (m + 1) - 1 = m /\ 1..m+1 = (1..m) \cup {m+1}
        <4> HIDE DEF P, n
        <4>1. m \in Nat /\ m >= 1 /\ m <= n
          BY <1>1, <2>3
        <4>2. m + 1 \in 1..n /\ m + 1 # 1 /\ (m + 1) - 1 = m
          BY <1>1, <2>3, <4>1
        <4>3. 1..m+1 = (1..m) \cup {m+1}
          BY <4>1
        <4> QED  BY <4>2, <4>3
      <3>2. f[m+1] = f[m] \o seqs[m+1] /\ IsList(seqs[m+1])
        BY <1>1, <2>1, <3>1
      <3>3. IsList(f[m]) /\ Range(f[m]) = UNION {Range(seqs[i]) : i \in 1..m}
        BY <2>3 DEF Flat
      <3>4. IsList(f[m+1]) /\ Range(f[m+1]) = Range(f[m]) \cup Range(seqs[m+1])
        BY <3>2, <3>3, RangeConcat
      <3>5. Range(f[m+1]) = UNION {Range(seqs[i]) : i \in 1..m+1}
        BY <3>1, <3>3, <3>4
      <3>6. Flat(f[m+1], seqs, m+1)
        BY <3>4, <3>5 DEF Flat
      <3> QED  BY <3>1, <3>6
    <2>4. 1..n \subseteq P
      <3> HIDE DEF P, n
      <3> QED  BY <1>1, <2>2, <2>3, UpTo
    <2>5. n \in 1..n
      BY <1>1, <1>3
    <2> QED  BY <2>1, <2>4, <2>5
  <1> QED  BY <1>2, <1>3

(* If no two lists share an entry, and none repeats one, nor does the whole. *)
LEMMA FlattenDistinct ==
    ASSUME NEW seqs, IsList(seqs), \A i \in DOMAIN seqs : IsList(seqs[i]), NEW fd,
           \A i \in DOMAIN seqs : Distinct(seqs[i], fd),
           \A i, j \in DOMAIN seqs : i # j => \A d \in Range(seqs[i]), e \in Range(seqs[j]) : d[fd] # e[fd]
    PROVE  Distinct(FlattenSeq(seqs), fd)
  <1> DEFINE n == Len(seqs)
  <1>1. n \in Nat /\ DOMAIN seqs = 1..n
    BY ListDomain
  <1>2. CASE n = 0
    <2>1. FlattenSeq(seqs) = seqs /\ DOMAIN seqs = {}
      BY <1>1, <1>2 DEF FlattenSeq
    <2> QED  BY <2>1 DEF Distinct
  <1>3. CASE n # 0
    <2>1. PICK f : /\ FlattenSeq(seqs) = f[n]
                   /\ \A i \in 1..n : f[i] = IF i = 1 THEN seqs[i] ELSE f[i-1] \o seqs[i]
      BY <1>3, FlattenSteps
    <2> DEFINE P == {m \in 1..n : Flat(f[m], seqs, m) /\ Distinct(f[m], fd)}
    <2>2. 1 \in P
      <3>1. 1 \in 1..n /\ f[1] = seqs[1] /\ 1..1 = {1}
        BY <1>1, <1>3, <2>1
      <3>2. Flat(f[1], seqs, 1) /\ Distinct(f[1], fd)
        BY <1>1, <3>1 DEF Flat
      <3> QED  BY <3>1, <3>2
    <2>3. ASSUME NEW m \in 1..n, m \in P, m # n PROVE m + 1 \in P
      <3>1. m + 1 \in 1..n /\ m + 1 # 1 /\ (m + 1) - 1 = m /\ 1..m+1 = (1..m) \cup {m+1}
        <4> HIDE DEF P, n
        <4>1. m \in Nat /\ m >= 1 /\ m <= n
          BY <1>1, <2>3
        <4>2. m + 1 \in 1..n /\ m + 1 # 1 /\ (m + 1) - 1 = m
          BY <1>1, <2>3, <4>1
        <4>3. 1..m+1 = (1..m) \cup {m+1}
          BY <4>1
        <4> QED  BY <4>2, <4>3
      <3>2. f[m+1] = f[m] \o seqs[m+1] /\ IsList(seqs[m+1])
        BY <1>1, <2>1, <3>1
      <3>3. /\ IsList(f[m]) /\ Range(f[m]) = UNION {Range(seqs[i]) : i \in 1..m}
            /\ Distinct(f[m], fd)
        BY <2>3 DEF Flat
      <3>4. IsList(f[m+1]) /\ Range(f[m+1]) = Range(f[m]) \cup Range(seqs[m+1])
        BY <3>2, <3>3, RangeConcat
      <3>5. Range(f[m+1]) = UNION {Range(seqs[i]) : i \in 1..m+1}
        BY <3>1, <3>3, <3>4
      <3>6. Flat(f[m+1], seqs, m+1)
        BY <3>4, <3>5 DEF Flat
      <3>7. \A d \in Range(f[m]), e \in Range(seqs[m+1]) : d[fd] # e[fd]
        <4>1. \A i \in 1..m : i \in DOMAIN seqs /\ m + 1 \in DOMAIN seqs /\ i # m + 1
          BY <1>1, <3>1
        <4>2. \A i \in 1..m : \A d \in Range(seqs[i]), e \in Range(seqs[m+1]) : d[fd] # e[fd]
          BY <4>1
        <4> QED  BY <3>3, <4>2
      <3>8. Distinct(f[m+1], fd)
        BY <1>1, <3>1, <3>2, <3>3, <3>7, DistinctConcat
      <3> QED  BY <3>1, <3>6, <3>8
    <2>4. 1..n \subseteq P
      <3> HIDE DEF P, n
      <3> QED  BY <1>1, <2>2, <2>3, UpTo
    <2>5. n \in 1..n
      BY <1>1, <1>3
    <2> QED  BY <2>1, <2>4, <2>5
  <1> QED  BY <1>2, <1>3

(* FlattenSeq of a single list. *)
LEMMA FlattenOne ==
    ASSUME NEW s, IsList(s)
    PROVE  FlattenSeq(<< s >>) = s
  <1> DEFINE seqs == << s >>
  <1>1. Len(seqs) = 1 /\ DOMAIN seqs = {1} /\ seqs[1] = s /\ 1 \in 1..1
    OBVIOUS
  <1>2. IsList(seqs)
    BY RangeOne
  <1> HIDE DEF seqs
  <1>3. PICK f : /\ FlattenSeq(seqs) = f[1]
                 /\ \A i \in 1..1 : f[i] = IF i = 1 THEN seqs[i] ELSE f[i-1] \o seqs[i]
    BY <1>1, <1>2, FlattenSteps
  <1> QED  BY <1>1, <1>3 DEF seqs

(* Append is a concatenation. *)
LEMMA AppendList ==
    ASSUME NEW s, IsList(s), NEW e
    PROVE  Append(s, e) = s \o << e >>
  <1> DEFINE S == Range(s) \cup {e}
  <1>1. s \in Seq(S) /\ e \in S
    <2>1. s \in Seq(Range(s)) /\ Range(s) \subseteq S /\ e \in S
      BY DEF IsList
    <2> HIDE DEF S
    <2> QED  BY <2>1, SeqMonotonic
  <1> HIDE DEF S
  <1> QED  BY <1>1, AppendIsConcat

(* An entry of a name has a last one. *)
LEMMA HasLast ==
    ASSUME NEW s, IsList(s), NEW n, \E e \in Range(s) : e.name = n
    PROVE  \E i \in DOMAIN s : s[i].name = n /\ \A j \in DOMAIN s : s[j].name = n => j <= i
  <1> DEFINE l == Len(s)
             T == {k \in 0..l : \E i \in DOMAIN s : s[i].name = n /\ k = l - i}
  <1>1. l \in Nat /\ DOMAIN s = 1..l
    BY ListDomain
  <1>2. PICK i0 \in DOMAIN s : s[i0].name = n
    BY DEF Range
  <1>3. l - i0 \in 0..l
    BY <1>1
  <1>4. T # {} /\ T \in SUBSET Nat
    <2>1. l - i0 \in T
      BY <1>2, <1>3
    <2> QED  BY <1>1, <2>1
  <1>5. PICK m \in T : \A k \in T : m <= k
    <2> HIDE DEF T
    <2> QED  BY <1>4, LeastNat
  <1>6. PICK i \in DOMAIN s : s[i].name = n /\ m = l - i
    BY <1>5
  <1>7. ASSUME NEW j \in DOMAIN s, s[j].name = n PROVE j <= i
    <2>1. l - j \in 0..l
      BY <1>1, <1>7
    <2>2. l - j \in T
      BY <1>7, <2>1
    <2>3. l - i <= l - j
      BY <1>5, <1>6, <2>2
    <2>4. i \in Nat /\ j \in Nat
      BY <1>1
    <2> QED  BY <1>1, <2>3, <2>4
  <1> QED  BY <1>6, <1>7

(* If all entries of a name have one value, so has the last. *)
LEMMA LastOfSame ==
    ASSUME NEW s, IsList(s), NEW n, NEW v, \E e \in Range(s) : e.name = n,
           \A e \in Range(s) : e.name = n => e.value = v
    PROVE  LastIs(s, n, v)
  <1>1. PICK i \in DOMAIN s : s[i].name = n /\ \A j \in DOMAIN s : s[j].name = n => j <= i
    BY HasLast
  <1>2. s[i].value = v
    BY <1>1 DEF Range
  <1> QED  BY <1>1, <1>2 DEF LastIs

-----------------------------------------------------------------------------
(* The volumes of a pod and what its containers mount. *)

LEMMA RangeThree ==
    ASSUME NEW c, NEW d, NEW e
    PROVE  /\ IsList(<< c, d, e >>) /\ Range(<< c, d, e >>) = {c, d, e}
           /\ \A f : c[f] # d[f] /\ c[f] # e[f] /\ d[f] # e[f] => Distinct(<< c, d, e >>, f)
  <1> DEFINE s == << c, d, e >>
  <1>1. DOMAIN s = {1, 2, 3} /\ s[1] = c /\ s[2] = d /\ s[3] = e
    OBVIOUS
  <1>2. IsList(s)
    BY ThreeEntriesFacts
  <1> HIDE DEF s
  <1>3. Range(s) = {c, d, e}
    BY <1>1 DEF Range
  <1>4. ASSUME NEW f, c[f] # d[f], c[f] # e[f], d[f] # e[f] PROVE Distinct(s, f)
    BY <1>1, <1>4 DEF Distinct
  <1> QED  BY <1>2, <1>3, <1>4 DEF s

VolumeNames(vs) == {v.name : v \in Range(vs)}

IsVolumes(vs, a, taskMode) ==
    /\ IsList(vs) /\ Distinct(vs, "name")
    /\ {<<"tools">>, <<"operator-config">>, <<"data">>} \subseteq VolumeNames(vs)
    /\ \A i \in DOMAIN a.contextFiles : <<"context", i>> \in VolumeNames(vs)
    /\ \A i \in DOMAIN a.tools :
          a.tools[i].pullSecret # None => <<"pull-secret", a.tools[i].name>> \in VolumeNames(vs)
    /\ \A v \in Range(vs) :
          v.source[1] = "pvc" =>
             ~taskMode /\ a.storage # None /\ v.source[2] = ObjectName(a.name, "storage")

(* The names of an agent's tools are its own. *)
OneOfEach(a) ==
    IsInjective(a.contextFiles) /\ IsInjective([i \in DOMAIN a.tools |-> a.tools[i].name])

(* The three volumes that every pod has. *)
LEMMA FixedVolumes ==
    ASSUME NEW a, NEW taskMode,
           NEW vs, vs = << Volume(<<"tools">>, <<"emptyDir">>),
                           Volume(<<"operator-config">>, <<"configMap", ObjectName(a.name, "config")>>),
                           Volume(<<"data">>, IF ~taskMode /\ a.storage # None
                                                THEN <<"pvc", ObjectName(a.name, "storage")>>
                                                ELSE <<"emptyDir">>) >>
    PROVE  /\ IsList(vs) /\ Distinct(vs, "name")
           /\ VolumeNames(vs) = {<<"tools">>, <<"operator-config">>, <<"data">>}
           /\ \A v \in Range(vs) :
                 v.source[1] = "pvc" =>
                    ~taskMode /\ a.storage # None /\ v.source[2] = ObjectName(a.name, "storage")
  <1> DEFINE src == IF ~taskMode /\ a.storage # None THEN <<"pvc", ObjectName(a.name, "storage")>>
                      ELSE <<"emptyDir">>
             c == Volume(<<"tools">>, <<"emptyDir">>)
             d == Volume(<<"operator-config">>, <<"configMap", ObjectName(a.name, "config")>>)
             e == Volume(<<"data">>, src)
  <1>1. /\ c.name = <<"tools">> /\ d.name = <<"operator-config">> /\ e.name = <<"data">>
        /\ c.source = <<"emptyDir">> /\ d.source[1] = "configMap" /\ e.source = src
    BY DEF Volume
  <1>2. vs = << c, d, e >>
    OBVIOUS
  <1>3. src[1] = "pvc" => ~taskMode /\ a.storage # None /\ src[2] = ObjectName(a.name, "storage")
    OBVIOUS
  <1> HIDE DEF c, d, e, src
  <1>4. IsList(vs) /\ Range(vs) = {c, d, e}
    BY <1>2, RangeThree
  <1>5. Distinct(vs, "name")
    <2>1. c["name"] # d["name"] /\ c["name"] # e["name"] /\ d["name"] # e["name"]
      BY <1>1
    <2> QED  BY <1>2, <2>1, RangeThree
  <1>6. VolumeNames(vs) = {<<"tools">>, <<"operator-config">>, <<"data">>}
    BY <1>1, <1>4 DEF VolumeNames
  <1>7. c.source[1] # "pvc" /\ d.source[1] # "pvc"
    BY <1>1
  <1> QED  BY <1>1, <1>3, <1>4, <1>5, <1>6, <1>7

(* One volume per context file. *)
LEMMA ContextVolumes ==
    ASSUME NEW a, IsList(a.contextFiles),
           NEW vs, vs = [i \in DOMAIN a.contextFiles |-> Volume(<<"context", i>>, <<"configMap", a.contextFiles[i]>>)]
    PROVE  /\ IsList(vs) /\ Distinct(vs, "name")
           /\ VolumeNames(vs) = {<<"context", i>> : i \in DOMAIN a.contextFiles}
           /\ \A v \in Range(vs) : v.source[1] # "pvc"
  <1>1. /\ IsList(vs) /\ DOMAIN vs = DOMAIN a.contextFiles
        /\ \A i \in DOMAIN vs : vs[i].name = <<"context", i>> /\ vs[i].source[1] = "configMap"
    <2>1. IsList(vs)
      BY MapList
    <2> QED  BY <2>1 DEF Volume
  <1>2. Distinct(vs, "name")
    <2>1. ASSUME NEW i \in DOMAIN vs, NEW j \in DOMAIN vs, vs[i]["name"] = vs[j]["name"] PROVE i = j
      <3>1. <<"context", i>> = <<"context", j>>
        BY <1>1, <2>1
      <3> QED  BY <3>1
    <2> QED  BY <2>1 DEF Distinct
  <1>3. VolumeNames(vs) = {<<"context", i>> : i \in DOMAIN a.contextFiles}
    <2>1. \A n : n \in VolumeNames(vs) <=> \E i \in DOMAIN vs : n = vs[i].name
      BY DEF VolumeNames, Range
    <2>2. ASSUME NEW n \in VolumeNames(vs) PROVE \E i \in DOMAIN a.contextFiles : n = <<"context", i>>
      <3>1. PICK i \in DOMAIN vs : n = vs[i].name
        BY <2>1
      <3>2. i \in DOMAIN a.contextFiles /\ n = <<"context", i>>
        BY <1>1, <3>1
      <3> QED  BY <3>2
    <2>3. ASSUME NEW i \in DOMAIN a.contextFiles PROVE <<"context", i>> \in VolumeNames(vs)
      BY <1>1, <2>1
    <2> QED  BY <2>2, <2>3
  <1>4. \A v \in Range(vs) : v.source[1] # "pvc"
    BY <1>1 DEF Range
  <1> QED  BY <1>1, <1>2, <1>3, <1>4

(* One volume per tool with a pull secret. *)
LEMMA PullSecretVolumes ==
    ASSUME NEW a, IsList(a.tools), IsInjective([i \in DOMAIN a.tools |-> a.tools[i].name]),
           NEW vs, vs = FlattenSeq([i \in DOMAIN a.tools |->
                           When(a.tools[i].pullSecret # None,
                                << Volume(<<"pull-secret", a.tools[i].name>>,
                                          <<"secret", a.tools[i].pullSecret>>) >>)])
    PROVE  /\ IsList(vs) /\ Distinct(vs, "name")
           /\ VolumeNames(vs) = {<<"pull-secret", a.tools[i].name>> :
                                    i \in {j \in DOMAIN a.tools : a.tools[j].pullSecret # None}}
           /\ \A v \in Range(vs) : v.source[1] # "pvc"
  <1> DEFINE V(i) == Volume(<<"pull-secret", a.tools[i].name>>, <<"secret", a.tools[i].pullSecret>>)
             Has(i) == a.tools[i].pullSecret # None
             t == [i \in DOMAIN a.tools |-> IF Has(i) THEN << V(i) >> ELSE << >>]
             D == {j \in DOMAIN a.tools : Has(j)}
  <1>1. /\ t = [i \in DOMAIN a.tools |-> t[i]] /\ DOMAIN t = DOMAIN a.tools
        /\ vs = FlattenSeq(t)
    BY DEF When
  <1>2. \A i \in DOMAIN a.tools :
           V(i).name = <<"pull-secret", a.tools[i].name>> /\ V(i).source[1] # "pvc"
    BY DEF Volume
  <1>3. \A i \in DOMAIN a.tools : t[i] = IF Has(i) THEN << V(i) >> ELSE << >>
    OBVIOUS
  <1>4. \A i, j \in DOMAIN a.tools : a.tools[i].name = a.tools[j].name => i = j
    BY DEF IsInjective
  <1> HIDE DEF t, V, Has
  <1>5. \A i \in DOMAIN t : /\ IsList(t[i]) /\ Distinct(t[i], "name")
                            /\ Range(t[i]) = IF Has(i) THEN {V(i)} ELSE {}
    BY <1>1, <1>3, RangeOne, RangeNone
  <1>6. IsList(t)
    BY <1>1, MapList
  <1>7. \A i, j \in DOMAIN t : i # j => \A d \in Range(t[i]), e \in Range(t[j]) : d["name"] # e["name"]
    <2> SUFFICES ASSUME NEW i \in DOMAIN t, NEW j \in DOMAIN t, i # j,
                        NEW d \in Range(t[i]), NEW e \in Range(t[j])
                 PROVE  d["name"] # e["name"]
      OBVIOUS
    <2>1. d = V(i) /\ e = V(j)
      BY <1>5
    <2>2. a.tools[i].name # a.tools[j].name
      BY <1>1, <1>4
    <2>3. d.name = <<"pull-secret", a.tools[i].name>> /\ e.name = <<"pull-secret", a.tools[j].name>>
      BY <1>1, <1>2, <2>1
    <2> QED  BY <2>2, <2>3
  <1>8. Distinct(vs, "name")
    <2>1. \A i \in DOMAIN t : IsList(t[i])
      BY <1>5
    <2>2. \A i \in DOMAIN t : Distinct(t[i], "name")
      BY <1>5
    <2>3. Distinct(FlattenSeq(t), "name")
      BY <1>6, <1>7, <2>1, <2>2, FlattenDistinct
    <2> QED  BY <1>1, <2>3
  <1>9. IsList(vs) /\ Range(vs) = {V(i) : i \in D}
    <2>1. Flat(vs, t, Len(t))
      BY <1>1, <1>5, <1>6, FlattenRange
    <2>2. DOMAIN t = 1..Len(t)
      BY <1>6, ListDomain
    <2>3. IsList(vs) /\ Range(vs) = UNION {Range(t[i]) : i \in DOMAIN t}
      BY <2>1, <2>2 DEF Flat
    <2>4. \A v : v \in Range(vs) <=> \E i \in DOMAIN t : v \in Range(t[i])
      BY <2>3
    <2>5. ASSUME NEW v \in Range(vs) PROVE \E i \in D : v = V(i)
      <3>1. PICK i \in DOMAIN t : v \in Range(t[i])
        BY <2>4
      <3>2. Has(i) /\ v = V(i)
        BY <1>5, <3>1
      <3>3. i \in D
        BY <1>1, <3>2
      <3> QED  BY <3>2, <3>3
    <2>6. ASSUME NEW i \in D PROVE V(i) \in Range(vs)
      <3>1. i \in DOMAIN t /\ Has(i)
        BY <1>1
      <3>2. V(i) \in Range(t[i])
        BY <1>5, <3>1
      <3> QED  BY <2>4, <3>1, <3>2
    <2> QED  BY <2>3, <2>5, <2>6
  <1>10. VolumeNames(vs) = {<<"pull-secret", a.tools[i].name>> : i \in D}
    <2>1. VolumeNames(vs) = {V(i).name : i \in D}
      BY <1>9 DEF VolumeNames
    <2>2. \A i \in D : V(i).name = <<"pull-secret", a.tools[i].name>>
      BY <1>2
    <2> QED  BY <2>1, <2>2
  <1>11. \A v \in Range(vs) : v.source[1] # "pvc"
    BY <1>2, <1>9
  <1> QED  BY <1>8, <1>9, <1>10, <1>11 DEF Has

(* The names of the volumes of two lists. *)
LEMMA NamesConcat ==
    ASSUME NEW s, NEW t, IsList(s), IsList(t)
    PROVE  VolumeNames(s \o t) = VolumeNames(s) \cup VolumeNames(t)
  BY RangeConcat DEF VolumeNames

LEMMA DistinctNames ==
    ASSUME NEW s, NEW t, IsList(s), IsList(t), Distinct(s, "name"), Distinct(t, "name"),
           VolumeNames(s) \cap VolumeNames(t) = {}
    PROVE  Distinct(s \o t, "name")
  <1>1. ASSUME NEW d \in Range(s), NEW e \in Range(t) PROVE d["name"] # e["name"]
    <2>1. d.name \in VolumeNames(s) /\ e.name \in VolumeNames(t)
      BY DEF VolumeNames
    <2>2. d.name # e.name
      BY <2>1
    <2> QED  BY <2>2
  <1> QED  BY <1>1, DistinctConcat

(* All of BuildVolumes. *)
LEMMA AgentVolumes ==
    ASSUME NEW a, IsAgent(a), OneOfEach(a), NEW taskMode
    PROVE  IsVolumes(BuildVolumes(a, taskMode), a, taskMode)
  <1> DEFINE F == << Volume(<<"tools">>, <<"emptyDir">>),
                     Volume(<<"operator-config">>, <<"configMap", ObjectName(a.name, "config")>>),
                     Volume(<<"data">>, IF ~taskMode /\ a.storage # None
                                          THEN <<"pvc", ObjectName(a.name, "storage")>> ELSE <<"emptyDir">>) >>
             C == [i \in DOMAIN a.contextFiles |-> Volume(<<"context", i>>, <<"configMap", a.contextFiles[i]>>)]
             T == FlattenSeq([i \in DOMAIN a.tools |->
                     When(a.tools[i].pullSecret # None,
                          << Volume(<<"pull-secret", a.tools[i].name>>,
                                    <<"secret", a.tools[i].pullSecret>>) >>)])
             Pvc(v) == v.source[1] = "pvc" =>
                          ~taskMode /\ a.storage # None /\ v.source[2] = ObjectName(a.name, "storage")
             vs == BuildVolumes(a, taskMode)
             NF == {<<"tools">>, <<"operator-config">>, <<"data">>}
             NC == {<<"context", i>> : i \in DOMAIN a.contextFiles}
             NT == {<<"pull-secret", a.tools[i].name>> : i \in {j \in DOMAIN a.tools : a.tools[j].pullSecret # None}}
  <1>1. vs = (F \o C) \o T
    BY DEF BuildVolumes
  <1>2. /\ IsList(a.contextFiles) /\ IsList(a.tools)
        /\ IsInjective([i \in DOMAIN a.tools |-> a.tools[i].name])
    BY DEF IsAgent, OneOfEach
  <1>3. IsList(F) /\ Distinct(F, "name") /\ VolumeNames(F) = NF /\ \A v \in Range(F) : Pvc(v)
    BY FixedVolumes
  <1>4. IsList(C) /\ Distinct(C, "name") /\ VolumeNames(C) = NC /\ \A v \in Range(C) : Pvc(v)
    BY <1>2, ContextVolumes
  <1>5. IsList(T) /\ Distinct(T, "name") /\ VolumeNames(T) = NT /\ \A v \in Range(T) : Pvc(v)
    BY <1>2, PullSecretVolumes
  <1>6. NF \cap NC = {} /\ NF \cap NT = {} /\ NC \cap NT = {}
    <2>1. \A i : <<"context", i>> \notin NF
      OBVIOUS
    <2>2. \A n : <<"pull-secret", n>> \notin NF
      OBVIOUS
    <2>3. \A i, n : <<"context", i>> # <<"pull-secret", n>>
      OBVIOUS
    <2> HIDE DEF NF
    <2> QED  BY <2>1, <2>2, <2>3
  <1>7. /\ \A i \in DOMAIN a.contextFiles : <<"context", i>> \in NC
        /\ \A i \in DOMAIN a.tools : a.tools[i].pullSecret # None => <<"pull-secret", a.tools[i].name>> \in NT
    OBVIOUS
  <1> HIDE DEF F, C, T, vs, NF, NC, NT, Pvc
  <1>8. /\ IsList(F \o C) /\ Range(F \o C) = Range(F) \cup Range(C)
        /\ VolumeNames(F \o C) = NF \cup NC /\ Distinct(F \o C, "name")
    <2>1. VolumeNames(F) \cap VolumeNames(C) = {}
      BY <1>3, <1>4, <1>6
    <2> QED  BY <1>3, <1>4, <2>1, RangeConcat, NamesConcat, DistinctNames
  <1>9. /\ IsList(vs) /\ Range(vs) = (Range(F) \cup Range(C)) \cup Range(T)
        /\ VolumeNames(vs) = (NF \cup NC) \cup NT /\ Distinct(vs, "name")
    <2>1. VolumeNames(F \o C) \cap VolumeNames(T) = {}
      BY <1>5, <1>6, <1>8
    <2> QED  BY <1>1, <1>5, <1>8, <2>1, RangeConcat, NamesConcat, DistinctNames
  <1>10. \A v \in Range(vs) : Pvc(v)
    BY <1>3, <1>4, <1>5, <1>9
  <1>11. IsVolumes(vs, a, taskMode)
    BY <1>7, <1>9, <1>10 DEF IsVolumes, Pvc, NF
  <1> QED  BY <1>11 DEF vs

(* ApplySecurity adds a volume for /tmp, and a mount of it. *)
LEMMA VolumesApplied ==
    ASSUME NEW a, NEW taskMode, NEW vs, IsVolumes(vs, a, taskMode),
           NEW ws, ws = IF \E i \in DOMAIN vs : vs[i].name = <<"tmp">> THEN vs
                          ELSE Append(vs, Volume(<<"tmp">>, <<"emptyDir">>))
    PROVE  IsVolumes(ws, a, taskMode) /\ <<"tmp">> \in VolumeNames(ws)
  <1>1. CASE \E i \in DOMAIN vs : vs[i].name = <<"tmp">>
    <2>1. ws = vs
      BY <1>1
    <2>2. <<"tmp">> \in VolumeNames(vs)
      BY <1>1 DEF VolumeNames, Range
    <2> QED  BY <2>1, <2>2
  <1>2. CASE ~(\E i \in DOMAIN vs : vs[i].name = <<"tmp">>)
    <2> DEFINE t == Volume(<<"tmp">>, <<"emptyDir">>)
    <2>1. t.name = <<"tmp">> /\ t.source[1] # "pvc"
      BY DEF Volume
    <2>2. ws = Append(vs, t)
      BY <1>2
    <2> HIDE DEF t
    <2>3. IsList(vs) /\ Distinct(vs, "name")
      BY DEF IsVolumes
    <2>4. ws = vs \o << t >>
      BY <2>2, <2>3, AppendList
    <2>5. IsList(<< t >>) /\ Range(<< t >>) = {t} /\ Distinct(<< t >>, "name")
      BY RangeOne
    <2>6. VolumeNames(<< t >>) = {<<"tmp">>} /\ <<"tmp">> \notin VolumeNames(vs)
      BY <1>2, <2>1, <2>5 DEF VolumeNames, Range
    <2>7. /\ IsList(ws) /\ Range(ws) = Range(vs) \cup {t} /\ Distinct(ws, "name")
          /\ VolumeNames(ws) = VolumeNames(vs) \cup {<<"tmp">>}
      <3> DEFINE o == << t >>
      <3>1. IsList(o) /\ Range(o) = {t} /\ Distinct(o, "name") /\ VolumeNames(o) = {<<"tmp">>} /\ ws = vs \o o
        BY <2>4, <2>5, <2>6
      <3> HIDE DEF o
      <3>2. IsList(ws) /\ Range(ws) = Range(vs) \cup {t}
        BY <2>3, <3>1, RangeConcat
      <3>3. VolumeNames(ws) = VolumeNames(vs) \cup {<<"tmp">>}
        BY <2>3, <3>1, NamesConcat
      <3>4. VolumeNames(vs) \cap VolumeNames(o) = {}
        BY <2>6, <3>1
      <3>5. Distinct(ws, "name")
        BY <2>3, <3>1, <3>4, DistinctNames
      <3> QED  BY <3>2, <3>3, <3>5
    <2>8. IsVolumes(ws, a, taskMode)
      BY <2>1, <2>7 DEF IsVolumes
    <2> QED  BY <2>7, <2>8
  <1> QED  BY <1>1, <1>2

(* Each mount has its path for itself and its volume in N. *)
WellMounted(ms, N) ==
    IsList(ms) /\ Distinct(ms, "path") /\ \A m \in Range(ms) : m.volume \in N

(* With the mount of /tmp, mounts are still at paths of their own. *)
LEMMA MountsApplied ==
    ASSUME NEW ms, NEW N, WellMounted(ms, N), <<"tmp">> \in N, \A m \in Range(ms) : m.path # <<"/tmp">>,
           NEW ns, ns = IF \E i \in DOMAIN ms : ms[i].volume = <<"tmp">> THEN ms
                          ELSE Append(ms, Mount(<<"tmp">>, <<"/tmp">>))
    PROVE  WellMounted(ns, N)
  <1>1. CASE \E i \in DOMAIN ms : ms[i].volume = <<"tmp">>
    BY <1>1
  <1>2. CASE ~(\E i \in DOMAIN ms : ms[i].volume = <<"tmp">>)
    <2> DEFINE t == Mount(<<"tmp">>, <<"/tmp">>)
    <2>1. t.path = <<"/tmp">> /\ t.volume = <<"tmp">>
      BY DEF Mount
    <2>2. ns = Append(ms, t)
      BY <1>2
    <2> HIDE DEF t
    <2>3. IsList(ms) /\ Distinct(ms, "path")
      BY DEF WellMounted
    <2>4. ns = ms \o << t >>
      BY <2>2, <2>3, AppendList
    <2>5. IsList(<< t >>) /\ Range(<< t >>) = {t} /\ Distinct(<< t >>, "path")
      BY RangeOne
    <2>6. \A d \in Range(ms), e \in Range(<< t >>) : d["path"] # e["path"]
      BY <2>1, <2>5
    <2>7. IsList(ns) /\ Range(ns) = Range(ms) \cup {t} /\ Distinct(ns, "path")
      <3> DEFINE o == << t >>
      <3>1. /\ IsList(o) /\ Range(o) = {t} /\ Distinct(o, "path") /\ ns = ms \o o
            /\ \A d \in Range(ms), e \in Range(o) : d["path"] # e["path"]
        BY <2>4, <2>5, <2>6
      <3> HIDE DEF o
      <3>2. IsList(ns) /\ Range(ns) = Range(ms) \cup {t}
        BY <2>3, <3>1, RangeConcat
      <3>3. Distinct(ns, "path")
        BY <2>3, <3>1, DistinctConcat
      <3> QED  BY <3>2, <3>3
    <2> QED  BY <2>1, <2>7 DEF WellMounted
  <1> QED  BY <1>1, <1>2

(* What an init container mounts. *)
LEMMA InitMounts ==
    ASSUME NEW t, NEW N, <<"tools">> \in N, t.pullSecret # None => <<"pull-secret", t.name>> \in N,
           NEW ms, ms = << Mount(<<"tools">>, <<"/tools">>) >>
                        \o (IF t.pullSecret # None
                              THEN << Mount(<<"pull-secret", t.name>>, <<"/tmp/pull-secret">>) >> ELSE << >>)
    PROVE  WellMounted(ms, N) /\ \A m \in Range(ms) : m.path # <<"/tmp">>
  <1> DEFINE d == Mount(<<"tools">>, <<"/tools">>)
             e == Mount(<<"pull-secret", t.name>>, <<"/tmp/pull-secret">>)
             o == << d >>
             p == IF t.pullSecret # None THEN << e >> ELSE << >>
  <1>1. /\ d.volume = <<"tools">> /\ d.path = <<"/tools">>
        /\ e.volume = <<"pull-secret", t.name>> /\ e.path = <<"/tmp/pull-secret">>
    BY DEF Mount
  <1>2. ms = o \o p
    OBVIOUS
  <1> HIDE DEF d, e
  <1>3. IsList(o) /\ Range(o) = {d} /\ Distinct(o, "path")
    BY RangeOne
  <1>4. IsList(p) /\ Range(p) \subseteq {e} /\ Distinct(p, "path") /\ (p # << >> => t.pullSecret # None)
    BY RangeOne, RangeNone
  <1>5. Range(p) # {} => t.pullSecret # None
    BY RangeNone
  <1> HIDE DEF o, p
  <1>6. \A x \in Range(o), y \in Range(p) : x["path"] # y["path"]
    <2>1. d["path"] # e["path"]
      BY <1>1
    <2> QED  BY <1>3, <1>4, <2>1
  <1>7. IsList(ms) /\ Range(ms) = Range(o) \cup Range(p)
    BY <1>2, <1>3, <1>4, RangeConcat
  <1>8. Distinct(ms, "path")
    BY <1>2, <1>3, <1>4, <1>6, DistinctConcat
  <1>9. \A m \in Range(ms) : m.volume \in N /\ m.path # <<"/tmp">>
    <2>1. d.volume \in N /\ d.path # <<"/tmp">> /\ e.path # <<"/tmp">>
      BY <1>1
    <2>2. Range(p) # {} => e.volume \in N
      BY <1>1, <1>5
    <2> QED  BY <1>3, <1>4, <1>7, <2>1, <2>2
  <1> QED  BY <1>7, <1>8, <1>9 DEF WellMounted

(* What the main container mounts. *)
LEMMA MainMounts ==
    ASSUME NEW a, IsList(a.contextFiles), IsInjective(a.contextFiles),
           NEW N, {<<"tools">>, <<"operator-config">>, <<"data">>} \subseteq N,
           \A i \in DOMAIN a.contextFiles : <<"context", i>> \in N,
           NEW ms, ms = << Mount(<<"tools">>, <<"/tools">>), Mount(<<"operator-config">>, <<"/etc/operator">>),
                           Mount(<<"data">>, <<"/data">>) >>
                        \o [i \in DOMAIN a.contextFiles |->
                              Mount(<<"context", i>>, <<"/etc/context", a.contextFiles[i]>>)]
    PROVE  WellMounted(ms, N) /\ \A m \in Range(ms) : m.path # <<"/tmp">>
  <1> DEFINE c == Mount(<<"tools">>, <<"/tools">>)
             d == Mount(<<"operator-config">>, <<"/etc/operator">>)
             e == Mount(<<"data">>, <<"/data">>)
             o == << c, d, e >>
             p == [i \in DOMAIN a.contextFiles |->
                     Mount(<<"context", i>>, <<"/etc/context", a.contextFiles[i]>>)]
  <1>1. /\ c.volume = <<"tools">> /\ c.path = <<"/tools">>
        /\ d.volume = <<"operator-config">> /\ d.path = <<"/etc/operator">>
        /\ e.volume = <<"data">> /\ e.path = <<"/data">>
    BY DEF Mount
  <1>2. ms = o \o p
    OBVIOUS
  <1>3. /\ p = [i \in DOMAIN a.contextFiles |-> p[i]] /\ DOMAIN p = DOMAIN a.contextFiles
        /\ \A i \in DOMAIN p : p[i].volume = <<"context", i>> /\ p[i].path = <<"/etc/context", a.contextFiles[i]>>
    BY DEF Mount
  <1> HIDE DEF c, d, e
  <1>4. IsList(o) /\ Range(o) = {c, d, e} /\ Distinct(o, "path")
    <2>1. c["path"] # d["path"] /\ c["path"] # e["path"] /\ d["path"] # e["path"]
      BY <1>1
    <2> QED  BY <2>1, RangeThree
  <1> HIDE DEF o, p
  <1>5. IsList(p)
    BY <1>3, MapList
  <1>6. Distinct(p, "path")
    <2>1. ASSUME NEW i \in DOMAIN p, NEW j \in DOMAIN p, p[i]["path"] = p[j]["path"] PROVE i = j
      <3>1. <<"/etc/context", a.contextFiles[i]>> = <<"/etc/context", a.contextFiles[j]>>
        BY <1>3, <2>1
      <3>2. a.contextFiles[i] = a.contextFiles[j]
        BY <3>1
      <3> QED  BY <1>3, <3>2 DEF IsInjective
    <2> QED  BY <2>1 DEF Distinct
  <1>7. ASSUME NEW m \in Range(p)
        PROVE  /\ m.volume \in N /\ m.path # <<"/tmp">>
               /\ m.path # c.path /\ m.path # d.path /\ m.path # e.path
    <2>1. PICK i \in DOMAIN p : m = p[i]
      BY DEF Range
    <2>2. m.volume = <<"context", i>> /\ m.path = <<"/etc/context", a.contextFiles[i]>>
      BY <1>3, <2>1
    <2>3. m.volume \in N
      BY <1>3, <2>2
    <2>4. /\ m.path # <<"/tmp">> /\ m.path # c.path /\ m.path # d.path /\ m.path # e.path
      BY <1>1, <2>2
    <2> QED  BY <2>3, <2>4
  <1>8. \A x \in Range(o), y \in Range(p) : x["path"] # y["path"]
    BY <1>4, <1>7
  <1>9. IsList(ms) /\ Range(ms) = Range(o) \cup Range(p)
    BY <1>2, <1>4, <1>5, RangeConcat
  <1>10. Distinct(ms, "path")
    BY <1>2, <1>4, <1>5, <1>6, <1>8, DistinctConcat
  <1>11. \A m \in Range(o) : m.volume \in N /\ m.path # <<"/tmp">>
    <2>1. c.volume \in N /\ d.volume \in N /\ e.volume \in N
      BY <1>1
    <2>2. c.path # <<"/tmp">> /\ d.path # <<"/tmp">> /\ e.path # <<"/tmp">>
      BY <1>1
    <2> QED  BY <1>4, <2>1, <2>2
  <1> QED  BY <1>7, <1>9, <1>10, <1>11 DEF WellMounted

(* A container after ApplyContainer. *)
LEMMA ContainerBuilt ==
    ASSUME NEW name, NEW ms, NEW env, NEW target, NEW ports, NEW sc,
           NEW c, c = ApplyContainer(Container(name, ms, env, target, ports), sc)
    PROVE  /\ c.env = env /\ c.target = target /\ c.ports = ports
           /\ c.mounts = IF \E i \in DOMAIN ms : ms[i].volume = <<"tmp">> THEN ms
                           ELSE Append(ms, Mount(<<"tmp">>, <<"/tmp">>))
  BY DEF ApplyContainer, Container

(* What the properties need of an agent's pod. *)
IsPod(pod, a, taskMode) ==
    /\ IsVolumes(pod.volumes, a, taskMode)
    /\ WellMounted(pod.main.mounts, VolumeNames(pod.volumes))
    /\ DOMAIN pod.init = DOMAIN a.tools
    /\ \A i \in DOMAIN a.tools : /\ pod.init[i].target = a.tools[i].name
                                 /\ WellMounted(pod.init[i].mounts, VolumeNames(pod.volumes))
    /\ pod.account = AgentServiceAccountName(a)
    /\ pod.main.ports = IF taskMode THEN {} ELSE {AgentRuntimePort}

(* BuildAgentPodSpec builds such a pod. *)
LEMMA PodBuilt ==
    ASSUME NEW a, IsAgent(a), OneOfEach(a), NEW providers, NEW integrations, NEW taskMode
    PROVE  IsPod(BuildAgentPodSpec(a, providers, integrations, taskMode), a, taskMode)
  <1> DEFINE pod == BuildAgentPodSpec(a, providers, integrations, taskMode)
             main == BuildMainContainer(a, providers, integrations, taskMode)
             init == BuildInitContainers(a)
             vs == BuildVolumes(a, taskMode)
             account == AgentServiceAccountName(a)
             N == VolumeNames(pod.volumes)
  <1>1. pod = ApplySecurity([init |-> init, main |-> main, volumes |-> vs,
                             account |-> account, sc |-> None, automount |-> None], a.security)
    BY DEF BuildAgentPodSpec
  <1>2. IsVolumes(vs, a, taskMode)
    BY AgentVolumes
  <1>3. IsList(a.contextFiles) /\ IsInjective(a.contextFiles)
    BY DEF IsAgent, OneOfEach
  <1> HIDE DEF pod, main, init, vs, account
  <1>4. /\ pod.main = ApplyContainer(main, MergeContainerSecurityContext(a.security.container).out)
        /\ pod.init = [i \in DOMAIN init |-> ApplyContainer(init[i], RestrictedContainerSecurityContext)]
        /\ pod.account = account
        /\ pod.volumes = IF \E i \in DOMAIN vs : vs[i].name = <<"tmp">> THEN vs
                           ELSE Append(vs, Volume(<<"tmp">>, <<"emptyDir">>))
    BY <1>1 DEF ApplySecurity
  <1>5. IsVolumes(pod.volumes, a, taskMode) /\ <<"tmp">> \in N
    BY <1>2, <1>4, VolumesApplied
  <1>6. /\ {<<"tools">>, <<"operator-config">>, <<"data">>} \subseteq N
        /\ \A i \in DOMAIN a.contextFiles : <<"context", i>> \in N
        /\ \A i \in DOMAIN a.tools :
              a.tools[i].pullSecret # None => <<"pull-secret", a.tools[i].name>> \in N
    BY <1>5 DEF IsVolumes
  <1> HIDE DEF N
  <1>7. /\ WellMounted(pod.main.mounts, N)
        /\ pod.main.ports = IF taskMode THEN {} ELSE {AgentRuntimePort}
    <2> DEFINE ms == << Mount(<<"tools">>, <<"/tools">>), Mount(<<"operator-config">>, <<"/etc/operator">>),
                        Mount(<<"data">>, <<"/data">>) >>
                     \o [i \in DOMAIN a.contextFiles |->
                           Mount(<<"context", i>>, <<"/etc/context", a.contextFiles[i]>>)]
               ports == IF taskMode THEN {} ELSE {AgentRuntimePort}
    <2>1. \E name, env, target : main = Container(name, ms, env, target, ports)
      BY DEF BuildMainContainer, main
    <2>2. WellMounted(ms, N) /\ \A m \in Range(ms) : m.path # <<"/tmp">>
      BY <1>3, <1>6, MainMounts
    <2> HIDE DEF ms, ports
    <2>3. /\ pod.main.ports = ports
          /\ pod.main.mounts = IF \E i \in DOMAIN ms : ms[i].volume = <<"tmp">> THEN ms
                                 ELSE Append(ms, Mount(<<"tmp">>, <<"/tmp">>))
      BY <1>4, <2>1, ContainerBuilt
    <2>4. WellMounted(pod.main.mounts, N)
      BY <1>5, <2>2, <2>3, MountsApplied
    <2> QED  BY <2>3, <2>4 DEF ports
  <1>8. DOMAIN pod.init = DOMAIN a.tools
    BY <1>4 DEF BuildInitContainers, init
  <1>9. ASSUME NEW i \in DOMAIN a.tools
        PROVE  pod.init[i].target = a.tools[i].name /\ WellMounted(pod.init[i].mounts, N)
    <2> DEFINE t == a.tools[i]
               ms == << Mount(<<"tools">>, <<"/tools">>) >>
                     \o (IF t.pullSecret # None
                           THEN << Mount(<<"pull-secret", t.name>>, <<"/tmp/pull-secret">>) >> ELSE << >>)
    <2>1. \E name, env, ports : init[i] = Container(name, ms, env, t.name, ports)
      <3> DEFINE name == <<"init-pull-tool", t.name>>
                 env == << EnvVar(<<"HOME">>, "/tmp") >>
                        \o When(t.pullSecret # None, << EnvVar(<<"DOCKER_CONFIG">>, "/tmp/docker-config") >>)
      <3>1. init[i] = Container(name, ms, env, t.name, {})
        BY Zenon DEF BuildInitContainers, When, init
      <3> HIDE DEF ms, env, name
      <3> QED  BY <3>1
    <2>2. WellMounted(ms, N) /\ \A m \in Range(ms) : m.path # <<"/tmp">>
      <3>1. <<"tools">> \in N /\ (t.pullSecret # None => <<"pull-secret", t.name>> \in N)
        BY <1>6
      <3> HIDE DEF t
      <3> QED  BY <3>1, InitMounts
    <2>3. pod.init[i] = ApplyContainer(init[i], RestrictedContainerSecurityContext)
      BY <1>4, <1>8
    <2> HIDE DEF ms
    <2>4. /\ pod.init[i].target = t.name
          /\ pod.init[i].mounts = IF \E j \in DOMAIN ms : ms[j].volume = <<"tmp">> THEN ms
                                    ELSE Append(ms, Mount(<<"tmp">>, <<"/tmp">>))
      <3>1. PICK name, env, ports : init[i] = Container(name, ms, env, t.name, ports)
        BY <2>1
      <3>2. pod.init[i] = ApplyContainer(Container(name, ms, env, t.name, ports),
                                         RestrictedContainerSecurityContext)
        BY <2>3, <3>1
      <3> HIDE DEF t
      <3> QED  BY <3>2, ContainerBuilt
    <2>5. WellMounted(pod.init[i].mounts, N)
      BY <1>5, <2>2, <2>4, MountsApplied
    <2> QED  BY <2>4, <2>5
  <1>10. IsPod(pod, a, taskMode)
    BY <1>4, <1>5, <1>7, <1>8, <1>9 DEF IsPod, N, account
  <1> QED  BY <1>10 DEF pod

(* The pod of a run is that of the agent but for the source of its config. *)
LEMMA SourcesReplaced ==
    ASSUME NEW a, NEW taskMode, NEW vs, IsVolumes(vs, a, taskMode), NEW name,
           NEW ws, ws = [i \in DOMAIN vs |-> ws[i]],
           \A i \in DOMAIN vs : ws[i] \in {vs[i], Volume(vs[i].name, <<"configMap", name>>)}
    PROVE  IsVolumes(ws, a, taskMode) /\ VolumeNames(ws) = VolumeNames(vs)
  <1>1. /\ DOMAIN ws = DOMAIN vs /\ ws = [i \in DOMAIN vs |-> ws[i]]
        /\ \A i \in DOMAIN vs : /\ ws[i].name = vs[i].name
                                /\ ws[i].source[1] = "pvc" => ws[i] = vs[i]
    BY DEF Volume
  <1>2. IsList(ws)
    BY <1>1, MapList DEF IsVolumes
  <1>3. Distinct(ws, "name")
    <2>1. \A i \in DOMAIN vs : ws[i]["name"] = vs[i]["name"]
      BY <1>1
    <2> QED  BY <1>1, <2>1 DEF IsVolumes, Distinct
  <1>4. VolumeNames(ws) = VolumeNames(vs)
    BY <1>1 DEF VolumeNames, Range
  <1>5. \A v \in Range(ws) : v.source[1] = "pvc" => v \in Range(vs)
    BY <1>1 DEF Range
  <1> QED  BY <1>2, <1>3, <1>4, <1>5 DEF IsVolumes

(* And so does BuildAgentRunJob. *)
LEMMA JobBuilt ==
    ASSUME NEW a, IsAgent(a), OneOfEach(a), NEW run, NEW providers, NEW g
    PROVE  IsPod(BuildAgentRunJob(a, run, providers, g).pod, a, TRUE)
  <1> DEFINE taskMode == TRUE
             pod == BuildAgentPodSpec(a, providers, << >>, taskMode)
             job == BuildAgentRunJob(a, run, providers, g).pod
             vols == [i \in DOMAIN pod.volumes |->
                        IF g # None /\ pod.volumes[i].name = <<"operator-config">>
                          THEN Volume(pod.volumes[i].name, <<"configMap", ObjectName(run.name, "config")>>)
                          ELSE pod.volumes[i]]
             env == (pod.main.env \o << EnvVar(<<"AGENT_PROMPT">>, run.prompt), EnvVar(<<"AGENT_RUN_NAME">>, run.name) >>)
                    \o (IF g # None THEN GitEnvVars(g) ELSE << >>)
  <1>1. job = [pod EXCEPT !.main.env = env, !.volumes = vols]
    BY DEF BuildAgentRunJob, When
  <1>2. /\ DOMAIN pod = {"init", "main", "volumes", "account", "sc", "automount"}
        /\ {"env", "mounts", "ports"} \subseteq DOMAIN pod.main
        /\ IsPod(pod, a, taskMode)
    <2> HIDE DEF taskMode
    <2> QED  BY AgentPodSecured, PodBuilt
  <1> HIDE DEF taskMode, pod, job, env
  <1>3. IsVolumes(vols, a, taskMode) /\ VolumeNames(vols) = VolumeNames(pod.volumes)
    <2>1. IsVolumes(pod.volumes, a, taskMode)
      BY <1>2 DEF IsPod
    <2>2. /\ vols = [i \in DOMAIN pod.volumes |-> vols[i]]
          /\ \A i \in DOMAIN pod.volumes :
                vols[i] \in {pod.volumes[i],
                            Volume(pod.volumes[i].name, <<"configMap", ObjectName(run.name, "config")>>)}
      OBVIOUS
    <2> HIDE DEF vols
    <2> QED  BY <2>1, <2>2, SourcesReplaced
  <1> HIDE DEF vols
  <1>4. /\ job.init = pod.init /\ job.account = pod.account /\ job.volumes = vols
        /\ job.main.mounts = pod.main.mounts /\ job.main.ports = pod.main.ports
    <2>1. job.init = pod.init /\ job.account = pod.account /\ job.volumes = vols
      BY <1>1, <1>2
    <2>2. job.main = [pod.main EXCEPT !.env = env]
      BY <1>1, <1>2
    <2> QED  BY <1>2, <2>1, <2>2
  <1>5. IsPod(job, a, taskMode)
    BY <1>2, <1>3, <1>4 DEF IsPod
  <1> QED  BY <1>5 DEF job, taskMode

-----------------------------------------------------------------------------
(* Lists without a provider's credentials. *)
NoCredential(env) == IsList(env) /\ \A n : Credential(n) => Nowhere(env, n)

(* Concatenations of single variables have no credentials. *)
LEMMA NoCredentialOne ==
    ASSUME NEW e, ~Credential(e.name)
    PROVE  NoCredential(<< e >>)
  BY OneEntry DEF NoCredential

LEMMA NoCredentialConcat ==
    ASSUME NEW s, NEW t, NoCredential(s), NoCredential(t)
    PROVE  NoCredential(s \o t)
  BY ListConcat, NowhereConcat DEF NoCredential

LEMMA NoCredentialNone == NoCredential(<< >>)
  BY EmptyList DEF NoCredential

(* Nor has a variable whose name is a constant. *)
LEMMA NoCredentialPlain ==
    ASSUME NEW n, NEW v
    PROVE  NoCredential(<< EnvVar(<<n>>, v) >>) /\ NoCredential(<< SecretEnvVar(<<n>>, v) >>)
  <1>1. ~Credential(<<n>>)
    BY DEF Credential
  <1>2. EnvVar(<<n>>, v).name = <<n>> /\ SecretEnvVar(<<n>>, v).name = <<n>>
    BY EntryFacts
  <1> DEFINE d == EnvVar(<<n>>, v)
             e == SecretEnvVar(<<n>>, v)
  <1>3. ~Credential(d.name) /\ ~Credential(e.name)
    BY <1>1, <1>2
  <1> HIDE DEF d, e
  <1>4. NoCredential(<< d >>) /\ NoCredential(<< e >>)
    BY <1>3, NoCredentialOne
  <1> QED  BY <1>4 DEF d, e

LEMMA NoCredentialTwo ==
    ASSUME NEW d, NEW e, NoCredential(<< d >>), NoCredential(<< e >>)
    PROVE  NoCredential(<< d, e >>)
  BY TwoEntries, NoCredentialConcat

LEMMA NoCredentialThree ==
    ASSUME NEW c, NEW d, NEW e, NoCredential(<< c >>), NoCredential(<< d >>), NoCredential(<< e >>)
    PROVE  NoCredential(<< c, d, e >>)
  BY ThreeEntries, NoCredentialTwo, NoCredentialConcat

LEMMA NoCredentialFour ==
    ASSUME NEW b, NEW c, NEW d, NEW e, NoCredential(<< b >>), NoCredential(<< c >>),
           NoCredential(<< d >>), NoCredential(<< e >>)
    PROVE  NoCredential(<< b, c, d, e >>)
  BY FourEntries, NoCredentialThree, NoCredentialConcat

(* The git identity of a run leaves the credentials alone. *)
LEMMA GitEnvBare ==
    ASSUME NEW g
    PROVE  NoCredential(GitEnvVars(g))
  <1> DEFINE path == g.cloneURL[2]
             h == << EnvVar(<<"GIT_PROVIDER">>, g.provider), EnvVar(<<"GIT_REPO_URL">>, g.cloneURL),
                     EnvVar(<<"GIT_BRANCH">>, g.branch), EnvVar(<<"GIT_BASE_BRANCH">>, g.baseBranch) >>
             own == << EnvVar(<<"GIT_OWNER">>, g.github.owner), EnvVar(<<"GIT_REPO">>, g.github.repo) >>
             api == << EnvVar(<<"GITHUB_API_URL">>, g.github.apiURL) >>
             gh == IF g.provider = "github" THEN own \o (IF g.github.apiURL # None THEN api ELSE << >>) ELSE << >>
             pro == << EnvVar(<<"GIT_PROJECT">>, path), EnvVar(<<"GITLAB_URL">>, g.cloneURL[1]),
                       EnvVar(<<"GITLAB_PROJECT">>, path) >>
             gl == IF g.provider = "gitlab" THEN pro ELSE << >>
             tok == << SecretEnvVar(TokenName(g.provider), g.credentials) >>
             git == << SecretEnvVar(<<"GIT_TOKEN">>, g.credentials) >>
             c == IF g.credentials # None THEN tok \o (IF g.provider # "git" THEN git ELSE << >>) ELSE << >>
             env == GitEnvVars(g)
  <1>1. env = ((h \o gh) \o gl) \o c
    BY DEF GitEnvVars, When
  <1>2. NoCredential(h)
    BY NoCredentialPlain, NoCredentialFour
  <1>3. NoCredential(own) /\ NoCredential(api) /\ NoCredential(git)
    BY NoCredentialPlain, NoCredentialTwo
  <1>4. NoCredential(pro)
    BY NoCredentialPlain, NoCredentialThree
  <1>5. NoCredential(tok)
    <2>1. \E n : TokenName(g.provider) = <<n>>
      BY DEF TokenName
    <2> QED  BY <2>1, NoCredentialPlain
  <1> HIDE DEF env, h, own, api, pro, tok, git
  <1>6. NoCredential(gh) /\ NoCredential(gl) /\ NoCredential(c)
    BY <1>3, <1>4, <1>5, NoCredentialConcat, NoCredentialNone
  <1> HIDE DEF gh, gl, c
  <1>7. NoCredential(env)
    BY <1>1, <1>2, <1>6, NoCredentialConcat
  <1> QED  BY <1>7 DEF env

(* So does the GitLab identity of a daemon. *)
LEMMA IdentityBare ==
    ASSUME NEW integrations, NEW readOnly
    PROVE  NoCredential(GitLabEnvFromIntegrations(integrations, readOnly))
  <1> DEFINE group == {i \in DOMAIN integrations : integrations[i].kind = "gitlab-group"}
             project == {i \in DOMAIN integrations : integrations[i].kind = "gitlab-project"}
             chosen == IF group # {} THEN Min(group) ELSE Min(project)
             res == integrations[chosen]
             b == res.block[res.kind]
             url == << EnvVar(<<"GITLAB_URL">>, b.baseURL) >>
             pro == << EnvVar(<<"GITLAB_PROJECT">>, b.project) >>
             grp == << EnvVar(<<"GITLAB_GROUP">>, b.group) >>
             all == << EnvVar(<<"GITLAB_PROJECTS">>, b.projects) >>
             ro == << EnvVar(<<"GITLAB_READONLY">>, "true") >>
             tok == << SecretEnvVar(<<"GITLAB_TOKEN">>, res.credentials),
                       SecretEnvVar(<<"GIT_TOKEN">>, res.credentials) >>
             s1 == IF group = {} THEN pro ELSE << >>
             s2 == IF b.projects # {} THEN all ELSE << >>
             s3 == IF group # {} THEN grp \o s2 ELSE << >>
             s4 == IF readOnly[chosen] \/ (group # {} /\ b.readOnly) THEN ro ELSE << >>
             s5 == IF res.credentials # None THEN tok ELSE << >>
             env == GitLabEnvFromIntegrations(integrations, readOnly)
  <1>1. env = IF group \cup project = {} \/ b = None THEN << >>
                ELSE (((url \o s1) \o s3) \o s4) \o s5
    BY Zenon DEF GitLabEnvFromIntegrations, When
  <1>2. /\ NoCredential(url) /\ NoCredential(pro) /\ NoCredential(grp)
        /\ NoCredential(all) /\ NoCredential(ro)
    BY NoCredentialPlain
  <1>3. NoCredential(tok)
    BY NoCredentialPlain, NoCredentialTwo
  <1> HIDE DEF env, url, pro, grp, all, ro, tok, group, project, chosen, res, b
  <1>4. NoCredential(s1) /\ NoCredential(s2) /\ NoCredential(s4) /\ NoCredential(s5)
    BY <1>2, <1>3, NoCredentialNone
  <1> HIDE DEF s1, s2, s4, s5
  <1>5. NoCredential(s3)
    BY <1>2, <1>4, NoCredentialConcat, NoCredentialNone
  <1> HIDE DEF s3
  <1>6. NoCredential((((url \o s1) \o s3) \o s4) \o s5)
    BY <1>2, <1>4, <1>5, NoCredentialConcat
  <1>7. NoCredential(env)
    BY <1>1, <1>6, NoCredentialNone
  <1> QED  BY <1>7 DEF env

(* The variable n of provider p has the value v. *)
Gives(p, n, v) ==
    \/ p.apiKey # None /\ n = ProviderEnvVarName(p.name) /\ v = <<"secret", p.apiKey>>
    \/ p.oauth2 # None /\ n = OAuth2ClientIDEnvVar(p.name) /\ v = <<"secret", p.oauth2.id>>
    \/ p.oauth2 # None /\ n = OAuth2ClientSecretEnvVar(p.name) /\ v = <<"secret", p.oauth2.secret>>

(* A variable belongs to one provider. *)
LEMMA GivesOwn ==
    ASSUME NEW p, NEW q, NEW n, NEW v, NEW w, Gives(p, n, v), Gives(q, n, w)
    PROVE  Credential(n) /\ p.name = q.name /\ (p = q => v = w)
  <1>1. Credential(n)
    BY DEF Gives, Credential, ProviderEnvVarName, OAuth2ClientIDEnvVar, OAuth2ClientSecretEnvVar
  <1>2. n[2] = p.name /\ n[2] = q.name
    BY DEF Gives, ProviderEnvVarName, OAuth2ClientIDEnvVar, OAuth2ClientSecretEnvVar
  <1>3. p = q => v = w
    BY DEF Gives, ProviderEnvVarName, OAuth2ClientIDEnvVar, OAuth2ClientSecretEnvVar
  <1> QED  BY <1>1, <1>2, <1>3

LEMMA RangeTwo ==
    ASSUME NEW d, NEW e
    PROVE  IsList(<< d, e >>) /\ Range(<< d, e >>) = {d, e}
  <1>1. Range(<< d, e >>) = {d, e}
    BY DEF Range
  <1> QED  BY <1>1, TwoEntriesFacts

(* ProviderEnv has the variables of its provider, and no others. *)
LEMMA ProviderEntries ==
    ASSUME NEW p
    PROVE  /\ \A e \in Range(ProviderEnv(p)) : Gives(p, e.name, e.value)
           /\ \A n, v : Gives(p, n, v) => \E e \in Range(ProviderEnv(p)) : e.name = n /\ e.value = v
  <1> DEFINE b == SecretEnvVar(ProviderEnvVarName(p.name), p.apiKey)
             c == SecretEnvVar(OAuth2ClientIDEnvVar(p.name), p.oauth2.id)
             d == SecretEnvVar(OAuth2ClientSecretEnvVar(p.name), p.oauth2.secret)
             one == << b >>
             two == << c, d >>
             k == IF p.apiKey # None THEN one ELSE << >>
             o == IF p.oauth2 # None THEN two ELSE << >>
             env == ProviderEnv(p)
  <1>1. env = k \o o
    BY DEF ProviderEnv, When
  <1>2. /\ b.name = ProviderEnvVarName(p.name) /\ b.value = <<"secret", p.apiKey>>
        /\ c.name = OAuth2ClientIDEnvVar(p.name) /\ c.value = <<"secret", p.oauth2.id>>
        /\ d.name = OAuth2ClientSecretEnvVar(p.name) /\ d.value = <<"secret", p.oauth2.secret>>
    BY EntryFacts
  <1> HIDE DEF b, c, d, env
  <1>3. IsList(one) /\ Range(one) = {b} /\ IsList(two) /\ Range(two) = {c, d}
    BY RangeOne, RangeTwo
  <1> HIDE DEF one, two
  <1>4. /\ IsList(k) /\ Range(k) = IF p.apiKey # None THEN {b} ELSE {}
        /\ IsList(o) /\ Range(o) = IF p.oauth2 # None THEN {c, d} ELSE {}
    BY <1>3, RangeNone
  <1> HIDE DEF k, o
  <1>5. Range(env) = Range(k) \cup Range(o)
    BY <1>1, <1>4, RangeConcat
  <1>6. \A e \in Range(env) : Gives(p, e.name, e.value)
    BY <1>2, <1>4, <1>5 DEF Gives
  <1>7. \A n, v : Gives(p, n, v) => \E e \in Range(env) : e.name = n /\ e.value = v
    BY <1>2, <1>4, <1>5 DEF Gives
  <1> QED  BY <1>6, <1>7 DEF env

(* All Providers of one name being one, each variable is that of its own. *)
LEMMA ProvidersLast ==
    ASSUME NEW providers, IsList(providers),
           \A j, k \in DOMAIN providers : providers[j].name = providers[k].name => providers[j] = providers[k],
           NEW i \in DOMAIN providers, NEW n, NEW v, Gives(providers[i], n, v)
    PROVE  LastIs(FlattenSeq([j \in DOMAIN providers |-> ProviderEnv(providers[j])]), n, v)
  <1> DEFINE t == [j \in DOMAIN providers |-> ProviderEnv(providers[j])]
             s == FlattenSeq(t)
  <1>1. /\ t = [j \in DOMAIN providers |-> t[j]] /\ DOMAIN t = DOMAIN providers
        /\ \A j \in DOMAIN t : t[j] = ProviderEnv(providers[j])
    OBVIOUS
  <1>2. \A j \in DOMAIN t : IsList(t[j])
    BY <1>1, ProviderEnvFacts
  <1>3. IsList(s)
    BY ProvidersEnvList
  <1> HIDE DEF t
  <1>4. IsList(t)
    BY <1>1, MapList
  <1>5. Range(s) = UNION {Range(t[j]) : j \in DOMAIN t}
    <2>1. Flat(s, t, Len(t)) /\ DOMAIN t = 1..Len(t)
      BY <1>2, <1>4, FlattenRange, ListDomain
    <2> HIDE DEF s
    <2> QED  BY <2>1 DEF Flat
  <1> HIDE DEF s
  <1>6. \E e \in Range(s) : e.name = n
    <2>1. \E e \in Range(t[i]) : e.name = n
      BY <1>1, ProviderEntries
    <2> QED  BY <1>1, <1>5, <2>1
  <1>7. ASSUME NEW e \in Range(s), e.name = n PROVE e.value = v
    <2>1. PICK j \in DOMAIN t : e \in Range(t[j])
      BY <1>5
    <2>2. Gives(providers[j], n, e.value)
      BY <1>1, <1>7, <2>1, ProviderEntries
    <2>3. providers[j].name = providers[i].name
      BY <2>2, GivesOwn
    <2>4. providers[j] = providers[i]
      BY <1>1, <2>3
    <2> QED  BY <2>2, <2>4, GivesOwn
  <1>8. LastIs(s, n, v)
    BY <1>3, <1>6, <1>7, LastOfSame
  <1> QED  BY <1>8 DEF s, t

(* What the main container gets. *)
LEMMA DaemonCredentials ==
    ASSUME NEW a, IsAgent(a), NEW providers, IsList(providers), NEW integrations,
           \A j, k \in DOMAIN providers : providers[j].name = providers[k].name => providers[j] = providers[k],
           NEW i \in DOMAIN providers, NEW n, NEW v, Gives(providers[i], n, v)
    PROVE  EnvValue(BuildAgentPodSpec(a, providers, integrations, FALSE).main.env, n) = v
  <1> DEFINE f == AgentFront(a, providers)
             ro == [j \in DOMAIN integrations |-> LastWith(a.integrations, integrations[j].name).readOnly]
             t == GitLabEnvFromIntegrations(integrations, ro)
             env == BuildEnvVars(a, providers, integrations, FALSE)
  <1>1. env = f \o t
    BY DEF BuildEnvVars, AgentFront, When
  <1>2. LastIs(f, n, v) /\ IsList(f)
    BY ProvidersLast, AgentFrontFacts
  <1>3. Credential(n)
    BY GivesOwn
  <1>4. NoCredential(t)
    BY IdentityBare
  <1>5. BuildAgentPodSpec(a, providers, integrations, FALSE).main.env = env
    BY PodEnv
  <1> HIDE DEF f, t, env
  <1>6. LastIs(env, n, v) /\ IsList(env)
    BY <1>1, <1>2, <1>3, <1>4, LastLeft, ListConcat DEF NoCredential
  <1> QED  BY <1>5, <1>6, LastValue

(* And what that of a run's pod gets. *)
LEMMA JobCredentials ==
    ASSUME NEW a, IsAgent(a), NEW run, NEW providers, IsList(providers), NEW g,
           \A j, k \in DOMAIN providers : providers[j].name = providers[k].name => providers[j] = providers[k],
           NEW i \in DOMAIN providers, NEW n, NEW v, Gives(providers[i], n, v)
    PROVE  EnvValue(BuildAgentRunJob(a, run, providers, g).pod.main.env, n) = v
  <1> DEFINE f == AgentFront(a, providers)
             none == << >>
             two == << EnvVar(<<"AGENT_PROMPT">>, run.prompt), EnvVar(<<"AGENT_RUN_NAME">>, run.name) >>
             t == IF g # None THEN GitEnvVars(g) ELSE << >>
             env == BuildAgentRunJob(a, run, providers, g).pod.main.env
  <1>1. env = ((f \o none) \o two) \o t
    BY JobEnv DEF JobFront
  <1>2. LastIs(f, n, v) /\ IsList(f)
    BY ProvidersLast, AgentFrontFacts
  <1>3. Credential(n)
    BY GivesOwn
  <1>4. NoCredential(none) /\ NoCredential(two) /\ NoCredential(t)
    <2>1. NoCredential(two)
      BY NoCredentialPlain, NoCredentialTwo
    <2>2. NoCredential(t)
      BY GitEnvBare, NoCredentialNone
    <2> QED  BY <2>1, <2>2, NoCredentialNone
  <1> HIDE DEF f, none, two, t, env
  <1>5. LastIs(f \o none, n, v) /\ IsList(f \o none)
    BY <1>2, <1>3, <1>4, LastLeft, ListConcat DEF NoCredential
  <1>6. LastIs((f \o none) \o two, n, v) /\ IsList((f \o none) \o two)
    BY <1>3, <1>4, <1>5, LastLeft, ListConcat DEF NoCredential
  <1>7. LastIs(env, n, v) /\ IsList(env)
    BY <1>1, <1>3, <1>4, <1>6, LastLeft, ListConcat DEF NoCredential
  <1>8. EnvValue(env, n) = v
    BY <1>7, LastValue
  <1> QED  BY <1>8 DEF env

(* What the agent is told of its memory. *)
LEMMA MemoryEntry ==
    ASSUME NEW a, IsAgent(a), a.memory # None
    PROVE  /\ BuildMemoryEntry(a) # None
           /\ BuildMemoryEntry(a).autoSave <=> a.memory.autoSave # FALSE
           /\ BuildMemoryEntry(a).autoSearch <=> a.memory.autoSearch # FALSE
  <1> DEFINE m == a.memory
             pr == FirstSet(m.project, None, a.name)
             cl == IF m.contextLimit = 0 THEN 5 ELSE m.contextLimit
             su == m.autoSummarize # FALSE
             sa == m.autoSave # FALSE
             se == m.autoSearch # FALSE
             e == BuildMemoryEntry(a)
  <1>1. m \in AgentMemory
    BY DEF IsAgent, Opt
  <1>2. e = [m EXCEPT !.project = pr, !.contextLimit = cl, !.autoSummarize = su,
                      !.autoSave = sa, !.autoSearch = se]
    BY DEF BuildMemoryEntry
  <1>3. pr \in MemoryProject \cup AgentName /\ cl \in 1..50
    <2>1. m.project \in MemoryProject \cup {None} /\ m.contextLimit \in 0..50 /\ a.name \in AgentName
      BY <1>1 DEF AgentMemory, Opt, IsAgent
    <2>2. cl \in 1..50
      BY <2>1
    <2>3. pr \in MemoryProject \cup AgentName
      BY <2>1 DEF FirstSet
    <2> QED  BY <2>2, <2>3
  <1>4. su \in BOOLEAN /\ sa \in BOOLEAN /\ se \in BOOLEAN
    OBVIOUS
  <1>5. m = [project |-> m.project, contextLimit |-> m.contextLimit, autoSummarize |-> m.autoSummarize,
             autoSave |-> m.autoSave, autoSearch |-> m.autoSearch]
    BY <1>1 DEF AgentMemory
  <1> HIDE DEF m, pr, cl, su, sa, se, e
  <1>6. e = [project |-> pr, contextLimit |-> cl, autoSummarize |-> su, autoSave |-> sa, autoSearch |-> se]
    BY <1>2, <1>5
  <1>7. e # None
    <2>1. e \in [project : MemoryProject \cup AgentName, contextLimit : 1..50,
                 autoSummarize : BOOLEAN, autoSave : BOOLEAN, autoSearch : BOOLEAN]
      BY <1>3, <1>4, <1>6
    <2> QED  BY <2>1, MemoryAssumption
  <1>8. e.autoSave = sa /\ e.autoSearch = se
    BY <1>6
  <1>9. /\ BuildMemoryEntry(a).autoSave = (a.memory.autoSave # FALSE)
        /\ BuildMemoryEntry(a).autoSearch = (a.memory.autoSearch # FALSE)
    BY <1>8 DEF e, sa, se, m
  <1> QED  BY <1>7, <1>9 DEF e

(* The protocol speaks of the memory as the memory entry has it. *)
LEMMA MemoryTold ==
    ASSUME NEW a, IsAgent(a), NEW config, config.memory = BuildMemoryEntry(a),
           config.protocol = BuildPlatformProtocol(a)
    PROVE  /\ "save" \in Range(config.protocol) <=> config.memory # None /\ config.memory["autoSave"]
           /\ "search" \in Range(config.protocol) <=> config.memory # None /\ config.memory["autoSearch"]
  <1> DEFINE one == << "identity" >>
             team == << "team" >>
             fan == << "fan-out" >>
             c == a.delegation.maxFanOut \in 1..9
             t == team \o (IF c THEN fan ELSE << >>)
             d == BuildDelegationProtocol(a.delegation)
             s == IF a.memory.autoSave # FALSE THEN "save" ELSE "save disabled"
             r == IF a.memory.autoSearch # FALSE THEN "search" ELSE "search disabled"
             three == << "memory", s, r >>
             m == BuildMemoryProtocol(a.memory)
  <1>1. config.protocol = (one \o d) \o m
    BY DEF BuildPlatformProtocol
  <1>2. /\ d = IF a.delegation # None /\ a.delegation.team # {} THEN t ELSE << >>
        /\ m = IF a.memory # None THEN three ELSE << >>
    BY DEF BuildDelegationProtocol, BuildMemoryProtocol, When
  <1>3. IsList(one) /\ Range(one) = {"identity"}
    BY RangeOne
  <1>4. IsList(d) /\ Range(d) \subseteq {"team", "fan-out"}
    <2>1. IsList(team) /\ Range(team) = {"team"} /\ IsList(fan) /\ Range(fan) = {"fan-out"}
      BY RangeOne
    <2> HIDE DEF team, fan, d, c
    <2>2. IsList(IF c THEN fan ELSE << >>) /\ Range(IF c THEN fan ELSE << >>) \subseteq {"fan-out"}
      BY <2>1, RangeNone
    <2>3. IsList(t) /\ Range(t) \subseteq {"team", "fan-out"}
      BY <2>1, <2>2, RangeConcat
    <2> HIDE DEF t
    <2> QED  BY <1>2, <2>3, RangeNone
  <1>5. IsList(m) /\ Range(m) = IF a.memory # None THEN {"memory", s, r} ELSE {}
    <2>1. IsList(three) /\ Range(three) = {"memory", s, r}
      <3> HIDE DEF s, r
      <3> QED  BY RangeThree
    <2> HIDE DEF m, three, s, r
    <2> QED  BY <1>2, <2>1, RangeNone
  <1>6. s \in {"save", "save disabled"} /\ r \in {"search", "search disabled"}
        /\ (s = "save" <=> a.memory.autoSave # FALSE) /\ (r = "search" <=> a.memory.autoSearch # FALSE)
    OBVIOUS
  <1> HIDE DEF one, d, m, s, r
  <1>7. Range(config.protocol) = (Range(one) \cup Range(d)) \cup Range(m)
    BY <1>1, <1>3, <1>4, <1>5, RangeConcat
  <1>8. /\ "save" \in Range(config.protocol) <=> a.memory # None /\ s = "save"
        /\ "search" \in Range(config.protocol) <=> a.memory # None /\ r = "search"
    <2>1. \A w \in {"save", "search"} : w \in Range(config.protocol) <=> w \in Range(m)
      BY <1>3, <1>4, <1>7
    <2>2. s # "search" /\ r # "save"
      BY <1>6
    <2>3. /\ "save" \in Range(m) <=> a.memory # None /\ s = "save"
          /\ "search" \in Range(m) <=> a.memory # None /\ r = "search"
      <3>1. CASE a.memory = None
        BY <1>5, <3>1
      <3>2. CASE a.memory # None
        <4>1. Range(m) = {"memory", s, r}
          BY <1>5, <3>2
        <4> QED  BY <2>2, <3>2, <4>1
      <3> QED  BY <3>1, <3>2
    <2> QED  BY <2>1, <2>3
  <1>9. CASE a.memory = None
    <2>1. config.memory = None
      BY <1>9 DEF BuildMemoryEntry
    <2> QED  BY <1>8, <1>9, <2>1
  <1>10. CASE a.memory # None
    <2>1. /\ config.memory # None
          /\ config.memory.autoSave <=> a.memory.autoSave # FALSE
          /\ config.memory.autoSearch <=> a.memory.autoSearch # FALSE
      BY <1>10, MemoryEntry
    <2> QED  BY <1>6, <1>8, <1>10, <2>1
  <1> QED  BY <1>9, <1>10

(* The tools of config.json. *)
LEMMA FlattenNone ==
    ASSUME NEW s, IsList(s), DOMAIN s = {}
    PROVE  FlattenSeq(s) = << >>
  <1>1. Len(s) = 0 /\ s = << >>
    <2>1. Len(s) \in Nat /\ DOMAIN s = 1..Len(s) /\ s \in Seq(Range(s))
      BY ListDomain DEF IsList
    <2>2. Len(s) = 0
      <3>1. CASE Len(s) # 0
        <4>1. 1 \in 1..Len(s)
          BY <2>1, <3>1
        <4> QED  BY <2>1, <4>1
      <3> QED  BY <3>1
    <2> QED  BY <2>1, <2>2, EmptySeq
  <1> QED  BY <1>1 DEF FlattenSeq

NewEntries(tools, es) == FlattenSeq([i \in DOMAIN es |-> When(es[i] \notin Range(tools), << es[i] >>)])

KnownProvider(g) == g.provider \in {"github", "gitlab", "git"}

(* ts are the tools, each once, with that of the git platform. *)
WithPlatform(ts, tools, g) ==
    /\ IsInjective(ts) /\ Range(ts) \subseteq Range(tools) \cup {"github", "gitlab"}
    /\ g.provider \in Range(ts) \cup {"git"}

(* The tools of a run's config.json. *)
LEMMA RunTools ==
    ASSUME NEW tools, IsList(tools), IsInjective(tools), NEW g, KnownProvider(g),
           NEW ts, ts = tools \o NewEntries(tools, GitToolEntries(g))
    PROVE  WithPlatform(ts, tools, g)
  <1> DEFINE p == g.provider
             one == << p >>
             new == IF p \notin Range(tools) THEN one ELSE << >>
             es == GitToolEntries(g)
             fs == [i \in DOMAIN es |-> When(es[i] \notin Range(tools), << es[i] >>)]
             more == IF p \in {"github", "gitlab"} THEN new ELSE << >>
  <1>1. IsList(one) /\ Range(one) = {p} /\ DOMAIN one = {1} /\ one[1] = p
    <2> HIDE DEF p
    <2> QED  BY RangeOne
  <1>2. FlattenSeq(fs) = more
    <2>1. CASE p \in {"github", "gitlab"}
      <3>1. es = one
        BY <2>1 DEF GitToolEntries, When
      <3>2. IsList(new)
        <4> HIDE DEF one
        <4> QED  BY <1>1, RangeNone
      <3>3. fs = << new >>
        BY <3>1 DEF When
      <3>4. FlattenSeq(<< new >>) = new
        <4> HIDE DEF new
        <4> QED  BY <3>2, FlattenOne
      <3> QED  BY <2>1, <3>3, <3>4
    <2>2. CASE ~(p \in {"github", "gitlab"})
      <3>1. es = << >> /\ DOMAIN es = {}
        BY <2>2 DEF GitToolEntries, When
      <3>2. DOMAIN fs = {} /\ fs = << >>
        BY <3>1
      <3> QED  BY <2>2, <3>2, RangeNone, FlattenNone
    <2> QED  BY <2>1, <2>2
  <1>3. /\ IsList(more) /\ Range(more) \subseteq {p} \ Range(tools)
        /\ Range(more) \subseteq {"github", "gitlab"}
        /\ p \in {"github", "gitlab"} => p \in Range(tools) \cup Range(more)
    <2> HIDE DEF one
    <2> QED  BY <1>1, RangeNone
  <1>4. \A i, j \in DOMAIN more : i = j
    <2>1. \A i, j \in DOMAIN one : i = j
      BY <1>1
    <2>2. DOMAIN << >> = {}
      OBVIOUS
    <2> HIDE DEF one
    <2> QED  BY <2>1, <2>2
  <1>5. ts = tools \o more
    BY <1>2 DEF NewEntries
  <1> HIDE DEF p, one, new, es, fs, more
  <1>6. Range(ts) = Range(tools) \cup Range(more)
    BY <1>3, <1>5, RangeConcat
  <1>7. ASSUME NEW i \in DOMAIN ts, NEW j \in DOMAIN ts, ts[i] = ts[j] PROVE i = j
    <2> DEFINE both == tools \o more
    <2>1. \A n \in DOMAIN both : \/ n \in DOMAIN tools /\ both[n] = tools[n]
                                 \/ \E k \in DOMAIN more : n = Len(tools) + k /\ both[n] = more[k]
      BY <1>3, ConcatEntries
    <2>2. ts = both
      BY <1>5
    <2> HIDE DEF both
    <2>3. \A k \in DOMAIN more : more[k] \notin Range(tools)
      BY <1>3 DEF Range
    <2>4. \A k \in DOMAIN tools : tools[k] \in Range(tools)
      BY DEF Range
    <2> QED  BY <1>4, <1>7, <2>1, <2>2, <2>3, <2>4 DEF IsInjective
  <1>8. IsInjective(ts)
    BY <1>7 DEF IsInjective
  <1>9. p \in Range(ts) \cup {"git"}
    <2>1. p \in {"github", "gitlab", "git"}
      BY DEF p, KnownProvider
    <2> QED  BY <1>3, <1>6, <2>1
  <1> QED  BY <1>3, <1>6, <1>8, <1>9 DEF p, WithPlatform

(* What the bindings of an agent say of a provider that one of them names. *)
LEMMA BindingTyped ==
    ASSUME NEW a, IsAgent(a), NEW name, \E m \in DOMAIN a.providerRefs : a.providerRefs[m].name = name
    PROVE  LastWith(a.providerRefs, name).overrides \in Opt(CallDefaults)
  <1> DEFINE refs == a.providerRefs
             T == {i \in DOMAIN refs : refs[i].name = name}
  <1>1. IsList(refs) /\ \A i \in DOMAIN refs : refs[i].overrides \in Opt(CallDefaults)
    BY DEF IsAgent
  <1>2. Max(T) \in T
    <2>1. \E e \in Range(refs) : e.name = name
      BY DEF Range
    <2>2. PICK i \in DOMAIN refs : refs[i].name = name /\ \A j \in DOMAIN refs : refs[j].name = name => j <= i
      BY <1>1, <2>1, HasLast
    <2>3. T \subseteq Nat /\ i \in T /\ \A j \in T : i >= j
      BY <1>1, <2>2, ListDomain
    <2> HIDE DEF T
    <2> QED  BY <2>3 DEF Max
  <1>3. LastWith(refs, name) = refs[Max(T)]
    BY DEF LastWith
  <1> QED  BY <1>1, <1>2, <1>3

(* The merged defaults of an entry of config.json. *)
LEMMA DefaultsMerged ==
    ASSUME NEW p, IsProvider(p), NEW overrides \in Opt(CallDefaults), NEW d,
           d = BuildProviderEntry(p, overrides).callDefaults, d # None,
           NEW family \in DOMAIN d, d[family] # None, NEW f \in DOMAIN d[family]
    PROVE  d[family][f] = CallSetting(p, overrides, family, f)
  <1>1. d = MergeCallDefaults(p.defaults, overrides)
    BY DEF BuildProviderEntry
  <1>2. p.defaults \in Opt(CallDefaults)
    BY DEF IsProvider, Opt
  <1>3. \A e \in CallDefaults : DOMAIN e = {"anthropic", "openai", "google"}
    BY DEF CallDefaults
  <1>4. DOMAIN d = {"anthropic", "openai", "google"}
    <2>1. p.defaults = None \/ p.defaults \in CallDefaults
      BY <1>2 DEF Opt
    <2>2. overrides = None \/ overrides \in CallDefaults
      BY DEF Opt
    <2> QED  BY <1>1, <1>3, <2>1, <2>2 DEF MergeCallDefaults
  <1> QED  BY <1>1, <1>2, <1>4, OverridesWin

(* The clauses of PodCoherent that are about the pod and config.json. *)
PodFits(pod) ==
    /\ IsInjective([i \in DOMAIN pod.volumes |-> pod.volumes[i].name])
    /\ \A c \in Containers(pod) :
          /\ IsInjective([i \in DOMAIN c.mounts |-> c.mounts[i].path])
          /\ \A m \in Range(c.mounts) : \E v \in Range(pod.volumes) : v.name = m.volume

ConfigFits(config, pod, platform) ==
    /\ "save" \in Range(config.protocol) <=> config.memory # None /\ config.memory["autoSave"]
    /\ "search" \in Range(config.protocol) <=> config.memory # None /\ config.memory["autoSearch"]
    /\ IsInjective(config.tools)
    /\ \A t \in Range(config.tools) \ platform : \E c \in Range(pod.init) : c.target = t

CredentialsFit(p, entry, env) ==
    /\ p.apiKey # None => EnvValue(env, <<"API_KEY", p.name>>) = <<"secret", p.apiKey>>
    /\ p.oauth2 # None =>
          /\ EnvValue(env, entry.oauth2.clientIDEnv) = <<"secret", p.oauth2.id>>
          /\ EnvValue(env, entry.oauth2.clientSecretEnv) = <<"secret", p.oauth2.secret>>

DefaultsFit(a, p, entry) ==
    entry.callDefaults # None =>
        \A family \in DOMAIN entry.callDefaults :
           LET merged == entry.callDefaults[family]
           IN  merged # None =>
                 \A f \in DOMAIN merged :
                    merged[f] = CallSetting(p, LastWith(a.providerRefs, p.name).overrides, family, f)

(* A pod that is built has its mounts in place. *)
LEMMA PodFitting ==
    ASSUME NEW pod, NEW a, NEW taskMode, IsPod(pod, a, taskMode)
    PROVE  PodFits(pod)
  <1>1. IsInjective([i \in DOMAIN pod.volumes |-> pod.volumes[i].name])
    <2>1. Distinct(pod.volumes, "name")
      BY DEF IsPod, IsVolumes
    <2> QED  BY <2>1 DEF Distinct, IsInjective
  <1>2. ASSUME NEW c \in Containers(pod) PROVE WellMounted(c.mounts, VolumeNames(pod.volumes))
    BY DEF Containers, Range, IsPod
  <1>3. ASSUME NEW c \in Containers(pod)
        PROVE  /\ IsInjective([i \in DOMAIN c.mounts |-> c.mounts[i].path])
               /\ \A m \in Range(c.mounts) : \E v \in Range(pod.volumes) : v.name = m.volume
    <2>1. Distinct(c.mounts, "path") /\ \A m \in Range(c.mounts) : m.volume \in VolumeNames(pod.volumes)
      BY <1>2 DEF WellMounted
    <2>2. IsInjective([i \in DOMAIN c.mounts |-> c.mounts[i].path])
      BY <2>1 DEF Distinct, IsInjective
    <2> QED  BY <2>1, <2>2 DEF VolumeNames
  <1> QED  BY <1>1, <1>3 DEF PodFits

(* config.json fits the pod. *)
LEMMA ConfigFitting ==
    ASSUME NEW pod, NEW a, IsAgent(a), OneOfEach(a), NEW taskMode, IsPod(pod, a, taskMode),
           NEW config, config.memory = BuildMemoryEntry(a), config.protocol = BuildPlatformProtocol(a),
           NEW platform, IsInjective(config.tools),
           Range(config.tools) \subseteq {a.tools[i].name : i \in DOMAIN a.tools} \cup platform
    PROVE  ConfigFits(config, pod, platform)
  <1>1. ASSUME NEW t \in Range(config.tools) \ platform PROVE \E c \in Range(pod.init) : c.target = t
    <2>1. PICK i \in DOMAIN a.tools : t = a.tools[i].name
      OBVIOUS
    <2>2. pod.init[i].target = t /\ i \in DOMAIN pod.init
      BY <2>1 DEF IsPod
    <2> QED  BY <2>2 DEF Range
  <1>2. /\ "save" \in Range(config.protocol) <=> config.memory # None /\ config.memory["autoSave"]
        /\ "search" \in Range(config.protocol) <=> config.memory # None /\ config.memory["autoSearch"]
    BY MemoryTold
  <1> QED  BY <1>1, <1>2 DEF ConfigFits

(* The credentials are where config.json says that they are. *)
LEMMA CredentialsFitting ==
    ASSUME NEW p, NEW o, NEW env, NEW entry, entry = BuildProviderEntry(p, o),
           \A n, v : Gives(p, n, v) => EnvValue(env, n) = v
    PROVE  CredentialsFit(p, entry, env)
  <1>1. p.oauth2 # None => /\ entry.oauth2.clientIDEnv = OAuth2ClientIDEnvVar(p.name)
                           /\ entry.oauth2.clientSecretEnv = OAuth2ClientSecretEnvVar(p.name)
    BY DEF BuildProviderEntry
  <1>2. p.apiKey # None => Gives(p, <<"API_KEY", p.name>>, <<"secret", p.apiKey>>)
    BY DEF Gives, ProviderEnvVarName
  <1>3. p.oauth2 # None => /\ Gives(p, entry.oauth2.clientIDEnv, <<"secret", p.oauth2.id>>)
                           /\ Gives(p, entry.oauth2.clientSecretEnv, <<"secret", p.oauth2.secret>>)
    BY <1>1 DEF Gives
  <1> QED  BY <1>2, <1>3 DEF CredentialsFit

(* The call defaults are the binding's, else the Provider's. *)
LEMMA DefaultsFitting ==
    ASSUME NEW a, IsAgent(a), NEW p, IsProvider(p),
           \E m \in DOMAIN a.providerRefs : p.name = a.providerRefs[m].name,
           NEW entry, entry = BuildProviderEntry(p, LastWith(a.providerRefs, p.name).overrides)
    PROVE  DefaultsFit(a, p, entry)
  <1> DEFINE o == LastWith(a.providerRefs, p.name).overrides
             d == BuildProviderEntry(p, o).callDefaults
  <1>1. o \in Opt(CallDefaults)
    BY BindingTyped
  <1>2. entry.callDefaults = d
    OBVIOUS
  <1> HIDE DEF o
  <1>3. ASSUME d # None, NEW family \in DOMAIN d, d[family] # None, NEW f \in DOMAIN d[family]
        PROVE  d[family][f] = CallSetting(p, o, family, f)
    BY <1>1, <1>3, DefaultsMerged
  <1> HIDE DEF d
  <1> QED  BY <1>2, <1>3 DEF DefaultsFit, o

(* What both kinds of pod share. *)
PodAndConfig(pod, a, config, providers, platform) ==
    /\ PodFits(pod)
    /\ ConfigFits(config, pod, platform)
    /\ \A i \in DOMAIN providers : /\ CredentialsFit(providers[i], config.providers[i], pod.main.env)
                                   /\ DefaultsFit(a, providers[i], config.providers[i])

(* config is the agent's but for its tools. *)
IsConfig(config, a, providers) ==
    /\ config.memory = BuildMemoryEntry(a) /\ config.protocol = BuildPlatformProtocol(a)
    /\ \A i \in DOMAIN providers :
          config.providers[i] =
             BuildProviderEntry(providers[i], LastWith(a.providerRefs, providers[i].name).overrides)

LEMMA ConfigParts ==
    ASSUME NEW a, NEW integrations, NEW providers,
           NEW config, config = BuildAgentConfigMap(a, integrations, providers)
    PROVE  /\ IsConfig(config, a, providers)
           /\ config.tools = [i \in DOMAIN a.tools |-> a.tools[i].name]
           /\ {"memory", "protocol", "tools", "providers"} \subseteq DOMAIN config
  <1> DEFINE m == BuildMemoryEntry(a)
             pr == BuildPlatformProtocol(a)
             ts == [i \in DOMAIN a.tools |-> a.tools[i].name]
             ps == [i \in DOMAIN providers |->
                      BuildProviderEntry(providers[i], LastWith(a.providerRefs, providers[i].name).overrides)]
             rs == [i \in DOMAIN integrations |->
                      [name |-> integrations[i].name, kind |-> integrations[i].kind,
                       readOnly |-> LastWith(a.integrations, integrations[i].name).readOnly,
                       block |-> MapIntegrationKind(integrations[i])]]
  <1>1. config = [memory |-> m, delegation |-> a.delegation, protocol |-> pr, tools |-> ts,
                  builtinTools |-> a.builtinTools, providers |-> ps, fallback |-> a.fallback,
                  hooks |-> a.hooks, resources |-> rs]
    BY DEF BuildAgentConfigMap
  <1>2. \A i \in DOMAIN providers :
           ps[i] = BuildProviderEntry(providers[i], LastWith(a.providerRefs, providers[i].name).overrides)
    OBVIOUS
  <1> HIDE DEF m, pr, ts, ps, rs
  <1>3. /\ config.memory = m /\ config.protocol = pr /\ config.tools = ts /\ config.providers = ps
        /\ {"memory", "protocol", "tools", "providers"} \subseteq DOMAIN config
    BY <1>1
  <1>4. IsConfig(config, a, providers)
    BY <1>2, <1>3 DEF m, pr, IsConfig
  <1> QED  BY <1>3, <1>4 DEF ts

(* All of it. *)
LEMMA Fitting ==
    ASSUME NEW pod, NEW a, IsAgent(a), OneOfEach(a), NEW taskMode, IsPod(pod, a, taskMode),
           NEW providers, Found(providers, a.providerRefs),
           \A i \in DOMAIN providers : IsProvider(providers[i]),
           \A i \in DOMAIN providers : \A n, v : Gives(providers[i], n, v) => EnvValue(pod.main.env, n) = v,
           NEW config, IsConfig(config, a, providers), NEW platform, IsInjective(config.tools),
           Range(config.tools) \subseteq {a.tools[i].name : i \in DOMAIN a.tools} \cup platform
    PROVE  PodAndConfig(pod, a, config, providers, platform)
  <1>1. PodFits(pod)
    BY PodFitting
  <1>2. ConfigFits(config, pod, platform)
    <2>1. config.memory = BuildMemoryEntry(a) /\ config.protocol = BuildPlatformProtocol(a)
      BY DEF IsConfig
    <2> QED  BY <2>1, ConfigFitting
  <1>3. ASSUME NEW i \in DOMAIN providers
        PROVE  /\ CredentialsFit(providers[i], config.providers[i], pod.main.env)
               /\ DefaultsFit(a, providers[i], config.providers[i])
    <2> DEFINE p == providers[i]
               o == LastWith(a.providerRefs, p.name).overrides
    <2>1. config.providers[i] = BuildProviderEntry(p, o)
      BY DEF IsConfig
    <2>2. \A n, v : Gives(p, n, v) => EnvValue(pod.main.env, n) = v
      OBVIOUS
    <2>3. IsProvider(p) /\ \E m \in DOMAIN a.providerRefs : p.name = a.providerRefs[m].name
      BY DEF Found
    <2> HIDE DEF p
    <2>4. DefaultsFit(a, p, config.providers[i])
      BY <2>1, <2>3, DefaultsFitting
    <2> HIDE DEF o
    <2>5. CredentialsFit(p, config.providers[i], pod.main.env)
      BY <2>1, <2>2, CredentialsFitting
    <2> QED  BY <2>4, <2>5 DEF p
  <1> QED  BY <1>1, <1>2, <1>3 DEF PodAndConfig

(* The tools of an agent. *)
LEMMA ToolNames ==
    ASSUME NEW a, IsAgent(a), OneOfEach(a), NEW ts, ts = [i \in DOMAIN a.tools |-> a.tools[i].name]
    PROVE  IsList(ts) /\ IsInjective(ts) /\ Range(ts) = {a.tools[i].name : i \in DOMAIN a.tools}
  <1>1. IsList(a.tools)
    BY DEF IsAgent
  <1>2. IsInjective(ts)
    BY DEF OneOfEach
  <1>3. ts = [i \in DOMAIN a.tools |-> ts[i]] /\ DOMAIN ts = DOMAIN a.tools
    OBVIOUS
  <1>4. Range(ts) = {a.tools[i].name : i \in DOMAIN a.tools}
    BY DEF Range
  <1>5. IsList(ts)
    BY <1>1, <1>3, MapList
  <1> QED  BY <1>2, <1>4, <1>5

(* A daemon and its config.json. *)
LEMMA AgentFits ==
    ASSUME NEW a, IsAgent(a), OneOfEach(a), NEW integrations,
           NEW providers, Found(providers, a.providerRefs),
           \A i \in DOMAIN providers : IsProvider(providers[i])
    PROVE  PodAndConfig(BuildAgentPodSpec(a, providers, integrations, FALSE), a,
                        BuildAgentConfigMap(a, integrations, providers), providers, {})
  <1> DEFINE taskMode == FALSE
             pod == BuildAgentPodSpec(a, providers, integrations, taskMode)
             config == BuildAgentConfigMap(a, integrations, providers)
             none == {}
  <1>1. \A i \in DOMAIN providers : \A n, v : Gives(providers[i], n, v) => EnvValue(pod.main.env, n) = v
    BY DaemonCredentials DEF Found
  <1>2. IsPod(pod, a, taskMode)
    <2> HIDE DEF taskMode
    <2> QED  BY PodBuilt
  <1> HIDE DEF taskMode, pod, config
  <1>3. IsConfig(config, a, providers) /\ config.tools = [i \in DOMAIN a.tools |-> a.tools[i].name]
    BY ConfigParts DEF config
  <1>4. /\ IsInjective(config.tools)
        /\ Range(config.tools) \subseteq {a.tools[i].name : i \in DOMAIN a.tools} \cup none
    BY <1>3, ToolNames
  <1> HIDE DEF none
  <1>5. PodAndConfig(pod, a, config, providers, none)
    BY <1>1, <1>2, <1>3, <1>4, Fitting
  <1> QED  BY <1>5 DEF pod, config, taskMode, none

(* The config.json of a run. *)
Platform(g) == IF g # None THEN {"github", "gitlab"} ELSE {}

IsRunConfig(config, a, run, providers, g) ==
    /\ IsConfig(config, a, providers) /\ IsInjective(config.tools)
    /\ Range(config.tools) \subseteq {a.tools[i].name : i \in DOMAIN a.tools} \cup Platform(g)
    /\ g # None /\ run.name # a.name => g.provider \in Range(config.tools) \cup {"git"}

LEMMA RunConfig ==
    ASSUME NEW a, IsAgent(a), OneOfEach(a), NEW run, NEW providers,
           NEW g, g # None => KnownProvider(g),
           NEW base, base = BuildAgentConfigMap(a, << >>, providers),
           NEW config, config = IF g = None THEN base ELSE CreateRunConfigMap(a, run, base, GitToolEntries(g))
    PROVE  IsRunConfig(config, a, run, providers, g)
  <1>1. /\ IsConfig(base, a, providers)
        /\ base.tools = [i \in DOMAIN a.tools |-> a.tools[i].name]
        /\ {"memory", "protocol", "tools", "providers"} \subseteq DOMAIN base
    <2> DEFINE none == << >>
    <2>1. base = BuildAgentConfigMap(a, none, providers)
      OBVIOUS
    <2> HIDE DEF none
    <2> QED  BY <2>1, ConfigParts
  <1>2. /\ IsList(base.tools) /\ IsInjective(base.tools)
        /\ Range(base.tools) = {a.tools[i].name : i \in DOMAIN a.tools}
    BY <1>1, ToolNames
  <1>3. CASE g = None \/ run.name = a.name
    <2>1. config = base
      BY <1>3 DEF CreateRunConfigMap
    <2> QED  BY <1>1, <1>2, <1>3, <2>1 DEF IsRunConfig
  <1>4. CASE g # None /\ run.name # a.name
    <2> DEFINE ts == base.tools \o NewEntries(base.tools, GitToolEntries(g))
    <2>1. ObjectName(run.name, "config") # ObjectName(a.name, "config")
      BY <1>4 DEF ObjectName
    <2>2. config = [base EXCEPT !.tools = ts]
      BY <1>4, <2>1 DEF CreateRunConfigMap, BuildAgentRunConfigMap, NewEntries
    <2>3. /\ IsInjective(ts) /\ Range(ts) \subseteq Range(base.tools) \cup {"github", "gitlab"}
          /\ g.provider \in Range(ts) \cup {"git"}
      <3>1. WithPlatform(ts, base.tools, g)
        BY <1>2, <1>4, RunTools
      <3> HIDE DEF ts
      <3> QED  BY <3>1 DEF WithPlatform
    <2> HIDE DEF ts
    <2>4. /\ config.memory = base.memory /\ config.protocol = base.protocol
          /\ config.providers = base.providers /\ config.tools = ts
      BY <1>1, <2>2
    <2>5. IsConfig(config, a, providers)
      BY <1>1, <2>4 DEF IsConfig
    <2> QED  BY <1>2, <1>4, <2>3, <2>4, <2>5 DEF IsRunConfig, Platform
  <1> QED  BY <1>3, <1>4

(* A run and its config.json. *)
LEMMA RunFits ==
    ASSUME NEW a, IsAgent(a), OneOfEach(a), NEW run,
           NEW providers, Found(providers, a.providerRefs),
           \A i \in DOMAIN providers : IsProvider(providers[i]),
           NEW g, g # None => KnownProvider(g),
           NEW base, base = BuildAgentConfigMap(a, << >>, providers),
           NEW config, config = IF g = None THEN base ELSE CreateRunConfigMap(a, run, base, GitToolEntries(g))
    PROVE  PodAndConfig(BuildAgentRunJob(a, run, providers, g).pod, a, config, providers, Platform(g))
  <1> DEFINE taskMode == TRUE
             pod == BuildAgentRunJob(a, run, providers, g).pod
             platform == Platform(g)
  <1>1. \A i \in DOMAIN providers : \A n, v : Gives(providers[i], n, v) => EnvValue(pod.main.env, n) = v
    BY JobCredentials DEF Found
  <1>2. IsPod(pod, a, taskMode)
    BY JobBuilt
  <1>3. /\ IsConfig(config, a, providers) /\ IsInjective(config.tools)
        /\ Range(config.tools) \subseteq {a.tools[i].name : i \in DOMAIN a.tools} \cup platform
    <2>1. IsRunConfig(config, a, run, providers, g)
      BY RunConfig
    <2> QED  BY <2>1 DEF IsRunConfig
  <1> HIDE DEF taskMode, pod, platform
  <1>4. PodAndConfig(pod, a, config, providers, platform)
    BY <1>1, <1>2, <1>3, Fitting
  <1> QED  BY <1>4 DEF pod, platform

(* The platform that a run is told of. *)
LEMMA RunProvider ==
    ASSUME NEW a, IsAgent(a), NEW run, NEW providers, IsList(providers),
           NEW g, g # None, KnownProvider(g)
    PROVE  EnvValue(BuildAgentRunJob(a, run, providers, g).pod.main.env, <<"GIT_PROVIDER">>) = Plain(g.provider)
  <1> DEFINE f == AgentFront(a, providers)
             none == << >>
             two == << EnvVar(<<"AGENT_PROMPT">>, run.prompt), EnvVar(<<"AGENT_RUN_NAME">>, run.name) >>
             t == GitEnvVars(g)
             front == (f \o none) \o two
             env == BuildAgentRunJob(a, run, providers, g).pod.main.env
  <1>1. env = front \o t
    <2>1. env = JobFront(a, run, providers) \o GitEnvVars(g)
      BY JobEnv
    <2> QED  BY <2>1 DEF JobFront
  <1>2. IsList(f) /\ IsList(none) /\ IsList(two)
    BY AgentFrontFacts, EmptyList, TwoEntriesFacts
  <1>3. IsList(t) /\ LastIs(t, <<"GIT_PROVIDER">>, Plain(g.provider))
    <2>1. IsGitEnv(t, g)
      BY GitEnvFacts DEF KnownProvider
    <2> HIDE DEF t
    <2> QED  BY <2>1 DEF IsGitEnv
  <1> HIDE DEF f, none, two, t, env
  <1>4. IsList(front)
    BY <1>2, ListConcat
  <1> HIDE DEF front
  <1>5. IsList(env) /\ LastIs(env, <<"GIT_PROVIDER">>, Plain(g.provider))
    BY <1>1, <1>3, <1>4, LastRight, ListConcat
  <1>6. EnvValue(env, <<"GIT_PROVIDER">>) = Plain(g.provider)
    BY <1>5, LastValue
  <1> QED  BY <1>6 DEF env

(* What the reconciler leaves behind for a daemon. *)
LEMMA AgentCoherent ==
    ASSUME Handled, kind = "Agent", OneOfEach(item.agent), NEW pod \in RenderedPods
    PROVE  /\ PodAndConfig(pod, item.agent, out.config, item.providers, {})
           /\ \A v \in Range(pod.volumes) : v.source[1] = "pvc" =>
                 v.source[2] = out.pvc.name /\ out.deployment.strategy = "Recreate"
           /\ Serves(out.service, out.deployment)
           /\ out.netpol # None =>
                 /\ out.netpol.selector \subseteq out.deployment.labels
                 /\ out.netpol.ingress = pod.main.ports
           /\ out.rbac # None => May(out.rbac, pod, <<"create", "agentruns">>)
  <1> DEFINE a == item.agent
             providers == item.providers
             integrations == item.integrations
             d == BuildAgentDeployment(a, providers, integrations)
             built == BuildAgentPodSpec(a, providers, integrations, FALSE)
  <1>1. stage = "done" /\ out.deployment # None /\ pod = out.deployment.pod
    BY DEF RenderedPods
  <1>2. /\ item \in Agents
        /\ out.config = BuildAgentConfigMap(a, integrations, providers)
        /\ out.deployment = d
        /\ out.rbac = IF a.serviceAccount = None THEN BuildAgentRBAC(a) ELSE None
        /\ a.storage # None => out.pvc = BuildAgentPVC(a)
        /\ out.service = BuildAgentService(a)
        /\ out.netpol = IF a.netpol THEN BuildAgentNetworkPolicy(a) ELSE None
    BY <1>1 DEF Handled, AgentHandled
  <1>3. /\ IsAgent(a) /\ OneOfEach(a) /\ Found(providers, a.providerRefs)
        /\ \A i \in DOMAIN providers : IsProvider(providers[i])
    BY <1>2, InputAssumption DEF InputAssumption, Resolves
  <1>4. /\ d.pod = built
        /\ d.labels = {<<"agent", a.name>>, <<"component", "runtime">>, <<"managed-by", "agentops">>}
        /\ d.selector = {<<"agent", a.name>>, <<"component", "runtime">>}
        /\ d.strategy = IF a.storage # None THEN "Recreate" ELSE "RollingUpdate"
    <2> HIDE DEF built
    <2>1. d = [pod |-> built, labels |-> CommonLabels(a.name, "runtime"),
               selector |-> {<<"agent", a.name>>, <<"component", "runtime">>},
               strategy |-> IF a.storage # None THEN "Recreate" ELSE "RollingUpdate"]
      BY DEF BuildAgentDeployment, built
    <2> HIDE DEF d
    <2> QED  BY <2>1 DEF CommonLabels
  <1> HIDE DEF d
  <1>5. pod = built
    BY <1>1, <1>2, <1>4
  <1>6. PodAndConfig(pod, a, out.config, providers, {})
    BY <1>2, <1>3, <1>5, AgentFits
  <1>7. IsPod(pod, a, FALSE)
    <2> DEFINE taskMode == FALSE
    <2>1. built = BuildAgentPodSpec(a, providers, integrations, taskMode)
      OBVIOUS
    <2> HIDE DEF taskMode, built, a
    <2>2. IsPod(built, a, taskMode)
      BY <1>3, <2>1, PodBuilt
    <2> QED  BY <1>5, <2>2 DEF taskMode
  <1> HIDE DEF built
  <1>8. pod.account = AgentServiceAccountName(a) /\ pod.main.ports = {AgentRuntimePort}
    BY <1>7 DEF IsPod
  <1>9. ASSUME NEW v \in Range(pod.volumes), v.source[1] = "pvc"
        PROVE  v.source[2] = out.pvc.name /\ out.deployment.strategy = "Recreate"
    <2>1. a.storage # None /\ v.source[2] = ObjectName(a.name, "storage")
      BY <1>7, <1>9 DEF IsPod, IsVolumes
    <2>2. out.pvc.name = ObjectName(a.name, "storage")
      BY <1>2, <2>1 DEF BuildAgentPVC
    <2>3. out.deployment.strategy = "Recreate"
      BY <1>2, <1>4, <2>1
    <2> QED  BY <2>1, <2>2, <2>3
  <1>10. Serves(out.service, out.deployment)
    <2>1. /\ out.service.selector = {<<"agent", a.name>>, <<"component", "runtime">>}
          /\ out.service.targetPort = AgentRuntimePort
      BY <1>2 DEF BuildAgentService
    <2>2. out.service.targetPort \in out.deployment.pod.main.ports
      BY <1>1, <1>8, <2>1
    <2>3. out.service.selector \cup out.deployment.selector \subseteq out.deployment.labels
      BY <1>2, <1>4, <2>1
    <2> QED  BY <2>2, <2>3 DEF Serves
  <1>11. ASSUME out.netpol # None
         PROVE  /\ out.netpol.selector \subseteq out.deployment.labels
                /\ out.netpol.ingress = pod.main.ports
    <2>1. /\ out.netpol.selector = {<<"agent", a.name>>, <<"component", "runtime">>}
          /\ out.netpol.ingress = {AgentRuntimePort}
      BY <1>2, <1>11 DEF BuildAgentNetworkPolicy
    <2>2. out.netpol.selector \subseteq out.deployment.labels
      BY <1>2, <1>4, <2>1
    <2> QED  BY <1>8, <2>1, <2>2
  <1>12. ASSUME out.rbac # None PROVE May(out.rbac, pod, <<"create", "agentruns">>)
    <2>1. out.rbac = BuildAgentRBAC(a)
      BY <1>2, <1>12
    <2>2. /\ out.rbac.account = pod.account /\ out.rbac.binding.subject = pod.account
          /\ out.rbac.binding.role = out.rbac.role
      BY <1>8, <2>1 DEF BuildAgentRBAC
    <2>3. <<"create", "agentruns">> \in out.rbac.rules
      BY <2>1 DEF BuildAgentRBAC
    <2> QED  BY <2>2, <2>3 DEF May
  <1> QED  BY <1>6, <1>9, <1>10, <1>11, <1>12

(* What the reconciler leaves behind for a run. *)
LEMMA RunCoherent ==
    ASSUME Handled, kind = "AgentRun", OneOfEach(item.agent), NEW pod \in RenderedPods
    PROVE  /\ PodAndConfig(pod, item.agent, out.config, item.providers,
                           IF item.git # None THEN {"github", "gitlab"} ELSE {})
           /\ \A v \in Range(pod.volumes) : v.source[1] # "pvc"
           /\ item.git # None =>
                 item.run.name = item.agent.name
                   \/ Env("GIT_PROVIDER")[2] \in Range(out.config.tools) \cup {"git"}
  <1> DEFINE a == item.agent
             run == item.run
             providers == item.providers
             g == RunWorkspace
             base == BuildAgentConfigMap(a, << >>, providers)
             job == BuildAgentRunJob(a, run, providers, g).pod
  <1>1. stage = "done" /\ pod = out.job.pod /\ RenderedPods = {pod}
    BY DEF RenderedPods
  <1>2. /\ item \in Runs
        /\ item.git # None => g # None
        /\ pod = job
        /\ out.config = IF g = None THEN base ELSE CreateRunConfigMap(a, run, base, GitToolEntries(g))
    BY <1>1 DEF Handled, RunHandled
  <1>3. /\ IsAgent(a) /\ OneOfEach(a) /\ Found(providers, a.providerRefs)
        /\ \A i \in DOMAIN providers : IsProvider(providers[i])
    BY <1>2, InputAssumption DEF InputAssumption
  <1>4. /\ g # None => item.git # None
        /\ g # None => KnownProvider(g)
    <2>1. item.git = None => g = None
      BY DEF RunWorkspace
    <2>2. item.git # None => g = ResolveGitWorkspace(item.git, item.integration)
      BY DEF RunWorkspace
    <2> HIDE DEF g
    <2> QED  BY <2>1, <2>2, WorkspaceFacts DEF KnownProvider
  <1> HIDE DEF g, base
  <1>5. base = BuildAgentConfigMap(a, << >>, providers)
    BY DEF base
  <1>6. Platform(g) = IF item.git # None THEN {"github", "gitlab"} ELSE {}
    BY <1>2, <1>4 DEF Platform
  <1>7. PodAndConfig(pod, a, out.config, providers, Platform(g))
    <2> DEFINE config == out.config
    <2>1. config = IF g = None THEN base ELSE CreateRunConfigMap(a, run, base, GitToolEntries(g))
      BY <1>2
    <2> HIDE DEF config, a, run, providers
    <2>2. PodAndConfig(job, a, config, providers, Platform(g))
      BY <1>3, <1>4, <1>5, <2>1, RunFits
    <2> QED  BY <1>2, <2>2 DEF config
  <1>8. IsPod(pod, a, TRUE)
    BY <1>2, <1>3, JobBuilt
  <1>9. \A v \in Range(pod.volumes) : v.source[1] # "pvc"
    BY <1>8 DEF IsPod, IsVolumes
  <1>10. ASSUME item.git # None, run.name # a.name
         PROVE  Env("GIT_PROVIDER")[2] \in Range(out.config.tools) \cup {"git"}
    <2>1. IsRunConfig(out.config, a, run, providers, g)
      <3> DEFINE config == out.config
      <3>1. config = IF g = None THEN base ELSE CreateRunConfigMap(a, run, base, GitToolEntries(g))
        BY <1>2
      <3> HIDE DEF config, a, run, providers
      <3>2. IsRunConfig(config, a, run, providers, g)
        BY <1>3, <1>4, <1>5, <3>1, RunConfig
      <3> QED  BY <3>2 DEF config
    <2>2. g.provider \in Range(out.config.tools) \cup {"git"}
      BY <1>2, <1>10, <2>1 DEF IsRunConfig
    <2>3. EnvValue(pod.main.env, <<"GIT_PROVIDER">>) = Plain(g.provider)
      <3>1. IsList(providers) /\ g # None /\ KnownProvider(g)
        BY <1>2, <1>3, <1>4, <1>10 DEF Found
      <3> HIDE DEF a, run, providers
      <3> QED  BY <1>2, <1>3, <3>1, RunProvider
    <2>4. Env("GIT_PROVIDER") = EnvValue(pod.main.env, <<"GIT_PROVIDER">>)
      <3>1. (CHOOSE q \in RenderedPods : TRUE) = pod
        BY <1>1
      <3> QED  BY <3>1 DEF Env
    <2>5. Env("GIT_PROVIDER")[2] = g.provider
      BY <2>3, <2>4 DEF Plain
    <2> QED  BY <2>2, <2>5
  <1> QED  BY <1>6, <1>7, <1>9, <1>10

(* The invariant of the handlers implies that all of it fits. *)
LEMMA CoherentWhenHandled ==
    ASSUME Handled
    PROVE  PodCoherent
  <1> SUFFICES ASSUME kind \in {"Agent", "AgentRun"}, OneOfEach(item.agent), NEW pod \in RenderedPods
               PROVE  /\ PodAndConfig(pod, item.agent, out.config, item.providers,
                                      IF kind = "AgentRun" /\ item.git # None THEN {"github", "gitlab"} ELSE {})
                      /\ \A v \in Range(pod.volumes) : v.source[1] = "pvc" =>
                            kind = "Agent" /\ v.source[2] = out.pvc.name /\ out.deployment.strategy = "Recreate"
                      /\ kind = "Agent" =>
                            /\ Serves(out.service, out.deployment)
                            /\ out.netpol # None =>
                                  /\ out.netpol.selector \subseteq out.deployment.labels
                                  /\ out.netpol.ingress = pod.main.ports
                            /\ out.rbac # None => May(out.rbac, pod, <<"create", "agentruns">>)
                      /\ kind = "AgentRun" /\ item.git # None =>
                            item.run.name = item.agent.name
                              \/ Env("GIT_PROVIDER")[2] \in Range(out.config.tools) \cup {"git"}
    BY Zenon DEF PodCoherent, OneOfEach, PodAndConfig, PodFits, ConfigFits, CredentialsFit, DefaultsFit
  <1>1. CASE kind = "Agent"
    BY <1>1, AgentCoherent
  <1>2. CASE kind = "AgentRun"
    BY <1>2, RunCoherent
  <1> QED  BY <1>1, <1>2

(* For all objects: config.json, the pod of a daemon or a run and the      *)
(* objects around it fit each other.  Every mount has its volume and a     *)
(* path of its own, every tool its init container, every Provider its      *)
(* credentials in the variables that config.json names and its call        *)
(* defaults merged setting by setting; what the agent is told of its       *)
(* memory is so; a claim is mounted by a Deployment that replaces its pod; *)
(* Service, network policy and RBAC are for the pod; and a run has the     *)
(* tool of its git platform (BuildAgentPodSpec, BuildAgentRunJob,          *)
(* BuildAgentConfigMap, BuildAgentRunConfigMap).                           *)
THEOREM PodAlwaysCoherent == Spec => []PodCoherent
  <1>1. Handled => PodCoherent
    BY CoherentWhenHandled
  <1> QED  BY <1>1, HandledInvariant, PTL

=============================================================================
