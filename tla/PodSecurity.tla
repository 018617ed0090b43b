---------------------------- MODULE PodSecurity -----------------------------
(***************************************************************************)
(* The restricted security floor (internal/resources/security.go): what    *)
(* the operator sets on every pod it builds, and how the overrides that    *)
(* users ask for are merged with it.  An optional field that is not set is *)
(* None.  Three groups of fields need no more than one value each:         *)
(*   passed   the fields that are copied unseen: runAsGroup and, of a pod, *)
(*            fsGroup, fsGroupChangePolicy and supplementalGroups;         *)
(*   seLinux  the SELinux options, copied too: "permitted" if the Pod      *)
(*            Security Standards allow them, else "other";                 *)
(*   ignored  the fields that users may write and no code looks at:        *)
(*            appArmorProfile, windowsOptions, of a pod sysctls,           *)
(*            supplementalGroupsPolicy and seLinuxChangePolicy, of a       *)
(*            container procMount.                                         *)
(***************************************************************************)
EXTENDS PodSpec

CONSTANTS
    Uid,        \* user ids
    Opaque,     \* values of the fields that are passed through or ignored
    Capability  \* Linux capabilities

RestrictedRunAsUser == 65532
Seccomp == {"RuntimeDefault", "Localhost", "Unconfined"}
SELinux == {"permitted", "other"}

ASSUME SecurityAssumption ==
    /\ Uid \subseteq Nat /\ RestrictedRunAsUser \in Uid
    /\ "ALL" \in Capability /\ "NET_RAW" \in Capability
    /\ None \notin Nat /\ None \notin BOOLEAN /\ None \notin Opaque /\ None \notin Seccomp
    /\ None \notin SELinux

PodOverride ==
    [runAsNonRoot : Opt(BOOLEAN), runAsUser : Opt(Uid), seccomp : Opt(Seccomp),
     passed : Opt(Opaque), seLinux : Opt(SELinux), ignored : Opt(Opaque)]
ContainerOverride ==
    [allowPrivilegeEscalation : Opt(BOOLEAN), privileged : Opt(BOOLEAN),
     readOnlyRootFilesystem : Opt(BOOLEAN), runAsNonRoot : Opt(BOOLEAN),
     runAsUser : Opt(Uid), add : SUBSET Capability, seccomp : Opt(Seccomp),
     passed : Opt(Opaque), seLinux : Opt(SELinux), ignored : Opt(Opaque)]
SecurityOverrides ==
    [pod : Opt(PodOverride), container : Opt(ContainerOverride), automount : Opt(BOOLEAN)]
NoOverrides == [pod |-> None, container |-> None, automount |-> None]

RestrictedContainerSecurityContext ==
    [allowPrivilegeEscalation |-> FALSE, privileged |-> None, readOnlyRootFilesystem |-> TRUE,
     runAsNonRoot |-> TRUE, runAsUser |-> None, add |-> {}, drop |-> {"ALL", "NET_RAW"},
     seccomp |-> "RuntimeDefault", passed |-> None, seLinux |-> None, ignored |-> None]

RestrictedPodSecurityContext ==
    [runAsNonRoot |-> TRUE, runAsUser |-> RestrictedRunAsUser, seccomp |-> "RuntimeDefault",
     passed |-> None, seLinux |-> None, ignored |-> None]

(* An override of v is taken unless it is bad. *)
Merged(v, override, bad) == IF override = None \/ override \in bad THEN v ELSE override

(* Mutant: only an explicit "Unconfined" of the container is looked at. *)
MergePodLoosely(override) ==
    LET base == RestrictedPodSecurityContext
    IN  IF override = None THEN [out |-> base, violations |-> {}]
          ELSE [out |-> [base EXCEPT !.runAsUser = Merged(@, override.runAsUser, {0}),
                                     !.seccomp = Merged(@, override.seccomp, {}),
                                     !.passed = override.passed, !.seLinux = override.seLinux],
                violations |-> {}]

MergePodSecurityContext(override) ==
    LET base == RestrictedPodSecurityContext
    IN  IF override = None THEN [out |-> base, violations |-> {}]
          ELSE [out |-> [base EXCEPT !.runAsUser = Merged(@, override.runAsUser, {0}),
                                     !.seccomp = Merged(@, override.seccomp, {"Unconfined"}),
                                     !.passed = override.passed, !.seLinux = override.seLinux],
                violations |->
                    {f \in {"runAsNonRoot", "runAsUser", "seccomp"} :
                        CASE f = "runAsNonRoot" -> override.runAsNonRoot = FALSE
                          [] f = "runAsUser" -> override.runAsUser = 0
                          [] f = "seccomp" -> override.seccomp = "Unconfined"}]

(* The capabilities to drop are fixed, and none is added. *)
MergeContainerSecurityContext(override) ==
    LET base == RestrictedContainerSecurityContext
    IN  IF override = None THEN [out |-> base, violations |-> {}]
          ELSE [out |-> [base EXCEPT !.runAsUser = Merged(@, override.runAsUser, {0}),
                                     !.seccomp = Merged(@, override.seccomp, {"Unconfined"}),
                                     !.passed = override.passed, !.seLinux = override.seLinux],
                violations |->
                    {f \in DOMAIN override :
                        CASE f = "allowPrivilegeEscalation" -> override[f] = TRUE
                          [] f = "privileged" -> override[f] = TRUE
                          [] f = "readOnlyRootFilesystem" -> override[f] = FALSE
                          [] f = "runAsNonRoot" -> override[f] = FALSE
                          [] f = "runAsUser" -> override[f] = 0
                          [] f = "add" -> override[f] # {}
                          [] f = "seccomp" -> override[f] = "Unconfined"
                          [] f \in {"passed", "seLinux", "ignored"} -> FALSE}]

(* The SecurityPolicyViolations condition of the owner lists these. *)
ComputeSecurityViolations(overrides) ==
    [pod |-> MergePodSecurityContext(overrides.pod).violations,
     container |-> MergeContainerSecurityContext(overrides.container).violations]

(* A container's sc and its mount of /tmp are set here, the rest of it by  *)
(* the builders.                                                           *)
ApplyContainer(c, sc) ==
    [c EXCEPT !.sc = sc,
              !.mounts = IF \E i \in DOMAIN @ : @[i].volume = <<"tmp">> THEN @
                           ELSE Append(@, Mount(<<"tmp">>, <<"/tmp">>))]

(* The one entry point: init containers are always restricted, the main    *)
(* container gets the overrides, and a pod has one container besides the   *)
(* init containers.                                                        *)
ApplySecurity(pod, overrides) ==
    [pod EXCEPT
       !.sc = MergePodSecurityContext(overrides.pod).out,
       !.automount = (overrides.automount = TRUE),
       !.init = [i \in DOMAIN @ |-> ApplyContainer(@[i], RestrictedContainerSecurityContext)],
       !.main = ApplyContainer(@, MergeContainerSecurityContext(overrides.container).out),
       !.volumes = IF \E i \in DOMAIN @ : @[i].name = <<"tmp">> THEN @
                     ELSE Append(@, Volume(<<"tmp">>, <<"emptyDir">>))]

-----------------------------------------------------------------------------

(* What the restricted Pod Security Standard asks of a container, whose    *)
(* own settings go before those of its pod, and a read-only root file      *)
(* system.  The rules on procMount, AppArmor, sysctls and host processes   *)
(* are kept by setting none of these; the rule on SELinux is apart.        *)
Effective(c, p, f) == IF c[f] # None THEN c[f] ELSE p[f]
Restricted(c, p) ==
    /\ c.allowPrivilegeEscalation = FALSE
    /\ c.privileged # TRUE
    /\ c.readOnlyRootFilesystem = TRUE
    /\ Effective(c, p, "runAsNonRoot") = TRUE
    /\ Effective(c, p, "runAsUser") # 0
    /\ c.add = {} /\ "ALL" \in c.drop
    /\ Effective(c, p, "seccomp") \in {"RuntimeDefault", "Localhost"}
    /\ c.ignored = None /\ p.ignored = None

(* The Standard's rule on SELinux is kept unless the override breaks it,   *)
(* which is left to the cluster's admission policy.                        *)
SELinuxAsAsked(sc, override) ==
    \/ sc.seLinux \in {None, "permitted"}
    \/ override # None /\ override.seLinux = sc.seLinux

(* Every field that a user sets, but for those that no code looks at, is   *)
(* either in force or reported.                                            *)
HonouredOrReported(override, merge) ==
    override # None =>
        \A f \in DOMAIN override \ {"ignored"} :
            \/ override[f] \in {None, merge.out[f]}
            \/ f = "privileged" /\ override[f] = FALSE  \* which is what not set means
            \/ f \in merge.violations
=============================================================================
