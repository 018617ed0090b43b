------------------------------ MODULE PodSpec -------------------------------
(***************************************************************************)
(* The parts of a Kubernetes PodSpec that the builders of                  *)
(* internal/resources fill in: environment variables, mounts and volumes.  *)
(* Names that the code puts together from constants and object names are   *)
(* tuples: <<"tools">>, <<"API_KEY", provider>>, <<"context", i>>.  A      *)
(* field that is not set, or an empty string, is None.                     *)
(***************************************************************************)
EXTENDS Naturals, Sequences, FiniteSetsExt

CONSTANTS
    None,
    Secret    \* references to a key of a Secret

Opt(S) == S \cup {None}

EnvVar(name, value) == [name |-> name, value |-> <<"plain", value>>]
SecretEnvVar(name, secret) == [name |-> name, value |-> <<"secret", secret>>]

(* A conditional append. *)
When(c, list) == IF c THEN list ELSE << >>

ObjectName(name, suffix) == <<name, suffix>>

Mount(volume, path) == [volume |-> volume, path |-> path]
Volume(name, source) == [name |-> name, source |-> source]

(* The kubelet sets a variable to its last entry in the container's list.  *)
EnvValue(env, name) ==
    LET at == {i \in DOMAIN env : env[i].name = name}
    IN  IF at = {} THEN None ELSE env[Max(at)].value
=============================================================================
