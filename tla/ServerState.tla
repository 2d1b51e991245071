---------------------------- MODULE ServerState -----------------------------
(***************************************************************************)
(* What the mysql parser knows of its server: with the --mysql.host option *)
(* Init asks once for the host's name and role, and a goroutine asks again *)
(* and again whether the server is read-only and how far behind its source *)
(* it is.  The answers are kept behind pointers that the workers of        *)
(* handleEvents read without a lock; a pointer is nil while the server     *)
(* does not answer.                                                        *)
(***************************************************************************)

VARIABLES
  host,      (* the --mysql.host option is set *)
  server,    (* what the server is *)
  changed,   (* it was something else when Init asked *)
  fixed,     (* what Init has found: hostedOn and role *)
  pointers,  (* which of readOnly and replicaLag are not nil *)
  polling    (* what the goroutine asks for next *)

serverState == <<host, server, changed, fixed, pointers, polling>>

(* "primary"; "replica"; "halted", a replica whose replication is stopped; *)
(* "down", not to be reached.                                              *)
Servers == {"primary", "replica", "halted", "down"}

(* Which of the questions server s answers.  A replica does not answer the *)
(* one about its role; it has a lag only while it replicates.              *)
GetHostedOn(s)   == s # "down"
GetRole(s)       == s = "primary"
GetReadOnly(s)   == s # "down"
GetReplicaLag(s) == s = "replica"

ServerTypeOK ==
  /\ {host, changed} \subseteq BOOLEAN /\ server \in Servers
  /\ fixed \subseteq {"hosted_on", "role"}
  /\ pointers \subseteq {"read_only", "replica_lag"}
  /\ polling \in {"read_only", "replica_lag"}

ServerInit(hosts) ==
  /\ host \in hosts
  /\ server \in IF host THEN Servers ELSE {"down"}
  /\ changed = FALSE
  /\ fixed = {a \in {"hosted_on", "role"} : IF a = "role" THEN GetRole(server) ELSE GetHostedOn(server)}
  /\ pointers = {} /\ polling = "read_only"

ServerChanges ==
  /\ host
  /\ server' \in Servers \ {server} /\ changed' = TRUE
  /\ UNCHANGED <<host, fixed, pointers, polling>>

(* One question of the goroutine of Init.                                  *)
Poll ==
  /\ host
  /\ IF polling = "read_only"
       THEN /\ pointers' = (pointers \ {polling}) \cup (IF GetReadOnly(server) THEN {polling} ELSE {})
            /\ polling' = "replica_lag"
       ELSE /\ pointers' = (pointers \ {polling}) \cup (IF GetReplicaLag(server) THEN {polling} ELSE {})
            /\ polling' = "read_only"
  /\ UNCHANGED <<host, server, changed, fixed>>
=============================================================================
