----------------------------- MODULE MCService ------------------------------
(* An instance of Service for TLC: a webhook that may fail, a thumbnail or  *)
(* an e-mail without a recipient, in six deployments.                       *)
EXTENDS Service

MCOrders ==
  {[type |-> "webhook", payload |-> [readable |-> TRUE, fields |-> {"url"}]],
   [type |-> "generate_thumbnail",
    payload |-> [readable |-> TRUE, fields |-> {"video_id"}]],
   [type |-> "send_email",
    payload |-> [readable |-> TRUE, fields |-> {"subject"}]]}

StopsOf == [p \in Process |-> 1]

MCEnv(storage, broker, embedded) ==
  [STORAGE_DRIVER |-> storage,
   DATABASE_URL |-> IF storage = "postgres" THEN "dsn" ELSE "",
   BROKER_DRIVER |-> broker, EMBEDDED_WORKER |-> embedded]
Deploy(api, worker) == [api |-> api, worker |-> worker]

(* docker-compose.yml; the same with a worker inside the API as well.      *)
SharedEnv == MCEnv("postgres", "redis", "")
Compose == Deploy(SharedEnv, SharedEnv)
Both == Deploy(MCEnv("postgres", "redis", "true"), SharedEnv)

(* Nothing set but EMBEDDED_WORKER; the same with SQL; two programs with   *)
(* nothing set, whose brokers do not meet.                                 *)
Development == Deploy(MCEnv("", "", "true"), NotDeployed)
StrandedRows == Deploy(MCEnv("postgres", "memory", "true"), NotDeployed)
Apart == Deploy(MCEnv("", "", ""), MCEnv("", "", ""))

(* The API was not told its DATABASE_URL and falls back to memory. *)
Fallback == Deploy([SharedEnv EXCEPT !.DATABASE_URL = ""], SharedEnv)

AllDeployments ==
  {Compose, Both, Development, StrandedRows, Apart, Fallback}
=============================================================================
