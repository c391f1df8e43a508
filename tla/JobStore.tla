------------------------------ MODULE JobStore ------------------------------
(***************************************************************************)
(* The jobs and job_logs tables behind storage.Storage.  Every method is   *)
(* one atomic step: the memory store holds its lock for the whole method,  *)
(* the Postgres stores run one statement.  UpdateJob writes the WHOLE row  *)
(* from the caller's copy, whatever happened to the row since that copy    *)
(* was read.                                                               *)
(*                                                                         *)
(* A row keeps what decides control flow: status, attempts and why it      *)
(* failed.  Payload, result and timestamps are left out.                   *)
(***************************************************************************)
EXTENDS Naturals

CONSTANTS
  Jobs,
  Keys,        \* idempotency keys
  NoKey,       \* the empty idempotency_key
  KeyOf,       \* KeyOf[j]: the idempotency_key of the request that makes j
  UniqueKeys   \* TRUE for GORM, whose idempotency_key has a unique index

VARIABLES
  rows,        \* rows[j]: the row of job j, NoRow until CreateJob
  logs         \* logs[j]: the kinds of log record appended for j

Status == {"QUEUED", "RUNNING", "RETRYING", "SUCCEEDED", "FAILED"}
Reason == {"none", "failure", "cancelled"}

Row == [status : Status, attempts : Nat, error : Reason]
NoRow == [status |-> "ABSENT", attempts |-> 0, error |-> "none"]
NewRow == [status |-> "QUEUED", attempts |-> 0, error |-> "none"]

LogKind == {"started", "succeeded", "retry", "failed"}

TypeOK ==
  /\ rows \in [Jobs -> Row \cup {NoRow}]
  /\ logs \in [Jobs -> SUBSET LogKind]

Init ==
  /\ rows = [j \in Jobs |-> NoRow]
  /\ logs = [j \in Jobs |-> {}]

(* The rows GetJobByIdempotencyKey may return for the key of job j. *)
SameKey(j) ==
  {i \in Jobs : rows[i] # NoRow /\ KeyOf[i] # NoKey /\ KeyOf[i] = KeyOf[j]}

(* Mistake: the index on idempotency_key is not unique. *)
CreateJob_PlainIndex(j) ==
  /\ rows' = [rows EXCEPT ![j] = NewRow]
  /\ UNCHANGED logs

CreateJob(j) ==
  /\ UniqueKeys => SameKey(j) = {}
  /\ rows' = [rows EXCEPT ![j] = NewRow]
  /\ UNCHANGED logs

UpdateJob(j, row) ==
  /\ rows[j] # NoRow
  /\ rows' = [rows EXCEPT ![j] = row]
  /\ UNCHANGED logs

AppendJobLog(j, kind) ==
  /\ logs' = [logs EXCEPT ![j] = @ \cup {kind}]
  /\ UNCHANGED rows
=============================================================================
