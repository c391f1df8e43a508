------------------------------ MODULE Service -------------------------------
(***************************************************************************)
(* The two programs, cmd/api and cmd/worker, from their environment to     *)
(* their end: which store and which broker each of them opens, a worker    *)
(* inside the API or in a process of its own, the signal that cancels      *)
(* every call of a worker on SQL and Redis, a kill, and the next start.    *)
(*                                                                         *)
(* A memory store or broker belongs to one process and dies with it; SQL   *)
(* and Redis are shared and stay.  Calls that fail have no effect, and the *)
(* code ignores that they failed.  TaskQueue has the interleavings within  *)
(* one execution, the logs and the requests other than CreateJob;          *)
(* WorkerPool has the worker's own row and its heartbeats.                 *)
(***************************************************************************)
EXTENDS Handlers, Integers, FiniteSets

CONSTANTS
  Jobs,
  Orders,             \* [type, payload] of the jobs clients create
  MaxAttempts,        \* of every job
  Deployments,        \* [api : Env, worker : Env \cup {NotDeployed}]
  MaxStops,           \* bound: how often a process may be stopped
  MaxErrors,          \* bound: webhooks that fail
  MaxDuplicates       \* bound: reclaimed entries of failed attempts

Process == {"api", "worker"}

(* An environment; "" is a variable that is not set. *)
Env == [STORAGE_DRIVER : {"", "memory", "postgres"},
        DATABASE_URL : {"", "dsn"},
        BROKER_DRIVER : {"", "memory", "redis"},
        EMBEDDED_WORKER : {"", "true"}]
NotDeployed == [deployed |-> FALSE]

ASSUME ServiceAssumption ==
  /\ Orders \subseteq [type : NewRegistry, payload : Payload]
  /\ MaxAttempts \in Nat \ {0}
  /\ Deployments \subseteq [api : Env, worker : Env \cup {NotDeployed}]
  /\ MaxStops \in [Process -> Nat]
  /\ {MaxErrors, MaxDuplicates} \subseteq Nat

VARIABLES
  env,         \* the environment of each process
  phase,       \* "down", "up", "stopping" (signal seen) or "closing" (the
               \* broker is closed)
  rows,        \* rows[s][j]: the row of job j in store s
  ready,       \* ready[b][j]: messages of j nobody has read from broker b
  pending,     \* pending[j]: entries of j read from Redis, not acknowledged
  request,     \* request[j]: the CreateJob request for j
  order,       \* order[j]: what it asks for
  exec,        \* exec[p]: what the worker of p is doing
  failures,    \* history: failures[j] counts failures of j's own
  stops, errors, duplicates   \* what the bounds count

worldVars == <<rows, ready, pending>>
budgets == <<stops, errors, duplicates>>
vars == <<env, phase, worldVars, request, order, exec, failures, budgets>>

-----------------------------------------------------------------------------
(* Configuration. *)

getEnv(value, fallback) == IF value = "" THEN fallback ELSE value

LoadAPIConfig(e) ==
  [StorageDriver |-> getEnv(e.STORAGE_DRIVER, "memory"),
   DBURL |-> e.DATABASE_URL,
   BrokerDriver |-> getEnv(e.BROKER_DRIVER, "memory"),
   hostsWorker |-> e.EMBEDDED_WORKER = "true"]

LoadWorkerConfig(e) ==
  [StorageDriver |-> getEnv(e.STORAGE_DRIVER, "memory"),
   DBURL |-> e.DATABASE_URL,
   BrokerDriver |-> getEnv(e.BROKER_DRIVER, "memory"),
   hostsWorker |-> TRUE]

Deployed == {p \in Process : env[p] # NotDeployed}
Config(p) ==
  IF p = "api" THEN LoadAPIConfig(env[p]) ELSE LoadWorkerConfig(env[p])
Hosts == {p \in Deployed : Config(p).hostsWorker}

(* Stores and brokers: the shared one or the process's own.  Without a     *)
(* DATABASE_URL, "postgres" means memory.                                  *)
Stores == Process \cup {"sql"}
Brokers == Process \cup {"redis"}

initStorage(p) ==
  IF Config(p).StorageDriver = "postgres" /\ Config(p).DBURL # ""
    THEN "sql" ELSE p
initBroker(p) == IF Config(p).BrokerDriver = "redis" THEN "redis" ELSE p

-----------------------------------------------------------------------------
Status == {"QUEUED", "RUNNING", "RETRYING", "SUCCEEDED", "FAILED"}
Row == [status : Status, attempts : Nat]
NoRow == [status |-> "ABSENT", attempts |-> 0]

(* Entries are owed an execution, or left behind by an attempt that failed, *)
(* which never acknowledges its entry.                                      *)
Entries == [owed : Nat, left : Nat]
NoEntries == [owed |-> 0, left |-> 0]

NoOrder == [type |-> "none"]
RequestPC == {"none", "insert", "enqueue", "reply", "answered", "cut", "failed"}

ExecPC == {"load", "drop", "mark", "handler", "save", "finish"}
Off == [pc |-> "off"]
Idle == [pc |-> "idle"]
Execution == [pc : ExecPC, job : Jobs, row : Row \cup {NoRow}]

TypeOK ==
  /\ env \in Deployments
  /\ phase \in [Process -> {"down", "up", "stopping", "closing"}]
  /\ rows \in [Stores -> [Jobs -> Row \cup {NoRow}]]
  /\ ready \in [Brokers -> [Jobs -> Nat]]
  /\ pending \in [Jobs -> Entries]
  /\ request \in [Jobs -> RequestPC]
  /\ order \in [Jobs -> Orders \cup {NoOrder}]
  /\ exec \in [Process -> Execution \cup {Off, Idle}]
  /\ failures \in [Jobs -> Nat]
  /\ stops \in [Process -> Nat]
  /\ {errors, duplicates} \subseteq Nat

Init ==
  /\ env \in Deployments
  /\ phase = [p \in Process |-> "down"]
  /\ rows = [s \in Stores |-> [j \in Jobs |-> NoRow]]
  /\ ready = [b \in Brokers |-> [j \in Jobs |-> 0]]
  /\ pending = [j \in Jobs |-> NoEntries]
  /\ request = [j \in Jobs |-> "none"]
  /\ order = [j \in Jobs |-> NoOrder]
  /\ exec = [p \in Process |-> Off]
  /\ failures = [j \in Jobs |-> 0]
  /\ stops = [p \in Process |-> 0]
  /\ errors = 0 /\ duplicates = 0
-----------------------------------------------------------------------------
(* The calls of a worker.  The signal cancels the context of all of them,  *)
(* and with it those on SQL and Redis fail; the memory store and broker    *)
(* ignore it, except in the delay of Requeue.                              *)

Cancelled(p) == phase[p] # "up"
StoreWorks(p) == ~Cancelled(p) \/ initStorage(p) # "sql"
BrokerWorks(p) == ~Cancelled(p) \/ initBroker(p) # "redis"

Doing(p, pc) == exec[p].pc = pc
Job(p) == exec[p].job
Go(p, pc) == exec' = [exec EXCEPT ![p].pc = pc]

(* Mistake: outcomes are saved with a context that nothing cancels. *)
UpdateJob_Background(p, row) ==
  rows' = IF rows[initStorage(p)][Job(p)] # NoRow
            THEN [rows EXCEPT ![initStorage(p)][Job(p)] = row]
            ELSE rows

UpdateJob(p, row) ==
  rows' = IF StoreWorks(p) /\ rows[initStorage(p)][Job(p)] # NoRow
            THEN [rows EXCEPT ![initStorage(p)][Job(p)] = row]
            ELSE rows

Acknowledge(p) ==
  pending' = IF initBroker(p) = "redis"
               THEN [pending EXCEPT ![Job(p)].owed = @ - 1]
               ELSE pending

(* Mistake: messages are acknowledged with a context nothing cancels. *)
Ack_Background(p) == Acknowledge(p)

Ack(p) == IF BrokerWorks(p) THEN Acknowledge(p) ELSE UNCHANGED pending

(* An attempt that failed leaves its entry behind, unless its outcome did  *)
(* not reach the broker.                                                   *)
LeaveEntry(p) ==
  pending' = IF BrokerWorks(p) /\ initBroker(p) = "redis"
               THEN [pending EXCEPT ![Job(p)] =
                       [owed |-> @.owed - 1, left |-> @.left + 1]]
               ELSE pending

(* Its delay ends early when the context is cancelled, and then nothing is *)
(* published, by either broker.                                            *)
Requeue(p) ==
  IF Cancelled(p)
    THEN UNCHANGED <<ready, pending>>
    ELSE /\ ready' = [ready EXCEPT ![initBroker(p)][Job(p)] = @ + 1]
         /\ LeaveEntry(p)

-----------------------------------------------------------------------------
(* The processes. *)

(* main: new private stores and brokers, and the server accepts requests.  *)
Boot(p) ==
  /\ p \in Deployed
  /\ phase[p] = "down"
  /\ phase' = [phase EXCEPT ![p] = "up"]
  /\ rows' = [rows EXCEPT ![p] = [j \in Jobs |-> NoRow]]
  /\ ready' = [ready EXCEPT ![p] = [j \in Jobs |-> 0]]
  /\ exec' = [exec EXCEPT ![p] = Off]
  /\ UNCHANGED <<env, pending, request, order, failures, budgets>>

(* worker.Start, the worker of p registers and its loops run. *)
Register(p) ==
  /\ p \in Hosts
  /\ phase[p] = "up"
  /\ exec[p] = Off
  /\ exec' = [exec EXCEPT ![p] = Idle]
  /\ UNCHANGED <<env, phase, worldVars, request, order, failures, budgets>>

StopsOnce(p) ==
  /\ stops[p] < MaxStops[p]
  /\ stops' = [stops EXCEPT ![p] = @ + 1]
  /\ UNCHANGED <<env, worldVars, order, failures, errors, duplicates>>

(* The registration fails and ends the process, that of the API too. *)
RegisterFails(p) ==
  /\ p \in Hosts
  /\ phase[p] = "up"
  /\ exec[p] = Off
  /\ initStorage(p) = "sql"
  /\ phase' = [phase EXCEPT ![p] = "stopping"]
  /\ StopsOnce(p)
  /\ UNCHANGED <<request, exec>>

(* SIGTERM. *)
Signal(p) ==
  /\ phase[p] = "up"
  /\ phase' = [phase EXCEPT ![p] = "stopping"]
  /\ StopsOnce(p)
  /\ UNCHANGED <<request, exec>>

(* What the process had in hand ends with it. *)
End(p) ==
  /\ phase' = [phase EXCEPT ![p] = "down"]
  /\ exec' = [exec EXCEPT ![p] = Off]
  /\ request' = [j \in Jobs |->
                   IF p = "api" /\ request[j] \in {"insert", "enqueue", "reply"}
                     THEN "cut" ELSE request[j]]

Kill(p) ==
  /\ phase[p] # "down"
  /\ End(p)
  /\ StopsOnce(p)

(* The server waits for its requests and the worker for its pool, but only *)
(* for so long; nobody waits for the worker inside the API.  Then the      *)
(* broker is closed, the store, and main returns.                          *)
CloseBroker(p) ==
  /\ phase[p] = "stopping"
  /\ phase' = [phase EXCEPT ![p] = "closing"]
  /\ UNCHANGED <<env, worldVars, request, exec, order, failures, budgets>>

Exit(p) ==
  /\ phase[p] = "closing"
  /\ End(p)
  /\ UNCHANGED <<env, worldVars, order, failures, budgets>>
-----------------------------------------------------------------------------
(* CreateJob in the API.  Its calls have the context of the request, which *)
(* the signal leaves alone; the broker may be closed, though.              *)

Submit(j) ==
  /\ phase["api"] = "up"
  /\ request[j] = "none"
  /\ request' = [request EXCEPT ![j] = "insert"]
  /\ \E o \in Orders : order' = [order EXCEPT ![j] = o]
  /\ UNCHANGED <<env, phase, worldVars, exec, failures, budgets>>

Insert(j) ==
  /\ request[j] = "insert"
  /\ rows' = [rows EXCEPT ![initStorage("api")][j] =
                [status |-> "QUEUED", attempts |-> 0]]
  /\ request' = [request EXCEPT ![j] = "enqueue"]
  /\ UNCHANGED <<env, phase, ready, pending, exec, order, failures, budgets>>

Enqueue(j) ==
  LET b == initBroker("api") IN
  /\ request[j] = "enqueue"
  /\ IF phase["api"] = "closing" /\ b = "redis"
       THEN /\ request' = [request EXCEPT ![j] = "failed"]
            /\ UNCHANGED ready
       ELSE /\ request' = [request EXCEPT ![j] = "reply"]
            /\ ready' = [ready EXCEPT ![b][j] = @ + 1]
  /\ UNCHANGED <<env, phase, rows, pending, exec, order, failures, budgets>>

Reply(j) ==
  /\ request[j] = "reply"
  /\ request' = [request EXCEPT ![j] = "answered"]
  /\ UNCHANGED <<env, phase, worldVars, exec, order, failures, budgets>>
-----------------------------------------------------------------------------
(* The worker of process p, with one slot. *)

Start(p, j) ==
  /\ exec[p] = Idle
  /\ exec' = [exec EXCEPT ![p] = [pc |-> "load", job |-> j, row |-> NoRow]]

(* Mistake: a read of an empty queue yields a message. *)
Consume_Empty(p, j) ==
  LET b == initBroker(p) IN
  /\ phase[p] = "up"
  /\ Start(p, j)
  /\ ready' = [ready EXCEPT ![b][j] = @ - 1]
  /\ pending' = IF b = "redis" THEN [pending EXCEPT ![j].owed = @ + 1]
                               ELSE pending
  /\ UNCHANGED <<env, phase, rows, request, order, failures, budgets>>

Consume(p, j) ==
  LET b == initBroker(p) IN
  /\ phase[p] = "up"
  /\ ready[b][j] > 0
  /\ Start(p, j)
  /\ ready' = [ready EXCEPT ![b][j] = @ - 1]
  /\ pending' = IF b = "redis" THEN [pending EXCEPT ![j].owed = @ + 1]
                               ELSE pending
  /\ UNCHANGED <<env, phase, rows, request, order, failures, budgets>>

(* Redis gives an entry away once it has been idle for 30 seconds; here an *)
(* execution is shorter than that (TaskQueue has longer ones).             *)
Holders(j) ==
  {p \in Process : /\ exec[p] \notin {Off, Idle} /\ initBroker(p) = "redis"
                   /\ Job(p) = j}

(* Mistake: nobody claims the entries of a worker that is gone. *)
Reclaim_Never(p, j) == FALSE

Reclaim(p, j) ==
  /\ phase[p] = "up"
  /\ initBroker(p) = "redis"
  /\ pending[j].owed > Cardinality(Holders(j))
  /\ Start(p, j)
  /\ UNCHANGED <<env, phase, worldVars, request, order, failures, budgets>>

ReclaimLeft(p, j) ==
  /\ phase[p] = "up"
  /\ initBroker(p) = "redis"
  /\ pending[j].left > 0
  /\ duplicates < MaxDuplicates
  /\ duplicates' = duplicates + 1
  /\ pending' = [pending EXCEPT ![j] =
                   [owed |-> @.owed + 1, left |-> @.left - 1]]
  /\ Start(p, j)
  /\ UNCHANGED <<env, phase, rows, ready, request, order, failures, stops,
                 errors>>

(* executeJob. *)

Load(p) ==
  LET row == rows[initStorage(p)][Job(p)] IN
  /\ Doing(p, "load")
  /\ exec' = IF StoreWorks(p) /\ row # NoRow
               THEN [exec EXCEPT ![p].pc = "mark", ![p].row = row]
               ELSE [exec EXCEPT ![p].pc = "drop"]
  /\ UNCHANGED <<env, phase, worldVars, request, order, failures, budgets>>

Done(p) == exec' = [exec EXCEPT ![p] = Idle]

(* A job that cannot be read counts as one that does not exist. *)
Drop(p) ==
  /\ Doing(p, "drop")
  /\ Ack(p)
  /\ Done(p)
  /\ UNCHANGED <<env, phase, rows, ready, request, order, failures, budgets>>

MarkRunning(p) ==
  LET row == [exec[p].row EXCEPT !.status = "RUNNING"] IN
  /\ Doing(p, "mark")
  /\ UpdateJob(p, row)
  /\ exec' = [exec EXCEPT ![p].pc = "handler", ![p].row = row]
  /\ UNCHANGED <<env, phase, ready, pending, request, order, failures, budgets>>

(* The copy of the row that handleFailure makes. *)
Failed(row) ==
  [status |-> IF row.attempts + 1 >= MaxAttempts THEN "FAILED" ELSE "RETRYING",
   attempts |-> row.attempts + 1]

(* An interruption looks like a failure to the worker. *)
HandlerReturns(p) ==
  /\ Doing(p, "handler")
  /\ \E outcome \in Execute(order[Job(p)].type, order[Job(p)].payload,
                            Cancelled(p)) :
       /\ outcome = "error" => errors < MaxErrors
       /\ errors' = errors + IF outcome = "error" THEN 1 ELSE 0
       /\ failures' = IF outcome \in {"invalid", "error"}
                        THEN [failures EXCEPT ![Job(p)] = @ + 1] ELSE failures
       /\ exec' = [exec EXCEPT
                     ![p].pc = "save",
                     ![p].row = IF outcome = "done"
                                  THEN [@ EXCEPT !.status = "SUCCEEDED"]
                                  ELSE Failed(@)]
  /\ UNCHANGED <<env, phase, worldVars, request, order, stops, duplicates>>

SaveOutcome(p) ==
  /\ Doing(p, "save")
  /\ UpdateJob(p, exec[p].row)
  /\ Go(p, "finish")
  /\ UNCHANGED <<env, phase, ready, pending, request, order, failures, budgets>>

(* Ack, Requeue or SendToDeadLetter, as the outcome says. *)
Finish(p) ==
  /\ Doing(p, "finish")
  /\ CASE exec[p].row.status = "SUCCEEDED" -> Ack(p) /\ UNCHANGED ready
       [] exec[p].row.status = "RETRYING" -> Requeue(p)
       [] exec[p].row.status = "FAILED" -> LeaveEntry(p) /\ UNCHANGED ready
  /\ Done(p)
  /\ UNCHANGED <<env, phase, rows, request, order, failures, budgets>>

Work(p) ==
  \/ \E j \in Jobs : Consume(p, j) \/ Reclaim(p, j) \/ ReclaimLeft(p, j)
  \/ Load(p) \/ Drop(p) \/ MarkRunning(p)
  \/ HandlerReturns(p) \/ SaveOutcome(p) \/ Finish(p)

Main(p) ==
  Boot(p) \/ Register(p) \/ CloseBroker(p) \/ Exit(p)

Next ==
  \/ \E p \in Process :
       Main(p) \/ RegisterFails(p) \/ Signal(p) \/ Kill(p) \/ Work(p)
  \/ \E j \in Jobs : Submit(j) \/ Insert(j) \/ Enqueue(j) \/ Reply(j)

Spec == Init /\ [][Next]_vars

(* Processes are started again and go on, and handlers return. *)
FairSpec ==
  Spec /\ \A p \in Process : WF_vars(Main(p)) /\ WF_vars(Work(p))
-----------------------------------------------------------------------------
(* Properties. *)

Answered(j) == request[j] = "answered"
Settled(j) == rows[initStorage("api")][j].status \in {"SUCCEEDED", "FAILED"}

Owed(j) ==
  LET b == initBroker("api") IN
  \/ ready[b][j] > 0
  \/ b = "redis" /\ pending[j].owed > 0
  \/ \E p \in Hosts :
       initBroker(p) = b /\ exec[p] \notin {Off, Idle} /\ Job(p) = j

(* What the API keeps in memory went with it. *)
Volatile ==
  /\ stops["api"] > 0
  /\ initStorage("api") # "sql" \/ initBroker("api") # "redis"

(* Some worker reads the API's messages but has a store of its own. *)
SplitStore ==
  \E p \in Hosts : /\ initBroker(p) = initBroker("api")
                   /\ initStorage(p) # initStorage("api")

Served == \E p \in Hosts : initBroker(p) = initBroker("api")

(***************************************************************************)
(* A job whose creation was answered is settled or still owed an           *)
(* execution, whatever process is stopped or killed at whatever moment;    *)
(* what a stopping worker cannot write it cannot acknowledge either.  The  *)
(* exceptions are a memory store or broker of an API that was stopped, and *)
(* a worker that looks for the job in a store of its own.                  *)
(***************************************************************************)
AcceptedSurvives ==
  \A j \in Jobs : Answered(j) => Settled(j) \/ Owed(j) \/ Volatile \/ SplitStore

(***************************************************************************)
(* With SQL, being stopped costs a job no attempt: although the worker     *)
(* takes an interrupted handler for a failed one, the row never counts     *)
(* more attempts than the job failed by itself.                            *)
(***************************************************************************)
OnlyFailuresCount ==
  \A j \in Jobs : rows["sql"][j].attempts <= failures[j]

(***************************************************************************)
(* Every job whose creation was answered is settled in the end, when the   *)
(* processes are stopped only finitely often and started again each time,  *)
(* with the exceptions of AcceptedSurvives and unless nobody serves the    *)
(* API's broker.                                                           *)
(***************************************************************************)
EventuallySettled ==
  \A j \in Jobs :
    Answered(j) ~> Settled(j) \/ Volatile \/ SplitStore \/ ~Served
=============================================================================
