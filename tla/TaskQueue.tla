------------------------------ MODULE TaskQueue ------------------------------
(***************************************************************************)
(* The path of a job through the system: API requests (JobHandler), the    *)
(* job store, the broker, and the workers' executeJob / handleFailure.     *)
(*                                                                         *)
(* A request and an execution are sequences of calls to the store and the  *)
(* broker; each call is an action, so that calls of several requests and   *)
(* of several executions interleave, and a crash or an ignored error falls *)
(* between any two of them.                                                *)
(*                                                                         *)
(* A slot is one place of a worker process that holds one delivered        *)
(* message: a cell of its batch or of jobChan, then the goroutine that     *)
(* executes it.  Each slot crashes on its own.                             *)
(***************************************************************************)
EXTENDS Naturals, Sequences

CONSTANTS
  Jobs, NoJob, Keys, NoKey, KeyOf, UniqueKeys,
  Clients,       \* API requests in progress at the same time
  Slots,
  MaxAttempts,   \* the max_attempts of every job
  Registered,    \* the jobs whose type has a handler in the registry
  AtLeastOnce,   \* TRUE: Redis broker, FALSE: in-memory broker
  SlowHandlers,  \* TRUE: an execution may outlast claimMinIdleTime (30s)
  Budget         \* Budget[k]: how often the environment does k, see Spend

BudgetKind == {"fail", "crash", "fault", "cancel", "retry"}

ASSUME TaskQueueAssumption ==
  /\ NoJob \notin Jobs
  /\ NoKey \notin Keys
  /\ KeyOf \in [Jobs -> Keys \cup {NoKey}]
  /\ MaxAttempts \in Nat \ {0}
  /\ Registered \subseteq Jobs
  /\ AtLeastOnce \in BOOLEAN
  /\ SlowHandlers \in BOOLEAN
  /\ UniqueKeys \in BOOLEAN
  /\ Budget \in [BudgetKind -> Nat]

VARIABLES
  rows, logs,                     \* JobStore
  ready, pending, dead, nextId,   \* Broker
  req,       \* req[c]: the request client c is waiting for
  slot,      \* slot[s]: the execution in slot s
  answered,  \* history: jobs whose submission was answered with success
  effects,   \* history: effects[j] is how often j's handler succeeded
  fails,     \* history: fails[j] is how often j's handler failed
  dropped,   \* history: jobs whose message a failed call lost for good
  budget     \* budget[k]: how often the environment may still do k

S == INSTANCE JobStore
B == INSTANCE Broker

storeVars == <<rows, logs>>
brokerVars == <<ready, pending, dead, nextId>>
envVars == <<answered, effects, fails, dropped>>
vars == <<storeVars, brokerVars, req, slot, envVars, budget>>

NoRequest == [pc |-> "idle", job |-> NoJob, row |-> S!NoRow]
NoMessage == [id |-> 0, job |-> NoJob]
Idle == [pc |-> "idle", msg |-> NoMessage, row |-> S!NoRow]

RequestPC == {"lookup", "insert", "enqueue", "cancel", "retry"}
BeforePC == {"received", "loaded"}
SuccessPC == {"saveSuccess", "logSuccess", "ack"}
FailurePC == {"saveFailure", "logFailure", "giveBack"}
RunPC == {"logStart", "running"} \cup SuccessPC \cup FailurePC

Request == [pc : RequestPC, job : Jobs, row : S!Row \cup {S!NoRow}]
Execution ==
  [pc : BeforePC, msg : B!Message, row : S!Row \cup {S!NoRow}]
    \cup [pc : RunPC, msg : B!Message, row : S!Row]

TypeOK ==
  /\ S!TypeOK
  /\ B!TypeOK
  /\ req \in [Clients -> Request \cup {NoRequest}]
  /\ slot \in [Slots -> Execution \cup {Idle}]
  /\ answered \subseteq Jobs
  /\ effects \in [Jobs -> Nat]
  /\ fails \in [Jobs -> Nat]
  /\ dropped \subseteq Jobs
  /\ budget \in [BudgetKind -> Nat]

Init ==
  /\ S!Init
  /\ B!Init
  /\ req = [c \in Clients |-> NoRequest]
  /\ slot = [s \in Slots |-> Idle]
  /\ answered = {}
  /\ effects = [j \in Jobs |-> 0]
  /\ fails = [j \in Jobs |-> 0]
  /\ dropped = {}
  /\ budget = Budget

-----------------------------------------------------------------------------
(* The environment: failures happen while the budget for them lasts. *)

Spend(k) ==
  /\ budget[k] > 0
  /\ budget' = [budget EXCEPT ![k] = @ - 1]

Fault == Spend("fault")

(* Calls whose error the caller ignores: they are made, or have no effect. *)
Save(j, row) ==
  \/ S!UpdateJob(j, row) /\ UNCHANGED budget
  \/ Fault /\ UNCHANGED storeVars

Log(j, kind) ==
  \/ S!AppendJobLog(j, kind) /\ UNCHANGED budget
  \/ Fault /\ UNCHANGED storeVars

Acknowledge(m) ==
  \/ B!Ack(m) /\ UNCHANGED budget
  \/ Fault /\ UNCHANGED brokerVars

-----------------------------------------------------------------------------
(* API requests: JobHandler.CreateJob, CancelJob and RetryJob. *)

Ask(c, pc) == req' = [req EXCEPT ![c].pc = pc]
Reply(c) == req' = [req EXCEPT ![c] = NoRequest]

(* A valid POST /v1/jobs; j is the identifier its job would get. *)
BeginCreate(c, j) ==
  /\ req[c] = NoRequest
  /\ rows[j] = S!NoRow
  /\ \A d \in Clients : req[d].job # j
  /\ req' = [req EXCEPT ![c] =
               [pc |-> IF KeyOf[j] = NoKey THEN "insert" ELSE "lookup",
                job |-> j, row |-> S!NoRow]]
  /\ UNCHANGED <<storeVars, brokerVars, slot, envVars, budget>>

(* A row with the same key answers 200; a failed lookup counts as no row. *)
Lookup(c) ==
  LET found == S!SameKey(req[c].job) IN
  /\ req[c].pc = "lookup"
  /\ \/ /\ found # {}
        /\ \E i \in found : answered' = answered \cup {i}
        /\ Reply(c)
        /\ UNCHANGED budget
     \/ /\ found = {}
        /\ Ask(c, "insert")
        /\ UNCHANGED <<answered, budget>>
     \/ /\ Fault
        /\ Ask(c, "insert")
        /\ UNCHANGED answered
  /\ UNCHANGED <<storeVars, brokerVars, slot, effects, fails, dropped>>

(* CreateJob of the store, or its error and a 500. *)
Insert(c) ==
  /\ req[c].pc = "insert"
  /\ \/ /\ S!CreateJob(req[c].job)
        /\ Ask(c, "enqueue")
        /\ UNCHANGED budget
     \/ /\ UniqueKeys /\ S!SameKey(req[c].job) # {}
        /\ Reply(c)
        /\ UNCHANGED <<storeVars, budget>>
     \/ /\ Fault
        /\ Reply(c)
        /\ UNCHANGED storeVars
  /\ UNCHANGED <<brokerVars, slot, envVars>>

(* The last call of CreateJob and of RetryJob; its error is a 500 and the  *)
(* row stays as it is.  A crash of the API before the call does the same.  *)
Enqueue(c) ==
  LET j == req[c].job IN
  /\ req[c].pc = "enqueue"
  /\ \/ /\ B!Enqueue(j)
        /\ answered' = answered \cup {j}
        /\ UNCHANGED <<dropped, budget>>
     \/ /\ Fault
        /\ dropped' = dropped \cup {j}
        /\ UNCHANGED <<brokerVars, answered>>
  /\ Reply(c)
  /\ UNCHANGED <<storeVars, slot, effects, fails>>

(* GetJob and the status check of CancelJob and of RetryJob; a request that *)
(* fails the check changes nothing.                                         *)
Read(c, j, pc, status) ==
  /\ req[c] = NoRequest
  /\ rows[j].status = status
  /\ Spend(pc)
  /\ req' = [req EXCEPT ![c] = [pc |-> pc, job |-> j, row |-> rows[j]]]
  /\ UNCHANGED <<storeVars, brokerVars, slot, envVars>>

BeginCancel(c, j) == Read(c, j, "cancel", "QUEUED")
BeginRetry(c, j) == Read(c, j, "retry", "FAILED")

(* Only the row changes: the message stays in the queue. *)
CancelJob(c) ==
  /\ req[c].pc = "cancel"
  /\ Save(req[c].job,
          [req[c].row EXCEPT !.status = "FAILED", !.error = "cancelled"])
  /\ Reply(c)
  /\ UNCHANGED <<brokerVars, slot, envVars>>

(* Mistake: the row is reset and no message is published. *)
RetryJob_Unpublished(c) ==
  /\ req[c].pc = "retry"
  /\ S!UpdateJob(req[c].job, S!NewRow)
  /\ Reply(c)
  /\ UNCHANGED <<brokerVars, slot, envVars, budget>>

RetryJob(c) ==
  /\ req[c].pc = "retry"
  /\ \/ /\ S!UpdateJob(req[c].job, S!NewRow)
        /\ Ask(c, "enqueue")
        /\ UNCHANGED budget
     \/ /\ Fault
        /\ Reply(c)
        /\ UNCHANGED storeVars
  /\ UNCHANGED <<brokerVars, slot, envVars>>

-----------------------------------------------------------------------------
(* Workers: delivery, executeJob and handleFailure. *)

Job(s) == slot[s].msg.job
Step(s, pc) == slot' = [slot EXCEPT ![s].pc = pc]
Free(s) == slot' = [slot EXCEPT ![s] = Idle]
Occupy(s, m) == slot' = [slot EXCEPT ![s] =
                           [pc |-> "received", msg |-> m, row |-> S!NoRow]]

Deliver(s) ==
  /\ slot[s] = Idle
  /\ B!Consume(1)
  /\ Occupy(s, Head(ready))
  /\ UNCHANGED <<storeVars, req, envVars, budget>>

(* Mistake: an entry is claimed without regard to its idle time. *)
Reclaim_Eager(s, m) ==
  /\ slot[s] = Idle
  /\ B!Reclaim(m)
  /\ Occupy(s, m)
  /\ UNCHANGED <<storeVars, req, envVars, budget>>

(* Consume first claims entries that were delivered 30s ago or more: those *)
(* no running execution holds any more, or slow executions still hold.     *)
Reclaim(s, m) ==
  /\ slot[s] = Idle
  /\ B!Reclaim(m)
  /\ SlowHandlers \/ \A t \in Slots : slot[t].msg # m
  /\ Occupy(s, m)
  /\ UNCHANGED <<storeVars, req, envVars, budget>>

(* No handler for the message's type: it is acknowledged, its row is not   *)
(* touched.                                                                *)
Reject(s) ==
  /\ slot[s].pc = "received"
  /\ Job(s) \notin Registered
  /\ Acknowledge(slot[s].msg)
  /\ Free(s)
  /\ UNCHANGED <<storeVars, req, envVars>>

(* Mistake: the message is acknowledged when it is received. *)
Load_AutoAck(s) ==
  /\ slot[s].pc = "received"
  /\ Job(s) \in Registered
  /\ slot' = [slot EXCEPT ![s].pc = "loaded", ![s].row = rows[Job(s)]]
  /\ B!Ack(slot[s].msg)
  /\ UNCHANGED <<storeVars, req, envVars, budget>>

Load(s) ==
  /\ slot[s].pc = "received"
  /\ Job(s) \in Registered
  /\ slot' = [slot EXCEPT ![s].pc = "loaded", ![s].row = rows[Job(s)]]
  /\ UNCHANGED <<storeVars, brokerVars, req, envVars, budget>>

(* Any error of GetJob, not only a missing job, acknowledges the message. *)
LoadFails(s) ==
  /\ slot[s].pc = "received"
  /\ Job(s) \in Registered
  /\ Fault
  /\ B!Ack(slot[s].msg)
  /\ dropped' = dropped \cup {Job(s)}
  /\ Free(s)
  /\ UNCHANGED <<storeVars, req, answered, effects, fails>>

(* Mistake: an attempt is counted when it starts and when it fails. *)
MarkRunning_Counts(s) ==
  LET row == [slot[s].row EXCEPT !.status = "RUNNING", !.attempts = @ + 1] IN
  /\ slot[s].pc = "loaded"
  /\ Save(Job(s), row)
  /\ slot' = [slot EXCEPT ![s].pc = "logStart", ![s].row = row]
  /\ UNCHANGED <<brokerVars, req, envVars>>

MarkRunning(s) ==
  LET row == [slot[s].row EXCEPT !.status = "RUNNING"] IN
  /\ slot[s].pc = "loaded"
  /\ Save(Job(s), row)
  /\ slot' = [slot EXCEPT ![s].pc = "logStart", ![s].row = row]
  /\ UNCHANGED <<brokerVars, req, envVars>>

LogStart(s) ==
  /\ slot[s].pc = "logStart"
  /\ Log(Job(s), "started")
  /\ Step(s, "running")
  /\ UNCHANGED <<brokerVars, req, envVars>>

HandlerSucceeds(s) ==
  /\ slot[s].pc = "running"
  /\ effects' = [effects EXCEPT ![Job(s)] = @ + 1]
  /\ slot' = [slot EXCEPT ![s].pc = "saveSuccess",
                          ![s].row.status = "SUCCEEDED"]
  /\ UNCHANGED <<storeVars, brokerVars, req, answered, fails, dropped,
                 budget>>

(* Mistakes: one attempt too few, one too many, the count is not kept, the *)
(* status is none of the declared ones.                                    *)
FailedRow_Early(row) ==
  LET n == row.attempts + 1 IN
  [status |-> IF n + 1 >= MaxAttempts THEN "FAILED" ELSE "RETRYING",
   attempts |-> n, error |-> "failure"]
FailedRow_Late(row) ==
  LET n == row.attempts + 1 IN
  [status |-> IF n > MaxAttempts THEN "FAILED" ELSE "RETRYING",
   attempts |-> n, error |-> "failure"]
FailedRow_Uncounted(row) ==
  [status |-> IF row.attempts + 1 >= MaxAttempts THEN "FAILED" ELSE "RETRYING",
   attempts |-> row.attempts, error |-> "failure"]
FailedRow_Undeclared(row) ==
  [status |-> "DEAD", attempts |-> row.attempts + 1, error |-> "failure"]

(* An error or a panic of the handler: the decision of handleFailure.  The *)
(* count is that of the copy read before the handler ran.                  *)
FailedRow(row) ==
  LET n == row.attempts + 1 IN
  [status |-> IF n >= MaxAttempts THEN "FAILED" ELSE "RETRYING",
   attempts |-> n, error |-> "failure"]

(* Mistake: a panic ends the goroutine and handleFailure never runs. *)
HandlerFails_Unrecovered(s) ==
  /\ slot[s].pc = "running"
  /\ Spend("fail")
  /\ fails' = [fails EXCEPT ![Job(s)] = @ + 1]
  /\ Free(s)
  /\ UNCHANGED <<storeVars, brokerVars, req, answered, effects, dropped>>

HandlerFails(s) ==
  /\ slot[s].pc = "running"
  /\ Spend("fail")
  /\ fails' = [fails EXCEPT ![Job(s)] = @ + 1]
  /\ slot' = [slot EXCEPT ![s].pc = "saveFailure",
                          ![s].row = FailedRow(slot[s].row)]
  /\ UNCHANGED <<storeVars, brokerVars, req, answered, effects, dropped>>

(* Mistake: the outcome is not logged. *)
SaveOutcome_Unlogged(s) ==
  /\ slot[s].pc \in {"saveSuccess", "saveFailure"}
  /\ Save(Job(s), slot[s].row)
  /\ Step(s, IF slot[s].pc = "saveSuccess" THEN "ack" ELSE "giveBack")
  /\ UNCHANGED <<brokerVars, req, envVars>>

SaveOutcome(s) ==
  /\ slot[s].pc \in {"saveSuccess", "saveFailure"}
  /\ Save(Job(s), slot[s].row)
  /\ Step(s, IF slot[s].pc = "saveSuccess" THEN "logSuccess" ELSE "logFailure")
  /\ UNCHANGED <<brokerVars, req, envVars>>

LogSuccess(s) ==
  /\ slot[s].pc = "logSuccess"
  /\ Log(Job(s), "succeeded")
  /\ Step(s, "ack")
  /\ UNCHANGED <<brokerVars, req, envVars>>

AckMessage(s) ==
  /\ slot[s].pc = "ack"
  /\ Acknowledge(slot[s].msg)
  /\ Free(s)
  /\ UNCHANGED <<storeVars, req, envVars>>

LogFailure(s) ==
  /\ slot[s].pc = "logFailure"
  /\ Log(Job(s), IF slot[s].row.status = "FAILED" THEN "failed" ELSE "retry")
  /\ Step(s, "giveBack")
  /\ UNCHANGED <<brokerVars, req, envVars>>

(* Mistake: the failed message is acknowledged and no other one is sent. *)
RequeueMessage_AckOnly(s) ==
  /\ slot[s].pc = "giveBack"
  /\ slot[s].row.status = "RETRYING"
  /\ B!Ack(slot[s].msg)
  /\ Free(s)
  /\ UNCHANGED <<storeVars, req, envVars, budget>>

(* Requeue after the backoff delay; it fails when the broker does or when  *)
(* the worker is shut down during the delay.                               *)
RequeueMessage(s) ==
  /\ slot[s].pc = "giveBack"
  /\ slot[s].row.status = "RETRYING"
  /\ \/ /\ B!Requeue(slot[s].msg)
        /\ UNCHANGED <<dropped, budget>>
     \/ /\ Fault
        /\ dropped' = IF AtLeastOnce THEN dropped ELSE dropped \cup {Job(s)}
        /\ UNCHANGED brokerVars
  /\ Free(s)
  /\ UNCHANGED <<storeVars, req, answered, effects, fails>>

(* The memory broker's SendToDeadLetter never fails. *)
BuryMessage(s) ==
  /\ slot[s].pc = "giveBack"
  /\ slot[s].row.status = "FAILED"
  /\ \/ B!SendToDeadLetter(slot[s].msg) /\ UNCHANGED budget
     \/ AtLeastOnce /\ Fault /\ UNCHANGED brokerVars
  /\ Free(s)
  /\ UNCHANGED <<storeVars, req, envVars>>

(* The worker process dies or outlives its shutdown timeout.  With the     *)
(* memory broker the queue and the store die with it: nothing is left to   *)
(* check.                                                                  *)
Crash(s) ==
  /\ AtLeastOnce
  /\ slot[s] # Idle
  /\ Spend("crash")
  /\ Free(s)
  /\ UNCHANGED <<storeVars, brokerVars, req, envVars>>

-----------------------------------------------------------------------------
BeginRequest(c) ==
  \E j \in Jobs : BeginCreate(c, j) \/ BeginCancel(c, j) \/ BeginRetry(c, j)

ServeRequest(c) ==
  Lookup(c) \/ Insert(c) \/ Enqueue(c) \/ CancelJob(c) \/ RetryJob(c)

Execute(s) ==
  \/ Reject(s) \/ Load(s) \/ LoadFails(s) \/ MarkRunning(s) \/ LogStart(s)
  \/ HandlerSucceeds(s) \/ HandlerFails(s) \/ SaveOutcome(s)
  \/ LogSuccess(s) \/ AckMessage(s)
  \/ LogFailure(s) \/ RequeueMessage(s) \/ BuryMessage(s)

Take(s) == Deliver(s) \/ \E m \in pending : Reclaim(s, m)

Next ==
  \/ \E c \in Clients : BeginRequest(c) \/ ServeRequest(c)
  \/ \E s \in Slots : Take(s) \/ Execute(s) \/ Crash(s)

Spec == Init /\ [][Next]_vars

(***************************************************************************)
(* A handler of the API and an execution run on (handlers return), and a   *)
(* free worker polls the broker again and again.  Nothing is promised of   *)
(* the clients and of the failures.                                        *)
(***************************************************************************)
FairSpec ==
  /\ Spec
  /\ \A c \in Clients : WF_vars(ServeRequest(c))
  /\ \A s \in Slots : WF_vars(Take(s) \/ Execute(s))
-----------------------------------------------------------------------------
(* Properties. *)

InReady(j) == \E i \in 1 .. Len(ready) : ready[i].job = j
InPending(j) == \E m \in pending : m.job = j
Held(j) == \E s \in Slots : slot[s] # Idle /\ Job(s) = j

(* The broker, or with the memory broker a worker, still owes job j a run. *)
Owed(j) ==
  InReady(j) \/ IF AtLeastOnce THEN InPending(j) ELSE Held(j)

Publishing(j) == \E c \in Clients : req[c].pc = "enqueue" /\ req[c].job = j

Tracked(j) == Publishing(j) \/ Owed(j) \/ effects[j] > 0 \/ dead[j] > 0

(***************************************************************************)
(* A job that is stored, or whose submission was answered with success, is *)
(* never forgotten: unless a call that failed lost its message, a request  *)
(* is about to publish it, the broker still owes it a run, its handler     *)
(* succeeded, or it went to the dead letters.  It depends on the order of  *)
(* executeJob's calls: the message is acknowledged last.                   *)
(***************************************************************************)
NoJobForgotten ==
  \A j \in Registered \ dropped :
    rows[j] # S!NoRow \/ j \in answered => Tracked(j)

(* What makes it inductive: only a successful execution gets to its Ack. *)
EffectBeforeAck ==
  \A s \in Slots : slot[s].pc \in SuccessPC => effects[Job(s)] > 0

RowsCounted == \A j \in Jobs : rows[j].attempts <= fails[j]
SlotCounted(s) == slot[s] # Idle => slot[s].row.attempts <= fails[Job(s)]
RequestCounted(c) ==
  req[c] # NoRequest => req[c].row.attempts <= fails[req[c].job]

(***************************************************************************)
(* The attempts of a row, and of every copy a request or an execution will *)
(* write back, never exceed the failures that happened: stale copies,      *)
(* redeliveries and manual retries may lose a count and never invent one.  *)
(***************************************************************************)
AttemptsNeverOvercount ==
  /\ RowsCounted
  /\ \A s \in Slots : SlotCounted(s)
  /\ \A c \in Clients : RequestCounted(c)

(***************************************************************************)
(* handleFailure gives a job up, in its row or in the dead letters, only   *)
(* after max_attempts failures of its handler, whatever copies of the row  *)
(* overwrote each other in between.                                        *)
(***************************************************************************)
NoEarlyBurial ==
  \A j \in Jobs :
    dead[j] > 0 \/ (rows[j].status = "FAILED" /\ rows[j].error = "failure")
      => fails[j] >= MaxAttempts

(* What makes it inductive: the decision of handleFailure, kept until it is *)
(* carried out.                                                             *)
DecisionKept ==
  \A s \in Slots :
    /\ slot[s].pc \in SuccessPC => slot[s].row.status = "SUCCEEDED"
    /\ slot[s].pc \in FailurePC =>
         \/ slot[s].row.status = "RETRYING"
         \/ /\ slot[s].row.status = "FAILED"
            /\ slot[s].row.attempts >= MaxAttempts

(***************************************************************************)
(* With the memory broker, no cancel or retry request and no call that     *)
(* fails, a job is settled once: at most max_attempts failures, and one    *)
(* success or one burial, not both.                                        *)
(***************************************************************************)
SettledOnce ==
  \A j \in Jobs :
    /\ fails[j] <= MaxAttempts
    /\ effects[j] + dead[j] <= 1

(***************************************************************************)
(* A row that says SUCCEEDED without a "job succeeded" record in the logs  *)
(* belongs to a message that is not acknowledged yet: whoever is killed    *)
(* between UpdateJob and AppendJobLog leaves the run to be done again.     *)
(***************************************************************************)
OutcomeLoggedOrOwed ==
  \A j \in Jobs :
    rows[j].status = "SUCCEEDED" /\ "succeeded" \notin logs[j] => Owed(j)

(***************************************************************************)
(* A job shown as QUEUED whose type has a handler is in the queue: a       *)
(* worker holds or will get a message for it, or the request that wrote    *)
(* QUEUED has still to publish.                                            *)
(***************************************************************************)
QueuedIsBacked ==
  \A j \in Registered :
    rows[j].status = "QUEUED" => Publishing(j) \/ Owed(j) \/ j \in dropped

(***************************************************************************)
(* A job that met no failure, no crash, no lost call and no manual retry   *)
(* runs once, although the broker promises at least once: an entry comes   *)
(* back only when 30s pass without an acknowledgement.                     *)
(***************************************************************************)
OnceWithoutFailures ==
  /\ ~SlowHandlers
  /\ \A k \in {"crash", "fault", "retry"} : budget[k] = Budget[k]
  => \A j \in Jobs : fails[j] = 0 => effects[j] <= 1

(* Two rows never share an idempotency key (unique index of the GORM       *)
(* store), although requests look the key up before they insert.           *)
OneJobPerKey ==
  \A i, j \in Jobs :
    /\ i # j /\ KeyOf[i] = KeyOf[j] /\ KeyOf[i] # NoKey
    => rows[i] = S!NoRow \/ rows[j] = S!NoRow

(***************************************************************************)
(* The row of every accepted job ends in a final status and stays in it,   *)
(* once failures and crashes stop.                                         *)
(***************************************************************************)
Settled(j) == rows[j].status \in {"SUCCEEDED", "FAILED"}
EventuallySettled ==
  <>[](\A j \in (answered \cap Registered) \ dropped : Settled(j))

(***************************************************************************)
(* Seen through their rows, jobs live the life JobLifecycle describes,     *)
(* its liveness included.                                                  *)
(***************************************************************************)
Lifecycle == INSTANCE JobLifecycle WITH
  status <- [j \in Jobs |-> rows[j].status],
  attempts <- [j \in Jobs |-> rows[j].attempts]
LifecycleSpec == Lifecycle!Spec
=============================================================================
