----------------------- MODULE TaskQueueOwed_proofs ------------------------
(***************************************************************************)
(* What the rows of TaskQueue promise about the messages: a row that says  *)
(* QUEUED has a message to come, and one that says SUCCEEDED has its log   *)
(* record or a message that brings the run back.                           *)
(***************************************************************************)
EXTENDS TaskQueue_proofs

-----------------------------------------------------------------------------
(* What one step moves. *)

AllSlotSteps(s) == Take(s) \/ Execute(s) \/ Crash(s)

LEMMA SlotAlone ==
  ASSUME TypeOK, NEW s \in Slots, AllSlotSteps(s)
  PROVE  /\ req' = req /\ answered' = answered
         /\ \A t \in Slots \ {s} : slot'[t] = slot[t]
BY DEF AllSlotSteps, Take, Deliver, Reclaim, Occupy, Execute, Crash, Reject,
       Load, LoadFails, MarkRunning, LogStart, HandlerSucceeds, HandlerFails,
       SaveOutcome, LogSuccess, AckMessage, LogFailure, RequeueMessage,
       BuryMessage, Step, Free, TypeOK, envVars

LEMMA SlotFacts ==
  ASSUME TypeOK, NEW s \in Slots
  PROVE  /\ slot[s] # Idle <=> slot[s].pc # "idle"
         /\ slot[s].pc \in BeforePC
              => slot[s] \in [pc : BeforePC, msg : B!Message,
                              row : S!Row \cup {S!NoRow}]
         /\ slot[s].pc \in RunPC
              => slot[s] \in [pc : RunPC, msg : B!Message, row : S!Row]
         /\ slot[s].pc \in {"idle"} \cup BeforePC \cup RunPC
         /\ slot[s] # Idle => Job(s) \in Jobs /\ slot[s].msg \in B!Message
BY DEF TypeOK, Idle, Execution, Job, B!Message, BeforePC, RunPC, SuccessPC,
       FailurePC

(* An execution goes on with the message it has. *)
LEMMA SlotGoesOn ==
  ASSUME TypeOK, NEW s \in Slots,
         \/ Load(s) \/ MarkRunning(s) \/ LogStart(s) \/ HandlerSucceeds(s)
         \/ HandlerFails(s) \/ SaveOutcome(s) \/ LogSuccess(s)
         \/ LogFailure(s)
  PROVE  /\ slot[s] # Idle /\ slot'[s] # Idle
         /\ slot'[s].msg = slot[s].msg /\ Job(s)' = Job(s)
         /\ Load(s) => /\ slot[s].pc = "received" /\ slot'[s].pc = "loaded"
                       /\ slot'[s].row = rows[Job(s)]
         /\ MarkRunning(s) => /\ slot[s].pc = "loaded"
                              /\ slot'[s].pc = "logStart"
                              /\ slot'[s].row.status = "RUNNING"
                              /\ slot'[s].row.attempts = slot[s].row.attempts
         /\ LogStart(s) => slot[s].pc = "logStart" /\ slot'[s].pc = "running"
         /\ HandlerSucceeds(s) => /\ slot[s].pc = "running"
                                  /\ slot'[s].pc = "saveSuccess"
                                  /\ slot'[s].row.attempts = slot[s].row.attempts
         /\ HandlerFails(s) => /\ slot[s].pc = "running"
                               /\ slot'[s].pc = "saveFailure"
                               /\ slot'[s].row = FailedRow(slot[s].row)
         /\ SaveOutcome(s) =>
              \/ slot[s].pc = "saveSuccess" /\ slot'[s].pc = "logSuccess"
              \/ slot[s].pc = "saveFailure" /\ slot'[s].pc = "logFailure"
         /\ LogSuccess(s) => slot[s].pc = "logSuccess" /\ slot'[s].pc = "ack"
         /\ LogFailure(s) => slot[s].pc = "logFailure" /\ slot'[s].pc = "giveBack"
         /\ SaveOutcome(s) \/ LogSuccess(s) \/ LogFailure(s) \/ LogStart(s)
              => slot'[s].row = slot[s].row
<1>1. slot \in [Slots -> Execution \cup {Idle}]
  BY DEF TypeOK
<1>2. CASE Load(s)
  BY <1>1, <1>2, SlotFacts DEF Load, MarkRunning, LogStart, HandlerSucceeds,
     HandlerFails, SaveOutcome, LogSuccess, LogFailure, BeforePC, Job, Idle
<1>3. CASE MarkRunning(s)
  <2> DEFINE row == [slot[s].row EXCEPT !.status = "RUNNING"]
  <2>1. /\ slot[s].pc = "loaded"
        /\ slot' = [slot EXCEPT ![s].pc = "logStart", ![s].row = row]
    BY <1>3 DEF MarkRunning
  <2>2. /\ slot[s] \in [pc : BeforePC, msg : B!Message,
                         row : S!Row \cup {S!NoRow}]
        /\ slot[s] # Idle
    BY <2>1, SlotFacts DEF BeforePC
  <2>3. row.status = "RUNNING" /\ row.attempts = slot[s].row.attempts
    BY <2>2 DEF S!Row, S!NoRow
  <2>4. ~(\/ Load(s) \/ LogStart(s) \/ HandlerSucceeds(s) \/ HandlerFails(s)
          \/ SaveOutcome(s) \/ LogSuccess(s) \/ LogFailure(s))
    BY <2>1 DEF Load, LogStart, HandlerSucceeds, HandlerFails, SaveOutcome,
       LogSuccess, LogFailure
  <2> HIDE DEF row
  <2>5. /\ slot'[s].pc = "logStart" /\ slot'[s].row = row
        /\ slot'[s].msg = slot[s].msg
    BY <1>1, <2>1, <2>2
  <2>6. slot'[s] # Idle /\ Job(s)' = Job(s)
    BY <2>5 DEF Idle, Job
  <2> QED BY <2>1, <2>2, <2>3, <2>4, <2>5, <2>6
<1>4. CASE LogStart(s)
  BY <1>1, <1>4, SlotFacts DEF Load, MarkRunning, LogStart, HandlerSucceeds,
     HandlerFails, SaveOutcome, LogSuccess, LogFailure, RunPC, Job, Idle, Step
<1>5. CASE HandlerSucceeds(s)
  BY <1>1, <1>5, SlotFacts DEF Load, MarkRunning, LogStart, HandlerSucceeds,
     HandlerFails, SaveOutcome, LogSuccess, LogFailure, RunPC, Job, Idle, S!Row
<1>6. CASE HandlerFails(s)
  <2> HIDE DEF FailedRow
  <2> QED
  BY <1>1, <1>6, SlotFacts DEF Load, MarkRunning, LogStart, HandlerSucceeds,
     HandlerFails, SaveOutcome, LogSuccess, LogFailure, RunPC, Job, Idle
<1>7. CASE SaveOutcome(s)
  BY <1>1, <1>7, SlotFacts DEF Load, MarkRunning, LogStart, HandlerSucceeds,
     HandlerFails, SaveOutcome, LogSuccess, LogFailure, RunPC, SuccessPC,
     FailurePC, Job, Idle, Step
<1>8. CASE LogSuccess(s) \/ LogFailure(s)
  BY <1>1, <1>8, SlotFacts DEF Load, MarkRunning, LogStart, HandlerSucceeds,
     HandlerFails, SaveOutcome, LogSuccess, LogFailure, RunPC, SuccessPC,
     FailurePC, Job, Idle, Step
<1> QED BY <1>2, <1>3, <1>4, <1>5, <1>6, <1>7, <1>8

(* Or it ends, and the slot is free. *)
LEMMA SlotEnds ==
  ASSUME TypeOK, NEW s \in Slots,
         \/ Reject(s) \/ LoadFails(s) \/ AckMessage(s)
         \/ RequeueMessage(s) \/ BuryMessage(s) \/ Crash(s)
  PROVE  /\ slot[s] # Idle /\ slot'[s] = Idle
         /\ Reject(s) => slot[s].pc = "received" /\ Job(s) \notin Registered
         /\ LoadFails(s) => slot[s].pc = "received"
         /\ AckMessage(s) => slot[s].pc = "ack"
         /\ RequeueMessage(s) \/ BuryMessage(s) => slot[s].pc = "giveBack"
BY DEF TypeOK, Reject, LoadFails, AckMessage, RequeueMessage, BuryMessage,
       Crash, Free, Idle

(* Or it begins with a message of the broker. *)
LEMMA SlotBegins ==
  ASSUME TypeOK, NEW s \in Slots, Take(s)
  PROVE  /\ slot[s] = Idle
         /\ \E m \in B!Message :
              /\ slot'[s] = [pc |-> "received", msg |-> m, row |-> S!NoRow]
              /\ slot'[s] # Idle /\ Job(s)' = m.job
              /\ \/ /\ Deliver(s) /\ B!Consume(1) /\ m = Head(ready)
                 \/ /\ m \in pending /\ UNCHANGED brokerVars
                    /\ SlowHandlers \/ \A t \in Slots : slot[t].msg # m
         /\ UNCHANGED <<storeVars, envVars, budget>>
<1>1. slot \in [Slots -> Execution \cup {Idle}]
  BY DEF TypeOK
<1>2. CASE Deliver(s)
  <2>1. Head(ready) \in B!Message /\ B!Consume(1)
    BY <1>2, ConsumeType DEF Deliver
  <2> QED BY <1>1, <1>2, <2>1 DEF Deliver, Occupy, Job, Idle
<1>3. CASE \E m \in pending : Reclaim(s, m)
  <2>1. PICK m \in pending : Reclaim(s, m)
    BY <1>3
  <2>2. m \in B!Message
    BY DEF TypeOK, B!TypeOK
  <2> QED BY <1>1, <2>1, <2>2
          DEF Reclaim, Occupy, Job, Idle, B!Reclaim, brokerVars
<1> QED BY <1>2, <1>3 DEF Take

LEMMA TakeReceives ==
  ASSUME TypeOK, NEW s \in Slots, Take(s)
  PROVE  slot[s] = Idle /\ slot'[s] # Idle /\ slot'[s].pc = "received"
<1>1. PICK m \in B!Message :
        slot'[s] = [pc |-> "received", msg |-> m, row |-> S!NoRow]
  BY SlotBegins
<1> QED BY <1>1, SlotBegins DEF Idle

(* The writes of an execution to its row and its logs. *)
LEMMA SlotWrites ==
  ASSUME TypeOK, NEW s \in Slots, AllSlotSteps(s)
  PROVE  /\ \A j \in Jobs :
              \/ rows'[j] = rows[j]
              \/ /\ MarkRunning(s) \/ SaveOutcome(s)
                 /\ j = Job(s) /\ rows[j] # S!NoRow
                 /\ rows'[j] = slot'[s].row
         /\ \A j \in Jobs : logs[j] \subseteq logs'[j]
         /\ budget["fault"] = 0 =>
              /\ MarkRunning(s) \/ SaveOutcome(s) =>
                   rows[Job(s)] # S!NoRow /\ rows'[Job(s)] = slot'[s].row
              /\ LogSuccess(s) => "succeeded" \in logs'[Job(s)]
         /\ SaveOutcome(s) => \/ rows'[Job(s)] = slot'[s].row
                              \/ Fault /\ rows' = rows
         /\ MarkRunning(s) => \/ rows'[Job(s)] = slot'[s].row
                              \/ Fault /\ rows' = rows
         /\ MarkRunning(s) \/ SaveOutcome(s) =>
              logs' = logs /\ UNCHANGED <<brokerVars, envVars>>
         /\ LogStart(s) \/ LogSuccess(s) \/ LogFailure(s) =>
              rows' = rows /\ UNCHANGED <<brokerVars, envVars>>
<1>1. /\ rows \in [Jobs -> S!Row \cup {S!NoRow}]
      /\ logs \in [Jobs -> SUBSET S!LogKind]
      /\ slot \in [Slots -> Execution \cup {Idle}]
  BY DEF TypeOK, S!TypeOK
<1>2. ASSUME MarkRunning(s) \/ SaveOutcome(s)
      PROVE  /\ \/ /\ rows[Job(s)] # S!NoRow
                   /\ rows' = [rows EXCEPT ![Job(s)] = slot'[s].row]
                \/ Fault /\ rows' = rows
             /\ logs' = logs /\ Job(s) \in Jobs
             /\ UNCHANGED <<brokerVars, envVars>>
  <2>1. CASE MarkRunning(s)
    <3> DEFINE row == [slot[s].row EXCEPT !.status = "RUNNING"]
    <3>1. /\ slot' = [slot EXCEPT ![s].pc = "logStart", ![s].row = row]
          /\ Save(Job(s), row) /\ slot[s].pc = "loaded"
          /\ UNCHANGED <<brokerVars, envVars>>
      BY <2>1 DEF MarkRunning
    <3>2. /\ slot[s] \in [pc : BeforePC, msg : B!Message,
                           row : S!Row \cup {S!NoRow}]
          /\ Job(s) \in Jobs
      BY <3>1, SlotFacts DEF BeforePC, Idle
    <3> HIDE DEF row
    <3>3. slot'[s].row = row
      BY <1>1, <3>1, <3>2
    <3> QED BY <3>1, <3>2, <3>3 DEF Save, S!UpdateJob, storeVars
  <2>2. CASE SaveOutcome(s)
    <3>1. slot'[s].row = slot[s].row /\ Save(Job(s), slot[s].row)
      BY <2>2, SlotGoesOn DEF SaveOutcome
    <3>2. Job(s) \in Jobs
      BY <2>2, SlotGoesOn, SlotFacts
    <3> QED BY <2>2, <3>1, <3>2 DEF SaveOutcome, Save, S!UpdateJob, storeVars
  <2> QED BY <1>2, <2>1, <2>2
<1>3. ASSUME LogStart(s) \/ LogSuccess(s) \/ LogFailure(s)
      PROVE  /\ rows' = rows /\ Job(s) \in Jobs
             /\ \A j \in Jobs : logs[j] \subseteq logs'[j]
             /\ LogSuccess(s) => Fault \/ "succeeded" \in logs'[Job(s)]
             /\ UNCHANGED <<brokerVars, envVars>>
  <2>1. Job(s) \in Jobs
    BY <1>3, SlotGoesOn, SlotFacts
  <2>2. \E kind : /\ Log(Job(s), kind)
                  /\ LogSuccess(s) => kind = "succeeded"
    <3>1. ~(LogSuccess(s) /\ LogFailure(s)) /\ ~(LogSuccess(s) /\ LogStart(s))
      BY DEF LogStart, LogSuccess, LogFailure
    <3> QED BY <1>3, <3>1 DEF LogStart, LogSuccess, LogFailure
  <2> QED BY <1>1, <1>3, <2>1, <2>2
          DEF Log, S!AppendJobLog, storeVars, LogStart, LogSuccess, LogFailure
<1>4. ASSUME ~(MarkRunning(s) \/ SaveOutcome(s)),
             ~(LogStart(s) \/ LogSuccess(s) \/ LogFailure(s))
      PROVE  rows' = rows /\ logs' = logs
  BY <1>4 DEF AllSlotSteps, Take, Deliver, Reclaim, Execute, Crash, Reject,
     Load, LoadFails, HandlerSucceeds, HandlerFails, AckMessage,
     RequeueMessage, BuryMessage, storeVars
<1>5. budget["fault"] = 0 => ~Fault
  BY DEF Fault, Spend
<1>6. ~(MarkRunning(s) /\ SaveOutcome(s))
  BY DEF MarkRunning, SaveOutcome
<1>7. CASE MarkRunning(s) \/ SaveOutcome(s)
  <2>1. ~(LogStart(s) \/ LogSuccess(s) \/ LogFailure(s))
    BY <1>7 DEF MarkRunning, SaveOutcome, LogStart, LogSuccess, LogFailure
  <2> QED BY <1>1, <1>2, <1>5, <1>7, <2>1
<1>8. CASE LogStart(s) \/ LogSuccess(s) \/ LogFailure(s)
  <2>1. ~(MarkRunning(s) \/ SaveOutcome(s))
    BY <1>8 DEF MarkRunning, SaveOutcome, LogStart, LogSuccess, LogFailure
  <2> QED BY <1>1, <1>3, <1>5, <1>8, <2>1
<1> QED BY <1>4, <1>7, <1>8

(* What a request does to rows, logs and the broker. *)
LEMMA RequestWrites ==
  ASSUME TypeOK, NEW c \in Clients, BeginRequest(c) \/ ServeRequest(c)
  PROVE  /\ slot' = slot /\ logs' = logs /\ pending' = pending /\ dead' = dead
         /\ UNCHANGED <<effects, fails>> /\ dropped \subseteq dropped'
         /\ \A d \in Clients \ {c} : req'[d] = req[d]
         /\ UNCHANGED <<ready, nextId>> \/ (Enqueue(c) /\ B!Enqueue(req[c].job))
         /\ \A j \in Jobs :
              \/ rows'[j] = rows[j]
              \/ CancelJob(c) /\ rows'[j].status = "FAILED" /\ rows[j] # S!NoRow
              \/ /\ rows'[j] = S!NewRow
                 /\ Insert(c) \/ RetryJob(c)
                 /\ req[c].job = j /\ req'[c].job = j
                 /\ req'[c].pc = "enqueue"
<1>1. /\ rows \in [Jobs -> S!Row \cup {S!NoRow}]
      /\ req \in [Clients -> Request \cup {NoRequest}]
  BY DEF TypeOK, S!TypeOK
<1>2. req[c].pc \in RequestPC
        => /\ req[c] \in Request /\ req[c].job \in Jobs
           /\ req[c].row \in S!Row \cup {S!NoRow}
  BY <1>1 DEF Request, NoRequest, RequestPC
<1>3. CASE BeginRequest(c)
  BY <1>1, <1>3 DEF BeginRequest, BeginCreate, BeginCancel, BeginRetry, Read,
     storeVars, brokerVars, envVars
<1>4. CASE Lookup(c)
  BY <1>1, <1>4 DEF Lookup, Ask, Reply, storeVars, brokerVars
<1>5. CASE Insert(c) \/ RetryJob(c)
  <2>1. /\ req[c] \in Request /\ req[c].job \in Jobs
        /\ \/ /\ rows' = [rows EXCEPT ![req[c].job] = S!NewRow]
              /\ Ask(c, "enqueue") /\ logs' = logs
           \/ Reply(c) /\ UNCHANGED storeVars
        /\ UNCHANGED <<brokerVars, slot, envVars>>
    BY <1>2, <1>5 DEF Insert, RetryJob, S!CreateJob, S!UpdateJob, RequestPC
  <2>2. /\ \A d \in Clients \ {c} : req'[d] = req[d]
        /\ Ask(c, "enqueue")
              => req'[c].pc = "enqueue" /\ req'[c].job = req[c].job
    BY <1>1, <2>1 DEF Ask, Reply, Request
  <2>3. ASSUME NEW j \in Jobs, rows'[j] # rows[j]
        PROVE  /\ j = req[c].job /\ rows'[j] = S!NewRow
               /\ req'[c].pc = "enqueue" /\ req'[c].job = j
    BY <1>1, <2>1, <2>2, <2>3 DEF storeVars
  <2> QED BY <1>5, <2>1, <2>2, <2>3 DEF storeVars, brokerVars, envVars
<1>6. CASE Enqueue(c)
  BY <1>1, <1>6 DEF Enqueue, Reply, B!Enqueue, storeVars, brokerVars
<1>7. CASE CancelJob(c)
  <2> DEFINE row == [req[c].row EXCEPT !.status = "FAILED",
                                       !.error = "cancelled"]
  <2>1. req[c].job \in Jobs /\ req[c].row \in S!Row \cup {S!NoRow}
    BY <1>2, <1>7 DEF CancelJob, RequestPC
  <2>2. row.status = "FAILED"
    BY <2>1 DEF S!Row, S!NoRow
  <2>3. Save(req[c].job, row)
    BY <1>7 DEF CancelJob
  <2> HIDE DEF row
  <2>4. /\ logs' = logs
        /\ \A j \in Jobs :
             \/ rows'[j] = rows[j]
             \/ rows'[j].status = "FAILED" /\ rows[j] # S!NoRow
    BY <1>1, <2>1, <2>2, <2>3 DEF Save, S!UpdateJob, storeVars
  <2> QED BY <1>1, <1>7, <2>4 DEF CancelJob, Reply, brokerVars, envVars
<1> QED BY <1>3, <1>4, <1>5, <1>6, <1>7 DEF ServeRequest

(* What an execution does to the broker. *)
LEMMA SlotMoves ==
  ASSUME TypeOK, NEW s \in Slots, AllSlotSteps(s)
  PROVE  /\ \A m \in pending :
              \/ m \in pending'
              \/ m = slot[s].msg /\ (Reject(s) \/ LoadFails(s) \/ AckMessage(s))
         /\ \A m \in pending' :
              m \in pending \/ (AtLeastOnce /\ Deliver(s) /\ m = Head(ready))
         /\ Deliver(s) => B!Consume(1)
         /\ Deliver(s) /\ AtLeastOnce => Head(ready) \in pending'
         /\ \/ UNCHANGED <<ready, nextId>>
            \/ Deliver(s)
            \/ RequeueMessage(s) /\ B!Requeue(slot[s].msg)
         /\ dropped \subseteq dropped'
<1>1. CASE Take(s)
  BY <1>1 DEF Take, Deliver, Reclaim, B!Consume, B!Reclaim, envVars, TypeOK,
     B!TypeOK, LoadFails, AckMessage
<1>2. CASE Reject(s) \/ LoadFails(s) \/ AckMessage(s)
  <2>1. /\ pending' = pending \ {slot[s].msg} \/ pending' = pending
        /\ UNCHANGED <<ready, nextId>> /\ dropped \subseteq dropped'
    BY <1>2 DEF Reject, LoadFails, AckMessage, Acknowledge, B!Ack, brokerVars,
       envVars
  <2>2. ~Deliver(s)
    BY <1>2 DEF Deliver, Reject, LoadFails, AckMessage, Idle
  <2> QED BY <1>2, <2>1, <2>2
<1>3. CASE RequeueMessage(s)
  BY <1>3 DEF RequeueMessage, Deliver, Idle, B!Requeue, B!Enqueue, brokerVars
<1>4. CASE BuryMessage(s)
  BY <1>4 DEF BuryMessage, Deliver, Idle, B!SendToDeadLetter, brokerVars,
     envVars
<1>5. CASE Crash(s) \/ Load(s) \/ MarkRunning(s) \/ LogStart(s) \/ HandlerSucceeds(s)
           \/ HandlerFails(s) \/ SaveOutcome(s) \/ LogSuccess(s) \/ LogFailure(s)
  <2>1. UNCHANGED brokerVars /\ dropped' = dropped /\ slot[s] # Idle
    BY <1>5 DEF Crash, Load, MarkRunning, LogStart, HandlerSucceeds,
       HandlerFails, SaveOutcome, LogSuccess, LogFailure, envVars, Idle
  <2> QED BY <2>1 DEF brokerVars, Deliver
<1> QED BY <1>1, <1>2, <1>3, <1>4, <1>5 DEF AllSlotSteps, Execute

(* The environment never gets more chances than it had. *)
LEMMA BudgetFalls ==
  ASSUME TypeOK, [Next]_vars
  PROVE  \A k \in BudgetKind : budget'[k] <= budget[k]
<1>1. budget \in [BudgetKind -> Nat]
  BY DEF TypeOK
<1>2. budget' = budget \/ \E k \in BudgetKind : Spend(k)
  <2>1. ASSUME NEW c \in Clients, BeginRequest(c) \/ ServeRequest(c)
        PROVE  budget' = budget \/ \E k \in BudgetKind : Spend(k)
    BY <2>1 DEF BeginRequest, BeginCreate, BeginCancel, BeginRetry, Read,
       ServeRequest, Lookup, Insert, Enqueue, CancelJob, RetryJob, Save, Fault,
       BudgetKind
  <2>2. ASSUME NEW s \in Slots, AllSlotSteps(s)
        PROVE  budget' = budget \/ \E k \in BudgetKind : Spend(k)
    BY <2>2 DEF AllSlotSteps, Take, Deliver, Reclaim, Execute, Crash, Reject,
       Load, LoadFails, MarkRunning, LogStart, HandlerSucceeds, HandlerFails,
       SaveOutcome, LogSuccess, AckMessage, LogFailure, RequeueMessage,
       BuryMessage, Save, Log, Acknowledge, Fault, BudgetKind
  <2>3. CASE UNCHANGED vars
    BY <2>3 DEF vars
  <2> QED BY <2>1, <2>2, <2>3 DEF Next, AllSlotSteps
<1> QED BY <1>1, <1>2 DEF Spend

-----------------------------------------------------------------------------
(* A success without its log record. *)

Logged(j) == "succeeded" \in logs[j]

(* Whoever executes a message has it in the pending list, or the outcome   *)
(* is on record; it is on record before the acknowledgement.               *)
SlotsOwed ==
  \A s \in Slots :
    /\ slot[s].pc \notin {"idle", "received"} => Job(s) \in Registered
    /\ slot[s].pc = "ack" => Logged(Job(s))
    /\ AtLeastOnce /\ slot[s] # Idle /\ Job(s) \in Registered
         => slot[s].msg \in pending \/ Logged(Job(s))

(* A row without its record has a message, or somebody is about to log it. *)
RowsOwed ==
  \A j \in Jobs :
    rows[j].status = "SUCCEEDED" =>
      /\ j \in Registered
      /\ \/ Logged(j)
         \/ AtLeastOnce /\ InPending(j)
         \/ ~AtLeastOnce /\ \E s \in Slots : slot[s].pc = "logSuccess" /\ Job(s) = j

LogInv == budget["fault"] = 0 /\ SlotsOwed /\ RowsOwed

LEMMA RequestKeepsLog ==
  ASSUME TypeOK, LogInv, budget'["fault"] = 0,
         NEW c \in Clients, BeginRequest(c) \/ ServeRequest(c)
  PROVE  LogInv'
<1>1. slot' = slot /\ logs' = logs /\ pending' = pending
  BY RequestWrites
<1>2. ASSUME NEW j \in Jobs, rows'[j].status = "SUCCEEDED"
      PROVE  rows'[j] = rows[j]
  BY <1>2, RequestWrites DEF S!NewRow
<1> QED BY <1>1, <1>2 DEF LogInv, SlotsOwed, RowsOwed, Logged, InPending, Job

LEMMA SlotKeepsLog ==
  ASSUME TypeOK, LogInv, DecisionKept, budget'["fault"] = 0,
         NEW s \in Slots, AllSlotSteps(s)
  PROVE  LogInv'
<1>1. /\ budget["fault"] = 0 /\ ~Fault
      /\ ~LoadFails(s)
  BY DEF LogInv, Fault, Spend, LoadFails
<1>2. \A j \in Jobs : Logged(j) => Logged(j)'
  BY SlotWrites DEF Logged
<1>3. \A t \in Slots \ {s} : slot'[t] = slot[t]
  BY SlotAlone
<1>4. ASSUME NEW m \in pending, m.job \in Registered
      PROVE  m \in pending' \/ Logged(m.job)'
  <2>1. CASE m \notin pending'
    <3>1. m = slot[s].msg /\ AckMessage(s)
      BY <1>1, <1>4, <2>1, SlotMoves DEF Reject, Job
    <3>2. slot[s].pc = "ack" /\ Job(s) \in Jobs
      BY <3>1, SlotEnds, SlotFacts
    <3>3. Logged(Job(s))
      BY <3>2 DEF LogInv, SlotsOwed
    <3> QED BY <1>2, <3>1, <3>2, <3>3 DEF Job
  <2> QED BY <2>1
<1>5. ASSUME NEW t \in Slots, t # s
      PROVE  /\ slot'[t].pc \notin {"idle", "received"}
                  => Job(t)' \in Registered
             /\ slot'[t].pc = "ack" => Logged(Job(t))'
             /\ AtLeastOnce /\ slot'[t] # Idle /\ Job(t)' \in Registered
                  => slot'[t].msg \in pending' \/ Logged(Job(t))'
  <2>1. slot'[t] = slot[t] /\ Job(t)' = Job(t)
    BY <1>3, <1>5 DEF Job
  <2>2. Logged(Job(t))' <=> "succeeded" \in logs'[Job(t)]
    BY <2>1 DEF Logged
  <2>3. slot[t] # Idle => Job(t) \in Jobs
    BY SlotFacts
  <2>4. slot[t].pc = "ack" => Logged(Job(t))'
    BY <1>2, <2>2, <2>3 DEF LogInv, SlotsOwed, Logged, Idle
  <2>5. ASSUME AtLeastOnce, slot[t] # Idle, Job(t) \in Registered
        PROVE  slot'[t].msg \in pending' \/ Logged(Job(t))'
    <3>1. slot[t].msg \in pending \/ Logged(Job(t))
      BY <2>5 DEF LogInv, SlotsOwed
    <3> QED BY <1>2, <1>4, <2>1, <2>2, <2>3, <2>5, <3>1 DEF Job, Logged
  <2> QED BY <2>1, <2>4, <2>5 DEF LogInv, SlotsOwed
<1>6. /\ slot'[s].pc \notin {"idle", "received"} => Job(s)' \in Registered
      /\ slot'[s].pc = "ack" => Logged(Job(s))'
      /\ AtLeastOnce /\ slot'[s] # Idle /\ Job(s)' \in Registered
           => slot'[s].msg \in pending' \/ Logged(Job(s))'
  <2>1. CASE Take(s)
    <3>1. PICK m \in B!Message :
            /\ slot'[s] = [pc |-> "received", msg |-> m, row |-> S!NoRow]
            /\ \/ Deliver(s) /\ m = Head(ready)
               \/ m \in pending /\ UNCHANGED brokerVars
      BY <2>1, SlotBegins
    <3>2. slot'[s].pc = "received" /\ slot'[s].msg = m
      BY <3>1
    <3>3. AtLeastOnce => m \in pending'
      BY <3>1, SlotMoves DEF brokerVars
    <3> QED BY <3>2, <3>3
  <2>2. CASE \/ Load(s) \/ MarkRunning(s) \/ LogStart(s) \/ HandlerSucceeds(s)
             \/ HandlerFails(s) \/ SaveOutcome(s) \/ LogSuccess(s)
             \/ LogFailure(s)
    <3>1. slot[s] # Idle /\ slot'[s].msg = slot[s].msg /\ Job(s)' = Job(s)
      BY <2>2, SlotGoesOn
    <3>2. Job(s) \in Jobs
      BY <3>1, SlotFacts
    <3>3. Job(s) \in Registered
      <4>1. CASE slot[s].pc = "received"
        BY <2>2, <4>1 DEF Load, MarkRunning, LogStart, HandlerSucceeds,
           HandlerFails, SaveOutcome, LogSuccess, LogFailure
      <4>2. slot[s].pc # "idle"
        BY <3>1, SlotFacts
      <4> QED BY <4>1, <4>2 DEF LogInv, SlotsOwed
    <3>4. slot'[s].pc = "ack" => LogSuccess(s)
      BY <2>2, SlotGoesOn
    <3>5. LogSuccess(s) => Logged(Job(s))'
      BY <1>1, <3>1, SlotWrites DEF Logged
    <3>6. AtLeastOnce => slot[s].msg \in pending' \/ Logged(Job(s))'
      <4>1. AtLeastOnce => slot[s].msg \in pending \/ Logged(Job(s))
        BY <3>1, <3>3 DEF LogInv, SlotsOwed
      <4> QED BY <1>2, <1>4, <3>1, <3>2, <3>3, <4>1 DEF Job, Logged
    <3> QED BY <3>1, <3>3, <3>4, <3>5, <3>6
  <2>3. CASE \/ Reject(s) \/ LoadFails(s) \/ AckMessage(s)
             \/ RequeueMessage(s) \/ BuryMessage(s) \/ Crash(s)
    <3>1. slot'[s] = Idle
      BY <2>3, SlotEnds
    <3> QED BY <3>1 DEF Idle
  <2> QED BY <2>1, <2>2, <2>3 DEF AllSlotSteps, Execute
<1>7. SlotsOwed'
  BY <1>5, <1>6 DEF SlotsOwed
<1>8. ASSUME NEW j \in Jobs, rows'[j].status = "SUCCEEDED",
             rows'[j] = rows[j]
      PROVE  /\ j \in Registered
             /\ \/ Logged(j)'
                \/ AtLeastOnce /\ InPending(j)'
                \/ /\ ~AtLeastOnce
                   /\ \E t \in Slots : slot'[t].pc = "logSuccess" /\ Job(t)' = j
  <2>1. j \in Registered
    BY <1>8 DEF LogInv, RowsOwed
  <2>2. CASE Logged(j)
    BY <1>2, <2>1, <2>2
  <2>3. CASE AtLeastOnce /\ InPending(j)
    <3>1. PICK m \in pending : m.job = j
      BY <2>3 DEF InPending
    <3> QED BY <1>4, <2>1, <2>3, <3>1 DEF InPending
  <2>4. ASSUME ~AtLeastOnce, NEW t \in Slots,
               slot[t].pc = "logSuccess", Job(t) = j
        PROVE  \/ Logged(j)'
               \/ slot'[t].pc = "logSuccess" /\ Job(t)' = j
    <3>1. CASE t # s
      BY <1>3, <2>4, <3>1 DEF Job
    <3>2. CASE t = s
      <4>1. LogSuccess(s)
        BY <2>4, <3>2 DEF AllSlotSteps, Take, Deliver, Reclaim, Idle, Crash,
           Execute, Reject, Load, LoadFails, MarkRunning, LogStart,
           HandlerSucceeds, HandlerFails, SaveOutcome, AckMessage, LogFailure,
           RequeueMessage, BuryMessage
      <4> QED BY <1>1, <2>4, <3>2, <4>1, SlotWrites DEF Logged
    <3> QED BY <3>1, <3>2
  <2> QED BY <1>8, <2>1, <2>2, <2>3, <2>4 DEF LogInv, RowsOwed
<1>9. ASSUME NEW j \in Jobs, rows'[j].status = "SUCCEEDED",
             rows'[j] # rows[j]
      PROVE  /\ j \in Registered
             /\ \/ Logged(j)'
                \/ AtLeastOnce /\ InPending(j)'
                \/ /\ ~AtLeastOnce
                   /\ \E t \in Slots : slot'[t].pc = "logSuccess" /\ Job(t)' = j
  <2>1. /\ MarkRunning(s) \/ SaveOutcome(s)
        /\ j = Job(s) /\ rows'[j] = slot'[s].row
    BY <1>9, SlotWrites
  <2>2. SaveOutcome(s) /\ slot'[s].row = slot[s].row /\ slot[s] # Idle
        /\ Job(s)' = Job(s)
    BY <1>9, <2>1, SlotGoesOn
  <2>3. slot[s].pc = "saveSuccess" /\ slot'[s].pc = "logSuccess"
    <3>1. slot[s].pc # "saveFailure"
      BY <1>9, <2>1, <2>2 DEF DecisionKept, FailurePC
    <3> QED BY <2>2, <3>1, SlotGoesOn
  <2>4. j \in Registered
    BY <2>1, <2>3 DEF LogInv, SlotsOwed
  <2>5. AtLeastOnce => slot[s].msg \in pending \/ Logged(j)
    BY <2>1, <2>2, <2>4 DEF LogInv, SlotsOwed
  <2>6. pending' = pending
    BY <2>2 DEF SaveOutcome, brokerVars
  <2> QED BY <1>2, <2>1, <2>2, <2>3, <2>4, <2>5, <2>6 DEF InPending, Job
<1>10. RowsOwed'
  BY <1>8, <1>9 DEF RowsOwed
<1> QED BY <1>7, <1>10 DEF LogInv

(***************************************************************************)
(* Calls do not fail, but workers are killed at any moment and executions  *)
(* may overlap: a row says SUCCEEDED without its "job succeeded" record    *)
(* only while a message is there that brings the run back.  Whoever runs   *)
(* has its message in the pending list until the record is written,        *)
(* because executeJob acknowledges last.                                   *)
(***************************************************************************)
THEOREM OutcomeCorrect ==
  ASSUME Budget["fault"] = 0
  PROVE  Spec => []OutcomeLoggedOrOwed
<1>1. Init => LogInv
  BY TaskQueueAssumption
     DEF Init, S!Init, S!NoRow, LogInv, SlotsOwed, RowsOwed, Idle
<1>2. TypeOK /\ BurialInv /\ LogInv /\ [Next]_vars => LogInv'
  <2> SUFFICES ASSUME TypeOK, BurialInv, LogInv, [Next]_vars
               PROVE  LogInv'
    OBVIOUS
  <2>1. CASE UNCHANGED vars
    BY <2>1 DEF vars, storeVars, brokerVars, LogInv, SlotsOwed, RowsOwed,
       Logged, InPending, Job
  <2>2. budget'["fault"] = 0
    <3>1. budget["fault"] = 0 /\ budget'["fault"] <= budget["fault"]
      BY BudgetFalls DEF LogInv, BudgetKind
    <3>2. TypeOK'
      BY <2>1, RequestTypeOK, SlotTypeOK DEF Next, vars, TypeOK, S!TypeOK,
         B!TypeOK, storeVars, brokerVars, envVars
    <3>3. budget'["fault"] \in Nat
      BY <3>2 DEF TypeOK, BudgetKind
    <3> QED BY <3>1, <3>3
  <2> QED BY <2>1, <2>2, RequestKeepsLog, SlotKeepsLog
          DEF Next, AllSlotSteps, BurialInv
<1>3. TypeOK /\ LogInv => OutcomeLoggedOrOwed
  BY SlotFacts DEF LogInv, RowsOwed, OutcomeLoggedOrOwed, Logged, Owed, Held
<1> QED BY <1>1, <1>2, <1>3, TypeCorrect, DecisionsCorrect, PTL DEF Spec

-----------------------------------------------------------------------------
(* A queued row has a message to come. *)

(* Messages have identifiers of their own. *)
IdsFresh ==
  AtLeastOnce =>
    /\ \A i \in 1 .. Len(ready) : ready[i].id < nextId
    /\ \A i, k \in 1 .. Len(ready) : ready[i] = ready[k] => i = k
    /\ \A m \in pending : /\ m.id < nextId
                          /\ \A i \in 1 .. Len(ready) : ready[i] # m
    /\ \A s \in Slots :
         slot[s] # Idle => /\ slot[s].msg.id < nextId
                           /\ \A i \in 1 .. Len(ready) : ready[i] # slot[s].msg

(* An execution whose next save cannot fail any more, or the one after it. *)
WillSave(s) ==
  \/ slot[s].pc \in {"received", "loaded"}
  \/ /\ budget["fault"] = 0
     /\ slot[s].pc \in {"logStart", "running", "saveSuccess", "saveFailure"}

(* A message whose executions have still to write the row. *)
Unwritten(m) ==
  \A s \in Slots : slot[s] # Idle /\ slot[s].msg = m => WillSave(s)

Backed(j) ==
  \/ j \in dropped
  \/ Publishing(j)
  \/ InReady(j)
  \/ AtLeastOnce /\ \E m \in pending : m.job = j /\ Unwritten(m)
  \/ ~AtLeastOnce /\ \E s \in Slots : slot[s] # Idle /\ Job(s) = j /\ WillSave(s)

QueuedInv ==
  /\ budget["fault"] <= 1
  /\ IdsFresh
  /\ \A j \in Registered : rows[j].status = "QUEUED" => Backed(j)
LEMMA BudgetType ==
  ASSUME TypeOK, [Next]_vars
  PROVE  /\ budget["fault"] \in Nat /\ budget'["fault"] \in Nat
         /\ budget'["fault"] <= budget["fault"]
         /\ Fault => budget'["fault"] = budget["fault"] - 1
<1>1. TypeOK'
  BY RequestTypeOK, SlotTypeOK DEF Next, vars, TypeOK, S!TypeOK, B!TypeOK,
     storeVars, brokerVars, envVars
<1>2. budget \in [BudgetKind -> Nat] /\ budget' \in [BudgetKind -> Nat]
  BY <1>1 DEF TypeOK
<1> QED BY <1>2, BudgetFalls DEF BudgetKind, Fault, Spend

(* The queue and the pending list keep their identifiers apart. *)
LEMMA EnqueueFresh ==
  ASSUME TypeOK, IdsFresh, NEW j \in Jobs, B!Enqueue(j),
         \A s \in Slots : slot'[s] = slot[s] \/ slot'[s] = Idle
  PROVE  IdsFresh'
<1> SUFFICES ASSUME AtLeastOnce PROVE IdsFresh'
  BY DEF IdsFresh
<1> DEFINE new == [id |-> nextId, job |-> j]
<1>1. /\ ready' = Append(ready, new) /\ nextId' = nextId + 1
      /\ pending' = pending /\ new.id = nextId
  BY DEF B!Enqueue
<1>2. ready \in Seq(B!Message) /\ nextId \in Nat /\ new \in B!Message
  BY DEF TypeOK, B!TypeOK, B!Message
<1> HIDE DEF new
<1>3. /\ Len(ready') = Len(ready) + 1
      /\ \A i \in 1 .. Len(ready) : ready'[i] = ready[i] /\ ready[i] # new
      /\ ready'[Len(ready) + 1] = new
  BY <1>1, <1>2 DEF IdsFresh
<1>4. \A i \in 1 .. Len(ready') : i \in 1 .. Len(ready) \/ i = Len(ready) + 1
  BY <1>2, <1>3
<1>5. \A i \in 1 .. Len(ready) : ready[i].id \in Nat
  <2>1. \A i \in 1 .. Len(ready) : ready[i] \in B!Message
    BY <1>2
  <2> QED BY <2>1 DEF B!Message
<1>6. \A i \in 1 .. Len(ready') : ready'[i].id < nextId'
  BY <1>1, <1>2, <1>3, <1>4, <1>5 DEF IdsFresh
<1>7. \A i, k \in 1 .. Len(ready') : ready'[i] = ready'[k] => i = k
  BY <1>3, <1>4 DEF IdsFresh
<1>8. \A m \in pending' : /\ m.id < nextId'
                          /\ \A i \in 1 .. Len(ready') : ready'[i] # m
  <2>1. \A m \in pending : m.id \in Nat /\ m.id < nextId /\ m # new
    BY <1>1 DEF IdsFresh, TypeOK, B!TypeOK, B!Message
  <2> QED BY <1>1, <1>2, <1>3, <1>4, <2>1 DEF IdsFresh
<1>9. \A s \in Slots :
        slot'[s] # Idle => /\ slot'[s].msg.id < nextId'
                           /\ \A i \in 1 .. Len(ready') : ready'[i] # slot'[s].msg
  <2>1. ASSUME NEW s \in Slots, slot[s] # Idle
        PROVE  /\ slot[s].msg.id \in Nat /\ slot[s].msg.id < nextId
               /\ slot[s].msg # new
    BY <1>1, <2>1, SlotFacts DEF IdsFresh, B!Message
  <2> QED BY <1>1, <1>2, <1>3, <1>4, <2>1 DEF IdsFresh
<1> QED BY <1>6, <1>7, <1>8, <1>9 DEF IdsFresh

LEMMA TailOfQueue ==
  ASSUME NEW T, NEW q \in Seq(T), Len(q) > 0
  PROVE  /\ Len(SubSeq(q, 2, Len(q))) = Len(q) - 1
         /\ \A i \in 1 .. Len(SubSeq(q, 2, Len(q))) :
              /\ SubSeq(q, 2, Len(q))[i] = q[i + 1]
              /\ i + 1 \in 1 .. Len(q)
<1>1. Len(q) \in Nat
  OBVIOUS
<1>2. Len(SubSeq(q, 2, Len(q))) = Len(q) - 1
  <2>1. CASE Len(q) = 1
    BY <2>1
  <2>2. CASE Len(q) > 1
    BY <1>1, <2>2
  <2> QED BY <1>1, <2>1, <2>2
<1>3. ASSUME NEW i \in 1 .. Len(q) - 1
      PROVE  SubSeq(q, 2, Len(q))[i] = q[i + 1] /\ i + 1 \in 1 .. Len(q)
  BY <1>1
<1> QED BY <1>2, <1>3

LEMMA DeliverFresh ==
  ASSUME TypeOK, IdsFresh, NEW s \in Slots, Deliver(s)
  PROVE  IdsFresh'
<1> SUFFICES ASSUME AtLeastOnce PROVE IdsFresh'
  BY DEF IdsFresh
<1>1. /\ ready \in Seq(B!Message) /\ Len(ready) \in Nat /\ Len(ready) > 0
      /\ ready' = SubSeq(ready, 2, Len(ready)) /\ nextId' = nextId
      /\ pending' = pending \cup {ready[1]}
      /\ slot' = [slot EXCEPT ![s] =
                    [pc |-> "received", msg |-> ready[1], row |-> S!NoRow]]
  BY DEF Deliver, B!Consume, Occupy, TypeOK, B!TypeOK
<1>2. /\ Len(ready') = Len(ready) - 1
      /\ \A i \in 1 .. Len(ready') :
           ready'[i] = ready[i + 1] /\ i + 1 \in 1 .. Len(ready)
  BY <1>1, TailOfQueue
<1>3. \A i \in 1 .. Len(ready') : ready'[i] # ready[1]
  BY <1>1, <1>2 DEF IdsFresh
<1>4. \A i \in 1 .. Len(ready') : ready'[i].id < nextId'
  BY <1>1, <1>2 DEF IdsFresh
<1>5. \A i, k \in 1 .. Len(ready') : ready'[i] = ready'[k] => i = k
  BY <1>1, <1>2 DEF IdsFresh
<1>6. \A m \in pending' : /\ m.id < nextId'
                          /\ \A i \in 1 .. Len(ready') : ready'[i] # m
  BY <1>1, <1>2, <1>3 DEF IdsFresh
<1>7. \A t \in Slots :
        slot'[t] # Idle => /\ slot'[t].msg.id < nextId'
                           /\ \A i \in 1 .. Len(ready') : ready'[i] # slot'[t].msg
  <2>1. slot'[s].msg = ready[1] /\ \A t \in Slots : t # s => slot'[t] = slot[t]
    BY <1>1 DEF TypeOK
  <2> QED BY <1>1, <1>2, <1>3, <2>1 DEF IdsFresh
<1> QED BY <1>4, <1>5, <1>6, <1>7 DEF IdsFresh

LEMMA SlotKeepsFresh ==
  ASSUME TypeOK, IdsFresh, NEW s \in Slots, AllSlotSteps(s)
  PROVE  IdsFresh'
<1>1. CASE RequeueMessage(s) /\ B!Requeue(slot[s].msg) /\ AtLeastOnce
  <2>1. slot[s].msg.job \in Jobs
    BY <1>1, SlotFacts, SlotEnds DEF Job
  <2>2. \A t \in Slots : slot'[t] = slot[t] \/ slot'[t] = Idle
    BY <1>1, SlotAlone, SlotEnds
  <2> QED BY <1>1, <2>1, <2>2, EnqueueFresh DEF B!Requeue
<1>2. CASE AtLeastOnce /\ UNCHANGED <<ready, nextId>> /\ ~Deliver(s)
  <2>1. \A m \in pending' : m \in pending
    BY <1>2, SlotMoves
  <2>2. slot'[s] # Idle => /\ slot[s] # Idle /\ slot'[s].msg = slot[s].msg
                           \/ slot'[s].msg \in pending
    <3>1. CASE Take(s)
      <4>1. PICK m \in pending : slot'[s].msg = m
        <5>1. PICK m \in B!Message :
                /\ slot'[s] = [pc |-> "received", msg |-> m, row |-> S!NoRow]
                /\ m \in pending
          BY <1>2, <3>1, SlotBegins
        <5> QED BY <5>1
      <4> QED BY <4>1
    <3>2. CASE ~Take(s)
      BY <3>2, SlotGoesOn, SlotEnds DEF AllSlotSteps, Execute
    <3> QED BY <3>1, <3>2
  <2>3. \A t \in Slots \ {s} : slot'[t] = slot[t]
    BY SlotAlone
  <2> QED BY <1>2, <2>1, <2>2, <2>3 DEF IdsFresh
<1> QED BY <1>1, <1>2, DeliverFresh, SlotMoves DEF IdsFresh

(* An execution that has still to write its row keeps it that way, or the  *)
(* row is not QUEUED any more, or a failed load dropped the job.           *)
LEMMA WillSaveKept ==
  ASSUME TypeOK, DecisionKept, budget["fault"] <= 1, [Next]_vars,
         NEW s \in Slots, AllSlotSteps(s), slot[s] # Idle, WillSave(s),
         Job(s) \in Registered, Job(s) \notin dropped',
         rows'[Job(s)].status = "QUEUED"
  PROVE  \/ slot'[s] = Idle /\ Crash(s)
         \/ slot'[s] # Idle /\ slot'[s].msg = slot[s].msg /\ WillSave(s)'
<1>1. /\ budget["fault"] \in Nat /\ budget'["fault"] \in Nat
      /\ budget'["fault"] <= budget["fault"]
      /\ Fault => budget'["fault"] = 0 /\ budget["fault"] # 0
  BY BudgetType DEF Fault, Spend
<1>2. Job(s) \in Jobs
  BY SlotFacts
<1>3. CASE Load(s) \/ LogStart(s) \/ HandlerSucceeds(s) \/ HandlerFails(s)
  <2>1. /\ slot[s].pc \in {"received", "logStart", "running"}
        /\ slot'[s].pc \in {"loaded", "running", "saveSuccess", "saveFailure"}
        /\ slot[s].pc = "received" => slot'[s].pc = "loaded"
        /\ slot'[s] # Idle /\ slot'[s].msg = slot[s].msg
    BY <1>3, SlotGoesOn
  <2> QED BY <1>1, <2>1 DEF WillSave
<1>4. CASE MarkRunning(s) \/ SaveOutcome(s)
  <2>1. slot'[s].row.status # "QUEUED"
    BY <1>4, SlotGoesOn DEF DecisionKept, SuccessPC, FailurePC
  <2>2. Fault /\ budget["fault"] # 0 /\ budget'["fault"] = 0
    BY <1>1, <1>4, <2>1, SlotWrites
  <2>3. MarkRunning(s) /\ slot'[s].pc = "logStart"
    BY <1>4, <2>2, SlotGoesOn DEF WillSave
  <2> QED BY <2>2, <2>3, SlotGoesOn DEF WillSave
<1>5. ~LogSuccess(s) /\ ~LogFailure(s) /\ ~AckMessage(s)
      /\ ~RequeueMessage(s) /\ ~BuryMessage(s)
  BY DEF WillSave, LogSuccess, LogFailure, AckMessage, RequeueMessage,
     BuryMessage
<1>6. ~Reject(s) /\ ~LoadFails(s) /\ ~Take(s)
  BY DEF Reject, LoadFails, Take, Deliver, Reclaim
<1>7. CASE Crash(s)
  BY <1>7, SlotEnds
<1> QED BY <1>3, <1>4, <1>5, <1>6, <1>7 DEF AllSlotSteps, Execute

LEMMA RequestKeepsQueued ==
  ASSUME TypeOK, QueuedInv, [Next]_vars,
         NEW c \in Clients, BeginRequest(c) \/ ServeRequest(c)
  PROVE  QueuedInv'
<1>1. /\ slot' = slot /\ pending' = pending /\ dropped \subseteq dropped'
      /\ \A d \in Clients \ {c} : req'[d] = req[d]
  BY RequestWrites
<1>2. /\ budget["fault"] \in Nat /\ budget'["fault"] \in Nat
      /\ budget'["fault"] <= budget["fault"] /\ budget["fault"] <= 1
  BY BudgetType DEF QueuedInv
<1>3. req[c].pc \in RequestPC => req[c].job \in Jobs
  BY DEF TypeOK, Request, NoRequest, RequestPC
<1>4. Enqueue(c) => req[c].job \in Jobs
  BY <1>3 DEF Enqueue, RequestPC
<1>5. IdsFresh'
  <2>1. CASE UNCHANGED <<ready, nextId>>
    BY <1>1, <2>1 DEF QueuedInv, IdsFresh
  <2>2. CASE Enqueue(c) /\ B!Enqueue(req[c].job)
    BY <1>1, <1>4, <2>2, EnqueueFresh DEF QueuedInv
  <2> QED BY <2>1, <2>2, RequestWrites
<1>6. ASSUME NEW j \in Jobs, InReady(j)
      PROVE  InReady(j)'
  <2>1. CASE UNCHANGED <<ready, nextId>>
    BY <1>6, <2>1 DEF InReady
  <2>2. CASE Enqueue(c) /\ B!Enqueue(req[c].job)
    <3>1. [id |-> nextId, job |-> req[c].job] \in B!Message
      BY <1>4, <2>2 DEF B!Message, TypeOK, B!TypeOK
    <3> QED BY <1>6, <2>2, <3>1, AppendKeepsReady DEF B!Enqueue
  <2> QED BY <2>1, <2>2, RequestWrites
<1>7. \A s \in Slots : WillSave(s) => WillSave(s)'
  BY <1>1, <1>2 DEF WillSave
<1>8. ASSUME NEW j \in Jobs, Publishing(j), j \notin dropped'
      PROVE  Publishing(j)' \/ InReady(j)'
  <2>1. PICK d \in Clients : req[d].pc = "enqueue" /\ req[d].job = j
    BY <1>8 DEF Publishing
  <2>2. CASE d # c
    BY <1>1, <2>1, <2>2 DEF Publishing
  <2>3. CASE d = c
    <3>1. Enqueue(c)
      BY <2>1, <2>3 DEF BeginRequest, BeginCreate, BeginCancel, BeginRetry,
         Read, NoRequest, ServeRequest, Lookup, Insert, CancelJob, RetryJob
    <3>2. B!Enqueue(j)
      BY <1>8, <2>1, <2>3, <3>1 DEF Enqueue
    <3>3. [id |-> nextId, job |-> j] \in B!Message
      BY DEF B!Message, TypeOK, B!TypeOK
    <3> QED BY <3>2, <3>3, AppendKeepsReady DEF B!Enqueue
  <2> QED BY <2>2, <2>3
<1>9. ASSUME NEW j \in Registered, rows'[j].status = "QUEUED"
      PROVE  Backed(j)'
  <2>0. j \in Jobs
    BY TaskQueueAssumption
  <2>1. CASE rows'[j] = rows[j]
    <3>1. Backed(j)
      BY <1>9, <2>1 DEF QueuedInv
    <3>2. ASSUME AtLeastOnce, NEW m \in pending, m.job = j, Unwritten(m)
          PROVE  Backed(j)'
      <4>1. Unwritten(m)'
        BY <1>1, <1>7, <3>2 DEF Unwritten
      <4> QED BY <1>1, <3>2, <4>1 DEF Backed
    <3>3. ASSUME ~AtLeastOnce,
                 NEW s \in Slots, slot[s] # Idle, Job(s) = j, WillSave(s)
          PROVE  Backed(j)'
      <4>1. slot'[s] # Idle /\ Job(s)' = j /\ WillSave(s)'
        BY <1>1, <1>7, <3>3 DEF Job
      <4> QED BY <3>3, <4>1 DEF Backed
    <3>4. CASE j \in dropped' \/ Publishing(j) \/ InReady(j)
      BY <1>6, <1>8, <2>0, <3>4 DEF Backed
    <3> QED BY <1>1, <3>1, <3>2, <3>3, <3>4 DEF Backed
  <2>2. CASE req'[c].pc = "enqueue" /\ req'[c].job = j
    BY <2>2 DEF Backed, Publishing
  <2> QED BY <1>9, <2>0, <2>1, <2>2, RequestWrites
<1> QED BY <1>2, <1>5, <1>9 DEF QueuedInv

LEMMA SlotKeepsQueued ==
  ASSUME TypeOK, DecisionKept, QueuedInv, [Next]_vars,
         NEW s \in Slots, AllSlotSteps(s)
  PROVE  QueuedInv'
<1>1. /\ budget["fault"] \in Nat /\ budget'["fault"] \in Nat
      /\ budget'["fault"] <= budget["fault"] /\ budget["fault"] <= 1
  BY BudgetType DEF QueuedInv
<1>2. IdsFresh'
  BY SlotKeepsFresh DEF QueuedInv
<1>3. /\ req' = req /\ \A t \in Slots \ {s} : slot'[t] = slot[t]
      /\ dropped \subseteq dropped'
  BY SlotAlone, SlotMoves
<1>4. \A t \in Slots \ {s} : WillSave(t) => WillSave(t)'
  BY <1>1, <1>3 DEF WillSave
<1>5. ASSUME NEW j \in Jobs, rows'[j].status = "QUEUED"
      PROVE  rows'[j] = rows[j]
  <2>1. MarkRunning(s) \/ SaveOutcome(s) => slot'[s].row.status # "QUEUED"
    BY SlotGoesOn DEF DecisionKept, SuccessPC, FailurePC
  <2> QED BY <1>5, <2>1, SlotWrites
<1>6. ASSUME NEW m, Take(s), slot'[s].msg = m,
             Deliver(s) => m = Head(ready)
      PROVE  /\ WillSave(s)' /\ slot'[s] # Idle /\ Job(s)' = m.job
             /\ Deliver(s) /\ AtLeastOnce => m \in pending' /\ Unwritten(m)'
  <2>1. slot'[s].pc = "received" /\ slot'[s] # Idle
    BY <1>6, TakeReceives
  <2>2. WillSave(s)'
    BY <2>1 DEF WillSave
  <2>3. ASSUME Deliver(s), AtLeastOnce
        PROVE  m \in pending' /\ Unwritten(m)'
    <3>1. m = ready[1] /\ 1 \in 1 .. Len(ready)
      BY <1>6, <2>3 DEF Deliver, B!Consume, TypeOK, B!TypeOK
    <3>2. \A t \in Slots : slot[t] # Idle => slot[t].msg # m
      BY <2>3, <3>1 DEF QueuedInv, IdsFresh
    <3> QED BY <1>3, <1>6, <2>2, <2>3, <3>2, SlotMoves DEF Unwritten
  <2> QED BY <1>6, <2>1, <2>2, <2>3 DEF Job
<1>7. ASSUME NEW j \in Registered, rows'[j].status = "QUEUED",
             j \notin dropped', InReady(j)
      PROVE  Backed(j)'
  <2>1. j \in Jobs
    BY TaskQueueAssumption
  <2>2. CASE Deliver(s) /\ Head(ready).job = j
    <3>1. slot'[s].msg = Head(ready) /\ Take(s)
      BY <2>2 DEF Deliver, Occupy, Take, TypeOK
    <3> QED BY <1>6, <2>2, <3>1 DEF Backed
  <2>3. CASE Deliver(s) /\ Head(ready).job # j
    BY <1>7, <2>1, <2>3, ConsumeKeepsReady DEF Deliver, Backed
  <2>4. CASE RequeueMessage(s) /\ B!Requeue(slot[s].msg)
    <3>1. slot[s].msg \in B!Message
      BY <2>4, SlotEnds, SlotFacts
    <3>2. [id |-> nextId, job |-> slot[s].msg.job] \in B!Message
      BY <3>1 DEF B!Message, TypeOK, B!TypeOK
    <3>3. InReady(j)'
      BY <1>7, <2>1, <2>4, <3>1, <3>2, AppendKeepsReady
         DEF B!Requeue, B!Enqueue
    <3> QED BY <3>3 DEF Backed
  <2>5. CASE UNCHANGED <<ready, nextId>>
    BY <1>7, <2>5 DEF InReady, Backed
  <2> QED BY <2>2, <2>3, <2>4, <2>5, SlotMoves
<1>8. ASSUME NEW j \in Registered, rows'[j].status = "QUEUED",
             j \notin dropped', AtLeastOnce,
             NEW m \in pending, m.job = j, Unwritten(m)
      PROVE  m \in pending' /\ Unwritten(m)'
  <2>1. ASSUME slot[s] # Idle, slot[s].msg = m
        PROVE  /\ WillSave(s) /\ Job(s) = j
               /\ \/ slot'[s] = Idle /\ Crash(s)
                  \/ slot'[s] # Idle /\ slot'[s].msg = m /\ WillSave(s)'
    <3>1. WillSave(s) /\ Job(s) = j
      BY <1>8, <2>1 DEF Unwritten, Job
    <3> QED BY <1>1, <1>8, <2>1, <3>1, WillSaveKept
  <2>2. m \in pending'
    <3>1. ASSUME m = slot[s].msg, Reject(s) \/ LoadFails(s) \/ AckMessage(s)
          PROVE  FALSE
      <4>1. slot[s] # Idle /\ slot'[s] = Idle
        BY <3>1, SlotEnds
      <4>2. ~Crash(s)
        BY <2>1, <3>1, <4>1, <1>8 DEF Reject, LoadFails, AckMessage, WillSave
      <4> QED BY <2>1, <3>1, <4>1, <4>2
    <3> QED BY <3>1, SlotMoves
  <2>3. ASSUME slot'[s] # Idle, slot'[s].msg = m
        PROVE  WillSave(s)'
    <3>1. CASE Take(s)
      <4>1. slot'[s].pc = "received"
        BY <3>1, TakeReceives
      <4> QED BY <4>1 DEF WillSave
    <3>2. CASE ~Take(s)
      <4>1. slot[s] # Idle /\ slot[s].msg = m
        BY <2>3, <3>2, SlotGoesOn, SlotEnds DEF AllSlotSteps, Execute
      <4> QED BY <2>1, <2>3, <4>1
    <3> QED BY <3>1, <3>2
  <2> QED BY <1>3, <1>4, <1>8, <2>2, <2>3 DEF Unwritten
<1>9. ASSUME NEW j \in Registered, rows'[j].status = "QUEUED",
             j \notin dropped', ~AtLeastOnce,
             NEW t \in Slots, slot[t] # Idle, Job(t) = j, WillSave(t)
      PROVE  slot'[t] # Idle /\ Job(t)' = j /\ WillSave(t)'
  <2>1. CASE t # s
    BY <1>3, <1>4, <1>9, <2>1 DEF Job
  <2>2. CASE t = s
    <3>1. ~Crash(s)
      BY <1>9 DEF Crash
    <3> QED BY <1>1, <1>9, <2>2, <3>1, WillSaveKept DEF Job
  <2> QED BY <2>1, <2>2
<1>10. ASSUME NEW j \in Registered, rows'[j].status = "QUEUED"
       PROVE  Backed(j)'
  <2>1. j \in Jobs
    BY TaskQueueAssumption
  <2>2. Backed(j)
    BY <1>5, <1>10, <2>1 DEF QueuedInv
  <2>3. Publishing(j) => Publishing(j)'
    BY <1>3 DEF Publishing
  <2>4. CASE j \in dropped'
    BY <2>4 DEF Backed
  <2>5. CASE j \notin dropped' /\ AtLeastOnce /\ \E m \in pending : m.job = j /\ Unwritten(m)
    BY <1>8, <1>10, <2>5 DEF Backed
  <2>6. CASE /\ j \notin dropped' /\ ~AtLeastOnce
             /\ \E t \in Slots : slot[t] # Idle /\ Job(t) = j /\ WillSave(t)
    BY <1>9, <1>10, <2>6 DEF Backed
  <2>7. CASE j \notin dropped' /\ (j \in dropped \/ Publishing(j) \/ InReady(j))
    BY <1>3, <1>7, <1>10, <2>3, <2>7 DEF Backed
  <2> QED BY <2>2, <2>4, <2>5, <2>6, <2>7 DEF Backed
<1> QED BY <1>1, <1>2, <1>10 DEF QueuedInv

(***************************************************************************)
(* One call of the store or the broker may fail, anywhere, and workers may *)
(* be killed: a row that says QUEUED has a message to come, or the request *)
(* that wrote it has still to publish, or a failed call dropped the job.   *)
(* An execution writes its row twice before it acknowledges, so one failed *)
(* save cannot leave a QUEUED row behind.                                  *)
(***************************************************************************)
THEOREM QueuedCorrect ==
  ASSUME Budget["fault"] <= 1
  PROVE  Spec => []QueuedIsBacked
<1>1. Init => QueuedInv
  <2>1. Init => ready = <<>> /\ pending = {} /\ \A s \in Slots : slot[s] = Idle
    BY DEF Init, B!Init
  <2>2. Init => \A j \in Jobs : rows[j] = S!NoRow
    BY DEF Init, S!Init
  <2>3. S!NoRow.status # "QUEUED"
    BY DEF S!NoRow
  <2> QED BY <2>1, <2>2, <2>3, TaskQueueAssumption
          DEF Init, QueuedInv, IdsFresh
<1>2. TypeOK /\ BurialInv /\ QueuedInv /\ [Next]_vars => QueuedInv'
  <2>1. CASE UNCHANGED vars
    BY <2>1 DEF vars, storeVars, brokerVars, envVars, QueuedInv, IdsFresh,
       Backed, Unwritten, WillSave, Publishing, InReady, Job
  <2> QED BY <2>1, RequestKeepsQueued, SlotKeepsQueued
          DEF Next, AllSlotSteps, BurialInv
<1>3. QueuedInv => QueuedIsBacked
  BY DEF QueuedInv, QueuedIsBacked, Backed, Owed, InPending, Held
<1> QED BY <1>1, <1>2, <1>3, TypeCorrect, DecisionsCorrect, PTL DEF Spec
=============================================================================
