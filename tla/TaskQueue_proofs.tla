-------------------------- MODULE TaskQueue_proofs --------------------------
(***************************************************************************)
(* What TaskQueue guarantees for every number of jobs, slots and clients,  *)
(* for either broker and store, and for every budget of failures.          *)
(***************************************************************************)
EXTENDS TaskQueue, TLAPS

-----------------------------------------------------------------------------
(* Types. *)

LEMMA InitTypeOK == Init => TypeOK
BY TaskQueueAssumption
   DEF Init, TypeOK, S!Init, S!TypeOK, S!NoRow, B!Init, B!TypeOK, B!Message,
       BudgetKind

(* A call of the store or the broker, made or lost, keeps the types of what *)
(* it writes.                                                               *)
LEMMA SpendType ==
  ASSUME TypeOK, NEW k \in BudgetKind, Spend(k)
  PROVE  budget' \in [BudgetKind -> Nat]
BY DEF TypeOK, Spend

LEMMA SaveType ==
  ASSUME TypeOK, NEW j \in Jobs, NEW row \in S!Row, Save(j, row)
  PROVE  S!TypeOK' /\ budget' \in [BudgetKind -> Nat]
<1>1. CASE S!UpdateJob(j, row) /\ UNCHANGED budget
  BY <1>1 DEF TypeOK, S!TypeOK, S!UpdateJob
<1>2. CASE Fault /\ UNCHANGED storeVars
  BY <1>2, SpendType DEF TypeOK, S!TypeOK, Fault, storeVars, BudgetKind
<1> QED BY <1>1, <1>2 DEF Save

LEMMA LogType ==
  ASSUME TypeOK, NEW j \in Jobs, NEW kind \in S!LogKind, Log(j, kind)
  PROVE  S!TypeOK' /\ budget' \in [BudgetKind -> Nat]
<1>1. CASE S!AppendJobLog(j, kind) /\ UNCHANGED budget
  BY <1>1 DEF TypeOK, S!TypeOK, S!AppendJobLog
<1>2. CASE Fault /\ UNCHANGED storeVars
  BY <1>2, SpendType DEF TypeOK, S!TypeOK, Fault, storeVars, BudgetKind
<1> QED BY <1>1, <1>2 DEF Log

LEMMA AckType ==
  ASSUME TypeOK, NEW m, Acknowledge(m)
  PROVE  B!TypeOK' /\ budget' \in [BudgetKind -> Nat]
<1>1. CASE B!Ack(m) /\ UNCHANGED budget
  BY <1>1 DEF TypeOK, B!TypeOK, B!Ack
<1>2. CASE Fault /\ UNCHANGED brokerVars
  BY <1>2, SpendType DEF TypeOK, B!TypeOK, Fault, brokerVars, BudgetKind
<1> QED BY <1>1, <1>2 DEF Acknowledge

LEMMA EnqueueType ==
  ASSUME TypeOK, NEW j \in Jobs, B!Enqueue(j)
  PROVE  B!TypeOK'
BY DEF TypeOK, B!TypeOK, B!Enqueue, B!Message

LEMMA RequeueType ==
  ASSUME TypeOK, NEW m \in B!Message, B!Requeue(m)
  PROVE  B!TypeOK'
<1>1. CASE B!Enqueue(m.job)
  BY <1>1, EnqueueType DEF B!Message
<1>2. CASE ready' = Append(ready, m) /\ UNCHANGED <<pending, dead, nextId>>
  BY <1>2 DEF TypeOK, B!TypeOK
<1> QED BY <1>1, <1>2 DEF B!Requeue

LEMMA BuryType ==
  ASSUME TypeOK, NEW m, m.job \in Jobs, B!SendToDeadLetter(m)
  PROVE  B!TypeOK'
BY DEF TypeOK, B!TypeOK, B!SendToDeadLetter

LEMMA ConsumeType ==
  ASSUME TypeOK, B!Consume(1)
  PROVE  B!TypeOK' /\ Head(ready) \in B!Message
BY DEF TypeOK, B!TypeOK, B!Consume

(* The step of a client, or of an execution, to another pc of its own kind. *)
LEMMA ReplyType ==
  ASSUME TypeOK, NEW c \in Clients, Reply(c)
  PROVE  req' \in [Clients -> Request \cup {NoRequest}]
BY DEF TypeOK, Reply

LEMMA AskType ==
  ASSUME TypeOK, NEW c \in Clients, req[c].pc \in RequestPC,
         NEW pc \in RequestPC, Ask(c, pc)
  PROVE  req' \in [Clients -> Request \cup {NoRequest}]
BY DEF TypeOK, Ask, Request, NoRequest, RequestPC

LEMMA FreeType ==
  ASSUME TypeOK, NEW s \in Slots, Free(s)
  PROVE  slot' \in [Slots -> Execution \cup {Idle}]
BY DEF TypeOK, Free

LEMMA BusyType ==
  ASSUME TypeOK, NEW s \in Slots, slot[s].pc # "idle"
  PROVE  slot[s] \in Execution /\ Job(s) \in Jobs
BY DEF TypeOK, Idle, Execution, Job, B!Message

LEMMA StepType ==
  ASSUME TypeOK, NEW s \in Slots, slot[s].pc \in RunPC,
         NEW pc \in RunPC, Step(s, pc)
  PROVE  slot' \in [Slots -> Execution \cup {Idle}]
<1>1. slot[s] \in [pc : RunPC, msg : B!Message, row : S!Row]
  BY BusyType
     DEF Execution, RunPC, BeforePC, SuccessPC, FailurePC
<1>2. [slot[s] EXCEPT !.pc = pc] \in [pc : RunPC, msg : B!Message, row : S!Row]
  BY <1>1
<1> QED BY <1>2 DEF TypeOK, Step, Execution

LEMMA OccupyType ==
  ASSUME TypeOK, NEW s \in Slots, NEW m \in B!Message, Occupy(s, m)
  PROVE  slot' \in [Slots -> Execution \cup {Idle}]
BY DEF TypeOK, Occupy, Execution, BeforePC

LEMMA RowType ==
  ASSUME NEW row \in S!Row \cup {S!NoRow}, NEW st \in S!Status,
         NEW err \in S!Reason
  PROVE  /\ [row EXCEPT !.status = st] \in S!Row
         /\ [row EXCEPT !.status = st, !.error = err] \in S!Row
         /\ FailedRow(row) \in S!Row
<1>1. "none" \in S!Reason /\ "failure" \in S!Reason
      /\ "RETRYING" \in S!Status /\ "FAILED" \in S!Status
  BY DEF S!Reason, S!Status
<1>2. row.attempts \in Nat
  BY DEF S!Row, S!NoRow
<1>3. /\ [row EXCEPT !.status = st] \in S!Row
      /\ [row EXCEPT !.status = st, !.error = err] \in S!Row
  <2>1. CASE row \in S!Row
    BY <2>1 DEF S!Row
  <2>2. CASE row = S!NoRow
    BY <1>1, <2>2 DEF S!Row, S!NoRow
  <2> QED BY <2>1, <2>2
<1>4. FailedRow(row) \in S!Row
  BY <1>1, <1>2 DEF S!Row, FailedRow
<1> QED BY <1>3, <1>4

LEMMA RequestTypeOK ==
  ASSUME TypeOK, NEW c \in Clients, BeginRequest(c) \/ ServeRequest(c)
  PROVE  TypeOK'
<1> USE DEF storeVars, brokerVars, envVars
<1>1. ASSUME NEW j \in Jobs, BeginCreate(c, j) PROVE TypeOK'
  BY <1>1 DEF BeginCreate, TypeOK, S!TypeOK, B!TypeOK, Request, RequestPC
<1>2. ASSUME NEW j \in Jobs, NEW pc \in {"cancel", "retry"},
             NEW st \in S!Status, Read(c, j, pc, st)
      PROVE  TypeOK'
  <2>1. budget' \in [BudgetKind -> Nat]
    BY <1>2, SpendType DEF Read, BudgetKind
  <2>2. req' \in [Clients -> Request \cup {NoRequest}]
    BY <1>2 DEF Read, TypeOK, S!TypeOK, Request, RequestPC
  <2> QED BY <1>2, <2>1, <2>2 DEF Read, TypeOK, S!TypeOK, B!TypeOK
<1>3. ASSUME NEW pc \in RequestPC, req[c].pc = pc
      PROVE  req[c] \in Request /\ req[c].job \in Jobs
             /\ req[c].row \in S!Row \cup {S!NoRow}
  BY <1>3 DEF TypeOK, Request, NoRequest, RequestPC
<1>4. Fault => budget' \in [BudgetKind -> Nat]
  BY SpendType DEF Fault, BudgetKind
<1>5. CASE Lookup(c)
  <2>1. req' \in [Clients -> Request \cup {NoRequest}]
    BY <1>5, ReplyType, AskType DEF Lookup, RequestPC
  <2>2. answered' \subseteq Jobs /\ budget' \in [BudgetKind -> Nat]
    BY <1>4, <1>5 DEF Lookup, TypeOK, S!SameKey
  <2> QED BY <1>5, <2>1, <2>2 DEF Lookup, TypeOK, S!TypeOK, B!TypeOK
<1>6. CASE Insert(c)
  <2>1. req' \in [Clients -> Request \cup {NoRequest}]
    BY <1>6, ReplyType, AskType DEF Insert, RequestPC
  <2>2. S!NewRow \in S!Row
    BY DEF S!NewRow, S!Row, S!Status, S!Reason
  <2>3. S!TypeOK' /\ budget' \in [BudgetKind -> Nat]
    BY <1>4, <1>6, <2>2 DEF Insert, S!CreateJob, TypeOK, S!TypeOK
  <2> QED BY <1>6, <2>1, <2>3 DEF Insert, TypeOK, B!TypeOK
<1>7. CASE Enqueue(c)
  <2>1. req' \in [Clients -> Request \cup {NoRequest}]
    BY <1>7, ReplyType DEF Enqueue
  <2>2. req[c].job \in Jobs
    BY <1>3, <1>7 DEF Enqueue, RequestPC
  <2>3. B!TypeOK' /\ budget' \in [BudgetKind -> Nat]
    BY <1>4, <1>7, <2>2, EnqueueType DEF Enqueue, TypeOK, B!TypeOK
  <2>4. answered' \subseteq Jobs /\ dropped' \subseteq Jobs
    BY <1>7, <2>2 DEF Enqueue, TypeOK
  <2> QED BY <1>7, <2>1, <2>3, <2>4 DEF Enqueue, TypeOK, S!TypeOK
<1>8. CASE CancelJob(c)
  <2>1. req' \in [Clients -> Request \cup {NoRequest}]
    BY <1>8, ReplyType DEF CancelJob
  <2>2. req[c].job \in Jobs /\ req[c].row \in S!Row \cup {S!NoRow}
    BY <1>3, <1>8 DEF CancelJob, RequestPC
  <2>3. [req[c].row EXCEPT !.status = "FAILED", !.error = "cancelled"]
          \in S!Row
    BY <2>2, RowType DEF S!Status, S!Reason
  <2>4. S!TypeOK' /\ budget' \in [BudgetKind -> Nat]
    BY <1>8, <2>2, <2>3, SaveType DEF CancelJob
  <2> QED BY <1>8, <2>1, <2>4 DEF CancelJob, TypeOK, B!TypeOK
<1>9. CASE RetryJob(c)
  <2>1. req' \in [Clients -> Request \cup {NoRequest}]
    BY <1>9, ReplyType, AskType DEF RetryJob, RequestPC
  <2>2. S!NewRow \in S!Row
    BY DEF S!NewRow, S!Row, S!Status, S!Reason
  <2>3. S!TypeOK' /\ budget' \in [BudgetKind -> Nat]
    BY <1>4, <1>9, <2>2 DEF RetryJob, S!UpdateJob, TypeOK, S!TypeOK
  <2> QED BY <1>9, <2>1, <2>3 DEF RetryJob, TypeOK, B!TypeOK
<1>10. ASSUME NEW j \in Jobs, BeginCancel(c, j) \/ BeginRetry(c, j)
       PROVE  TypeOK'
  BY <1>2, <1>10 DEF BeginCancel, BeginRetry, S!Status
<1> QED BY <1>1, <1>5, <1>6, <1>7, <1>8, <1>9, <1>10
        DEF BeginRequest, ServeRequest

LEMMA SlotTypeOK ==
  ASSUME TypeOK, NEW s \in Slots, Take(s) \/ Execute(s) \/ Crash(s)
  PROVE  TypeOK'
<1> USE DEF storeVars, brokerVars, envVars
<1>0. slot[s].pc \in BeforePC
        => /\ slot[s] \in [pc : BeforePC, msg : B!Message,
                            row : S!Row \cup {S!NoRow}]
           /\ Job(s) \in Jobs
  BY DEF TypeOK, Idle, Execution, Job, B!Message,
         RunPC, BeforePC, SuccessPC, FailurePC
<1>1. slot[s].pc \in RunPC
        => /\ slot[s] \in [pc : RunPC, msg : B!Message, row : S!Row]
           /\ Job(s) \in Jobs
  BY DEF TypeOK, Idle, Execution, Job, B!Message,
         RunPC, BeforePC, SuccessPC, FailurePC
<1>2. Fault \/ Spend("fail") \/ Spend("crash")
        => budget' \in [BudgetKind -> Nat]
  BY SpendType DEF Fault, BudgetKind
<1>3. CASE Deliver(s)
  BY <1>3, ConsumeType, OccupyType DEF Deliver, TypeOK, S!TypeOK
<1>4. CASE \E m \in pending : Reclaim(s, m)
  <2>1. PICK m \in pending : Reclaim(s, m)
    BY <1>4
  <2>2. m \in B!Message
    BY DEF TypeOK, B!TypeOK
  <2> QED BY <2>1, <2>2, OccupyType
          DEF Reclaim, B!Reclaim, TypeOK, S!TypeOK, B!TypeOK
<1>5. CASE Reject(s)
  BY <1>5, AckType, FreeType DEF Reject, TypeOK, S!TypeOK
<1>6. CASE Load(s)
  <2>1. /\ slot[s] \in [pc : BeforePC, msg : B!Message,
                        row : S!Row \cup {S!NoRow}]
        /\ Job(s) \in Jobs
    BY <1>0, <1>6 DEF Load, BeforePC
  <2>2. rows[Job(s)] \in S!Row \cup {S!NoRow}
    BY <2>1 DEF TypeOK, S!TypeOK
  <2>3. slot' \in [Slots -> Execution \cup {Idle}]
    BY <1>6, <2>1, <2>2 DEF Load, TypeOK, Execution, BeforePC
  <2> QED BY <1>6, <2>3 DEF Load, TypeOK, S!TypeOK, B!TypeOK
<1>7. CASE LoadFails(s)
  <2>1. Job(s) \in Jobs
    BY <1>0, <1>7 DEF LoadFails, BeforePC
  <2>2. B!TypeOK'
    BY <1>7 DEF LoadFails, B!Ack, TypeOK, B!TypeOK
  <2> QED BY <1>2, <1>7, <2>1, <2>2, FreeType
          DEF LoadFails, TypeOK, S!TypeOK
<1>8. CASE MarkRunning(s)
  <2> DEFINE row == [slot[s].row EXCEPT !.status = "RUNNING"]
  <2>1. /\ slot[s] \in [pc : BeforePC, msg : B!Message,
                        row : S!Row \cup {S!NoRow}]
        /\ Job(s) \in Jobs
    BY <1>0, <1>8 DEF MarkRunning, BeforePC
  <2>2. row \in S!Row
    BY <2>1, RowType DEF S!Status, S!Reason
  <2>3. Save(Job(s), row)
        /\ slot' = [slot EXCEPT ![s].pc = "logStart", ![s].row = row]
    BY <1>8 DEF MarkRunning
  <2> HIDE DEF row
  <2>4. S!TypeOK' /\ budget' \in [BudgetKind -> Nat]
    BY <2>1, <2>2, <2>3, SaveType
  <2>5. slot' \in [Slots -> Execution \cup {Idle}]
    BY <2>1, <2>2, <2>3 DEF TypeOK, Execution, RunPC
  <2> QED BY <1>8, <2>4, <2>5 DEF MarkRunning, TypeOK, B!TypeOK
<1>9. CASE LogStart(s)
  <2>1. S!TypeOK' /\ budget' \in [BudgetKind -> Nat]
    BY <1>1, <1>9, LogType DEF LogStart, S!LogKind, RunPC
  <2> QED BY <1>9, <2>1, StepType DEF LogStart, TypeOK, B!TypeOK, RunPC
<1>10. CASE HandlerSucceeds(s)
  <2>1. /\ slot[s] \in [pc : RunPC, msg : B!Message, row : S!Row]
        /\ Job(s) \in Jobs
    BY <1>1, <1>10 DEF HandlerSucceeds, RunPC
  <2>2. [slot[s].row EXCEPT !.status = "SUCCEEDED"] \in S!Row
    BY <2>1, RowType DEF S!Status, S!Reason
  <2>3. slot' \in [Slots -> Execution \cup {Idle}]
    BY <1>10, <2>1, <2>2
       DEF HandlerSucceeds, TypeOK, Execution, RunPC, SuccessPC
  <2>4. effects' \in [Jobs -> Nat]
    BY <1>10, <2>1 DEF HandlerSucceeds, TypeOK
  <2> QED BY <1>10, <2>3, <2>4
          DEF HandlerSucceeds, TypeOK, S!TypeOK, B!TypeOK
<1>11. CASE HandlerFails(s)
  <2>1. /\ slot[s] \in [pc : RunPC, msg : B!Message, row : S!Row]
        /\ Job(s) \in Jobs
    BY <1>1, <1>11 DEF HandlerFails, RunPC
  <2>2. FailedRow(slot[s].row) \in S!Row
    BY <2>1, RowType DEF S!Status, S!Reason
  <2>3. slot' \in [Slots -> Execution \cup {Idle}]
    BY <1>11, <2>1, <2>2
       DEF HandlerFails, TypeOK, Execution, RunPC, FailurePC
  <2>4. fails' \in [Jobs -> Nat]
    BY <1>11, <2>1 DEF HandlerFails, TypeOK
  <2>5. budget' \in [BudgetKind -> Nat]
    BY <1>2, <1>11 DEF HandlerFails
  <2> QED BY <1>11, <2>3, <2>4, <2>5
          DEF HandlerFails, TypeOK, S!TypeOK, B!TypeOK
<1>12. CASE SaveOutcome(s)
  <2>1. S!TypeOK' /\ budget' \in [BudgetKind -> Nat]
    BY <1>1, <1>12, SaveType
       DEF SaveOutcome, RunPC, SuccessPC, FailurePC
  <2>2. slot' \in [Slots -> Execution \cup {Idle}]
    BY <1>12, StepType DEF SaveOutcome, RunPC, SuccessPC, FailurePC
  <2> QED BY <1>12, <2>1, <2>2 DEF SaveOutcome, TypeOK, B!TypeOK
<1>13. CASE LogSuccess(s)
  <2>1. S!TypeOK' /\ budget' \in [BudgetKind -> Nat]
    BY <1>1, <1>13, LogType DEF LogSuccess, S!LogKind, RunPC, SuccessPC
  <2> QED BY <1>13, <2>1, StepType
          DEF LogSuccess, TypeOK, B!TypeOK, RunPC, SuccessPC
<1>14. CASE AckMessage(s)
  BY <1>14, AckType, FreeType DEF AckMessage, TypeOK, S!TypeOK
<1>15. CASE LogFailure(s)
  <2>1. S!TypeOK' /\ budget' \in [BudgetKind -> Nat]
    BY <1>1, <1>15, LogType DEF LogFailure, S!LogKind, RunPC, FailurePC
  <2> QED BY <1>15, <2>1, StepType
          DEF LogFailure, TypeOK, B!TypeOK, RunPC, FailurePC
<1>16. CASE RequeueMessage(s)
  <2>1. Job(s) \in Jobs /\ slot[s].msg \in B!Message
    BY <1>1, <1>16 DEF RequeueMessage, RunPC, FailurePC
  <2>2. B!Requeue(slot[s].msg) => B!TypeOK'
    BY <2>1, RequeueType
  <2>3. B!TypeOK' /\ budget' \in [BudgetKind -> Nat] /\ dropped' \subseteq Jobs
    BY <1>2, <1>16, <2>1, <2>2 DEF RequeueMessage, TypeOK, B!TypeOK
  <2> QED BY <1>16, <2>3, FreeType DEF RequeueMessage, TypeOK, S!TypeOK
<1>17. CASE BuryMessage(s)
  <2>1. Job(s) \in Jobs
    BY <1>1, <1>17 DEF BuryMessage, RunPC, FailurePC
  <2>2. B!SendToDeadLetter(slot[s].msg) => B!TypeOK'
    BY <2>1, BuryType DEF Job
  <2>3. B!TypeOK' /\ budget' \in [BudgetKind -> Nat]
    BY <1>2, <1>17, <2>2 DEF BuryMessage, TypeOK, B!TypeOK
  <2> QED BY <1>17, <2>3, FreeType DEF BuryMessage, TypeOK, S!TypeOK
<1>18. CASE Crash(s)
  BY <1>2, <1>18, FreeType DEF Crash, TypeOK, S!TypeOK, B!TypeOK
<1> QED BY <1>3, <1>4, <1>5, <1>6, <1>7, <1>8, <1>9, <1>10, <1>11, <1>12,
           <1>13, <1>14, <1>15, <1>16, <1>17, <1>18 DEF Take, Execute

(* Every variable keeps its type. *)
THEOREM TypeCorrect == Spec => []TypeOK
<1>1. TypeOK /\ [Next]_vars => TypeOK'
  <2>1. CASE UNCHANGED vars
    BY <2>1 DEF vars, storeVars, brokerVars, envVars,
                TypeOK, S!TypeOK, B!TypeOK
  <2> QED BY <2>1, RequestTypeOK, SlotTypeOK DEF Next
<1> QED BY <1>1, InitTypeOK, PTL DEF Spec

-----------------------------------------------------------------------------
(* Attempts are never counted without a failure. *)

(* A write of a counted row, made or lost, keeps the rows counted. *)
LEMMA SaveCounted ==
  ASSUME TypeOK, RowsCounted, UNCHANGED fails,
         NEW j \in Jobs, NEW row \in S!Row, row.attempts <= fails[j],
         Save(j, row)
  PROVE  RowsCounted'
BY DEF TypeOK, S!TypeOK, Save, S!UpdateJob, storeVars, RowsCounted

(* An execution that no step touches stays counted while failures grow. *)
LEMMA OthersCounted ==
  ASSUME TypeOK, AttemptsNeverOvercount,
         \A j \in Jobs : fails'[j] \in Nat /\ fails[j] <= fails'[j]
  PROVE  /\ \A s \in Slots : slot'[s] = slot[s] => SlotCounted(s)'
         /\ \A c \in Clients : req'[c] = req[c] => RequestCounted(c)'
         /\ UNCHANGED rows => RowsCounted'
<1>1. ASSUME NEW s \in Slots, slot'[s] = slot[s]
      PROVE  SlotCounted(s)'
  <2>1. CASE slot[s] = Idle
    BY <1>1, <2>1 DEF SlotCounted
  <2>2. CASE slot[s] # Idle
    <3>1. slot[s] \in Execution /\ Job(s) \in Jobs
          /\ slot[s].row.attempts \in Nat
      BY <2>2 DEF TypeOK, Execution, Job, B!Message, S!Row, S!NoRow
    <3>2. slot[s].row.attempts <= fails[Job(s)] /\ fails[Job(s)] \in Nat
      BY <2>2, <3>1 DEF AttemptsNeverOvercount, SlotCounted, TypeOK
    <3> QED BY <1>1, <3>1, <3>2 DEF SlotCounted, Job
  <2> QED BY <2>1, <2>2
<1>2. ASSUME NEW c \in Clients, req'[c] = req[c]
      PROVE  RequestCounted(c)'
  <2>1. CASE req[c] = NoRequest
    BY <1>2, <2>1 DEF RequestCounted
  <2>2. CASE req[c] # NoRequest
    <3>1. req[c].job \in Jobs /\ req[c].row.attempts \in Nat
      BY <2>2 DEF TypeOK, Request, S!Row, S!NoRow
    <3>2. req[c].row.attempts <= fails[req[c].job] /\ fails[req[c].job] \in Nat
      BY <2>2, <3>1 DEF AttemptsNeverOvercount, RequestCounted, TypeOK
    <3> QED BY <1>2, <3>1, <3>2 DEF RequestCounted
  <2> QED BY <2>1, <2>2
<1>3. ASSUME UNCHANGED rows
      PROVE  RowsCounted'
  <2>1. \A j \in Jobs : rows[j].attempts \in Nat /\ fails[j] \in Nat
    BY DEF TypeOK, S!TypeOK, S!Row, S!NoRow
  <2> QED BY <1>3, <2>1 DEF AttemptsNeverOvercount, RowsCounted
<1> QED BY <1>1, <1>2, <1>3

LEMMA RequestKeepsCounts ==
  ASSUME TypeOK, AttemptsNeverOvercount,
         NEW c \in Clients, BeginRequest(c) \/ ServeRequest(c)
  PROVE  AttemptsNeverOvercount'
<1>1. /\ UNCHANGED <<slot, fails>>
      /\ \A d \in Clients : d # c => req'[d] = req[d]
  BY DEF BeginRequest, BeginCreate, BeginCancel, BeginRetry, Read,
         ServeRequest, Lookup, Insert, Enqueue, CancelJob, RetryJob,
         Ask, Reply, envVars, TypeOK
<1>2. \A j \in Jobs : fails[j] \in Nat
  BY DEF TypeOK
<1>3. /\ \A s \in Slots : SlotCounted(s)'
      /\ \A d \in Clients : req'[d] = req[d] => RequestCounted(d)'
      /\ UNCHANGED rows => RowsCounted'
  BY <1>1, <1>2, OthersCounted
<1>4. SUFFICES RowsCounted' /\ RequestCounted(c)'
  BY <1>1, <1>3 DEF AttemptsNeverOvercount
<1>5. req'[c] = NoRequest => RequestCounted(c)'
  BY DEF RequestCounted
<1>6. \A pc \in RequestPC :
        req[c].pc = pc => /\ req[c] # NoRequest /\ req[c] \in Request
                          /\ req[c].job \in Jobs
                          /\ req[c].row \in S!Row \cup {S!NoRow}
                          /\ req[c].row.attempts \in Nat
                          /\ req[c].row.attempts <= fails[req[c].job]
  BY DEF AttemptsNeverOvercount, RequestCounted, TypeOK, Request,
         NoRequest, RequestPC, S!Row, S!NoRow
<1>7. ASSUME NEW pc \in RequestPC, req[c].pc \in RequestPC, Ask(c, pc)
      PROVE  RequestCounted(c)'
  <2>1. req'[c].row = req[c].row /\ req'[c].job = req[c].job
    BY <1>6, <1>7 DEF Ask, TypeOK, Request
  <2> QED BY <1>1, <1>6, <1>7, <2>1 DEF RequestCounted
<1>8. ASSUME NEW j \in Jobs, rows'[j] = S!NewRow,
             \A i \in Jobs : i # j => rows'[i] = rows[i]
      PROVE  RowsCounted'
  BY <1>1, <1>2, <1>8
     DEF AttemptsNeverOvercount, RowsCounted, S!NewRow
<1>9. ASSUME NEW j \in Jobs, BeginCreate(c, j)
      PROVE  RowsCounted' /\ RequestCounted(c)'
  BY <1>1, <1>2, <1>3, <1>9
     DEF BeginCreate, RequestCounted, storeVars, S!NoRow, TypeOK
<1>10. ASSUME NEW j \in Jobs, BeginCancel(c, j) \/ BeginRetry(c, j)
       PROVE  RowsCounted' /\ RequestCounted(c)'
  BY <1>1, <1>3, <1>10
     DEF BeginCancel, BeginRetry, Read, AttemptsNeverOvercount, RowsCounted,
         RequestCounted, storeVars, TypeOK
<1>11. CASE Lookup(c)
  BY <1>3, <1>5, <1>7, <1>11
     DEF Lookup, Reply, storeVars, TypeOK, RequestPC
<1>12. CASE Insert(c)
  <2>1. S!CreateJob(req[c].job) => RowsCounted'
    BY <1>6, <1>8, <1>12 DEF Insert, S!CreateJob, TypeOK, S!TypeOK, RequestPC
  <2> QED BY <1>3, <1>5, <1>7, <1>12, <2>1
          DEF Insert, Reply, storeVars, TypeOK, RequestPC
<1>13. CASE Enqueue(c)
  BY <1>3, <1>5, <1>13 DEF Enqueue, Reply, storeVars, TypeOK
<1>14. CASE CancelJob(c)
  <2> DEFINE row == [req[c].row EXCEPT !.status = "FAILED",
                                       !.error = "cancelled"]
  <2>1. req[c].job \in Jobs /\ req[c].row \in S!Row \cup {S!NoRow}
        /\ req[c].row.attempts <= fails[req[c].job]
    BY <1>6, <1>14 DEF CancelJob, RequestPC
  <2>2. row \in S!Row
    BY <2>1, RowType DEF S!Status, S!Reason
  <2>3. row.attempts = req[c].row.attempts
    BY <2>1 DEF S!Row, S!NoRow
  <2>4. RowsCounted'
    BY <1>1, <1>14, <2>1, <2>2, <2>3, SaveCounted
       DEF CancelJob, AttemptsNeverOvercount
  <2> QED BY <1>5, <1>14, <2>4 DEF CancelJob, Reply, TypeOK
<1>15. CASE RetryJob(c)
  <2>1. S!UpdateJob(req[c].job, S!NewRow) => RowsCounted'
    BY <1>6, <1>8, <1>15 DEF RetryJob, S!UpdateJob, TypeOK, S!TypeOK, RequestPC
  <2> QED BY <1>3, <1>5, <1>7, <1>15, <2>1
          DEF RetryJob, Reply, storeVars, TypeOK, RequestPC
<1> QED BY <1>9, <1>10, <1>11, <1>12, <1>13, <1>14, <1>15
        DEF BeginRequest, ServeRequest

LEMMA SlotKeepsCounts ==
  ASSUME TypeOK, AttemptsNeverOvercount,
         NEW s \in Slots, Take(s) \/ Execute(s) \/ Crash(s)
  PROVE  AttemptsNeverOvercount'
<1>0. \A m : Reclaim(s, m) => UNCHANGED <<req, fails, rows>>
  BY DEF Reclaim, envVars, storeVars
<1>1. /\ UNCHANGED req
      /\ \A t \in Slots : t # s => slot'[t] = slot[t]
      /\ ~HandlerFails(s) => UNCHANGED fails
  BY DEF Take, Deliver, Reclaim, Occupy, Execute, Crash, Reject, Load,
         LoadFails, MarkRunning, LogStart, HandlerSucceeds, HandlerFails,
         SaveOutcome, LogSuccess, AckMessage, LogFailure, RequeueMessage,
         BuryMessage, Step, Free, envVars, TypeOK
<1>2. slot[s].pc \in BeforePC
        => /\ slot[s] \in [pc : BeforePC, msg : B!Message,
                            row : S!Row \cup {S!NoRow}]
           /\ slot[s] # Idle /\ Job(s) \in Jobs
  BY DEF TypeOK, Idle, Execution, Job, B!Message,
         RunPC, BeforePC, SuccessPC, FailurePC
<1>3. slot[s].pc \in RunPC
        => /\ slot[s] \in [pc : RunPC, msg : B!Message, row : S!Row]
           /\ slot[s] # Idle /\ Job(s) \in Jobs
  BY DEF TypeOK, Idle, Execution, Job, B!Message,
         RunPC, BeforePC, SuccessPC, FailurePC
<1>4. \A j \in Jobs : fails[j] \in Nat /\ fails'[j] \in Nat
                      /\ fails[j] <= fails'[j]
  <2>1. CASE HandlerFails(s)
    BY <1>3, <2>1 DEF HandlerFails, TypeOK, RunPC
  <2> QED BY <1>1, <2>1 DEF TypeOK
<1>5. /\ \A t \in Slots : t # s => SlotCounted(t)'
      /\ \A c \in Clients : RequestCounted(c)'
      /\ UNCHANGED rows => RowsCounted'
      /\ slot'[s] = slot[s] => SlotCounted(s)'
  BY <1>1, <1>4, OthersCounted
<1>6. SUFFICES RowsCounted' /\ SlotCounted(s)'
  BY <1>5 DEF AttemptsNeverOvercount
<1>7. /\ Free(s) => SlotCounted(s)'
      /\ \A m \in B!Message : Occupy(s, m) => SlotCounted(s)'
  BY <1>4 DEF SlotCounted, Free, Occupy, Job, B!Message, S!NoRow, TypeOK
<1>8. ASSUME NEW pc \in RunPC, slot[s].pc \in RunPC, Step(s, pc),
             UNCHANGED fails
      PROVE  SlotCounted(s)'
  <2>1. slot'[s].row = slot[s].row /\ slot'[s].msg = slot[s].msg
    BY <1>3, <1>8 DEF Step, TypeOK
  <2>2. slot[s].row.attempts <= fails[Job(s)]
    BY <1>3, <1>8 DEF AttemptsNeverOvercount, SlotCounted
  <2> QED BY <1>8, <2>1, <2>2 DEF SlotCounted, Job
<1>9. CASE Deliver(s)
  BY <1>5, <1>7, <1>9, ConsumeType DEF Deliver, storeVars
<1>10. CASE \E m \in pending : Reclaim(s, m)
  BY <1>0, <1>5, <1>7, <1>10 DEF Reclaim, TypeOK, B!TypeOK
<1>11. CASE Reject(s) \/ LoadFails(s) \/ AckMessage(s) \/ RequeueMessage(s)
            \/ BuryMessage(s) \/ Crash(s)
  BY <1>5, <1>7, <1>11
     DEF Reject, LoadFails, AckMessage, RequeueMessage, BuryMessage, Crash,
         storeVars
<1>12. CASE Load(s)
  <2>1. /\ slot'[s].row = rows[Job(s)] /\ slot'[s].msg = slot[s].msg
        /\ Job(s) \in Jobs
    BY <1>2, <1>12 DEF Load, TypeOK, BeforePC
  <2>2. rows[Job(s)].attempts <= fails[Job(s)]
    BY <2>1 DEF AttemptsNeverOvercount, RowsCounted
  <2>3. UNCHANGED <<rows, fails>>
    BY <1>12 DEF Load, storeVars, envVars
  <2> QED BY <1>5, <2>1, <2>2, <2>3 DEF SlotCounted, Job
<1>13. CASE MarkRunning(s)
  <2> DEFINE row == [slot[s].row EXCEPT !.status = "RUNNING"]
  <2>1. /\ slot[s].row \in S!Row \cup {S!NoRow} /\ Job(s) \in Jobs
        /\ slot[s].row.attempts <= fails[Job(s)]
    BY <1>2, <1>13
       DEF MarkRunning, BeforePC, AttemptsNeverOvercount, SlotCounted
  <2>2. row \in S!Row
    BY <2>1, RowType DEF S!Status, S!Reason
  <2>3. row.attempts = slot[s].row.attempts
    BY <2>1 DEF S!Row, S!NoRow
  <2>4. Save(Job(s), row) /\ UNCHANGED fails
        /\ slot' = [slot EXCEPT ![s].pc = "logStart", ![s].row = row]
    BY <1>13 DEF MarkRunning, envVars
  <2> HIDE DEF row
  <2>5. RowsCounted'
    BY <2>1, <2>2, <2>3, <2>4, SaveCounted DEF AttemptsNeverOvercount
  <2>6. slot'[s].row = row /\ slot'[s].msg = slot[s].msg
    BY <1>2, <1>13, <2>4 DEF TypeOK, MarkRunning, BeforePC
  <2> QED BY <2>1, <2>3, <2>4, <2>5, <2>6 DEF SlotCounted, Job
<1>14. CASE LogStart(s) \/ LogSuccess(s) \/ LogFailure(s)
  <2>1. UNCHANGED <<rows, fails>>
    BY <1>14 DEF LogStart, LogSuccess, LogFailure, Log, S!AppendJobLog,
                 storeVars, envVars
  <2> QED BY <1>5, <1>8, <1>14, <2>1
          DEF LogStart, LogSuccess, LogFailure, RunPC, SuccessPC, FailurePC
<1>15. CASE HandlerSucceeds(s)
  <2>1. slot[s] \in [pc : RunPC, msg : B!Message, row : S!Row]
        /\ slot[s] # Idle /\ Job(s) \in Jobs
    BY <1>3, <1>15 DEF HandlerSucceeds, RunPC
  <2>2. /\ slot'[s].row.attempts = slot[s].row.attempts
        /\ slot'[s].msg = slot[s].msg
    BY <1>15, <2>1 DEF HandlerSucceeds, TypeOK, S!Row
  <2>3. slot[s].row.attempts <= fails[Job(s)]
    BY <2>1 DEF AttemptsNeverOvercount, SlotCounted
  <2>4. UNCHANGED <<rows, fails>>
    BY <1>15 DEF HandlerSucceeds, storeVars
  <2> QED BY <1>5, <2>2, <2>3, <2>4 DEF SlotCounted, Job
<1>16. CASE HandlerFails(s)
  <2>1. slot[s] \in [pc : RunPC, msg : B!Message, row : S!Row]
        /\ slot[s] # Idle /\ Job(s) \in Jobs
    BY <1>3, <1>16 DEF HandlerFails, RunPC
  <2>2. /\ slot'[s].row = FailedRow(slot[s].row)
        /\ slot'[s].msg = slot[s].msg
    BY <1>16, <2>1 DEF HandlerFails, TypeOK
  <2>3. /\ slot[s].row.attempts \in Nat
        /\ slot[s].row.attempts <= fails[Job(s)]
    BY <2>1 DEF AttemptsNeverOvercount, SlotCounted, S!Row
  <2>4. fails'[Job(s)] = fails[Job(s)] + 1
    BY <1>16, <2>1 DEF HandlerFails, TypeOK
  <2>5. slot'[s].row.attempts = slot[s].row.attempts + 1
    BY <2>2 DEF FailedRow
  <2>6. slot'[s].row.attempts <= fails'[Job(s)]
    BY <1>4, <2>1, <2>3, <2>4, <2>5
  <2>7. UNCHANGED rows
    BY <1>16 DEF HandlerFails, storeVars
  <2> QED BY <1>5, <2>2, <2>6, <2>7 DEF SlotCounted, Job
<1>17. CASE SaveOutcome(s)
  <2>1. slot[s].row \in S!Row /\ slot[s] # Idle /\ Job(s) \in Jobs
    BY <1>3, <1>17 DEF SaveOutcome, RunPC, SuccessPC, FailurePC
  <2>2. slot[s].row.attempts <= fails[Job(s)]
    BY <2>1 DEF AttemptsNeverOvercount, SlotCounted
  <2>3. UNCHANGED fails
    BY <1>17 DEF SaveOutcome, envVars
  <2>4. RowsCounted'
    BY <1>17, <2>1, <2>2, <2>3, SaveCounted
       DEF SaveOutcome, AttemptsNeverOvercount
  <2> QED BY <1>8, <1>17, <2>3, <2>4
          DEF SaveOutcome, RunPC, SuccessPC, FailurePC
<1> QED BY <1>9, <1>10, <1>11, <1>12, <1>13, <1>14, <1>15, <1>16, <1>17
        DEF Take, Execute

(***************************************************************************)
(* Rows and copies of rows never claim more attempts than the handler of   *)
(* their job failed, whatever executions, requests, crashes and lost calls *)
(* do to each other.                                                       *)
(***************************************************************************)
THEOREM AttemptsCorrect == Spec => []AttemptsNeverOvercount
<1>1. Init => AttemptsNeverOvercount
  BY DEF Init, S!Init, AttemptsNeverOvercount, RowsCounted, SlotCounted,
         RequestCounted, S!NoRow
<1>2. TypeOK /\ AttemptsNeverOvercount /\ [Next]_vars
        => AttemptsNeverOvercount'
  <2>1. CASE UNCHANGED vars
    BY <2>1 DEF vars, storeVars, envVars, AttemptsNeverOvercount,
                RowsCounted, SlotCounted, RequestCounted, Job
  <2> QED BY <2>1, RequestKeepsCounts, SlotKeepsCounts DEF Next
<1> QED BY <1>1, <1>2, TypeCorrect, PTL DEF Spec

-----------------------------------------------------------------------------
(* A job is given up only after max_attempts failures. *)

BurialInv == DecisionKept /\ NoEarlyBurial

LEMMA RequestKeepsBurial ==
  ASSUME TypeOK, BurialInv,
         NEW c \in Clients, BeginRequest(c) \/ ServeRequest(c)
  PROVE  BurialInv'
<1>1. UNCHANGED <<slot, fails, dead>>
  BY DEF BeginRequest, BeginCreate, BeginCancel, BeginRetry, Read,
         ServeRequest, Lookup, Insert, Enqueue, CancelJob, RetryJob,
         B!Enqueue, brokerVars, envVars
<1>2. DecisionKept'
  BY <1>1 DEF BurialInv, DecisionKept
<1>3. ASSUME NEW j \in Jobs,
             rows'[j].status = "FAILED", rows'[j].error = "failure"
      PROVE  rows'[j] = rows[j]
  <2>1. S!NewRow.status # "FAILED"
    BY DEF S!NewRow
  <2>2. ASSUME NEW i \in Jobs,
               Save(i, [req[c].row EXCEPT !.status = "FAILED",
                                          !.error = "cancelled"]),
               req[c].row \in S!Row \cup {S!NoRow}
        PROVE  rows'[j] = rows[j]
    <3>1. [req[c].row EXCEPT !.status = "FAILED", !.error = "cancelled"].error
            = "cancelled"
      BY <2>2 DEF S!Row, S!NoRow
    <3> QED BY <1>3, <2>2, <3>1
            DEF Save, S!UpdateJob, storeVars, TypeOK, S!TypeOK
  <2>3. req[c].pc = "cancel" =>
          req[c].job \in Jobs /\ req[c].row \in S!Row \cup {S!NoRow}
    BY DEF TypeOK, Request, NoRequest
  <2> QED BY <1>3, <2>1, <2>2, <2>3
          DEF BeginRequest, BeginCreate, BeginCancel, BeginRetry, Read,
              ServeRequest, Lookup, Insert, Enqueue, CancelJob, RetryJob,
              S!CreateJob, S!UpdateJob, storeVars, TypeOK, S!TypeOK
<1> QED BY <1>1, <1>2, <1>3 DEF BurialInv, NoEarlyBurial

LEMMA SlotKeepsBurial ==
  ASSUME TypeOK, AttemptsNeverOvercount, BurialInv,
         NEW s \in Slots, Take(s) \/ Execute(s) \/ Crash(s)
  PROVE  BurialInv'
<1>1. \A t \in Slots : t # s => slot'[t] = slot[t]
  BY DEF Take, Deliver, Reclaim, Occupy, Execute, Crash, Reject, Load,
         LoadFails, MarkRunning, LogStart, HandlerSucceeds, HandlerFails,
         SaveOutcome, LogSuccess, AckMessage, LogFailure, RequeueMessage,
         BuryMessage, Step, Free, TypeOK
<1>2. slot[s].pc \in RunPC
        => /\ slot[s] \in [pc : RunPC, msg : B!Message, row : S!Row]
           /\ slot[s] # Idle /\ Job(s) \in Jobs
           /\ slot[s].row.attempts \in Nat /\ fails[Job(s)] \in Nat
           /\ slot[s].row.attempts <= fails[Job(s)]
  BY DEF TypeOK, Idle, Execution, Job, B!Message, S!Row,
         RunPC, BeforePC, SuccessPC, FailurePC,
         AttemptsNeverOvercount, SlotCounted
<1>3. DecisionKept'
  <2> DEFINE Kept(x) ==
        /\ x.pc \in SuccessPC => x.row.status = "SUCCEEDED"
        /\ x.pc \in FailurePC =>
             \/ x.row.status = "RETRYING"
             \/ x.row.status = "FAILED" /\ x.row.attempts >= MaxAttempts
  <2>1. \A t \in Slots : Kept(slot[t])
    BY DEF BurialInv, DecisionKept
  <2>2. ASSUME slot'[s].pc \notin SuccessPC \cup FailurePC
        PROVE  Kept(slot'[s])
    BY <2>2
  <2>3. ASSUME HandlerSucceeds(s) PROVE Kept(slot'[s])
    <3>1. slot'[s].pc = "saveSuccess" /\ slot'[s].row.status = "SUCCEEDED"
      BY <1>2, <2>3 DEF HandlerSucceeds, TypeOK, RunPC, S!Row
    <3> QED BY <3>1 DEF SuccessPC, FailurePC
  <2>4. ASSUME HandlerFails(s) PROVE Kept(slot'[s])
    <3>1. slot'[s].row = FailedRow(slot[s].row) /\ slot'[s].pc = "saveFailure"
      BY <1>2, <2>4 DEF HandlerFails, TypeOK, RunPC
    <3> QED BY <3>1 DEF FailedRow, SuccessPC, FailurePC
  <2>5. ASSUME SaveOutcome(s) \/ LogSuccess(s) \/ LogFailure(s)
        PROVE  Kept(slot'[s])
    <3>1. /\ slot'[s].row = slot[s].row
          /\ slot[s].pc \in SuccessPC => slot'[s].pc \in SuccessPC
          /\ slot[s].pc \in FailurePC => slot'[s].pc \in FailurePC
          /\ slot[s].pc \in SuccessPC \cup FailurePC
      BY <1>2, <2>5 DEF SaveOutcome, LogSuccess, LogFailure, Step, TypeOK,
                        RunPC, SuccessPC, FailurePC
    <3>2. SuccessPC \cap FailurePC = {}
      BY DEF SuccessPC, FailurePC
    <3> QED BY <2>1, <3>1, <3>2
  <2>6. ASSUME \/ Deliver(s) \/ \E m \in pending : Reclaim(s, m)
               \/ Reject(s) \/ Load(s) \/ LoadFails(s) \/ MarkRunning(s)
               \/ LogStart(s) \/ AckMessage(s) \/ RequeueMessage(s)
               \/ BuryMessage(s) \/ Crash(s)
        PROVE  Kept(slot'[s])
    <3>1. ASSUME Deliver(s) \/ \E m \in pending : Reclaim(s, m)
          PROVE  slot'[s].pc = "received"
      BY <3>1 DEF Deliver, Reclaim, Occupy, TypeOK
    <3>2. ASSUME \/ Reject(s) \/ LoadFails(s) \/ AckMessage(s)
                 \/ RequeueMessage(s) \/ BuryMessage(s) \/ Crash(s)
          PROVE  slot'[s].pc = "idle"
      BY <3>2 DEF Reject, LoadFails, AckMessage, RequeueMessage, BuryMessage,
                  Crash, Free, Idle, TypeOK
    <3>3. ASSUME Load(s)
          PROVE  slot'[s].pc = "loaded"
      BY <3>3 DEF Load, TypeOK, Idle, Execution
    <3>4. ASSUME MarkRunning(s)
          PROVE  slot'[s].pc = "logStart"
      BY <3>4 DEF MarkRunning, TypeOK, Idle, Execution
    <3>5. ASSUME LogStart(s)
          PROVE  slot'[s].pc = "running"
      BY <1>2, <3>5 DEF LogStart, Step, TypeOK, RunPC
    <3> QED BY <2>2, <2>6, <3>1, <3>2, <3>3, <3>4, <3>5
            DEF SuccessPC, FailurePC
  <2>7. Kept(slot'[s])
    BY <2>3, <2>4, <2>5, <2>6 DEF Take, Execute
  <2> HIDE DEF Kept
  <2>8. \A t \in Slots : Kept(slot'[t])
    BY <1>1, <2>1, <2>7
  <2> QED BY <2>8 DEF DecisionKept, Kept
<1>4. \A j \in Jobs : fails[j] \in Nat /\ fails'[j] \in Nat
                      /\ fails[j] <= fails'[j]
  <2>1. CASE HandlerFails(s)
    BY <1>2, <2>1 DEF HandlerFails, TypeOK, RunPC
  <2>2. ~HandlerFails(s) => UNCHANGED fails
    BY DEF Take, Deliver, Reclaim, Execute, Crash, Reject, Load,
           LoadFails, MarkRunning, LogStart, HandlerSucceeds,
           SaveOutcome, LogSuccess, AckMessage, LogFailure, RequeueMessage,
           BuryMessage, envVars
  <2> QED BY <2>1, <2>2 DEF TypeOK
<1>5. ASSUME NEW j \in Jobs, dead'[j] > 0
      PROVE  fails'[j] >= MaxAttempts
  <2>1. CASE BuryMessage(s) /\ j = Job(s)
    <3>1. fails[j] >= MaxAttempts
      BY <1>2, <2>1, TaskQueueAssumption
         DEF BuryMessage, BurialInv, DecisionKept, RunPC, FailurePC
    <3> QED BY <1>4, <3>1, TaskQueueAssumption
  <2>2. CASE ~(BuryMessage(s) /\ j = Job(s))
    <3>1. dead'[j] = dead[j]
      BY <2>2 DEF Take, Deliver, Reclaim, Execute, Crash, Reject, Load,
           LoadFails, MarkRunning, LogStart, HandlerSucceeds, HandlerFails,
           SaveOutcome, LogSuccess, AckMessage, LogFailure, RequeueMessage,
           BuryMessage, Acknowledge, B!Consume, B!Reclaim, B!Ack, B!Requeue,
           B!Enqueue, B!SendToDeadLetter, brokerVars, Job, TypeOK, B!TypeOK
    <3> QED BY <1>4, <1>5, <3>1, TaskQueueAssumption
            DEF BurialInv, NoEarlyBurial
  <2> QED BY <2>1, <2>2
<1>6. ASSUME NEW j \in Jobs,
             rows'[j].status = "FAILED", rows'[j].error = "failure"
      PROVE  fails'[j] >= MaxAttempts
  <2>1. CASE rows'[j] = rows[j]
    BY <1>4, <1>6, <2>1, TaskQueueAssumption DEF BurialInv, NoEarlyBurial
  <2>2. CASE rows'[j] # rows[j]
    <3>1. MarkRunning(s) \/ SaveOutcome(s)
      BY <2>2 DEF Take, Deliver, Reclaim, Execute, Crash, Reject, Load,
           LoadFails, LogStart, HandlerSucceeds, HandlerFails,
           LogSuccess, AckMessage, LogFailure, RequeueMessage,
           BuryMessage, Log, S!AppendJobLog, storeVars
    <3>2. ~MarkRunning(s)
      <4>1. SUFFICES ASSUME MarkRunning(s) PROVE FALSE
        OBVIOUS
      <4>2. slot[s].row \in S!Row \cup {S!NoRow}
        BY <4>1 DEF MarkRunning, TypeOK, Idle, Execution
      <4>3. [slot[s].row EXCEPT !.status = "RUNNING"].status = "RUNNING"
        BY <4>2 DEF S!Row, S!NoRow
      <4> QED BY <1>6, <2>2, <4>1, <4>3
              DEF MarkRunning, Save, S!UpdateJob, storeVars, TypeOK, S!TypeOK
    <3>3. rows'[j] = slot[s].row /\ j = Job(s)
          /\ slot[s].pc \in {"saveSuccess", "saveFailure"}
      BY <2>2, <3>1, <3>2
         DEF SaveOutcome, Save, S!UpdateJob, storeVars, TypeOK, S!TypeOK
    <3>4. slot[s].row.attempts >= MaxAttempts
      BY <1>6, <3>3 DEF BurialInv, DecisionKept, SuccessPC, FailurePC
    <3> QED BY <1>2, <1>4, <3>3, <3>4, TaskQueueAssumption
            DEF RunPC, SuccessPC, FailurePC
  <2> QED BY <2>1, <2>2
<1> QED BY <1>3, <1>5, <1>6 DEF BurialInv, NoEarlyBurial

(* The decision of handleFailure is kept until it is carried out. *)
LEMMA DecisionsCorrect == Spec => []BurialInv
<1>1. Init => BurialInv
  BY TaskQueueAssumption
     DEF Init, S!Init, B!Init, BurialInv, DecisionKept, NoEarlyBurial,
         S!NoRow, Idle, SuccessPC, FailurePC
<1>2. TypeOK /\ AttemptsNeverOvercount /\ BurialInv /\ [Next]_vars => BurialInv'
  <2>1. CASE UNCHANGED vars
    BY <2>1 DEF vars, storeVars, brokerVars, envVars, BurialInv,
                DecisionKept, NoEarlyBurial
  <2> QED BY <2>1, RequestKeepsBurial, SlotKeepsBurial DEF Next
<1> QED BY <1>1, <1>2, TypeCorrect, AttemptsCorrect, PTL DEF Spec

(***************************************************************************)
(* A job is buried, or marked FAILED by a worker, only after its handler   *)
(* failed max_attempts times.                                              *)
(***************************************************************************)
THEOREM BurialCorrect == Spec => []NoEarlyBurial
<1>1. BurialInv => NoEarlyBurial
  BY DEF BurialInv
<1> QED BY <1>1, DecisionsCorrect, PTL

-----------------------------------------------------------------------------
(* No job is forgotten. *)

DeliveryInv == NoJobForgotten /\ EffectBeforeAck

LEMMA AppendKeepsReady ==
  ASSUME TypeOK, NEW m \in B!Message, ready' = Append(ready, m),
         NEW j \in Jobs
  PROVE  (InReady(j) => InReady(j)') /\ (m.job = j => InReady(j)')
<1>1. ready \in Seq(B!Message)
  BY DEF TypeOK, B!TypeOK
<1>2. /\ Len(ready) \in Nat /\ Len(ready') = Len(ready) + 1
      /\ ready'[Len(ready) + 1] = m
      /\ \A i \in 1 .. Len(ready) : ready'[i] = ready[i]
  BY <1>1
<1> QED BY <1>2 DEF InReady

LEMMA ConsumeKeepsReady ==
  ASSUME TypeOK, B!Consume(1), NEW j \in Jobs, InReady(j)
  PROVE  InReady(j)' \/ Head(ready).job = j
<1>1. ready \in Seq(B!Message) /\ ready' = SubSeq(ready, 2, Len(ready))
      /\ Len(ready) >= 1
  BY DEF TypeOK, B!TypeOK, B!Consume
<1>2. PICK i \in 1 .. Len(ready) : ready[i].job = j
  BY DEF InReady
<1>3. CASE i = 1
  BY <1>1, <1>2, <1>3
<1>4. CASE i # 1
  <2>1. Len(ready') = Len(ready) - 1 /\ i - 1 \in 1 .. Len(ready')
    BY <1>1, <1>4
  <2>2. ready'[i - 1] = ready[i]
    BY <1>1, <1>4, <2>1
  <2> QED BY <1>2, <2>1, <2>2 DEF InReady
<1> QED BY <1>3, <1>4

(* The requests: what they answer is stored, or they publish it next. *)
LEMMA RequestKeepsDelivery ==
  ASSUME TypeOK, DeliveryInv,
         NEW c \in Clients, BeginRequest(c) \/ ServeRequest(c)
  PROVE  DeliveryInv'
<1>1. /\ UNCHANGED <<slot, effects, pending, dead>>
      /\ dropped \subseteq dropped'
  BY DEF BeginRequest, BeginCreate, BeginCancel, BeginRetry, Read,
         ServeRequest, Lookup, Insert, Enqueue, CancelJob, RetryJob,
         B!Enqueue, brokerVars, envVars
<1>2. EffectBeforeAck'
  BY <1>1 DEF DeliveryInv, EffectBeforeAck, Job
<1>3. ASSUME NEW pc \in RequestPC, req[c].pc = pc
      PROVE  req[c] \in Request /\ req[c].job \in Jobs
  BY <1>3 DEF TypeOK, Request, NoRequest, RequestPC
<1>4. ASSUME Enqueue(c), NEW j \in Jobs, j = req[c].job
      PROVE  \/ j \in dropped' /\ UNCHANGED answered
             \/ InReady(j)' /\ answered' = answered \cup {j}
  <2>1. SUFFICES ASSUME B!Enqueue(j) PROVE InReady(j)'
    BY <1>4 DEF Enqueue
  <2>2. [id |-> nextId, job |-> j] \in B!Message
    BY DEF B!Message, TypeOK, B!TypeOK
  <2> QED BY <2>1, <2>2, AppendKeepsReady DEF B!Enqueue
<1>5. ASSUME NEW j \in Jobs, InReady(j)
      PROVE  InReady(j)'
  <2>1. CASE UNCHANGED ready
    BY <1>5, <2>1 DEF InReady
  <2>2. CASE Enqueue(c) /\ B!Enqueue(req[c].job)
    <3>1. [id |-> nextId, job |-> req[c].job] \in B!Message
      BY <1>3, <2>2 DEF Enqueue, RequestPC, B!Message, TypeOK, B!TypeOK
    <3> QED BY <1>5, <2>2, <3>1, AppendKeepsReady DEF B!Enqueue
  <2> QED BY <2>1, <2>2
          DEF BeginRequest, BeginCreate, BeginCancel, BeginRetry, Read,
              ServeRequest, Lookup, Insert, Enqueue, CancelJob, RetryJob,
              brokerVars
<1>6. ASSUME NEW j \in Jobs, Owed(j)
      PROVE  Owed(j)'
  BY <1>1, <1>5, <1>6 DEF Owed, InPending, Held, Job
<1>7. ASSUME NEW j \in Jobs \ dropped', Publishing(j)
      PROVE  Publishing(j)' \/ InReady(j)'
  <2>1. PICK d \in Clients : req[d].pc = "enqueue" /\ req[d].job = j
    BY <1>7 DEF Publishing
  <2>2. CASE req'[d] = req[d]
    BY <2>1, <2>2 DEF Publishing
  <2>3. CASE req'[d] # req[d]
    <3>1. d = c
      BY <2>3 DEF BeginRequest, BeginCreate, BeginCancel, BeginRetry, Read,
                  ServeRequest, Lookup, Insert, Enqueue, CancelJob, RetryJob,
                  Ask, Reply, TypeOK
    <3>2. Enqueue(c)
      BY <2>1, <3>1 DEF BeginRequest, BeginCreate, BeginCancel, BeginRetry,
                        Read, ServeRequest, Lookup, Insert, CancelJob,
                        RetryJob, NoRequest
    <3> QED BY <1>4, <1>7, <2>1, <3>1, <3>2
  <2> QED BY <2>2, <2>3
<1>8. ASSUME NEW j \in Jobs, rows'[j] # S!NoRow \/ j \in answered'
      PROVE  rows[j] # S!NoRow \/ j \in answered
             \/ Publishing(j)' \/ InReady(j)'
  <2>1. CASE Insert(c) /\ S!CreateJob(req[c].job) /\ Ask(c, "enqueue")
    <3>1. req[c] \in Request /\ req[c].job \in Jobs
      BY <1>3, <2>1 DEF Insert, RequestPC
    <3>2. req'[c].pc = "enqueue" /\ req'[c].job = req[c].job
      BY <2>1, <3>1 DEF Ask, TypeOK, Request
    <3>3. rows'[j] # rows[j] => j = req[c].job
      BY <2>1 DEF S!CreateJob, TypeOK, S!TypeOK
    <3>4. UNCHANGED answered
      BY <2>1 DEF Insert, envVars
    <3> QED BY <1>8, <3>2, <3>3, <3>4 DEF Publishing
  <2>2. CASE Lookup(c)
    BY <1>8, <2>2 DEF Lookup, S!SameKey, storeVars
  <2>3. CASE Enqueue(c)
    <3>1. req[c].job \in Jobs
      BY <1>3, <2>3 DEF Enqueue, RequestPC
    <3> QED BY <1>4, <1>8, <2>3, <3>1 DEF Enqueue, storeVars
  <2>4. CASE UNCHANGED <<rows, answered>>
    BY <1>8, <2>4
  <2>5. CASE CancelJob(c) \/ RetryJob(c)
    <3>1. UNCHANGED answered
      BY <2>5 DEF CancelJob, RetryJob, envVars
    <3>2. rows'[j] # rows[j] => rows[j] # S!NoRow
      BY <2>5 DEF CancelJob, RetryJob, Save, S!UpdateJob, storeVars,
                  TypeOK, S!TypeOK
    <3> QED BY <1>8, <3>1, <3>2
  <2>6. ASSUME BeginRequest(c) PROVE UNCHANGED <<rows, answered>>
    BY <2>6 DEF BeginRequest, BeginCreate, BeginCancel, BeginRetry, Read,
                storeVars, envVars
  <2>7. ASSUME Insert(c),
               ~(S!CreateJob(req[c].job) /\ Ask(c, "enqueue"))
        PROVE  UNCHANGED <<rows, answered>>
    BY <2>7 DEF Insert, storeVars, envVars
  <2> QED BY <2>1, <2>2, <2>3, <2>4, <2>5, <2>6, <2>7 DEF ServeRequest
<1>9. ASSUME NEW j \in Registered \ dropped',
             rows'[j] # S!NoRow \/ j \in answered'
      PROVE  Tracked(j)'
  <2>1. j \in Jobs /\ j \in Registered \ dropped
    BY <1>1, TaskQueueAssumption
  <2>2. CASE Publishing(j)' \/ InReady(j)'
    BY <2>2 DEF Tracked, Owed
  <2>3. CASE rows[j] # S!NoRow \/ j \in answered
    <3>1. Tracked(j)
      BY <2>1, <2>3 DEF DeliveryInv, NoJobForgotten
    <3> QED BY <1>1, <1>6, <1>7, <2>1, <2>2, <3>1 DEF Tracked
  <2> QED BY <1>8, <1>9, <2>1, <2>2, <2>3
<1> QED BY <1>2, <1>9 DEF DeliveryInv, NoJobForgotten

(* The executions: a message leaves the broker, or with the memory broker   *)
(* its slot, only when the job is done, buried, dropped or unknown.         *)
LEMMA SlotKeepsDelivery ==
  ASSUME TypeOK, DeliveryInv,
         NEW s \in Slots, Take(s) \/ Execute(s) \/ Crash(s)
  PROVE  DeliveryInv'
<1>1. /\ UNCHANGED <<req, answered>>
      /\ dropped \subseteq dropped'
  BY DEF Take, Deliver, Reclaim, Execute, Crash, Reject, Load, LoadFails,
         MarkRunning, LogStart, HandlerSucceeds, HandlerFails, SaveOutcome,
         LogSuccess, AckMessage, LogFailure, RequeueMessage, BuryMessage,
         envVars
<1>2. \A t \in Slots : t # s => slot'[t] = slot[t]
  BY DEF Take, Deliver, Reclaim, Occupy, Execute, Crash, Reject, Load,
         LoadFails, MarkRunning, LogStart, HandlerSucceeds, HandlerFails,
         SaveOutcome, LogSuccess, AckMessage, LogFailure, RequeueMessage,
         BuryMessage, Step, Free, TypeOK
<1>3. slot[s].pc # "idle" =>
        /\ slot[s] \in Execution /\ slot[s] # Idle
        /\ Job(s) \in Jobs /\ slot[s].msg \in B!Message
  BY DEF TypeOK, Idle, Execution, Job, B!Message
<1>4. ASSUME NEW j \in Jobs, rows'[j] # S!NoRow
      PROVE  rows[j] # S!NoRow
  <2>1. rows' = rows \/ \E row : S!UpdateJob(Job(s), row)
    BY DEF Take, Deliver, Reclaim, Execute, Crash, Reject, Load, LoadFails,
           MarkRunning, LogStart, HandlerSucceeds, HandlerFails, SaveOutcome,
           LogSuccess, AckMessage, LogFailure, RequeueMessage, BuryMessage,
           Save, Log, S!AppendJobLog, storeVars
  <2> QED BY <1>4, <2>1 DEF S!UpdateJob, TypeOK, S!TypeOK
<1>5. ASSUME NEW j \in Jobs
      PROVE  /\ effects[j] \in Nat /\ effects'[j] \in Nat
             /\ effects[j] <= effects'[j]
             /\ HandlerSucceeds(s) /\ j = Job(s) => effects'[j] > 0
  <2>1. CASE HandlerSucceeds(s)
    BY <1>3, <2>1 DEF HandlerSucceeds, TypeOK
  <2>2. ~HandlerSucceeds(s) => UNCHANGED effects
    BY DEF Take, Deliver, Reclaim, Execute, Crash, Reject, Load, LoadFails,
           MarkRunning, LogStart, HandlerFails, SaveOutcome,
           LogSuccess, AckMessage, LogFailure, RequeueMessage, BuryMessage,
           envVars
  <2> QED BY <2>1, <2>2 DEF TypeOK
<1>6. ASSUME NEW j \in Jobs
      PROVE  /\ dead[j] > 0 => dead'[j] > 0
             /\ B!SendToDeadLetter(slot[s].msg) /\ j = Job(s) => dead'[j] > 0
  <2>1. CASE B!SendToDeadLetter(slot[s].msg)
    BY <2>1 DEF B!SendToDeadLetter, Job, TypeOK, B!TypeOK
  <2>2. ~B!SendToDeadLetter(slot[s].msg) => UNCHANGED dead
    BY DEF Take, Deliver, Reclaim, Execute, Crash, Reject, Load, LoadFails,
           MarkRunning, LogStart, HandlerSucceeds, HandlerFails, SaveOutcome,
           LogSuccess, AckMessage, LogFailure, RequeueMessage, BuryMessage,
           Acknowledge, B!Consume, B!Reclaim, B!Ack, B!Requeue, B!Enqueue,
           brokerVars
  <2> QED BY <2>1, <2>2
<1>7. EffectBeforeAck'
  <2>1. ASSUME slot'[s].pc \in SuccessPC
        PROVE  effects'[slot'[s].msg.job] > 0
    <3>1. CASE HandlerSucceeds(s)
      <4>1. slot[s].pc # "idle" /\ slot'[s].msg = slot[s].msg
        BY <1>3, <3>1 DEF HandlerSucceeds, TypeOK, Execution
      <4> QED BY <1>3, <1>5, <3>1, <4>1 DEF Job
    <3>2. CASE SaveOutcome(s) \/ LogSuccess(s)
      <4>1. slot[s].pc \in RunPC
        BY <3>2 DEF SaveOutcome, LogSuccess, RunPC, SuccessPC, FailurePC
      <4>2. slot'[s].msg = slot[s].msg /\ slot[s].pc \in SuccessPC
        BY <1>3, <2>1, <3>2
           DEF SaveOutcome, LogSuccess, Step, TypeOK, Execution, SuccessPC
      <4>3. effects[Job(s)] > 0 /\ Job(s) \in Jobs
        BY <1>3, <4>2 DEF DeliveryInv, EffectBeforeAck, SuccessPC
      <4> QED BY <1>5, <4>2, <4>3 DEF Job
    <3>3. ASSUME Deliver(s) \/ \E m \in pending : Reclaim(s, m)
          PROVE  FALSE
      BY <2>1, <3>3 DEF Deliver, Reclaim, Occupy, TypeOK, SuccessPC
    <3>4. ASSUME \/ Reject(s) \/ LoadFails(s) \/ AckMessage(s)
                 \/ RequeueMessage(s) \/ BuryMessage(s) \/ Crash(s)
          PROVE  FALSE
      BY <2>1, <3>4 DEF Reject, LoadFails, AckMessage, RequeueMessage,
                        BuryMessage, Crash, Free, Idle, TypeOK, SuccessPC
    <3>5. ASSUME Load(s) \/ MarkRunning(s)
          PROVE  FALSE
      BY <2>1, <3>5 DEF Load, MarkRunning, TypeOK, Idle, Execution, SuccessPC
    <3>6. ASSUME LogStart(s) \/ HandlerFails(s) \/ LogFailure(s)
          PROVE  FALSE
      <4>1. slot[s] \in [pc : RunPC, msg : B!Message, row : S!Row]
        BY <1>3, <3>6 DEF LogStart, HandlerFails, LogFailure, Execution,
                          BeforePC
      <4> QED BY <2>1, <3>6, <4>1
              DEF LogStart, HandlerFails, LogFailure, Step, TypeOK, SuccessPC
    <3> QED BY <3>1, <3>2, <3>3, <3>4, <3>5, <3>6 DEF Take, Execute
  <2>2. ASSUME NEW t \in Slots, t # s, slot'[t].pc \in SuccessPC
        PROVE  effects'[slot'[t].msg.job] > 0
    <3>1. slot'[t] = slot[t]
      BY <1>2, <2>2
    <3>2. effects[Job(t)] > 0 /\ Job(t) \in Jobs
      BY <2>2, <3>1 DEF DeliveryInv, EffectBeforeAck, TypeOK, Idle,
                        Execution, SuccessPC, Job, B!Message
    <3> QED BY <1>5, <3>1, <3>2 DEF Job
  <2> QED BY <2>1, <2>2 DEF EffectBeforeAck, Job
<1>8. ASSUME NEW j \in Registered \ dropped', j = Job(s), effects'[j] = 0,
             Reject(s) \/ LoadFails(s) \/ AckMessage(s)
      PROVE  FALSE
  <2>1. ~Reject(s) /\ ~LoadFails(s)
    BY <1>8 DEF Reject, LoadFails
  <2>2. effects[j] > 0 /\ UNCHANGED effects
    BY <1>8, <2>1 DEF AckMessage, envVars, DeliveryInv, EffectBeforeAck,
                      SuccessPC
  <2> QED BY <1>8, <2>2
<1>9. ASSUME NEW j \in Jobs, InReady(j)
      PROVE  InReady(j)' \/ (Deliver(s) /\ Head(ready).job = j)
  <2>1. CASE UNCHANGED ready
    BY <1>9, <2>1 DEF InReady
  <2>2. CASE Deliver(s)
    BY <1>9, <2>2, ConsumeKeepsReady DEF Deliver
  <2>3. CASE RequeueMessage(s) /\ B!Requeue(slot[s].msg)
    <3>1. slot[s].msg \in B!Message
      BY <1>3, <2>3 DEF RequeueMessage
    <3>2. [id |-> nextId, job |-> slot[s].msg.job] \in B!Message
      BY <3>1 DEF B!Message, TypeOK, B!TypeOK
    <3> QED BY <1>9, <2>3, <3>1, <3>2, AppendKeepsReady
            DEF B!Requeue, B!Enqueue
  <2> QED BY <2>1, <2>2, <2>3
          DEF Take, Reclaim, Execute, Crash, Reject, Load, LoadFails,
              MarkRunning, LogStart, HandlerSucceeds, HandlerFails,
              SaveOutcome, LogSuccess, AckMessage, LogFailure,
              RequeueMessage, BuryMessage, Acknowledge, B!Reclaim, B!Ack,
              B!SendToDeadLetter, brokerVars
<1>10. ASSUME NEW j \in Registered \ dropped', Owed(j),
              effects'[j] = 0, ~(dead'[j] > 0)
       PROVE  Owed(j)'
  <2>0. j \in Jobs
    BY TaskQueueAssumption
  <2>1. CASE AtLeastOnce
    <3>1. ASSUME NEW m \in pending, m.job = j
          PROVE  m \in pending'
      <4>1. CASE m = slot[s].msg
        <5>1. ~(Reject(s) \/ LoadFails(s) \/ AckMessage(s))
          BY <1>8, <1>10, <3>1, <4>1 DEF Job
        <5> QED BY <2>1, <5>1
                DEF Take, Deliver, Reclaim, Execute, Crash, Load,
                    MarkRunning, LogStart, HandlerSucceeds, HandlerFails,
                    SaveOutcome, LogSuccess, LogFailure, RequeueMessage,
                    BuryMessage, B!Consume, B!Reclaim, B!Requeue, B!Enqueue,
                    B!SendToDeadLetter, brokerVars
      <4>2. CASE m # slot[s].msg
        BY <2>1, <4>2
           DEF Take, Deliver, Reclaim, Execute, Crash, Reject, Load,
               LoadFails, MarkRunning, LogStart, HandlerSucceeds,
               HandlerFails, SaveOutcome, LogSuccess, AckMessage, LogFailure,
               RequeueMessage, BuryMessage, Acknowledge, B!Ack, B!Consume,
               B!Reclaim, B!Requeue, B!Enqueue, B!SendToDeadLetter,
               brokerVars
      <4> QED BY <4>1, <4>2
    <3>2. ASSUME Deliver(s), Head(ready).job = j
          PROVE  InPending(j)'
      <4>1. ready[1] \in pending' /\ ready[1].job = j
        BY <2>1, <3>2 DEF Deliver, B!Consume, TypeOK, B!TypeOK
      <4> QED BY <4>1 DEF InPending
    <3>3. InPending(j) => InPending(j)'
      BY <3>1 DEF InPending
    <3> QED BY <1>9, <1>10, <2>0, <2>1, <3>2, <3>3 DEF Owed
  <2>2. CASE ~AtLeastOnce
    <3>1. ASSUME Deliver(s), Head(ready).job = j
          PROVE  Held(j)'
      <4>1. slot'[s].msg.job = j /\ slot'[s].pc = "received"
        BY <3>1 DEF Deliver, Occupy, TypeOK
      <4> QED BY <4>1 DEF Held, Job, Idle
    <3>2. ASSUME Held(j)
          PROVE  Held(j)' \/ InReady(j)'
      <4>1. PICK t \in Slots : slot[t] # Idle /\ Job(t) = j
        BY <3>2 DEF Held
      <4>2. CASE slot'[t].msg = slot[t].msg /\ slot'[t] # Idle
        BY <4>1, <4>2 DEF Held, Job
      <4>3. CASE ~(slot'[t].msg = slot[t].msg /\ slot'[t] # Idle)
        <5>1. t = s
          BY <1>2, <4>1, <4>3
        <5>2. /\ slot[s].pc # "idle"
              /\ slot[s] \in Execution /\ slot[s].msg \in B!Message
          BY <4>1, <5>1 DEF TypeOK, Idle, Execution,
             BeforePC, RunPC, SuccessPC, FailurePC
        <5>3. ASSUME Load(s) \/ MarkRunning(s)
              PROVE  FALSE
          BY <4>3, <5>1, <5>2, <5>3 DEF Load, MarkRunning, TypeOK, Execution,
             Idle
        <5>4. ASSUME \/ LogStart(s) \/ HandlerSucceeds(s) \/ HandlerFails(s)
                     \/ SaveOutcome(s) \/ LogSuccess(s) \/ LogFailure(s)
              PROVE  FALSE
          BY <4>3, <5>1, <5>2, <5>4
             DEF LogStart, HandlerSucceeds, HandlerFails, SaveOutcome,
                 LogSuccess, LogFailure, Step, TypeOK, Execution, Idle
        <5>5. ~Take(s) /\ ~Crash(s)
          BY <2>2, <4>1, <5>1 DEF Take, Deliver, Reclaim, Crash
        <5>6. ~BuryMessage(s)
          BY <1>6, <1>10, <2>0, <2>2, <4>1, <5>1 DEF BuryMessage
        <5>7. RequeueMessage(s)
          BY <1>8, <1>10, <4>1, <5>1, <5>3, <5>4, <5>5, <5>6 DEF Execute
        <5>8. ready' = Append(ready, slot[s].msg) /\ slot[s].msg.job = j
          BY <1>10, <2>2, <4>1, <5>1, <5>7
             DEF RequeueMessage, B!Requeue, Job
        <5> QED BY <2>0, <5>2, <5>8, AppendKeepsReady
      <4> QED BY <4>2, <4>3
    <3> QED BY <1>9, <1>10, <2>0, <2>2, <3>1, <3>2 DEF Owed
  <2> QED BY <2>1, <2>2
<1>11. ASSUME NEW j \in Registered \ dropped',
              rows'[j] # S!NoRow \/ j \in answered'
       PROVE  Tracked(j)'
  <2>1. j \in Jobs /\ j \in Registered \ dropped
    BY <1>1, TaskQueueAssumption
  <2>2. Tracked(j)
    BY <1>1, <1>4, <1>11, <2>1 DEF DeliveryInv, NoJobForgotten
  <2>3. Publishing(j) => Publishing(j)'
    BY <1>1 DEF Publishing
  <2> QED BY <1>5, <1>6, <1>10, <2>1, <2>2, <2>3 DEF Tracked
<1> QED BY <1>7, <1>11 DEF DeliveryInv, NoJobForgotten

(***************************************************************************)
(* A job that is stored or answered is never forgotten: the broker owes it *)
(* a run until its handler succeeded, it is buried, or a call that failed  *)
(* lost its message; EffectBeforeAck is what makes it inductive.           *)
(***************************************************************************)
THEOREM DeliveryCorrect == Spec => []NoJobForgotten
<1>1. Init => DeliveryInv
  BY TaskQueueAssumption
     DEF Init, S!Init, DeliveryInv, NoJobForgotten, EffectBeforeAck, Idle,
         SuccessPC
<1>2. TypeOK /\ DeliveryInv /\ [Next]_vars => DeliveryInv'
  <2>1. CASE UNCHANGED vars
    BY <2>1 DEF vars, storeVars, brokerVars, envVars, DeliveryInv,
                NoJobForgotten, EffectBeforeAck, Tracked, Publishing, Owed,
                InReady, InPending, Held, Job
  <2> QED BY <2>1, RequestKeepsDelivery, SlotKeepsDelivery DEF Next
<1>3. DeliveryInv => NoJobForgotten
  BY DEF DeliveryInv
<1> QED BY <1>1, <1>2, <1>3, TypeCorrect, PTL DEF Spec

-----------------------------------------------------------------------------
(* One job per key. *)

(* A step that makes no row: what was absent stays absent. *)
RowsOnlyChange == \A j \in Jobs : rows[j] = S!NoRow => rows'[j] = S!NoRow

LEMMA SaveMakesNoRow ==
  ASSUME TypeOK, NEW j, NEW row, S!UpdateJob(j, row) \/ UNCHANGED storeVars
  PROVE  RowsOnlyChange
BY DEF TypeOK, S!TypeOK, S!UpdateJob, storeVars, RowsOnlyChange

(* Rows are made by the store's CreateJob in Insert and nowhere else. *)
LEMMA OnlyInsertMakesRows ==
  ASSUME TypeOK, [Next]_vars
  PROVE  RowsOnlyChange \/ \E c \in Clients : Insert(c)
<1>1. UNCHANGED rows => RowsOnlyChange
  BY DEF RowsOnlyChange
<1>2. CASE UNCHANGED vars
  BY <1>1, <1>2 DEF vars, storeVars
<1>3. ASSUME NEW c \in Clients, BeginRequest(c)
      PROVE  RowsOnlyChange
  BY <1>1, <1>3 DEF BeginRequest, BeginCreate, BeginCancel, BeginRetry, Read,
     storeVars
<1>4. ASSUME NEW c \in Clients, ServeRequest(c)
      PROVE  RowsOnlyChange \/ Insert(c)
  <2>1. CASE Lookup(c) \/ Enqueue(c)
    BY <1>1, <2>1 DEF Lookup, Enqueue, storeVars
  <2>2. CASE CancelJob(c) \/ RetryJob(c)
    BY <2>2, SaveMakesNoRow DEF CancelJob, RetryJob, Save
  <2> QED BY <1>4, <2>1, <2>2 DEF ServeRequest
<1>5. ASSUME NEW s \in Slots, Take(s) \/ Execute(s) \/ Crash(s)
      PROVE  RowsOnlyChange
  <2>1. CASE MarkRunning(s) \/ SaveOutcome(s)
    BY <2>1, SaveMakesNoRow DEF MarkRunning, SaveOutcome, Save
  <2>2. CASE LogStart(s) \/ LogSuccess(s) \/ LogFailure(s)
    BY <1>1, <2>2 DEF LogStart, LogSuccess, LogFailure, Log, S!AppendJobLog,
       storeVars
  <2>3. CASE Take(s) \/ Crash(s) \/ Reject(s) \/ Load(s) \/ LoadFails(s)
    BY <1>1, <2>3 DEF Take, Deliver, Reclaim, Crash, Reject, Load, LoadFails,
       storeVars
  <2>4. CASE HandlerSucceeds(s) \/ HandlerFails(s) \/ AckMessage(s)
             \/ RequeueMessage(s) \/ BuryMessage(s)
    BY <1>1, <2>4 DEF HandlerSucceeds, HandlerFails, AckMessage,
       RequeueMessage, BuryMessage, storeVars
  <2> QED BY <1>5, <2>1, <2>2, <2>3, <2>4 DEF Execute
<1> QED BY <1>2, <1>3, <1>4, <1>5 DEF Next

(***************************************************************************)
(* With the unique index of the GORM store no two jobs have the same       *)
(* idempotency key, although CreateJob of the API looks it up in a call of *)
(* its own and the lookup may fail.                                        *)
(***************************************************************************)
THEOREM KeysCorrect ==
  ASSUME UniqueKeys
  PROVE  Spec => []OneJobPerKey
<1>1. Init => OneJobPerKey
  BY DEF Init, S!Init, OneJobPerKey
<1>2. TypeOK /\ OneJobPerKey /\ [Next]_vars => OneJobPerKey'
  <2> SUFFICES ASSUME TypeOK, OneJobPerKey, [Next]_vars
               PROVE  OneJobPerKey'
    OBVIOUS
  <2>1. CASE RowsOnlyChange
    BY <2>1 DEF RowsOnlyChange, OneJobPerKey, S!NoRow
  <2>2. ASSUME NEW c \in Clients, Insert(c), ~RowsOnlyChange
        PROVE  OneJobPerKey'
    <3>1. rows' # rows
      BY <2>2 DEF RowsOnlyChange
    <3>2. S!CreateJob(req[c].job)
      BY <2>2, <3>1 DEF Insert, storeVars
    <3>3. /\ rows \in [Jobs -> S!Row \cup {S!NoRow}]
          /\ rows' = [rows EXCEPT ![req[c].job] = S!NewRow]
          /\ \A i \in Jobs : KeyOf[i] # NoKey /\ KeyOf[i] = KeyOf[req[c].job]
                               => rows[i] = S!NoRow
      BY <3>2 DEF S!CreateJob, S!SameKey, TypeOK, S!TypeOK
    <3> QED BY <3>3 DEF OneJobPerKey, S!NoRow
  <2> QED BY <2>1, <2>2, OnlyInsertMakesRows
<1> QED BY <1>1, <1>2, TypeCorrect, PTL DEF Spec
=============================================================================
