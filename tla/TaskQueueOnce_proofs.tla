------------------------ MODULE TaskQueueOnce_proofs ------------------------
(***************************************************************************)
(* How often a job runs: as long as nothing brings its message back, it is *)
(* in one place only, and whoever has it there is the only one to run it.  *)
(* From this follows what its row shows: a step of JobLifecycle at a time. *)
(***************************************************************************)
EXTENDS TaskQueueOwed_proofs

-----------------------------------------------------------------------------
(* One place for each job. *)

Unspent(k) == budget[k] = Budget[k]

(* No request published j again and no delivery of it was repeated. *)
Calm(j) ==
  /\ Unspent("retry")
  /\ \/ ~AtLeastOnce
     \/ /\ ~SlowHandlers /\ Unspent("crash") /\ Unspent("fault")
        /\ fails[j] = 0

Creating(c, j) == req[c].pc \in {"lookup", "insert", "enqueue"} /\ req[c].job = j
Holds(s, j) == slot[s] # Idle /\ Job(s) = j
Unrun(j) == effects[j] = 0 /\ dead[j] = 0
ReadyOnce(j) ==
  \A i, k \in 1 .. Len(ready) : ready[i].job = j /\ ready[k].job = j => i = k

OneRun(j) ==
  /\ \A c, d \in Clients : Creating(c, j) /\ Creating(d, j) => c = d
  /\ \A c \in Clients :
       Creating(c, j) /\ req[c].pc # "enqueue" => rows[j] = S!NoRow
  /\ rows[j] = S!NoRow
       => ~Publishing(j) /\ ~InReady(j) /\ ~Held(j) /\ Unrun(j)
  /\ Publishing(j) => ~InReady(j) /\ ~Held(j) /\ Unrun(j)
  /\ InReady(j) => ~Held(j) /\ Unrun(j)
  /\ ReadyOnce(j)
  /\ \A s, t \in Slots : Holds(s, j) /\ Holds(t, j) => s = t
  /\ \A m \in pending :
       m.job = j => \E s \in Slots : slot[s] # Idle /\ slot[s].msg = m
  /\ \A s \in Slots :
       Holds(s, j) =>
         /\ dead[j] = 0
         /\ effects[j] = IF slot[s].pc \in SuccessPC THEN 1 ELSE 0
  /\ effects[j] + dead[j] <= 1

CalmFacts ==
  /\ \A k \in BudgetKind : budget[k] <= Budget[k]
  /\ ~AtLeastOnce => pending = {}
  /\ \A c \in Clients : req[c].pc = "retry" => ~Unspent("retry")
  /\ \A s \in Slots : slot[s].pc \in FailurePC => fails[Job(s)] > 0

OnceInv == CalmFacts /\ \A j \in Jobs : Calm(j) => OneRun(j)

(* The attempts of the one run there is, in the row and in its copy. *)
Counted(j) ==
  /\ fails[j] <= MaxAttempts
  /\ Publishing(j) \/ InReady(j) => fails[j] < MaxAttempts
  /\ rows[j].attempts = fails[j]
       \/ \E s \in Slots : Holds(s, j) /\ slot[s].pc = "saveFailure"
  /\ \A s \in Slots :
       Holds(s, j) =>
         /\ slot[s].pc # "received" => slot[s].row.attempts = fails[j]
         /\ slot[s].pc \notin FailurePC \/ slot[s].row.status = "RETRYING"
              => fails[j] < MaxAttempts

SettleInv ==
  /\ \A k \in {"fault", "cancel", "retry"} : budget[k] = 0
  /\ \A c \in Clients : req[c].pc # "cancel"
  /\ \A j \in Jobs : Counted(j)

(* What a request does next. *)
LEMMA RequestGoesOn ==
  ASSUME TypeOK, NEW c \in Clients, BeginRequest(c) \/ ServeRequest(c)
  PROVE  \/ /\ req[c] = NoRequest
            /\ \/ \E j \in Jobs : /\ BeginCreate(c, j)
                                  /\ req'[c].pc \in {"lookup", "insert"}
                                  /\ req'[c].job = j
               \/ Spend("cancel") /\ req'[c].pc = "cancel" /\ UNCHANGED storeVars
               \/ Spend("retry") /\ req'[c].pc = "retry" /\ UNCHANGED storeVars
            /\ UNCHANGED brokerVars
         \/ /\ req[c].pc = "lookup" /\ Lookup(c)
            /\ \/ req'[c] = NoRequest
               \/ req'[c].pc = "insert" /\ req'[c].job = req[c].job
         \/ /\ req[c].pc = "insert" /\ Insert(c)
            /\ \/ req'[c] = NoRequest /\ UNCHANGED storeVars
               \/ req'[c].pc = "enqueue" /\ req'[c].job = req[c].job
         \/ req[c].pc = "enqueue" /\ Enqueue(c) /\ req'[c] = NoRequest
         \/ req[c].pc = "cancel" /\ CancelJob(c) /\ req'[c] = NoRequest
         \/ req[c].pc = "retry" /\ RetryJob(c)
<1>1. req \in [Clients -> Request \cup {NoRequest}]
  BY DEF TypeOK
<1>2. req[c].pc \in RequestPC => req[c] \in Request
  BY <1>1 DEF NoRequest, RequestPC
<1>3. Reply(c) => req'[c] = NoRequest
  BY <1>1 DEF Reply
<1>4. ASSUME NEW pc, Ask(c, pc), req[c] \in Request
      PROVE  req'[c].pc = pc /\ req'[c].job = req[c].job
  BY <1>1, <1>4 DEF Ask, Request
<1>5. ASSUME NEW j \in Jobs, BeginCreate(c, j)
      PROVE  /\ req[c] = NoRequest /\ req'[c].pc \in {"lookup", "insert"}
             /\ req'[c].job = j /\ UNCHANGED brokerVars
  BY <1>1, <1>5 DEF BeginCreate
<1>6. ASSUME NEW j \in Jobs, NEW pc, NEW status, Read(c, j, pc, status)
      PROVE  /\ req[c] = NoRequest /\ Spend(pc) /\ req'[c].pc = pc
             /\ UNCHANGED storeVars /\ UNCHANGED brokerVars
  BY <1>1, <1>6 DEF Read
<1>7. CASE BeginRequest(c)
  BY <1>5, <1>6, <1>7 DEF BeginRequest, BeginCancel, BeginRetry
<1>8. CASE Lookup(c)
  BY <1>2, <1>3, <1>4, <1>8 DEF Lookup, RequestPC
<1>9. CASE Insert(c)
  BY <1>2, <1>3, <1>4, <1>9 DEF Insert, RequestPC
<1>10. CASE Enqueue(c)
  BY <1>3, <1>10 DEF Enqueue
<1>11. CASE CancelJob(c)
  BY <1>3, <1>11 DEF CancelJob
<1>12. CASE RetryJob(c)
  BY <1>12 DEF RetryJob
<1> QED BY <1>7, <1>8, <1>9, <1>10, <1>11, <1>12 DEF ServeRequest

LEMMA SlotCounts ==
  ASSUME TypeOK, NEW s \in Slots, AllSlotSteps(s), NEW j \in Jobs
  PROVE  /\ effects[j] \in Nat /\ fails[j] \in Nat /\ dead[j] \in Nat
         /\ effects'[j] = IF HandlerSucceeds(s) /\ j = Job(s)
                            THEN effects[j] + 1 ELSE effects[j]
         /\ fails'[j] = IF HandlerFails(s) /\ j = Job(s)
                          THEN fails[j] + 1 ELSE fails[j]
         /\ dead'[j] = IF /\ BuryMessage(s) /\ j = Job(s)
                          /\ B!SendToDeadLetter(slot[s].msg)
                         THEN dead[j] + 1 ELSE dead[j]
<1>1. /\ effects \in [Jobs -> Nat] /\ fails \in [Jobs -> Nat]
      /\ dead \in [Jobs -> Nat]
  BY DEF TypeOK, B!TypeOK
<1>2. /\ HandlerSucceeds(s) => effects' = [effects EXCEPT ![Job(s)] = @ + 1]
      /\ ~HandlerSucceeds(s) => effects' = effects
      /\ HandlerFails(s) => fails' = [fails EXCEPT ![Job(s)] = @ + 1]
      /\ ~HandlerFails(s) => fails' = fails
  BY DEF AllSlotSteps, Take, Deliver, Reclaim, Execute, Crash, Reject, Load,
     LoadFails, MarkRunning, LogStart, HandlerSucceeds, HandlerFails,
     SaveOutcome, LogSuccess, AckMessage, LogFailure, RequeueMessage,
     BuryMessage, envVars
<1>3. \/ dead' = dead
      \/ /\ BuryMessage(s) /\ B!SendToDeadLetter(slot[s].msg)
         /\ dead' = [dead EXCEPT ![Job(s)] = @ + 1]
  BY DEF AllSlotSteps, Take, Deliver, Reclaim, Execute, Crash, Reject, Load,
     LoadFails, MarkRunning, LogStart, HandlerSucceeds, HandlerFails,
     SaveOutcome, LogSuccess, AckMessage, LogFailure, RequeueMessage,
     BuryMessage, Acknowledge, B!Consume, B!Reclaim, B!Ack, B!Requeue,
     B!Enqueue, B!SendToDeadLetter, brokerVars, Job
<1>4. B!SendToDeadLetter(slot[s].msg) => dead' = [dead EXCEPT ![Job(s)] = @ + 1]
  BY DEF B!SendToDeadLetter, Job
<1> QED BY <1>1, <1>2, <1>3, <1>4

LEMMA FailsGrow ==
  ASSUME TypeOK, [Next]_vars, NEW j \in Jobs
  PROVE  fails[j] \in Nat /\ fails'[j] \in Nat /\ fails[j] <= fails'[j]
<1>1. fails[j] \in Nat
  BY DEF TypeOK
<1>2. CASE UNCHANGED vars
  BY <1>1, <1>2 DEF vars, envVars
<1>3. ASSUME NEW c \in Clients, BeginRequest(c) \/ ServeRequest(c)
      PROVE  fails' = fails
  BY <1>3, RequestWrites
<1>4. ASSUME NEW s \in Slots, AllSlotSteps(s)
      PROVE  fails'[j] = fails[j] \/ fails'[j] = fails[j] + 1
  BY <1>4, SlotCounts
<1> QED BY <1>1, <1>2, <1>3, <1>4 DEF Next, AllSlotSteps

LEMMA TypeNext ==
  ASSUME TypeOK, [Next]_vars
  PROVE  TypeOK'
BY RequestTypeOK, SlotTypeOK DEF Next, vars, TypeOK, S!TypeOK, B!TypeOK,
   storeVars, brokerVars, envVars

LEMMA BudgetBelow ==
  ASSUME TypeOK, [Next]_vars, CalmFacts, NEW k \in BudgetKind
  PROVE  /\ budget[k] \in Nat /\ budget'[k] \in Nat /\ Budget[k] \in Nat
         /\ budget'[k] <= budget[k] /\ budget[k] <= Budget[k]
         /\ Spend(k) => budget'[k] = budget[k] - 1
<1>1. budget \in [BudgetKind -> Nat] /\ budget' \in [BudgetKind -> Nat]
  BY TypeNext DEF TypeOK
<1> QED BY <1>1, BudgetFalls, TaskQueueAssumption DEF CalmFacts, Spend

(* A job that is calm after a step was calm before, and the step met none  *)
(* of the failures that would have ended that.                             *)
LEMMA CalmBefore ==
  ASSUME TypeOK, [Next]_vars, CalmFacts, NEW j \in Jobs, Calm(j)'
  PROVE  /\ Calm(j) /\ ~Spend("retry")
         /\ AtLeastOnce => /\ ~Fault /\ ~Spend("crash") /\ ~SlowHandlers
                           /\ fails[j] = 0 /\ fails'[j] = 0
<1>1. \A k \in BudgetKind :
        Unspent(k)' => Unspent(k) /\ ~Spend(k)
  BY BudgetBelow DEF Unspent
<1>2. fails'[j] = 0 => fails[j] = 0
  BY FailsGrow
<1> QED BY <1>1, <1>2 DEF Calm, BudgetKind, Fault

LEMMA CalmFactsKept ==
  ASSUME TypeOK, [Next]_vars, CalmFacts
  PROVE  CalmFacts'
<1>1. \A k \in BudgetKind : budget'[k] <= Budget[k]
  BY BudgetBelow
<1>2. "retry" \in BudgetKind /\ ~Unspent("retry") => ~Unspent("retry")'
  BY BudgetBelow DEF Unspent, BudgetKind
<1>3. CASE UNCHANGED vars
  BY <1>3 DEF vars, brokerVars, envVars, CalmFacts, Unspent, Job
<1>4. ASSUME NEW c \in Clients, BeginRequest(c) \/ ServeRequest(c)
      PROVE  CalmFacts'
  <2>1. /\ slot' = slot /\ pending' = pending /\ fails' = fails
        /\ \A d \in Clients \ {c} : req'[d] = req[d]
    BY <1>4, RequestWrites
  <2>2. ASSUME req'[c].pc = "retry"
        PROVE  ~Unspent("retry")'
    <3>1. \/ req[c].pc = "retry"
          \/ Spend("retry")
      BY <1>4, <2>2, RequestGoesOn DEF NoRequest
    <3>2. Spend("retry") => ~Unspent("retry")'
      BY BudgetBelow DEF Unspent, BudgetKind
    <3> QED BY <1>2, <2>2, <3>1, <3>2 DEF CalmFacts, BudgetKind
  <2> QED BY <1>1, <1>2, <2>1, <2>2 DEF CalmFacts, BudgetKind, Job
<1>5. ASSUME NEW s \in Slots, AllSlotSteps(s)
      PROVE  CalmFacts'
  <2>1. req' = req /\ \A t \in Slots \ {s} : slot'[t] = slot[t]
    BY <1>5, SlotAlone
  <2>2. ~AtLeastOnce => pending' = {}
    BY <1>5, SlotMoves DEF CalmFacts
  <2>3. ASSUME NEW t \in Slots, t # s, slot'[t].pc \in FailurePC
        PROVE  fails'[Job(t)'] > 0
    <3>1. slot'[t] = slot[t] /\ Job(t)' = Job(t) /\ Job(t) \in Jobs
      BY <2>1, <2>3, SlotFacts DEF Job, Idle, FailurePC
    <3>2. fails[Job(t)] > 0
      BY <2>3, <3>1 DEF CalmFacts
    <3> QED BY <3>1, <3>2, FailsGrow
  <2>4. ASSUME slot'[s].pc \in FailurePC
        PROVE  fails'[Job(s)'] > 0
    <3>1. ~Take(s) /\ slot'[s] # Idle
      BY <2>4, TakeReceives DEF FailurePC, Idle
    <3>2. HandlerFails(s) \/ SaveOutcome(s) \/ LogFailure(s)
      BY <1>5, <2>4, <3>1, SlotGoesOn, SlotEnds
         DEF AllSlotSteps, Execute, FailurePC
    <3>3. Job(s)' = Job(s) /\ Job(s) \in Jobs
      BY <3>2, SlotGoesOn, SlotFacts
    <3>4. CASE HandlerFails(s)
      BY <1>5, <3>3, <3>4, SlotCounts
    <3>5. CASE SaveOutcome(s) \/ LogFailure(s)
      <4>1. slot[s].pc \in FailurePC
        BY <2>4, <3>5, SlotGoesOn DEF FailurePC
      <4> QED BY <3>3, <4>1, FailsGrow DEF CalmFacts
    <3> QED BY <3>2, <3>4, <3>5
  <2> QED BY <1>1, <1>2, <2>1, <2>2, <2>3, <2>4 DEF CalmFacts, BudgetKind
<1> QED BY <1>3, <1>4, <1>5 DEF Next, AllSlotSteps

(* Places that are only left, with nothing counted, leave a job in one.    *)
LEMMA OneRunFrame ==
  ASSUME NEW j \in Jobs, OneRun(j),
         effects'[j] = effects[j], dead'[j] = dead[j],
         rows'[j] = S!NoRow <=> rows[j] = S!NoRow,
         \A c \in Clients :
           Creating(c, j)' => /\ Creating(c, j)
                              /\ req'[c].pc = "enqueue" <=> req[c].pc = "enqueue",
         InReady(j)' => InReady(j), ReadyOnce(j)',
         \A s \in Slots :
           Holds(s, j)' => /\ Holds(s, j)
                           /\ slot'[s].pc \in SuccessPC
                                <=> slot[s].pc \in SuccessPC,
         \A m \in pending' :
           m.job = j => \E s \in Slots : slot'[s] # Idle /\ slot'[s].msg = m
  PROVE  OneRun(j)'
<1>1. Unrun(j)' <=> Unrun(j)
  BY DEF Unrun
<1>2. Held(j)' => Held(j)
  BY DEF Held, Holds
<1>3. Publishing(j)' => Publishing(j)
  BY DEF Publishing, Creating
<1>4. /\ \A c, d \in Clients : Creating(c, j)' /\ Creating(d, j)' => c = d
      /\ \A c \in Clients :
           Creating(c, j)' /\ req'[c].pc # "enqueue" => rows'[j] = S!NoRow
  BY DEF OneRun
<1>5. /\ rows'[j] = S!NoRow
           => ~Publishing(j)' /\ ~InReady(j)' /\ ~Held(j)' /\ Unrun(j)'
      /\ Publishing(j)' => ~InReady(j)' /\ ~Held(j)' /\ Unrun(j)'
      /\ InReady(j)' => ~Held(j)' /\ Unrun(j)'
  BY <1>1, <1>2, <1>3 DEF OneRun
<1>6. /\ \A s, t \in Slots : Holds(s, j)' /\ Holds(t, j)' => s = t
      /\ \A s \in Slots :
           Holds(s, j)' =>
             /\ dead'[j] = 0
             /\ effects'[j] = IF slot'[s].pc \in SuccessPC THEN 1 ELSE 0
      /\ effects'[j] + dead'[j] <= 1
  BY DEF OneRun
<1> QED BY <1>4, <1>5, <1>6 DEF OneRun

(* A new message at the end of the queue, and the one at its head. *)
LEMMA AppendOnce ==
  ASSUME TypeOK, NEW j \in Jobs, NEW m \in B!Message, ready' = Append(ready, m)
  PROVE  /\ m.job # j => /\ InReady(j)' => InReady(j)
                         /\ ReadyOnce(j) => ReadyOnce(j)'
         /\ m.job = j /\ ~InReady(j) => ReadyOnce(j)'
<1>1. ready \in Seq(B!Message)
  BY DEF TypeOK, B!TypeOK
<1>2. /\ Len(ready') = Len(ready) + 1 /\ Len(ready) \in Nat
      /\ \A i \in 1 .. Len(ready) : ready'[i] = ready[i]
      /\ ready'[Len(ready) + 1] = m
  BY <1>1
<1>3. \A i \in 1 .. Len(ready') : i \in 1 .. Len(ready) \/ i = Len(ready) + 1
  BY <1>2
<1>4. ASSUME m.job # j
      PROVE  /\ InReady(j)' => InReady(j)
             /\ ReadyOnce(j) => ReadyOnce(j)'
  BY <1>2, <1>3, <1>4 DEF InReady, ReadyOnce
<1>5. ASSUME m.job = j, ~InReady(j)
      PROVE  ReadyOnce(j)'
  BY <1>2, <1>3, <1>5 DEF InReady, ReadyOnce
<1> QED BY <1>4, <1>5

LEMMA ConsumeOnce ==
  ASSUME TypeOK, NEW j \in Jobs, B!Consume(1), ReadyOnce(j)
  PROVE  /\ ReadyOnce(j)' /\ (InReady(j)' => InReady(j))
         /\ Head(ready).job = j => InReady(j) /\ ~InReady(j)'
<1>1. /\ ready \in Seq(B!Message) /\ Len(ready) \in Nat /\ Len(ready) > 0
      /\ ready' = SubSeq(ready, 2, Len(ready)) /\ Head(ready) = ready[1]
  BY DEF B!Consume, TypeOK, B!TypeOK
<1>2. /\ Len(ready') = Len(ready) - 1
      /\ \A i \in 1 .. Len(ready') :
           ready'[i] = ready[i + 1] /\ i + 1 \in 1 .. Len(ready)
  BY <1>1, TailOfQueue
<1>3. ReadyOnce(j)' /\ (InReady(j)' => InReady(j))
  BY <1>1, <1>2 DEF ReadyOnce, InReady
<1>4. ASSUME ready[1].job = j
      PROVE  InReady(j) /\ ~InReady(j)'
  <2>1. 1 \in 1 .. Len(ready)
    BY <1>1
  <2>2. ASSUME NEW i \in 1 .. Len(ready'), ready'[i].job = j
        PROVE  FALSE
    BY <1>1, <1>2, <1>4, <2>1, <2>2 DEF ReadyOnce
  <2> QED BY <1>4, <2>1, <2>2 DEF InReady
<1> QED BY <1>1, <1>3, <1>4

LEMMA RequestKeepsOneRun ==
  ASSUME TypeOK, CalmFacts, NEW j \in Jobs, Calm(j), OneRun(j),
         NEW c \in Clients, BeginRequest(c) \/ ServeRequest(c)
  PROVE  OneRun(j)'
<1>1. /\ slot' = slot /\ pending' = pending
      /\ effects'[j] = effects[j] /\ dead'[j] = dead[j]
      /\ \A d \in Clients \ {c} : req'[d] = req[d]
      /\ UNCHANGED <<ready, nextId>> \/ (Enqueue(c) /\ B!Enqueue(req[c].job))
  BY RequestWrites
<1>2. /\ \A d \in Clients \ {c} : Creating(d, j)' <=> Creating(d, j)
      /\ \A s \in Slots : Holds(s, j)' <=> Holds(s, j)
      /\ Held(j)' <=> Held(j)
      /\ Unrun(j)' <=> Unrun(j)
  BY <1>1 DEF Creating, Holds, Held, Unrun, Job
<1>3. \A m \in pending' :
        m.job = j => \E s \in Slots : slot'[s] # Idle /\ slot'[s].msg = m
  BY <1>1 DEF OneRun
<1>4. /\ req[c].pc # "retry"
      /\ req[c].pc \in RequestPC => req[c].job \in Jobs
  BY DEF Calm, CalmFacts, TypeOK, Request, NoRequest, RequestPC
<1>5. ASSUME UNCHANGED <<ready, nextId>>
      PROVE  (InReady(j)' <=> InReady(j)) /\ ReadyOnce(j)'
  BY <1>5 DEF InReady, ReadyOnce, OneRun
<1>6. ASSUME rows'[j] = S!NoRow <=> rows[j] = S!NoRow,
             Creating(c, j)' => /\ Creating(c, j)
                                /\ req'[c].pc = "enqueue" <=> req[c].pc = "enqueue",
             InReady(j)' => InReady(j), ReadyOnce(j)'
      PROVE  OneRun(j)'
  BY <1>1, <1>2, <1>3, <1>6, OneRunFrame
<1>7. ASSUME UNCHANGED <<ready, nextId>>, ~Creating(c, j)',
             rows'[j] = S!NoRow <=> rows[j] = S!NoRow
      PROVE  OneRun(j)'
  BY <1>5, <1>6, <1>7
<1>8. ASSUME req'[c] = NoRequest
      PROVE  ~Creating(c, j)'
  BY <1>8 DEF NoRequest, Creating
<1>9. CASE \E i \in Jobs : /\ BeginCreate(c, i)
                           /\ req'[c].pc \in {"lookup", "insert"}
                           /\ req'[c].job = i
  <2>1. PICK i \in Jobs : /\ BeginCreate(c, i)
                          /\ req'[c].pc \in {"lookup", "insert"}
                          /\ req'[c].job = i
    BY <1>9
  <2>2. /\ UNCHANGED <<ready, nextId>> /\ rows' = rows /\ rows[i] = S!NoRow
        /\ \A d \in Clients : ~Creating(d, i)
    BY <2>1 DEF BeginCreate, storeVars, brokerVars, Creating
  <2>3. CASE i # j
    <3>1. ~Creating(c, j)'
      BY <2>1, <2>3 DEF Creating
    <3> QED BY <1>7, <2>2, <3>1
  <2>4. CASE i = j
    <3>1. /\ ~Publishing(j) /\ ~InReady(j) /\ ~Held(j) /\ Unrun(j)
      BY <2>2, <2>4 DEF OneRun
    <3>2. ~Publishing(j)' /\ ~InReady(j)' /\ ~Held(j)' /\ Unrun(j)'
      BY <1>1, <1>2, <1>5, <2>1, <2>2, <3>1 DEF Publishing
    <3>3. /\ \A d, e \in Clients : Creating(d, j)' /\ Creating(e, j)' => d = e
          /\ \A d \in Clients :
               Creating(d, j)' /\ req'[d].pc # "enqueue" => rows'[j] = S!NoRow
      BY <1>2, <2>2, <2>4
    <3>4. /\ \A s, t \in Slots : Holds(s, j)' /\ Holds(t, j)' => s = t
          /\ \A s \in Slots :
               Holds(s, j)' =>
                 /\ dead'[j] = 0
                 /\ effects'[j] = IF slot'[s].pc \in SuccessPC THEN 1 ELSE 0
          /\ effects'[j] + dead'[j] <= 1
      BY <1>1, <1>2 DEF OneRun
    <3> QED BY <1>3, <1>5, <2>2, <3>2, <3>3, <3>4 DEF OneRun
  <2> QED BY <2>3, <2>4
<1>10. CASE /\ req'[c].pc \in {"cancel", "retry"}
            /\ UNCHANGED storeVars /\ UNCHANGED brokerVars
  BY <1>7, <1>10 DEF Creating, storeVars, brokerVars
<1>11. CASE /\ req[c].pc = "lookup" /\ Lookup(c)
            /\ \/ req'[c] = NoRequest
               \/ req'[c].pc = "insert" /\ req'[c].job = req[c].job
  <2>1. UNCHANGED <<ready, nextId>> /\ rows' = rows
    BY <1>11 DEF Lookup, storeVars, brokerVars
  <2>2. Creating(c, j)' => Creating(c, j) /\ req'[c].pc = "insert"
    BY <1>11 DEF Creating, NoRequest
  <2> QED BY <1>5, <1>6, <1>11, <2>1, <2>2
<1>12. CASE /\ req[c].pc = "insert" /\ Insert(c)
            /\ req'[c].pc = "enqueue" /\ req'[c].job = req[c].job
  <2>1. UNCHANGED <<ready, nextId>> /\ req[c].job \in Jobs
    BY <1>4, <1>12 DEF Insert, brokerVars, RequestPC
  <2>2. S!CreateJob(req[c].job)
    BY <1>12 DEF Insert, Reply, TypeOK, NoRequest
  <2>3. rows' = [rows EXCEPT ![req[c].job] = S!NewRow] /\ S!NewRow # S!NoRow
        /\ DOMAIN rows = Jobs
    BY <2>2 DEF S!CreateJob, S!NewRow, S!NoRow, TypeOK, S!TypeOK
  <2>4. CASE req[c].job # j
    <3>1. ~Creating(c, j)' /\ rows'[j] = rows[j]
      BY <1>12, <2>3, <2>4 DEF Creating
    <3> QED BY <1>7, <2>1, <3>1
  <2>5. CASE req[c].job = j
    <3>1. Creating(c, j) /\ rows[j] = S!NoRow /\ rows'[j] # S!NoRow
      BY <1>12, <2>3, <2>5 DEF Creating, OneRun
    <3>2. \A d \in Clients : Creating(d, j)' => d = c
      BY <1>2, <3>1 DEF OneRun
    <3>3. ~InReady(j)' /\ ~Held(j)' /\ Unrun(j)'
      BY <1>2, <1>5, <2>1, <3>1 DEF OneRun
    <3>4. /\ \A s, t \in Slots : Holds(s, j)' /\ Holds(t, j)' => s = t
          /\ \A s \in Slots :
               Holds(s, j)' =>
                 /\ dead'[j] = 0
                 /\ effects'[j] = IF slot'[s].pc \in SuccessPC THEN 1 ELSE 0
          /\ effects'[j] + dead'[j] <= 1
      BY <1>1, <1>2 DEF OneRun
    <3> QED BY <1>3, <1>5, <1>12, <2>1, <3>1, <3>2, <3>3, <3>4 DEF OneRun
  <2> QED BY <2>4, <2>5
<1>13. CASE /\ req[c].pc = "insert" /\ Insert(c)
            /\ req'[c] = NoRequest /\ UNCHANGED storeVars
  BY <1>7, <1>8, <1>13 DEF Insert, storeVars, brokerVars
<1>14. CASE req[c].pc = "enqueue" /\ Enqueue(c) /\ req'[c] = NoRequest
  <2>1. rows' = rows /\ req[c].job \in Jobs /\ ~Creating(c, j)'
    BY <1>4, <1>8, <1>14 DEF Enqueue, storeVars, RequestPC
  <2>2. CASE UNCHANGED <<ready, nextId>>
    BY <1>7, <2>1, <2>2
  <2>3. ASSUME B!Enqueue(req[c].job)
        PROVE  OneRun(j)'
    <3> DEFINE m == [id |-> nextId, job |-> req[c].job]
    <3>1. m \in B!Message /\ ready' = Append(ready, m) /\ m.job = req[c].job
      BY <2>1, <2>3 DEF B!Enqueue, B!Message, TypeOK, B!TypeOK
    <3> HIDE DEF m
    <3>2. CASE req[c].job # j
      <4>1. (InReady(j)' => InReady(j)) /\ ReadyOnce(j)'
        BY <3>1, <3>2, AppendOnce DEF OneRun
      <4> QED BY <1>6, <2>1, <4>1
    <3>3. CASE req[c].job = j
      <4>1. Publishing(j) /\ Creating(c, j)
        BY <1>14, <3>3 DEF Publishing, Creating
      <4>2. ~InReady(j) /\ ~Held(j)' /\ Unrun(j)' /\ rows'[j] # S!NoRow
        BY <1>2, <2>1, <4>1 DEF OneRun
      <4>3. \A d \in Clients : ~Creating(d, j)'
        BY <1>2, <2>1, <4>1 DEF OneRun
      <4>4. ReadyOnce(j)' /\ ~Publishing(j)'
        BY <3>1, <3>3, <4>2, <4>3, AppendOnce DEF Publishing, Creating
      <4>5. /\ \A s, t \in Slots : Holds(s, j)' /\ Holds(t, j)' => s = t
            /\ \A s \in Slots :
                 Holds(s, j)' =>
                   /\ dead'[j] = 0
                   /\ effects'[j] = IF slot'[s].pc \in SuccessPC THEN 1 ELSE 0
            /\ effects'[j] + dead'[j] <= 1
        BY <1>1, <1>2 DEF OneRun
      <4> QED BY <1>3, <4>2, <4>3, <4>4, <4>5 DEF OneRun
    <3> QED BY <3>2, <3>3
  <2> QED BY <1>1, <2>2, <2>3
<1>15. CASE req[c].pc = "cancel" /\ CancelJob(c) /\ req'[c] = NoRequest
  <2>1. UNCHANGED <<ready, nextId>>
    BY <1>15 DEF CancelJob, brokerVars
  <2>2. rows'[j] = S!NoRow <=> rows[j] = S!NoRow
    <3>1. ~Insert(c) /\ ~RetryJob(c)
      BY <1>15 DEF Insert, RetryJob
    <3> QED BY <3>1, RequestWrites DEF S!NoRow
  <2> QED BY <1>7, <1>8, <1>15, <2>1, <2>2
<1> QED BY <1>4, <1>9, <1>10, <1>11, <1>12, <1>13, <1>14, <1>15,
           RequestGoesOn

LEMMA SlotMakesNoRow ==
  ASSUME TypeOK, NEW s \in Slots, AllSlotSteps(s), NEW j \in Jobs
  PROVE  rows'[j] = S!NoRow <=> rows[j] = S!NoRow
<1>1. MarkRunning(s) => slot'[s].row # S!NoRow
  <2>1. MarkRunning(s) => slot'[s].row.status = "RUNNING"
    BY SlotGoesOn
  <2> QED BY <2>1 DEF S!NoRow
<1>2. SaveOutcome(s) => slot'[s].row # S!NoRow
  <2>1. SaveOutcome(s) => slot'[s].row = slot[s].row /\ slot[s].row \in S!Row
    BY SlotGoesOn, SlotFacts DEF RunPC, SuccessPC, FailurePC
  <2> QED BY <2>1 DEF S!Row, S!Status, S!NoRow
<1> QED BY <1>1, <1>2, SlotWrites

LEMMA SlotKeepsOneRun ==
  ASSUME TypeOK, [Next]_vars, CalmFacts, NEW j \in Jobs, Calm(j)', OneRun(j),
         NEW s \in Slots, AllSlotSteps(s)
  PROVE  OneRun(j)'
<1>1. /\ Calm(j)
      /\ AtLeastOnce => /\ ~Fault /\ ~Spend("crash") /\ ~SlowHandlers
                        /\ fails[j] = 0 /\ fails'[j] = 0
      /\ ~AtLeastOnce => pending = {}
  BY CalmBefore DEF CalmFacts
<1>2. /\ req' = req /\ (rows'[j] = S!NoRow <=> rows[j] = S!NoRow)
      /\ \A t \in Slots \ {s} : slot'[t] = slot[t]
  BY SlotAlone, SlotMakesNoRow
<1>3. /\ \A c \in Clients : Creating(c, j)' <=> Creating(c, j)
      /\ Publishing(j)' <=> Publishing(j)
      /\ \A t \in Slots \ {s} : Holds(t, j)' <=> Holds(t, j)
  BY <1>2 DEF Creating, Publishing, Holds, Job
<1>4. ~AtLeastOnce => pending' = {}
  BY CalmFactsKept DEF CalmFacts
<1>5. ASSUME effects'[j] = effects[j], dead'[j] = dead[j],
             InReady(j)' => InReady(j), ReadyOnce(j)',
             Holds(s, j)' => /\ Holds(s, j)
                             /\ slot'[s].pc \in SuccessPC
                                  <=> slot[s].pc \in SuccessPC,
             \A m \in pending' :
               m.job = j => \E t \in Slots : slot'[t] # Idle /\ slot'[t].msg = m
      PROVE  OneRun(j)'
  BY <1>2, <1>3, <1>5, OneRunFrame
<1>6. ASSUME UNCHANGED <<ready, nextId>>
      PROVE  (InReady(j)' <=> InReady(j)) /\ ReadyOnce(j)'
  BY <1>6 DEF InReady, ReadyOnce, OneRun
<1>7. ASSUME ~Holds(s, j),
             \A m \in pending' : m.job = j => m \in pending
      PROVE  \A m \in pending' :
               m.job = j => \E t \in Slots : slot'[t] # Idle /\ slot'[t].msg = m
  <2>1. ASSUME NEW m \in pending', m.job = j
        PROVE  \E t \in Slots : slot'[t] # Idle /\ slot'[t].msg = m
    <3>1. PICK t \in Slots : slot[t] # Idle /\ slot[t].msg = m
      BY <1>7, <2>1 DEF OneRun
    <3>2. t # s
      BY <1>7, <2>1, <3>1 DEF Holds, Job
    <3> QED BY <1>2, <3>1, <3>2
  <2> QED BY <2>1
<1>8. CASE Deliver(s)
  <2> DEFINE m == Head(ready)
  <2>1. /\ B!Consume(1) /\ m \in B!Message
        /\ slot[s] = Idle /\ slot'[s].pc = "received" /\ slot'[s].msg = m
        /\ slot'[s] # Idle
    BY <1>8, ConsumeType, TakeReceives DEF Deliver, Occupy, Take, TypeOK
  <2>2. /\ ReadyOnce(j)' /\ (InReady(j)' => InReady(j))
        /\ m.job = j => InReady(j) /\ ~InReady(j)'
    BY <2>1, ConsumeOnce DEF OneRun
  <2>3. effects'[j] = effects[j] /\ dead'[j] = dead[j]
    <3>1. ~HandlerSucceeds(s) /\ ~BuryMessage(s)
      BY <2>1 DEF HandlerSucceeds, BuryMessage, Idle
    <3> QED BY <3>1, SlotCounts
  <2>4. \A n \in pending' : n \in pending \/ n = m
    BY SlotMoves
  <2>5. ~Holds(s, j) /\ (Holds(s, j)' <=> m.job = j)
    BY <2>1 DEF Holds, Job
  <2> HIDE DEF m
  <2>6. CASE m.job # j
    <3>1. \A n \in pending' : n.job = j => n \in pending
      BY <2>4, <2>6
    <3> QED BY <1>5, <1>7, <2>2, <2>3, <2>5, <2>6, <3>1
  <2>7. CASE m.job = j
    <3>1. /\ ~Held(j) /\ Unrun(j) /\ ~Publishing(j)' /\ rows'[j] # S!NoRow
      BY <1>2, <1>3, <2>2, <2>7 DEF OneRun
    <3>2. \A t \in Slots : Holds(t, j)' => t = s
      BY <1>3, <3>1 DEF Held, Holds
    <3>3. \A n \in pending' : n.job = j => n = m
      <4>1. \A n \in pending : n.job # j
        BY <3>1 DEF OneRun, Held, Job
      <4> QED BY <2>4, <4>1
    <3>4. /\ \A c, d \in Clients : Creating(c, j)' /\ Creating(d, j)' => c = d
          /\ \A c \in Clients :
               Creating(c, j)' /\ req'[c].pc # "enqueue" => rows'[j] = S!NoRow
      BY <1>2, <1>3 DEF OneRun
    <3>5. effects'[j] = 0 /\ dead'[j] = 0 /\ slot'[s].pc \notin SuccessPC
      BY <2>1, <2>3, <3>1 DEF Unrun, SuccessPC
    <3> QED BY <2>1, <2>2, <2>7, <3>1, <3>2, <3>3, <3>4, <3>5 DEF OneRun
  <2> QED BY <2>6, <2>7
<1>9. CASE \E m \in pending : Reclaim(s, m)
  <2>1. PICK m \in pending : Reclaim(s, m)
    BY <1>9
  <2>2. /\ slot[s] = Idle /\ slot'[s].msg = m /\ AtLeastOnce
        /\ UNCHANGED brokerVars /\ UNCHANGED effects
        /\ \A t \in Slots : slot[t].msg # m
    BY <1>1, <2>1 DEF Reclaim, Occupy, B!Reclaim, brokerVars, envVars, TypeOK
  <2>3. m.job # j
    BY <2>2 DEF OneRun
  <2>4. ~Holds(s, j) /\ ~Holds(s, j)'
    BY <2>2, <2>3 DEF Holds, Job
  <2> QED BY <1>5, <1>6, <1>7, <2>2, <2>4 DEF brokerVars
<1>10. CASE \/ Load(s) \/ MarkRunning(s) \/ LogStart(s) \/ HandlerSucceeds(s)
            \/ HandlerFails(s) \/ SaveOutcome(s) \/ LogSuccess(s)
            \/ LogFailure(s)
  <2>1. /\ slot[s] # Idle /\ slot'[s] # Idle
        /\ slot'[s].msg = slot[s].msg /\ Job(s)' = Job(s)
    BY <1>10, SlotGoesOn
  <2>2. UNCHANGED brokerVars
    BY <1>10 DEF Load, MarkRunning, LogStart, HandlerSucceeds, HandlerFails,
       SaveOutcome, LogSuccess, LogFailure
  <2>3. \A m \in pending' :
          m.job = j => \E t \in Slots : slot'[t] # Idle /\ slot'[t].msg = m
    BY <1>2, <2>1, <2>2 DEF OneRun, brokerVars
  <2>4. /\ Holds(s, j)' <=> Holds(s, j)
        /\ InReady(j)' <=> InReady(j)
        /\ ReadyOnce(j)' /\ dead'[j] = dead[j]
    BY <1>6, <2>1, <2>2 DEF Holds, brokerVars
  <2>5. CASE HandlerSucceeds(s) /\ Job(s) = j
    <3>1. /\ effects'[j] = effects[j] + 1 /\ Holds(s, j)
          /\ slot[s].pc \notin SuccessPC /\ slot'[s].pc \in SuccessPC
      BY <2>1, <2>5, SlotCounts, SlotGoesOn DEF Holds, SuccessPC
    <3>2. /\ effects[j] = 0 /\ dead[j] = 0 /\ Held(j)
          /\ \A t \in Slots : Holds(t, j) => t = s
      BY <3>1 DEF OneRun, Held, Holds
    <3>3. /\ ~Publishing(j)' /\ ~InReady(j)' /\ rows'[j] # S!NoRow
      BY <1>2, <1>3, <2>4, <3>2 DEF OneRun
    <3>4. /\ \A c, d \in Clients : Creating(c, j)' /\ Creating(d, j)' => c = d
          /\ \A c \in Clients :
               Creating(c, j)' /\ req'[c].pc # "enqueue" => rows'[j] = S!NoRow
      BY <1>2, <1>3 DEF OneRun
    <3>5. \A t \in Slots : Holds(t, j)' => t = s
      BY <1>3, <3>2
    <3> QED BY <2>3, <2>4, <3>1, <3>2, <3>3, <3>4, <3>5 DEF OneRun
  <2>6. CASE ~(HandlerSucceeds(s) /\ Job(s) = j)
    <3>1. effects'[j] = effects[j]
      BY <2>6, SlotCounts
    <3>2. Holds(s, j) => (slot'[s].pc \in SuccessPC <=> slot[s].pc \in SuccessPC)
      BY <1>10, <2>6, SlotGoesOn DEF Holds, SuccessPC
    <3> QED BY <1>5, <2>3, <2>4, <3>1, <3>2
  <2> QED BY <2>5, <2>6
<1>11. CASE \/ Reject(s) \/ LoadFails(s) \/ AckMessage(s)
            \/ RequeueMessage(s) \/ BuryMessage(s) \/ Crash(s)
  <2>1. slot[s] # Idle /\ slot'[s] = Idle /\ ~Holds(s, j)'
    BY <1>11, SlotEnds DEF Holds
  <2>2. /\ effects'[j] = effects[j]
        /\ \A m \in pending' : m \in pending
    <3>1. ~HandlerSucceeds(s) /\ ~Deliver(s)
      BY <2>1, SlotGoesOn DEF Deliver
    <3> QED BY <3>1, SlotCounts, SlotMoves
  <2>3. CASE ~Holds(s, j)
    <3>1. Job(s) # j
      BY <2>1, <2>3 DEF Holds
    <3>2. dead'[j] = dead[j]
      BY <3>1, SlotCounts
    <3>3. (InReady(j)' => InReady(j)) /\ ReadyOnce(j)'
      <4>1. CASE RequeueMessage(s) /\ B!Requeue(slot[s].msg)
        <5>1. slot[s].msg \in B!Message /\ slot[s].msg.job # j
          BY <2>1, <3>1, SlotFacts DEF Job
        <5>2. [id |-> nextId, job |-> slot[s].msg.job] \in B!Message
          BY <5>1 DEF B!Message, TypeOK, B!TypeOK
        <5>3. PICK m \in B!Message : ready' = Append(ready, m) /\ m.job # j
          BY <4>1, <5>1, <5>2 DEF B!Requeue, B!Enqueue
        <5> QED BY <5>3, AppendOnce DEF OneRun
      <4>2. ~Deliver(s)
        BY <2>1 DEF Deliver
      <4> QED BY <1>6, <4>1, <4>2, SlotMoves
    <3> QED BY <1>5, <1>7, <2>1, <2>2, <2>3, <3>2, <3>3
  <2>4. CASE Holds(s, j)
    <3>1. /\ \A t \in Slots : Holds(t, j) => t = s
          /\ \A t \in Slots : ~Holds(t, j)'
          /\ Held(j) /\ ~Held(j)' /\ Job(s) = j
      BY <1>3, <2>1, <2>4 DEF OneRun, Held, Holds
    <3>2. CASE Reject(s) \/ LoadFails(s) \/ AckMessage(s)
      <4>1. /\ UNCHANGED <<ready, nextId>> /\ dead'[j] = dead[j]
            /\ AtLeastOnce => pending' = pending \ {slot[s].msg}
        BY <1>1, <3>2 DEF Reject, LoadFails, AckMessage, Acknowledge, B!Ack,
           brokerVars
      <4>2. \A m \in pending' :
              m.job = j => \E t \in Slots : slot'[t] # Idle /\ slot'[t].msg = m
        <5>1. ASSUME NEW m \in pending', m.job = j
              PROVE  FALSE
          <6>1. AtLeastOnce /\ m \in pending /\ m # slot[s].msg
            BY <1>4, <2>2, <4>1, <5>1
          <6>2. PICK t \in Slots : slot[t] # Idle /\ slot[t].msg = m
            BY <5>1, <6>1 DEF OneRun
          <6>3. Holds(t, j)
            BY <5>1, <6>2 DEF Holds, Job
          <6> QED BY <3>1, <6>1, <6>2, <6>3
        <5> QED BY <5>1
      <4> QED BY <1>5, <1>6, <2>1, <2>2, <4>1, <4>2
    <3>3. CASE Crash(s)
      BY <1>1, <3>3 DEF Crash
    <3>4. CASE RequeueMessage(s) \/ BuryMessage(s)
      <4>1. slot[s].pc = "giveBack"
        BY <3>4, SlotEnds
      <4>2. ~AtLeastOnce
        <5>1. fails[j] > 0
          BY <3>1, <4>1 DEF CalmFacts, FailurePC
        <5> QED BY <1>1, <5>1
      <4>3. effects'[j] = 0 /\ dead[j] = 0
        BY <2>2, <2>4, <4>1 DEF OneRun, SuccessPC
      <4>4. ~InReady(j) /\ ~Publishing(j)' /\ rows'[j] # S!NoRow
        BY <1>2, <1>3, <3>1 DEF OneRun
      <4>5. /\ \A c, d \in Clients : Creating(c, j)' /\ Creating(d, j)' => c = d
            /\ \A c \in Clients :
                 Creating(c, j)' /\ req'[c].pc # "enqueue" => rows'[j] = S!NoRow
        BY <1>2, <1>3 DEF OneRun
      <4>6. CASE UNCHANGED <<ready, nextId>>
        <5>1. ~InReady(j)' /\ ReadyOnce(j)' /\ dead'[j] \in {0, 1}
          BY <1>6, <4>3, <4>4, <4>6, SlotCounts
        <5> QED BY <1>4, <3>1, <4>2, <4>3, <4>4, <4>5, <5>1 DEF OneRun
      <4>7. CASE RequeueMessage(s) /\ B!Requeue(slot[s].msg)
        <5>1. /\ slot[s].msg \in B!Message /\ slot[s].msg.job = j
              /\ ready' = Append(ready, slot[s].msg)
          BY <2>1, <3>1, <4>2, <4>7, SlotFacts DEF Job, B!Requeue
        <5>2. ReadyOnce(j)'
          BY <4>4, <5>1, AppendOnce
        <5>3. dead'[j] = 0
          <6>1. ~BuryMessage(s)
            BY <4>7 DEF RequeueMessage, BuryMessage
          <6> QED BY <4>3, <6>1, SlotCounts
        <5>4. Unrun(j)'
          BY <4>3, <5>3 DEF Unrun
        <5> QED BY <1>4, <3>1, <4>2, <4>3, <4>4, <4>5, <5>2, <5>3, <5>4
                DEF OneRun
      <4> QED BY <2>1, <4>6, <4>7, SlotMoves DEF Deliver
    <3> QED BY <1>11, <3>2, <3>3, <3>4
  <2> QED BY <2>3, <2>4
<1> QED BY <1>8, <1>9, <1>10, <1>11 DEF AllSlotSteps, Take, Execute

(***************************************************************************)
(* While nothing brings a message back, a job is in one place at a time:   *)
(* with one request, in the queue once, or with one execution, and what    *)
(* that execution has done is all that was done.                           *)
(***************************************************************************)
LEMMA OncePlaced == Spec => []OnceInv
<1>1. Init => OnceInv
  <2> SUFFICES ASSUME Init PROVE OnceInv
    OBVIOUS
  <2>1. /\ \A k \in BudgetKind : budget[k] <= Budget[k]
        /\ pending = {} /\ ready = <<>>
        /\ \A c \in Clients : req[c] = NoRequest
        /\ \A s \in Slots : slot[s] = Idle
        /\ \A j \in Jobs : effects[j] = 0 /\ dead[j] = 0
    BY TaskQueueAssumption DEF Init, B!Init, BudgetKind
  <2>2. CalmFacts
    BY <2>1 DEF CalmFacts, NoRequest, Idle, FailurePC
  <2>3. ASSUME NEW j \in Jobs
        PROVE  OneRun(j)
    <3>1. /\ \A c \in Clients : ~Creating(c, j) /\ req[c].pc # "enqueue"
          /\ \A s \in Slots : ~Holds(s, j)
          /\ ~Held(j) /\ ~Publishing(j) /\ ~InReady(j) /\ ReadyOnce(j)
          /\ Unrun(j)
      BY <2>1 DEF Creating, NoRequest, Holds, Held, Publishing, InReady,
         ReadyOnce, Unrun
    <3> QED BY <2>1, <3>1 DEF OneRun
  <2> QED BY <2>2, <2>3 DEF OnceInv
<1>2. TypeOK /\ OnceInv /\ [Next]_vars => OnceInv'
  <2> SUFFICES ASSUME TypeOK, OnceInv, [Next]_vars,
                      NEW j \in Jobs, Calm(j)'
               PROVE  OneRun(j)'
    BY CalmFactsKept DEF OnceInv
  <2>1. CalmFacts /\ Calm(j) /\ OneRun(j)
    BY CalmBefore DEF OnceInv
  <2>2. CASE UNCHANGED vars
    BY <2>1, <2>2 DEF vars, storeVars, brokerVars, envVars, OneRun, Creating,
       Publishing, InReady, ReadyOnce, Held, Holds, Unrun, Job
  <2> QED BY <2>1, <2>2, RequestKeepsOneRun, SlotKeepsOneRun
          DEF Next, AllSlotSteps
<1> QED BY <1>1, <1>2, TypeCorrect, PTL DEF Spec

(***************************************************************************)
(* A job that met no failure, no crash, no lost call and no manual retry   *)
(* runs once, although the broker promises at least once: an entry comes   *)
(* back only when nobody acknowledged it, and then nobody holds it.        *)
(***************************************************************************)
THEOREM OnceCorrect == Spec => []OnceWithoutFailures
<1>1. TypeOK /\ OnceInv => OnceWithoutFailures
  <2> SUFFICES ASSUME TypeOK, OnceInv, ~SlowHandlers,
                      \A k \in {"crash", "fault", "retry"} :
                        budget[k] = Budget[k],
                      NEW j \in Jobs, fails[j] = 0
               PROVE  effects[j] <= 1
    BY DEF OnceWithoutFailures
  <2>1. OneRun(j)
    BY DEF OnceInv, Calm, Unspent
  <2>2. effects[j] \in Nat /\ dead[j] \in Nat
    BY DEF TypeOK, B!TypeOK
  <2> QED BY <2>1, <2>2 DEF OneRun
<1> QED BY <1>1, OncePlaced, TypeCorrect, PTL

-----------------------------------------------------------------------------
(* Settled once. *)

LEMMA RequestKeepsSettle ==
  ASSUME TypeOK, [Next]_vars, CalmFacts, SettleInv, NEW j \in Jobs, OneRun(j),
         Unspent("retry"), NEW c \in Clients, BeginRequest(c) \/ ServeRequest(c)
  PROVE  Counted(j)' /\ req'[c].pc # "cancel"
<1>1. /\ slot' = slot /\ fails' = fails
      /\ \A d \in Clients \ {c} : req'[d] = req[d]
      /\ UNCHANGED <<ready, nextId>> \/ (Enqueue(c) /\ B!Enqueue(req[c].job))
  BY RequestWrites
<1>2. /\ ~CancelJob(c) /\ ~RetryJob(c) /\ ~Spend("cancel") /\ ~Spend("retry")
      /\ ~Fault
  BY DEF SettleInv, CalmFacts, CancelJob, RetryJob, Spend, Fault
<1>3. req'[c].pc # "cancel"
  BY <1>2, RequestGoesOn DEF NoRequest
<1>4. /\ fails[j] \in Nat /\ MaxAttempts \in Nat \ {0}
      /\ Counted(j)
  BY TaskQueueAssumption DEF TypeOK, SettleInv
<1>5. rows[j] = S!NoRow => fails[j] = 0
  BY <1>4 DEF Counted, OneRun, Held, Holds, S!NoRow
<1>6. rows'[j] = rows[j] \/ (rows'[j] = S!NewRow /\ rows[j] = S!NoRow)
  <2>1. ASSUME Insert(c), req[c].job = j
        PROVE  rows[j] = S!NoRow
    BY <2>1 DEF Insert, OneRun, Creating
  <2> QED BY <1>2, <2>1, RequestWrites
<1>7. rows'[j].attempts = rows[j].attempts
  BY <1>6 DEF S!NewRow, S!NoRow
<1>8. ASSUME Publishing(j)'
      PROVE  fails[j] < MaxAttempts
  <2>1. PICK d \in Clients : req'[d].pc = "enqueue" /\ req'[d].job = j
    BY <1>8 DEF Publishing
  <2>2. CASE d # c
    BY <1>1, <1>4, <2>1, <2>2 DEF Counted, Publishing
  <2>3. CASE d = c
    <3>1. Insert(c) /\ req[c].pc = "insert" /\ req[c].job = j
      BY <1>2, <2>1, <2>3, RequestGoesOn DEF NoRequest
    <3>2. rows[j] = S!NoRow
      BY <3>1 DEF OneRun, Creating
    <3> QED BY <1>4, <1>5, <3>2
  <2> QED BY <2>2, <2>3
<1>9. ASSUME InReady(j)'
      PROVE  fails[j] < MaxAttempts
  <2>1. CASE UNCHANGED <<ready, nextId>>
    BY <1>4, <1>9, <2>1 DEF InReady, Counted
  <2>2. CASE Enqueue(c) /\ B!Enqueue(req[c].job)
    <3>1. req[c].job \in Jobs /\ req[c].pc = "enqueue"
      BY <2>2 DEF Enqueue, TypeOK, Request, NoRequest
    <3> DEFINE m == [id |-> nextId, job |-> req[c].job]
    <3>2. m \in B!Message /\ ready' = Append(ready, m) /\ m.job = req[c].job
      BY <2>2, <3>1 DEF B!Enqueue, B!Message, TypeOK, B!TypeOK
    <3> HIDE DEF m
    <3>3. InReady(j) \/ Publishing(j)
      BY <1>9, <3>1, <3>2, AppendOnce DEF Publishing
    <3> QED BY <1>4, <3>3 DEF Counted
  <2> QED BY <1>1, <2>1, <2>2
<1>10. Counted(j)'
  BY <1>1, <1>4, <1>7, <1>8, <1>9 DEF Counted, Holds, Job
<1> QED BY <1>3, <1>10

LEMMA SlotKeepsSettle ==
  ASSUME TypeOK, [Next]_vars, CalmFacts, SettleInv, NEW j \in Jobs, OneRun(j),
         ~AtLeastOnce, NEW s \in Slots, AllSlotSteps(s)
  PROVE  Counted(j)'
<1>1. /\ req' = req /\ \A t \in Slots \ {s} : slot'[t] = slot[t]
      /\ Publishing(j)' <=> Publishing(j)
      /\ \A t \in Slots \ {s} : Holds(t, j)' <=> Holds(t, j)
  BY SlotAlone DEF Publishing, Holds, Job
<1>2. /\ budget["fault"] = 0 /\ ~Fault /\ pending = {}
  BY DEF SettleInv, CalmFacts, Fault, Spend
<1>3. /\ fails[j] \in Nat /\ MaxAttempts \in Nat \ {0} /\ Counted(j)
      /\ rows[j].attempts \in Nat
  BY TaskQueueAssumption
     DEF TypeOK, SettleInv, S!TypeOK, S!Row, S!NoRow
<1>4. ASSUME Holds(s, j), slot[s].pc # "saveFailure"
      PROVE  rows[j].attempts = fails[j]
  BY <1>3, <1>4 DEF Counted, OneRun
<1>5. ASSUME Holds(s, j)
      PROVE  /\ \A t \in Slots : Holds(t, j) => t = s
             /\ ~Publishing(j)' /\ ~InReady(j)
  BY <1>1, <1>5 DEF OneRun, Held, Holds
<1>6. CASE ~Holds(s, j) /\ ~Holds(s, j)'
  <2>1. fails'[j] = fails[j] /\ rows'[j] = rows[j]
    <3>1. slot[s] # Idle => Job(s) # j
      BY <1>6 DEF Holds
    <3>2. ~HandlerFails(s) \/ Job(s) # j
      BY <3>1 DEF HandlerFails, Idle
    <3>3. ~(MarkRunning(s) \/ SaveOutcome(s)) \/ Job(s) # j
      BY <3>1, SlotGoesOn
    <3> QED BY <3>2, <3>3, SlotCounts, SlotWrites
  <2>2. InReady(j)' => InReady(j)
    <3>1. CASE Deliver(s)
      BY <3>1, ConsumeOnce DEF OneRun, Deliver
    <3>2. CASE RequeueMessage(s) /\ B!Requeue(slot[s].msg)
      <4>1. slot[s].msg \in B!Message /\ slot[s].msg.job # j
        BY <1>6, <3>2, SlotEnds, SlotFacts DEF Job, Holds
      <4>2. ready' = Append(ready, slot[s].msg)
        BY <3>2 DEF B!Requeue
      <4> QED BY <4>1, <4>2, AppendOnce
    <3>3. CASE UNCHANGED <<ready, nextId>>
      BY <3>3 DEF InReady
    <3> QED BY <3>1, <3>2, <3>3, SlotMoves
  <2>3. \A t \in Slots : Holds(t, j)' <=> (Holds(t, j) /\ t # s)
    BY <1>1, <1>6
  <2>4. \A t \in Slots : Holds(t, j) => t # s
    BY <1>6
  <2> QED BY <1>1, <1>3, <2>1, <2>2, <2>3, <2>4 DEF Counted
<1>7. CASE ~Holds(s, j) /\ Holds(s, j)'
  <2>1. Deliver(s) /\ Head(ready).job = j
    <3>1. Take(s)
      BY <1>7, SlotGoesOn, SlotEnds DEF Holds, AllSlotSteps, Execute
    <3>2. Deliver(s)
      BY <1>2, <3>1 DEF Take
    <3>3. slot'[s].msg = Head(ready)
      BY <3>2 DEF Deliver, Occupy, TypeOK
    <3> QED BY <1>7, <3>2, <3>3 DEF Holds, Job
  <2>2. InReady(j) /\ ~InReady(j)'
    BY <2>1, ConsumeOnce DEF OneRun, Deliver
  <2>3. /\ fails[j] < MaxAttempts /\ rows[j].attempts = fails[j]
        /\ ~Publishing(j)
        /\ \A t \in Slots : Holds(t, j)' => t = s
    BY <1>1, <1>3, <2>2 DEF Counted, OneRun, Held, Holds
  <2>4. fails' = fails /\ rows' = rows /\ slot'[s].pc = "received"
    BY <2>1, TakeReceives DEF Deliver, envVars, storeVars, Take
  <2> QED BY <1>1, <1>3, <2>2, <2>3, <2>4 DEF Counted, FailurePC
<1>8. CASE Holds(s, j) /\ Holds(s, j)'
  <2>1. /\ slot[s] # Idle /\ slot'[s] # Idle /\ Job(s) = j
        /\ \A t \in Slots : Holds(t, j)' => t = s
    BY <1>1, <1>5, <1>8 DEF Holds
  <2>2. \/ Load(s) \/ MarkRunning(s) \/ LogStart(s) \/ HandlerSucceeds(s)
        \/ HandlerFails(s) \/ SaveOutcome(s) \/ LogSuccess(s)
        \/ LogFailure(s)
    BY <2>1, TakeReceives, SlotEnds DEF AllSlotSteps, Execute
  <2>3. ~Publishing(j)' /\ ~InReady(j)'
    <3>1. UNCHANGED brokerVars
      BY <2>2 DEF Load, MarkRunning, LogStart, HandlerSucceeds, HandlerFails,
         SaveOutcome, LogSuccess, LogFailure
    <3> QED BY <1>5, <1>8, <3>1 DEF brokerVars, InReady
  <2>4. /\ slot[s].pc # "received" => slot[s].row.attempts = fails[j]
        /\ slot[s].pc \notin FailurePC \/ slot[s].row.status = "RETRYING"
             => fails[j] < MaxAttempts
        /\ fails[j] <= MaxAttempts
    BY <1>3, <1>8 DEF Counted
  <2>5. ASSUME fails'[j] \in Nat, fails'[j] <= MaxAttempts,
               rows'[j].attempts = fails'[j] \/ slot'[s].pc = "saveFailure",
               slot'[s].pc # "received" => slot'[s].row.attempts = fails'[j],
               slot'[s].pc \notin FailurePC \/ slot'[s].row.status = "RETRYING"
                 => fails'[j] < MaxAttempts
        PROVE  Counted(j)'
    BY <1>8, <2>1, <2>3, <2>5 DEF Counted
  <2>6. CASE HandlerFails(s)
    <3>1. /\ slot[s].pc = "running" /\ slot'[s].pc = "saveFailure"
          /\ slot'[s].row = FailedRow(slot[s].row)
          /\ fails'[j] = fails[j] + 1
      BY <2>1, <2>6, SlotGoesOn, SlotCounts
    <3>2. slot[s].row.attempts = fails[j] /\ fails[j] < MaxAttempts
      BY <2>4, <3>1 DEF FailurePC
    <3>3. /\ slot'[s].row.attempts = fails[j] + 1
          /\ slot'[s].row.status = "RETRYING" => fails[j] + 1 < MaxAttempts
      BY <1>3, <3>1, <3>2 DEF FailedRow
    <3> QED BY <1>3, <2>5, <3>1, <3>2, <3>3 DEF FailurePC
  <2>7. CASE ~HandlerFails(s)
    <3>1. fails'[j] = fails[j]
      BY <2>7, SlotCounts
    <3>2. CASE Load(s)
      <4>1. /\ slot[s].pc = "received" /\ slot'[s].pc = "loaded"
            /\ slot'[s].row = rows[j] /\ rows'[j] = rows[j]
        BY <2>1, <3>2, SlotGoesOn DEF Load, storeVars
      <4>2. rows[j].attempts = fails[j] /\ fails[j] < MaxAttempts
        BY <1>4, <1>8, <2>4, <4>1 DEF FailurePC
      <4> QED BY <1>3, <2>5, <3>1, <4>1, <4>2
    <3>3. CASE MarkRunning(s)
      <4>1. /\ slot[s].pc = "loaded" /\ slot'[s].pc = "logStart"
            /\ slot'[s].row.attempts = slot[s].row.attempts
            /\ rows'[j] = slot'[s].row
        BY <1>2, <2>1, <3>3, SlotGoesOn, SlotWrites
      <4>2. slot[s].row.attempts = fails[j] /\ fails[j] < MaxAttempts
        BY <2>4, <4>1 DEF FailurePC
      <4> QED BY <1>3, <2>5, <3>1, <4>1, <4>2
    <3>4. CASE HandlerSucceeds(s)
      <4>1. /\ slot[s].pc = "running" /\ slot'[s].pc = "saveSuccess"
            /\ slot'[s].row.attempts = slot[s].row.attempts
            /\ rows'[j] = rows[j]
        BY <2>1, <3>4, SlotGoesOn DEF HandlerSucceeds, storeVars
      <4>2. /\ slot[s].row.attempts = fails[j] /\ fails[j] < MaxAttempts
            /\ rows[j].attempts = fails[j]
        BY <1>4, <1>8, <2>4, <4>1 DEF FailurePC
      <4> QED BY <1>3, <2>5, <3>1, <4>1, <4>2
    <3>5. CASE SaveOutcome(s)
      <4>1. /\ slot'[s].row = slot[s].row /\ rows'[j] = slot'[s].row
            /\ \/ slot[s].pc = "saveSuccess" /\ slot'[s].pc = "logSuccess"
               \/ slot[s].pc = "saveFailure" /\ slot'[s].pc = "logFailure"
        BY <1>2, <2>1, <3>5, SlotGoesOn, SlotWrites
      <4>2. slot[s].row.attempts = fails[j]
        BY <2>4, <4>1
      <4> QED BY <1>3, <2>4, <2>5, <3>1, <4>1, <4>2 DEF FailurePC
    <3>6. CASE LogStart(s) \/ LogSuccess(s) \/ LogFailure(s)
      <4>1. /\ slot'[s].row = slot[s].row /\ rows'[j] = rows[j]
            /\ \/ slot[s].pc = "logStart" /\ slot'[s].pc = "running"
               \/ slot[s].pc = "logSuccess" /\ slot'[s].pc = "ack"
               \/ slot[s].pc = "logFailure" /\ slot'[s].pc = "giveBack"
        BY <2>1, <3>6, SlotGoesOn, SlotWrites
      <4>2. slot[s].row.attempts = fails[j] /\ rows[j].attempts = fails[j]
        BY <1>4, <1>8, <2>4, <4>1
      <4> QED BY <1>3, <2>4, <2>5, <3>1, <4>1, <4>2 DEF FailurePC
    <3> QED BY <2>2, <2>7, <3>2, <3>3, <3>4, <3>5, <3>6
  <2> QED BY <2>6, <2>7
<1>9. CASE Holds(s, j) /\ ~Holds(s, j)'
  <2>1. /\ slot[s] # Idle /\ Job(s) = j
        /\ \A t \in Slots : ~Holds(t, j)'
    BY <1>1, <1>5, <1>9 DEF Holds
  <2>2. \/ Reject(s) \/ LoadFails(s) \/ AckMessage(s)
        \/ RequeueMessage(s) \/ BuryMessage(s) \/ Crash(s)
    BY <1>9, <2>1, TakeReceives, SlotGoesOn
       DEF AllSlotSteps, Execute, Holds
  <2>3. fails'[j] = fails[j] /\ rows'[j] = rows[j] /\ slot[s].pc # "saveFailure"
    <3>1. /\ ~HandlerFails(s) /\ ~MarkRunning(s) /\ ~SaveOutcome(s)
          /\ slot[s].pc # "saveFailure"
      BY <1>2, <2>2, SlotEnds, SlotGoesOn DEF LoadFails, Crash
    <3> QED BY <3>1, SlotCounts, SlotWrites
  <2>4. rows[j].attempts = fails[j] /\ ~Publishing(j)'
    BY <1>4, <1>5, <1>9, <2>3
  <2>5. InReady(j)' => fails[j] < MaxAttempts
    <3>1. CASE RequeueMessage(s)
      <4>1. slot[s].pc = "giveBack" /\ slot[s].row.status = "RETRYING"
        BY <3>1 DEF RequeueMessage
      <4> QED BY <1>3, <1>9, <4>1 DEF Counted
    <3>2. CASE UNCHANGED <<ready, nextId>>
      BY <1>5, <1>9, <3>2 DEF InReady
    <3>3. ~Deliver(s)
      BY <2>1 DEF Deliver
    <3> QED BY <3>1, <3>2, <3>3, SlotMoves
  <2> QED BY <1>3, <2>1, <2>3, <2>4, <2>5 DEF Counted
<1> QED BY <1>6, <1>7, <1>8, <1>9

(* The one copy of the row there is has counted every failure.             *)
LEMMA SettlingCounted ==
  ASSUME ~AtLeastOnce, \A k \in {"fault", "cancel", "retry"} : Budget[k] = 0
  PROVE  Spec => []SettleInv
<1>1. Init => SettleInv
  <2> SUFFICES ASSUME Init PROVE SettleInv
    OBVIOUS
  <2>1. /\ budget = Budget /\ ready = <<>> /\ MaxAttempts \in Nat \ {0}
        /\ \A c \in Clients : req[c] = NoRequest
        /\ \A s \in Slots : slot[s] = Idle
        /\ \A j \in Jobs : fails[j] = 0 /\ rows[j] = S!NoRow
    BY TaskQueueAssumption DEF Init, B!Init, S!Init
  <2>2. /\ S!NoRow.attempts = 0 /\ NoRequest.pc = "idle"
        /\ \A j \in Jobs : ~Publishing(j) /\ ~InReady(j)
    BY <2>1 DEF S!NoRow, NoRequest, Publishing, InReady
  <2>3. ASSUME NEW j \in Jobs
        PROVE  Counted(j)
    <3>1. /\ fails[j] = 0 /\ rows[j].attempts = 0
          /\ MaxAttempts \in Nat /\ 0 < MaxAttempts
          /\ \A s \in Slots : ~Holds(s, j)
      BY <2>1, <2>2 DEF Holds
    <3> QED BY <3>1 DEF Counted
  <2> QED BY <2>1, <2>2, <2>3 DEF SettleInv
<1>2. TypeOK /\ OnceInv /\ SettleInv /\ [Next]_vars => SettleInv'
  <2> SUFFICES ASSUME TypeOK, OnceInv, SettleInv, [Next]_vars
               PROVE  SettleInv'
    OBVIOUS
  <2>1. \A k \in {"fault", "cancel", "retry"} :
          k \in BudgetKind /\ budget'[k] = 0
    <3>1. \A k \in BudgetKind : budget'[k] \in Nat /\ budget'[k] <= budget[k]
      BY BudgetFalls, TypeNext DEF TypeOK
    <3>2. \A k \in {"fault", "cancel", "retry"} : k \in BudgetKind
      BY DEF BudgetKind
    <3> QED BY <3>1, <3>2 DEF SettleInv
  <2>2. Unspent("retry")
    BY DEF Unspent, SettleInv
  <2>3. CalmFacts /\ \A j \in Jobs : OneRun(j)
    BY <2>2 DEF OnceInv, Calm
  <2>4. CASE UNCHANGED vars
    BY <2>4 DEF vars, storeVars, brokerVars, envVars, SettleInv, Counted,
       Publishing, InReady, Holds, Job
  <2>5. ASSUME NEW c \in Clients, BeginRequest(c) \/ ServeRequest(c)
        PROVE  SettleInv'
    <3>1. req'[c].pc # "cancel" /\ \A j \in Jobs : Counted(j)'
      <4>1. \A j \in Jobs : Counted(j)' /\ req'[c].pc # "cancel"
        BY <2>2, <2>3, <2>5, RequestKeepsSettle
      <4>2. req'[c].pc # "cancel"
        <5>1. ~Spend("cancel") /\ req[c].pc # "retry"
          BY <2>2, <2>3 DEF SettleInv, Spend, CalmFacts
        <5> QED BY <2>5, <5>1, RequestGoesOn DEF NoRequest
      <4> QED BY <4>1, <4>2
    <3>2. \A d \in Clients \ {c} : req'[d] = req[d]
      BY <2>5, RequestWrites
    <3> QED BY <2>1, <3>1, <3>2 DEF SettleInv
  <2>6. ASSUME NEW s \in Slots, AllSlotSteps(s)
        PROVE  SettleInv'
    <3>1. req' = req /\ \A j \in Jobs : Counted(j)'
      BY <2>3, <2>6, SlotKeepsSettle, SlotAlone
    <3> QED BY <2>1, <3>1 DEF SettleInv
  <2> QED BY <2>4, <2>5, <2>6 DEF Next, AllSlotSteps
<1> QED BY <1>1, <1>2, OncePlaced, TypeCorrect, PTL DEF Spec

(***************************************************************************)
(* With the memory broker, when no call of the store or the broker fails   *)
(* and nobody cancels or retries a job by hand, a job is settled once: at  *)
(* most max_attempts failures, and one success or one burial, not both.    *)
(* The one copy of the row there is has counted every failure.             *)
(***************************************************************************)
THEOREM SettledCorrect ==
  ASSUME ~AtLeastOnce, \A k \in {"fault", "cancel", "retry"} : Budget[k] = 0
  PROVE  Spec => []SettledOnce
<1>1. TypeOK /\ OnceInv /\ SettleInv => SettledOnce
  <2> SUFFICES ASSUME TypeOK, OnceInv, SettleInv, NEW j \in Jobs
               PROVE  fails[j] <= MaxAttempts /\ effects[j] + dead[j] <= 1
    BY DEF SettledOnce
  <2>1. OneRun(j)
    BY DEF OnceInv, Calm, Unspent, SettleInv
  <2> QED BY <2>1 DEF OneRun, SettleInv, Counted
<1> QED BY <1>1, SettlingCounted, OncePlaced, TypeCorrect, PTL

-----------------------------------------------------------------------------
(* What the row of a job shows of the one place the job is in. *)

Queueing == {"QUEUED", "RETRYING"}
Shown(j) ==
  /\ Publishing(j) \/ InReady(j) => rows[j].status \in Queueing
  /\ \A s \in Slots :
       Holds(s, j) =>
         /\ slot[s].pc \in BeforePC => rows[j].status \in Queueing
         /\ slot[s].pc \in {"logStart", "running", "saveSuccess", "saveFailure"}
              => rows[j].status = "RUNNING"
         /\ slot[s].pc = "saveFailure" =>
              /\ rows[j].attempts + 1 = fails[j]
              /\ slot[s].row.status =
                   IF fails[j] = MaxAttempts THEN "FAILED" ELSE "RETRYING"
         /\ slot[s].pc \in {"logFailure", "giveBack"} =>
              rows[j].status = slot[s].row.status
         /\ slot[s].pc = "saveSuccess" => slot[s].row.status = "SUCCEEDED"

(* The steps of JobLifecycle, seen in the row of j. *)
Lives(j) ==
  \/ /\ rows[j].status = "ABSENT" /\ rows'[j].status = "QUEUED"
     /\ rows'[j].attempts = rows[j].attempts
  \/ /\ rows[j].status \in Queueing /\ rows'[j].status = "RUNNING"
     /\ rows'[j].attempts = rows[j].attempts
  \/ /\ rows[j].status = "RUNNING" /\ rows'[j].status = "SUCCEEDED"
     /\ rows'[j].attempts = rows[j].attempts
  \/ /\ rows[j].status = "RUNNING"
     /\ rows'[j].attempts = rows[j].attempts + 1
     /\ rows'[j].status =
          IF rows'[j].attempts = MaxAttempts THEN "FAILED" ELSE "RETRYING"

LEMMA LivesIsStep ==
  ASSUME NEW j \in Jobs, \A i \in Jobs \ {j} : rows'[i] = rows[i], Lives(j)
  PROVE  Lifecycle!Next
<1> DEFINE status == [i \in Jobs |-> rows[i].status]
           attempts == [i \in Jobs |-> rows[i].attempts]
           status1 == [i \in Jobs |-> rows'[i].status]
           attempts1 == [i \in Jobs |-> rows'[i].attempts]
<1>1. /\ status1 = [status EXCEPT ![j] = rows'[j].status]
      /\ attempts1 = [attempts EXCEPT ![j] = rows'[j].attempts]
      /\ status[j] = rows[j].status /\ attempts[j] = rows[j].attempts
      /\ attempts1[j] = rows'[j].attempts
  OBVIOUS
<1>2. rows'[j].attempts = rows[j].attempts => attempts1 = attempts
  OBVIOUS
<1>3. CASE /\ rows[j].status = "ABSENT" /\ rows'[j].status = "QUEUED"
           /\ rows'[j].attempts = rows[j].attempts
  <2>1. Lifecycle!Submit(j)
    BY <1>1, <1>2, <1>3 DEF Lifecycle!Submit, Lifecycle!Become
  <2> QED BY <2>1 DEF Lifecycle!Next
<1>4. CASE /\ rows[j].status \in Queueing /\ rows'[j].status = "RUNNING"
           /\ rows'[j].attempts = rows[j].attempts
  <2>1. Lifecycle!Start(j)
    BY <1>1, <1>2, <1>4 DEF Lifecycle!Start, Lifecycle!Become, Queueing
  <2> QED BY <2>1 DEF Lifecycle!Next
<1>5. CASE /\ rows[j].status = "RUNNING" /\ rows'[j].status = "SUCCEEDED"
           /\ rows'[j].attempts = rows[j].attempts
  <2>1. Lifecycle!Succeed(j)
    BY <1>1, <1>2, <1>5 DEF Lifecycle!Succeed, Lifecycle!Become
  <2> QED BY <2>1 DEF Lifecycle!Next
<1>6. CASE /\ rows[j].status = "RUNNING"
           /\ rows'[j].attempts = rows[j].attempts + 1
           /\ rows'[j].status =
                IF rows'[j].attempts = MaxAttempts THEN "FAILED" ELSE "RETRYING"
  <2>1. attempts1 = [attempts EXCEPT ![j] = @ + 1]
    BY <1>1, <1>6
  <2>2. Lifecycle!Fail(j)
    BY <1>1, <1>6, <2>1 DEF Lifecycle!Fail, Lifecycle!Become
  <2> QED BY <2>2 DEF Lifecycle!Next
<1> QED BY <1>3, <1>4, <1>5, <1>6 DEF Lives

LEMMA RequestKeepsShown ==
  ASSUME TypeOK, [Next]_vars, CalmFacts, SettleInv, NEW j \in Jobs, OneRun(j),
         Shown(j), Unspent("retry"),
         NEW c \in Clients, BeginRequest(c) \/ ServeRequest(c)
  PROVE  /\ Shown(j)'
         /\ rows'[j] = rows[j] \/ (Lives(j) /\ req[c].job = j)
<1>1. /\ slot' = slot /\ fails' = fails
      /\ \A d \in Clients \ {c} : req'[d] = req[d]
      /\ UNCHANGED <<ready, nextId>> \/ (Enqueue(c) /\ B!Enqueue(req[c].job))
  BY RequestWrites
<1>2. ~CancelJob(c) /\ ~RetryJob(c) /\ ~Spend("cancel") /\ ~Spend("retry")
  BY DEF SettleInv, CalmFacts, CancelJob, RetryJob, Spend
<1>3. \/ rows'[j] = rows[j]
      \/ rows'[j] = S!NewRow /\ rows[j] = S!NoRow /\ req[c].job = j
  <2>1. ASSUME Insert(c), req[c].job = j
        PROVE  rows[j] = S!NoRow
    BY <2>1 DEF Insert, OneRun, Creating
  <2> QED BY <1>2, <2>1, RequestWrites
<1>4. rows'[j] = rows[j] \/ (Lives(j) /\ req[c].job = j)
  BY <1>3 DEF Lives, S!NewRow, S!NoRow
<1>5. ASSUME Publishing(j)'
      PROVE  (Publishing(j) /\ rows'[j] = rows[j]) \/ rows'[j] = S!NewRow
  <2>1. PICK d \in Clients : req'[d].pc = "enqueue" /\ req'[d].job = j
    BY <1>5 DEF Publishing
  <2>2. CASE d # c
    BY <1>1, <1>3, <2>1, <2>2 DEF Publishing
  <2>3. CASE d = c
    <3>1. /\ Insert(c) /\ req[c].pc = "insert" /\ req[c].job = j
          /\ req'[c].pc = "enqueue"
      BY <1>2, <2>1, <2>3, RequestGoesOn DEF NoRequest
    <3>2. S!CreateJob(j)
      <4>1. ~Reply(c)
        BY <3>1 DEF Reply, TypeOK, NoRequest
      <4> QED BY <3>1, <4>1 DEF Insert
    <3>3. rows'[j] = S!NewRow
      BY <3>2 DEF S!CreateJob, TypeOK, S!TypeOK
    <3> QED BY <3>3
  <2> QED BY <2>2, <2>3
<1>6. ASSUME InReady(j)'
      PROVE  InReady(j) \/ Publishing(j)
  <2>1. CASE UNCHANGED <<ready, nextId>>
    BY <1>6, <2>1 DEF InReady
  <2>2. CASE Enqueue(c) /\ B!Enqueue(req[c].job)
    <3>1. req[c].job \in Jobs /\ req[c].pc = "enqueue"
      BY <2>2 DEF Enqueue, TypeOK, Request, NoRequest
    <3> DEFINE m == [id |-> nextId, job |-> req[c].job]
    <3>2. m \in B!Message /\ ready' = Append(ready, m) /\ m.job = req[c].job
      BY <2>2, <3>1 DEF B!Enqueue, B!Message, TypeOK, B!TypeOK
    <3> HIDE DEF m
    <3> QED BY <1>6, <3>1, <3>2, AppendOnce DEF Publishing
  <2> QED BY <1>1, <2>1, <2>2
<1>7. Publishing(j)' \/ InReady(j)' => rows'[j].status \in Queueing
  <2>1. rows'[j] = S!NewRow => rows'[j].status \in Queueing
    BY DEF S!NewRow, Queueing
  <2>2. rows'[j] = rows[j] \/ rows'[j] = S!NewRow
    BY <1>3
  <2> QED BY <1>5, <1>6, <2>1, <2>2 DEF Shown
<1>8. CASE rows'[j] = rows[j]
  <2>1. \A s \in Slots :
          /\ Holds(s, j)' <=> Holds(s, j)
          /\ slot'[s] = slot[s]
    BY <1>1 DEF Holds, Job
  <2> QED BY <1>1, <1>4, <1>7, <1>8, <2>1 DEF Shown
<1>9. CASE rows'[j] = S!NewRow /\ rows[j] = S!NoRow
  <2>1. \A s \in Slots : ~Holds(s, j)'
    BY <1>1, <1>9 DEF OneRun, Held, Holds, Job
  <2> QED BY <1>4, <1>7, <2>1 DEF Shown
<1> QED BY <1>3, <1>8, <1>9

LEMMA SlotKeepsShown ==
  ASSUME TypeOK, [Next]_vars, CalmFacts, SettleInv, NEW j \in Jobs, OneRun(j),
         Shown(j), ~AtLeastOnce, NEW s \in Slots, AllSlotSteps(s)
  PROVE  /\ Shown(j)'
         /\ rows'[j] = rows[j] \/ (Lives(j) /\ Job(s) = j)
<1>1. /\ \A t \in Slots \ {s} : slot'[t] = slot[t]
      /\ Publishing(j)' <=> Publishing(j)
      /\ \A t \in Slots \ {s} : Holds(t, j)' <=> Holds(t, j)
  BY SlotAlone DEF Publishing, Holds, Job
<1>2. /\ budget["fault"] = 0 /\ ~Fault /\ pending = {}
  BY DEF SettleInv, CalmFacts, Fault, Spend
<1>3. /\ fails[j] \in Nat /\ MaxAttempts \in Nat \ {0} /\ Counted(j)
      /\ rows[j].attempts \in Nat
  BY TaskQueueAssumption
     DEF TypeOK, SettleInv, S!TypeOK, S!Row, S!NoRow
<1>4. ASSUME Holds(s, j), slot[s].pc # "saveFailure"
      PROVE  rows[j].attempts = fails[j]
  BY <1>3, <1>4 DEF Counted, OneRun
<1>5. ASSUME Holds(s, j)
      PROVE  /\ \A t \in Slots : Holds(t, j) => t = s
             /\ ~Publishing(j)' /\ ~InReady(j)
  BY <1>1, <1>5 DEF OneRun, Held, Holds
<1>6. CASE ~Holds(s, j) /\ ~Holds(s, j)'
  <2>1. fails'[j] = fails[j] /\ rows'[j] = rows[j]
    <3>1. slot[s] # Idle => Job(s) # j
      BY <1>6 DEF Holds
    <3>2. ~HandlerFails(s) \/ Job(s) # j
      BY <3>1 DEF HandlerFails, Idle
    <3>3. ~(MarkRunning(s) \/ SaveOutcome(s)) \/ Job(s) # j
      BY <3>1, SlotGoesOn
    <3> QED BY <3>2, <3>3, SlotCounts, SlotWrites
  <2>2. InReady(j)' => InReady(j)
    <3>1. CASE Deliver(s)
      BY <3>1, ConsumeOnce DEF OneRun, Deliver
    <3>2. CASE RequeueMessage(s) /\ B!Requeue(slot[s].msg)
      <4>1. slot[s].msg \in B!Message /\ slot[s].msg.job # j
        BY <1>6, <3>2, SlotEnds, SlotFacts DEF Job, Holds
      <4>2. ready' = Append(ready, slot[s].msg)
        BY <3>2 DEF B!Requeue
      <4> QED BY <4>1, <4>2, AppendOnce
    <3>3. CASE UNCHANGED <<ready, nextId>>
      BY <3>3 DEF InReady
    <3> QED BY <3>1, <3>2, <3>3, SlotMoves
  <2>3. \A t \in Slots :
          Holds(t, j)' => Holds(t, j) /\ slot'[t] = slot[t]
    BY <1>1, <1>6
  <2> QED BY <1>1, <2>1, <2>2, <2>3 DEF Shown
<1>7. CASE ~Holds(s, j) /\ Holds(s, j)'
  <2>1. Deliver(s) /\ Head(ready).job = j
    <3>1. Take(s)
      BY <1>7, SlotGoesOn, SlotEnds DEF Holds, AllSlotSteps, Execute
    <3>2. Deliver(s)
      BY <1>2, <3>1 DEF Take
    <3>3. slot'[s].msg = Head(ready)
      BY <3>2 DEF Deliver, Occupy, TypeOK
    <3> QED BY <1>7, <3>2, <3>3 DEF Holds, Job
  <2>2. InReady(j) /\ ~InReady(j)'
    BY <2>1, ConsumeOnce DEF OneRun, Deliver
  <2>3. /\ rows[j].status \in Queueing /\ ~Publishing(j)
        /\ \A t \in Slots : Holds(t, j)' => t = s
    BY <1>1, <2>2 DEF Shown, OneRun, Held, Holds
  <2>4. rows' = rows /\ slot'[s].pc = "received"
    BY <2>1, TakeReceives DEF Deliver, storeVars, Take
  <2> QED BY <1>1, <2>2, <2>3, <2>4 DEF Shown
<1>8. CASE Holds(s, j) /\ Holds(s, j)'
  <2>1. /\ slot[s] # Idle /\ slot'[s] # Idle /\ Job(s) = j
        /\ \A t \in Slots : Holds(t, j)' => t = s
    BY <1>1, <1>5, <1>8 DEF Holds
  <2>2. \/ Load(s) \/ MarkRunning(s) \/ LogStart(s) \/ HandlerSucceeds(s)
        \/ HandlerFails(s) \/ SaveOutcome(s) \/ LogSuccess(s)
        \/ LogFailure(s)
    BY <2>1, TakeReceives, SlotEnds DEF AllSlotSteps, Execute
  <2>3. ~Publishing(j)' /\ ~InReady(j)'
    <3>1. UNCHANGED brokerVars
      BY <2>2 DEF Load, MarkRunning, LogStart, HandlerSucceeds, HandlerFails,
         SaveOutcome, LogSuccess, LogFailure
    <3> QED BY <1>5, <1>8, <3>1 DEF brokerVars, InReady
  <2>4. /\ slot[s].pc # "received" => slot[s].row.attempts = fails[j]
        /\ slot[s].pc \notin FailurePC \/ slot[s].row.status = "RETRYING"
             => fails[j] < MaxAttempts
    BY <1>3, <1>8 DEF Counted
  <2>5. ASSUME slot'[s].pc = "loaded" => rows'[j].status \in Queueing,
               slot'[s].pc \in {"logStart", "running", "saveSuccess",
                                "saveFailure"} => rows'[j].status = "RUNNING",
               slot'[s].pc = "saveFailure" =>
                 /\ rows'[j].attempts + 1 = fails'[j]
                 /\ slot'[s].row.status =
                      IF fails'[j] = MaxAttempts THEN "FAILED" ELSE "RETRYING",
               slot'[s].pc \in {"logFailure", "giveBack"} =>
                 rows'[j].status = slot'[s].row.status,
               slot'[s].pc = "saveSuccess" => slot'[s].row.status = "SUCCEEDED",
               slot'[s].pc # "received"
        PROVE  Shown(j)'
    BY <2>1, <2>3, <2>5 DEF Shown, BeforePC
  <2>6. /\ slot[s].pc = "loaded" => rows[j].status \in Queueing
        /\ slot[s].pc = "received" => rows[j].status \in Queueing
        /\ slot[s].pc \in {"logStart", "running", "saveSuccess",
                           "saveFailure"} => rows[j].status = "RUNNING"
        /\ slot[s].pc = "saveFailure" =>
             /\ rows[j].attempts + 1 = fails[j]
             /\ slot[s].row.status =
                  IF fails[j] = MaxAttempts THEN "FAILED" ELSE "RETRYING"
        /\ slot[s].pc \in {"logFailure", "giveBack"} =>
             rows[j].status = slot[s].row.status
        /\ slot[s].pc = "saveSuccess" => slot[s].row.status = "SUCCEEDED"
    BY <1>8 DEF Shown, BeforePC
  <2>7. CASE Load(s)
    <3>1. slot[s].pc = "received" /\ slot'[s].pc = "loaded" /\ rows' = rows
      BY <2>7, SlotGoesOn DEF Load, storeVars
    <3> QED BY <2>5, <2>6, <3>1
  <2>8. CASE MarkRunning(s)
    <3>1. /\ slot[s].pc = "loaded" /\ slot'[s].pc = "logStart"
          /\ slot'[s].row.status = "RUNNING"
          /\ slot'[s].row.attempts = slot[s].row.attempts
          /\ rows'[j] = slot'[s].row
      BY <1>2, <2>1, <2>8, SlotGoesOn, SlotWrites
    <3>2. rows'[j].attempts = rows[j].attempts
      BY <1>4, <1>8, <2>4, <3>1
    <3>3. Lives(j)
      BY <2>6, <3>1, <3>2 DEF Lives
    <3> QED BY <2>1, <2>5, <3>1, <3>3
  <2>9. CASE LogStart(s) \/ LogSuccess(s) \/ LogFailure(s)
    <3>1. /\ slot'[s].row = slot[s].row /\ rows'[j] = rows[j]
          /\ \/ slot[s].pc = "logStart" /\ slot'[s].pc = "running"
             \/ slot[s].pc = "logSuccess" /\ slot'[s].pc = "ack"
             \/ slot[s].pc = "logFailure" /\ slot'[s].pc = "giveBack"
      BY <2>1, <2>9, SlotGoesOn, SlotWrites
    <3> QED BY <2>5, <2>6, <3>1
  <2>10. CASE HandlerSucceeds(s)
    <3>1. /\ slot[s].pc = "running" /\ slot'[s].pc = "saveSuccess"
          /\ rows' = rows
      BY <2>10, SlotGoesOn DEF HandlerSucceeds, storeVars
    <3>2. slot'[s].row.status = "SUCCEEDED"
      <4>1. slot[s] \in [pc : RunPC, msg : B!Message, row : S!Row]
        BY <3>1, SlotFacts DEF RunPC
      <4> QED BY <2>10, <4>1 DEF HandlerSucceeds, TypeOK, S!Row
    <3> QED BY <2>5, <2>6, <3>1, <3>2
  <2>11. CASE HandlerFails(s)
    <3>1. /\ slot[s].pc = "running" /\ slot'[s].pc = "saveFailure"
          /\ slot'[s].row = FailedRow(slot[s].row)
          /\ fails'[j] = fails[j] + 1 /\ rows' = rows
      <4>1. rows' = rows
        BY <2>11 DEF HandlerFails, storeVars
      <4> QED BY <2>1, <2>11, <4>1, SlotGoesOn, SlotCounts
    <3>2. /\ slot[s].row.attempts = fails[j] /\ fails[j] < MaxAttempts
          /\ rows[j].attempts = fails[j]
      BY <1>4, <1>8, <2>4, <3>1 DEF FailurePC
    <3>3. slot'[s].row.status =
            IF fails'[j] = MaxAttempts THEN "FAILED" ELSE "RETRYING"
      BY <1>3, <3>1, <3>2 DEF FailedRow
    <3> QED BY <2>5, <2>6, <3>1, <3>2, <3>3
  <2>12. CASE SaveOutcome(s)
    <3>1. /\ slot'[s].row = slot[s].row /\ rows'[j] = slot[s].row
          /\ \/ slot[s].pc = "saveSuccess" /\ slot'[s].pc = "logSuccess"
             \/ slot[s].pc = "saveFailure" /\ slot'[s].pc = "logFailure"
      BY <1>2, <2>1, <2>12, SlotGoesOn, SlotWrites
    <3>2. Shown(j)'
      BY <2>5, <3>1
    <3>3. slot[s].row.attempts = fails[j]
      BY <2>4, <3>1
    <3>4. CASE slot[s].pc = "saveSuccess"
      <4>1. rows[j].attempts = fails[j]
        BY <1>4, <1>8, <3>4
      <4>2. Lives(j)
        BY <2>6, <3>1, <3>3, <3>4, <4>1 DEF Lives
      <4> QED BY <2>1, <3>2, <4>2
    <3>5. CASE slot[s].pc = "saveFailure"
      <4>1. Lives(j)
        BY <2>6, <3>1, <3>3, <3>5 DEF Lives
      <4> QED BY <2>1, <3>2, <4>1
    <3> QED BY <3>1, <3>4, <3>5
  <2> QED BY <2>2, <2>7, <2>8, <2>9, <2>10, <2>11, <2>12
<1>9. CASE Holds(s, j) /\ ~Holds(s, j)'
  <2>1. /\ slot[s] # Idle /\ Job(s) = j
        /\ \A t \in Slots : ~Holds(t, j)'
    BY <1>1, <1>5, <1>9 DEF Holds
  <2>2. \/ Reject(s) \/ LoadFails(s) \/ AckMessage(s)
        \/ RequeueMessage(s) \/ BuryMessage(s) \/ Crash(s)
    BY <1>9, <2>1, TakeReceives, SlotGoesOn
       DEF AllSlotSteps, Execute, Holds
  <2>3. rows'[j] = rows[j] /\ ~Publishing(j)'
    <3>1. ~MarkRunning(s) /\ ~SaveOutcome(s)
      BY <2>2, SlotEnds, SlotGoesOn
    <3> QED BY <1>5, <1>9, <3>1, SlotWrites
  <2>4. InReady(j)' => rows[j].status \in Queueing
    <3>1. CASE RequeueMessage(s)
      <4>1. slot[s].pc = "giveBack" /\ slot[s].row.status = "RETRYING"
        BY <3>1 DEF RequeueMessage
      <4> QED BY <1>9, <4>1 DEF Shown, Queueing
    <3>2. CASE UNCHANGED <<ready, nextId>>
      BY <1>5, <1>9, <3>2 DEF InReady
    <3>3. ~Deliver(s)
      BY <2>1 DEF Deliver
    <3> QED BY <3>1, <3>2, <3>3, SlotMoves
  <2> QED BY <2>1, <2>3, <2>4 DEF Shown
<1> QED BY <1>6, <1>7, <1>8, <1>9

(* One row lives on in a step, and the others stay as they are. *)
ShownInv == \A j \in Jobs : Shown(j)

LEMMA NextLives ==
  ASSUME TypeOK, [Next]_vars, OnceInv, SettleInv, ShownInv, ~AtLeastOnce,
         Budget["retry"] = 0
  PROVE  ShownInv' /\ [Lifecycle!Next]_(Lifecycle!vars)
<1>1. Unspent("retry")
  BY DEF Unspent, SettleInv
<1>2. CalmFacts /\ \A j \in Jobs : OneRun(j) /\ Shown(j)
  BY <1>1 DEF OnceInv, Calm, ShownInv
<1>3. ASSUME rows' = rows
      PROVE  UNCHANGED Lifecycle!vars
  BY <1>3 DEF Lifecycle!vars
<1>4. ASSUME NEW k, \A j \in Jobs : rows'[j] = rows[j] \/ (Lives(j) /\ k = j)
      PROVE  [Lifecycle!Next]_(Lifecycle!vars)
  <2>1. CASE \E j \in Jobs : Lives(j) /\ k = j
    BY <1>4, <2>1, LivesIsStep
  <2>2. CASE \A j \in Jobs : rows'[j] = rows[j]
    <3>1. /\ [j \in Jobs |-> rows'[j].status] = [j \in Jobs |-> rows[j].status]
          /\ [j \in Jobs |-> rows'[j].attempts]
               = [j \in Jobs |-> rows[j].attempts]
      BY <2>2
    <3> QED BY <3>1 DEF Lifecycle!vars
  <2> QED BY <1>4, <2>1, <2>2
<1>5. CASE UNCHANGED vars
  <2>1. ShownInv'
    BY <1>5 DEF vars, storeVars, brokerVars, envVars, ShownInv, Shown,
       Publishing, InReady, Holds, Job
  <2> QED BY <1>3, <1>5, <2>1 DEF vars, storeVars
<1>6. ASSUME NEW c \in Clients, BeginRequest(c) \/ ServeRequest(c)
      PROVE  ShownInv' /\ [Lifecycle!Next]_(Lifecycle!vars)
  <2>1. \A j \in Jobs :
          Shown(j)' /\ (rows'[j] = rows[j] \/ (Lives(j) /\ req[c].job = j))
    BY <1>1, <1>2, <1>6, RequestKeepsShown
  <2> QED BY <1>4, <2>1 DEF ShownInv
<1>7. ASSUME NEW s \in Slots, AllSlotSteps(s)
      PROVE  ShownInv' /\ [Lifecycle!Next]_(Lifecycle!vars)
  <2>1. \A j \in Jobs :
          Shown(j)' /\ (rows'[j] = rows[j] \/ (Lives(j) /\ Job(s) = j))
    BY <1>2, <1>7, SlotKeepsShown
  <2> QED BY <1>4, <2>1 DEF ShownInv
<1> QED BY <1>5, <1>6, <1>7 DEF Next, AllSlotSteps

(***************************************************************************)
(* Under the same conditions the rows live the life of JobLifecycle, step  *)
(* by step: a job goes from QUEUED to RUNNING and back through RETRYING,   *)
(* the last of max_attempts failures and the first success end it, and no  *)
(* late write takes a settled row back.  That every accepted job does      *)
(* settle, the rest of LifecycleSpec, rests on fairness.                   *)
(***************************************************************************)
THEOREM LifecycleRefined ==
  ASSUME ~AtLeastOnce, \A k \in {"fault", "cancel", "retry"} : Budget[k] = 0
  PROVE  Spec => Lifecycle!Init /\ [][Lifecycle!Next]_(Lifecycle!vars)
<1>1. Init => ShownInv /\ Lifecycle!Init
  <2> SUFFICES ASSUME Init PROVE ShownInv /\ Lifecycle!Init
    OBVIOUS
  <2>1. /\ ready = <<>>
        /\ \A c \in Clients : req[c] = NoRequest
        /\ \A s \in Slots : slot[s] = Idle
    BY DEF Init, B!Init
  <2>2. \A j \in Jobs :
          ~Publishing(j) /\ ~InReady(j) /\ \A s \in Slots : ~Holds(s, j)
    <3>1. \A j \in Jobs : ~Publishing(j)
      BY <2>1 DEF Publishing, NoRequest
    <3>2. \A j \in Jobs : ~InReady(j)
      BY <2>1 DEF InReady
    <3>3. \A j \in Jobs, s \in Slots : ~Holds(s, j)
      BY <2>1 DEF Holds
    <3> QED BY <3>1, <3>2, <3>3
  <2>3. Lifecycle!Init
    BY DEF Lifecycle!Init, Init, S!Init, S!NoRow
  <2> QED BY <2>2, <2>3 DEF ShownInv, Shown
<1>2. TypeOK /\ OnceInv /\ SettleInv /\ ShownInv /\ [Next]_vars
        => ShownInv' /\ [Lifecycle!Next]_(Lifecycle!vars)
  BY NextLives
<1> QED BY <1>1, <1>2, SettlingCounted, OncePlaced, TypeCorrect, PTL DEF Spec
=============================================================================
