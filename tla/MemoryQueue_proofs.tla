------------------------- MODULE MemoryQueue_proofs -------------------------
(***************************************************************************)
(* Proofs about the in-memory broker, for any number of consumers and      *)
(* callers: its types, no lost wake-up, and that it implements Broker.     *)
(***************************************************************************)
EXTENDS MemoryQueue, TLAPS

(* The messages some part of the process has: queued, held by an execution *)
(* or waiting for the end of a backoff.  All were created by the queue.    *)
Created ==
  /\ \A i \in 1 .. Len(messages) : messages[i].id < nextId
  /\ \A m \in held : m.id < nextId
  /\ \A p \in Callers : caller[p].pc = "delay" => caller[p].msg.id < nextId

QueueInv == TypeOK /\ Created

LEMMA InitQueueInv == Init => QueueInv
<1> SUFFICES ASSUME Init PROVE QueueInv
  OBVIOUS
<1>1. messages \in Seq(Message) /\ Len(messages) = 0
  BY DEF Init
<1>2. caller \in [Callers -> CallerState]
  BY DEF Init, CallerState
<1>3. /\ notify \in 0 .. 1 /\ nextId \in Nat
      /\ held \subseteq Message
      /\ consumer \in [Consumers -> {"idle", "check", "unlocked", "wait", "exited"}]
      /\ dead \in [Jobs -> Nat]
  BY DEF Init
<1>4. cancelled \in BOOLEAN
  BY DEF Init
<1>5. TypeOK
  BY <1>1, <1>2, <1>3, <1>4 DEF TypeOK
<1>6. Created
  BY <1>1 DEF Init, Created, NotCalling
<1> QED BY <1>5, <1>6 DEF QueueInv

(* A message at the end of the queue. *)
LEMMA PushKeepsQueue ==
  ASSUME QueueInv, NEW m \in Message,
         messages' = Append(messages, m),
         nextId' \in Nat, nextId <= nextId', m.id < nextId'
  PROVE  /\ messages' \in Seq(Message)
         /\ \A i \in 1 .. Len(messages') : messages'[i].id < nextId'
<1>1. messages \in Seq(Message) /\ Len(messages) \in Nat /\ nextId \in Nat
  BY DEF QueueInv, TypeOK
<1>2. \A i \in 1 .. Len(messages) : messages[i] \in Message
  BY <1>1
<1>3. \A i \in 1 .. Len(messages) : messages[i].id \in Nat
  BY <1>2 DEF Message
<1>4. \A i \in 1 .. Len(messages) : messages[i].id < nextId
  BY DEF QueueInv, Created
<1>5. \A i \in 1 .. Len(messages) : messages[i].id < nextId'
  BY <1>1, <1>3, <1>4
<1>6. /\ messages' \in Seq(Message)
      /\ Len(messages') = Len(messages) + 1
      /\ \A i \in 1 .. Len(messages) : messages'[i] = messages[i]
      /\ messages'[Len(messages) + 1] = m
  BY <1>1
<1> QED BY <1>1, <1>5, <1>6

(* A caller that changes its place without a new message. *)
LEMMA CallerMoves ==
  ASSUME QueueInv, NEW p \in Callers,
         NEW state \in CallerState,
         caller' = [caller EXCEPT ![p] = state],
         state.pc = "delay" => state.msg.id < nextId',
         nextId' \in Nat, nextId <= nextId'
  PROVE  /\ caller' \in [Callers -> CallerState]
         /\ \A q \in Callers : caller'[q].pc = "delay" => caller'[q].msg.id < nextId'
<1>1. caller \in [Callers -> CallerState] /\ nextId \in Nat
  BY DEF QueueInv, TypeOK
<1>2. caller' \in [Callers -> CallerState]
  BY <1>1
<1>3. ASSUME NEW q \in Callers, caller'[q].pc = "delay", q # p
      PROVE  caller'[q].msg.id < nextId'
  <2>1. caller'[q] = caller[q] /\ caller[q] \in CallerState
    BY <1>1, <1>3
  <2>2. caller[q].msg \in Message
    BY <1>3, <2>1 DEF CallerState, NotCalling, Notifying
  <2>3. caller[q].msg.id \in Nat
    BY <2>2 DEF Message
  <2>4. caller[q].msg.id < nextId
    BY <1>3, <2>1 DEF QueueInv, Created
  <2> QED BY <1>1, <2>1, <2>3, <2>4
<1>4. caller'[p] = state
  BY <1>1
<1> QED BY <1>2, <1>3, <1>4

(* One step of a caller keeps types and identifiers. *)
LEMMA ProduceKeepsInv ==
  ASSUME QueueInv, NEW p \in Callers, Produce(p)
  PROVE  QueueInv'
<1>1. /\ caller \in [Callers -> CallerState] /\ nextId \in Nat
      /\ held \subseteq Message
      /\ \A m \in held : m.id \in Nat /\ m.id < nextId
  BY DEF QueueInv, TypeOK, Created, Message
<1>2. NotCalling \in CallerState /\ Notifying \in CallerState
      /\ NotCalling.pc # "delay" /\ Notifying.pc # "delay"
  BY DEF CallerState, NotCalling, Notifying
<1>3. ASSUME NEW j \in Jobs, Enqueue(p, j)
      PROVE  QueueInv'
  <2> DEFINE m == [id |-> nextId, job |-> j]
  <2>1. m \in Message /\ m.id = nextId
    BY <1>1 DEF Message
  <2>2. /\ messages' = Append(messages, m)
        /\ caller' = [caller EXCEPT ![p] = Notifying]
        /\ nextId' = nextId + 1
        /\ UNCHANGED <<notify, consumer, held, dead, cancelled>>
    BY <1>3 DEF Enqueue, Push
  <2> HIDE DEF m
  <2>3. nextId' \in Nat /\ nextId <= nextId' /\ m.id < nextId'
    BY <1>1, <2>1, <2>2
  <2>4. /\ messages' \in Seq(Message)
        /\ \A i \in 1 .. Len(messages') : messages'[i].id < nextId'
    BY <2>1, <2>2, <2>3, PushKeepsQueue
  <2>5. /\ caller' \in [Callers -> CallerState]
        /\ \A q \in Callers : caller'[q].pc = "delay" => caller'[q].msg.id < nextId'
    BY <1>2, <2>2, <2>3, CallerMoves
  <2>6. \A k \in held' : k.id < nextId'
    BY <1>1, <2>2
  <2> QED BY <2>2, <2>3, <2>4, <2>5, <2>6 DEF QueueInv, TypeOK, Created
<1>4. ASSUME NEW m \in held, BeginRequeue(p, m)
      PROVE  QueueInv'
  <2> DEFINE state == [pc |-> "delay", msg |-> m]
  <2>1. state \in CallerState /\ state.msg.id < nextId
    BY <1>1 DEF CallerState
  <2>2. caller' = [caller EXCEPT ![p] = state]
        /\ held' = held \ {m}
        /\ UNCHANGED <<messages, nextId, dead, notify, consumer, cancelled>>
    BY <1>4 DEF BeginRequeue, queueVars
  <2> HIDE DEF state
  <2>3. nextId' = nextId /\ nextId <= nextId'
    BY <1>1, <2>2
  <2>4. /\ caller' \in [Callers -> CallerState]
        /\ \A q \in Callers : caller'[q].pc = "delay" => caller'[q].msg.id < nextId'
    BY <1>1, <2>1, <2>2, <2>3, CallerMoves
  <2> QED BY <2>2, <2>4 DEF QueueInv, TypeOK, Created
<1>5. CASE Requeue(p)
  <2>1. caller[p] \in CallerState /\ caller[p].pc = "delay"
    BY <1>1, <1>5 DEF Requeue
  <2>2. caller[p].msg \in Message /\ caller[p].msg.id < nextId
    BY <2>1 DEF CallerState, NotCalling, Notifying, QueueInv, Created
  <2>3. /\ messages' = Append(messages, caller[p].msg)
        /\ caller' = [caller EXCEPT ![p] = Notifying]
        /\ UNCHANGED <<notify, consumer, held, dead, nextId, cancelled>>
    BY <1>5 DEF Requeue, Push
  <2>4. nextId' = nextId /\ nextId <= nextId'
    BY <1>1, <2>3
  <2>5. /\ messages' \in Seq(Message)
        /\ \A i \in 1 .. Len(messages') : messages'[i].id < nextId'
    BY <1>1, <2>2, <2>3, <2>4, PushKeepsQueue
  <2>6. /\ caller' \in [Callers -> CallerState]
        /\ \A q \in Callers : caller'[q].pc = "delay" => caller'[q].msg.id < nextId'
    BY <1>1, <1>2, <2>3, <2>4, CallerMoves
  <2> QED BY <2>3, <2>5, <2>6 DEF QueueInv, TypeOK, Created
<1>6. CASE RequeueFails(p) \/ Notify(p)
  <2>1. /\ caller' = [caller EXCEPT ![p] = NotCalling]
        /\ notify' \in {notify, 1}
        /\ UNCHANGED <<messages, nextId, dead, consumer, held, cancelled>>
    BY <1>6 DEF RequeueFails, Notify, queueVars
  <2>2. nextId' = nextId /\ nextId <= nextId'
    BY <1>1, <2>1
  <2>3. /\ caller' \in [Callers -> CallerState]
        /\ \A q \in Callers : caller'[q].pc = "delay" => caller'[q].msg.id < nextId'
    BY <1>1, <1>2, <2>1, <2>2, CallerMoves
  <2> QED BY <2>1, <2>3 DEF QueueInv, TypeOK, Created
<1> QED BY <1>3, <1>4, <1>5, <1>6 DEF Produce

(* The batch Consume returns and what it leaves. *)
LEMMA BatchSplits ==
  ASSUME TypeOK, messages # <<>>
  PROVE  /\ Batch \in 1 .. Len(messages)
         /\ SubSeq(messages, Batch + 1, Len(messages)) \in Seq(Message)
         /\ Len(SubSeq(messages, Batch + 1, Len(messages)))
              = Len(messages) - Batch
         /\ \A i \in 1 .. Len(messages) - Batch :
              SubSeq(messages, Batch + 1, Len(messages))[i]
                = messages[Batch + i]
<1>1. messages \in Seq(Message) /\ Len(messages) \in Nat /\ Len(messages) > 0
  BY DEF TypeOK
<1>2. Batch \in 1 .. Len(messages)
  BY <1>1, MemoryQueueAssumption DEF Batch
<1> QED BY <1>1, <1>2

(* One step of a consumer keeps types and identifiers. *)
LEMMA ConsumeKeepsInv ==
  ASSUME QueueInv, NEW c \in Consumers, Consume(c)
  PROVE  QueueInv'
<1> USE DEF QueueInv, queueVars
<1>1. CASE Pop(c)
  <2>1. messages # <<>> /\ UNCHANGED <<nextId, dead, notify, caller, cancelled>>
        /\ held' = held \cup {messages[i] : i \in 1 .. Batch}
        /\ messages' = SubSeq(messages, Batch + 1, Len(messages))
        /\ consumer' = [consumer EXCEPT ![c] = "idle"]
    BY <1>1 DEF Pop, Go
  <2>2. /\ messages' \in Seq(Message)
        /\ Batch \in 1 .. Len(messages)
        /\ Len(messages') = Len(messages) - Batch
        /\ \A i \in 1 .. Len(messages) - Batch :
             messages'[i] = messages[Batch + i]
    BY <2>1, BatchSplits
  <2>3. messages \in Seq(Message) /\ Len(messages) \in Nat
    BY DEF TypeOK
  <2>4. \A i \in 1 .. Batch : messages[i] \in Message /\ messages[i].id < nextId
    BY <2>2, <2>3 DEF Created
  <2>5. held' \subseteq Message /\ \A m \in held' : m.id < nextId'
    BY <2>1, <2>4 DEF TypeOK, Created
  <2>6. \A i \in 1 .. Len(messages') : messages'[i].id < nextId'
    BY <2>1, <2>2, <2>3 DEF Created
  <2>7. TypeOK'
    BY <2>1, <2>2, <2>5 DEF TypeOK
  <2> QED BY <2>1, <2>5, <2>6, <2>7 DEF Created
<1>2. CASE Call(c) \/ FindEmpty(c) \/ Wait(c) \/ Wake(c) \/ TimeOut(c) \/ Stop(c)
  BY <1>2 DEF Call, FindEmpty, Wait, Wake, TimeOut, Stop, Go, TypeOK, Created
<1> QED BY <1>1, <1>2 DEF Consume

LEMMA NextKeepsInv == QueueInv /\ [Next]_vars => QueueInv'
<1> SUFFICES ASSUME QueueInv, [Next]_vars PROVE QueueInv'
  OBVIOUS
<1>1. ASSUME NEW m \in held, Ack(m) \/ SendToDeadLetter(m)
      PROVE  QueueInv'
  <2>1. m.job \in Jobs /\ dead \in [Jobs -> Nat]
    BY DEF QueueInv, TypeOK, Message
  <2>2. /\ held' = held \ {m}
        /\ dead' = dead \/ dead' = [dead EXCEPT ![m.job] = @ + 1]
        /\ UNCHANGED <<messages, nextId, notify, consumer, caller, cancelled>>
    BY <1>1 DEF Ack, SendToDeadLetter, queueVars
  <2>3. dead' \in [Jobs -> Nat]
    BY <2>1, <2>2
  <2> QED BY <2>2, <2>3 DEF QueueInv, TypeOK, Created
<1>2. CASE Cancel \/ UNCHANGED vars
  BY <1>2 DEF Cancel, vars, queueVars, QueueInv, TypeOK, Created
<1> QED BY <1>1, <1>2, ProduceKeepsInv, ConsumeKeepsInv DEF Next

LEMMA QueueInvHolds == Spec => []QueueInv
BY InitQueueInv, NextKeepsInv, PTL DEF Spec

(***************************************************************************)
(* The queue keeps its types, and every message it hands out, holds or     *)
(* takes back was created by Enqueue.                                      *)
(***************************************************************************)
THEOREM QueueTypeCorrect == Spec => [](TypeOK /\ Created)
<1>1. QueueInv => TypeOK /\ Created
  BY DEF QueueInv
<1> QED BY <1>1, QueueInvHolds, PTL

-----------------------------------------------------------------------------
(***************************************************************************)
(* No wake-up of Consume is ever lost, whatever the calls of Enqueue,      *)
(* Requeue and Consume interleave between the mutex and the channel.       *)
(***************************************************************************)
THEOREM WakeupCorrect == Spec => []NoLostWakeup
<1>1. Init => NoLostWakeup
  BY DEF Init, NoLostWakeup
<1>2. QueueInv /\ NoLostWakeup /\ [Next]_vars => NoLostWakeup'
  <2> SUFFICES ASSUME QueueInv, NoLostWakeup, [Next]_vars
               PROVE  NoLostWakeup'
    OBVIOUS
  <2> USE DEF NoLostWakeup, queueVars
  <2>0. TypeOK
    BY DEF QueueInv
  <2>1. ASSUME NEW p \in Callers, NEW j \in Jobs, Enqueue(p, j)
        PROVE  NoLostWakeup'
    BY <2>0, <2>1 DEF Enqueue, Push, TypeOK, Notifying
  <2>2. ASSUME NEW p \in Callers, NEW m \in held, BeginRequeue(p, m)
        PROVE  NoLostWakeup'
    BY <2>0, <2>2 DEF BeginRequeue, TypeOK, NotCalling, Notifying
  <2>3. ASSUME NEW p \in Callers, Requeue(p)
        PROVE  NoLostWakeup'
    BY <2>0, <2>3 DEF Requeue, Push, TypeOK, Notifying
  <2>4. ASSUME NEW p \in Callers, RequeueFails(p) \/ Notify(p)
        PROVE  NoLostWakeup'
    BY <2>0, <2>4 DEF RequeueFails, Notify, TypeOK
  <2>5. ASSUME NEW c \in Consumers, Consume(c)
        PROVE  NoLostWakeup'
    BY <2>0, <2>5 DEF Consume, Call, Pop, FindEmpty, Wait, Wake, TimeOut, Stop,
                      Go, TypeOK
  <2>6. CASE (\E m \in held : Ack(m) \/ SendToDeadLetter(m)) \/ Cancel
             \/ UNCHANGED vars
    BY <2>6 DEF Ack, SendToDeadLetter, Cancel, vars
  <2> QED BY <2>1, <2>2, <2>3, <2>4, <2>5, <2>6 DEF Next, Produce
<1> QED BY <1>1, <1>2, QueueInvHolds, PTL DEF Spec

-----------------------------------------------------------------------------
(* Every step of the queue is a step of Broker, or changes nothing it sees. *)
LEMMA StepIsBrokerStep ==
  QueueInv /\ [Next]_vars => [AbstractBroker!Next]_(AbstractBroker!vars)
<1> SUFFICES ASSUME QueueInv, [Next]_vars
             PROVE  [AbstractBroker!Next]_(AbstractBroker!vars)
  OBVIOUS
<1> USE DEF AbstractBroker!vars
<1>1. ASSUME NEW p \in Callers, NEW j \in Jobs, Enqueue(p, j)
      PROVE  AbstractBroker!Enqueue(j)
  BY <1>1 DEF Enqueue, Push, AbstractBroker!Enqueue
<1>2. ASSUME NEW p \in Callers, Requeue(p)
      PROVE  AbstractBroker!Next
  <2>1. caller[p].msg \in Message /\ caller[p].msg.id < nextId
    BY <1>2 DEF Requeue, QueueInv, TypeOK, Created, CallerState, NotCalling,
           Notifying
  <2>2. caller[p].msg \in AbstractBroker!Known
    BY <2>1 DEF AbstractBroker!Known, Message, QueueInv, TypeOK
  <2>3. AbstractBroker!Requeue(caller[p].msg)
    BY <1>2 DEF Requeue, Push, AbstractBroker!Requeue
  <2> QED BY <2>2, <2>3 DEF AbstractBroker!Next
<1>3. ASSUME NEW c \in Consumers, Pop(c)
      PROVE  AbstractBroker!Next
  <2>1. Batch \in 1 .. Len(messages)
    BY <1>3, BatchSplits DEF Pop, QueueInv
  <2>2. AbstractBroker!Consume(Batch)
    BY <1>3, <2>1 DEF Pop, AbstractBroker!Consume
  <2> QED BY <2>1, <2>2 DEF AbstractBroker!Next
<1>4. ASSUME NEW m \in held, SendToDeadLetter(m)
      PROVE  AbstractBroker!Next
  <2>1. m \in AbstractBroker!Known
    BY DEF AbstractBroker!Known, Message, QueueInv, TypeOK, Created
  <2>2. AbstractBroker!SendToDeadLetter(m)
    BY <1>4 DEF SendToDeadLetter, AbstractBroker!SendToDeadLetter
  <2> QED BY <2>1, <2>2 DEF AbstractBroker!Next
<1>5. ASSUME NEW p \in Callers,
             \/ \E m \in held : BeginRequeue(p, m)
             \/ RequeueFails(p) \/ Notify(p)
      PROVE  UNCHANGED queueVars
  BY <1>5 DEF BeginRequeue, RequeueFails, Notify
<1>6. ASSUME NEW c \in Consumers,
             \/ Call(c) \/ FindEmpty(c) \/ Wait(c)
             \/ Wake(c) \/ TimeOut(c) \/ Stop(c)
      PROVE  UNCHANGED queueVars
  BY <1>6 DEF Call, FindEmpty, Wait, Wake, TimeOut, Stop
<1>7. CASE UNCHANGED queueVars
  BY <1>7 DEF queueVars
<1>8. CASE (\E m \in held : Ack(m)) \/ Cancel \/ UNCHANGED vars
  BY <1>7, <1>8 DEF Ack, Cancel, vars
<1>9. CASE \E p \in Callers : Produce(p)
  BY <1>1, <1>2, <1>5, <1>7, <1>9 DEF Produce, AbstractBroker!Next
<1>10. CASE \E c \in Consumers : Consume(c)
  BY <1>3, <1>6, <1>7, <1>10 DEF Consume
<1> QED BY <1>4, <1>8, <1>9, <1>10 DEF Next

(***************************************************************************)
(* The in-memory broker implements the Broker of TaskQueue.                *)
(***************************************************************************)
THEOREM QueueImplementsBroker == Spec => BrokerSpec
<1>1. Init => AbstractBroker!Init
  BY DEF Init, AbstractBroker!Init
<1> QED BY <1>1, StepIsBrokerStep, QueueInvHolds, PTL
        DEF Spec, BrokerSpec, AbstractBroker!Spec
=============================================================================
