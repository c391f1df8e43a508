---------------------------- MODULE MemoryQueue -----------------------------
(***************************************************************************)
(* The in-memory broker: a slice under a mutex, and a channel of capacity  *)
(* one that wakes a consumer waiting in Consume.  The wake-up is sent      *)
(* after the mutex is released, and a consumer releases the mutex before   *)
(* it waits, so that calls interleave between these steps.                 *)
(*                                                                         *)
(* A consumer is a consumeLoop that calls Consume again and again; a       *)
(* caller is an API handler in Enqueue or an execution in Requeue.         *)
(***************************************************************************)
EXTENDS Naturals, Sequences

CONSTANTS
  Jobs, Consumers, Callers, NoMsg,
  Count,        \* the batch size every consumer asks for
  MaxMessages   \* bound: messages ever created

ASSUME MemoryQueueAssumption ==
  /\ Count \in Nat \ {0}
  /\ MaxMessages \in Nat

VARIABLES
  messages,
  notify,     \* how many wake-ups the channel holds
  consumer,   \* consumer[c]: where consumer c is in Consume
  caller,     \* caller[p]: where caller p is, and the message it requeues
  held,       \* delivered messages an execution still works on
  dead,       \* history: dead[j] messages of j were given up
  nextId,     \* number of messages created
  cancelled   \* ctx.Done() of the worker

queueVars == <<messages, nextId, dead>>
vars == <<queueVars, notify, consumer, caller, held, cancelled>>

Message == [id : Nat, job : Jobs]
NotCalling == [pc |-> "idle", msg |-> NoMsg]
Notifying == [pc |-> "notify", msg |-> NoMsg]
CallerState == {NotCalling, Notifying} \cup [pc : {"delay"}, msg : Message]

TypeOK ==
  /\ messages \in Seq(Message)
  /\ notify \in 0 .. 1
  /\ consumer \in [Consumers -> {"idle", "check", "unlocked", "wait", "exited"}]
  /\ caller \in [Callers -> CallerState]
  /\ held \subseteq Message
  /\ dead \in [Jobs -> Nat]
  /\ nextId \in Nat
  /\ cancelled \in BOOLEAN

Init ==
  /\ messages = <<>>
  /\ notify = 0
  /\ consumer = [c \in Consumers |-> "idle"]
  /\ caller = [p \in Callers |-> NotCalling]
  /\ held = {}
  /\ dead = [j \in Jobs |-> 0]
  /\ nextId = 0
  /\ cancelled = FALSE

-----------------------------------------------------------------------------
(* Enqueue, called by an API handler or at the end of Requeue. *)

Push(p, m) ==
  /\ messages' = Append(messages, m)
  /\ caller' = [caller EXCEPT ![p] = Notifying]

Enqueue(p, j) ==
  /\ caller[p] = NotCalling
  /\ nextId < MaxMessages
  /\ Push(p, [id |-> nextId, job |-> j])
  /\ nextId' = nextId + 1
  /\ UNCHANGED <<notify, consumer, held, dead, cancelled>>

(* Mistakes: a channel without a buffer, whose send is lost unless a       *)
(* consumer waits; a channel that keeps every send.                        *)
Notify_Unbuffered(p) ==
  /\ caller[p].pc = "notify"
  /\ notify' = IF \E c \in Consumers : consumer[c] = "wait" THEN 1 ELSE notify
  /\ caller' = [caller EXCEPT ![p] = NotCalling]
  /\ UNCHANGED <<queueVars, consumer, held, cancelled>>
Notify_Unbounded(p) ==
  /\ caller[p].pc = "notify"
  /\ notify' = notify + 1
  /\ caller' = [caller EXCEPT ![p] = NotCalling]
  /\ UNCHANGED <<queueVars, consumer, held, cancelled>>

(* A wake-up that is already there stands for this one, too. *)
Notify(p) ==
  /\ caller[p].pc = "notify"
  /\ notify' = 1
  /\ caller' = [caller EXCEPT ![p] = NotCalling]
  /\ UNCHANGED <<queueVars, consumer, held, cancelled>>

-----------------------------------------------------------------------------
(* What an execution does with its message. *)

BeginRequeue(p, m) ==
  /\ caller[p] = NotCalling
  /\ m \in held
  /\ held' = held \ {m}
  /\ caller' = [caller EXCEPT ![p] = [pc |-> "delay", msg |-> m]]
  /\ UNCHANGED <<queueVars, notify, consumer, cancelled>>

Requeue(p) ==
  /\ caller[p].pc = "delay"
  /\ Push(p, caller[p].msg)
  /\ UNCHANGED <<notify, consumer, held, dead, nextId, cancelled>>

(* Shutdown during the backoff: the message is gone. *)
RequeueFails(p) ==
  /\ caller[p].pc = "delay"
  /\ cancelled
  /\ caller' = [caller EXCEPT ![p] = NotCalling]
  /\ UNCHANGED <<queueVars, notify, consumer, held, cancelled>>

Ack(m) ==
  /\ m \in held
  /\ held' = held \ {m}
  /\ UNCHANGED <<queueVars, notify, consumer, caller, cancelled>>

SendToDeadLetter(m) ==
  /\ m \in held
  /\ held' = held \ {m}
  /\ dead' = [dead EXCEPT ![m.job] = @ + 1]
  /\ UNCHANGED <<messages, nextId, notify, consumer, caller, cancelled>>

-----------------------------------------------------------------------------
(* Consume *)

Go(c, pc) == consumer' = [consumer EXCEPT ![c] = pc]

Call(c) ==
  /\ consumer[c] = "idle"
  /\ ~cancelled
  /\ Go(c, "check")
  /\ UNCHANGED <<queueVars, notify, caller, held, cancelled>>

Batch == IF Count > Len(messages) THEN Len(messages) ELSE Count

(* Mistakes: the rest of the queue is dropped; the newest messages go first. *)
Pop_DropsRest(c) ==
  /\ consumer[c] = "check"
  /\ messages # <<>>
  /\ held' = held \cup {messages[i] : i \in 1 .. Batch}
  /\ messages' = <<>>
  /\ Go(c, "idle")
  /\ UNCHANGED <<nextId, dead, notify, caller, cancelled>>
Pop_Newest(c) ==
  /\ consumer[c] = "check"
  /\ messages # <<>>
  /\ held' = held \cup
       {messages[i] : i \in Len(messages) - Batch + 1 .. Len(messages)}
  /\ messages' = SubSeq(messages, 1, Len(messages) - Batch)
  /\ Go(c, "idle")
  /\ UNCHANGED <<nextId, dead, notify, caller, cancelled>>

(* A message that is there is returned although ctx is done. *)
Pop(c) ==
  /\ consumer[c] = "check"
  /\ messages # <<>>
  /\ held' = held \cup {messages[i] : i \in 1 .. Batch}
  /\ messages' = SubSeq(messages, Batch + 1, Len(messages))
  /\ Go(c, "idle")
  /\ UNCHANGED <<nextId, dead, notify, caller, cancelled>>

FindEmpty(c) ==
  /\ consumer[c] = "check"
  /\ messages = <<>>
  /\ Go(c, "unlocked")
  /\ UNCHANGED <<queueVars, notify, caller, held, cancelled>>

Wait(c) ==
  /\ consumer[c] = "unlocked"
  /\ Go(c, "wait")
  /\ UNCHANGED <<queueVars, notify, caller, held, cancelled>>

Wake(c) ==
  /\ consumer[c] = "wait"
  /\ notify = 1
  /\ notify' = 0
  /\ Go(c, "check")
  /\ UNCHANGED <<queueVars, caller, held, cancelled>>

(* No message within the block time: the consumer will call again. *)
TimeOut(c) ==
  /\ consumer[c] = "wait"
  /\ Go(c, "idle")
  /\ UNCHANGED <<queueVars, notify, caller, held, cancelled>>

(* Consume returns ctx.Err(), or consumeLoop finds ctx done. *)
Stop(c) ==
  /\ consumer[c] \in {"idle", "wait"}
  /\ cancelled
  /\ Go(c, "exited")
  /\ UNCHANGED <<queueVars, notify, caller, held, cancelled>>

Cancel ==
  /\ ~cancelled
  /\ cancelled' = TRUE
  /\ UNCHANGED <<queueVars, notify, consumer, caller, held>>

Produce(p) ==
  \/ \E j \in Jobs : Enqueue(p, j)
  \/ \E m \in held : BeginRequeue(p, m)
  \/ Requeue(p) \/ RequeueFails(p) \/ Notify(p)

Consume(c) ==
  Call(c) \/ Pop(c) \/ FindEmpty(c) \/ Wait(c) \/ Wake(c) \/ TimeOut(c) \/ Stop(c)

Next ==
  \/ \E p \in Callers : Produce(p)
  \/ \E m \in held : Ack(m) \/ SendToDeadLetter(m)
  \/ \E c \in Consumers : Consume(c)
  \/ Cancel

Spec == Init /\ [][Next]_vars

(* A consumer calls again when its call returned; the timer of a call fires. *)
FairSpec == Spec /\ \A c \in Consumers : WF_vars(Consume(c))
-----------------------------------------------------------------------------
(* Properties. *)

(***************************************************************************)
(* No wake-up is lost: while messages are queued, one is in the channel,   *)
(* or about to be sent, or some consumer is about to look.  The timer of a *)
(* call is therefore never what gets a message out of the queue.           *)
(***************************************************************************)
NoLostWakeup ==
  messages # <<>> /\ ~cancelled =>
    \/ notify = 1
    \/ \E p \in Callers : caller[p].pc = "notify"
    \/ \E c \in Consumers : consumer[c] \in {"idle", "check"}

(* Every queued message is delivered, unless the worker is shut down.      *)
Queued(i) == \E k \in 1 .. Len(messages) : messages[k].id = i
EveryMessageDelivered ==
  \A i \in 0 .. MaxMessages - 1 :
    Queued(i) ~> (\E m \in held : m.id = i) \/ cancelled

(* The queue is the memory broker of TaskQueue: messages leave it in the   *)
(* order they came, each to one consumer.                                  *)
AbstractBroker == INSTANCE Broker WITH
  AtLeastOnce <- FALSE, ready <- messages, pending <- {}
BrokerSpec == AbstractBroker!Spec
=============================================================================
