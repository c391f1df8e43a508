----------------------------- MODULE WorkerPool -----------------------------
(***************************************************************************)
(* One worker process: Start, the consumeLoop that fetches batches from    *)
(* the broker, the buffered channel jobChan, the processLoops that execute *)
(* messages, the counter of active jobs with its heartbeats, and shutdown. *)
(*                                                                         *)
(* executeJob is one step here: TaskQueue opens it up.  The fields keep    *)
(* the names of worker.Worker; cancelled stands for ctx.Done().            *)
(***************************************************************************)
EXTENDS Integers, Sequences, FiniteSets

CONSTANTS
  Messages, NoMsg,
  Backlog,    \* the messages of the stream, oldest first
  Loops,      \* the processLoop goroutines
  PoolSize,
  Hanging,    \* messages whose handler never returns: nothing enforces the
              \* timeout_seconds of a job
  OldCounts   \* the active_jobs that a row may show which an earlier process
              \* with the same WORKER_ID left behind

ASSUME WorkerPoolAssumption ==
  /\ NoMsg \notin Messages
  /\ Backlog \in Seq(Messages)
  /\ \A i, k \in 1 .. Len(Backlog) : Backlog[i] = Backlog[k] => i = k
  /\ IsFiniteSet(Loops)
  /\ PoolSize \in Nat \ {0}
  /\ Hanging \subseteq Messages
  /\ OldCounts \subseteq Nat

VARIABLES
  stream,     \* messages the broker has not handed out
  batch,      \* what consumeLoop has still to send of its last batch
  jobChan,
  consumer,   \* where consumeLoop is
  loop,       \* loop[g]: where processLoop g is and the message it executes
  activeCnt,
  row,        \* the worker's row, written by RecordHeartbeat
  missed,     \* history: the last heartbeat did not reach the row
  cancelled,
  start,      \* Start: waiting for the signal, or how it returned
  handled     \* history: messages whose handler returned

poolVars == <<stream, batch, jobChan, consumer, loop>>
counterVars == <<activeCnt, row, missed>>
vars == <<poolVars, counterVars, cancelled, start, handled>>

AtRest == [pc |-> "wait", msg |-> NoMsg]
Gone == [pc |-> "exited", msg |-> NoMsg]

WorkerRow == [active : Nat, status : {"active", "starting", "busy", "idle"}]

TypeOK ==
  /\ stream \in Seq(Messages)
  /\ batch \in Seq(Messages)
  /\ jobChan \in Seq(Messages)
  /\ consumer \in {"check", "consume", "send", "count", "exited"}
  /\ loop \in [Loops -> {AtRest, Gone}
                          \cup [pc : {"run", "count"}, msg : Messages]]
  /\ activeCnt \in Nat
  /\ row \in WorkerRow
  /\ missed \in BOOLEAN
  /\ cancelled \in BOOLEAN
  /\ start \in {"running", "complete", "timedOut"}
  /\ handled \subseteq Messages

(* Mistake: SQL keeps the status of a row that is there. *)
Registered_KeepsStatus ==
  {[active |-> 0, status |-> "active"], [active |-> 0, status |-> "starting"]}
    \cup {[active |-> n, status |-> "busy"] : n \in OldCounts \ {0}}

(* RegisterWorker: the memory store replaces the row of the worker; SQL     *)
(* makes one, or keeps the active_jobs of the row that is there.            *)
Registered ==
  {[active |-> 0, status |-> "active"], [active |-> 0, status |-> "starting"]}
    \cup {[active |-> n, status |-> "starting"] : n \in OldCounts}

(* Then one goroutine per loop and one for the consumer. *)
Init ==
  /\ stream = Backlog
  /\ batch = <<>>
  /\ jobChan = <<>>
  /\ consumer = "check"
  /\ loop = [g \in Loops |-> AtRest]
  /\ activeCnt = 0
  /\ row \in Registered
  /\ missed = FALSE
  /\ cancelled = FALSE
  /\ start = "running"
  /\ handled = {}

-----------------------------------------------------------------------------
(* The counter and the heartbeat, both under activeMu; an error of the     *)
(* heartbeat is ignored.                                                   *)

RecordHeartbeat(n) ==
  \/ /\ row' = [active |-> n, status |-> IF n > 0 THEN "busy" ELSE "idle"]
     /\ missed' = FALSE
  \/ /\ missed' = TRUE
     /\ UNCHANGED row

(* Mistake: the counter is not stopped at zero. *)
incrementActive_Unclamped(delta) ==
  /\ activeCnt' = activeCnt + delta
  /\ RecordHeartbeat(activeCnt')

incrementActive(delta) ==
  /\ activeCnt' = IF activeCnt + delta < 0 THEN 0 ELSE activeCnt + delta
  /\ RecordHeartbeat(activeCnt')

-----------------------------------------------------------------------------
(* consumeLoop *)

Poll ==
  /\ consumer = "check"
  /\ ~cancelled
  /\ consumer' = "consume"
  /\ UNCHANGED <<stream, batch, jobChan, loop, counterVars, cancelled,
                 start, handled>>

(* The broker hands out at most PoolSize messages, also while the process  *)
(* is being shut down.                                                     *)
Fetch(n) ==
  /\ consumer = "consume"
  /\ n \in 1 .. Len(stream)
  /\ n <= PoolSize
  /\ batch' = SubSeq(stream, 1, n)
  /\ stream' = SubSeq(stream, n + 1, Len(stream))
  /\ consumer' = "send"
  /\ UNCHANGED <<jobChan, loop, counterVars, cancelled, start, handled>>

(* Nothing within a second, or an error and a pause of a second. *)
FetchNothing ==
  /\ consumer = "consume"
  /\ consumer' = "check"
  /\ UNCHANGED <<stream, batch, jobChan, loop, counterVars, cancelled,
                 start, handled>>

(* Mistake: the message that was sent is not taken off the batch. *)
Send_KeepsBatch ==
  /\ consumer = "send"
  /\ Len(jobChan) < 2 * PoolSize
  /\ jobChan' = Append(jobChan, Head(batch))
  /\ consumer' = "count"
  /\ UNCHANGED <<stream, batch, loop, counterVars, cancelled, start,
                 handled>>

Send ==
  /\ consumer = "send"
  /\ Len(jobChan) < 2 * PoolSize
  /\ jobChan' = Append(jobChan, Head(batch))
  /\ batch' = Tail(batch)
  /\ consumer' = "count"
  /\ UNCHANGED <<stream, loop, counterVars, cancelled, start, handled>>

(* A processLoop may have finished the message by now. *)
CountSent ==
  /\ consumer = "count"
  /\ incrementActive(1)
  /\ consumer' = IF batch = <<>> THEN "check" ELSE "send"
  /\ UNCHANGED <<stream, batch, jobChan, loop, cancelled, start, handled>>

(* Mistake: the send to jobChan does not watch ctx.Done(). *)
ConsumerStops_NotSending ==
  /\ consumer \in {"check", "consume"}
  /\ cancelled
  /\ consumer' = "exited"
  /\ UNCHANGED <<stream, batch, jobChan, loop, counterVars, cancelled,
                 start, handled>>

(* The rest of the batch is dropped. *)
ConsumerStops ==
  /\ consumer \in {"check", "consume", "send"}
  /\ cancelled
  /\ consumer' = "exited"
  /\ UNCHANGED <<stream, batch, jobChan, loop, counterVars, cancelled,
                 start, handled>>

-----------------------------------------------------------------------------
(* processLoop; with ctx done and a message in jobChan, select takes either. *)

Receive(g) ==
  /\ loop[g] = AtRest
  /\ jobChan # <<>>
  /\ loop' = [loop EXCEPT ![g] = [pc |-> "run", msg |-> Head(jobChan)]]
  /\ jobChan' = Tail(jobChan)
  /\ UNCHANGED <<stream, batch, consumer, counterVars, cancelled, start,
                 handled>>

(* Mistakes: the loop ends with its message; the counter is not taken down. *)
Finish_LoopEnds(g) ==
  /\ loop[g].pc = "run"
  /\ loop[g].msg \notin Hanging
  /\ handled' = handled \cup {loop[g].msg}
  /\ incrementActive(-1)
  /\ loop' = [loop EXCEPT ![g] = Gone]
  /\ UNCHANGED <<stream, batch, jobChan, consumer, cancelled, start>>
Finish_Uncounted(g) ==
  /\ loop[g].pc = "run"
  /\ loop[g].msg \notin Hanging
  /\ handled' = handled \cup {loop[g].msg}
  /\ loop' = [loop EXCEPT ![g] = AtRest]
  /\ UNCHANGED <<stream, batch, jobChan, consumer, counterVars, cancelled,
                 start>>

(* executeJob returns: after an error or a panic of the handler, too. *)
Finish(g) ==
  /\ loop[g].pc = "run"
  /\ loop[g].msg \notin Hanging
  /\ handled' = handled \cup {loop[g].msg}
  /\ loop' = [loop EXCEPT ![g].pc = "count"]
  /\ UNCHANGED <<stream, batch, jobChan, consumer, counterVars, cancelled,
                 start>>

CountDone(g) ==
  /\ loop[g].pc = "count"
  /\ incrementActive(-1)
  /\ loop' = [loop EXCEPT ![g] = AtRest]
  /\ UNCHANGED <<stream, batch, jobChan, consumer, cancelled, start, handled>>

LoopStops(g) ==
  /\ loop[g] = AtRest
  /\ cancelled
  /\ loop' = [loop EXCEPT ![g] = Gone]
  /\ UNCHANGED <<stream, batch, jobChan, consumer, counterVars, cancelled,
                 start, handled>>

-----------------------------------------------------------------------------
(* Start: the signal, then wg.Wait or the shutdown timeout. *)

Cancel ==
  /\ ~cancelled
  /\ cancelled' = TRUE
  /\ UNCHANGED <<poolVars, counterVars, start, handled>>

Stopped == consumer = "exited" /\ \A g \in Loops : loop[g] = Gone

Complete ==
  /\ start = "running"
  /\ cancelled
  /\ Stopped
  /\ start' = "complete"
  /\ UNCHANGED <<poolVars, counterVars, cancelled, handled>>

TimeOut ==
  /\ start = "running"
  /\ cancelled
  /\ start' = "timedOut"
  /\ UNCHANGED <<poolVars, counterVars, cancelled, handled>>

Consumer ==
  \/ Poll \/ (\E n \in 1 .. PoolSize : Fetch(n)) \/ FetchNothing
  \/ Send \/ CountSent \/ ConsumerStops

ProcessLoop(g) == Receive(g) \/ Finish(g) \/ CountDone(g) \/ LoopStops(g)

Next ==
  \/ Consumer
  \/ \E g \in Loops : ProcessLoop(g)
  \/ Cancel \/ Complete \/ TimeOut

Spec == Init /\ [][Next]_vars

(***************************************************************************)
(* Goroutines that can run do.  A broker polled again and again answers    *)
(* now and then (SF), and the shutdown timeout fires.  A handler in        *)
(* Hanging never returns.                                                  *)
(***************************************************************************)
FairSpec ==
  /\ Spec
  /\ WF_vars(Consumer)
  /\ SF_vars(\E n \in 1 .. PoolSize : Fetch(n))
  /\ \A g \in Loops : WF_vars(ProcessLoop(g))
  /\ WF_vars(Complete \/ TimeOut)
-----------------------------------------------------------------------------
(* Properties. *)

Busy == {g \in Loops : loop[g].pc \in {"run", "count"}}
InFlight == Len(jobChan) + Cardinality(Busy)
Uncounted == IF consumer = "count" THEN 1 ELSE 0

(***************************************************************************)
(* A row that says busy or idle shows as active jobs the messages sent and *)
(* not yet counted down, or one more: a loop may finish a message before   *)
(* consumeLoop counts it, the counter is then stopped at zero, and the     *)
(* count that comes late is never taken back; but it happens once at most. *)
(* The row may have been there before, with the jobs of a process that was *)
(* killed: then it says neither until a heartbeat has replaced them.  The  *)
(* exception is a row whose last heartbeat failed.                         *)
(***************************************************************************)
ActiveWithinOne ==
  /\ row.status \in {"busy", "idle"} /\ ~missed => row.active = activeCnt
  /\ activeCnt - (InFlight - Uncounted) \in {0, 1}

(* A worker that is not shut down calls the handler of every message it    *)
(* fetched, as long as a hanging handler leaves it one loop.               *)
ToElements(seq) == {seq[i] : i \in 1 .. Len(seq)}
Running == {loop[g].msg : g \in {h \in Loops : loop[h].pc = "run"}}
Held == ToElements(batch) \cup ToElements(jobChan) \cup Running
FetchedIsHandled ==
  \A m \in Messages \ Hanging :
    m \in Held ~> m \in handled \/ cancelled

(* After the signal Start returns, and every goroutine that is not in a    *)
(* hanging handler ends, whatever jobChan and the batch still hold.        *)
ShutdownEnds ==
  cancelled ~>
    /\ start # "running"
    /\ consumer = "exited"
    /\ \A g \in Loops : loop[g] = Gone \/ loop[g].msg \in Hanging

(* The process handles every message it was handed at most once, and the   *)
(* batch, the channel and the loops never hold a message twice.            *)
OneDelivery == INSTANCE Delivery WITH
  Messages <- ToElements(Backlog),
  waiting <- ToElements(stream),
  held <- Held
DeliverySpec == OneDelivery!Spec
=============================================================================
