--------------------------- MODULE Service_proofs ----------------------------
(***************************************************************************)
(* What Service guarantees for every set of jobs and orders, every         *)
(* deployment, every max_attempts and every number of stops.               *)
(***************************************************************************)
EXTENDS Service, TLAPS, FiniteSetTheorems

(* The broker the API publishes to. *)
Home == initBroker("api")

Busy(p) == exec[p] \notin {Off, Idle}
Runs(p, j) == Busy(p) /\ Job(p) = j
Hold(p, j) == IF Runs(p, j) /\ initBroker(p) = "redis" THEN 1 ELSE 0

(* Only processes that are deployed run, only hosts of a worker execute,   *)
(* and an execution ends with its process.                                 *)
ProcessesRun ==
  \A p \in Process :
    /\ phase[p] # "down" => p \in Deployed
    /\ exec[p] # Off => p \in Hosts /\ phase[p] # "down"

(* An execution from Redis has an entry that is owed, and no two the same. *)
EntriesHeld ==
  \A j \in Jobs : Hold("api", j) + Hold("worker", j) <= pending[j].owed

OutcomesDecided ==
  \A p \in Process :
    exec[p].pc \in {"save", "finish"}
      => exec[p].row.status \in {"SUCCEEDED", "RETRYING", "FAILED"}

(* All that moves of a job was ordered, and goes through the API's broker. *)
MessagesAtHome ==
  \A j \in Jobs :
    /\ request[j] # "none" => order[j] \in Orders
    /\ \A b \in Brokers :
         ready[b][j] > 0 => b = Home /\ request[j] # "none"
    /\ pending[j] # NoEntries => Home = "redis" /\ request[j] # "none"
    /\ \A p \in Process :
         Runs(p, j) => initBroker(p) = Home /\ request[j] # "none"

BaseInv ==
  /\ TypeOK
  /\ ProcessesRun
  /\ EntriesHeld
  /\ OutcomesDecided
  /\ MessagesAtHome

(* A copy of a SQL row, as long as it may be written back. *)
CopiesCounted ==
  \A p \in Process :
    Busy(p) /\ ~Cancelled(p) /\ initStorage(p) = "sql"
      => exec[p].row.attempts <= failures[Job(p)]

(* An API that is not up although it had a request was stopped. *)
StopsCounted ==
  /\ phase["api"] \in {"stopping", "closing"} => stops["api"] > 0
  /\ \A j \in Jobs :
       request[j] # "none" /\ phase["api"] = "down" => stops["api"] > 0

(* A job that was inserted has a row. *)
RowsKept ==
  \A j \in Jobs :
    request[j] \in {"enqueue", "reply", "answered"}
      => Volatile \/ rows[initStorage("api")][j] # NoRow

(* An execution that is about to give its message up. *)
Closes(p, j) ==
  /\ Runs(p, j)
  /\ ~Cancelled(p)
  /\ \/ exec[p].pc = "drop"
     \/ exec[p].pc = "finish" /\ exec[p].row.status \in {"SUCCEEDED", "FAILED"}
Closing(p, j) == IF Closes(p, j) THEN 1 ELSE 0

(* The runs of j that were taken from the broker and not given up. *)
Taken(j) ==
  IF Home = "redis" THEN pending[j].owed ELSE IF Runs("api", j) THEN 1 ELSE 0

(* More runs are owed than will be given up. *)
Survives(j) ==
  \/ Volatile
  \/ SplitStore
  \/ Settled(j)
  \/ ready[Home][j] > 0
  \/ Taken(j) > Closing("api", j) + Closing("worker", j)

AcceptedInv ==
  \A j \in Jobs : request[j] \in {"reply", "answered"} => Survives(j)

-----------------------------------------------------------------------------
(* What a step that leaves the environment alone leaves alone. *)
LEMMA EnvFacts ==
  ASSUME env' = env
  PROVE  /\ \A p \in Process : /\ initBroker(p)' = initBroker(p)
                               /\ initStorage(p)' = initStorage(p)
         /\ Hosts' = Hosts /\ Deployed' = Deployed /\ Home' = Home
         /\ (SplitStore <=> SplitStore')
BY DEF initBroker, initStorage, Config, LoadAPIConfig, LoadWorkerConfig,
       Hosts, Deployed, Home, SplitStore

LEMMA HomesFacts ==
  ASSUME NEW p \in Process
  PROVE  /\ initBroker(p) \in {p, "redis"} /\ initBroker(p) \in Brokers
         /\ initStorage(p) \in {p, "sql"} /\ initStorage(p) \in Stores
         /\ Home \in {"api", "redis"}
BY DEF initBroker, initStorage, Brokers, Stores, Process, Home

LEMMA ExecFacts ==
  ASSUME TypeOK, NEW p \in Process, Busy(p)
  PROVE  /\ exec[p] \in Execution
         /\ Job(p) \in Jobs
         /\ exec[p].pc \in ExecPC
         /\ exec[p].row \in Row \cup {NoRow}
         /\ exec[p].row.attempts \in Nat
         /\ exec[p] = [pc |-> exec[p].pc, job |-> Job(p), row |-> exec[p].row]
BY DEF TypeOK, Busy, Execution, Job, Row, NoRow

LEMMA DoingIsBusy ==
  ASSUME TypeOK, NEW p \in Process, NEW pc \in ExecPC, Doing(p, pc)
  PROVE  Busy(p)
BY DEF Doing, Busy, Off, Idle, ExecPC

(* How many processes hold an entry of j. *)
LEMMA HoldersCounted ==
  ASSUME NEW j \in Jobs
  PROVE  Cardinality(Holders(j)) = Hold("api", j) + Hold("worker", j)
<1> DEFINE A == Hold("api", j) = 1
           W == Hold("worker", j) = 1
<1>1. /\ "api" \in Holders(j) <=> A
      /\ "worker" \in Holders(j) <=> W
      /\ Holders(j) \subseteq {"api", "worker"}
      /\ Hold("api", j) \in {0, 1} /\ Hold("worker", j) \in {0, 1}
  BY DEF Holders, Hold, Runs, Busy, Process
<1> HIDE DEF A, W
<1>2. CASE A /\ W
  <2>1. Holders(j) = {"api"} \cup {"worker"}
    BY <1>1, <1>2
  <2>2. Cardinality({"api"}) = 1 /\ IsFiniteSet({"api"})
    BY FS_Singleton
  <2>3. Cardinality({"api"} \cup {"worker"}) = 2
    BY <2>2, FS_AddElement
  <2> QED BY <1>2, <2>1, <2>3 DEF A, W
<1>3. CASE A /\ ~W
  <2>1. Holders(j) = {"api"}
    BY <1>1, <1>3
  <2> QED BY <1>1, <1>3, <2>1, FS_Singleton DEF A, W
<1>4. CASE ~A /\ W
  <2>1. Holders(j) = {"worker"}
    BY <1>1, <1>4
  <2> QED BY <1>1, <1>4, <2>1, FS_Singleton DEF A, W
<1>5. CASE ~A /\ ~W
  <2>1. Holders(j) = {}
    BY <1>1, <1>5
  <2> QED BY <1>1, <1>5, <2>1, FS_EmptySet DEF A, W
<1> QED BY <1>2, <1>3, <1>4, <1>5
-----------------------------------------------------------------------------
(* Types. *)

LEMMA InitBaseInv == Init => BaseInv
<1> SUFFICES ASSUME Init PROVE BaseInv
  OBVIOUS
<1>1. TypeOK
  BY DEF Init, TypeOK, NoEntries, Entries, RequestPC
<1>2. ProcessesRun /\ OutcomesDecided
  BY DEF Init, ProcessesRun, OutcomesDecided, Off
<1>3. \A p \in Process, j \in Jobs : ~Runs(p, j) /\ Hold(p, j) = 0
  BY DEF Init, Runs, Busy, Hold
<1>4. EntriesHeld
  <2>1. \A j \in Jobs : Hold("api", j) = 0 /\ Hold("worker", j) = 0
    BY <1>3 DEF Process
  <2>2. \A j \in Jobs : pending[j].owed = 0
    BY DEF Init, NoEntries
  <2> QED BY <2>1, <2>2 DEF EntriesHeld
<1>5. MessagesAtHome
  BY <1>3 DEF Init, MessagesAtHome
<1> QED BY <1>1, <1>2, <1>4, <1>5 DEF BaseInv

LEMMA UpdateType ==
  ASSUME TypeOK, NEW p \in Process, Job(p) \in Jobs, NEW row \in Row,
         UpdateJob(p, row)
  PROVE  rows' \in [Stores -> [Jobs -> Row \cup {NoRow}]]
<1>1. initStorage(p) \in Stores
  BY HomesFacts
<1> QED BY <1>1 DEF TypeOK, UpdateJob

(* The messages of j that a step publishes. *)
LEMMA PublishType ==
  ASSUME TypeOK, NEW b \in Brokers, NEW j \in Jobs,
         ready' = [ready EXCEPT ![b][j] = @ + 1]
  PROVE  ready' \in [Brokers -> [Jobs -> Nat]]
BY DEF TypeOK

LEMMA StartType ==
  ASSUME TypeOK, NEW p \in Process, NEW j \in Jobs, Start(p, j)
  PROVE  exec' \in [Process -> Execution \cup {Off, Idle}]
<1>1. [pc |-> "load", job |-> j, row |-> NoRow] \in Execution
  BY DEF Execution, ExecPC
<1> QED BY <1>1 DEF Start, TypeOK

-----------------------------------------------------------------------------
(* Frames: what stays when a step adds no message and no execution. *)

LEMMA BaseStays ==
  ASSUME BaseInv, env' = env, pending' = pending, order' = order,
         \A j \in Jobs : request[j] # "none" <=> request'[j] # "none",
         \A b \in Brokers, j \in Jobs : ready'[b][j] > 0 => ready[b][j] > 0,
         \A p \in Process, j \in Jobs : Runs(p, j)' => Runs(p, j)
  PROVE  EntriesHeld' /\ MessagesAtHome'
<1>1. /\ \A p \in Process : initBroker(p)' = initBroker(p)
      /\ Home' = Home
  BY EnvFacts
<1>2. ASSUME NEW p \in Process, NEW j \in Jobs
      PROVE  Hold(p, j)' <= Hold(p, j) /\ Hold(p, j) \in 0 .. 1
             /\ Hold(p, j)' \in 0 .. 1
  BY <1>1 DEF Hold
<1>3. EntriesHeld'
  <2> SUFFICES ASSUME NEW j \in Jobs
               PROVE  Hold("api", j)' + Hold("worker", j)' <= pending[j].owed
    BY DEF EntriesHeld
  <2>1. pending[j].owed \in Nat
    BY DEF BaseInv, TypeOK, Entries
  <2>2. Hold("api", j) + Hold("worker", j) <= pending[j].owed
    BY DEF BaseInv, EntriesHeld
  <2> QED BY <1>2, <2>1, <2>2 DEF Process
<1>4. MessagesAtHome'
  <2>1. ASSUME NEW j \in Jobs, NEW p \in Process, Runs(p, j)'
        PROVE  initBroker(p) = Home /\ request'[j] # "none"
    BY <2>1 DEF BaseInv, MessagesAtHome
  <2>2. ASSUME NEW j \in Jobs
        PROVE  /\ request'[j] # "none" => order[j] \in Orders
               /\ \A b \in Brokers :
                    ready'[b][j] > 0 => b = Home /\ request'[j] # "none"
               /\ pending[j] # NoEntries
                    => Home = "redis" /\ request'[j] # "none"
    BY DEF BaseInv, MessagesAtHome
  <2> QED BY <1>1, <2>1, <2>2 DEF MessagesAtHome, NoEntries
<1> QED BY <1>3, <1>4

LEMMA OneMoves ==
  ASSUME TypeOK, env' = env, NEW p \in Process, NEW e,
         exec' = [exec EXCEPT ![p] = e]
  PROVE  /\ exec'[p] = e
         /\ \A q \in Process \ {p} :
              /\ exec'[q] = exec[q]
              /\ \A j \in Jobs : /\ Runs(q, j)' <=> Runs(q, j)
                                 /\ Hold(q, j)' = Hold(q, j)
<1>1. /\ exec'[p] = e
      /\ \A q \in Process \ {p} : exec'[q] = exec[q]
  BY DEF TypeOK
<1>2. \A q \in Process \ {p}, j \in Jobs : Runs(q, j)' <=> Runs(q, j)
  BY <1>1 DEF Runs, Busy, Job, Off, Idle
<1>3. \A q \in Process \ {p}, j \in Jobs : Hold(q, j)' = Hold(q, j)
  BY <1>2, EnvFacts DEF Hold
<1> QED BY <1>1, <1>2, <1>3

(* The same execution goes on to pc with row. *)
LEMMA ExecGoesOn ==
  ASSUME TypeOK, env' = env, NEW p \in Process, Busy(p),
         NEW pc \in ExecPC, NEW row \in Row \cup {NoRow},
         exec' = [exec EXCEPT ![p] = [pc |-> pc, job |-> Job(p), row |-> row]]
  PROVE  /\ exec' \in [Process -> Execution \cup {Off, Idle}]
         /\ \A q \in Process, j \in Jobs : /\ Runs(q, j)' <=> Runs(q, j)
                                           /\ Hold(q, j)' = Hold(q, j)
         /\ exec'[p] = [pc |-> pc, job |-> Job(p), row |-> row]
         /\ Job(p)' = Job(p)
<1> DEFINE e == [pc |-> pc, job |-> Job(p), row |-> row]
<1>1. e \in Execution /\ e \notin {Off, Idle} /\ e.job = Job(p)
  BY ExecFacts DEF Execution, Off, Idle, ExecPC
<1> HIDE DEF e
<1>2. exec'[p] = e /\ exec' \in [Process -> Execution \cup {Off, Idle}]
  BY <1>1 DEF TypeOK, e
<1>3. Busy(p)' /\ Job(p)' = Job(p)
  BY <1>1, <1>2 DEF Busy, Job, Off, Idle
<1>4. \A j \in Jobs : Runs(p, j)' <=> Runs(p, j)
  BY <1>3 DEF Runs
<1>5. \A j \in Jobs : Hold(p, j)' = Hold(p, j)
  BY <1>4, EnvFacts DEF Hold
<1>6. \A q \in Process \ {p}, j \in Jobs :
        (Runs(q, j)' <=> Runs(q, j)) /\ Hold(q, j)' = Hold(q, j)
  BY OneMoves DEF e
<1> QED BY <1>2, <1>3, <1>4, <1>5, <1>6 DEF e

LEMMA HeldIsOwed ==
  ASSUME BaseInv, NEW p \in Process, Busy(p), initBroker(p) = "redis"
  PROVE  pending[Job(p)].owed \in Nat \ {0}
<1>1. Job(p) \in Jobs
  BY ExecFacts DEF BaseInv
<1>2. Hold(p, Job(p)) = 1
  BY DEF Hold, Runs
<1>3. /\ Hold("api", Job(p)) \in 0 .. 1 /\ Hold("worker", Job(p)) \in 0 .. 1
      /\ Hold("api", Job(p)) + Hold("worker", Job(p)) <= pending[Job(p)].owed
      /\ pending[Job(p)].owed \in Nat
  BY <1>1 DEF Hold, BaseInv, EntriesHeld, TypeOK, Entries
<1> QED BY <1>2, <1>3 DEF Process

(* What Ack and LeaveEntry do to the entries of a job. *)
LEMMA EntryGoes ==
  ASSUME BaseInv, NEW p \in Process, Busy(p), Ack(p) \/ LeaveEntry(p)
  PROVE  /\ pending' \in [Jobs -> Entries]
         /\ \A j \in Jobs \ {Job(p)} : pending'[j] = pending[j]
         /\ IF BrokerWorks(p) /\ initBroker(p) = "redis"
              THEN pending'[Job(p)].owed = pending[Job(p)].owed - 1
              ELSE pending' = pending
<1>1. Job(p) \in Jobs /\ pending \in [Jobs -> Entries]
  BY ExecFacts DEF BaseInv, TypeOK
<1>2. CASE BrokerWorks(p) /\ initBroker(p) = "redis"
  <2>1. pending[Job(p)].owed - 1 \in Nat /\ pending[Job(p)].left \in Nat
    BY <1>1, <1>2, HeldIsOwed DEF Entries
  <2> DEFINE old == pending[Job(p)]
             acked == [old EXCEPT !.owed = @ - 1]
             left == [owed |-> old.owed - 1, left |-> old.left + 1]
  <2>2. acked \in Entries /\ acked.owed = old.owed - 1
    BY <1>1, <2>1 DEF Entries
  <2>3. left \in Entries /\ left.owed = old.owed - 1
    BY <2>1 DEF Entries
  <2>4. \/ pending' = [pending EXCEPT ![Job(p)] = acked]
        \/ pending' = [pending EXCEPT ![Job(p)] = left]
    BY <1>2 DEF Ack, Acknowledge, LeaveEntry
  <2> HIDE DEF acked, left
  <2> QED BY <1>1, <1>2, <2>2, <2>3, <2>4
<1>3. CASE ~(BrokerWorks(p) /\ initBroker(p) = "redis")
  BY <1>1, <1>3 DEF Ack, Acknowledge, LeaveEntry
<1> QED BY <1>2, <1>3

-----------------------------------------------------------------------------
(* The steps of the processes and of the requests keep the base.           *)

LEMMA ProcessKeepsBase ==
  ASSUME BaseInv, NEW p \in Process,
         Main(p) \/ RegisterFails(p) \/ Signal(p) \/ Kill(p)
  PROVE  BaseInv'
<1> USE DEF worldVars, budgets
<1>1. TypeOK /\ ProcessesRun /\ OutcomesDecided
  BY DEF BaseInv
<1>2. /\ env' = env /\ pending' = pending /\ order' = order
      /\ failures' = failures
  BY DEF Main, Boot, Register, RegisterFails, Signal, Kill, CloseBroker,
         Exit, StopsOnce
<1>3. /\ \A q \in Process \ {p} : exec'[q] = exec[q] /\ phase'[q] = phase[q]
      /\ \/ exec'[p] = exec[p] /\ phase[p] # "down"
         \/ exec'[p] = Off
         \/ exec'[p] = Idle /\ p \in Hosts /\ phase'[p] # "down"
      /\ exec' \in [Process -> Execution \cup {Off, Idle}]
      /\ phase' \in [Process -> {"down", "up", "stopping", "closing"}]
      /\ phase[p] = "down" => p \in Deployed
      /\ phase'[p] = "down" => exec'[p] = Off
  BY <1>1 DEF Main, Boot, Register, RegisterFails, Signal, Kill, CloseBroker,
              Exit, StopsOnce, End, TypeOK, ProcessesRun
<1>4. /\ request' \in [Jobs -> RequestPC]
      /\ \A j \in Jobs : request[j] # "none" <=> request'[j] # "none"
  BY <1>1 DEF Main, Boot, Register, RegisterFails, Signal, Kill, CloseBroker,
              Exit, StopsOnce, End, TypeOK, RequestPC
<1>5. stops' \in [Process -> Nat] /\ errors' \in Nat /\ duplicates' \in Nat
  BY <1>1 DEF Main, Boot, Register, RegisterFails, Signal, Kill, CloseBroker,
              Exit, StopsOnce, TypeOK
<1>6. /\ rows' \in [Stores -> [Jobs -> Row \cup {NoRow}]]
      /\ ready' \in [Brokers -> [Jobs -> Nat]]
      /\ \A b \in Brokers, j \in Jobs : ready'[b][j] > 0 => ready[b][j] > 0
  <2>1. \/ rows' = rows /\ ready' = ready
        \/ /\ rows' = [rows EXCEPT ![p] = [j \in Jobs |-> NoRow]]
           /\ ready' = [ready EXCEPT ![p] = [j \in Jobs |-> 0]]
    BY DEF Main, Boot, Register, RegisterFails, Signal, Kill, CloseBroker,
           Exit, StopsOnce
  <2>2. p \in Stores /\ p \in Brokers
    BY DEF Stores, Brokers
  <2>3. /\ rows \in [Stores -> [Jobs -> Row \cup {NoRow}]]
        /\ ready \in [Brokers -> [Jobs -> Nat]]
    BY <1>1 DEF TypeOK
  <2>4. rows' \in [Stores -> [Jobs -> Row \cup {NoRow}]]
    BY <2>1, <2>2, <2>3
  <2>5. ready' \in [Brokers -> [Jobs -> Nat]]
    BY <2>1, <2>2, <2>3
  <2>6. ASSUME NEW b \in Brokers, NEW j \in Jobs, ready'[b][j] > 0
        PROVE  ready[b][j] > 0
    BY <2>1, <2>2, <2>3, <2>6
  <2> QED BY <2>4, <2>5, <2>6
<1>7. TypeOK'
  BY <1>1, <1>2, <1>3, <1>4, <1>5, <1>6 DEF TypeOK
<1>8. ProcessesRun'
  BY <1>1, <1>2, <1>3, EnvFacts DEF ProcessesRun, Off
<1>9. OutcomesDecided'
  BY <1>1, <1>3 DEF OutcomesDecided, Off, Idle
<1>10. \A q \in Process, j \in Jobs : Runs(q, j)' => Runs(q, j)
  BY <1>3 DEF Runs, Busy, Job, Off, Idle
<1>11. EntriesHeld' /\ MessagesAtHome'
  BY <1>2, <1>4, <1>6, <1>10, BaseStays
<1> QED BY <1>7, <1>8, <1>9, <1>11 DEF BaseInv

LEMMA RequestKeepsBase ==
  ASSUME BaseInv, NEW j \in Jobs,
         Submit(j) \/ Insert(j) \/ Enqueue(j) \/ Reply(j)
  PROVE  BaseInv'
<1> USE DEF worldVars, budgets
<1>1. TypeOK /\ ProcessesRun /\ OutcomesDecided
  BY DEF BaseInv
<1>2. /\ env' = env /\ pending' = pending /\ exec' = exec /\ phase' = phase
      /\ UNCHANGED <<failures, stops, errors, duplicates>>
  BY DEF Submit, Insert, Enqueue, Reply
<1>3. "api" \in Process /\ Home \in Brokers
  BY HomesFacts DEF Process, Home
<1>4. /\ request' \in [Jobs -> RequestPC]
      /\ request'[j] # "none"
      /\ \A i \in Jobs \ {j} : request'[i] = request[i]
  BY <1>1 DEF Submit, Insert, Enqueue, Reply, TypeOK, RequestPC
<1>5. /\ order' \in [Jobs -> Orders \cup {NoOrder}]
      /\ \A i \in Jobs \ {j} : order'[i] = order[i]
      /\ order'[j] \in Orders
  <2>1. request[j] # "none" => order[j] \in Orders
    BY DEF BaseInv, MessagesAtHome
  <2>2. \/ \E o \in Orders : order' = [order EXCEPT ![j] = o]
        \/ order' = order /\ request[j] # "none"
    BY DEF Submit, Insert, Enqueue, Reply
  <2>3. order \in [Jobs -> Orders \cup {NoOrder}]
    BY <1>1 DEF TypeOK
  <2>4. CASE \E o \in Orders : order' = [order EXCEPT ![j] = o]
    BY <2>3, <2>4
  <2>5. CASE order' = order /\ request[j] # "none"
    BY <2>1, <2>3, <2>5
  <2> QED BY <2>2, <2>4, <2>5
<1>6. rows' \in [Stores -> [Jobs -> Row \cup {NoRow}]]
  <2>1. CASE Insert(j)
    <3>1. initStorage("api") \in Stores
      BY <1>3, HomesFacts
    <3>2. [status |-> "QUEUED", attempts |-> 0] \in Row
      BY DEF Row, Status
    <3> QED BY <1>1, <2>1, <3>1, <3>2 DEF Insert, TypeOK
  <2> QED BY <1>1, <2>1 DEF Submit, Enqueue, Reply, TypeOK
<1>7. /\ ready' \in [Brokers -> [Jobs -> Nat]]
      /\ \A b \in Brokers, i \in Jobs :
           b # Home \/ i # j => ready'[b][i] = ready[b][i]
  <2>1. ready' = ready \/ ready' = [ready EXCEPT ![Home][j] = @ + 1]
    BY DEF Submit, Insert, Enqueue, Reply, Home
  <2>2. ready \in [Brokers -> [Jobs -> Nat]]
    BY <1>1 DEF TypeOK
  <2>3. ready' \in [Brokers -> [Jobs -> Nat]]
    BY <1>1, <1>3, <2>1, <2>2, PublishType
  <2>4. ASSUME NEW b \in Brokers, NEW i \in Jobs, b # Home \/ i # j
        PROVE  ready'[b][i] = ready[b][i]
    BY <1>3, <2>1, <2>2, <2>4
  <2> QED BY <2>3, <2>4
<1>8. TypeOK'
  BY <1>1, <1>2, <1>4, <1>5, <1>6, <1>7 DEF TypeOK
<1>9. /\ \A p \in Process : initBroker(p)' = initBroker(p)
      /\ Hosts' = Hosts /\ Deployed' = Deployed /\ Home' = Home
  BY <1>2, EnvFacts
<1>10. ProcessesRun' /\ OutcomesDecided'
  BY <1>1, <1>2, <1>9 DEF ProcessesRun, OutcomesDecided, Off
<1>11. \A p \in Process, i \in Jobs :
         (Runs(p, i)' <=> Runs(p, i)) /\ Hold(p, i)' = Hold(p, i)
  BY <1>2, <1>9 DEF Runs, Busy, Job, Hold, Off, Idle
<1>12. EntriesHeld'
  BY <1>2, <1>11 DEF BaseInv, EntriesHeld, Process
<1>13. MessagesAtHome'
  <2>1. ASSUME NEW p \in Process, NEW i \in Jobs, Runs(p, i)'
        PROVE  initBroker(p) = Home /\ request'[i] # "none"
    BY <1>4, <1>11, <2>1 DEF BaseInv, MessagesAtHome
  <2>2. ASSUME NEW i \in Jobs
        PROVE  /\ request'[i] # "none" => order'[i] \in Orders
               /\ \A b \in Brokers :
                    ready'[b][i] > 0 => b = Home /\ request'[i] # "none"
               /\ pending[i] # NoEntries
                    => Home = "redis" /\ request'[i] # "none"
    BY <1>4, <1>5, <1>7 DEF BaseInv, MessagesAtHome
  <2> QED BY <1>2, <1>9, <2>1, <2>2 DEF MessagesAtHome, NoEntries
<1> QED BY <1>8, <1>10, <1>12, <1>13 DEF BaseInv

-----------------------------------------------------------------------------
(* The worker takes a message. *)

LEMMA TakeKeepsBase ==
  ASSUME BaseInv, NEW p \in Process, NEW j \in Jobs, Start(p, j),
         UNCHANGED <<env, phase, request, order>>,
         initBroker(p) = Home, request[j] # "none",
         \A b \in Brokers, i \in Jobs : ready'[b][i] > 0 => ready[b][i] > 0,
         pending' \in [Jobs -> Entries],
         \A i \in Jobs \ {j} : pending'[i] = pending[i],
         IF Home = "redis"
           THEN pending'[j].owed > Hold("api", j) + Hold("worker", j)
           ELSE pending' = pending
  PROVE  ProcessesRun' /\ EntriesHeld' /\ OutcomesDecided' /\ MessagesAtHome'
<1>1. TypeOK /\ ProcessesRun /\ EntriesHeld /\ OutcomesDecided
      /\ MessagesAtHome /\ exec[p] = Idle
  BY DEF BaseInv, Start
<1>2. /\ \A q \in Process : initBroker(q)' = initBroker(q)
      /\ Home' = Home /\ Hosts' = Hosts /\ Deployed' = Deployed
  BY EnvFacts
<1> DEFINE e == [pc |-> "load", job |-> j, row |-> NoRow]
<1>3. /\ exec'[p] = e
      /\ \A q \in Process \ {p} : exec'[q] = exec[q]
      /\ \A q \in Process \ {p}, i \in Jobs :
           (Runs(q, i)' <=> Runs(q, i)) /\ Hold(q, i)' = Hold(q, i)
  <2>1. env' = env /\ exec' = [exec EXCEPT ![p] = e]
    BY DEF Start
  <2> HIDE DEF e
  <2> QED BY <1>1, <2>1, OneMoves
<1>4. e \notin {Off, Idle} /\ e.job = j /\ e.pc = "load"
  BY DEF Off, Idle
<1> HIDE DEF e
<1>5. Busy(p)' /\ Job(p)' = j /\ ~Busy(p)
  BY <1>1, <1>3, <1>4 DEF Busy, Job, Off, Idle
<1>6. \A i \in Jobs : /\ Runs(p, i)' <=> i = j
                      /\ Hold(p, i) = 0
                      /\ Hold(p, i)' = IF i = j /\ Home = "redis" THEN 1 ELSE 0
  BY <1>2, <1>5 DEF Runs, Hold
<1>7. ProcessesRun'
  BY <1>1, <1>2, <1>3, <1>4 DEF ProcessesRun, Off, Idle
<1>8. OutcomesDecided'
  BY <1>1, <1>3, <1>4 DEF OutcomesDecided
<1>9. EntriesHeld'
  <2> SUFFICES ASSUME NEW i \in Jobs
               PROVE  Hold("api", i)' + Hold("worker", i)' <= pending'[i].owed
    BY DEF EntriesHeld
  <2>1. /\ Hold("api", i) + Hold("worker", i) <= pending[i].owed
        /\ pending[i].owed \in Nat /\ pending'[i].owed \in Nat
        /\ Hold("api", i) \in 0 .. 1 /\ Hold("worker", i) \in 0 .. 1
    BY <1>1 DEF EntriesHeld, TypeOK, Entries, Hold
  <2>2. CASE i # j \/ Home # "redis"
    <3>1. \A q \in Process : Hold(q, i)' = Hold(q, i)
      BY <1>3, <1>6, <2>2
    <3> QED BY <2>1, <2>2, <3>1 DEF Process
  <2>3. CASE i = j /\ Home = "redis"
    <3>1. Hold("api", i)' + Hold("worker", i)'
            = Hold("api", i) + Hold("worker", i) + 1
      BY <1>3, <1>6, <2>1, <2>3 DEF Process
    <3> QED BY <2>1, <2>3, <3>1
  <2> QED BY <2>2, <2>3
<1>10. MessagesAtHome'
  <2>1. ASSUME NEW q \in Process, NEW i \in Jobs, Runs(q, i)'
        PROVE  initBroker(q) = Home /\ request[i] # "none"
    BY <1>1, <1>3, <1>6, <2>1 DEF MessagesAtHome
  <2>2. ASSUME NEW i \in Jobs
        PROVE  /\ request[i] # "none" => order[i] \in Orders
               /\ \A b \in Brokers :
                    ready'[b][i] > 0 => b = Home /\ request[i] # "none"
               /\ pending'[i] # NoEntries
                    => Home = "redis" /\ request[i] # "none"
    BY <1>1 DEF MessagesAtHome
  <2> QED BY <1>2, <2>1, <2>2 DEF MessagesAtHome, NoEntries
<1> QED BY <1>7, <1>8, <1>9, <1>10

LEMMA TakesKeepBase ==
  ASSUME BaseInv, NEW p \in Process, NEW j \in Jobs,
         Consume(p, j) \/ Reclaim(p, j) \/ ReclaimLeft(p, j)
  PROVE  BaseInv'
<1> DEFINE b == initBroker(p)
           held == Hold("api", j) + Hold("worker", j)
<1>1. /\ TypeOK
      /\ b \in Brokers /\ Home \in {"api", "redis"}
      /\ held \in Nat /\ held <= pending[j].owed
      /\ pending \in [Jobs -> Entries]
      /\ ready \in [Brokers -> [Jobs -> Nat]]
  BY HomesFacts DEF BaseInv, EntriesHeld, Hold, TypeOK
<1>2. /\ Start(p, j)
      /\ UNCHANGED <<env, phase, request, order, rows, failures, stops, errors>>
      /\ duplicates' \in Nat
  BY <1>1 DEF Consume, Reclaim, ReclaimLeft, worldVars, budgets, TypeOK
<1>3. b = Home /\ request[j] # "none"
  <2>1. CASE Consume(p, j)
    BY <1>1, <2>1 DEF Consume, BaseInv, MessagesAtHome
  <2>2. CASE Reclaim(p, j) \/ ReclaimLeft(p, j)
    <3>1. pending[j] # NoEntries
      <4>1. CASE Reclaim(p, j)
        BY <1>1, <4>1, HoldersCounted DEF Reclaim, NoEntries
      <4>2. CASE ReclaimLeft(p, j)
        BY <4>2 DEF ReclaimLeft, NoEntries
      <4> QED BY <2>2, <4>1, <4>2
    <3> QED BY <2>2, <3>1 DEF Reclaim, ReclaimLeft, BaseInv, MessagesAtHome
  <2> QED BY <2>1, <2>2
<1>4. /\ ready' \in [Brokers -> [Jobs -> Nat]]
      /\ \A c \in Brokers, i \in Jobs : ready'[c][i] > 0 => ready[c][i] > 0
  <2>1. \/ ready' = ready
        \/ ready' = [ready EXCEPT ![b][j] = @ - 1] /\ ready[b][j] > 0
    BY DEF Consume, Reclaim, ReclaimLeft, worldVars
  <2>2. ready' \in [Brokers -> [Jobs -> Nat]]
    BY <1>1, <2>1
  <2>3. ASSUME NEW c \in Brokers, NEW i \in Jobs, ready'[c][i] > 0
        PROVE  ready[c][i] > 0
    BY <1>1, <2>1, <2>3
  <2> QED BY <2>2, <2>3
<1>5. /\ pending' \in [Jobs -> Entries]
      /\ \A i \in Jobs \ {j} : pending'[i] = pending[i]
      /\ IF Home = "redis" THEN pending'[j].owed > held
                           ELSE pending' = pending
  <2> DEFINE old == pending[j]
             more == [old EXCEPT !.owed = @ + 1]
             back == [owed |-> old.owed + 1, left |-> old.left - 1]
  <2>1. /\ old \in Entries /\ old.owed \in Nat /\ old.left \in Nat
        /\ more \in Entries /\ more.owed = old.owed + 1
        /\ old.left > 0 => back \in Entries
        /\ back.owed = old.owed + 1
    BY <1>1 DEF Entries
  <2>2. \/ Home # "redis" /\ pending' = pending
        \/ Home = "redis" /\ pending' = [pending EXCEPT ![j] = more]
        \/ Home = "redis" /\ pending' = pending /\ old.owed > held
        \/ /\ Home = "redis" /\ old.left > 0
           /\ pending' = [pending EXCEPT ![j] = back]
    BY <1>3, HoldersCounted DEF Consume, Reclaim, ReclaimLeft, worldVars
  <2> HIDE DEF more, back, held
  <2> QED BY <1>1, <2>1, <2>2
<1>6. ProcessesRun' /\ EntriesHeld' /\ OutcomesDecided' /\ MessagesAtHome'
  BY <1>2, <1>3, <1>4, <1>5, TakeKeepsBase
<1>7. exec' \in [Process -> Execution \cup {Off, Idle}]
  BY <1>1, <1>2, StartType
<1>8. TypeOK'
  BY <1>1, <1>2, <1>4, <1>5, <1>7 DEF TypeOK
<1> QED BY <1>6, <1>8 DEF BaseInv

-----------------------------------------------------------------------------
(* The worker goes on with an execution. *)

LEMMA ExecMoves ==
  ASSUME TypeOK, NEW p \in Process, Busy(p), NEW x, NEW y
  PROVE  /\ [exec EXCEPT ![p].pc = x]
              = [exec EXCEPT ![p] =
                   [pc |-> x, job |-> Job(p), row |-> exec[p].row]]
         /\ [exec EXCEPT ![p].pc = x, ![p].row = y]
              = [exec EXCEPT ![p] = [pc |-> x, job |-> Job(p), row |-> y]]
<1>1. /\ exec[p] = [pc |-> exec[p].pc, job |-> Job(p), row |-> exec[p].row]
      /\ DOMAIN exec = Process
  BY ExecFacts DEF TypeOK
<1> DEFINE moved == [exec EXCEPT ![p].pc = x]
           e == [pc |-> x, job |-> Job(p), row |-> exec[p].row]
<1>2. [exec[p] EXCEPT !.pc = x] = e
  BY <1>1
<1>3. moved = [exec EXCEPT ![p] = e]
  BY <1>2
<1>4. moved[p] = e /\ [e EXCEPT !.row = y]
                        = [pc |-> x, job |-> Job(p), row |-> y]
  BY <1>1, <1>3
<1>5. [moved EXCEPT ![p].row = y]
        = [exec EXCEPT ![p] = [pc |-> x, job |-> Job(p), row |-> y]]
  BY <1>1, <1>3, <1>4
<1> QED BY <1>3, <1>5

LEMMA StatusSet ==
  ASSUME NEW row \in Row \cup {NoRow}, NEW st \in Status
  PROVE  LET new == [row EXCEPT !.status = st]
         IN  new \in Row /\ new.status = st /\ new.attempts = row.attempts
<1>1. CASE row \in Row
  BY <1>1 DEF Row
<1>2. CASE row = NoRow
  BY <1>2 DEF Row, NoRow
<1> QED BY <1>1, <1>2

(* The row an execution has in hand after its next step. *)
LEMMA LoadFacts ==
  ASSUME TypeOK, NEW p \in Process, Load(p)
  PROVE  /\ Busy(p)
         /\ \E pc \in {"mark", "drop"}, row \in Row \cup {NoRow} :
              /\ exec' = [exec EXCEPT ![p] =
                            [pc |-> pc, job |-> Job(p), row |-> row]]
              /\ IF StoreWorks(p) /\ rows[initStorage(p)][Job(p)] # NoRow
                   THEN pc = "mark" /\ row = rows[initStorage(p)][Job(p)]
                   ELSE pc = "drop" /\ row = exec[p].row
<1>1. Busy(p)
  BY DoingIsBusy DEF Load, ExecPC
<1>2. /\ exec[p].row \in Row \cup {NoRow}
      /\ rows[initStorage(p)][Job(p)] \in Row \cup {NoRow}
  BY <1>1, ExecFacts, HomesFacts DEF TypeOK
<1> QED BY <1>1, <1>2, ExecMoves DEF Load

LEMMA MarkFacts ==
  ASSUME TypeOK, NEW p \in Process, MarkRunning(p)
  PROVE  /\ Busy(p)
         /\ \E row \in Row :
              /\ row.status = "RUNNING"
              /\ row.attempts = exec[p].row.attempts
              /\ UpdateJob(p, row)
              /\ exec' = [exec EXCEPT ![p] =
                            [pc |-> "handler", job |-> Job(p), row |-> row]]
<1> DEFINE row == [exec[p].row EXCEPT !.status = "RUNNING"]
<1>1. Busy(p)
  BY DoingIsBusy DEF MarkRunning, ExecPC
<1>2. /\ row \in Row
      /\ row.status = "RUNNING"
      /\ row.attempts = exec[p].row.attempts
  <2>1. exec[p].row \in Row \cup {NoRow} /\ "RUNNING" \in Status
    BY <1>1, ExecFacts DEF Status
  <2> QED BY <2>1, StatusSet
<1>3. /\ UpdateJob(p, row)
      /\ exec' = [exec EXCEPT ![p].pc = "handler", ![p].row = row]
  BY DEF MarkRunning
<1> HIDE DEF row
<1> QED BY <1>1, <1>2, <1>3, ExecMoves

LEMMA HandlerFacts ==
  ASSUME TypeOK, NEW p \in Process, HandlerReturns(p)
  PROVE  /\ Busy(p)
         /\ \E outcome \in Execute(order[Job(p)].type, order[Job(p)].payload,
                                   Cancelled(p)),
              row \in Row :
              /\ IF outcome = "done"
                   THEN /\ row.status = "SUCCEEDED"
                        /\ row.attempts = exec[p].row.attempts
                   ELSE row = Failed(exec[p].row)
              /\ row.status \in {"SUCCEEDED", "RETRYING", "FAILED"}
              /\ exec' = [exec EXCEPT ![p] =
                            [pc |-> "save", job |-> Job(p), row |-> row]]
              /\ failures' = IF outcome \in {"invalid", "error"}
                               THEN [failures EXCEPT ![Job(p)] = @ + 1]
                               ELSE failures
              /\ errors' = errors + IF outcome = "error" THEN 1 ELSE 0
<1>1. Busy(p)
  BY DoingIsBusy DEF HandlerReturns, ExecPC
<1>2. PICK outcome \in Execute(order[Job(p)].type, order[Job(p)].payload,
                               Cancelled(p)) :
        /\ errors' = errors + IF outcome = "error" THEN 1 ELSE 0
        /\ failures' = IF outcome \in {"invalid", "error"}
                         THEN [failures EXCEPT ![Job(p)] = @ + 1] ELSE failures
        /\ exec' = [exec EXCEPT
                      ![p].pc = "save",
                      ![p].row = IF outcome = "done"
                                   THEN [@ EXCEPT !.status = "SUCCEEDED"]
                                   ELSE Failed(@)]
  BY DEF HandlerReturns
<1> DEFINE old == exec[p].row
           row == IF outcome = "done"
                    THEN [old EXCEPT !.status = "SUCCEEDED"] ELSE Failed(old)
<1>3. old \in Row \cup {NoRow} /\ old.attempts \in Nat
  BY <1>1, ExecFacts
<1>4. /\ Failed(old) \in Row
      /\ Failed(old).status \in {"RETRYING", "FAILED"}
  BY <1>3 DEF Failed, Row, Status
<1>5. LET done == [old EXCEPT !.status = "SUCCEEDED"]
      IN  done \in Row /\ done.status = "SUCCEEDED"
          /\ done.attempts = old.attempts
  BY <1>3, StatusSet DEF Status
<1>6. exec' = [exec EXCEPT ![p] =
                 [pc |-> "save", job |-> Job(p), row |-> row]]
  <2> DEFINE moved == [exec EXCEPT ![p].pc = "save"]
  <2>1. moved[p].row = old
    <3>1. moved = [exec EXCEPT ![p] =
                     [pc |-> "save", job |-> Job(p), row |-> exec[p].row]]
      BY <1>1, ExecMoves
    <3> HIDE DEF moved
    <3> QED BY <3>1 DEF TypeOK
  <2>2. exec' = [moved EXCEPT ![p].row =
                   IF outcome = "done"
                     THEN [moved[p].row EXCEPT !.status = "SUCCEEDED"]
                     ELSE Failed(moved[p].row)]
    BY <1>2
  <2>3. exec' = [moved EXCEPT ![p].row = row]
    BY <2>1, <2>2
  <2> HIDE DEF row
  <2> QED BY <1>1, <2>3, ExecMoves
<1> HIDE DEF old
<1>7. row \in Row /\ row.status \in {"SUCCEEDED", "RETRYING", "FAILED"}
      /\ IF outcome = "done"
           THEN row.status = "SUCCEEDED" /\ row.attempts = old.attempts
           ELSE row = Failed(old)
  BY <1>4, <1>5
<1> HIDE DEF row
<1> QED BY <1>1, <1>2, <1>6, <1>7 DEF old

LEMMA SaveFacts ==
  ASSUME TypeOK, NEW p \in Process, SaveOutcome(p)
  PROVE  /\ Busy(p)
         /\ UpdateJob(p, exec[p].row)
         /\ exec' = [exec EXCEPT ![p] =
                       [pc |-> "finish", job |-> Job(p), row |-> exec[p].row]]
<1>1. Busy(p)
  BY DoingIsBusy DEF SaveOutcome, ExecPC
<1> QED BY <1>1, ExecMoves DEF SaveOutcome, Go

LEMMA GoesOnKeepsBase ==
  ASSUME BaseInv, NEW p \in Process,
         Load(p) \/ MarkRunning(p) \/ HandlerReturns(p) \/ SaveOutcome(p)
  PROVE  BaseInv'
<1> USE DEF worldVars, budgets
<1>1. TypeOK /\ ProcessesRun /\ OutcomesDecided
  BY DEF BaseInv
<1>2. /\ UNCHANGED <<env, phase, ready, pending, request, order, stops,
                     duplicates>>
      /\ env' = env
  BY DEF Load, MarkRunning, HandlerReturns, SaveOutcome
<1>3. /\ Busy(p)
      /\ \E pc \in ExecPC, row \in Row \cup {NoRow} :
           /\ exec' = [exec EXCEPT ![p] =
                         [pc |-> pc, job |-> Job(p), row |-> row]]
           /\ pc \in {"save", "finish"}
                => row.status \in {"SUCCEEDED", "RETRYING", "FAILED"}
  <2>1. CASE Load(p)
    BY <1>1, <2>1, LoadFacts DEF ExecPC
  <2>2. CASE MarkRunning(p)
    BY <1>1, <2>2, MarkFacts DEF ExecPC
  <2>3. CASE HandlerReturns(p)
    BY <1>1, <2>3, HandlerFacts DEF ExecPC
  <2>4. CASE SaveOutcome(p)
    <3>1. exec[p].row.status \in {"SUCCEEDED", "RETRYING", "FAILED"}
      BY <1>1, <2>4 DEF SaveOutcome, Doing, OutcomesDecided
    <3>2. Busy(p) /\ exec[p].row \in Row \cup {NoRow}
      BY <1>1, <2>4, SaveFacts, ExecFacts
    <3>3. "finish" \in ExecPC
      BY DEF ExecPC
    <3> QED BY <1>1, <2>4, <3>1, <3>2, <3>3, SaveFacts
  <2> QED BY <2>1, <2>2, <2>3, <2>4
<1>4. PICK pc \in ExecPC, row \in Row \cup {NoRow} :
        /\ exec' = [exec EXCEPT ![p] =
                      [pc |-> pc, job |-> Job(p), row |-> row]]
        /\ pc \in {"save", "finish"}
             => row.status \in {"SUCCEEDED", "RETRYING", "FAILED"}
  BY <1>3
<1>5. /\ exec' \in [Process -> Execution \cup {Off, Idle}]
      /\ exec'[p] = [pc |-> pc, job |-> Job(p), row |-> row]
      /\ \A q \in Process, j \in Jobs : Runs(q, j)' <=> Runs(q, j)
      /\ \A q \in Process \ {p} : exec'[q] = exec[q]
  BY <1>1, <1>2, <1>3, <1>4, ExecGoesOn, OneMoves
<1>6. rows' \in [Stores -> [Jobs -> Row \cup {NoRow}]]
  <2>1. Job(p) \in Jobs
    BY <1>1, <1>3, ExecFacts
  <2>2. CASE MarkRunning(p)
    BY <1>1, <2>1, <2>2, MarkFacts, UpdateType
  <2>3. CASE SaveOutcome(p)
    <3>1. UpdateJob(p, exec[p].row) /\ exec[p].row \in Row \cup {NoRow}
      BY <1>1, <1>3, <2>3, SaveFacts, ExecFacts
    <3>2. exec[p].row.status \in {"SUCCEEDED", "RETRYING", "FAILED"}
      BY <1>1, <2>3 DEF SaveOutcome, Doing, OutcomesDecided
    <3>3. exec[p].row \in Row
      BY <3>1, <3>2 DEF NoRow
    <3> QED BY <1>1, <2>1, <3>1, <3>3, UpdateType
  <2>4. CASE Load(p) \/ HandlerReturns(p)
    BY <1>1, <2>4 DEF Load, HandlerReturns, TypeOK
  <2> QED BY <2>2, <2>3, <2>4
<1>7. failures' \in [Jobs -> Nat] /\ errors' \in Nat
  <2>1. CASE HandlerReturns(p)
    <3>1. failures \in [Jobs -> Nat] /\ errors \in Nat
      BY <1>1 DEF TypeOK
    <3>2. PICK outcome \in Execute(order[Job(p)].type, order[Job(p)].payload,
                                   Cancelled(p)) :
            /\ failures' = IF outcome \in {"invalid", "error"}
                             THEN [failures EXCEPT ![Job(p)] = @ + 1]
                             ELSE failures
            /\ errors' = errors + IF outcome = "error" THEN 1 ELSE 0
      BY <1>1, <2>1, HandlerFacts
    <3>3. errors' \in Nat
      <4>1. errors' = errors \/ errors' = errors + 1
        BY <3>1, <3>2
      <4> QED BY <3>1, <4>1
    <3>4. failures' \in [Jobs -> Nat]
      <4>1. \/ failures' = failures
            \/ failures' = [failures EXCEPT ![Job(p)] = @ + 1]
        BY <3>2
      <4> QED BY <3>1, <4>1
    <3> QED BY <3>3, <3>4
  <2>2. CASE ~HandlerReturns(p)
    BY <1>1, <2>2 DEF Load, MarkRunning, SaveOutcome, TypeOK
  <2> QED BY <2>1, <2>2
<1>8. TypeOK'
  BY <1>1, <1>2, <1>5, <1>6, <1>7 DEF TypeOK
<1>9. ProcessesRun'
  <2>1. exec[p] # Off
    BY <1>3 DEF Busy
  <2> QED BY <1>1, <1>2, <1>5, <2>1, EnvFacts DEF ProcessesRun, Off
<1>10. OutcomesDecided'
  BY <1>1, <1>4, <1>5 DEF OutcomesDecided
<1>11. EntriesHeld' /\ MessagesAtHome'
  BY <1>2, <1>5, BaseStays
<1> QED BY <1>8, <1>9, <1>10, <1>11 DEF BaseInv

-----------------------------------------------------------------------------
(* The worker is done with an execution. *)

(* What the end of an execution publishes and acknowledges. *)
LEMMA EndFacts ==
  ASSUME BaseInv, NEW p \in Process, Drop(p) \/ Finish(p)
  PROVE  /\ Busy(p) /\ Job(p) \in Jobs
         /\ exec' = [exec EXCEPT ![p] = Idle]
         /\ UNCHANGED <<env, phase, rows, request, order, failures, budgets>>
         /\ \/ /\ exec[p].row.status = "RETRYING" /\ exec[p].pc = "finish"
               /\ Cancelled(p)
               /\ ready' = ready /\ pending' = pending
            \/ /\ exec[p].row.status = "RETRYING" /\ exec[p].pc = "finish"
               /\ ~Cancelled(p)
               /\ ready' = [ready EXCEPT ![Home][Job(p)] = @ + 1]
               /\ LeaveEntry(p)
            \/ /\ ready' = ready
               /\ ~Cancelled(p) => Closes(p, Job(p))
               /\ Ack(p) \/ LeaveEntry(p)
<1>1. TypeOK
  BY DEF BaseInv
<1>2. Busy(p)
  BY <1>1, DoingIsBusy DEF Drop, Finish, ExecPC
<1>3. Job(p) \in Jobs /\ initBroker(p) = Home
  <2>1. Job(p) \in Jobs
    BY <1>1, <1>2, ExecFacts
  <2> QED BY <1>2, <2>1 DEF BaseInv, MessagesAtHome, Runs
<1>4. /\ exec' = [exec EXCEPT ![p] = Idle]
      /\ UNCHANGED <<env, phase, rows, request, order, failures, budgets>>
  BY DEF Drop, Finish, Done
<1>5. CASE Drop(p)
  BY <1>2, <1>3, <1>4, <1>5 DEF Drop, Doing, Closes, Runs
<1>6. CASE Finish(p)
  <2>1. exec[p].pc = "finish"
    BY <1>6 DEF Finish, Doing
  <2>2. exec[p].row.status \in {"SUCCEEDED", "RETRYING", "FAILED"}
    BY <2>1 DEF BaseInv, OutcomesDecided
  <2>3. CASE exec[p].row.status = "SUCCEEDED"
    <3>1. Ack(p) /\ ready' = ready
      BY <1>6, <2>3 DEF Finish
    <3> QED BY <1>2, <1>3, <1>4, <2>1, <2>3, <3>1 DEF Closes, Runs
  <2>4. CASE exec[p].row.status = "FAILED"
    <3>1. LeaveEntry(p) /\ ready' = ready
      BY <1>6, <2>4 DEF Finish
    <3> QED BY <1>2, <1>3, <1>4, <2>1, <2>4, <3>1 DEF Closes, Runs
  <2>5. CASE exec[p].row.status = "RETRYING"
    <3>1. Requeue(p)
      BY <1>6, <2>5 DEF Finish
    <3> QED BY <1>2, <1>3, <1>4, <2>1, <2>5, <3>1 DEF Requeue
  <2> QED BY <2>2, <2>3, <2>4, <2>5
<1> QED BY <1>5, <1>6

LEMMA EndKeepsBase ==
  ASSUME BaseInv, NEW p \in Process, Drop(p) \/ Finish(p)
  PROVE  BaseInv'
<1> USE DEF budgets
<1>1. TypeOK /\ ProcessesRun /\ EntriesHeld /\ OutcomesDecided
      /\ MessagesAtHome
  BY DEF BaseInv
<1>2. /\ Busy(p) /\ Job(p) \in Jobs /\ initBroker(p) = Home
      /\ request[Job(p)] # "none"
      /\ exec' = [exec EXCEPT ![p] = Idle]
      /\ UNCHANGED <<env, phase, rows, request, order, failures, stops,
                     errors, duplicates>>
      /\ env' = env /\ Home \in Brokers
  BY <1>1, EndFacts, HomesFacts DEF MessagesAtHome, Runs
<1>3. /\ \A q \in Process : initBroker(q)' = initBroker(q)
      /\ Home' = Home /\ Hosts' = Hosts /\ Deployed' = Deployed
  BY <1>2, EnvFacts
<1>4. /\ exec'[p] = Idle
      /\ \A q \in Process \ {p} : exec'[q] = exec[q]
      /\ \A q \in Process \ {p}, i \in Jobs :
           (Runs(q, i)' <=> Runs(q, i)) /\ Hold(q, i)' = Hold(q, i)
  BY <1>1, <1>2, OneMoves
<1>5. \A i \in Jobs : ~Runs(p, i)' /\ Hold(p, i)' = 0
  BY <1>4 DEF Runs, Busy, Hold
<1>6. /\ ready' \in [Brokers -> [Jobs -> Nat]]
      /\ \A b \in Brokers, i \in Jobs :
           b # Home \/ i # Job(p) => ready'[b][i] = ready[b][i]
  <2>1. ready' = ready \/ ready' = [ready EXCEPT ![Home][Job(p)] = @ + 1]
    BY EndFacts
  <2>2. ready \in [Brokers -> [Jobs -> Nat]]
    BY <1>1 DEF TypeOK
  <2>3. ready' \in [Brokers -> [Jobs -> Nat]]
    BY <1>1, <1>2, <2>1, <2>2, PublishType
  <2>4. ASSUME NEW b \in Brokers, NEW i \in Jobs, b # Home \/ i # Job(p)
        PROVE  ready'[b][i] = ready[b][i]
    BY <1>2, <2>1, <2>2, <2>4
  <2> QED BY <2>3, <2>4
<1>7. /\ pending' \in [Jobs -> Entries]
      /\ \A i \in Jobs \ {Job(p)} : pending'[i] = pending[i]
      /\ \/ pending' = pending
         \/ /\ Home = "redis"
            /\ pending'[Job(p)].owed = pending[Job(p)].owed - 1
  <2>1. pending' = pending \/ Ack(p) \/ LeaveEntry(p)
    BY EndFacts
  <2>2. pending \in [Jobs -> Entries]
    BY <1>1 DEF TypeOK
  <2>3. CASE Ack(p) \/ LeaveEntry(p)
    BY <1>2, <2>3, EntryGoes
  <2> QED BY <2>1, <2>2, <2>3
<1>8. TypeOK'
  <2>1. exec' \in [Process -> Execution \cup {Off, Idle}]
    BY <1>1, <1>2 DEF TypeOK
  <2> QED BY <1>1, <1>2, <1>6, <1>7, <2>1 DEF TypeOK
<1>9. ProcessesRun'
  BY <1>1, <1>2, <1>3, <1>4 DEF ProcessesRun, Busy, Off
<1>10. OutcomesDecided'
  BY <1>1, <1>4 DEF OutcomesDecided, Idle
<1>11. EntriesHeld'
  <2> SUFFICES ASSUME NEW i \in Jobs
               PROVE  Hold("api", i)' + Hold("worker", i)' <= pending'[i].owed
    BY DEF EntriesHeld
  <2>1. /\ Hold("api", i) + Hold("worker", i) <= pending[i].owed
        /\ pending[i].owed \in Nat /\ pending'[i].owed \in Nat
        /\ \A q \in Process : Hold(q, i) \in 0 .. 1
    BY <1>1, <1>7 DEF EntriesHeld, TypeOK, Entries, Hold
  <2>2. CASE pending'[i] = pending[i]
    BY <1>4, <1>5, <2>1, <2>2 DEF Process
  <2>3. CASE pending'[i] # pending[i]
    <3>1. i = Job(p) /\ Home = "redis" /\ pending'[i].owed = pending[i].owed - 1
      BY <1>7, <2>3
    <3>2. Hold(p, i) = 1
      BY <1>2, <3>1 DEF Hold, Runs
    <3> QED BY <1>4, <1>5, <2>1, <3>1, <3>2 DEF Process
  <2> QED BY <2>2, <2>3
<1>12. MessagesAtHome'
  <2>1. ASSUME NEW q \in Process, NEW i \in Jobs, Runs(q, i)'
        PROVE  initBroker(q) = Home /\ request[i] # "none"
    BY <1>1, <1>4, <1>5, <2>1 DEF MessagesAtHome
  <2>2. ASSUME NEW i \in Jobs
        PROVE  /\ request[i] # "none" => order[i] \in Orders
               /\ \A b \in Brokers :
                    ready'[b][i] > 0 => b = Home /\ request[i] # "none"
               /\ pending'[i] # NoEntries
                    => Home = "redis" /\ request[i] # "none"
    BY <1>1, <1>2, <1>6, <1>7 DEF MessagesAtHome
  <2> QED BY <1>2, <1>3, <2>1, <2>2 DEF MessagesAtHome, NoEntries
<1> QED BY <1>8, <1>9, <1>10, <1>11, <1>12 DEF BaseInv

LEMMA NextKeepsBase ==
  ASSUME BaseInv, [Next]_vars
  PROVE  BaseInv'
<1>1. ASSUME NEW p \in Process,
             Main(p) \/ RegisterFails(p) \/ Signal(p) \/ Kill(p)
      PROVE  BaseInv'
  BY <1>1, ProcessKeepsBase
<1>2. ASSUME NEW p \in Process, Work(p)
      PROVE  BaseInv'
  BY <1>2, TakesKeepBase, GoesOnKeepsBase, EndKeepsBase DEF Work
<1>3. ASSUME NEW j \in Jobs, Submit(j) \/ Insert(j) \/ Enqueue(j) \/ Reply(j)
      PROVE  BaseInv'
  BY <1>3, RequestKeepsBase
<1>4. CASE UNCHANGED vars
  <2>1. UNCHANGED <<env, phase, rows, ready, pending, request, order,
                    exec, failures, stops, errors, duplicates>>
    BY <1>4 DEF vars, worldVars, budgets
  <2>2. TypeOK' /\ ProcessesRun' /\ OutcomesDecided'
    BY <2>1, EnvFacts DEF BaseInv, TypeOK, ProcessesRun, OutcomesDecided, Off
  <2>3. \A q \in Process, j \in Jobs : Runs(q, j)' => Runs(q, j)
    BY <2>1 DEF Runs, Busy, Job, Off, Idle
  <2>4. EntriesHeld' /\ MessagesAtHome'
    BY <2>1, <2>3, BaseStays
  <2> QED BY <2>2, <2>4 DEF BaseInv
<1> QED BY <1>1, <1>2, <1>3, <1>4 DEF Next

(***************************************************************************)
(* Every state of the two programs is well formed, however they are        *)
(* deployed and whenever they are stopped: only deployed processes run and *)
(* only those that host a worker execute, every execution has an entry of  *)
(* its own that Redis keeps for it, and all messages of jobs go through    *)
(* the broker the API publishes to.                                        *)
(***************************************************************************)
THEOREM ServiceTypeCorrect ==
  Spec => [](TypeOK /\ ProcessesRun /\ EntriesHeld /\ MessagesAtHome)
<1>1. Init => BaseInv
  BY InitBaseInv
<1>2. BaseInv /\ [Next]_vars => BaseInv'
  BY NextKeepsBase
<1>3. BaseInv => TypeOK /\ ProcessesRun /\ EntriesHeld /\ MessagesAtHome
  BY DEF BaseInv
<1> QED BY <1>1, <1>2, <1>3, PTL DEF Spec

-----------------------------------------------------------------------------
(* The attempts in the SQL rows.                                           *)

CountsInv == OnlyFailuresCount /\ CopiesCounted

LEMMA UncancelledOutcomes ==
  ASSUME NEW o \in Orders
  PROVE  Execute(o.type, o.payload, FALSE) \subseteq {"done", "invalid", "error"}
<1>1. o.type \in NewRegistry
  BY ServiceAssumption DEF ServiceAssumption
<1> QED
  BY <1>1 DEF NewRegistry, Execute, ExecuteEmailJob, ExecuteVideoJob,
              ExecuteThumbnailJob, ExecuteWebhookJob, WithFields, Wait

(* A step of p that leaves the other process alone.                        *)
LEMMA CountsFrame ==
  ASSUME TypeOK, CountsInv, env' = env, NEW p \in Process,
         failures' \in [Jobs -> Nat],
         \A j \in Jobs : failures[j] <= failures'[j],
         \A j \in Jobs : rows'["sql"][j].attempts <= failures'[j],
         \A q \in Process \ {p} : exec'[q] = exec[q] /\ phase'[q] = phase[q],
         Busy(p)' /\ ~Cancelled(p)' /\ initStorage(p) = "sql"
           => exec'[p].row.attempts <= failures'[exec'[p].job]
  PROVE  CountsInv'
<1>1. \A q \in Process : initStorage(q)' = initStorage(q)
  BY EnvFacts
<1>2. OnlyFailuresCount'
  BY DEF OnlyFailuresCount
<1>3. CopiesCounted'
  <2> SUFFICES ASSUME NEW q \in Process, Busy(q)', ~Cancelled(q)',
                      initStorage(q) = "sql"
               PROVE  exec'[q].row.attempts <= failures'[exec'[q].job]
    BY <1>1 DEF CopiesCounted, Job
  <2>1. CASE q = p
    BY <2>1
  <2>2. CASE q # p
    <3>1. exec'[q] = exec[q] /\ phase'[q] = phase[q]
      BY <2>2
    <3>2. Busy(q) /\ ~Cancelled(q)
      BY <3>1 DEF Busy, Cancelled, Off, Idle
    <3>3. exec[q].row.attempts <= failures[Job(q)]
      BY <3>2 DEF CountsInv, CopiesCounted
    <3>4. Job(q) \in Jobs /\ exec[q].row.attempts \in Nat
      BY <3>2, ExecFacts
    <3>5. failures[Job(q)] \in Nat /\ failures'[Job(q)] \in Nat
      BY <3>4 DEF TypeOK
    <3> QED BY <3>1, <3>3, <3>4, <3>5 DEF Job
  <2> QED BY <2>1, <2>2
<1> QED BY <1>2, <1>3 DEF CountsInv

LEMMA SqlAttempts ==
  ASSUME TypeOK, NEW j \in Jobs
  PROVE  rows["sql"][j].attempts \in Nat /\ failures[j] \in Nat
BY DEF TypeOK, Stores, Row, NoRow

(* What a store call of p does to the attempts in SQL.                     *)
LEMMA UpdateCounts ==
  ASSUME TypeOK, CountsInv, NEW p \in Process, Busy(p), NEW row,
         UpdateJob(p, row),
         ~Cancelled(p) /\ initStorage(p) = "sql"
           => row.attempts <= failures[Job(p)]
  PROVE  \A j \in Jobs : rows'["sql"][j].attempts <= failures[j]
<1>1. /\ rows \in [Stores -> [Jobs -> Row \cup {NoRow}]]
      /\ initStorage(p) \in Stores /\ "sql" \in Stores
      /\ \A j \in Jobs : rows["sql"][j].attempts <= failures[j]
  BY HomesFacts DEF TypeOK, CountsInv, OnlyFailuresCount, Stores
<1>2. CASE StoreWorks(p) /\ initStorage(p) = "sql"
  <2>1. row.attempts <= failures[Job(p)]
    BY <1>2 DEF StoreWorks
  <2>2. rows' = rows \/ rows' = [rows EXCEPT !["sql"][Job(p)] = row]
    BY <1>2 DEF UpdateJob
  <2> QED BY <1>1, <2>1, <2>2
<1>3. CASE ~(StoreWorks(p) /\ initStorage(p) = "sql")
  <2>1. rows'["sql"] = rows["sql"]
    BY <1>1, <1>3 DEF UpdateJob
  <2> QED BY <1>1, <2>1
<1> QED BY <1>2, <1>3

LEMMA NextKeepsCounts ==
  ASSUME BaseInv, CountsInv, [Next]_vars
  PROVE  CountsInv'
<1> USE DEF worldVars, budgets
<1>1. /\ TypeOK /\ failures \in [Jobs -> Nat] /\ exec \in [Process -> Execution \cup {Off, Idle}]
      /\ \A j \in Jobs : failures[j] \in Nat /\ failures[j] <= failures[j]
      /\ rows \in [Stores -> [Jobs -> Row \cup {NoRow}]] /\ "sql" \in Stores
      /\ \A j \in Jobs : rows["sql"][j].attempts <= failures[j]
  BY DEF BaseInv, TypeOK, CountsInv, OnlyFailuresCount, Stores
<1>2. \A p \in Process : Busy(p) /\ ~Cancelled(p) /\ initStorage(p) = "sql"
                           => exec[p].row.attempts <= failures[Job(p)]
  BY DEF CountsInv, CopiesCounted
<1>3. ASSUME NEW p \in Process,
             Main(p) \/ RegisterFails(p) \/ Signal(p) \/ Kill(p)
      PROVE  CountsInv'
  <2>1. env' = env /\ failures' = failures
    BY <1>3 DEF Main, Boot, Register, RegisterFails, Signal, Kill, CloseBroker,
                Exit, StopsOnce
  <2>2. /\ \A q \in Process \ {p} : exec'[q] = exec[q] /\ phase'[q] = phase[q]
        /\ exec'[p] \in {Off, Idle} \/ phase'[p] # "up"
    BY <1>1, <1>3 DEF Main, Boot, Register, RegisterFails, Signal, Kill,
                      CloseBroker, Exit, StopsOnce, End, TypeOK
  <2>3. rows'["sql"] = rows["sql"]
    BY <1>1, <1>3 DEF Main, Boot, Register, RegisterFails, Signal, Kill,
                      CloseBroker, Exit, StopsOnce, Process
  <2> QED BY <1>1, <2>1, <2>2, <2>3, CountsFrame DEF Busy, Cancelled, Off, Idle
<1>4. ASSUME NEW p \in Process, NEW j \in Jobs,
             Consume(p, j) \/ Reclaim(p, j) \/ ReclaimLeft(p, j)
      PROVE  CountsInv'
  <2>1. /\ env' = env /\ failures' = failures /\ rows' = rows
        /\ phase' = phase /\ Start(p, j)
    BY <1>4 DEF Consume, Reclaim, ReclaimLeft, worldVars
  <2>2. /\ exec'[p] = [pc |-> "load", job |-> j, row |-> NoRow]
        /\ \A q \in Process \ {p} : exec'[q] = exec[q]
    BY <1>1, <2>1 DEF Start
  <2>3. exec'[p].row.attempts <= failures'[exec'[p].job]
    BY <1>1, <2>1, <2>2 DEF NoRow
  <2> QED BY <1>1, <2>1, <2>2, <2>3, CountsFrame
<1>5. ASSUME NEW p \in Process, Load(p)
      PROVE  CountsInv'
  <2>1. /\ env' = env /\ failures' = failures /\ rows' = rows /\ phase' = phase
    BY <1>5 DEF Load
  <2>2. PICK pc \in {"mark", "drop"}, row \in Row \cup {NoRow} :
          /\ exec' = [exec EXCEPT ![p] =
                        [pc |-> pc, job |-> Job(p), row |-> row]]
          /\ IF StoreWorks(p) /\ rows[initStorage(p)][Job(p)] # NoRow
               THEN pc = "mark" /\ row = rows[initStorage(p)][Job(p)]
               ELSE pc = "drop" /\ row = exec[p].row
    BY <1>1, <1>5, LoadFacts
  <2>3. Busy(p) /\ Job(p) \in Jobs
    BY <1>1, <1>5, LoadFacts, ExecFacts
  <2>4. /\ exec'[p] = [pc |-> pc, job |-> Job(p), row |-> row]
        /\ \A q \in Process \ {p} : exec'[q] = exec[q]
    BY <1>1, <2>2
  <2>5. ~Cancelled(p) /\ initStorage(p) = "sql"
          => row.attempts <= failures[Job(p)]
    BY <1>1, <1>2, <2>2, <2>3
  <2> QED BY <1>1, <2>1, <2>4, <2>5, CountsFrame DEF Cancelled
<1>6. ASSUME NEW p \in Process, MarkRunning(p)
      PROVE  CountsInv'
  <2>1. /\ env' = env /\ failures' = failures /\ phase' = phase
    BY <1>6 DEF MarkRunning
  <2>2. PICK row \in Row :
          /\ row.attempts = exec[p].row.attempts
          /\ UpdateJob(p, row)
          /\ exec' = [exec EXCEPT ![p] =
                        [pc |-> "handler", job |-> Job(p), row |-> row]]
    BY <1>1, <1>6, MarkFacts
  <2>3. Busy(p)
    BY <1>1, <1>6, MarkFacts
  <2>4. /\ exec'[p] = [pc |-> "handler", job |-> Job(p), row |-> row]
        /\ \A q \in Process \ {p} : exec'[q] = exec[q]
    BY <1>1, <2>2
  <2>5. ~Cancelled(p) /\ initStorage(p) = "sql"
          => row.attempts <= failures[Job(p)]
    BY <1>2, <2>2, <2>3
  <2>6. \A j \in Jobs : rows'["sql"][j].attempts <= failures[j]
    BY <1>1, <2>2, <2>3, <2>5, UpdateCounts
  <2> QED BY <1>1, <2>1, <2>4, <2>5, <2>6, CountsFrame DEF Cancelled
<1>7. ASSUME NEW p \in Process, HandlerReturns(p)
      PROVE  CountsInv'
  <2>1. env' = env /\ phase' = phase /\ rows' = rows
    BY <1>7 DEF HandlerReturns
  <2>2. Busy(p) /\ Job(p) \in Jobs /\ exec[p].row.attempts \in Nat
    BY <1>1, <1>7, HandlerFacts, ExecFacts
  <2>3. PICK outcome \in Execute(order[Job(p)].type, order[Job(p)].payload,
                                 Cancelled(p)),
             row \in Row :
          /\ IF outcome = "done"
               THEN row.attempts = exec[p].row.attempts
               ELSE row = Failed(exec[p].row)
          /\ exec' = [exec EXCEPT ![p] =
                        [pc |-> "save", job |-> Job(p), row |-> row]]
          /\ failures' = IF outcome \in {"invalid", "error"}
                           THEN [failures EXCEPT ![Job(p)] = @ + 1]
                           ELSE failures
    BY <1>1, <1>7, HandlerFacts
  <2>4. /\ exec'[p] = [pc |-> "save", job |-> Job(p), row |-> row]
        /\ \A q \in Process \ {p} : exec'[q] = exec[q]
    BY <1>1, <2>3
  <2>5. /\ failures' \in [Jobs -> Nat]
        /\ \A j \in Jobs : failures[j] <= failures'[j]
    BY <1>1, <2>2, <2>3
  <2>6. \A j \in Jobs : rows'["sql"][j].attempts <= failures'[j]
    BY <1>1, <2>1, <2>5, SqlAttempts
  <2>7. ASSUME ~Cancelled(p), initStorage(p) = "sql"
        PROVE  row.attempts <= failures'[Job(p)]
    <3>1. exec[p].row.attempts <= failures[Job(p)]
      BY <1>2, <2>2, <2>7
    <3>2. order[Job(p)] \in Orders
      BY <2>2 DEF BaseInv, MessagesAtHome, Runs
    <3>3. outcome \in {"done", "invalid", "error"}
      <4>1. Cancelled(p) = FALSE
        BY <2>7 DEF Cancelled
      <4> QED BY <2>3, <3>2, <4>1, UncancelledOutcomes
    <3>4. CASE outcome = "done"
      BY <2>3, <3>1, <3>4
    <3>5. CASE outcome # "done"
      <4>1. row.attempts = exec[p].row.attempts + 1
        BY <2>3, <3>5 DEF Failed
      <4>2. failures'[Job(p)] = failures[Job(p)] + 1
        BY <1>1, <2>2, <2>3, <3>3, <3>5
      <4> QED BY <1>1, <2>2, <3>1, <4>1, <4>2
    <3> QED BY <3>4, <3>5
  <2> QED BY <1>1, <2>1, <2>4, <2>5, <2>6, <2>7, CountsFrame DEF Cancelled
<1>8. ASSUME NEW p \in Process, SaveOutcome(p)
      PROVE  CountsInv'
  <2>1. /\ env' = env /\ failures' = failures /\ phase' = phase
    BY <1>8 DEF SaveOutcome
  <2>2. /\ Busy(p)
        /\ UpdateJob(p, exec[p].row)
        /\ exec' = [exec EXCEPT ![p] =
                      [pc |-> "finish", job |-> Job(p), row |-> exec[p].row]]
    BY <1>1, <1>8, SaveFacts
  <2>3. /\ exec'[p] = [pc |-> "finish", job |-> Job(p), row |-> exec[p].row]
        /\ \A q \in Process \ {p} : exec'[q] = exec[q]
    BY <1>1, <2>2
  <2>4. \A j \in Jobs : rows'["sql"][j].attempts <= failures[j]
    BY <1>1, <1>2, <2>2, UpdateCounts
  <2> QED BY <1>1, <1>2, <2>1, <2>2, <2>3, <2>4, CountsFrame DEF Cancelled
<1>9. ASSUME NEW p \in Process, Drop(p) \/ Finish(p)
      PROVE  CountsInv'
  <2>1. /\ env' = env /\ failures' = failures /\ rows' = rows /\ phase' = phase
        /\ exec' = [exec EXCEPT ![p] = Idle]
    BY <1>9, EndFacts
  <2>2. exec'[p] = Idle /\ \A q \in Process \ {p} : exec'[q] = exec[q]
    BY <1>1, <2>1
  <2> QED BY <1>1, <2>1, <2>2, CountsFrame DEF Busy, Idle, Off
<1>10. ASSUME NEW j \in Jobs,
              \/ Submit(j) \/ Insert(j) \/ Enqueue(j) \/ Reply(j)
       PROVE  CountsInv'
  <2>1. env' = env /\ failures' = failures /\ exec' = exec /\ phase' = phase
    BY <1>10 DEF Submit, Insert, Enqueue, Reply
  <2>2. \A i \in Jobs : rows'["sql"][i].attempts <= failures[i]
    <3>1. CASE Insert(j)
      <4>1. initStorage("api") \in Stores
        BY HomesFacts DEF Process
      <4>2. rows' = [rows EXCEPT ![initStorage("api")][j] =
                       [status |-> "QUEUED", attempts |-> 0]]
        BY <3>1 DEF Insert
      <4> QED BY <1>1, <4>1, <4>2
    <3>2. CASE ~Insert(j)
      BY <1>1, <1>10, <3>2 DEF Submit, Enqueue, Reply
    <3> QED BY <3>1, <3>2
  <2>3. "api" \in Process
    BY DEF Process
  <2> QED BY <1>1, <1>2, <2>1, <2>2, <2>3, CountsFrame
             DEF Busy, Cancelled, Job, Off, Idle
<1>11. CASE UNCHANGED vars
  BY <1>11, EnvFacts DEF vars, CountsInv, OnlyFailuresCount, CopiesCounted,
                         Busy, Cancelled, Job, Off, Idle
<1> QED BY <1>3, <1>4, <1>5, <1>6, <1>7, <1>8, <1>9, <1>10, <1>11
           DEF Next, Work

(***************************************************************************)
(* A worker takes a handler that its shutdown interrupted for one that     *)
(* failed (handleFailure), but with SQL that costs the job no attempt:     *)
(* no row ever counts more attempts than the job failed by itself,         *)
(* however often and at whatever moment the processes are stopped.         *)
(***************************************************************************)
THEOREM ServiceOnlyFailuresCount == Spec => []OnlyFailuresCount
<1>1. Init => BaseInv /\ CountsInv
  <2> SUFFICES ASSUME Init PROVE CountsInv
    BY InitBaseInv
  <2> QED BY DEF Init, CountsInv, OnlyFailuresCount, CopiesCounted, Busy,
                 Stores, NoRow
<1>2. BaseInv /\ CountsInv /\ [Next]_vars => (BaseInv /\ CountsInv)'
  BY NextKeepsBase, NextKeepsCounts
<1>3. CountsInv => OnlyFailuresCount
  BY DEF CountsInv
<1> QED BY <1>1, <1>2, <1>3, PTL DEF Spec

-----------------------------------------------------------------------------
(* What becomes of the jobs that were accepted.                            *)

LEMMA ActionFacts ==
  ASSUME BaseInv, Next
  PROVE  /\ env' = env
         /\ stops["api"] \in Nat /\ stops["api"] <= stops'["api"]
<1> USE DEF worldVars, budgets
<1>1. stops \in [Process -> Nat] /\ "api" \in Process
  BY DEF BaseInv, TypeOK, Process
<1>2. ASSUME NEW p \in Process, StopsOnce(p)
      PROVE  stops["api"] <= stops'["api"]
  BY <1>1, <1>2 DEF StopsOnce
<1>3. ASSUME NEW p \in Process,
             Main(p) \/ RegisterFails(p) \/ Signal(p) \/ Kill(p)
      PROVE  env' = env /\ stops["api"] <= stops'["api"]
  <2>1. env' = env /\ (stops' = stops \/ StopsOnce(p))
    BY <1>3 DEF Main, Boot, Register, RegisterFails, Signal, Kill,
                CloseBroker, Exit, StopsOnce
  <2> QED BY <1>1, <1>2, <2>1
<1>4. ASSUME NEW p \in Process, Work(p)
      PROVE  env' = env /\ stops' = stops
  BY <1>4 DEF Work, Consume, Reclaim, ReclaimLeft, Load, Drop, MarkRunning,
              HandlerReturns, SaveOutcome, Finish
<1>5. ASSUME NEW j \in Jobs, Submit(j) \/ Insert(j) \/ Enqueue(j) \/ Reply(j)
      PROVE  env' = env /\ stops' = stops
  BY <1>5 DEF Submit, Insert, Enqueue, Reply
<1> QED BY <1>1, <1>3, <1>4, <1>5 DEF Next

(* The exceptions stay exceptions. *)
LEMMA ExceptionsStay ==
  ASSUME BaseInv, Next
  PROVE  /\ Volatile => Volatile'
         /\ SplitStore <=> SplitStore'
         /\ Home' = Home /\ initStorage("api")' = initStorage("api")
         /\ \A p \in Process : initBroker(p)' = initBroker(p)
<1>1. "api" \in Process
  BY DEF Process
<1>2. /\ SplitStore <=> SplitStore'
      /\ Home' = Home
      /\ \A p \in Process : /\ initBroker(p)' = initBroker(p)
                            /\ initStorage(p)' = initStorage(p)
  BY ActionFacts, EnvFacts
<1>3. stops["api"] > 0 => stops'["api"] > 0
  <2>1. stops["api"] \in Nat /\ stops["api"] <= stops'["api"]
    BY ActionFacts
  <2>2. stops'["api"] \in Nat
    <3>1. BaseInv'
      BY NextKeepsBase
    <3> QED BY <1>1, <3>1 DEF BaseInv, TypeOK
  <2> QED BY <2>1, <2>2
<1> QED BY <1>1, <1>2, <1>3 DEF Volatile

(* What the steps do to the requests. *)
LEMMA RequestsGo ==
  ASSUME BaseInv, Next, NEW j \in Jobs
  PROVE  /\ request'[j] \in {"enqueue", "reply", "answered"}
              => request[j] \in {"enqueue", "reply", "answered"} \/ Insert(j)
         /\ request'[j] \in {"reply", "answered"}
              => \/ request[j] \in {"reply", "answered"}
                 \/ Enqueue(j) /\ ready'[Home][j] > 0
         /\ request'[j] # "none" /\ request[j] = "none" => phase'["api"] = "up"
<1> USE DEF worldVars, budgets
<1>1. request \in [Jobs -> RequestPC]
  BY DEF BaseInv, TypeOK
<1>2. ASSUME NEW p \in Process,
             Main(p) \/ RegisterFails(p) \/ Signal(p) \/ Kill(p)
      PROVE  \/ request'[j] = request[j]
             \/ request'[j] = "cut" /\ request[j] # "none"
  BY <1>1, <1>2 DEF Main, Boot, Register, RegisterFails, Signal, Kill,
                    CloseBroker, Exit, End, StopsOnce
<1>3. ASSUME NEW p \in Process, Work(p)
      PROVE  request' = request
  BY <1>3 DEF Work, Consume, Reclaim, ReclaimLeft, Load, Drop, MarkRunning,
              HandlerReturns, SaveOutcome, Finish
<1>4. ASSUME NEW i \in Jobs, Submit(i)
      PROVE  /\ phase'["api"] = "up"
             /\ request'[j] = request[j] \/ request'[j] = "insert"
  BY <1>1, <1>4 DEF Submit
<1>5. ASSUME NEW i \in Jobs, Insert(i) \/ Reply(i)
      PROVE  \/ request'[j] = request[j]
             \/ /\ request'[j] = "enqueue" /\ request[j] = "insert"
                /\ Insert(j)
             \/ request'[j] = "answered" /\ request[j] = "reply"
  BY <1>1, <1>5 DEF Insert, Reply
<1>6. ASSUME NEW i \in Jobs, Enqueue(i)
      PROVE  \/ request'[j] = request[j]
             \/ request'[j] = "failed" /\ request[j] = "enqueue"
             \/ /\ request'[j] = "reply" /\ request[j] = "enqueue"
                /\ Enqueue(j) /\ ready'[Home][j] > 0
  <2>1. CASE i # j
    BY <1>1, <1>6, <2>1 DEF Enqueue
  <2>2. CASE i = j
    <3>1. ready \in [Brokers -> [Jobs -> Nat]] /\ Home \in Brokers
      BY HomesFacts DEF BaseInv, TypeOK, Home, Process
    <3>2. \/ request' = [request EXCEPT ![j] = "failed"]
          \/ /\ request' = [request EXCEPT ![j] = "reply"]
             /\ ready' = [ready EXCEPT ![Home][j] = @ + 1]
      BY <1>6, <2>2 DEF Enqueue, Home
    <3>3. request[j] = "enqueue" /\ Enqueue(j)
      BY <1>6, <2>2 DEF Enqueue
    <3> QED BY <1>1, <3>1, <3>2, <3>3
  <2> QED BY <2>1, <2>2
<1> QED BY <1>2, <1>3, <1>4, <1>5, <1>6 DEF Next

LEMMA NextKeepsStops ==
  ASSUME BaseInv, StopsCounted, Next
  PROVE  StopsCounted'
<1> USE DEF worldVars, budgets
<1>1. /\ stops \in [Process -> Nat] /\ "api" \in Process
      /\ phase \in [Process -> {"down", "up", "stopping", "closing"}]
      /\ stops["api"] > 0 => stops'["api"] > 0
  <2>1. BaseInv'
    BY NextKeepsBase
  <2> QED BY <2>1, ActionFacts DEF BaseInv, TypeOK, Process
<1>2. ASSUME NEW p \in Process,
             Main(p) \/ RegisterFails(p) \/ Signal(p) \/ Kill(p)
      PROVE  \/ phase'["api"] = phase["api"]
             \/ phase'["api"] = "up"
             \/ stops'["api"] > 0
  <2>1. CASE p = "api" /\ (RegisterFails(p) \/ Signal(p) \/ Kill(p))
    <3>1. stops' = [stops EXCEPT !["api"] = @ + 1]
      BY <2>1 DEF RegisterFails, Signal, Kill, StopsOnce
    <3> QED BY <1>1, <3>1
  <2>2. CASE p = "api" /\ (CloseBroker(p) \/ Exit(p))
    <3>1. phase["api"] \in {"stopping", "closing"} /\ stops' = stops
      BY <2>2 DEF CloseBroker, Exit
    <3> QED BY <3>1 DEF StopsCounted
  <2>3. CASE p = "api" /\ (Boot(p) \/ Register(p))
    BY <1>1, <2>3 DEF Boot, Register
  <2>4. CASE p # "api"
    BY <1>1, <1>2, <2>4 DEF Main, Boot, Register, RegisterFails, Signal, Kill,
                            CloseBroker, Exit, End
  <2> QED BY <1>2, <2>1, <2>2, <2>3, <2>4 DEF Main
<1>3. ASSUME NEW p \in Process, Work(p)
      PROVE  phase' = phase
  BY <1>3 DEF Work, Consume, Reclaim, ReclaimLeft, Load, Drop, MarkRunning,
              HandlerReturns, SaveOutcome, Finish
<1>4. ASSUME NEW j \in Jobs, Submit(j) \/ Insert(j) \/ Enqueue(j) \/ Reply(j)
      PROVE  phase' = phase
  BY <1>4 DEF Submit, Insert, Enqueue, Reply
<1>5. \/ phase'["api"] = phase["api"]
      \/ phase'["api"] = "up"
      \/ stops'["api"] > 0
  BY <1>2, <1>3, <1>4 DEF Next
<1>6. \A j \in Jobs : request'[j] # "none" /\ request[j] = "none"
                        => phase'["api"] = "up"
  BY RequestsGo
<1> QED BY <1>1, <1>5, <1>6 DEF StopsCounted

(* Only a start of the API takes rows of its store away. *)
LEMMA RowsStay ==
  ASSUME BaseInv, Next, NEW j \in Jobs,
         ~(Boot("api") /\ initStorage("api") # "sql")
  PROVE  rows[initStorage("api")][j] # NoRow
           => rows'[initStorage("api")][j] # NoRow
<1> USE DEF worldVars, budgets
<1> DEFINE s == initStorage("api")
<1>1. /\ TypeOK /\ s \in Stores /\ s \in {"api", "sql"} /\ NoRow \notin Row
      /\ rows \in [Stores -> [Jobs -> Row \cup {NoRow}]]
  BY HomesFacts DEF BaseInv, TypeOK, Process, Row, NoRow, Status
<1> HIDE DEF s
<1>2. ASSUME NEW p \in Process, NEW row \in Row, Busy(p), UpdateJob(p, row)
      PROVE  rows[s][j] # NoRow => rows'[s][j] # NoRow
  <2>1. initStorage(p) \in Stores /\ Job(p) \in Jobs
    BY <1>1, <1>2, HomesFacts, ExecFacts
  <2> QED BY <1>1, <1>2, <2>1 DEF UpdateJob
<1>3. ASSUME NEW p \in Process, Boot(p)
      PROVE  rows'[s][j] = rows[s][j]
  <2>1. rows' = [rows EXCEPT ![p] = [i \in Jobs |-> NoRow]] /\ p # s
    BY <1>1, <1>3 DEF Boot, s, Process
  <2> QED BY <1>1, <2>1
<1>4. ASSUME NEW p \in Process, MarkRunning(p)
      PROVE  rows[s][j] # NoRow => rows'[s][j] # NoRow
  BY <1>1, <1>2, <1>4, MarkFacts
<1>5. ASSUME NEW p \in Process, SaveOutcome(p)
      PROVE  rows[s][j] # NoRow => rows'[s][j] # NoRow
  <2>1. /\ Busy(p) /\ UpdateJob(p, exec[p].row)
        /\ exec[p].row \in Row \cup {NoRow}
    BY <1>1, <1>5, SaveFacts, ExecFacts
  <2>2. exec[p].row \in Row
    BY <1>5, <2>1 DEF BaseInv, OutcomesDecided, SaveOutcome, Doing, NoRow
  <2> QED BY <1>2, <2>1, <2>2
<1>6. ASSUME NEW i \in Jobs, Insert(i)
      PROVE  rows[s][j] # NoRow => rows'[s][j] # NoRow
  <2>1. rows' = [rows EXCEPT ![s][i] = [status |-> "QUEUED", attempts |-> 0]]
    BY <1>6 DEF Insert, s
  <2>2. [status |-> "QUEUED", attempts |-> 0] # NoRow
    BY DEF NoRow
  <2> QED BY <1>1, <2>1, <2>2
<1>7. CASE rows' = rows
  BY <1>7
<1>8. ASSUME NEW p \in Process,
             \/ Register(p) \/ CloseBroker(p) \/ Exit(p) \/ RegisterFails(p)
             \/ Signal(p) \/ Kill(p) \/ Load(p) \/ Drop(p)
             \/ HandlerReturns(p) \/ Finish(p)
             \/ \E i \in Jobs : Consume(p, i) \/ Reclaim(p, i) \/ ReclaimLeft(p, i)
      PROVE  rows' = rows
  BY <1>8 DEF Register, CloseBroker, Exit, RegisterFails, Signal, Kill, Load,
              Drop, HandlerReturns, Finish, Consume, Reclaim, ReclaimLeft,
              StopsOnce
<1>9. ASSUME NEW i \in Jobs, Submit(i) \/ Enqueue(i) \/ Reply(i)
      PROVE  rows' = rows
  BY <1>9 DEF Submit, Enqueue, Reply
<1> QED BY <1>3, <1>4, <1>5, <1>6, <1>8, <1>9 DEF Next, Work, Main, s

LEMMA NextKeepsRows ==
  ASSUME BaseInv, StopsCounted, RowsKept, Next
  PROVE  RowsKept'
<1> SUFFICES ASSUME NEW j \in Jobs,
                    request'[j] \in {"enqueue", "reply", "answered"},
                    ~Volatile'
             PROVE  rows'[initStorage("api")][j] # NoRow
  BY ExceptionsStay DEF RowsKept
<1>1. ~Volatile
  BY ExceptionsStay
<1>2. CASE Insert(j)
  <2>1. rows \in [Stores -> [Jobs -> Row \cup {NoRow}]]
        /\ initStorage("api") \in Stores
    BY HomesFacts DEF BaseInv, TypeOK, Process
  <2>2. rows' = [rows EXCEPT ![initStorage("api")][j] =
                   [status |-> "QUEUED", attempts |-> 0]]
    BY <1>2 DEF Insert
  <2> QED BY <2>1, <2>2 DEF NoRow
<1>3. CASE ~Insert(j)
  <2>1. request[j] \in {"enqueue", "reply", "answered"}
    BY <1>3, RequestsGo
  <2>2. rows[initStorage("api")][j] # NoRow
    BY <1>1, <2>1 DEF RowsKept
  <2>3. ~(Boot("api") /\ initStorage("api") # "sql")
    BY <1>1, <2>1 DEF Boot, StopsCounted, Volatile
  <2> QED BY <2>2, <2>3, RowsStay
<1> QED BY <1>2, <1>3

(* Where the runs of a job are.                                            *)
LEMMA OnlyHomeRuns ==
  ASSUME BaseInv, NEW p \in Process, NEW j \in Jobs, Runs(p, j)
  PROVE  /\ initBroker(p) = Home /\ p \in Hosts /\ phase[p] # "down"
         /\ Home = "redis" \/ (p = "api" /\ Home = "api")
         /\ ~SplitStore => initStorage(p) = initStorage("api")
<1>1. initBroker(p) = Home /\ p \in Hosts /\ phase[p] # "down"
  BY DEF BaseInv, MessagesAtHome, ProcessesRun, Runs, Busy
<1>2. initBroker(p) \in {p, "redis"} /\ Home \in {"api", "redis"}
  BY HomesFacts
<1>3. ~SplitStore => initStorage(p) = initStorage("api")
  BY <1>1 DEF SplitStore, Home
<1> QED BY <1>1, <1>2, <1>3

(* A run that does not give its message up is enough for the job. *)
LEMMA RunnerSuffices ==
  ASSUME BaseInv', NEW p \in Process, NEW j \in Jobs,
         Runs(p, j)', ~Closes(p, j)'
  PROVE  Taken(j)' > Closing("api", j)' + Closing("worker", j)'
<1>1. /\ Hold("api", j)' + Hold("worker", j)' <= pending'[j].owed
      /\ pending'[j].owed \in Nat
      /\ Home' \in {"api", "redis"}
  BY DEF BaseInv, EntriesHeld, TypeOK, Entries, Home, initBroker
<1>2. ASSUME NEW q \in Process, Runs(q, j)'
      PROVE  /\ initBroker(q)' = Home'
             /\ Home' = "redis" \/ (q = "api" /\ Home' = "api")
  <2>1. initBroker(q)' = Home'
    BY <1>2 DEF BaseInv, MessagesAtHome
  <2>2. initBroker(q)' \in {q, "redis"}
    BY DEF initBroker
  <2> QED BY <1>1, <2>1, <2>2
<1>3. \A q \in Process : /\ Closing(q, j)' \in 0 .. 1
                         /\ Hold(q, j)' \in 0 .. 1
                         /\ Closing(q, j)' = 1 => Runs(q, j)'
  BY DEF Closing, Hold, Closes
<1>4. Closing(p, j)' = 0
  BY DEF Closing
<1>5. CASE Home' = "redis"
  <2>1. \A q \in Process : Closing(q, j)' <= Hold(q, j)'
    BY <1>2, <1>3, <1>5 DEF Hold
  <2>2. Hold(p, j)' = 1
    BY <1>2, <1>5 DEF Hold
  <2> QED BY <1>1, <1>3, <1>4, <1>5, <2>1, <2>2 DEF Taken, Process
<1>6. CASE Home' # "redis"
  <2>1. p = "api" /\ Taken(j)' = 1
    BY <1>2, <1>6 DEF Taken
  <2>2. Closing("worker", j)' = 0
    BY <1>2, <1>3, <1>6 DEF Process
  <2> QED BY <1>4, <2>1, <2>2
<1> QED BY <1>5, <1>6

(* What a step leaves of the reasons why a job is not lost. *)
LEMMA SurvivesFrame ==
  ASSUME BaseInv, BaseInv', Next, NEW j \in Jobs, Survives(j),
         rows'[initStorage("api")][j] = rows[initStorage("api")][j],
         ready[Home][j] > 0 => ready'[Home][j] > 0,
         Taken(j)' = Taken(j),
         \A p \in Process : Closes(p, j)' => Closes(p, j)
  PROVE  Survives(j)'
<1>1. Settled(j) => Settled(j)'
  BY ExceptionsStay DEF Settled
<1>2. ready[Home][j] > 0 => (ready[Home][j] > 0)'
  BY ExceptionsStay
<1>3. \A p \in Process : /\ Closing(p, j) \in 0 .. 1 /\ Closing(p, j)' \in 0 .. 1
                         /\ Closing(p, j)' <= Closing(p, j)
  BY DEF Closing
<1>4. Taken(j) \in Nat
  BY DEF Taken, BaseInv, TypeOK, Entries
<1>5. Taken(j) > Closing("api", j) + Closing("worker", j)
        => Taken(j)' > Closing("api", j)' + Closing("worker", j)'
  <2>1. /\ Closing("api", j)' <= Closing("api", j)
        /\ Closing("worker", j)' <= Closing("worker", j)
        /\ Closing("api", j) \in 0 .. 1 /\ Closing("api", j)' \in 0 .. 1
        /\ Closing("worker", j) \in 0 .. 1 /\ Closing("worker", j)' \in 0 .. 1
    BY <1>3 DEF Process
  <2> QED BY <1>4, <2>1
<1> QED BY <1>1, <1>2, <1>5, ExceptionsStay DEF Survives

LEMMA ExecStays ==
  ASSUME NEW q \in Process, NEW j \in Jobs, exec'[q] = exec[q],
         phase'[q] = "up" => phase[q] = "up"
  PROVE  /\ Runs(q, j)' <=> Runs(q, j)
         /\ Closes(q, j)' => Closes(q, j)
BY DEF Runs, Busy, Job, Closes, Cancelled, Off, Idle

LEMMA ProcessSurvives ==
  ASSUME BaseInv, BaseInv', StopsCounted, Next, NEW p \in Process,
         Main(p) \/ RegisterFails(p) \/ Signal(p) \/ Kill(p),
         NEW j \in Jobs, request[j] \in {"reply", "answered"}, Survives(j),
         ~Volatile'
  PROVE  Survives(j)'
<1> USE DEF worldVars, budgets
<1>1. /\ TypeOK /\ ~Volatile /\ initStorage("api") \in {"api", "sql"}
      /\ Home \in {"api", "redis"} /\ initStorage("api") \in Stores
      /\ Home \in Brokers /\ env' = env
      /\ rows \in [Stores -> [Jobs -> Row \cup {NoRow}]]
      /\ ready \in [Brokers -> [Jobs -> Nat]]
  BY ExceptionsStay, HomesFacts, ActionFacts
     DEF BaseInv, TypeOK, Process, Home
<1>2. /\ rows'[initStorage("api")][j] = rows[initStorage("api")][j]
      /\ ready'[Home][j] = ready[Home][j]
  <2>1. CASE Boot(p)
    <3>1. /\ rows' = [rows EXCEPT ![p] = [i \in Jobs |-> NoRow]]
          /\ ready' = [ready EXCEPT ![p] = [i \in Jobs |-> 0]]
          /\ phase[p] = "down"
      BY <2>1 DEF Boot
    <3>2. p # initStorage("api") /\ p # Home
      BY <1>1, <3>1 DEF StopsCounted, Volatile, Home, Process
    <3> QED BY <1>1, <3>1, <3>2
  <2>2. CASE ~Boot(p)
    BY <2>2 DEF Main, Register, RegisterFails, Signal, Kill, CloseBroker,
                Exit, StopsOnce
  <2> QED BY <2>1, <2>2
<1>3. ASSUME NEW q \in Process, Closes(q, j)'
      PROVE  Closes(q, j)
  <2>1. CASE exec'[q] = exec[q] /\ (phase'[q] = "up" => phase[q] = "up")
    BY <1>3, <2>1, ExecStays
  <2>2. CASE exec'[q] \in {Off, Idle}
    BY <1>3, <2>2 DEF Closes, Runs, Busy
  <2>3. \/ exec'[q] = exec[q] /\ (phase'[q] = "up" => phase[q] = "up")
        \/ exec'[q] \in {Off, Idle}
    BY <1>1 DEF Main, Boot, Register, RegisterFails, Signal, Kill,
                CloseBroker, Exit, StopsOnce, End, TypeOK
  <2> QED BY <2>1, <2>2, <2>3
<1>4. Taken(j)' = Taken(j)
  <2>1. pending' = pending /\ Home' = Home
    BY ExceptionsStay DEF Main, Boot, Register, RegisterFails, Signal, Kill,
                          CloseBroker, Exit, StopsOnce
  <2>2. CASE Home = "redis"
    BY <2>1, <2>2 DEF Taken
  <2>3. CASE Home # "redis"
    <3>1. stops["api"] = 0 /\ stops'["api"] = 0
      <4>1. stops["api"] \in Nat /\ stops'["api"] \in Nat
        BY DEF BaseInv, TypeOK, Process
      <4>2. /\ Home = initBroker("api")
            /\ (initBroker("api"))' # "redis"
        BY <2>1, <2>3 DEF Home
      <4> QED BY <1>1, <2>3, <4>1, <4>2 DEF Volatile
    <3>2. ~(p = "api" /\ (Kill(p) \/ Exit(p)))
      <4>1. CASE p = "api" /\ Kill(p)
        <5>1. stops' = [stops EXCEPT !["api"] = @ + 1]
          BY <4>1 DEF Kill, StopsOnce
        <5> QED BY <1>1, <3>1, <5>1 DEF TypeOK
      <4>2. CASE p = "api" /\ Exit(p)
        BY <3>1, <4>2 DEF Exit, StopsCounted
      <4> QED BY <4>1, <4>2
    <3>3. \/ exec'["api"] = exec["api"]
          \/ exec["api"] = Off /\ exec'["api"] \in {Off, Idle}
      BY <1>1, <3>2 DEF Main, Boot, Register, RegisterFails, Signal, Kill,
                        CloseBroker, Exit, StopsOnce, End, TypeOK, BaseInv,
                        ProcessesRun, Process
    <3>4. Runs("api", j)' <=> Runs("api", j)
      BY <3>3 DEF Runs, Busy, Job, Off, Idle
    <3> QED BY <2>1, <2>3, <3>4 DEF Taken
  <2> QED BY <2>2, <2>3
<1> QED BY <1>2, <1>3, <1>4, SurvivesFrame

LEMMA RequestSurvives ==
  ASSUME BaseInv, BaseInv', Next, NEW i \in Jobs,
         Submit(i) \/ Insert(i) \/ Enqueue(i) \/ Reply(i),
         NEW j \in Jobs, request[j] \in {"reply", "answered"}, Survives(j)
  PROVE  Survives(j)'
<1> USE DEF worldVars, budgets
<1>1. /\ exec' = exec /\ phase' = phase /\ pending' = pending
      /\ Home' = Home
  BY ExceptionsStay DEF Submit, Insert, Enqueue, Reply
<1>2. rows'[initStorage("api")][j] = rows[initStorage("api")][j]
  <2>1. CASE Insert(i)
    <3>1. i # j
      BY <2>1 DEF Insert
    <3>2. /\ rows \in [Stores -> [Jobs -> Row \cup {NoRow}]]
          /\ initStorage("api") \in Stores
      BY HomesFacts DEF BaseInv, TypeOK, Process
    <3> QED BY <2>1, <3>1, <3>2 DEF Insert
  <2>2. CASE ~Insert(i)
    BY <2>2 DEF Submit, Enqueue, Reply
  <2> QED BY <2>1, <2>2
<1>3. ready[Home][j] > 0 => ready'[Home][j] > 0
  <2>1. /\ ready \in [Brokers -> [Jobs -> Nat]] /\ Home \in Brokers
        /\ ready[Home][j] \in Nat
    BY HomesFacts DEF BaseInv, TypeOK, Process, Home
  <2>2. ready' = ready \/ ready' = [ready EXCEPT ![Home][i] = @ + 1]
    BY DEF Submit, Insert, Enqueue, Reply, Home
  <2> QED BY <2>1, <2>2
<1>4. \A q \in Process : /\ Runs(q, j)' <=> Runs(q, j)
                         /\ Closes(q, j)' => Closes(q, j)
  BY <1>1, ExecStays
<1>5. Taken(j)' = Taken(j)
  <2>1. Runs("api", j)' <=> Runs("api", j)
    BY <1>4 DEF Process
  <2> QED BY <1>1, <2>1 DEF Taken
<1> QED BY <1>2, <1>3, <1>4, <1>5, SurvivesFrame

LEMMA TakeSurvives ==
  ASSUME BaseInv, BaseInv', Next, NEW p \in Process, NEW i \in Jobs,
         Consume(p, i) \/ Reclaim(p, i) \/ ReclaimLeft(p, i),
         NEW j \in Jobs, Survives(j)
  PROVE  Survives(j)'
<1>1. /\ Start(p, i) /\ UNCHANGED <<env, phase, rows>>
      /\ exec \in [Process -> Execution \cup {Off, Idle}] /\ exec[p] = Idle
  BY DEF Consume, Reclaim, ReclaimLeft, worldVars, BaseInv, TypeOK, Start
<1>2. /\ exec'[p] = [pc |-> "load", job |-> i, row |-> NoRow]
      /\ \A q \in Process \ {p} : exec'[q] = exec[q]
  BY <1>1 DEF Start
<1>3. Runs(p, i)' /\ ~Closes(p, j)' /\ ~Runs(p, j) /\ (i # j => ~Runs(p, j)')
  BY <1>1, <1>2 DEF Runs, Busy, Job, Closes, Off, Idle
<1>4. CASE i = j
  BY <1>3, <1>4, RunnerSuffices DEF Survives
<1>5. CASE i # j
  <2>1. ready'[Home][j] = ready[Home][j] /\ pending'[j] = pending[j]
    <3>1. /\ ready \in [Brokers -> [Jobs -> Nat]] /\ Home \in Brokers
          /\ pending \in [Jobs -> Entries] /\ initBroker(p) \in Brokers
      BY HomesFacts DEF BaseInv, TypeOK, Home, Process
    <3>2. \/ ready' = ready
          \/ ready' = [ready EXCEPT ![initBroker(p)][i] = @ - 1]
      BY DEF Consume, Reclaim, ReclaimLeft, worldVars
    <3>3. pending' = pending \/ \E e : pending' = [pending EXCEPT ![i] = e]
      BY DEF Consume, Reclaim, ReclaimLeft, worldVars
    <3>4. ready'[Home][j] = ready[Home][j]
      BY <1>5, <3>1, <3>2
    <3>5. pending'[j] = pending[j]
      BY <1>5, <3>1, <3>3
    <3> QED BY <3>4, <3>5
  <2>2. \A q \in Process : /\ Runs(q, j)' <=> Runs(q, j)
                           /\ Closes(q, j)' => Closes(q, j)
    BY <1>1, <1>2, <1>3, <1>5, ExecStays
  <2>3. Taken(j)' = Taken(j)
    <3>1. Runs("api", j)' <=> Runs("api", j)
      BY <2>2 DEF Process
    <3> QED BY <2>1, <3>1, ExceptionsStay DEF Taken
  <2> QED BY <1>1, <2>1, <2>2, <2>3, SurvivesFrame
<1> QED BY <1>4, <1>5

(* A worker that reads the API's messages finds the job in the API's store, *)
(* so it does not take it for one that does not exist.                      *)
LEMMA LoadFindsJob ==
  ASSUME BaseInv, RowsKept, NEW p \in Process, Load(p),
         NEW j \in Jobs, request[j] \in {"reply", "answered"}, Runs(p, j),
         ~Cancelled(p), ~Volatile, ~SplitStore
  PROVE  ~Closes(p, j)'
<1>1. TypeOK /\ exec \in [Process -> Execution \cup {Off, Idle}]
  BY DEF BaseInv, TypeOK
<1>2. rows[initStorage(p)][Job(p)] # NoRow /\ StoreWorks(p)
  BY OnlyHomeRuns DEF RowsKept, Runs, StoreWorks
<1>3. \E row : exec' = [exec EXCEPT ![p] =
                          [pc |-> "mark", job |-> Job(p), row |-> row]]
  BY <1>1, <1>2, LoadFacts
<1>4. exec'[p].pc = "mark"
  BY <1>1, <1>3
<1> QED BY <1>4 DEF Closes

LEMMA SaveSettles ==
  ASSUME BaseInv, Next, RowsKept, NEW p \in Process, SaveOutcome(p),
         NEW j \in Jobs, request[j] \in {"reply", "answered"}, Runs(p, j),
         ~Cancelled(p), ~Volatile, ~SplitStore,
         exec[p].row.status \in {"SUCCEEDED", "FAILED"}
  PROVE  Settled(j)'
<1>1. /\ TypeOK /\ rows \in [Stores -> [Jobs -> Row \cup {NoRow}]]
      /\ initStorage("api") \in Stores /\ Job(p) = j
  BY HomesFacts DEF BaseInv, TypeOK, Process, Runs
<1>2. /\ initStorage(p) = initStorage("api")
      /\ rows[initStorage("api")][j] # NoRow
      /\ StoreWorks(p)
  BY OnlyHomeRuns DEF RowsKept, StoreWorks
<1>3. rows' = [rows EXCEPT ![initStorage("api")][j] = exec[p].row]
  BY <1>1, <1>2 DEF SaveOutcome, UpdateJob
<1>4. rows'[initStorage("api")][j] = exec[p].row
  BY <1>1, <1>3
<1> QED BY <1>4, ExceptionsStay DEF Settled

LEMMA GoesOnSurvives ==
  ASSUME BaseInv, BaseInv', RowsKept, Next, NEW p \in Process,
         Load(p) \/ MarkRunning(p) \/ HandlerReturns(p) \/ SaveOutcome(p),
         NEW j \in Jobs, request[j] \in {"reply", "answered"}, Survives(j),
         ~Volatile', ~SplitStore
  PROVE  Survives(j)'
<1>1. /\ TypeOK /\ exec \in [Process -> Execution \cup {Off, Idle}]
      /\ UNCHANGED <<env, phase, ready, pending>> /\ env' = env
      /\ ~Volatile /\ Home' = Home
  BY ExceptionsStay
     DEF BaseInv, TypeOK, Load, MarkRunning, HandlerReturns, SaveOutcome,
         worldVars
<1>2. /\ Busy(p) /\ Job(p) \in Jobs
      /\ \E pc \in ExecPC, row \in Row \cup {NoRow} :
           /\ exec' = [exec EXCEPT ![p] =
                         [pc |-> pc, job |-> Job(p), row |-> row]]
           /\ MarkRunning(p) => pc = "handler"
           /\ HandlerReturns(p) => pc = "save"
           /\ SaveOutcome(p) => pc = "finish" /\ row = exec[p].row
  <2>1. CASE Load(p)
    <3>1. ~MarkRunning(p) /\ ~HandlerReturns(p) /\ ~SaveOutcome(p)
      BY <2>1 DEF Load, MarkRunning, HandlerReturns, SaveOutcome, Doing
    <3> QED BY <1>1, <2>1, <3>1, LoadFacts, ExecFacts DEF ExecPC
  <2>2. CASE MarkRunning(p)
    <3>1. ~HandlerReturns(p) /\ ~SaveOutcome(p)
      BY <2>2 DEF MarkRunning, HandlerReturns, SaveOutcome, Doing
    <3> QED BY <1>1, <2>2, <3>1, MarkFacts, ExecFacts DEF ExecPC
  <2>3. CASE HandlerReturns(p)
    <3>1. ~MarkRunning(p) /\ ~SaveOutcome(p)
      BY <2>3 DEF MarkRunning, HandlerReturns, SaveOutcome, Doing
    <3> QED BY <1>1, <2>3, <3>1, HandlerFacts, ExecFacts DEF ExecPC
  <2>4. CASE SaveOutcome(p)
    <3>1. ~MarkRunning(p) /\ ~HandlerReturns(p)
      BY <2>4 DEF MarkRunning, HandlerReturns, SaveOutcome, Doing
    <3> QED BY <1>1, <2>4, <3>1, SaveFacts, ExecFacts DEF ExecPC
  <2> QED BY <2>1, <2>2, <2>3, <2>4
<1>3. PICK pc \in ExecPC, row \in Row \cup {NoRow} :
        /\ exec' = [exec EXCEPT ![p] =
                      [pc |-> pc, job |-> Job(p), row |-> row]]
        /\ MarkRunning(p) => pc = "handler"
        /\ HandlerReturns(p) => pc = "save"
        /\ SaveOutcome(p) => pc = "finish" /\ row = exec[p].row
  BY <1>2
<1>4. /\ exec'[p] = [pc |-> pc, job |-> Job(p), row |-> row]
      /\ \A q \in Process, i \in Jobs : Runs(q, i)' <=> Runs(q, i)
      /\ \A q \in Process \ {p} : exec'[q] = exec[q]
  BY <1>1, <1>2, <1>3, ExecGoesOn, OneMoves
<1>5. \A q \in Process \ {p} : Closes(q, j)' => Closes(q, j)
  BY <1>1, <1>4, ExecStays
<1>6. CASE Runs(p, j) /\ ~Closes(p, j)'
  BY <1>4, <1>6, RunnerSuffices DEF Survives
<1>7. CASE Runs(p, j) /\ Closes(p, j)'
  <2>1. ~Cancelled(p)
    BY <1>1, <1>7 DEF Closes, Cancelled
  <2>2. ~Load(p)
    BY <1>1, <1>7, <2>1, LoadFindsJob
  <2>3. ~MarkRunning(p) /\ ~HandlerReturns(p)
    BY <1>3, <1>4, <1>7 DEF Closes
  <2>4. SaveOutcome(p) /\ exec[p].row.status \in {"SUCCEEDED", "FAILED"}
    BY <1>3, <1>4, <1>7, <2>2, <2>3 DEF Closes
  <2> QED BY <1>1, <1>7, <2>1, <2>4, SaveSettles DEF Survives
<1>8. CASE ~Runs(p, j)
  <2>1. rows'[initStorage("api")][j] = rows[initStorage("api")][j]
    <3>1. /\ rows \in [Stores -> [Jobs -> Row \cup {NoRow}]]
          /\ initStorage("api") \in Stores /\ initStorage(p) \in Stores
          /\ Job(p) # j
      BY <1>1, <1>2, <1>8, HomesFacts DEF TypeOK, Process, Runs
    <3>2. rows' = rows \/ \E r : UpdateJob(p, r)
      BY DEF Load, MarkRunning, HandlerReturns, SaveOutcome, worldVars
    <3> QED BY <3>1, <3>2 DEF UpdateJob
  <2>2. ~Closes(p, j)'
    BY <1>4, <1>8 DEF Closes
  <2>3. Taken(j)' = Taken(j)
    <3>1. Runs("api", j)' <=> Runs("api", j)
      BY <1>4 DEF Process
    <3> QED BY <1>1, <3>1 DEF Taken
  <2>4. ready[Home][j] > 0 => ready'[Home][j] > 0
    BY <1>1
  <2>5. \A q \in Process : Closes(q, j)' => Closes(q, j)
    BY <1>5, <2>2
  <2> QED BY <2>1, <2>3, <2>4, <2>5, SurvivesFrame
<1> QED BY <1>6, <1>7, <1>8

LEMMA EndSurvives ==
  ASSUME BaseInv, BaseInv', StopsCounted, Next, NEW p \in Process,
         Drop(p) \/ Finish(p),
         NEW j \in Jobs, request[j] \in {"reply", "answered"}, Survives(j),
         ~Volatile'
  PROVE  Survives(j)'
<1>1. /\ TypeOK /\ exec \in [Process -> Execution \cup {Off, Idle}]
      /\ UNCHANGED <<env, phase, rows>> /\ Home' = Home /\ ~Volatile
      /\ exec' = [exec EXCEPT ![p] = Idle] /\ Busy(p)
      /\ ready \in [Brokers -> [Jobs -> Nat]] /\ Home \in Brokers
      /\ pending \in [Jobs -> Entries] /\ Job(p) \in Jobs
  BY EndFacts, ExceptionsStay, HomesFacts DEF BaseInv, TypeOK, Home, Process
<1>2. /\ exec'[p] = Idle
      /\ \A q \in Process \ {p} : exec'[q] = exec[q]
      /\ ~Closes(p, j)' /\ ~Runs(p, j)'
  BY <1>1 DEF Closes, Runs, Busy
<1>3. \A q \in Process \ {p} : /\ Runs(q, j)' <=> Runs(q, j)
                               /\ Closes(q, j)' => Closes(q, j)
  BY <1>1, <1>2, ExecStays
<1>4. \A q \in Process : Closes(q, j)' => Closes(q, j)
  BY <1>2, <1>3
<1>5. ready'[Home][j] # ready[Home][j] => ready'[Home][j] > 0
  <2>1. ready' = ready \/ ready' = [ready EXCEPT ![Home][Job(p)] = @ + 1]
    BY EndFacts
  <2> QED BY <1>1, <2>1
<1>6. CASE ~Runs(p, j)
  <2>1. j # Job(p)
    BY <1>1, <1>6 DEF Runs
  <2>2. pending'[j] = pending[j]
    <3>1. pending' = pending \/ Ack(p) \/ LeaveEntry(p)
      BY EndFacts
    <3> QED BY <1>1, <2>1, <3>1, EntryGoes
  <2>3. Taken(j)' = Taken(j)
    <3>1. Runs("api", j)' <=> Runs("api", j)
      BY <1>2, <1>3, <1>6 DEF Process
    <3> QED BY <1>1, <2>2, <3>1 DEF Taken
  <2> QED BY <1>1, <1>4, <1>5, <2>3, SurvivesFrame
<1>7. CASE Runs(p, j) /\ Cancelled(p)
  <2>1. Home = "redis"
    <3>1. p = "api" /\ Home # "redis" => stops["api"] > 0
      BY <1>7, OnlyHomeRuns
         DEF Cancelled, StopsCounted, BaseInv, TypeOK, Process
    <3>2. Home # "redis" => p = "api"
      BY <1>7, OnlyHomeRuns
    <3> QED BY <1>1, <3>1, <3>2 DEF Volatile, Home
  <2>2. ~BrokerWorks(p)
    BY <1>7, <2>1, OnlyHomeRuns DEF BrokerWorks
  <2>3. pending' = pending
    <3>1. pending' = pending \/ Ack(p) \/ LeaveEntry(p)
      BY EndFacts
    <3> QED BY <1>1, <2>2, <3>1, EntryGoes
  <2>4. Taken(j)' = Taken(j)
    BY <1>1, <2>1, <2>3 DEF Taken
  <2> QED BY <1>1, <1>4, <1>5, <2>4, SurvivesFrame
<1>8. CASE Runs(p, j) /\ ~Cancelled(p)
  <2>1. Job(p) = j
    BY <1>8 DEF Runs
  <2>2. CASE ready' = [ready EXCEPT ![Home][Job(p)] = @ + 1]
    <3>1. ready'[Home][j] > 0
      BY <1>1, <2>1, <2>2
    <3> QED BY <1>1, <3>1 DEF Survives
  <2>3. CASE ready' = ready /\ Closes(p, j) /\ (Ack(p) \/ LeaveEntry(p))
    <3>1. Settled(j) => Settled(j)'
      BY <1>1, ExceptionsStay DEF Settled
    <3>2. CASE Settled(j) \/ ready[Home][j] > 0
      BY <1>1, <2>3, <3>1, <3>2, ExceptionsStay DEF Survives
    <3>3. CASE SplitStore
      BY <3>3, ExceptionsStay DEF Survives
    <3>4. CASE Taken(j) > Closing("api", j) + Closing("worker", j)
      <4>1. /\ \A q \in Process : /\ Closing(q, j) \in 0 .. 1
                                  /\ Closing(q, j)' \in 0 .. 1
                                  /\ Closing(q, j)' <= Closing(q, j)
            /\ Closing(p, j) = 1 /\ Closing(p, j)' = 0
        BY <1>2, <1>4, <2>3 DEF Closing
      <4>2. Closing("api", j)' + Closing("worker", j)'
              < Closing("api", j) + Closing("worker", j)
        BY <4>1 DEF Process
      <4>3. Home = "redis"
        <5>1. Home # "redis" => p = "api" /\ Taken(j) = 1
          BY <1>8, OnlyHomeRuns DEF Taken
        <5> QED BY <3>4, <4>1, <5>1 DEF Process
      <4>4. Taken(j)' \in {Taken(j), Taken(j) - 1} /\ Taken(j) \in Nat
        BY <1>1, <2>1, <2>3, <4>3, EntryGoes DEF Taken, Entries
      <4>5. Taken(j)' > Closing("api", j)' + Closing("worker", j)'
        BY <3>4, <4>1, <4>2, <4>4 DEF Process
      <4> QED BY <4>5 DEF Survives
    <3> QED BY <1>1, <3>2, <3>3, <3>4 DEF Survives
  <2> QED BY <1>8, <2>1, <2>2, <2>3, EndFacts
<1> QED BY <1>6, <1>7, <1>8

LEMMA NextKeepsAccepted ==
  ASSUME BaseInv, StopsCounted, RowsKept, AcceptedInv, Next
  PROVE  AcceptedInv'
<1> SUFFICES ASSUME NEW j \in Jobs, request'[j] \in {"reply", "answered"},
                    ~Volatile', ~SplitStore'
             PROVE  Survives(j)'
  BY DEF AcceptedInv, Survives
<1>1. BaseInv' /\ ~Volatile /\ ~SplitStore /\ Home' = Home
  BY NextKeepsBase, ExceptionsStay
<1>2. CASE Enqueue(j) /\ ready'[Home][j] > 0
  BY <1>1, <1>2 DEF Survives
<1>3. CASE request[j] \in {"reply", "answered"}
  <2>1. Survives(j)
    BY <1>3 DEF AcceptedInv
  <2>2. ASSUME NEW p \in Process,
               Main(p) \/ RegisterFails(p) \/ Signal(p) \/ Kill(p)
        PROVE  Survives(j)'
    BY <1>1, <1>3, <2>1, <2>2, ProcessSurvives
  <2>3. ASSUME NEW i \in Jobs, Submit(i) \/ Insert(i) \/ Enqueue(i) \/ Reply(i)
        PROVE  Survives(j)'
    BY <1>1, <1>3, <2>1, <2>3, RequestSurvives
  <2>4. ASSUME NEW p \in Process, NEW i \in Jobs,
               Consume(p, i) \/ Reclaim(p, i) \/ ReclaimLeft(p, i)
        PROVE  Survives(j)'
    BY <1>1, <2>1, <2>4, TakeSurvives
  <2>5. ASSUME NEW p \in Process,
               Load(p) \/ MarkRunning(p) \/ HandlerReturns(p) \/ SaveOutcome(p)
        PROVE  Survives(j)'
    BY <1>1, <1>3, <2>1, <2>5, GoesOnSurvives
  <2>6. ASSUME NEW p \in Process, Drop(p) \/ Finish(p)
        PROVE  Survives(j)'
    BY <1>1, <1>3, <2>1, <2>6, EndSurvives
  <2> QED BY <2>2, <2>3, <2>4, <2>5, <2>6 DEF Next, Work
<1> QED BY <1>2, <1>3, RequestsGo

(* What was accepted is owed or settled because more of its runs are owed  *)
(* than will be given up.                                                  *)
LEMMA SurvivesImplies ==
  ASSUME BaseInv, AcceptedInv
  PROVE  AcceptedSurvives
<1> SUFFICES ASSUME NEW j \in Jobs, Answered(j), ~Settled(j), ~Volatile,
                    ~SplitStore
             PROVE  Owed(j)
  BY DEF AcceptedSurvives
<1>1. \/ ready[Home][j] > 0
      \/ Taken(j) > Closing("api", j) + Closing("worker", j)
  BY DEF AcceptedInv, Survives, Answered
<1>2. CASE ready[Home][j] > 0
  BY <1>2 DEF Owed, Home
<1>3. CASE Taken(j) > Closing("api", j) + Closing("worker", j)
  <2>1. Taken(j) \in Nat /\ Taken(j) > 0
    <3>1. Closing("api", j) \in 0 .. 1 /\ Closing("worker", j) \in 0 .. 1
      BY DEF Closing
    <3>2. Taken(j) \in Nat
      BY DEF Taken, BaseInv, TypeOK, Entries
    <3> QED BY <1>3, <3>1, <3>2
  <2>2. CASE Home = "redis"
    BY <2>1, <2>2 DEF Taken, Owed, Home
  <2>3. CASE Home # "redis"
    <3>1. Runs("api", j)
      BY <2>1, <2>3 DEF Taken
    <3>2. "api" \in Hosts
      BY <3>1, OnlyHomeRuns DEF Process
    <3> QED BY <3>1, <3>2 DEF Owed, Runs, Busy
  <2> QED BY <2>2, <2>3
<1> QED BY <1>1, <1>2, <1>3

(***************************************************************************)
(* A job whose creation CreateJob answered with success is settled or      *)
(* still owed an execution, at whatever moment the API and the worker are  *)
(* signalled or killed: a worker that stops can write neither the outcome  *)
(* nor the acknowledgement, so Redis keeps the entry.  The exceptions are  *)
(* a memory store or broker of an API that was stopped, and a worker that  *)
(* looks for the job in a store of its own.                                *)
(***************************************************************************)
THEOREM ServiceAcceptedSurvives == Spec => []AcceptedSurvives
<1> DEFINE Inv == BaseInv /\ StopsCounted /\ RowsKept /\ AcceptedInv
<1>1. Init => Inv
  <2> SUFFICES ASSUME Init PROVE StopsCounted /\ RowsKept /\ AcceptedInv
    BY InitBaseInv
  <2> QED BY DEF Init, StopsCounted, RowsKept, AcceptedInv, Process
<1>2. Inv /\ [Next]_vars => Inv'
  <2>1. CASE Next
    BY <2>1, NextKeepsBase, NextKeepsStops, NextKeepsRows, NextKeepsAccepted
  <2>2. CASE UNCHANGED vars
    <3> SUFFICES ASSUME Inv PROVE Inv'
      OBVIOUS
    <3>1. UNCHANGED <<env, phase, rows, ready, pending, request, order,
                      exec, failures, stops, errors, duplicates>>
      BY <2>2 DEF vars, worldVars, budgets
    <3>2. /\ BaseInv' /\ (Home' = Home) /\ (SplitStore' <=> SplitStore)
          /\ "api" \in Process
          /\ initStorage("api")' = initStorage("api")
          /\ initBroker("api")' = initBroker("api")
      BY <2>2, <3>1, NextKeepsBase, EnvFacts DEF Process
    <3>3. Volatile' <=> Volatile
      BY <3>1, <3>2 DEF Volatile
    <3>4. StopsCounted' /\ RowsKept'
      BY <3>1, <3>2, <3>3 DEF StopsCounted, RowsKept
    <3>5. AcceptedInv'
      <4>1. \A j \in Jobs, q \in Process :
              /\ Runs(q, j)' <=> Runs(q, j)
              /\ Closing(q, j)' = Closing(q, j)
        BY <3>1 DEF Runs, Busy, Job, Closing, Closes, Cancelled, Off, Idle
      <4>2. \A j \in Jobs : Taken(j)' = Taken(j) /\ (Settled(j)' <=> Settled(j))
        BY <3>1, <3>2, <4>1 DEF Taken, Settled
      <4>3. \A j \in Jobs : Survives(j)' <=> Survives(j)
        BY <3>1, <3>2, <3>3, <4>1, <4>2 DEF Survives, Process
      <4> QED BY <3>1, <4>3 DEF AcceptedInv
    <3> QED BY <3>2, <3>4, <3>5
  <2> QED BY <2>1, <2>2
<1>3. Inv => AcceptedSurvives
  BY SurvivesImplies
<1> QED BY <1>1, <1>2, <1>3, PTL DEF Spec
=============================================================================
