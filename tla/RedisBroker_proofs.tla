------------------------- MODULE RedisBroker_proofs -------------------------
(***************************************************************************)
(* Proofs about the Redis broker, for any number of workers and any batch  *)
(* size, however many commands fail and workers die: its types, that only  *)
(* acknowledged entries are deleted, and that it implements Broker.        *)
(***************************************************************************)
EXTENDS RedisBroker, TLAPS, FiniteSetTheorems, SequenceTheorems

Seen == 0 .. last - 1

LEMMA Bounds ==
  ASSUME TypeOK
  PROVE  /\ Len(log) \in Nat /\ last \in Nat /\ last <= Len(log)
         /\ log \in Seq(Jobs)
         /\ \A e \in 0 .. Len(log) - 1 : JobOf(e) \in Jobs
BY DEF TypeOK, JobOf

(* The batch XREADGROUP returns: the next entries, as many as it counts. *)
LEMMA BatchIsNew ==
  ASSUME TypeOK
  PROVE  /\ NewEntries \subseteq last .. Len(log) - 1
         /\ Cardinality(NewEntries) \in 0 .. Len(log) - last
         /\ NewEntries = last .. last + Cardinality(NewEntries) - 1
<1>1. /\ Len(log) \in Nat /\ last \in Nat /\ last <= Len(log)
      /\ Count \in Nat
  BY Bounds, RedisBrokerAssumption
<1> DEFINE end == IF Len(log) - last < Count THEN Len(log) ELSE last + Count
<1>2. end \in Nat /\ last <= end /\ end <= Len(log)
  BY <1>1
<1>3. NewEntries = last .. end - 1
  BY DEF NewEntries
<1> HIDE DEF end
<1>4. Cardinality(last .. end - 1) = end - last
  <2>1. last \in Int /\ end - 1 \in Int
    BY <1>1, <1>2
  <2>2. Cardinality(last .. end - 1)
          = IF last > end - 1 THEN 0 ELSE end - 1 - last + 1
    BY <2>1, FS_Interval
  <2> QED BY <1>1, <1>2, <2>2
<1> QED BY <1>1, <1>2, <1>3, <1>4

(* What was seen stays seen, and the new batch is seen now. *)
LEMMA ReadExtendsSeen ==
  ASSUME TypeOK, log' = log, last' = last + Cardinality(NewEntries)
  PROVE  /\ last' \in 0 .. Len(log')
         /\ NewEntries \subseteq 0 .. last' - 1
         /\ Seen \subseteq 0 .. last' - 1
BY BatchIsNew, Bounds DEF Seen

LEMMA InitType == Init => TypeOK
<1> SUFFICES ASSUME Init PROVE TypeOK
  OBVIOUS
<1>1. log \in Seq(Jobs) /\ Len(log) = 0
  BY DEF Init
<1>2. worker \in [Workers -> [pc : {"poll", "claim", "read", "refuse"},
                              found : SUBSET (0 .. last - 1)]]
  BY DEF Init, Polling
<1>3. /\ hands \in [Workers -> SUBSET (0 .. last - 1)]
      /\ acking \in [Workers -> SUBSET (0 .. last - 1)]
      /\ dead \in [Jobs -> Nat]
  BY DEF Init
<1> QED BY <1>1, <1>2, <1>3 DEF Init, TypeOK

(* Entries are added at the end: what was seen stays seen. *)
LEMMA XAddType ==
  ASSUME TypeOK, NEW j \in Jobs, XAdd(j)
  PROVE  log' \in Seq(Jobs) /\ Len(log') = Len(log) + 1 /\ last' \in 0 .. Len(log')
<1>1. log' = Append(log, j) /\ last' = last
  BY DEF XAdd
<1> QED BY <1>1, Bounds

(* A worker moves within Consume while nothing new is read. *)
LEMMA GoType ==
  ASSUME TypeOK, NEW w \in Workers, last' = last,
         NEW pc \in {"poll", "claim", "read", "refuse"},
         NEW found \in SUBSET Seen, Go(w, pc, found)
  PROVE  worker' \in [Workers -> [pc : {"poll", "claim", "read", "refuse"},
                                  found : SUBSET (0 .. last' - 1)]]
BY DEF Go, TypeOK, Seen

LEMMA ConsumeType ==
  ASSUME TypeOK, NEW w \in Workers, Consume(w)
  PROVE  TypeOK'
<1>1. worker[w].found \subseteq Seen /\ idle \subseteq Seen /\ pel \subseteq Seen
  BY DEF TypeOK, Seen
<1>2. CASE XPending(w)
  <2>1. Oldest(idle) \in SUBSET Seen
    BY <1>1 DEF Oldest
  <2>2. PICK pc \in {"read", "claim"} : Go(w, pc, Oldest(idle))
    BY <1>2 DEF XPending
  <2>3. UNCHANGED <<streamVars, hands, acking, boundVars>>
    BY <1>2 DEF XPending
  <2>4. worker' \in [Workers -> [pc : {"poll", "claim", "read", "refuse"},
                                 found : SUBSET (0 .. last' - 1)]]
    BY <2>1, <2>2, <2>3, GoType DEF streamVars
  <2> QED BY <2>3, <2>4 DEF TypeOK, streamVars, boundVars
<1>3. CASE XClaim(w)
  <2> DEFINE got == worker[w].found \cap idle
  <2>1. PICK pc \in {"read", "poll"} : Go(w, pc, {})
    BY <1>3 DEF XClaim
  <2>2. /\ idle' = idle \ got
        /\ hands' = [hands EXCEPT ![w] = @ \cup Readable(got)]
        /\ UNCHANGED <<log, last, pel, deleted, dead, acking, boundVars>>
    BY <1>3 DEF XClaim, Give
  <2>3. Readable(got) \subseteq Seen
    BY <1>1 DEF Readable
  <2> HIDE DEF got
  <2>4. worker' \in [Workers -> [pc : {"poll", "claim", "read", "refuse"},
                                 found : SUBSET (0 .. last' - 1)]]
    BY <2>1, <2>2, GoType
  <2>5. hands' \in [Workers -> SUBSET (0 .. last' - 1)]
    BY <2>2, <2>3 DEF TypeOK, Seen
  <2> QED BY <2>2, <2>4, <2>5 DEF TypeOK, boundVars
<1>4. CASE ClaimFails(w)
  <2>1. /\ Go(w, "read", {})
        /\ idle' \subseteq idle
        /\ faults' = faults + 1
        /\ UNCHANGED <<log, last, pel, deleted, dead, hands, acking, crashes>>
    BY <1>4 DEF ClaimFails, Fault
  <2>2. worker' \in [Workers -> [pc : {"poll", "claim", "read", "refuse"},
                                 found : SUBSET (0 .. last' - 1)]]
    BY <2>1, GoType
  <2> QED BY <2>1, <2>2 DEF TypeOK
<1>5. CASE XReadGroup(w) \/ ReadFails(w)
  <2>1. ASSUME last' = last + Cardinality(NewEntries),
               pel' = pel \cup NewEntries,
               hands' = [hands EXCEPT ![w] = @ \cup Readable(NewEntries)]
                 \/ hands' = hands,
               NEW pc \in {"poll", "refuse"},
               NEW found \in SUBSET NewEntries,
               Go(w, pc, found),
               UNCHANGED <<log, idle, deleted, dead, acking, crashes>>,
               faults' \in Nat
        PROVE  TypeOK'
    <3>1. /\ last' \in 0 .. Len(log')
          /\ NewEntries \subseteq 0 .. last' - 1
          /\ Seen \subseteq 0 .. last' - 1
      BY <2>1, ReadExtendsSeen
    <3>2. worker' = [worker EXCEPT ![w] = [pc |-> pc, found |-> found]]
      BY <2>1 DEF Go
    <3>3. worker' \in [Workers -> [pc : {"poll", "claim", "read", "refuse"},
                                   found : SUBSET (0 .. last' - 1)]]
      <4>1. \A v \in Workers :
              worker[v] \in [pc : {"poll", "claim", "read", "refuse"},
                             found : SUBSET (0 .. last' - 1)]
        BY <3>1 DEF TypeOK, Seen
      <4>2. [pc |-> pc, found |-> found]
              \in [pc : {"poll", "claim", "read", "refuse"},
                   found : SUBSET (0 .. last' - 1)]
        BY <2>1, <3>1
      <4> QED BY <3>2, <4>1, <4>2 DEF TypeOK
    <3>4. hands' \in [Workers -> SUBSET (0 .. last' - 1)]
      <4>1. \A v \in Workers : hands[v] \subseteq 0 .. last' - 1
        BY <3>1 DEF TypeOK, Seen
      <4>2. Readable(NewEntries) \subseteq 0 .. last' - 1
        BY <3>1 DEF Readable
      <4> QED BY <2>1, <4>1, <4>2 DEF TypeOK
    <3>5. acking' \in [Workers -> SUBSET (0 .. last' - 1)]
      BY <2>1, <3>1 DEF TypeOK, Seen
    <3>6. /\ pel' \subseteq 0 .. last' - 1
          /\ idle' \subseteq pel'
          /\ deleted' \subseteq 0 .. last' - 1
      BY <2>1, <3>1 DEF TypeOK, Seen
    <3> QED BY <2>1, <3>1, <3>3, <3>4, <3>5, <3>6 DEF TypeOK
  <2>2. CASE XReadGroup(w)
    <3> DEFINE refused == NewEntries \ Readable(NewEntries)
    <3>1. /\ last' = last + Cardinality(NewEntries)
          /\ pel' = pel \cup NewEntries
          /\ hands' = [hands EXCEPT ![w] = @ \cup Readable(NewEntries)]
          /\ UNCHANGED <<log, idle, deleted, dead, acking, crashes>>
          /\ faults' \in Nat
      BY <2>2 DEF XReadGroup, Give, boundVars, TypeOK
    <3>2. PICK pc \in {"poll", "refuse"} : Go(w, pc, refused)
      BY <2>2 DEF XReadGroup
    <3> QED BY <2>1, <3>1, <3>2
  <2>3. CASE ReadFails(w)
    <3>1. /\ Go(w, "poll", {}) /\ faults' \in Nat
          /\ UNCHANGED <<log, idle, deleted, dead, hands, acking, crashes>>
      BY <2>3 DEF ReadFails, Fault, TypeOK
    <3>2. CASE last' = last + Cardinality(NewEntries) /\ pel' = pel \cup NewEntries
      BY <2>1, <3>1, <3>2
    <3>3. CASE UNCHANGED <<last, pel>>
      <4>1. worker' \in [Workers -> [pc : {"poll", "claim", "read", "refuse"},
                                     found : SUBSET (0 .. last' - 1)]]
        BY <3>1, <3>3, GoType
      <4> QED BY <3>1, <3>3, <4>1 DEF TypeOK
    <3> QED BY <2>3, <3>2, <3>3 DEF ReadFails
  <2> QED BY <1>5, <2>2, <2>3
<1>6. CASE Refuse(w)
  <2>1. PICK e \in worker[w].found :
          /\ \/ pel' = pel \ {e} /\ idle' = idle \ {e} /\ UNCHANGED faults
             \/ Fault /\ UNCHANGED <<pel, idle>>
          /\ Go(w, IF worker[w].found = {e} THEN "poll" ELSE "refuse",
                worker[w].found \ {e})
    BY <1>6 DEF Refuse
  <2>2. UNCHANGED <<log, last, deleted, dead, hands, acking, crashes>>
    BY <1>6 DEF Refuse
  <2>3. faults' \in Nat
    BY <2>1 DEF Fault, TypeOK
  <2>6. pel' \subseteq pel /\ idle' \subseteq pel'
    BY <2>1 DEF TypeOK
  <2>4. worker[w].found \ {e} \in SUBSET Seen
    BY <1>1
  <2>5. worker' \in [Workers -> [pc : {"poll", "claim", "read", "refuse"},
                                 found : SUBSET (0 .. last' - 1)]]
    BY <2>1, <2>2, <2>4, GoType
  <2> QED BY <2>2, <2>3, <2>5, <2>6 DEF TypeOK
<1> QED BY <1>2, <1>3, <1>4, <1>5, <1>6 DEF Consume

LEMMA FinishType ==
  ASSUME TypeOK, NEW w \in Workers, Finish(w)
  PROVE  TypeOK'
<1>1. hands[w] \subseteq Seen /\ acking[w] \subseteq Seen
  BY DEF TypeOK, Seen
<1>2. ASSUME NEW e \in hands[w],
             XAck(w, e) \/ XAckFails(w, e) \/ GiveBackFails(w, e)
      PROVE  TypeOK'
  <2>1. /\ hands' = [hands EXCEPT ![w] = @ \ {e}]
        /\ pel' \subseteq pel /\ idle' \subseteq idle \cap pel'
        /\ acking' = acking \/ acking' = [acking EXCEPT ![w] = @ \cup {e}]
        /\ faults' \in Nat
        /\ UNCHANGED <<log, last, deleted, dead, worker, crashes>>
    <3>1. CASE XAck(w, e)
      BY <3>1 DEF XAck, Drop, boundVars, TypeOK
    <3>2. CASE XAckFails(w, e) \/ GiveBackFails(w, e)
      <4>1. /\ Fault /\ Drop(w, e)
            /\ UNCHANGED <<streamVars, worker, acking, crashes>>
        BY <3>2 DEF XAckFails, GiveBackFails
      <4>2. idle \subseteq pel /\ faults' \in Nat
        BY <4>1 DEF Fault, TypeOK
      <4> QED BY <4>1, <4>2 DEF Drop, streamVars
    <3> QED BY <1>2, <3>1, <3>2
  <2>2. hands' \in [Workers -> SUBSET (0 .. last' - 1)]
    BY <2>1 DEF TypeOK
  <2>3. acking' \in [Workers -> SUBSET (0 .. last' - 1)]
    BY <1>1, <2>1 DEF TypeOK, Seen
  <2> QED BY <2>1, <2>2, <2>3 DEF TypeOK
<1>3. ASSUME NEW e \in acking[w], XDel(w, e)
      PROVE  TypeOK'
  <2>1. /\ acking' = [acking EXCEPT ![w] = @ \ {e}]
        /\ deleted' \subseteq deleted \cup {e}
        /\ faults' \in Nat
        /\ UNCHANGED <<log, last, pel, idle, dead, worker, hands, crashes>>
    BY <1>3 DEF XDel, Fault, TypeOK
  <2>2. acking' \in [Workers -> SUBSET (0 .. last' - 1)]
    BY <2>1 DEF TypeOK
  <2> QED BY <1>1, <2>1, <2>2 DEF TypeOK, Seen
<1>4. ASSUME NEW e \in hands[w], Requeue(w, e) \/ SendToDeadLetter(w, e)
      PROVE  TypeOK'
  <2>1. JobOf(e) \in Jobs
    BY <1>1, Bounds DEF Seen
  <2>2. /\ hands' = [hands EXCEPT ![w] = @ \ {e}]
        /\ UNCHANGED <<last, pel, idle, deleted, worker, acking, boundVars>>
        /\ \/ XAdd(JobOf(e)) /\ dead' = dead
           \/ log' = log /\ dead' = [dead EXCEPT ![JobOf(e)] = @ + 1]
    BY <1>4 DEF Requeue, SendToDeadLetter, Drop, XAdd
  <2>3. log' \in Seq(Jobs) /\ last' \in 0 .. Len(log')
    BY <2>1, <2>2, XAddType DEF TypeOK
  <2>4. dead' \in [Jobs -> Nat]
    BY <2>1, <2>2 DEF TypeOK
  <2>5. hands' \in [Workers -> SUBSET (0 .. last' - 1)]
    BY <2>2 DEF TypeOK
  <2> QED BY <2>2, <2>3, <2>4, <2>5 DEF TypeOK, boundVars
<1> QED BY <1>2, <1>3, <1>4 DEF Finish

LEMMA NextType == TypeOK /\ [Next]_vars => TypeOK'
<1> SUFFICES ASSUME TypeOK, [Next]_vars PROVE TypeOK'
  OBVIOUS
<1>1. ASSUME NEW j \in Jobs, Enqueue(j)
      PROVE  TypeOK'
  <2>1. log' \in Seq(Jobs) /\ last' \in 0 .. Len(log')
    BY <1>1, XAddType DEF Enqueue
  <2> QED BY <1>1, <2>1 DEF Enqueue, XAdd, workerVars, boundVars, TypeOK
<1>2. ASSUME NEW w \in Workers, Crash(w)
      PROVE  TypeOK'
  BY <1>2 DEF Crash, streamVars, TypeOK, Polling
<1>3. ASSUME NEW e \in pel, PassTime(e)
      PROVE  TypeOK'
  BY <1>3 DEF PassTime, workerVars, boundVars, TypeOK
<1>4. CASE UNCHANGED vars
  BY <1>4 DEF vars, streamVars, workerVars, boundVars, TypeOK
<1> QED BY <1>1, <1>2, <1>3, <1>4, ConsumeType, FinishType DEF Next

(***************************************************************************)
(* Every variable keeps its type: what is pending was read, what is idle   *)
(* is pending, what is deleted or held was read.                           *)
(***************************************************************************)
THEOREM RedisTypeCorrect == Spec => []TypeOK
BY InitType, NextType, PTL DEF Spec

-----------------------------------------------------------------------------
(***************************************************************************)
(* XDEL removes acknowledged entries only: no entry is pending while it is *)
(* deleted or about to be.                                                 *)
(***************************************************************************)
THEOREM DeletionCorrect == Spec => []DeletedIsAcknowledged
<1>1. Init => DeletedIsAcknowledged
  BY DEF Init, DeletedIsAcknowledged
<1>2. TypeOK /\ DeletedIsAcknowledged /\ [Next]_vars => DeletedIsAcknowledged'
  <2> SUFFICES ASSUME TypeOK, DeletedIsAcknowledged, [Next]_vars
               PROVE  DeletedIsAcknowledged'
    OBVIOUS
  <2>1. ASSUME pel' \subseteq pel \cup NewEntries,
               UNCHANGED <<deleted, acking>>
        PROVE  DeletedIsAcknowledged'
    <3>1. NewEntries \cap Seen = {}
      BY BatchIsNew, Bounds DEF Seen
    <3>2. deleted \subseteq Seen /\ \A w \in Workers : acking[w] \subseteq Seen
      BY DEF TypeOK, Seen
    <3> QED BY <2>1, <3>1, <3>2 DEF DeletedIsAcknowledged
  <2>2. ASSUME NEW w \in Workers, Consume(w)
        PROVE  DeletedIsAcknowledged'
    BY <2>1, <2>2 DEF Consume, XPending, XClaim, ClaimFails, XReadGroup,
                      ReadFails, Refuse, streamVars
  <2>3. ASSUME NEW w \in Workers, NEW e \in hands[w], XAck(w, e)
        PROVE  DeletedIsAcknowledged'
    <3>1. acking' = [acking EXCEPT ![w] = @ \cup {e}] /\ pel' = pel \ {e}
          /\ deleted' = deleted
      BY <2>3 DEF XAck
    <3> QED BY <3>1 DEF DeletedIsAcknowledged, TypeOK
  <2>4. ASSUME NEW w \in Workers, NEW e \in acking[w], XDel(w, e)
        PROVE  DeletedIsAcknowledged'
    <3>1. acking' = [acking EXCEPT ![w] = @ \ {e}] /\ pel' = pel
          /\ deleted' \subseteq deleted \cup {e}
      BY <2>4 DEF XDel
    <3> QED BY <3>1 DEF DeletedIsAcknowledged, TypeOK
  <2>5. ASSUME NEW w \in Workers, NEW e \in hands[w],
               \/ XAckFails(w, e) \/ Requeue(w, e)
               \/ SendToDeadLetter(w, e) \/ GiveBackFails(w, e)
        PROVE  DeletedIsAcknowledged'
    BY <2>1, <2>5 DEF XAckFails, Requeue, XAdd, SendToDeadLetter,
                      GiveBackFails, streamVars
  <2>6. ASSUME NEW w \in Workers, Crash(w)
        PROVE  DeletedIsAcknowledged'
    BY <2>6 DEF Crash, streamVars, DeletedIsAcknowledged, TypeOK
  <2>7. CASE (\E j \in Jobs : Enqueue(j)) \/ (\E e \in pel : PassTime(e))
             \/ UNCHANGED vars
    BY <2>1, <2>7 DEF Enqueue, XAdd, PassTime, vars, streamVars, workerVars
  <2> QED BY <2>2, <2>3, <2>4, <2>5, <2>6, <2>7 DEF Next, Finish
<1> QED BY <1>1, <1>2, RedisTypeCorrect, PTL DEF Spec
-----------------------------------------------------------------------------
(* The queue of new entries as Broker sees it. *)
Message == [id : Nat, job : Jobs]
Queue(l, n) == [i \in 1 .. Len(l) - n |-> [id |-> n + i - 1, job |-> l[n + i]]]
Pending(P) == {[id |-> e, job |-> JobOf(e)] : e \in P}

LEMMA QueueIsSeq ==
  ASSUME NEW l \in Seq(Jobs), NEW n \in 0 .. Len(l)
  PROVE  /\ Queue(l, n) \in Seq(Message)
         /\ Len(Queue(l, n)) = Len(l) - n
         /\ \A i \in 1 .. Len(l) - n :
              Queue(l, n)[i] = [id |-> n + i - 1, job |-> l[n + i]]
<1> DEFINE k == Len(l) - n
<1>1. k \in Nat /\ n \in Nat /\ Len(l) \in Nat
  BY LenProperties
<1>2. ASSUME NEW i \in 1 .. k
      PROVE  [id |-> n + i - 1, job |-> l[n + i]] \in Message
  <2>1. n + i \in 1 .. Len(l) /\ n + i - 1 \in Nat
    BY <1>1, <1>2
  <2>2. l[n + i] \in Jobs
    BY <2>1, ElementOfSeq
  <2> QED BY <2>1, <2>2 DEF Message
<1>3. Queue(l, n) = [i \in 1 .. k |-> [id |-> n + i - 1, job |-> l[n + i]]]
  BY DEF Queue
<1> HIDE DEF k
<1>4. Queue(l, n) \in [1 .. k -> Message]
  BY <1>2, <1>3
<1>5. Queue(l, n) \in Seq(Message) /\ Len(Queue(l, n)) = k
  BY <1>1, <1>4
<1> QED BY <1>3, <1>5 DEF k

(* An entry added at the end of the stream is the last of the queue. *)
LEMMA QueueGrows ==
  ASSUME NEW l \in Seq(Jobs), NEW n \in 0 .. Len(l), NEW j \in Jobs
  PROVE  Queue(Append(l, j), n) = Append(Queue(l, n), [id |-> Len(l), job |-> j])
<1> DEFINE m == [id |-> Len(l), job |-> j]
           q == Queue(l, n)
           r == Queue(Append(l, j), n)
<1>1. /\ Len(l) \in Nat /\ n \in Nat /\ m \in Message
      /\ Append(l, j) \in Seq(Jobs) /\ Len(Append(l, j)) = Len(l) + 1
      /\ \A i \in 1 .. Len(l) : Append(l, j)[i] = l[i]
      /\ Append(l, j)[Len(l) + 1] = j
  BY LenProperties, AppendProperties DEF Message
<1>2. /\ q \in Seq(Message) /\ Len(q) = Len(l) - n
      /\ \A i \in 1 .. Len(l) - n : q[i] = [id |-> n + i - 1, job |-> l[n + i]]
  BY QueueIsSeq
<1>3. n \in 0 .. Len(Append(l, j))
  BY <1>1
<1>4. /\ r \in Seq(Message) /\ Len(r) = Len(l) + 1 - n
      /\ \A i \in 1 .. Len(l) + 1 - n :
           r[i] = [id |-> n + i - 1, job |-> Append(l, j)[n + i]]
  <2> DEFINE t == Append(l, j)
  <2>1. /\ Queue(t, n) \in Seq(Message) /\ Len(Queue(t, n)) = Len(t) - n
        /\ \A i \in 1 .. Len(t) - n :
             Queue(t, n)[i] = [id |-> n + i - 1, job |-> t[n + i]]
    <3> t \in Seq(Jobs) /\ n \in 0 .. Len(t)
      BY <1>1, <1>3
    <3> HIDE DEF t
    <3> QED BY QueueIsSeq
  <2>2. Len(t) - n = Len(l) + 1 - n
    BY <1>1
  <2> HIDE DEF t
  <2>3. Queue(t, n) \in Seq(Message) /\ Len(Queue(t, n)) = Len(l) + 1 - n
    BY <2>1, <2>2
  <2>4. \A i \in 1 .. Len(l) + 1 - n :
          Queue(t, n)[i] = [id |-> n + i - 1, job |-> t[n + i]]
    BY <2>1, <2>2
  <2> QED BY <2>3, <2>4 DEF t
<1> HIDE DEF q, r
<1>5. /\ Append(q, m) \in Seq(Message) /\ Len(Append(q, m)) = Len(l) - n + 1
      /\ \A i \in 1 .. Len(l) - n : Append(q, m)[i] = q[i]
      /\ Append(q, m)[Len(l) - n + 1] = m
  <2>1. q \in Seq(Message) /\ m \in Message
    BY <1>1, <1>2
  <2> HIDE DEF m
  <2>2. /\ Append(q, m) \in Seq(Message) /\ Len(Append(q, m)) = Len(q) + 1
        /\ \A i \in 1 .. Len(q) : Append(q, m)[i] = q[i]
        /\ Append(q, m)[Len(q) + 1] = m
    BY <2>1, AppendProperties
  <2>3. Len(q) = Len(l) - n
    BY <1>2
  <2> QED BY <2>2, <2>3
<1>6. ASSUME NEW i \in 1 .. Len(r)
      PROVE  r[i] = Append(q, m)[i]
  <2>1. CASE i = Len(l) - n + 1
    <3>1. /\ i \in 1 .. Len(l) + 1 - n /\ n + i = Len(l) + 1
          /\ n + i - 1 = Len(l)
      BY <1>1, <1>4, <2>1
    <3>2. r[i] = [id |-> Len(l), job |-> j]
      BY <1>1, <1>4, <3>1
    <3> QED BY <1>5, <2>1, <3>2
  <2>2. CASE i # Len(l) - n + 1
    <3>1. i \in 1 .. Len(l) - n /\ n + i \in 1 .. Len(l)
      BY <1>1, <1>4, <2>2
    <3>2. i \in 1 .. Len(l) + 1 - n
      BY <1>1, <3>1
    <3>3. r[i] = [id |-> n + i - 1, job |-> Append(l, j)[n + i]]
      BY <1>4, <3>2
    <3>4. q[i] = [id |-> n + i - 1, job |-> l[n + i]]
      BY <1>2, <3>1
    <3>5. Append(l, j)[n + i] = l[n + i] /\ Append(q, m)[i] = q[i]
      BY <1>1, <1>5, <3>1
    <3> QED BY <3>3, <3>4, <3>5
  <2> QED BY <2>1, <2>2
<1>7. Len(r) = Len(Append(q, m))
  BY <1>1, <1>4, <1>5
<1>8. r = Append(q, m)
  BY <1>4, <1>5, <1>6, <1>7, SeqEqual
<1> QED BY <1>8 DEF q, r

(* Reading k entries takes the first k off the queue. *)
LEMMA QueueShrinks ==
  ASSUME NEW l \in Seq(Jobs), NEW n \in 0 .. Len(l), NEW k \in 0 .. Len(l) - n
  PROVE  Queue(l, n + k) = SubSeq(Queue(l, n), k + 1, Len(Queue(l, n)))
<1> DEFINE q == Queue(l, n)
           r == Queue(l, n + k)
           s == SubSeq(q, k + 1, Len(q))
<1>1. Len(l) \in Nat /\ n \in Nat /\ k \in Nat /\ n + k \in 0 .. Len(l)
  BY LenProperties
<1>2. /\ q \in Seq(Message) /\ Len(q) = Len(l) - n
      /\ \A i \in 1 .. Len(l) - n : q[i] = [id |-> n + i - 1, job |-> l[n + i]]
  BY QueueIsSeq
<1>3. /\ r \in Seq(Message) /\ Len(r) = Len(l) - (n + k)
      /\ \A i \in 1 .. Len(l) - (n + k) :
           r[i] = [id |-> n + k + i - 1, job |-> l[n + k + i]]
  BY <1>1, QueueIsSeq
<1> HIDE DEF q, r
<1>4. /\ k + 1 \in Int /\ Len(q) \in Int
      /\ \A i \in k + 1 .. Len(q) : q[i] \in Message
  BY <1>1, <1>2, ElementOfSeq
<1>5. /\ s \in Seq(Message)
      /\ Len(s) = IF k + 1 <= Len(q) THEN Len(q) - (k + 1) + 1 ELSE 0
      /\ \A i \in 1 .. Len(q) - (k + 1) + 1 : s[i] = q[k + 1 + i - 1]
  BY <1>4, SubSeqProperties
<1> HIDE DEF s
<1>6. Len(r) = Len(s)
  <2>1. /\ Len(q) = Len(l) - n /\ Len(r) = Len(l) - (n + k)
        /\ Len(s) = IF k + 1 <= Len(q) THEN Len(q) - (k + 1) + 1 ELSE 0
    BY <1>2, <1>3, <1>5
  <2>2. k <= Len(l) - n
    BY <1>1
  <2>3. CASE k + 1 <= Len(q)
    BY <1>1, <2>1, <2>3
  <2>4. CASE ~(k + 1 <= Len(q))
    <3>1. k = Len(l) - n
      BY <1>1, <2>1, <2>2, <2>4
    <3> QED BY <1>1, <2>1, <2>4, <3>1
  <2> QED BY <2>3, <2>4
<1>7. ASSUME NEW i \in 1 .. Len(r)
      PROVE  r[i] = s[i]
  <2>1. /\ i \in 1 .. Len(q) - (k + 1) + 1 /\ k + i \in 1 .. Len(l) - n
        /\ i \in 1 .. Len(l) - (n + k)
        /\ k + 1 + i - 1 = k + i /\ n + (k + i) = n + k + i
    <3>1. Len(q) = Len(l) - n /\ Len(r) = Len(l) - (n + k)
      BY <1>2, <1>3
    <3>2. i \in Nat /\ 1 <= i /\ i <= Len(l) - (n + k)
      BY <1>1, <1>7, <3>1
    <3> QED BY <1>1, <3>1, <3>2
  <2>2. s[i] = q[k + i]
    BY <1>5, <2>1
  <2>3. q[k + i] = [id |-> n + (k + i) - 1, job |-> l[n + (k + i)]]
    BY <1>2, <2>1
  <2>4. q[k + i] = [id |-> n + k + i - 1, job |-> l[n + k + i]]
    <3>1. n + (k + i) = n + k + i /\ n + (k + i) - 1 = n + k + i - 1
      BY <1>1, <1>7, <2>1
    <3> QED BY <2>3, <3>1, Zenon
  <2>5. r[i] = [id |-> n + k + i - 1, job |-> l[n + k + i]]
    BY <1>3, <2>1
  <2> QED BY <2>2, <2>4, <2>5
<1>8. r = s
  BY <1>3, <1>5, <1>6, <1>7, SeqEqual
<1> QED BY <1>8 DEF q, r, s

LEMMA UnreadIsQueue ==
  Unread = Queue(log, last) /\ Unread' = Queue(log', last')
BY DEF Unread, Queue

(* XADD is Enqueue of Broker. *)
LEMMA XAddIsEnqueue ==
  ASSUME TypeOK, NEW j \in Jobs, XAdd(j)
  PROVE  AbstractBroker!Enqueue(j)
<1>1. log' = Append(log, j) /\ UNCHANGED <<last, pel, dead>>
  BY DEF XAdd
<1>2. /\ Len(log) \in Nat /\ last \in 0 .. Len(log)
      /\ log \in Seq(Jobs) /\ pel \subseteq 0 .. Len(log) - 1
  BY Bounds DEF TypeOK
<1>3. /\ Len(log') = Len(log) + 1
      /\ \A i \in 1 .. Len(log) : log'[i] = log[i]
  BY <1>1, <1>2, AppendProperties
<1>4. Unread' = Append(Unread, [id |-> Len(log), job |-> j])
  BY <1>1, <1>2, QueueGrows, UnreadIsQueue
<1>5. Pending(pel)' = Pending(pel)
  <2>1. \A e \in pel : JobOf(e)' = JobOf(e)
    BY <1>2, <1>3 DEF JobOf
  <2> QED BY <1>1, <2>1 DEF Pending
<1> QED BY <1>1, <1>3, <1>4, <1>5 DEF AbstractBroker!Enqueue, Pending

(* XREADGROUP is Consume of Broker, or nothing when nothing is new. *)
LEMMA ReadIsConsume ==
  ASSUME TypeOK, last' = last + Cardinality(NewEntries),
         pel' = pel \cup NewEntries, UNCHANGED <<log, dead>>
  PROVE  \/ \E n \in 1 .. Len(Unread) : AbstractBroker!Consume(n)
         \/ UNCHANGED <<log, last, pel, dead>>
<1>0. PICK k : k = Cardinality(NewEntries)
  OBVIOUS
<1>1. /\ Len(log) \in Nat /\ last \in Nat /\ last \in 0 .. Len(log)
      /\ log \in Seq(Jobs) /\ k \in 0 .. Len(log) - last
      /\ NewEntries = last .. last + k - 1 /\ last' = last + k
  BY <1>0, Bounds, BatchIsNew
<1>2. CASE k = 0
  <2>1. NewEntries = {} /\ last' = last
    BY <1>1, <1>2
  <2> QED BY <2>1
<1>3. CASE k # 0
  <2>1. /\ Len(Unread) = Len(log) - last
        /\ \A i \in 1 .. Len(log) - last :
             Unread[i] = [id |-> last + i - 1, job |-> log[last + i]]
    BY <1>1, QueueIsSeq, UnreadIsQueue
  <2>2. k \in 1 .. Len(Unread)
    BY <1>1, <1>3, <2>1
  <2>3. Unread' = SubSeq(Unread, k + 1, Len(Unread))
    BY <1>1, QueueShrinks, UnreadIsQueue
  <2>4. Pending(pel)' = Pending(pel) \cup {Unread[i] : i \in 1 .. k}
    <3>1. Pending(pel)' = Pending(pel) \cup Pending(NewEntries)
      BY DEF Pending, JobOf
    <3>2. ASSUME NEW e \in NewEntries
          PROVE  \E i \in 1 .. k : [id |-> e, job |-> JobOf(e)] = Unread[i]
      <4>1. /\ e - last + 1 \in 1 .. k /\ e - last + 1 \in 1 .. Len(log) - last
            /\ last + (e - last + 1) - 1 = e /\ last + (e - last + 1) = e + 1
        BY <1>1
      <4>2. Unread[e - last + 1] = [id |-> e, job |-> log[e + 1]]
        BY <2>1, <4>1
      <4> QED BY <4>1, <4>2 DEF JobOf
    <3>3. ASSUME NEW i \in 1 .. k
          PROVE  \E e \in NewEntries : Unread[i] = [id |-> e, job |-> JobOf(e)]
      <4>1. /\ last + i - 1 \in NewEntries /\ i \in 1 .. Len(log) - last
            /\ last + i - 1 + 1 = last + i
        BY <1>1
      <4> QED BY <2>1, <4>1 DEF JobOf
    <3>4. Pending(NewEntries) = {Unread[i] : i \in 1 .. k}
      <4>1. ASSUME NEW m
            PROVE  m \in Pending(NewEntries) <=> m \in {Unread[i] : i \in 1 .. k}
        BY <3>2, <3>3 DEF Pending
      <4> QED BY <4>1
    <3> QED BY <3>1, <3>4
  <2>5. AbstractBroker!Consume(k)
    BY <2>2, <2>3, <2>4 DEF AbstractBroker!Consume, Pending
  <2> QED BY <2>2, <2>5
<1> QED BY <1>2, <1>3

(* A message some worker was handed is known to Broker; XACK is its Ack. *)
LEMMA HeldIsKnown ==
  ASSUME TypeOK, NEW e \in Seen
  PROVE  [id |-> e, job |-> JobOf(e)] \in AbstractBroker!Known
BY Bounds DEF Seen, AbstractBroker!Known

LEMMA AckIsBrokerStep ==
  ASSUME TypeOK, NEW e, e \in Seen, pel' = pel \ {e},
         UNCHANGED <<log, last, dead>>
  PROVE  AbstractBroker!Next
<1>0. PICK m : m = [id |-> e, job |-> JobOf(e)]
  OBVIOUS
<1>1. Unread' = Unread
  BY DEF Unread
<1>2. Pending(pel)' = Pending(pel) \ {m}
  BY <1>0 DEF Pending, JobOf
<1>3. AbstractBroker!Ack(m)
  BY <1>1, <1>2 DEF AbstractBroker!Ack, Pending
<1>4. m \in AbstractBroker!Known
  BY <1>0, HeldIsKnown
<1> QED BY <1>3, <1>4 DEF AbstractBroker!Next

LEMMA StepIsBrokerStep ==
  TypeOK /\ [Next]_vars => [AbstractBroker!Next]_(AbstractBroker!vars)
<1> SUFFICES ASSUME TypeOK, [Next]_vars
             PROVE  [AbstractBroker!Next]_(AbstractBroker!vars)
  OBVIOUS
<1>1. ASSUME UNCHANGED <<log, last, pel, dead>>
      PROVE  UNCHANGED AbstractBroker!vars
  BY <1>1 DEF AbstractBroker!vars, Unread, JobOf
<1>2. ASSUME NEW j \in Jobs, Enqueue(j)
      PROVE  AbstractBroker!Next
  BY <1>2, XAddIsEnqueue DEF Enqueue, AbstractBroker!Next
<1>3. ASSUME NEW w \in Workers, Consume(w)
      PROVE  [AbstractBroker!Next]_(AbstractBroker!vars)
  <2>1. CASE XPending(w) \/ XClaim(w) \/ ClaimFails(w)
    BY <1>1, <2>1 DEF XPending, XClaim, ClaimFails, streamVars
  <2>2. CASE XReadGroup(w) \/ ReadFails(w)
    <3>1. \/ last' = last + Cardinality(NewEntries) /\ pel' = pel \cup NewEntries
          \/ UNCHANGED <<last, pel>>
      BY <2>2 DEF XReadGroup, ReadFails
    <3>2. UNCHANGED <<log, dead>>
      BY <2>2 DEF XReadGroup, ReadFails
    <3> QED BY <1>1, <3>1, <3>2, ReadIsConsume DEF AbstractBroker!Next
  <2>3. CASE Refuse(w)
    <3>1. PICK e \in worker[w].found : pel' = pel \ {e} \/ pel' = pel
      BY <2>3 DEF Refuse
    <3>2. e \in Seen /\ UNCHANGED <<log, last, dead>>
      BY <2>3 DEF Refuse, TypeOK, Seen
    <3>3. CASE pel' = pel
      BY <1>1, <3>2, <3>3
    <3>4. CASE pel' = pel \ {e}
      BY <3>2, <3>4, AckIsBrokerStep
    <3> QED BY <3>1, <3>3, <3>4
  <2> QED BY <1>3, <2>1, <2>2, <2>3 DEF Consume
<1>4. ASSUME NEW w \in Workers, Finish(w)
      PROVE  [AbstractBroker!Next]_(AbstractBroker!vars)
  <2>1. hands[w] \subseteq Seen
    BY DEF TypeOK, Seen
  <2>2. ASSUME NEW e \in hands[w], XAck(w, e)
        PROVE  AbstractBroker!Next
    <3>1. /\ e \in Seen /\ pel' = pel \ {e}
          /\ UNCHANGED <<log, last, dead>>
      BY <2>1, <2>2 DEF XAck
    <3> QED BY <3>1, AckIsBrokerStep
  <2>3. ASSUME NEW e \in hands[w], Requeue(w, e)
        PROVE  AbstractBroker!Next
    <3>1. JobOf(e) \in Jobs
      BY <2>1, Bounds DEF Seen
    <3> QED BY <2>3, <3>1, XAddIsEnqueue DEF Requeue, AbstractBroker!Next
  <2>4. ASSUME NEW e \in hands[w], SendToDeadLetter(w, e)
        PROVE  AbstractBroker!Next
    <3> DEFINE m == [id |-> e, job |-> JobOf(e)]
    <3>1. m \in AbstractBroker!Known /\ m.job = JobOf(e)
      BY <2>1, HeldIsKnown
    <3>2. AbstractBroker!SendToDeadLetter(m)
      BY <2>4, <3>1 DEF SendToDeadLetter, AbstractBroker!SendToDeadLetter,
                        Unread, JobOf
    <3> QED BY <3>1, <3>2 DEF AbstractBroker!Next
  <2>5. ASSUME NEW e, XAckFails(w, e) \/ GiveBackFails(w, e) \/ XDel(w, e)
        PROVE  UNCHANGED <<log, last, pel, dead>>
    BY <2>5 DEF XAckFails, GiveBackFails, XDel, streamVars
  <2> QED BY <1>1, <1>4, <2>2, <2>3, <2>4, <2>5 DEF Finish
<1>5. CASE \/ \E w \in Workers : Crash(w)
           \/ \E e \in pel : PassTime(e)
           \/ UNCHANGED vars
  BY <1>1, <1>5 DEF Crash, PassTime, vars, streamVars
<1> QED BY <1>2, <1>3, <1>4, <1>5 DEF Next

(***************************************************************************)
(* The commands of the Redis broker, interleaved and failing as they may,  *)
(* implement the Broker of TaskQueue with at-least-once delivery.          *)
(***************************************************************************)
THEOREM RedisImplementsBroker == Spec => BrokerSpec
<1>1. Init => AbstractBroker!Init
  <2> SUFFICES ASSUME Init PROVE AbstractBroker!Init
    OBVIOUS
  <2>1. Len(log) = 0 /\ last = 0 /\ pel = {} /\ dead = [j \in Jobs |-> 0]
    BY DEF Init
  <2>2. Unread = <<>>
    BY <2>1 DEF Unread
  <2> QED BY <2>1, <2>2 DEF AbstractBroker!Init
<1> QED BY <1>1, StepIsBrokerStep, RedisTypeCorrect, PTL
        DEF Spec, BrokerSpec, AbstractBroker!Spec

-----------------------------------------------------------------------------
(* Only XCLAIM and XREADGROUP hand entries out: XCLAIM idle ones, and      *)
(* XREADGROUP entries behind those that were read.                         *)
LEMMA HandedOut ==
  ASSUME TypeOK, [Next]_vars, NEW w \in Workers
  PROVE  hands'[w] \subseteq hands[w] \cup idle \cup NewEntries
<1>1. ASSUME NEW v \in Workers, NEW E, Give(v, E), E \subseteq idle \cup NewEntries
      PROVE  hands'[w] \subseteq hands[w] \cup idle \cup NewEntries
  BY <1>1 DEF Give, TypeOK
<1>2. ASSUME NEW v \in Workers, NEW e, Drop(v, e)
      PROVE  hands'[w] \subseteq hands[w] \cup idle \cup NewEntries
  BY <1>2 DEF Drop, TypeOK
<1>3. ASSUME hands' = hands
      PROVE  hands'[w] \subseteq hands[w] \cup idle \cup NewEntries
  BY <1>3
<1>4. ASSUME NEW v \in Workers, Consume(v)
      PROVE  hands'[w] \subseteq hands[w] \cup idle \cup NewEntries
  <2>1. CASE XClaim(v)
    <3>1. Give(v, Readable(worker[v].found \cap idle))
      BY <2>1 DEF XClaim
    <3>2. Readable(worker[v].found \cap idle) \subseteq idle \cup NewEntries
      BY DEF Readable
    <3> QED BY <1>1, <3>1, <3>2
  <2>2. CASE XReadGroup(v)
    <3>1. Give(v, Readable(NewEntries))
      BY <2>2 DEF XReadGroup
    <3>2. Readable(NewEntries) \subseteq idle \cup NewEntries
      BY DEF Readable
    <3> QED BY <1>1, <3>1, <3>2
  <2>3. CASE XPending(v) \/ ClaimFails(v) \/ ReadFails(v) \/ Refuse(v)
    BY <1>3, <2>3 DEF XPending, ClaimFails, ReadFails, Refuse
  <2> QED BY <1>4, <2>1, <2>2, <2>3 DEF Consume
<1>5. ASSUME NEW v \in Workers, Finish(v)
      PROVE  hands'[w] \subseteq hands[w] \cup idle \cup NewEntries
  <2>1. CASE \E e \in hands[v] :
               XAck(v, e) \/ XAckFails(v, e) \/ Requeue(v, e)
                 \/ SendToDeadLetter(v, e) \/ GiveBackFails(v, e)
    BY <1>2, <2>1 DEF XAck, XAckFails, Requeue, SendToDeadLetter, GiveBackFails
  <2>2. CASE \E e \in acking[v] : XDel(v, e)
    BY <1>3, <2>2 DEF XDel
  <2> QED BY <1>5, <2>1, <2>2 DEF Finish
<1>6. ASSUME NEW v \in Workers, Crash(v)
      PROVE  hands'[w] \subseteq hands[w] \cup idle \cup NewEntries
  BY <1>6 DEF Crash, TypeOK
<1>7. CASE \/ \E j \in Jobs : Enqueue(j)
           \/ \E e \in pel : PassTime(e)
           \/ UNCHANGED vars
  BY <1>3, <1>7 DEF Enqueue, PassTime, vars, workerVars
<1> QED BY <1>4, <1>5, <1>6, <1>7 DEF Next

(***************************************************************************)
(* No worker is handed an entry another one is still busy with: what an    *)
(* XCLAIM of found entries returns is idle when the XCLAIM is carried out, *)
(* not only when XPENDING listed it.                                       *)
(***************************************************************************)
THEOREM ClaimsCorrect == Spec => NoClaimOfBusyEntry
<1>1. ASSUME TypeOK, [Next]_vars
      PROVE  \A w \in Workers :
               hands'[w] \ hands[w]
                 \subseteq idle \cup {e \in hands'[w] : e >= last}
  <2>1. \A e \in NewEntries : e >= last
    BY <1>1, BatchIsNew, Bounds
  <2> QED BY <1>1, <2>1, HandedOut
<1> QED BY <1>1, RedisTypeCorrect, PTL DEF Spec, NoClaimOfBusyEntry
=============================================================================
