------------------------- MODULE WorkerPool_proofs --------------------------
(***************************************************************************)
(* What WorkerPool guarantees for every pool size, every set of loops and  *)
(* every backlog.                                                          *)
(***************************************************************************)
EXTENDS WorkerPool, TLAPS, FiniteSetTheorems

(* consumeLoop sends only while its batch has a message left. *)
SendHasBatch == consumer = "send" => batch # <<>>

TypeInv == TypeOK /\ SendHasBatch

LEMMA CounterType ==
  ASSUME TypeOK, NEW delta \in {-1, 1}, incrementActive(delta)
  PROVE  activeCnt' \in Nat /\ row' \in WorkerRow /\ missed' \in BOOLEAN
<1>1. activeCnt' \in Nat
  BY DEF TypeOK, incrementActive
<1>2. RecordHeartbeat(activeCnt')
  BY DEF incrementActive
<1>3. row \in WorkerRow
  BY DEF TypeOK
<1>4. (IF activeCnt' > 0 THEN "busy" ELSE "idle")
        \in {"active", "starting", "busy", "idle"}
  OBVIOUS
<1>5. [active |-> activeCnt',
       status |-> IF activeCnt' > 0 THEN "busy" ELSE "idle"] \in WorkerRow
  BY <1>1, <1>4 DEF WorkerRow
<1> QED BY <1>1, <1>2, <1>3, <1>5 DEF RecordHeartbeat

LEMMA ConsumerKeepsTypes ==
  ASSUME TypeInv, Consumer
  PROVE  TypeInv'
<1> USE DEF TypeInv, TypeOK, SendHasBatch, counterVars
<1>1. CASE Poll \/ FetchNothing \/ ConsumerStops
  BY <1>1 DEF Poll, FetchNothing, ConsumerStops
<1>2. ASSUME NEW n \in 1 .. PoolSize, Fetch(n)
      PROVE  TypeInv'
  <2>1. batch' \in Seq(Messages) /\ stream' \in Seq(Messages)
    BY <1>2, WorkerPoolAssumption DEF Fetch
  <2>2. Len(batch') = n
    BY <1>2, WorkerPoolAssumption DEF Fetch
  <2>3. batch' # <<>>
    BY <2>1, <2>2
  <2> QED BY <1>2, <2>1, <2>3 DEF Fetch
<1>3. CASE Send
  <2>1. Head(batch) \in Messages /\ Tail(batch) \in Seq(Messages)
    BY <1>3 DEF Send
  <2> QED BY <1>3, <2>1 DEF Send
<1>4. CASE CountSent
  <2>1. activeCnt' \in Nat /\ row' \in WorkerRow /\ missed' \in BOOLEAN
    BY <1>4, CounterType DEF CountSent
  <2> QED BY <1>4, <2>1 DEF CountSent
<1> QED BY <1>1, <1>2, <1>3, <1>4 DEF Consumer

LEMMA LoopKeepsTypes ==
  ASSUME TypeInv, NEW g \in Loops, ProcessLoop(g)
  PROVE  TypeInv'
<1> USE DEF TypeInv, TypeOK, SendHasBatch, counterVars
<1>1. CASE Receive(g)
  <2>1. Head(jobChan) \in Messages /\ Tail(jobChan) \in Seq(Messages)
    BY <1>1 DEF Receive
  <2> QED BY <1>1, <2>1 DEF Receive
<1>2. loop[g].pc \in {"run", "count"}
        => loop[g] \in [pc : {"run", "count"}, msg : Messages]
  BY DEF AtRest, Gone
<1>3. CASE Finish(g)
  <2>1. handled' \subseteq Messages
    BY <1>2, <1>3 DEF Finish
  <2>2. [loop[g] EXCEPT !.pc = "count"]
          \in [pc : {"run", "count"}, msg : Messages]
    BY <1>2, <1>3 DEF Finish
  <2> QED BY <1>3, <2>1, <2>2 DEF Finish
<1>4. CASE CountDone(g)
  <2>1. activeCnt' \in Nat /\ row' \in WorkerRow /\ missed' \in BOOLEAN
    BY <1>4, CounterType DEF CountDone
  <2> QED BY <1>4, <2>1 DEF CountDone
<1>5. CASE LoopStops(g)
  BY <1>5 DEF LoopStops
<1> QED BY <1>1, <1>3, <1>4, <1>5 DEF ProcessLoop

(***************************************************************************)
(* Every variable keeps its type: the counter is never negative, and       *)
(* consumeLoop never sends from an empty batch.                            *)
(***************************************************************************)
THEOREM PoolTypeCorrect == Spec => [](TypeOK /\ SendHasBatch)
<1>1. Init => TypeInv
  <2> SUFFICES ASSUME Init PROVE TypeInv
    OBVIOUS
  <2>1. row \in WorkerRow /\ activeCnt \in Nat
    BY WorkerPoolAssumption DEF Init, Registered, WorkerRow
  <2>2. stream \in Seq(Messages) /\ batch \in Seq(Messages)
        /\ jobChan \in Seq(Messages)
    BY WorkerPoolAssumption DEF Init
  <2> QED BY <2>1, <2>2 DEF Init, TypeInv, TypeOK, SendHasBatch
<1>2. TypeInv /\ [Next]_vars => TypeInv'
  <2>1. CASE UNCHANGED vars
    BY <2>1 DEF vars, poolVars, counterVars, TypeInv, TypeOK, SendHasBatch
  <2>2. CASE Cancel \/ Complete \/ TimeOut
    BY <2>2 DEF Cancel, Complete, TimeOut, poolVars, counterVars,
                TypeInv, TypeOK, SendHasBatch
  <2> QED BY <2>1, <2>2, ConsumerKeepsTypes, LoopKeepsTypes DEF Next
<1> QED BY <1>1, <1>2, PTL DEF Spec, TypeInv

-----------------------------------------------------------------------------
(* The counter of active jobs. *)

LEMMA BusyIsFinite == IsFiniteSet(Busy) /\ Cardinality(Busy) \in Nat
<1>1. Busy \subseteq Loops /\ IsFiniteSet(Loops)
  BY WorkerPoolAssumption DEF Busy
<1>2. IsFiniteSet(Busy)
  BY <1>1, FS_Subset
<1> QED BY <1>2, FS_CardinalityType

LEMMA ConsumerKeepsCount ==
  ASSUME TypeInv, ActiveWithinOne, Consumer
  PROVE  ActiveWithinOne'
<1>1. Cardinality(Busy) \in Nat
  BY BusyIsFinite
<1>2. Busy' = Busy
  BY DEF Consumer, Poll, Fetch, FetchNothing, Send, CountSent,
         ConsumerStops, Busy
<1>3. jobChan \in Seq(Messages) /\ Len(jobChan) \in Nat /\ activeCnt \in Nat
  BY DEF TypeInv, TypeOK
<1>4. CASE Poll \/ (\E n \in 1 .. PoolSize : Fetch(n)) \/ FetchNothing
            \/ ConsumerStops
  <2>1. /\ UNCHANGED <<jobChan, counterVars>>
        /\ consumer # "count" /\ consumer' # "count"
    BY <1>4 DEF Poll, Fetch, FetchNothing, ConsumerStops
  <2> QED BY <1>2, <2>1 DEF ActiveWithinOne, InFlight, Uncounted, counterVars
<1>5. CASE Send
  <2>1. /\ Len(jobChan') = Len(jobChan) + 1
        /\ consumer = "send" /\ consumer' = "count"
        /\ UNCHANGED counterVars
    BY <1>3, <1>5 DEF Send
  <2>2. InFlight' = InFlight + 1 /\ Uncounted' = 1 /\ Uncounted = 0
    BY <1>1, <1>2, <1>3, <2>1 DEF InFlight, Uncounted
  <2>3. InFlight \in Int
    BY <1>1, <1>3 DEF InFlight
  <2> QED BY <1>3, <2>1, <2>2, <2>3 DEF ActiveWithinOne, counterVars
<1>6. CASE CountSent
  <2>1. /\ activeCnt' = activeCnt + 1
        /\ ~missed' => row'.active = activeCnt'
    BY <1>3, <1>6 DEF CountSent, incrementActive, RecordHeartbeat
  <2>2. InFlight' = InFlight /\ Uncounted = 1 /\ Uncounted' = 0
    BY <1>2, <1>6 DEF CountSent, InFlight, Uncounted
  <2>3. InFlight \in Int
    BY <1>1, <1>3 DEF InFlight
  <2> QED BY <1>3, <2>1, <2>2, <2>3 DEF ActiveWithinOne
<1> QED BY <1>4, <1>5, <1>6 DEF Consumer

LEMMA LoopKeepsCount ==
  ASSUME TypeInv, ActiveWithinOne, NEW g \in Loops, ProcessLoop(g)
  PROVE  ActiveWithinOne'
<1>1. IsFiniteSet(Busy) /\ Cardinality(Busy) \in Nat
  BY BusyIsFinite
<1>2. jobChan \in Seq(Messages) /\ Len(jobChan) \in Nat /\ activeCnt \in Nat
      /\ Uncounted \in {0, 1}
  BY DEF TypeInv, TypeOK, Uncounted
<1>3. Uncounted' = Uncounted
  BY DEF ProcessLoop, Receive, Finish, CountDone, LoopStops, Uncounted
<1>4. CASE Receive(g)
  <2>1. Busy' = Busy \cup {g} /\ g \notin Busy
    BY <1>4 DEF Receive, Busy, AtRest, TypeInv, TypeOK
  <2>2. Cardinality(Busy') = Cardinality(Busy) + 1
    BY <1>1, <2>1, FS_AddElement
  <2>3. Len(jobChan') = Len(jobChan) - 1 /\ UNCHANGED counterVars
    BY <1>2, <1>4 DEF Receive
  <2>4. InFlight' = InFlight
    BY <1>1, <1>2, <2>2, <2>3 DEF InFlight
  <2> QED BY <1>3, <2>3, <2>4 DEF ActiveWithinOne, counterVars
<1>5. CASE Finish(g) \/ LoopStops(g)
  <2>1. Busy' = Busy
    <3>1. CASE Finish(g)
      BY <3>1 DEF Finish, Busy, AtRest, Gone, TypeInv, TypeOK
    <3>2. CASE LoopStops(g)
      BY <3>2 DEF LoopStops, Busy, AtRest, Gone, TypeInv, TypeOK
    <3> QED BY <1>5, <3>1, <3>2
  <2>2. UNCHANGED <<jobChan, counterVars>>
    BY <1>5 DEF Finish, LoopStops
  <2> QED BY <1>3, <2>1, <2>2 DEF ActiveWithinOne, InFlight, counterVars
<1>6. CASE CountDone(g)
  <2>1. Busy' = Busy \ {g} /\ g \in Busy /\ UNCHANGED jobChan
    BY <1>6 DEF CountDone, Busy, AtRest, TypeInv, TypeOK
  <2>2. Cardinality(Busy') = Cardinality(Busy) - 1
    BY <1>1, <2>1, FS_RemoveElement
  <2>3. /\ activeCnt' = IF activeCnt = 0 THEN 0 ELSE activeCnt - 1
        /\ ~missed' => row'.active = activeCnt'
    BY <1>2, <1>6 DEF CountDone, incrementActive, RecordHeartbeat
  <2>4. InFlight' = InFlight - 1 /\ InFlight \in Nat
    BY <1>1, <1>2, <2>1, <2>2 DEF InFlight
  <2>5. Cardinality(Busy) # 0
    BY <1>1, <2>1, FS_EmptySet
  <2>6. InFlight >= 1
    BY <1>1, <1>2, <2>5 DEF InFlight
  <2> QED BY <1>2, <1>3, <2>3, <2>4, <2>6 DEF ActiveWithinOne
<1> QED BY <1>4, <1>5, <1>6 DEF ProcessLoop

(***************************************************************************)
(* The active jobs a worker reports exceed the messages that were sent and *)
(* counted by one at most, and never fall short of them, whatever an       *)
(* earlier process left in its row.                                        *)
(***************************************************************************)
THEOREM CountCorrect == Spec => []ActiveWithinOne
<1>1. Init => ActiveWithinOne
  <2> SUFFICES ASSUME Init PROVE ActiveWithinOne
    OBVIOUS
  <2>1. Busy = {} /\ Len(jobChan) = 0 /\ Uncounted = 0
    BY DEF Init, Busy, AtRest, Uncounted
  <2>2. InFlight = 0
    BY <2>1, FS_EmptySet DEF InFlight
  <2>3. row.status \notin {"busy", "idle"}
    BY DEF Init, Registered
  <2> QED BY <2>1, <2>2, <2>3 DEF Init, ActiveWithinOne
<1>2. TypeInv /\ ActiveWithinOne /\ [Next]_vars => ActiveWithinOne'
  <2>1. CASE UNCHANGED vars
    BY <2>1 DEF vars, poolVars, counterVars, ActiveWithinOne, InFlight,
                Busy, Uncounted
  <2>2. CASE Cancel \/ Complete \/ TimeOut
    BY <2>2 DEF Cancel, Complete, TimeOut, poolVars, counterVars,
                ActiveWithinOne, InFlight, Busy, Uncounted
  <2> QED BY <2>1, <2>2, ConsumerKeepsCount, LoopKeepsCount DEF Next
<1> QED BY <1>1, <1>2, PoolTypeCorrect, PTL DEF Spec, TypeInv

-----------------------------------------------------------------------------
(* One delivery. *)

(* The messages that left jobChan: how many, and that seq is the part of   *)
(* the backlog that starts behind its first k messages.                    *)
Left == Len(Backlog) - Len(stream) - Len(batch) - Len(jobChan)
Continues(seq, k) == \A i \in 1 .. Len(seq) : seq[i] = Backlog[k + i]
Runs(g) == loop[g].pc = "run"

(***************************************************************************)
(* jobChan, the batch and the stream, in this order, are the end of the    *)
(* backlog; what was taken off it is with one loop or handled.             *)
(***************************************************************************)
FifoInv ==
  /\ consumer \in {"check", "consume"} => batch = <<>>
  /\ Left >= 0
  /\ Continues(jobChan, Left)
  /\ Continues(batch, Left + Len(jobChan))
  /\ Continues(stream, Left + Len(jobChan) + Len(batch))
  /\ \A g \in Loops : Runs(g) => loop[g].msg \in {Backlog[i] : i \in 1 .. Left}
  /\ handled \subseteq {Backlog[i] : i \in 1 .. Left}
  /\ \A g \in Loops : Runs(g) => loop[g].msg \notin handled
  /\ \A g, h \in Loops : Runs(g) /\ Runs(h) /\ loop[g].msg = loop[h].msg => g = h

LEMMA Sizes ==
  ASSUME TypeInv
  PROVE  /\ Len(Backlog) \in Nat /\ Len(stream) \in Nat
         /\ Len(batch) \in Nat /\ Len(jobChan) \in Nat
         /\ stream \in Seq(Messages) /\ batch \in Seq(Messages)
         /\ jobChan \in Seq(Messages) /\ Backlog \in Seq(Messages)
BY WorkerPoolAssumption DEF TypeInv, TypeOK

(* The head of a part of the backlog, and the rest of it. *)
LEMMA HeadAndTail ==
  ASSUME NEW seq \in Seq(Messages), seq # <<>>, NEW k \in Nat, Continues(seq, k)
  PROVE  /\ Len(seq) >= 1 /\ Len(Tail(seq)) = Len(seq) - 1
         /\ Head(seq) = Backlog[k + 1]
         /\ Continues(Tail(seq), k + 1)
         /\ ToElements(seq) = ToElements(Tail(seq)) \cup {Head(seq)}
<1>1. /\ Len(seq) \in Nat /\ Len(seq) >= 1 /\ Len(Tail(seq)) = Len(seq) - 1
      /\ Head(seq) = seq[1]
      /\ \A i \in 1 .. Len(seq) - 1 : Tail(seq)[i] = seq[i + 1]
  OBVIOUS
<1>2. Head(seq) = Backlog[k + 1]
  BY <1>1 DEF Continues
<1>3. Continues(Tail(seq), k + 1)
  <2>1. ASSUME NEW i \in 1 .. Len(Tail(seq))
        PROVE  Tail(seq)[i] = Backlog[k + 1 + i]
    <3>1. i \in 1 .. Len(seq) - 1 /\ i + 1 \in 1 .. Len(seq)
          /\ k + (i + 1) = k + 1 + i
      BY <1>1
    <3>2. Tail(seq)[i] = seq[i + 1]
      BY <1>1, <3>1
    <3>3. seq[i + 1] = Backlog[k + (i + 1)]
      BY <3>1 DEF Continues
    <3> QED BY <3>1, <3>2, <3>3
  <2> QED BY <2>1 DEF Continues
<1>4. ToElements(seq) = ToElements(Tail(seq)) \cup {Head(seq)}
  <2>1. \A i \in 1 .. Len(seq) : i = 1 \/ (i - 1 \in 1 .. Len(seq) - 1)
    BY <1>1
  <2>2. ASSUME NEW i \in 1 .. Len(seq)
        PROVE  seq[i] \in ToElements(Tail(seq)) \cup {Head(seq)}
    <3>1. CASE i = 1
      BY <1>1, <3>1
    <3>2. CASE i # 1
      <4>1. i - 1 \in 1 .. Len(Tail(seq)) /\ i - 1 + 1 = i
        BY <1>1, <2>1, <3>2
      <4>2. Tail(seq)[i - 1] = seq[i]
        BY <1>1, <4>1
      <4> QED BY <4>1, <4>2 DEF ToElements
    <3> QED BY <3>1, <3>2
  <2>3. ASSUME NEW i \in 1 .. Len(Tail(seq))
        PROVE  Tail(seq)[i] \in ToElements(seq)
    <3>1. i \in 1 .. Len(seq) - 1 /\ i + 1 \in 1 .. Len(seq)
      BY <1>1
    <3> QED BY <1>1, <3>1 DEF ToElements
  <2>4. Head(seq) \in ToElements(seq)
    <3>1. 1 \in 1 .. Len(seq)
      BY <1>1
    <3> QED BY <1>1, <3>1 DEF ToElements
  <2> QED BY <2>2, <2>3, <2>4 DEF ToElements
<1> QED BY <1>1, <1>2, <1>3, <1>4

(* A message at the end of jobChan. *)
LEMMA AddedMessage ==
  ASSUME NEW seq \in Seq(Messages), NEW m \in Messages, NEW k \in Nat,
         Continues(seq, k), m = Backlog[k + Len(seq) + 1]
  PROVE  /\ Len(Append(seq, m)) = Len(seq) + 1
         /\ Continues(Append(seq, m), k)
         /\ ToElements(Append(seq, m)) = ToElements(seq) \cup {m}
<1>1. /\ Len(seq) \in Nat /\ Len(Append(seq, m)) = Len(seq) + 1
      /\ \A i \in 1 .. Len(seq) : Append(seq, m)[i] = seq[i]
      /\ Append(seq, m)[Len(seq) + 1] = m
      /\ \A i \in 1 .. Len(seq) + 1 : i \in 1 .. Len(seq) \/ i = Len(seq) + 1
  OBVIOUS
<1>2. k + (Len(seq) + 1) = k + Len(seq) + 1 /\ Len(seq) + 1 \in 1 .. Len(seq) + 1
      /\ 1 .. Len(seq) \subseteq 1 .. Len(seq) + 1
  BY <1>1
<1>3. Continues(Append(seq, m), k)
  BY <1>1, <1>2 DEF Continues
<1>4. ToElements(Append(seq, m)) = ToElements(seq) \cup {m}
  BY <1>1, <1>2 DEF ToElements
<1> QED BY <1>1, <1>3, <1>4

(* The first n messages of a part of the backlog, and those behind them. *)
LEMMA FirstAndRest ==
  ASSUME NEW seq \in Seq(Messages), NEW n \in 1 .. Len(seq), NEW k \in Nat,
         Continues(seq, k)
  PROVE  LET first == SubSeq(seq, 1, n)
             rest == SubSeq(seq, n + 1, Len(seq))
         IN  /\ Len(first) = n /\ Len(rest) = Len(seq) - n
             /\ Continues(first, k) /\ Continues(rest, k + n)
             /\ ToElements(seq) = ToElements(first) \cup ToElements(rest)
<1> DEFINE first == SubSeq(seq, 1, n)
           rest == SubSeq(seq, n + 1, Len(seq))
<1>1. /\ Len(seq) \in Nat /\ n \in Nat /\ n <= Len(seq)
      /\ Len(first) = n /\ Len(rest) = Len(seq) - n
      /\ \A i \in 1 .. n : first[i] = seq[i]
      /\ \A i \in 1 .. Len(seq) - n : rest[i] = seq[n + i]
  OBVIOUS
<1> HIDE DEF first, rest
<1>2. /\ \A i \in 1 .. n : i \in 1 .. Len(seq)
      /\ \A i \in 1 .. Len(seq) - n :
           n + i \in 1 .. Len(seq) /\ k + (n + i) = k + n + i
      /\ \A i \in 1 .. Len(seq) : i \in 1 .. n \/ i - n \in 1 .. Len(seq) - n
      /\ \A i \in 1 .. Len(seq) : n + (i - n) = i
  BY <1>1
<1>3. Continues(first, k)
  BY <1>1, <1>2 DEF Continues
<1>4. Continues(rest, k + n)
  BY <1>1, <1>2 DEF Continues
<1>5. ToElements(seq) = ToElements(first) \cup ToElements(rest)
  <2>1. ASSUME NEW i \in 1 .. Len(seq)
        PROVE  seq[i] \in ToElements(first) \cup ToElements(rest)
    <3>1. CASE i \in 1 .. n
      BY <1>1, <3>1 DEF ToElements
    <3>2. CASE i - n \in 1 .. Len(seq) - n
      <4>1. rest[i - n] = seq[i]
        BY <1>1, <1>2, <3>2
      <4> QED BY <1>1, <3>2, <4>1 DEF ToElements
    <3> QED BY <1>2, <3>1, <3>2
  <2>2. ToElements(first) \subseteq ToElements(seq)
    BY <1>1, <1>2 DEF ToElements
  <2>3. ToElements(rest) \subseteq ToElements(seq)
    BY <1>1, <1>2 DEF ToElements
  <2>4. ToElements(seq) \subseteq ToElements(first) \cup ToElements(rest)
    BY <2>1 DEF ToElements
  <2> QED BY <2>2, <2>3, <2>4
<1> QED BY <1>1, <1>3, <1>4, <1>5 DEF first, rest

(* No message is in two parts of the backlog. *)
LEMMA PartsApart ==
  ASSUME NEW seq \in Seq(Messages), NEW k \in Nat, Continues(seq, k),
         k + Len(seq) <= Len(Backlog),
         NEW i \in 1 .. Len(Backlog), i <= k \/ i > k + Len(seq)
  PROVE  Backlog[i] \notin ToElements(seq)
<1>1. Len(seq) \in Nat /\ Len(Backlog) \in Nat
  BY WorkerPoolAssumption
<1>2. ASSUME NEW l \in 1 .. Len(seq)
      PROVE  seq[l] = Backlog[k + l] /\ k + l \in 1 .. Len(Backlog) /\ k + l # i
  BY <1>1, <1>2 DEF Continues
<1> QED BY <1>2, WorkerPoolAssumption DEF ToElements

(* The parts of the backlog lie one behind the other. *)
LEMMA Places ==
  ASSUME TypeInv, FifoInv
  PROVE  /\ Left \in Nat
         /\ Left + Len(jobChan) \in Nat
         /\ Left + Len(jobChan) + Len(batch) \in Nat
         /\ Left + Len(jobChan) + Len(batch) + Len(stream) = Len(Backlog)
BY Sizes DEF FifoInv, Left

(* What a loop has taken or the process handled is in no part of it. *)
LEMMA TakenIsGone ==
  ASSUME TypeInv, FifoInv, NEW m \in {Backlog[i] : i \in 1 .. Left}
  PROVE  m \notin ToElements(jobChan) /\ m \notin ToElements(batch)
<1>1. PICK i \in 1 .. Left : m = Backlog[i]
  OBVIOUS
<1>2. /\ Left \in Nat /\ Left + Len(jobChan) \in Nat
      /\ i \in 1 .. Len(Backlog) /\ i <= Left /\ i <= Left + Len(jobChan)
      /\ Left + Len(jobChan) <= Len(Backlog)
      /\ Left + Len(jobChan) + Len(batch) <= Len(Backlog)
  <2>1. /\ Left \in Nat /\ Left <= Left + Len(jobChan)
        /\ Left + Len(jobChan) \in Nat
    BY Places, Sizes
  <2>2. /\ Left + Len(jobChan) <= Left + Len(jobChan) + Len(batch)
        /\ Left + Len(jobChan) + Len(batch) <= Len(Backlog)
    <3>1. /\ Left + Len(jobChan) \in Nat /\ Len(batch) \in Nat
          /\ Len(stream) \in Nat
          /\ Left + Len(jobChan) + Len(batch) + Len(stream) = Len(Backlog)
      BY Places, Sizes
    <3> HIDE DEF Left
    <3> QED BY <3>1
  <2>3. Len(Backlog) \in Nat /\ Len(batch) \in Nat
    BY Sizes
  <2>4. i \in Nat /\ 1 <= i /\ i <= Left
    BY <2>1
  <2>5. i <= Left + Len(jobChan)
    BY <2>1, <2>4
  <2>6. Left + Len(jobChan) <= Len(Backlog)
    BY <2>1, <2>2, <2>3
  <2>7. i <= Len(Backlog)
    BY <2>1, <2>3, <2>4, <2>5, <2>6
  <2> QED BY <2>1, <2>2, <2>3, <2>4, <2>5, <2>6, <2>7
<1>3. m \notin ToElements(jobChan)
  BY <1>1, <1>2, PartsApart, Sizes DEF FifoInv
<1>4. m \notin ToElements(batch)
  BY <1>1, <1>2, PartsApart, Sizes DEF FifoInv
<1> QED BY <1>3, <1>4

Steps == FifoInv' /\ [OneDelivery!Next]_(OneDelivery!vars)

(* A step that moves no message, at most frees a loop that ran none. *)
LEMMA NothingMoves ==
  ASSUME TypeInv, FifoInv, UNCHANGED <<stream, batch, jobChan, handled>>,
         consumer' \in {"check", "consume"} => batch = <<>>,
         \A g \in Loops : Runs(g)' <=> Runs(g),
         \A g \in Loops : Runs(g) => loop'[g].msg = loop[g].msg
  PROVE  Steps
<1>1. Left' = Left
  BY DEF Left
<1>2. FifoInv'
  BY <1>1 DEF FifoInv, Continues, Runs
<1>3. Running' = Running
  BY DEF Running, Runs
<1>4. UNCHANGED OneDelivery!vars
  BY <1>3 DEF OneDelivery!vars, Held, ToElements
<1> QED BY <1>2, <1>4 DEF Steps

LEMMA FetchTakes ==
  ASSUME TypeInv, FifoInv, NEW n \in 1 .. PoolSize, Fetch(n)
  PROVE  Steps
<1> DEFINE k == Left + Len(jobChan)
<1>1. /\ batch = <<>> /\ n \in 1 .. Len(stream)
      /\ batch' = SubSeq(stream, 1, n)
      /\ stream' = SubSeq(stream, n + 1, Len(stream))
      /\ consumer' = "send"
      /\ UNCHANGED <<jobChan, loop, handled>>
  BY DEF Fetch, FifoInv
<1>2. /\ Left \in Nat /\ k \in Nat /\ Len(batch) = 0 /\ n \in Nat
      /\ k + Len(stream) = Len(Backlog)
      /\ k + Len(batch) = k
  BY <1>1, Places, Sizes
<1>3. Continues(stream, k)
  BY <1>2 DEF FifoInv
<1> HIDE DEF k
<1>4. /\ Len(batch') = n /\ Len(stream') = Len(stream) - n
      /\ Continues(batch', k) /\ Continues(stream', k + n)
      /\ ToElements(stream) = ToElements(batch') \cup ToElements(stream')
  BY <1>1, <1>2, <1>3, FirstAndRest, Sizes
<1>5. Left' = Left
  <2>1. Left' = Len(Backlog) - Len(stream') - Len(batch') - Len(jobChan)
    BY <1>1 DEF Left
  <2>2. Left = Len(Backlog) - Len(stream) - 0 - Len(jobChan)
    BY <1>2 DEF Left
  <2>3. Len(stream') = Len(stream) - n /\ Len(batch') = n
    BY <1>4
  <2>4. /\ Len(Backlog) \in Nat /\ Len(stream) \in Nat /\ Len(jobChan) \in Nat
        /\ n \in Nat
    BY <1>2, Sizes
  <2> QED BY <2>1, <2>2, <2>3, <2>4
<1>6. /\ Continues(batch, k)' /\ Continues(stream, k + n)'
      /\ Continues(jobChan, Left)'
  <2>1. k' = k
    BY <1>1, <1>5 DEF k
  <2> QED BY <1>1, <1>4, <1>5, <2>1 DEF FifoInv, Continues
<1>7. FifoInv'
  <2>1. k' = Left' + Len(jobChan') /\ k' = k
    BY <1>1, <1>5 DEF k
  <2>2. /\ Continues(batch, Left + Len(jobChan))'
        /\ Continues(stream, Left + Len(jobChan) + Len(batch))'
    BY <1>4, <1>6, <2>1 DEF Continues
  <2>3. Left' >= 0
    BY <1>2, <1>5
  <2> QED BY <1>1, <1>5, <1>6, <2>2, <2>3 DEF FifoInv, Runs
<1>8. ToElements(batch') \cap ToElements(stream') = {}
  <2>1. ASSUME NEW l \in 1 .. Len(batch')
        PROVE  batch'[l] \notin ToElements(stream')
    <3>1. batch'[l] = Backlog[k + l]
      BY <1>4 DEF Continues
    <3>2. /\ k + l \in 1 .. Len(Backlog) /\ k + l <= k + n /\ k + n \in Nat
          /\ k + n + Len(stream') <= Len(Backlog)
      <4>1. k \in Nat /\ n \in Nat /\ l \in Nat /\ 1 <= l /\ l <= n
        BY <1>2, <1>4
      <4>2. k + n + Len(stream') <= Len(Backlog) /\ Len(stream') \in Nat
        <5>1. /\ Len(stream') = Len(stream) - n
              /\ k + Len(stream) = Len(Backlog)
          BY <1>2, <1>4
        <5>2. n \in 1 .. Len(stream)
          BY <1>1
        <5>3. Len(stream) \in Nat /\ Len(Backlog) \in Nat
          BY Sizes
        <5> QED BY <4>1, <5>1, <5>2, <5>3
      <4>3. Len(Backlog) \in Nat
        BY Sizes
      <4> QED BY <4>1, <4>2, <4>3
    <3>3. stream' \in Seq(Messages)
      BY <1>1, Sizes
    <3>4. Backlog[k + l] \notin ToElements(stream')
      BY <1>4, <3>2, <3>3, PartsApart
    <3> QED BY <3>1, <3>4
  <2> QED BY <2>1 DEF ToElements
<1>9. OneDelivery!Take(ToElements(batch'))
  <2>1. ToElements(batch) = {}
    BY <1>2 DEF ToElements
  <2>2. /\ ToElements(stream') = ToElements(stream) \ ToElements(batch')
        /\ ToElements(batch') \subseteq ToElements(stream)
    BY <1>4, <1>8
  <2>3. Running' = Running /\ ToElements(jobChan') = ToElements(jobChan)
    BY <1>1 DEF Running
  <2>4. Held' = Held \cup ToElements(batch')
    BY <2>1, <2>3 DEF Held
  <2> QED BY <1>1, <2>2, <2>4 DEF OneDelivery!Take, ToElements
<1>10. OneDelivery!Next
  <2>1. ToElements(batch') \subseteq ToElements(stream)
    BY <1>4
  <2> QED BY <1>9, <2>1 DEF OneDelivery!Next
<1> QED BY <1>7, <1>10 DEF Steps

LEMMA SendKeeps ==
  ASSUME TypeInv, FifoInv, Send
  PROVE  Steps
<1> DEFINE m == Head(batch)
           k == Left + Len(jobChan)
<1>1. /\ jobChan' = Append(jobChan, m) /\ batch' = Tail(batch)
      /\ consumer' = "count" /\ batch # <<>>
      /\ UNCHANGED <<stream, loop, handled>>
  BY DEF Send, TypeInv, SendHasBatch
<1>2. /\ Left \in Nat /\ k \in Nat
      /\ Continues(batch, k) /\ Continues(jobChan, Left)
      /\ Continues(stream, k + Len(batch))
  BY Places DEF FifoInv
<1>3. m \in Messages
  BY <1>1, Sizes
<1> HIDE DEF k
<1>4. /\ Len(batch) >= 1 /\ Len(batch') = Len(batch) - 1
      /\ m = Backlog[k + 1] /\ Continues(batch', k + 1)
      /\ ToElements(batch) = ToElements(batch') \cup {m}
  BY <1>1, <1>2, HeadAndTail, Sizes
<1> HIDE DEF m
<1>5. /\ Len(jobChan') = Len(jobChan) + 1 /\ Continues(jobChan', Left)
      /\ ToElements(jobChan') = ToElements(jobChan) \cup {m}
  <2>1. m = Backlog[Left + Len(jobChan) + 1]
    BY <1>4 DEF k
  <2> QED BY <1>1, <1>2, <1>3, <2>1, AddedMessage, Sizes
<1>6. /\ Left' = Left /\ Left' + Len(jobChan') = k + 1
      /\ Left' + Len(jobChan') + Len(batch') = k + Len(batch)
  <2>1. Left' = Left
    BY <1>1, <1>4, <1>5, Sizes DEF Left
  <2> QED BY <1>2, <1>4, <1>5, <2>1, Sizes DEF k
<1>7. FifoInv'
  <2>1. Left' >= 0
    BY <1>2, <1>6
  <2>2. /\ Continues(jobChan, Left)'
        /\ Continues(batch, Left + Len(jobChan))'
        /\ Continues(stream, Left + Len(jobChan) + Len(batch))'
    BY <1>1, <1>2, <1>4, <1>5, <1>6 DEF Continues
  <2> QED BY <1>1, <1>6, <2>1, <2>2 DEF FifoInv, Runs
<1>8. UNCHANGED OneDelivery!vars
  <2>1. Running' = Running
    BY <1>1 DEF Running
  <2>2. Held' = Held
    BY <1>4, <1>5, <2>1 DEF Held, ToElements
  <2> QED BY <1>1, <2>2 DEF OneDelivery!vars, ToElements
<1> QED BY <1>7, <1>8 DEF Steps

LEMMA ReceiveKeeps ==
  ASSUME TypeInv, FifoInv, NEW g \in Loops, Receive(g)
  PROVE  Steps
<1> DEFINE m == Head(jobChan)
<1>1. /\ jobChan # <<>> /\ jobChan' = Tail(jobChan)
      /\ loop' = [loop EXCEPT ![g] = [pc |-> "run", msg |-> m]]
      /\ UNCHANGED <<stream, batch, consumer, handled>> /\ ~Runs(g)
  BY DEF Receive, Runs, AtRest
<1>2. /\ Left \in Nat /\ Continues(jobChan, Left)
      /\ Continues(batch, Left + Len(jobChan))
      /\ Continues(stream, Left + Len(jobChan) + Len(batch))
  BY Places DEF FifoInv
<1>3. /\ Len(jobChan) >= 1 /\ Len(jobChan') = Len(jobChan) - 1
      /\ m = Backlog[Left + 1] /\ Continues(jobChan', Left + 1)
      /\ ToElements(jobChan) = ToElements(jobChan') \cup {m}
  BY <1>1, <1>2, HeadAndTail, Sizes
<1> HIDE DEF m
<1>4. /\ Left' = Left + 1 /\ Left' + Len(jobChan') = Left + Len(jobChan)
      /\ 1 .. Left' = 1 .. Left \cup {Left + 1}
  <2>1. Left' = Left + 1
    BY <1>1, <1>3, Sizes DEF Left
  <2> QED BY <1>2, <1>3, <2>1, Sizes
<1>5. /\ loop'[g].pc = "run" /\ loop'[g].msg = m
      /\ \A h \in Loops \ {g} : loop'[h] = loop[h]
  BY <1>1 DEF TypeInv, TypeOK
<1>6. m \notin {Backlog[i] : i \in 1 .. Left}
  <2>1. /\ Left + 1 \in 1 .. Len(Backlog)
        /\ \A i \in 1 .. Left : i \in 1 .. Len(Backlog) /\ i # Left + 1
    BY <1>2, <1>3, Places, Sizes
  <2> QED BY <1>3, <2>1, WorkerPoolAssumption
<1>7. FifoInv'
  <2>1. Left' >= 0
    BY <1>2, <1>4
  <2>2. /\ Continues(jobChan, Left)'
        /\ Continues(batch, Left + Len(jobChan))'
        /\ Continues(stream, Left + Len(jobChan) + Len(batch))'
    BY <1>1, <1>2, <1>3, <1>4 DEF Continues
  <2>3. {Backlog[i] : i \in 1 .. Left}' = {Backlog[i] : i \in 1 .. Left} \cup {m}
    BY <1>3, <1>4
  <2>4. /\ \A h \in Loops : Runs(h)' => loop'[h].msg \in {Backlog[i] : i \in 1 .. Left}'
        /\ handled' \subseteq {Backlog[i] : i \in 1 .. Left}'
    BY <1>1, <1>5, <2>3 DEF FifoInv, Runs
  <2>5. \A h \in Loops : Runs(h)' => loop'[h].msg \notin handled'
    BY <1>1, <1>5, <1>6 DEF FifoInv, Runs
  <2>6. \A h \in Loops \ {g} : Runs(h)' => Runs(h) /\ loop'[h].msg # m
    BY <1>5, <1>6 DEF FifoInv, Runs
  <2>7. \A h, i \in Loops :
          Runs(h)' /\ Runs(i)' /\ loop'[h].msg = loop'[i].msg => h = i
    BY <1>5, <2>6 DEF FifoInv, Runs
  <2> QED BY <1>1, <2>1, <2>2, <2>4, <2>5, <2>7 DEF FifoInv
<1>8. UNCHANGED OneDelivery!vars
  <2>1. Running' = Running \cup {m}
    <3>1. ASSUME NEW x
          PROVE  x \in Running' <=> x \in Running \cup {m}
      BY <1>1, <1>5 DEF Running, Runs
    <3> QED BY <3>1
  <2>2. Held' = Held
    BY <1>1, <1>3, <2>1 DEF Held, ToElements
  <2> QED BY <1>1, <2>2 DEF OneDelivery!vars, ToElements
<1> QED BY <1>7, <1>8 DEF Steps

LEMMA FinishHandles ==
  ASSUME TypeInv, FifoInv, NEW g \in Loops, Finish(g)
  PROVE  Steps
<1> DEFINE m == loop[g].msg
<1>1. /\ Runs(g) /\ handled' = handled \cup {m}
      /\ loop' = [loop EXCEPT ![g].pc = "count"]
      /\ UNCHANGED <<stream, batch, jobChan, consumer>>
  BY DEF Finish, Runs
<1>2. loop[g] \in [pc : {"run", "count"}, msg : Messages]
  BY <1>1 DEF TypeInv, TypeOK, Runs, AtRest, Gone
<1>3. /\ loop'[g].pc = "count"
      /\ \A h \in Loops \ {g} : loop'[h] = loop[h]
  BY <1>1, <1>2 DEF TypeInv, TypeOK
<1>4. /\ m \in {Backlog[i] : i \in 1 .. Left}
      /\ \A h \in Loops : Runs(h) /\ loop[h].msg = m => h = g
  BY <1>1 DEF FifoInv
<1> HIDE DEF m
<1>5. Left' = Left
  BY <1>1 DEF Left
<1>6. \A h \in Loops : Runs(h)' => Runs(h) /\ loop'[h] = loop[h] /\ h # g
  BY <1>3 DEF Runs
<1>7. FifoInv'
  <2>1. /\ Continues(jobChan, Left)'
        /\ Continues(batch, Left + Len(jobChan))'
        /\ Continues(stream, Left + Len(jobChan) + Len(batch))'
        /\ Left' >= 0
    BY <1>1, <1>5 DEF FifoInv, Continues
  <2>2. handled' \subseteq {Backlog[i] : i \in 1 .. Left}'
    BY <1>1, <1>4, <1>5 DEF FifoInv
  <2>3. \A h \in Loops :
          Runs(h)' => /\ loop'[h].msg \in {Backlog[i] : i \in 1 .. Left}'
                      /\ loop'[h].msg \notin handled'
    BY <1>1, <1>4, <1>5, <1>6 DEF FifoInv
  <2>4. \A h, i \in Loops :
          Runs(h)' /\ Runs(i)' /\ loop'[h].msg = loop'[i].msg => h = i
    BY <1>6 DEF FifoInv
  <2> QED BY <1>1, <2>1, <2>2, <2>3, <2>4 DEF FifoInv
<1>8. OneDelivery!Next
  <2>1. Running' = Running \ {m} /\ m \in Running
    <3>1. ASSUME NEW x
          PROVE  x \in Running' <=> x \in Running \ {m}
      <4>1. ASSUME x \in Running'
            PROVE  x \in Running /\ x # m
        <5>1. PICK h \in Loops : Runs(h)' /\ x = loop'[h].msg
          BY <4>1 DEF Running, Runs
        <5> QED BY <1>4, <1>6, <5>1 DEF Running, Runs
      <4>2. ASSUME x \in Running, x # m
            PROVE  x \in Running'
        <5>1. PICK h \in Loops : Runs(h) /\ x = loop[h].msg
          BY <4>2 DEF Running, Runs
        <5>2. h # g
          BY <4>2, <5>1 DEF m
        <5>3. loop'[h] = loop[h]
          BY <1>3, <5>2
        <5> QED BY <5>1, <5>3 DEF Running, Runs
      <4> QED BY <4>1, <4>2
    <3>2. m \in Running
      BY <1>1 DEF Running, Runs, m
    <3> QED BY <3>1, <3>2
  <2>2. m \notin ToElements(jobChan) /\ m \notin ToElements(batch)
    BY <1>4, TakenIsGone
  <2>3. Held' = Held \ {m} /\ m \in Held
    BY <1>1, <2>1, <2>2 DEF Held, ToElements
  <2>4. OneDelivery!Handle(m)
    BY <1>1, <2>3 DEF OneDelivery!Handle, ToElements
  <2> QED BY <2>3, <2>4 DEF OneDelivery!Next
<1> QED BY <1>7, <1>8 DEF Steps

LEMMA NextSteps ==
  ASSUME TypeInv, FifoInv, [Next]_vars
  PROVE  Steps
<1>1. CASE Poll \/ FetchNothing \/ CountSent \/ ConsumerStops
  <2>1. /\ UNCHANGED <<stream, batch, jobChan, loop, handled>>
        /\ consumer' \in {"check", "consume"} => batch = <<>>
    BY <1>1 DEF Poll, FetchNothing, CountSent, ConsumerStops, FifoInv
  <2> QED BY <2>1, NothingMoves DEF Runs
<1>2. ASSUME NEW g \in Loops, CountDone(g) \/ LoopStops(g)
      PROVE  Steps
  <2>1. /\ ~Runs(g) /\ UNCHANGED <<stream, batch, jobChan, consumer, handled>>
        /\ \/ loop' = [loop EXCEPT ![g] = AtRest]
           \/ loop' = [loop EXCEPT ![g] = Gone]
    BY <1>2 DEF CountDone, LoopStops, Runs, AtRest
  <2>2. /\ ~Runs(g)' /\ \A h \in Loops \ {g} : loop'[h] = loop[h]
    BY <2>1 DEF Runs, AtRest, Gone, TypeInv, TypeOK
  <2>3. /\ \A h \in Loops : Runs(h)' <=> Runs(h)
        /\ \A h \in Loops : Runs(h) => loop'[h].msg = loop[h].msg
    BY <2>1, <2>2 DEF Runs
  <2>4. consumer' \in {"check", "consume"} => batch = <<>>
    BY <2>1 DEF FifoInv
  <2> QED BY <2>1, <2>3, <2>4, NothingMoves
<1>3. CASE Cancel \/ Complete \/ TimeOut \/ UNCHANGED vars
  <2>1. UNCHANGED <<stream, batch, jobChan, consumer, loop, handled>>
    BY <1>3 DEF Cancel, Complete, TimeOut, vars, poolVars
  <2> QED BY <2>1, NothingMoves DEF FifoInv, Runs
<1> QED BY <1>1, <1>2, <1>3, FetchTakes, SendKeeps, ReceiveKeeps,
           FinishHandles DEF Next, Consumer, ProcessLoop

(***************************************************************************)
(* The channel, the batch and the loops of a worker process deliver: every *)
(* message is in one place of the process, and its handler is called at    *)
(* most once, however consumeLoop, the loops and the shutdown interleave.  *)
(***************************************************************************)
THEOREM DeliveryRefined == Spec => DeliverySpec
<1>1. Init => FifoInv /\ OneDelivery!Init
  <2> SUFFICES ASSUME Init PROVE FifoInv /\ OneDelivery!Init
    OBVIOUS
  <2>1. /\ stream = Backlog /\ batch = <<>> /\ jobChan = <<>> /\ handled = {}
        /\ Len(batch) = 0 /\ Len(jobChan) = 0
        /\ \A g \in Loops : ~Runs(g)
    BY DEF Init, Runs, AtRest
  <2>2. Backlog \in Seq(Messages) /\ Len(Backlog) \in Nat
    BY WorkerPoolAssumption
  <2>3. /\ Left = 0 /\ Left + Len(jobChan) = 0
        /\ Left + Len(jobChan) + Len(batch) = 0
    <3>1. Len(stream) = Len(Backlog)
      BY <2>1
    <3>2. Left = Len(Backlog) - Len(Backlog) - 0 - 0
      BY <2>1, <3>1 DEF Left
    <3> QED BY <2>1, <2>2, <3>2
  <2>4. /\ Continues(jobChan, Left)
        /\ Continues(batch, Left + Len(jobChan))
        /\ Continues(stream, Left + Len(jobChan) + Len(batch))
    BY <2>1, <2>2, <2>3 DEF Continues
  <2>5. FifoInv
    BY <2>1, <2>3, <2>4 DEF FifoInv
  <2>6. Held = {}
    BY <2>1 DEF Held, ToElements, Running, Runs
  <2> QED BY <2>1, <2>5, <2>6 DEF OneDelivery!Init
<1>2. TypeInv /\ FifoInv /\ [Next]_vars
        => FifoInv' /\ [OneDelivery!Next]_(OneDelivery!vars)
  BY NextSteps DEF Steps
<1>3. TypeInv <=> TypeOK /\ SendHasBatch
  BY DEF TypeInv
<1> QED BY <1>1, <1>2, <1>3, PoolTypeCorrect, PTL
        DEF Spec, DeliverySpec, OneDelivery!Spec
=============================================================================
