------------------------------- MODULE Broker -------------------------------
(***************************************************************************)
(* What the two drivers of broker.Broker promise their callers, one action *)
(* per method of the interface.  AtLeastOnce = FALSE is the in-memory      *)
(* queue: a consumed message belongs to its consumer alone and Ack does    *)
(* nothing.  AtLeastOnce = TRUE is the Redis stream: a consumed message    *)
(* stays in the group's pending list until XACK, and XCLAIM hands it to a  *)
(* consumer again.                                                         *)
(*                                                                         *)
(* A message is its identifier and the job it names.  Attempts, Priority   *)
(* and EnqueuedAt are written by the code and never read by it.            *)
(***************************************************************************)
EXTENDS Naturals, Sequences

CONSTANTS Jobs, AtLeastOnce

VARIABLES
  ready,    \* messages no consumer has seen, oldest first
  pending,  \* delivered and not acknowledged; stays empty for the memory queue
  dead,     \* dead[j]: messages of j handed to SendToDeadLetter
  nextId    \* next fresh message identifier

vars == <<ready, pending, dead, nextId>>

Message == [id : Nat, job : Jobs]

TypeOK ==
  /\ ready \in Seq(Message)
  /\ pending \subseteq Message
  /\ dead \in [Jobs -> Nat]
  /\ nextId \in Nat

Init ==
  /\ ready = <<>>
  /\ pending = {}
  /\ dead = [j \in Jobs |-> 0]
  /\ nextId = 0

(* A message built by an API handler has no identifier: it gets a new one. *)
Enqueue(j) ==
  /\ ready' = Append(ready, [id |-> nextId, job |-> j])
  /\ nextId' = nextId + 1
  /\ UNCHANGED <<pending, dead>>

(* The first n messages of the queue go to one consumer. *)
Consume(n) ==
  /\ n \in 1 .. Len(ready)
  /\ ready' = SubSeq(ready, n + 1, Len(ready))
  /\ pending' = IF AtLeastOnce
                  THEN pending \cup {ready[i] : i \in 1 .. n}
                  ELSE pending
  /\ UNCHANGED <<dead, nextId>>

(* claimAbandonedMessages only changes the owner of a pending entry. *)
Reclaim(m) ==
  /\ m \in pending
  /\ UNCHANGED <<ready, pending, dead, nextId>>

(* XACK and XDEL; the memory queue, whose pending list is empty, ignores it. *)
Ack(m) ==
  /\ pending' = pending \ {m}
  /\ UNCHANGED <<ready, dead, nextId>>

(***************************************************************************)
(* The memory queue takes the same message back; XADD gives it a new       *)
(* identifier and leaves the entry it was delivered as where it is.        *)
(***************************************************************************)
Requeue(m) ==
  \/ AtLeastOnce /\ Enqueue(m.job)
  \/ /\ ~AtLeastOnce
     /\ ready' = Append(ready, m)
     /\ UNCHANGED <<pending, dead, nextId>>

(* The entry the message was delivered as is not acknowledged here either. *)
SendToDeadLetter(m) ==
  /\ dead' = [dead EXCEPT ![m.job] = @ + 1]
  /\ UNCHANGED <<ready, pending, nextId>>

(* A caller names only messages the broker handed out. *)
Known == [id : 0 .. nextId - 1, job : Jobs]

Next ==
  \/ \E j \in Jobs : Enqueue(j)
  \/ \E n \in 1 .. Len(ready) : Consume(n)
  \/ \E m \in pending : Reclaim(m)
  \/ \E m \in Known : Ack(m) \/ Requeue(m) \/ SendToDeadLetter(m)

Spec == Init /\ [][Next]_vars
=============================================================================
