---------------------------- MODULE RedisBroker -----------------------------
(***************************************************************************)
(* The Redis broker: one stream, one consumer group with its list of       *)
(* pending entries, one dead-letter stream.  Every Redis command is a step *)
(* of its own, so that the commands of several workers interleave within   *)
(* Consume (XPENDING, XCLAIM, XREADGROUP) and within Ack (XACK, XDEL).     *)
(*                                                                         *)
(* An entry is its position in the stream.  A worker holds an entry from   *)
(* the Consume that returned it until Ack, Requeue or SendToDeadLetter.    *)
(* Left out: MAXLEN, which trims a stream of more than 10000 entries.      *)
(***************************************************************************)
EXTENDS Naturals, Sequences, FiniteSets

CONSTANTS
  Jobs, Workers,
  Garbled,     \* the jobs in Jobs whose entries convertEntry refuses
  Count,       \* the batch size of Consume
  MaxEntries,  \* bound: entries ever added
  MaxFaults,   \* bound: commands that fail
  MaxCrashes,  \* bound: workers that die
  MaxDead      \* bound: dead letters of one job

ASSUME RedisBrokerAssumption ==
  /\ Garbled \subseteq Jobs
  /\ Count \in Nat \ {0}
  /\ {MaxEntries, MaxFaults, MaxCrashes, MaxDead} \subseteq Nat

VARIABLES
  log,       \* the jobs of the entries, in the order of XADD
  last,      \* the group's last-delivered-id: entries 0 .. last-1 were read
  pel,       \* entries delivered and not acknowledged
  idle,      \* those of pel that nobody touched for claimMinIdleTime
  deleted,   \* entries removed by XDEL
  dead,      \* dead[j]: entries of j in the dead-letter stream
  worker,    \* worker[w]: where w is in Consume, and the entries it works on
  hands,     \* hands[w]: entries w holds
  acking,    \* acking[w]: entries w has sent XACK and not yet XDEL for
  faults, crashes

streamVars == <<log, last, pel, idle, deleted, dead>>
workerVars == <<worker, hands, acking>>
boundVars == <<faults, crashes>>
vars == <<streamVars, workerVars, boundVars>>

Entries == 0 .. Len(log) - 1
JobOf(e) == log[e + 1]
Readable(E) == {e \in E : JobOf(e) \notin Garbled}

Polling == [pc |-> "poll", found |-> {}]

TypeOK ==
  /\ log \in Seq(Jobs)
  /\ last \in 0 .. Len(log)
  /\ pel \subseteq 0 .. last - 1
  /\ idle \subseteq pel
  /\ deleted \subseteq 0 .. last - 1
  /\ dead \in [Jobs -> Nat]
  /\ worker \in [Workers -> [pc : {"poll", "claim", "read", "refuse"},
                             found : SUBSET (0 .. last - 1)]]
  /\ hands \in [Workers -> SUBSET (0 .. last - 1)]
  /\ acking \in [Workers -> SUBSET (0 .. last - 1)]
  /\ faults \in Nat /\ crashes \in Nat

(* XGROUP CREATE MKSTREAM from entry 0 on. *)
Init ==
  /\ log = <<>>
  /\ last = 0
  /\ pel = {} /\ idle = {} /\ deleted = {}
  /\ dead = [j \in Jobs |-> 0]
  /\ worker = [w \in Workers |-> Polling]
  /\ hands = [w \in Workers |-> {}]
  /\ acking = [w \in Workers |-> {}]
  /\ faults = 0 /\ crashes = 0

-----------------------------------------------------------------------------
XAdd(j) ==
  /\ Len(log) < MaxEntries
  /\ log' = Append(log, j)
  /\ UNCHANGED <<last, pel, idle, deleted, dead>>

Enqueue(j) == XAdd(j) /\ UNCHANGED <<workerVars, boundVars>>

Fault == faults < MaxFaults /\ faults' = faults + 1

-----------------------------------------------------------------------------
(* Consume *)

Go(w, pc, found) == worker' = [worker EXCEPT ![w] = [pc |-> pc, found |-> found]]
Give(w, E) == hands' = [hands EXCEPT ![w] = @ \cup E]

(* The oldest entries of E, Count of them or all. *)
Oldest(E) ==
  {e \in E : Cardinality({d \in E : d < e}) < Count}

(* Mistake: XPENDING without a minimal idle time. *)
XPending_AnyAge(w) ==
  /\ worker[w].pc = "poll"
  /\ Go(w, IF pel = {} THEN "read" ELSE "claim", Oldest(pel))
  /\ UNCHANGED <<streamVars, hands, acking, boundVars>>

XPending(w) ==
  /\ worker[w].pc = "poll"
  /\ Go(w, IF idle = {} THEN "read" ELSE "claim", Oldest(idle))
  /\ UNCHANGED <<streamVars, hands, acking, boundVars>>

(* Mistake: XCLAIM without a minimal idle time. *)
XClaim_Busy(w) ==
  LET got == worker[w].found \cap pel IN
  /\ worker[w].pc = "claim"
  /\ idle' = idle \ got
  /\ Give(w, Readable(got))
  /\ Go(w, IF Readable(got) = {} THEN "read" ELSE "poll", {})
  /\ UNCHANGED <<log, last, pel, deleted, dead, acking, boundVars>>

(* Entries that another worker claimed or acknowledged since XPENDING are  *)
(* left out; an entry that is not readable is skipped and stays pending.   *)
XClaim(w) ==
  LET got == worker[w].found \cap idle IN
  /\ worker[w].pc = "claim"
  /\ idle' = idle \ got
  /\ Give(w, Readable(got))
  /\ Go(w, IF Readable(got) = {} THEN "read" ELSE "poll", {})
  /\ UNCHANGED <<log, last, pel, deleted, dead, acking, boundVars>>

(* XPENDING or XCLAIM fails; XCLAIM may have been carried out. *)
ClaimFails(w) ==
  /\ Fault
  /\ worker[w].pc \in {"poll", "claim"}
  /\ idle' \in {idle, idle \ worker[w].found}
  /\ Go(w, "read", {})
  /\ UNCHANGED <<log, last, pel, deleted, dead, hands, acking, crashes>>

NewEntries ==
  last .. (IF Len(log) - last < Count THEN Len(log) ELSE last + Count) - 1

(* Mistakes: NOACK; a batch longer than the stream. *)
XReadGroup_NoAck(w) ==
  /\ worker[w].pc = "read"
  /\ last' = last + Cardinality(NewEntries)
  /\ Give(w, Readable(NewEntries))
  /\ Go(w, "poll", {})
  /\ UNCHANGED <<log, pel, idle, deleted, dead, acking, boundVars>>
XReadGroup_Beyond(w) ==
  /\ worker[w].pc = "read"
  /\ last' = last + Count
  /\ pel' = pel \cup NewEntries
  /\ Give(w, Readable(NewEntries))
  /\ Go(w, "poll", {})
  /\ UNCHANGED <<log, idle, deleted, dead, acking, boundVars>>

XReadGroup(w) ==
  LET refused == NewEntries \ Readable(NewEntries) IN
  /\ worker[w].pc = "read"
  /\ last' = last + Cardinality(NewEntries)
  /\ pel' = pel \cup NewEntries
  /\ Give(w, Readable(NewEntries))
  /\ Go(w, IF refused = {} THEN "poll" ELSE "refuse", refused)
  /\ UNCHANGED <<log, idle, deleted, dead, acking, boundVars>>

(* The answer is lost: its entries are pending and nobody holds them. *)
ReadFails(w) ==
  /\ Fault
  /\ worker[w].pc = "read"
  /\ \/ UNCHANGED <<last, pel>>
     \/ /\ last' = last + Cardinality(NewEntries)
        /\ pel' = pel \cup NewEntries
  /\ Go(w, "poll", {})
  /\ UNCHANGED <<log, idle, deleted, dead, hands, acking, crashes>>

(* A new entry that is not readable is acknowledged; errors are ignored. *)
Refuse(w) ==
  /\ worker[w].pc = "refuse"
  /\ \E e \in worker[w].found :
       /\ \/ /\ pel' = pel \ {e}
             /\ idle' = idle \ {e}
             /\ UNCHANGED faults
          \/ Fault /\ UNCHANGED <<pel, idle>>
       /\ Go(w, IF worker[w].found = {e} THEN "poll" ELSE "refuse",
             worker[w].found \ {e})
  /\ UNCHANGED <<log, last, deleted, dead, hands, acking, crashes>>

-----------------------------------------------------------------------------
(* What an execution does with its entry. *)

Drop(w, e) == hands' = [hands EXCEPT ![w] = @ \ {e}]

(* Also when another worker has claimed the entry in the meantime. *)
XAck(w, e) ==
  /\ e \in hands[w]
  /\ pel' = pel \ {e}
  /\ idle' = idle \ {e}
  /\ Drop(w, e)
  /\ acking' = [acking EXCEPT ![w] = @ \cup {e}]
  /\ UNCHANGED <<log, last, deleted, dead, worker, boundVars>>

(* Mistake: XDEL is sent although XACK failed. *)
XAckFails_Continues(w, e) ==
  /\ Fault
  /\ e \in hands[w]
  /\ Drop(w, e)
  /\ acking' = [acking EXCEPT ![w] = @ \cup {e}]
  /\ UNCHANGED <<streamVars, worker, crashes>>

XAckFails(w, e) ==
  /\ Fault
  /\ e \in hands[w]
  /\ Drop(w, e)
  /\ UNCHANGED <<streamVars, worker, acking, crashes>>

(* The error of XDEL is ignored. *)
XDel(w, e) ==
  /\ e \in acking[w]
  /\ acking' = [acking EXCEPT ![w] = @ \ {e}]
  /\ \/ deleted' = deleted \cup {e} /\ UNCHANGED faults
     \/ Fault /\ UNCHANGED deleted
  /\ UNCHANGED <<log, last, pel, idle, dead, worker, hands, crashes>>

(* The entry the message was delivered as stays pending. *)
Requeue(w, e) ==
  /\ e \in hands[w]
  /\ XAdd(JobOf(e))
  /\ Drop(w, e)
  /\ UNCHANGED <<worker, acking, boundVars>>

SendToDeadLetter(w, e) ==
  /\ e \in hands[w]
  /\ dead[JobOf(e)] < MaxDead
  /\ dead' = [dead EXCEPT ![JobOf(e)] = @ + 1]
  /\ Drop(w, e)
  /\ UNCHANGED <<log, last, pel, idle, deleted, worker, acking, boundVars>>

(* XADD fails, or the worker is shut down while Requeue waits. *)
GiveBackFails(w, e) ==
  /\ Fault
  /\ e \in hands[w]
  /\ Drop(w, e)
  /\ UNCHANGED <<streamVars, worker, acking, crashes>>

-----------------------------------------------------------------------------
Crash(w) ==
  /\ crashes < MaxCrashes
  /\ crashes' = crashes + 1
  /\ worker' = [worker EXCEPT ![w] = Polling]
  /\ hands' = [hands EXCEPT ![w] = {}]
  /\ acking' = [acking EXCEPT ![w] = {}]
  /\ UNCHANGED <<streamVars, faults>>

(* claimMinIdleTime passes for a pending entry, as often as it takes. *)
PassTime(e) ==
  /\ e \in pel \ idle
  /\ idle' = idle \cup {e}
  /\ UNCHANGED <<log, last, pel, deleted, dead, workerVars, boundVars>>

Consume(w) ==
  \/ XPending(w) \/ XClaim(w) \/ ClaimFails(w)
  \/ XReadGroup(w) \/ ReadFails(w) \/ Refuse(w)

Finish(w) ==
  \/ \E e \in hands[w] :
       XAck(w, e) \/ XAckFails(w, e) \/ Requeue(w, e)
         \/ SendToDeadLetter(w, e) \/ GiveBackFails(w, e)
  \/ \E e \in acking[w] : XDel(w, e)

Next ==
  \/ \E j \in Jobs : Enqueue(j)
  \/ \E w \in Workers : Consume(w) \/ Finish(w) \/ Crash(w)
  \/ \E e \in pel : PassTime(e)

Spec == Init /\ [][Next]_vars

(* A worker that lives calls Consume again and again. *)
FairSpec == Spec /\ \A w \in Workers : WF_vars(Consume(w))
-----------------------------------------------------------------------------
(* Properties. *)

(***************************************************************************)
(* A worker is handed only entries nobody has read and entries that were   *)
(* not touched for 30s, although another worker may claim them between its *)
(* XPENDING and its XCLAIM.                                                *)
(***************************************************************************)
NoClaimOfBusyEntry ==
  [][\A w \in Workers :
       hands'[w] \ hands[w] \subseteq idle \cup {e \in hands'[w] : e >= last}]_vars

(* Only acknowledged entries leave the stream, and they are never pending  *)
(* again: what is claimed still has its job.                               *)
DeletedIsAcknowledged ==
  /\ deleted \cap pel = {}
  /\ \A w \in Workers : acking[w] \cap pel = {}

(***************************************************************************)
(* Consume returns what it claimed before it reads new entries, and claims *)
(* the oldest ones first, so entries that are never acknowledged can keep  *)
(* others waiting.  Nothing else can: an entry nobody ever reads waits     *)
(* because workers are handed old entries again and again, and an entry    *)
(* that stays idle waits because older ones are claimed again and again.   *)
(***************************************************************************)
ClaimsOld(w) == XClaim(w) /\ Readable(worker[w].found \cap idle) # {}
EveryEntryHandedOut ==
  \A e \in 0 .. MaxEntries - 1 :
    /\ <>[](e \in Entries /\ e >= last)
         => []<><<\E w \in Workers : ClaimsOld(w)>>_vars
    /\ <>[](e \in idle)
         => []<><<\E d \in idle : d < e /\ d \notin idle'>>_vars

(* Seen from outside, the commands make up the Broker of TaskQueue, with   *)
(* at-least-once delivery.                                                 *)
Unread == [i \in 1 .. Len(log) - last |->
             [id |-> last + i - 1, job |-> log[last + i]]]
AbstractBroker == INSTANCE Broker WITH
  AtLeastOnce <- TRUE,
  ready <- Unread,
  pending <- {[id |-> e, job |-> JobOf(e)] : e \in pel},
  nextId <- Len(log)
BrokerSpec == AbstractBroker!Spec
=============================================================================
