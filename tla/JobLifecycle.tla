---------------------------- MODULE JobLifecycle ----------------------------
(***************************************************************************)
(* What the system promises about one job to somebody who only reads its   *)
(* row: the life of a job that is submitted once and never cancelled or    *)
(* retried by hand.  It goes from the queue to one worker at a time, comes *)
(* back after a failure while attempts are left, and settles for good.     *)
(***************************************************************************)
EXTENDS Naturals

CONSTANTS Jobs, MaxAttempts

VARIABLES status, attempts

vars == <<status, attempts>>

Init ==
  /\ status = [j \in Jobs |-> "ABSENT"]
  /\ attempts = [j \in Jobs |-> 0]

Become(j, from, to) ==
  /\ status[j] \in from
  /\ status' = [status EXCEPT ![j] = to]

Submit(j) == Become(j, {"ABSENT"}, "QUEUED") /\ UNCHANGED attempts
Start(j) == Become(j, {"QUEUED", "RETRYING"}, "RUNNING") /\ UNCHANGED attempts
Succeed(j) == Become(j, {"RUNNING"}, "SUCCEEDED") /\ UNCHANGED attempts

(* The last attempt ends the job, any other attempt puts it back. *)
Fail(j) ==
  /\ attempts' = [attempts EXCEPT ![j] = @ + 1]
  /\ Become(j, {"RUNNING"},
            IF attempts'[j] = MaxAttempts THEN "FAILED" ELSE "RETRYING")

Next == \E j \in Jobs : Submit(j) \/ Start(j) \/ Succeed(j) \/ Fail(j)

(* A submitted job is taken up, and an attempt ends. *)
Spec ==
  /\ Init
  /\ [][Next]_vars
  /\ \A j \in Jobs : WF_vars(Start(j)) /\ WF_vars(Succeed(j) \/ Fail(j))
=============================================================================
