---------------------------- MODULE MCTaskQueue -----------------------------
(* Instances of TaskQueue for TLC: keys, budgets and symmetry. *)
EXTENDS TaskQueueClaims, TLC

CONSTANTS k1

NoKeys == [j \in Jobs |-> NoKey]      \* no request carries an idempotency_key
SharedKey == [j \in Jobs |-> k1]      \* every request carries the same one

Events(fail, crash, fault, cancel, retry) ==
  [k \in BudgetKind |->
     CASE k = "fail" -> fail [] k = "crash" -> crash [] k = "fault" -> fault
       [] k = "cancel" -> cancel [] k = "retry" -> retry]

HandlersFail == Events(7, 0, 0, 0, 0)
Recovery == Events(2, 1, 0, 0, 0)
KeysAndRequests == Events(2, 0, 1, 1, 2)
CallsLostAndCrashes == Events(2, 1, 1, 0, 1)
Nothing == Events(0, 0, 0, 0, 0)
OneFailure == Events(1, 0, 0, 0, 0)
OneFault == Events(0, 0, 1, 0, 0)

Interchangeable == Permutations(Slots) \cup Permutations(Clients)
=============================================================================
