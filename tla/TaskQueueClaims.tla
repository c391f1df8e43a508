--------------------------- MODULE TaskQueueClaims ---------------------------
(***************************************************************************)
(* What the documents, the comments and the tests of the repository say of *)
(* a job's path and the code does not do.  Each claim is refuted by a run  *)
(* of its own; PROJECT.json quotes the line it comes from.                 *)
(***************************************************************************)
EXTENDS TaskQueue

(* "SUCCEEDED (end)": no status follows SUCCEEDED. *)
SucceededIsFinal ==
  [][\A j \in Jobs :
       rows[j].status = "SUCCEEDED" => rows'[j].status = "SUCCEEDED"]_vars

(* "Ensures job is only processed once": of two requests with the same       *)
(* idempotency_key, one job at most is run.                                  *)
KeyProcessedOnce ==
  \A i, j \in Jobs :
    i # j /\ KeyOf[i] = KeyOf[j] /\ KeyOf[i] # NoKey
      => effects[i] = 0 \/ effects[j] = 0

(* "Ensures at-least-once delivery": a job whose submission was answered     *)
(* with success is run, buried, or still owed a run, whatever call failed.   *)
AcceptedIsDelivered ==
  \A j \in answered \cap Registered : Tracked(j)
=============================================================================
