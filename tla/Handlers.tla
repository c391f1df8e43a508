------------------------------ MODULE Handlers ------------------------------
(***************************************************************************)
(* The job types of the registry and how their handlers end.  A handler    *)
(* gets a payload and a context; the context of a worker is cancelled by   *)
(* the signal that stops it.  Outcomes: "done", "invalid" (the payload is  *)
(* refused before any work), "error" (the other side fails) and            *)
(* "interrupted" (the context was cancelled first).                        *)
(***************************************************************************)

Field == {"to", "subject", "url", "video_id"}
Payload == [readable : BOOLEAN, fields : SUBSET Field]
Outcome == {"done", "invalid", "error", "interrupted"}

(* Every handler parses its payload and looks for the fields it cannot do  *)
(* without before it works.                                                *)
WithFields(required, payload, work) ==
  IF payload.readable /\ required \subseteq payload.fields THEN work
                                                           ELSE {"invalid"}

(* A wait for a timer or for the context.  When both are ready, Go's       *)
(* select takes either.                                                    *)
Wait(cancelled) == IF cancelled THEN {"done", "interrupted"} ELSE {"done"}

ExecuteEmailJob(payload, cancelled) ==
  WithFields({"to", "subject"}, payload, Wait(cancelled))

(* Five waits for the download and ten for the conversion; the context     *)
(* counts in each of them.                                                 *)
ExecuteVideoJob(payload, cancelled) ==
  WithFields({"url"}, payload, Wait(cancelled))

ExecuteThumbnailJob(payload, cancelled) ==
  WithFields({"video_id"}, payload, Wait(cancelled))

(* The request of a webhook may fail, time out or return a status of 400   *)
(* or more, whatever the context.                                          *)
ExecuteWebhookJob(payload, cancelled) ==
  WithFields({"url"}, payload, Wait(cancelled) \cup {"error"})

NewRegistry ==
  {"send_email", "process_video", "generate_thumbnail", "webhook"}

(* How the handler of a type may end. *)
Execute(type, payload, cancelled) ==
  CASE type = "send_email" -> ExecuteEmailJob(payload, cancelled)
    [] type = "process_video" -> ExecuteVideoJob(payload, cancelled)
    [] type = "generate_thumbnail" -> ExecuteThumbnailJob(payload, cancelled)
    [] type = "webhook" -> ExecuteWebhookJob(payload, cancelled)
=============================================================================
