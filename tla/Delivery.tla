------------------------------ MODULE Delivery ------------------------------
(***************************************************************************)
(* What the rest of the system relies on when a worker process consumes    *)
(* messages: a delivered message is in one place of the process, its       *)
(* handler is called at most once for this delivery, and a message that is *)
(* not handled stays held until the process is gone.                       *)
(***************************************************************************)
CONSTANT Messages

VARIABLES waiting, held, handled

vars == <<waiting, held, handled>>

Init ==
  /\ waiting = Messages
  /\ held = {}
  /\ handled = {}

Take(M) ==
  /\ M \subseteq waiting
  /\ waiting' = waiting \ M
  /\ held' = held \cup M
  /\ UNCHANGED handled

Handle(m) ==
  /\ m \in held
  /\ held' = held \ {m}
  /\ handled' = handled \cup {m}
  /\ UNCHANGED waiting

Next == (\E M \in SUBSET waiting : Take(M)) \/ (\E m \in held : Handle(m))

Spec == Init /\ [][Next]_vars
=============================================================================
