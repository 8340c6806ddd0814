----------------------------- MODULE SessionOrder -----------------------------
(***************************************************************************)
(* What a worker may rely on: the order of the messages of one session     *)
(* (the doc comment of Conversation in session.mbt).  A probe is describe, *)
(* then exit.  An operation session is initialize, initialized, at most    *)
(* one operation, shutdown, then exit; a session that refuses its worker   *)
(* goes from initialize to shutdown or exit.  The host writes one request  *)
(* at a time and reads its reply before the next message, and it may stop  *)
(* the worker at any time, after which it writes nothing.                  *)
(***************************************************************************)

VARIABLES
  last,      \* the last message the host wrote, "start" before the first
  awaiting,  \* the reply to the last request is outstanding
  stopped    \* the host has stopped the worker

vars == <<last, awaiting, stopped>>

Requests == {"describe", "initialize", "operation", "shutdown"}

(* The messages that may follow a message.                                 *)
Follow == [start |-> {"describe", "initialize"},
           describe |-> {"exit"},
           initialize |-> {"initialized", "shutdown", "exit"},
           initialized |-> {"operation", "shutdown"},
           operation |-> {"shutdown"},
           shutdown |-> {"exit"},
           exit |-> {}]

Init == last = "start" /\ awaiting = FALSE /\ stopped = FALSE

Write(message) ==
  /\ ~stopped
  /\ ~awaiting
  /\ message \in Follow[last]
  /\ last' = message
  /\ awaiting' = (message \in Requests)
  /\ UNCHANGED stopped

Accept ==
  /\ ~stopped
  /\ awaiting
  /\ awaiting' = FALSE
  /\ UNCHANGED <<last, stopped>>

Stop ==
  /\ ~stopped
  /\ stopped' = TRUE
  /\ UNCHANGED <<last, awaiting>>

Next == (\E message \in DOMAIN Follow : Write(message)) \/ Accept \/ Stop

Spec == Init /\ [][Next]_vars
=============================================================================
