------------------------------ MODULE EventLog ------------------------------
(***************************************************************************)
(* What a durable event log promises to the clients that post to it: an    *)
(* event that was confirmed is in the log, and what is in the log stays    *)
(* there.  An event may enter the log without a confirmation (the answer   *)
(* was lost), and one event may be posted again.                           *)
(***************************************************************************)
CONSTANTS Event, Call, EventOf(_)

VARIABLES
  log,        \* the events that are stored
  confirmed   \* the calls that were told their event is stored

Init == log \in SUBSET Event /\ confirmed = {}

\* Events are stored, without anybody being told.
Post == \E new \in SUBSET Event : log' = log \cup new /\ UNCHANGED confirmed

\* A call is told that its event is stored; other events may get in with it.
Confirm(c) ==
  /\ \E new \in SUBSET Event : log' = log \cup new
  /\ EventOf(c) \in log'
  /\ confirmed' = confirmed \cup {c}

Next == Post \/ \E c \in Call : Confirm(c)

Spec == Init /\ [][Next]_<<log, confirmed>>
=============================================================================
