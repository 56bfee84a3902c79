------------------------------- MODULE Inbox -------------------------------
(***************************************************************************)
(* What the gate of a hub promises of the messages of its accounts,        *)
(* whatever the threads do: a message that was received is dispatched at   *)
(* most once, and nothing is dispatched that was not received.  Messages   *)
(* is shown to implement it.                                               *)
(***************************************************************************)
CONSTANT Message

VARIABLES received,     \* the messages received
          dispatched    \* dispatched[m]: how often message m was dispatched

inboxVars == <<received, dispatched>>

Init == received = {} /\ dispatched = [m \in Message |-> 0]

Receive(m) ==
    /\ m \notin received
    /\ received' = received \cup {m}
    /\ UNCHANGED dispatched

Dispatch(m) ==
    /\ m \in received /\ dispatched[m] = 0
    /\ dispatched' = [dispatched EXCEPT ![m] = 1]
    /\ UNCHANGED received

\* A message that finds the gate open is received and dispatched at once.
Pass(m) ==
    /\ m \notin received
    /\ received' = received \cup {m}
    /\ dispatched' = [dispatched EXCEPT ![m] = 1]

Next == \E m \in Message : Receive(m) \/ Dispatch(m) \/ Pass(m)

Spec == Init /\ [][Next]_inboxVars
=============================================================================
