------------------------------ MODULE Messages ------------------------------
(***************************************************************************)
(* The way of a device report from the accounts of a hub to the status of  *)
(* a device: the gate that parks messages while the device cache is        *)
(* fetched (MultiManager.on_message), the arbitration between accounts     *)
(* (MultiSourceHandler), the virtual states that sum increments            *)
(* (XTVirtualStateHandler) and the write of the status.                    *)
(*                                                                         *)
(* Every account calls back in its own MQTT thread and the pending queue   *)
(* is drained by the task that fetched the cache, so the steps of the      *)
(* workers interleave; a method of one counter object is one step.  The    *)
(* device has one code under arbitration, an increment of one unit per     *)
(* event, copied to a summed state that a button resets.                   *)
(***************************************************************************)
EXTENDS Naturals, Sequences, FiniteSets, Functions

CONSTANTS
    Sources,    \* the accounts of the hub
    Setup,      \* the task that fetches the cache and drains the queue
    None,       \* no source allowed yet
    MaxEvents,  \* bound: events the device reports
    PerSecond,  \* events that fall in one second of the report time
    MaxCopies,  \* bound: deliveries of one event, by all accounts
    MaxResets   \* bound: presses of the reset button

ASSUME MessagesAssumption ==
    /\ IsFiniteSet(Sources)
    /\ Setup \notin Sources
    /\ None \notin Sources
    /\ MaxEvents \in Nat /\ PerSecond \in Nat \ {0} /\ MaxCopies \in Nat
    /\ MaxResets \in Nat

VARIABLES
    ready,      \* is_ready_for_messages
    pending,    \* pending_messages
    setupPc,    \* where the task is: fetching, draining, clearing, done
    drained,    \* messages the loop over pending has taken
    net,        \* net[s]: what the broker still has to deliver to account s
    events,     \* events the device has reported
    worker,     \* what each thread is doing with its message
    order,      \* accounts in the order of their first message (source_counter_list)
    count,      \* count[s]: counter of account s
    allowed,    \* last_allowed_source
    lastTime,   \* last_update_time
    total,      \* device.status of the summed state
    counted,    \* history: counted[e], how often event e was added to total
    received,   \* history: messages that reached on_message
    handled,    \* history: handled[m], how often message m was dispatched
    late,       \* history: messages that saw the gate shut and were not parked yet when it opened
    sinceReset, \* history: additions stored since the last reset
    resets,     \* presses of the reset button
    raced       \* history: an addition was under way when another addition or a reset was stored

gateVars == <<ready, pending, setupPc, drained>>
sourceVars == <<order, count, allowed, lastTime>>
wireVars == <<net, events>>
totalVars == <<total, counted, sinceReset, raced>>
historyVars == <<received, handled, late>>
msgVars == <<gateVars, sourceVars, wireVars, totalVars, historyVars, worker, resets>>

-----------------------------------------------------------------------------
Workers == Sources \cup {Setup}
Events == 1..MaxEvents

\* A message: the account it came from, the event, and which copy it is.
Message == [src : Sources, event : Events, copy : 1..MaxCopies]

\* convert_device_report_status_list brings both accounts to seconds.
Second(e) == ((e - 1) \div PerSecond) + 1

Idle == [pc |-> "idle"]
At(pc, m) == [pc |-> pc, msg |-> m]
Busy(w) == worker[w].pc # "idle"
Goes(w, pc) == worker' = [worker EXCEPT ![w].pc = pc]
Ends(w) == worker' = [worker EXCEPT ![w] = Idle]

MsgInit ==
    /\ ready = FALSE /\ pending = <<>> /\ setupPc = "fetching" /\ drained = 0
    /\ net = [s \in Sources |-> <<>>] /\ events = 0
    /\ worker = [w \in Workers |-> Idle]
    /\ order = <<>> /\ count = [s \in Sources |-> 0] /\ allowed = None /\ lastTime = 0
    /\ total = 0 /\ counted = [e \in Events |-> 0] /\ sinceReset = 0 /\ raced = FALSE
    /\ received = {} /\ handled = [m \in Message |-> 0] /\ late = {} /\ resets = 0

-----------------------------------------------------------------------------
(* The device and the brokers. *)

\* The device reports an event; the brokers deliver it in any number of copies.
Report ==
    /\ events < MaxEvents
    /\ events' = events + 1
    /\ \E n \in [Sources -> 0..MaxCopies] :
         /\ SumFunction(n) <= MaxCopies
         /\ net' = [s \in Sources |->
                      net[s] \o [i \in 1..n[s] |-> [src |-> s, event |-> events', copy |-> i]]]
    /\ UNCHANGED <<gateVars, sourceVars, totalVars, historyVars, worker, resets>>

-----------------------------------------------------------------------------
(* The gate. *)

\* on_message in the thread of account s reads the flag.
Receive(s) ==
    /\ ~Busy(s) /\ net[s] # <<>>
    /\ LET m == Head(net[s]) IN
         /\ worker' = [worker EXCEPT ![s] = At(IF ready THEN "register" ELSE "park", m)]
         /\ received' = received \cup {m}
         /\ handled' = IF ready THEN [handled EXCEPT ![m] = @ + 1] ELSE handled
    /\ net' = [net EXCEPT ![s] = Tail(@)]
    /\ UNCHANGED <<gateVars, sourceVars, totalVars, late, events, resets>>

\* Mutant: on_message goes on after it parked the message.
ParkAndGoOn(s) ==
    /\ worker[s].pc = "park"
    /\ pending' = Append(pending, worker[s].msg)
    /\ Goes(s, "register")
    /\ handled' = [handled EXCEPT ![worker[s].msg] = @ + 1]
    /\ UNCHANGED <<ready, setupPc, drained, sourceVars, wireVars, totalVars, received, late, resets>>

\* ... and parks the message, whatever happened to the flag meanwhile.
Park(s) ==
    /\ worker[s].pc = "park"
    /\ pending' = Append(pending, worker[s].msg)
    /\ Ends(s)
    /\ UNCHANGED <<ready, setupPc, drained, sourceVars, wireVars, totalVars,
                   historyVars, resets>>

\* Mutant: the gate opens after the queue was drained.
FetchedGateLast ==
    /\ setupPc = "fetching"
    /\ setupPc' = "draining" /\ drained' = 0
    /\ late' = late \cup {worker[s].msg : s \in {t \in Sources : worker[t].pc = "park"}}
    /\ UNCHANGED <<ready, pending, sourceVars, wireVars, totalVars, received, handled,
                   worker, resets>>

\* The fetch ended, well or not: _process_pending_messages opens the gate first.
Fetched ==
    /\ setupPc = "fetching"
    /\ ready' = TRUE /\ setupPc' = "draining" /\ drained' = 0
    /\ late' = late \cup {worker[s].msg : s \in {t \in Sources : worker[t].pc = "park"}}
    /\ UNCHANGED <<pending, sourceVars, wireVars, totalVars, received, handled, worker,
                   resets>>

\* The loop takes the next parked message; it sees those appended meanwhile.
Drain ==
    /\ setupPc = "draining" /\ ~Busy(Setup) /\ drained < Len(pending)
    /\ drained' = drained + 1
    /\ LET m == pending[drained'] IN
         /\ worker' = [worker EXCEPT ![Setup] = At("register", m)]
         /\ handled' = [handled EXCEPT ![m] = @ + 1]
    /\ UNCHANGED <<ready, pending, setupPc, sourceVars, wireVars, totalVars, received,
                   late, resets>>

DrainEnds ==
    /\ setupPc = "draining" /\ ~Busy(Setup) /\ drained = Len(pending)
    /\ setupPc' = "clearing"
    /\ UNCHANGED <<ready, pending, drained, sourceVars, wireVars, totalVars,
                   historyVars, worker, resets>>

\* pending_messages.clear()
Clear ==
    /\ setupPc = "clearing"
    /\ pending' = <<>> /\ setupPc' = "done"
    /\ UNCHANGED <<ready, drained, sourceVars, wireVars, totalVars, historyVars, worker, resets>>

-----------------------------------------------------------------------------
(* Arbitration between accounts. *)

\* register_status_list_from_source
Register(w) ==
    /\ worker[w].pc = "register"
    /\ LET s == worker[w].msg.src IN
         /\ count' = [count EXCEPT ![s] = @ + 1]
         /\ order' = IF count[s] = 0 THEN Append(order, s) ELSE order
    /\ Goes(w, "allow")
    /\ UNCHANGED <<gateVars, allowed, lastTime, wireVars, totalVars, historyVars, resets>>

\* The first account of the list with the highest counter.
Highest ==
    LET best == CHOOSE i \in 1..Len(order) :
                  /\ \A j \in 1..Len(order) : count[order[j]] <= count[order[i]]
                  /\ \A j \in 1..(i - 1) : count[order[j]] < count[order[i]]
    IN order[best]

\* get_allowed_source: switch only to an account that leads by more than one message.
AllowedSource ==
    IF allowed = None \/ count[Highest] - count[allowed] > 1 THEN Highest ELSE allowed

\* filter_status_list: a report of another account is dropped ...
Allow(w) ==
    /\ worker[w].pc = "allow"
    /\ allowed' = AllowedSource
    /\ IF AllowedSource = worker[w].msg.src THEN Goes(w, "time") ELSE Ends(w)
    /\ UNCHANGED <<gateVars, order, count, lastTime, wireVars, totalVars, historyVars, resets>>

\* Mutant: update_last_update_time lets an equal time pass.
NewerOrEqual(e) == Second(e) >= lastTime

\* update_last_update_time
Newer(e) == Second(e) > lastTime

\* ... and so is one whose time is not after the last one let through.
CheckTime(w) ==
    /\ worker[w].pc = "time"
    /\ LET e == worker[w].msg.event IN
         IF Newer(e) THEN lastTime' = Second(e) /\ Goes(w, "sum") ELSE Ends(w) /\ UNCHANGED lastTime
    /\ UNCHANGED <<gateVars, order, count, allowed, wireVars, totalVars, historyVars, resets>>

-----------------------------------------------------------------------------
(* The summed state. *)

\* apply_virtual_states_to_status_list: the increment becomes the new total ...
Sum(w) ==
    /\ worker[w].pc = "sum"
    /\ worker' = [worker EXCEPT ![w] = [pc |-> "store", msg |-> @.msg, value |-> total + 1]]
    /\ UNCHANGED <<gateVars, sourceVars, wireVars, totalVars, historyVars, resets>>

Storing(w) == worker[w].pc = "store"

\* Mutant: the summed state is added once more when it is stored.
StoreAdding(w) ==
    /\ Storing(w)
    /\ total' = total + worker[w].value
    /\ counted' = [counted EXCEPT ![worker[w].msg.event] = @ + 1]
    /\ sinceReset' = sinceReset + 1
    /\ raced' = (raced \/ \E v \in Workers \ {w} : Storing(v))
    /\ Ends(w)
    /\ UNCHANGED <<gateVars, sourceVars, wireVars, historyVars, resets>>

\* ... that _on_device_report writes to the status later.
Store(w) ==
    /\ Storing(w)
    /\ total' = worker[w].value
    /\ counted' = [counted EXCEPT ![worker[w].msg.event] = @ + 1]
    /\ sinceReset' = sinceReset + 1
    /\ raced' = (raced \/ \E v \in Workers \ {w} : Storing(v))
    /\ Ends(w)
    /\ UNCHANGED <<gateVars, sourceVars, wireVars, historyVars, resets>>

\* process_virtual_function FUNCTION_RESET_STATE, from the reset button.
Reset ==
    /\ resets < MaxResets
    /\ resets' = resets + 1
    /\ total' = 0 /\ sinceReset' = 0
    /\ raced' = (raced \/ \E v \in Workers : Storing(v))
    /\ UNCHANGED <<gateVars, sourceVars, wireVars, historyVars, counted, worker>>

-----------------------------------------------------------------------------
Handle(w) == Register(w) \/ Allow(w) \/ CheckTime(w) \/ Sum(w) \/ Store(w)
SetupStep == Fetched \/ Drain \/ DrainEnds \/ Clear

MsgNext ==
    \/ Report
    \/ \E s \in Sources : Receive(s) \/ Park(s)
    \/ SetupStep
    \/ \E w \in Workers : Handle(w)
    \/ Reset

MsgSpec == MsgInit /\ [][MsgNext]_msgVars

-----------------------------------------------------------------------------
(* Properties. *)

MsgTypeOK ==
    /\ ready \in BOOLEAN /\ pending \in Seq(Message)
    /\ setupPc \in {"fetching", "draining", "clearing", "done"}
    /\ drained \in Nat
    /\ net \in [Sources -> Seq(Message)] /\ events \in 0..MaxEvents
    /\ worker \in [Workers -> {Idle}
                    \cup [pc : {"park", "register", "allow", "time", "sum"}, msg : Message]
                    \cup [pc : {"store"}, msg : Message, value : Nat]]
    /\ order \in Seq(Sources) /\ count \in [Sources -> Nat]
    /\ allowed \in Sources \cup {None} /\ lastTime \in Nat
    /\ total \in Nat /\ counted \in [Events -> Nat] /\ sinceReset \in Nat /\ raced \in BOOLEAN
    /\ received \subseteq Message /\ handled \in [Message -> Nat] /\ late \subseteq Message
    /\ resets \in 0..MaxResets

\* Nothing is under way.
AtRest ==
    /\ setupPc = "done" /\ \A w \in Workers : ~Busy(w) /\ \A s \in Sources : net[s] = <<>>

\* However many accounts deliver an event, however often and in whatever order
\* the gate lets the copies through, its increment is added at most once.
CountedOnce == \A e \in Events : counted[e] <= 1

\* The summed state is what was added since the last reset, unless an addition
\* was under way when another one or the reset was stored (the read of the old
\* total and the write of the new one are apart).
TotalIsSum == raced \/ total = sinceReset

\* Once all is quiet every message that reached the hub was dispatched to its
\* account, except one that saw the gate shut and was parked after it opened.
NoneStranded == AtRest => {m \in received : handled[m] = 0} \subseteq late

\* The gate implements the inbox: a message is dispatched at most once.
AbstractInbox == INSTANCE Inbox WITH received <- received, dispatched <- handled
DispatchesOnce == AbstractInbox!Spec
=============================================================================
