---------------------------- MODULE AccountsProofs ----------------------------
(***************************************************************************)
(* Proofs about what the accounts of a hub share between their threads.    *)
(* Messages, for any accounts, events and copies: the gate implements the  *)
(* inbox, so a message is dispatched once at most, however the threads of  *)
(* the accounts and the drain of the queue interleave.  And the three      *)
(* whose threads share a value without a lock: the supervised MQTT client  *)
(* (MqSupervisor), the access token of an account (OpenApiToken) and the   *)
(* tracker of controllable devices (Quota).                                *)
(***************************************************************************)
EXTENDS Messages, MqSupervisor, OpenApiToken, Quota, FiniteSetTheorems, SequenceTheorems, TLAPS

-----------------------------------------------------------------------------
(* The messages.                                                           *)

(* What a broker still has to deliver is new, and told apart by its copy.  *)
Undelivered(s) ==
    /\ net[s] \in Seq(Message)
    /\ \A i \in 1..Len(net[s]) :
         /\ net[s][i].src = s /\ net[s][i].event <= events /\ net[s][i] \notin received
    /\ \A i, j \in 1..Len(net[s]) : net[s][i] = net[s][j] => i = j

(* A message that a thread is about to park is received, its own, and not  *)
(* in the queue yet.                                                       *)
Parking(s) ==
    worker[s].pc = "park" =>
      /\ worker[s].msg \in received /\ worker[s].msg.src = s
      /\ handled[worker[s].msg] = 0
      /\ \A i \in 1..Len(pending) : pending[i] # worker[s].msg

(* While the queue may still be drained, no message is in it twice, and    *)
(* what the loop has not taken yet was not dispatched.                     *)
Queued ==
    setupPc \in {"fetching", "draining"} =>
      /\ \A i \in 1..Len(pending) : drained < i => handled[pending[i]] = 0
      /\ \A i, j \in 1..Len(pending) : pending[i] = pending[j] => i = j

Work == [pc : {"idle"}] \cup [pc : {"park", "register", "allow", "time", "sum"}, msg : Message]
          \cup [pc : {"store"}, msg : Message, value : Nat]

GateTypes ==
    /\ drained \in Nat
    /\ setupPc \in {"fetching", "draining", "clearing", "done"}
    /\ setupPc = "fetching" => drained = 0
    /\ pending \in Seq(received)

HistoryTypes ==
    /\ received \subseteq Message /\ \A m \in received : m.event <= events
    /\ handled \in [Message -> {0, 1}]
    /\ \A m \in Message : m \notin received => handled[m] = 0

WorkTypes ==
    /\ events \in 0..MaxEvents /\ total \in Nat
    /\ net \in [Sources -> Seq(Message)]
    /\ worker \in [Workers -> Work] /\ worker[Setup].pc # "park"

GateInv ==
    /\ GateTypes /\ HistoryTypes /\ WorkTypes
    /\ \A s \in Sources : Undelivered(s)
    /\ \A s \in Sources : Parking(s)
    /\ Queued

-----------------------------------------------------------------------------
LEMMA GateInit == MsgInit => GateInv
<1> SUFFICES ASSUME MsgInit PROVE GateInv
  OBVIOUS
<1>1. \A w \in Workers : worker[w].pc = "idle"
  BY DEF MsgInit, Idle
<1>2. Sources \subseteq Workers /\ Setup \in Workers
  BY DEF Workers
<1>3. GateTypes
  BY DEF MsgInit, GateTypes
<1>4. HistoryTypes
  BY DEF MsgInit, HistoryTypes
<1>5. WorkTypes
  <2>1. worker \in [Workers -> Work]
    BY DEF MsgInit, Work, Idle
  <2>2. net \in [Sources -> Seq(Message)]
    BY DEF MsgInit
  <2>3. events \in 0..MaxEvents /\ total \in Nat
    BY MessagesAssumption DEF MsgInit
  <2> QED
    BY <1>1, <1>2, <2>1, <2>2, <2>3 DEF WorkTypes
<1>6. ASSUME NEW s \in Sources PROVE Undelivered(s) /\ Parking(s)
  <2>1. net[s] = <<>>
    BY DEF MsgInit
  <2> QED
    BY <1>1, <1>2, <2>1 DEF Undelivered, Parking
<1>7. Queued
  BY DEF MsgInit, Queued
<1> QED
  BY <1>3, <1>4, <1>5, <1>6, <1>7 DEF GateInv

(* A thread at work has a message.                                         *)
LEMMA AtWork ==
    ASSUME GateInv, NEW w \in Workers
    PROVE  /\ worker[w] \in Work
           /\ worker[w].pc \in {"park", "register", "allow", "time", "sum"} =>
                worker[w] \in [pc : {"park", "register", "allow", "time", "sum"}, msg : Message]
           /\ worker[w].pc = "store" =>
                worker[w] \in [pc : {"store"}, msg : Message, value : Nat]
<1>1. worker[w] \in Work
  BY DEF GateInv, WorkTypes
<1> QED
  BY <1>1 DEF Work

(* One thread moves, and does not go on to park.                           *)
LEMMA OneWorks ==
    ASSUME GateInv, NEW w \in Workers, NEW work \in Work, work.pc # "park",
           worker' = [worker EXCEPT ![w] = work]
    PROVE  /\ worker' \in [Workers -> Work] /\ worker'[Setup].pc # "park"
           /\ \A s \in Sources : worker'[s].pc = "park" => worker'[s] = worker[s]
<1>1. Sources \subseteq Workers /\ Setup \in Workers
  BY DEF Workers
<1>2. worker \in [Workers -> Work] /\ worker[Setup].pc # "park"
  BY DEF GateInv, WorkTypes
<1> QED
  BY <1>1, <1>2

(* The steps that neither deliver, park nor dispatch.                      *)
LEMMA QuietGate ==
    ASSUME GateInv, UNCHANGED <<net, events, received, handled, pending, drained>>,
           worker' \in [Workers -> Work], worker'[Setup].pc # "park",
           \A s \in Sources : worker'[s].pc = "park" => worker'[s] = worker[s],
           total' \in Nat,
           setupPc' = setupPc \/ setupPc' = "clearing" \/ setupPc' = "done"
             \/ (setupPc = "fetching" /\ setupPc' = "draining")
    PROVE  GateInv'
<1>1. GateTypes'
  BY DEF GateInv, GateTypes
<1>2. HistoryTypes'
  BY DEF GateInv, HistoryTypes
<1>3. WorkTypes'
  BY DEF GateInv, WorkTypes
<1>4. \A s \in Sources : Undelivered(s)'
  BY DEF GateInv, Undelivered
<1>5. \A s \in Sources : Parking(s)'
  BY DEF GateInv, Parking
<1>6. Queued'
  BY DEF GateInv, Queued
<1> QED
  BY <1>1, <1>2, <1>3, <1>4, <1>5, <1>6 DEF GateInv

LEMMA HandleStep ==
    ASSUME GateInv, NEW w \in Workers, Handle(w)
    PROVE  GateInv'
<1>1. total \in Nat
  BY DEF GateInv, WorkTypes
<1>2. Idle \in Work /\ Idle.pc # "park"
  BY DEF Idle, Work
<1>3. CASE Ends(w) /\ UNCHANGED <<gateVars, wireVars, total, received, handled>>
  BY <1>1, <1>2, <1>3, OneWorks, QuietGate DEF Ends, gateVars, wireVars
<1>4. ASSUME NEW pc \in {"allow", "time", "sum"}, Goes(w, pc),
             worker[w].pc \in {"register", "allow", "time"},
             UNCHANGED <<gateVars, wireVars, total, received, handled>>
      PROVE  GateInv'
  <2> DEFINE work == [worker[w] EXCEPT !.pc = pc]
  <2>1. work \in Work /\ work.pc # "park"
    BY <1>4, AtWork DEF Work
  <2>2. worker' = [worker EXCEPT ![w] = work]
    BY <1>4 DEF Goes
  <2> HIDE DEF work
  <2> QED
    BY <1>1, <1>4, <2>1, <2>2, OneWorks, QuietGate DEF gateVars, wireVars
<1>5. CASE Register(w)
  <2>1. Goes(w, "allow") /\ worker[w].pc = "register"
        /\ UNCHANGED <<gateVars, wireVars, total, received, handled>>
    BY <1>5 DEF Register, totalVars, historyVars
  <2> QED
    BY <2>1, <1>4
<1>6. CASE Allow(w)
  <2>1. (Goes(w, "time") \/ Ends(w)) /\ worker[w].pc = "allow"
        /\ UNCHANGED <<gateVars, wireVars, total, received, handled>>
    BY <1>6 DEF Allow, totalVars, historyVars
  <2> QED
    BY <2>1, <1>3, <1>4
<1>7. CASE CheckTime(w)
  <2>1. (Goes(w, "sum") \/ Ends(w)) /\ worker[w].pc = "time"
        /\ UNCHANGED <<gateVars, wireVars, total, received, handled>>
    BY <1>7 DEF CheckTime, totalVars, historyVars
  <2> QED
    BY <2>1, <1>3, <1>4
<1>8. CASE Sum(w)
  <2> DEFINE work == [pc |-> "store", msg |-> worker[w].msg, value |-> total + 1]
  <2>1. worker' = [worker EXCEPT ![w] = work] /\ worker[w].pc = "sum"
        /\ UNCHANGED <<gateVars, wireVars, total, received, handled>>
    BY <1>8 DEF Sum, totalVars, historyVars
  <2>2. work \in Work /\ work.pc # "park"
    BY <1>1, <2>1, AtWork DEF Work
  <2> HIDE DEF work
  <2> QED
    BY <1>1, <2>1, <2>2, OneWorks, QuietGate DEF gateVars, wireVars
<1>9. CASE Store(w)
  <2>1. Ends(w) /\ total' = worker[w].value /\ worker[w].pc = "store"
        /\ UNCHANGED <<gateVars, wireVars, received, handled>>
    BY <1>9 DEF Store, Storing, historyVars
  <2>2. total' \in Nat
    BY <2>1, AtWork
  <2> QED
    BY <1>2, <2>1, <2>2, OneWorks, QuietGate DEF Ends, gateVars, wireVars
<1> QED
  BY <1>5, <1>6, <1>7, <1>8, <1>9 DEF Handle

LEMMA EventOf == \A m \in Message : m.event \in Nat
  BY DEF Message, Events

(* The device reports an event later than all others: its copies are new.  *)
LEMMA ReportStep ==
    ASSUME GateInv, Report
    PROVE  GateInv'
<1>1. /\ events' = events + 1 /\ events' \in Events /\ events \in Nat /\ events' \in 0..MaxEvents
      /\ UNCHANGED <<gateVars, total, received, handled, worker>>
  BY MessagesAssumption DEF Report, GateInv, WorkTypes, Events, totalVars, historyVars
<1>2. PICK n \in [Sources -> 0..MaxCopies] :
        net' = [s \in Sources |->
                  net[s] \o [i \in 1..n[s] |-> [src |-> s, event |-> events', copy |-> i]]]
  BY DEF Report
<1>3. ASSUME NEW s \in Sources
      PROVE  Undelivered(s)' /\ net'[s] \in Seq(Message)
  <2> DEFINE copies == [i \in 1..n[s] |-> [src |-> s, event |-> events', copy |-> i]]
  <2>1. n[s] \in Nat /\ n[s] <= MaxCopies
    BY MessagesAssumption
  <2>2. \A i \in 1..n[s] : copies[i] \in Message /\ copies[i].src = s
                           /\ copies[i].event = events' /\ copies[i].copy = i
    BY <1>1, <2>1, MessagesAssumption DEF Message, Events
  <2>3. copies \in Seq(Message) /\ Len(copies) = n[s]
    BY <2>1, <2>2
  <2>4. net'[s] = net[s] \o copies
    BY <1>2
  <2> HIDE DEF copies
  <2>5. /\ net[s] \in Seq(Message)
        /\ \A i \in 1..Len(net[s]) : net[s][i].src = s /\ net[s][i].event <= events
                                     /\ net[s][i] \notin received
        /\ \A i, j \in 1..Len(net[s]) : net[s][i] = net[s][j] => i = j
    BY DEF GateInv, Undelivered
  <2>6. /\ net'[s] \in Seq(Message) /\ Len(net'[s]) = Len(net[s]) + n[s]
        /\ \A i \in 1..Len(net'[s]) :
             net'[s][i] = IF i <= Len(net[s]) THEN net[s][i] ELSE copies[i - Len(net[s])]
    <3>1. net[s] \in Seq(Message) /\ copies \in Seq(Message) /\ Len(copies) = n[s]
      BY <2>3, <2>5
    <3>2. /\ net[s] \o copies \in Seq(Message)
          /\ Len(net[s] \o copies) = Len(net[s]) + Len(copies)
          /\ \A i \in 1..(Len(net[s]) + Len(copies)) :
               (net[s] \o copies)[i] =
                 IF i <= Len(net[s]) THEN net[s][i] ELSE copies[i - Len(net[s])]
      BY <3>1, ConcatProperties, Zenon
    <3> QED
      BY <2>4, <3>1, <3>2
  <2>7. ASSUME NEW i \in 1..Len(net'[s])
        PROVE  /\ i <= Len(net[s]) => /\ i \in 1..Len(net[s]) /\ net'[s][i] = net[s][i]
                                      /\ net'[s][i].event # events'
               /\ ~(i <= Len(net[s])) => /\ i - Len(net[s]) \in 1..n[s]
                                         /\ net'[s][i] = copies[i - Len(net[s])]
    <3>1. Len(net[s]) \in Nat /\ Len(net'[s]) = Len(net[s]) + n[s] /\ i \in Nat /\ 1 <= i
          /\ i <= Len(net'[s])
      BY <2>5, <2>6
    <3>2. \A k \in 1..Len(net[s]) : net[s][k].event \in Nat
      BY <2>5, EventOf
    <3>3. i <= Len(net[s]) => i \in 1..Len(net[s])
      BY <3>1
    <3>4. i <= Len(net[s]) => net[s][i].event <= events /\ net[s][i].event \in Nat
      BY <2>5, <3>2, <3>3
    <3>5. ~(i <= Len(net[s])) => i - Len(net[s]) \in 1..n[s]
      BY <2>1, <3>1
    <3>6. i <= Len(net[s]) => net[s][i].event # events'
      BY <1>1, <3>4
    <3> QED
      BY <2>6, <3>3, <3>5, <3>6
  <2>8. ASSUME NEW i \in 1..Len(net'[s])
        PROVE  /\ net'[s][i].src = s /\ net'[s][i].event <= events' /\ net'[s][i] \notin received
    <3>1. \A m \in received : m.event <= events
      BY DEF GateInv, HistoryTypes
    <3>2. CASE i <= Len(net[s])
      <4>1. net[s][i].event \in Nat /\ net[s][i].event <= events
        BY <2>5, <2>7, <3>2, EventOf
      <4>2. /\ net'[s][i] = net[s][i]
            /\ net[s][i].src = s /\ net[s][i] \notin received
        BY <2>5, <2>7, <3>2
      <4>3. net[s][i].event <= events'
        <5>1. events \in Nat /\ events' = events + 1
          BY <1>1
        <5> QED
          BY <4>1, <5>1
      <4> QED
        BY <4>2, <4>3
    <3>3. CASE ~(i <= Len(net[s]))
      BY <1>1, <2>2, <2>7, <3>1, <3>3
    <3> QED
      BY <3>2, <3>3
  <2>9. ASSUME NEW i \in 1..Len(net'[s]), NEW j \in 1..Len(net'[s]), net'[s][i] = net'[s][j]
        PROVE  i = j
    <3>1. CASE i <= Len(net[s]) /\ j <= Len(net[s])
      BY <2>5, <2>7, <2>9, <3>1
    <3>2. CASE ~(i <= Len(net[s])) /\ ~(j <= Len(net[s]))
      <4>1. i - Len(net[s]) \in 1..n[s] /\ j - Len(net[s]) \in 1..n[s]
            /\ copies[i - Len(net[s])] = copies[j - Len(net[s])]
        BY <2>7, <2>9, <3>2
      <4>2. i - Len(net[s]) = j - Len(net[s])
        BY <2>2, <4>1
      <4> QED
        BY <2>5, <2>6, <4>2
    <3>3. CASE i <= Len(net[s]) /\ ~(j <= Len(net[s]))
      <4>1. net'[s][i].event # events' /\ net'[s][j].event = events'
        BY <2>2, <2>7, <3>3
      <4> QED
        BY <2>9, <4>1
    <3>4. CASE ~(i <= Len(net[s])) /\ j <= Len(net[s])
      <4>1. net'[s][j].event # events' /\ net'[s][i].event = events'
        BY <2>2, <2>7, <3>4
      <4> QED
        BY <2>9, <4>1
    <3> QED
      BY <3>1, <3>2, <3>3, <3>4
  <2> QED
    BY <1>1, <2>6, <2>8, <2>9 DEF Undelivered
<1>4. GateTypes' /\ Queued'
  BY <1>1 DEF GateInv, GateTypes, Queued, gateVars
<1>5. HistoryTypes'
  BY <1>1, MessagesAssumption DEF GateInv, HistoryTypes, Message, Events
<1>6. WorkTypes'
  <2>1. net' \in [Sources -> Seq(Message)]
    BY <1>2, <1>3
  <2> QED
    BY <1>1, <2>1 DEF GateInv, WorkTypes
<1>7. \A s \in Sources : Parking(s)'
  BY <1>1 DEF GateInv, Parking, gateVars
<1> QED
  BY <1>3, <1>4, <1>5, <1>6, <1>7 DEF GateInv

(* The head of what the broker holds for an account is a new message.      *)
LEMMA NewHead ==
    ASSUME GateInv, NEW s \in Sources, net[s] # <<>>
    PROVE  /\ Head(net[s]) \in Message /\ Head(net[s]).src = s
           /\ Head(net[s]) \notin received /\ handled[Head(net[s])] = 0
           /\ Head(net[s]).event <= events
           /\ Tail(net[s]) \in Seq(Message)
           /\ Len(Tail(net[s])) = Len(net[s]) - 1 /\ Len(net[s]) \in Nat
           /\ \A i \in 1..Len(Tail(net[s])) :
                /\ i + 1 \in 1..Len(net[s]) /\ Tail(net[s])[i] = net[s][i + 1]
                /\ Tail(net[s])[i] # Head(net[s])
<1>1. Undelivered(s) /\ net[s] \in Seq(Message)
  BY DEF GateInv, Undelivered
<1>2. Len(net[s]) \in Nat /\ Len(net[s]) > 0 /\ 1 \in 1..Len(net[s]) /\ Head(net[s]) = net[s][1]
  BY <1>1
<1>3. Head(net[s]) \in Message
  BY <1>1, <1>2
<1>4. /\ Tail(net[s]) \in Seq(Message) /\ Len(Tail(net[s])) = Len(net[s]) - 1
      /\ \A i \in 1..Len(Tail(net[s])) :
           i + 1 \in 1..Len(net[s]) /\ Tail(net[s])[i] = net[s][i + 1] /\ i + 1 # 1
  BY <1>1, <1>2
<1>5. \A i \in 1..Len(Tail(net[s])) : Tail(net[s])[i] # Head(net[s])
  BY <1>1, <1>2, <1>4 DEF Undelivered
<1>6. /\ Head(net[s]).src = s /\ Head(net[s]) \notin received /\ Head(net[s]).event <= events
  BY <1>1, <1>2 DEF Undelivered
<1>7. handled[Head(net[s])] = 0
  BY <1>3, <1>6 DEF GateInv, HistoryTypes
<1> QED
  BY <1>2, <1>3, <1>4, <1>5, <1>6, <1>7

LEMMA ReceiveStep ==
    ASSUME GateInv, NEW s \in Sources, Receive(s)
    PROVE  GateInv'
<1> DEFINE m == Head(net[s])
           pc == IF ready THEN "register" ELSE "park"
<1>1. /\ net[s] # <<>> /\ net' = [net EXCEPT ![s] = Tail(net[s])]
      /\ worker' = [worker EXCEPT ![s] = [pc |-> pc, msg |-> m]]
      /\ received' = received \cup {m}
      /\ handled' = IF ready THEN [handled EXCEPT ![m] = handled[m] + 1] ELSE handled
      /\ UNCHANGED <<gateVars, events, total>>
  BY DEF Receive, At, totalVars
<1>2. /\ m \in Message /\ m.src = s /\ m \notin received /\ handled[m] = 0 /\ m.event <= events
  BY <1>1, NewHead
<1>3. /\ handled' \in [Message -> {0, 1}] /\ \A q \in Message \ {m} : handled'[q] = handled[q]
      /\ ~ready => handled'[m] = 0
  BY <1>1, <1>2 DEF GateInv, HistoryTypes
<1>4. pc \in {"register", "park"} /\ (pc = "park" => ~ready)
  OBVIOUS
<1> HIDE DEF m, pc
<1>5. pending \in Seq(received) /\ \A i \in 1..Len(pending) : pending[i] \in received
  BY DEF GateInv, GateTypes
<1>6. GateTypes'
  <2>1. pending \in Seq(received')
    BY <1>1, <1>5
  <2> QED
    BY <1>1, <2>1 DEF GateInv, GateTypes, gateVars
<1>7. HistoryTypes'
  BY <1>1, <1>2, <1>3 DEF GateInv, HistoryTypes
<1>8. Sources \subseteq Workers /\ Setup \in Workers /\ s # Setup
  BY MessagesAssumption DEF Workers
<1>9. worker \in [Workers -> Work] /\ worker[Setup].pc # "park"
  BY DEF GateInv, WorkTypes
<1>10. WorkTypes'
  <2>1. [pc |-> pc, msg |-> m] \in Work
    BY <1>2, <1>4 DEF Work
  <2>2. worker' \in [Workers -> Work] /\ worker'[Setup] = worker[Setup]
    BY <1>1, <1>8, <1>9, <2>1
  <2>3. net' \in [Sources -> Seq(Message)]
    BY <1>1, NewHead DEF GateInv, WorkTypes
  <2> QED
    BY <1>1, <1>9, <2>2, <2>3 DEF GateInv, WorkTypes
<1>11. net \in [Sources -> Seq(Message)]
  BY DEF GateInv, WorkTypes
<1>12. ASSUME NEW t \in Sources PROVE Undelivered(t)'
  <2>1. Undelivered(t)
    BY DEF GateInv
  <2>2. CASE t # s
    BY <1>1, <1>2, <1>11, <2>1, <2>2 DEF Undelivered
  <2>3. CASE t = s
    <3>1. net'[s] = Tail(net[s])
      BY <1>1, <1>11
    <3>2. /\ Tail(net[s]) \in Seq(Message)
          /\ Len(Tail(net[s])) = Len(net[s]) - 1 /\ Len(net[s]) \in Nat
          /\ \A i \in 1..Len(Tail(net[s])) :
               /\ i + 1 \in 1..Len(net[s]) /\ Tail(net[s])[i] = net[s][i + 1]
               /\ Tail(net[s])[i] # m
      BY <1>1, NewHead DEF m
    <3>3. ASSUME NEW i \in 1..Len(net'[s])
          PROVE  net'[s][i].src = s /\ net'[s][i].event <= events' /\ net'[s][i] \notin received'
      <4>1. /\ i + 1 \in 1..Len(net[s]) /\ net'[s][i] = net[s][i + 1] /\ net'[s][i] # m
        BY <3>1, <3>2
      <4>2. /\ net[s][i + 1].src = s /\ net[s][i + 1].event <= events
            /\ net[s][i + 1] \notin received
        BY <2>1, <2>3, <4>1 DEF Undelivered
      <4> QED
        BY <1>1, <4>1, <4>2
    <3>4. ASSUME NEW i \in 1..Len(net'[s]), NEW j \in 1..Len(net'[s]), net'[s][i] = net'[s][j]
          PROVE  i = j
      <4>1. i + 1 = j + 1
        BY <2>1, <2>3, <3>1, <3>2, <3>4 DEF Undelivered
      <4> QED
        BY <3>1, <3>2, <4>1
    <3> QED
      BY <2>3, <3>1, <3>2, <3>3, <3>4 DEF Undelivered
  <2> QED
    BY <2>2, <2>3
<1>13. ASSUME NEW t \in Sources PROVE Parking(t)'
  <2>1. CASE t # s
    <3>1. worker'[t] = worker[t]
      BY <1>1, <1>8, <1>9, <2>1
    <3>2. worker[t].pc = "park" => worker[t].msg \in received /\ worker[t].msg # m
                                   /\ worker[t].msg \in Message
      BY <1>2 DEF GateInv, Parking, HistoryTypes
    <3> QED
      BY <1>1, <1>3, <3>1, <3>2 DEF GateInv, Parking, gateVars
  <2>2. CASE t = s
    <3>1. worker'[s] = [pc |-> pc, msg |-> m]
      BY <1>1, <1>8, <1>9
    <3>2. worker'[s].pc = pc /\ worker'[s].msg = m
      BY <3>1
    <3>3. \A i \in 1..Len(pending) : pending[i] # m
      BY <1>2, <1>5
    <3> QED
      BY <1>1, <1>2, <1>3, <1>4, <2>2, <3>2, <3>3 DEF Parking, gateVars
  <2> QED
    BY <2>1, <2>2
<1>14. Queued'
  <2>1. \A i \in 1..Len(pending) : handled'[pending[i]] = handled[pending[i]]
    BY <1>2, <1>3, <1>5 DEF GateInv, HistoryTypes
  <2> QED
    BY <1>1, <2>1 DEF GateInv, Queued, gateVars
<1> QED
  BY <1>6, <1>7, <1>10, <1>12, <1>13, <1>14 DEF GateInv

(* A message is parked behind those already in the queue.                  *)
LEMMA ParkStep ==
    ASSUME GateInv, NEW s \in Sources, Park(s)
    PROVE  GateInv'
<1> DEFINE m == worker[s].msg
<1>1. /\ worker[s].pc = "park" /\ pending' = Append(pending, m)
      /\ worker' = [worker EXCEPT ![s] = Idle]
      /\ UNCHANGED <<drained, setupPc, net, events, total, received, handled>>
  BY DEF Park, Ends, wireVars, totalVars, historyVars
<1>2. /\ m \in received /\ m.src = s /\ handled[m] = 0
      /\ \A i \in 1..Len(pending) : pending[i] # m
  BY <1>1 DEF GateInv, Parking
<1> HIDE DEF m
<1>3. pending \in Seq(received) /\ Len(pending) \in Nat
  BY DEF GateInv, GateTypes
<1>4. /\ pending' \in Seq(received) /\ Len(pending') = Len(pending) + 1
      /\ \A i \in 1..Len(pending') :
           \/ i \in 1..Len(pending) /\ pending'[i] = pending[i]
           \/ i = Len(pending) + 1 /\ pending'[i] = m
  BY <1>1, <1>2, <1>3
<1>5. /\ worker' \in [Workers -> Work] /\ worker'[Setup].pc # "park"
      /\ \A t \in Sources : worker'[t].pc = "park" => worker'[t] = worker[t] /\ t # s
  <2>1. Idle \in Work /\ Idle.pc # "park" /\ s \in Workers
    BY DEF Idle, Work, Workers
  <2>2. worker'[s] = Idle
    BY <1>1, <2>1 DEF GateInv, WorkTypes
  <2> QED
    BY <1>1, <2>1, <2>2, OneWorks
<1>6. GateTypes' /\ HistoryTypes' /\ WorkTypes'
  BY <1>1, <1>4, <1>5 DEF GateInv, GateTypes, HistoryTypes, WorkTypes
<1>7. \A t \in Sources : Undelivered(t)'
  BY <1>1 DEF GateInv, Undelivered
<1>8. ASSUME NEW t \in Sources PROVE Parking(t)'
  <2> SUFFICES ASSUME worker'[t].pc = "park"
               PROVE  /\ worker'[t].msg \in received' /\ worker'[t].msg.src = t
                      /\ handled'[worker'[t].msg] = 0
                      /\ \A i \in 1..Len(pending') : pending'[i] # worker'[t].msg
    BY DEF Parking
  <2>1. worker'[t] = worker[t] /\ t # s /\ Parking(t)
    BY <1>5 DEF GateInv
  <2>2. \A i \in 1..Len(pending') : pending'[i] # worker[t].msg
    BY <1>2, <1>4, <2>1 DEF Parking
  <2> QED
    BY <1>1, <2>1, <2>2 DEF Parking
<1>9. Queued'
  <2> SUFFICES ASSUME setupPc \in {"fetching", "draining"}
               PROVE  /\ \A i \in 1..Len(pending') : drained < i => handled[pending'[i]] = 0
                      /\ \A i, j \in 1..Len(pending') : pending'[i] = pending'[j] => i = j
    BY <1>1 DEF Queued
  <2>1. /\ \A i \in 1..Len(pending) : drained < i => handled[pending[i]] = 0
        /\ \A i, j \in 1..Len(pending) : pending[i] = pending[j] => i = j
    BY DEF GateInv, Queued
  <2> QED
    BY <1>2, <1>4, <2>1
<1> QED
  BY <1>6, <1>7, <1>8, <1>9 DEF GateInv

(* The loop dispatches the next message of the queue, for the first time.  *)
LEMMA NextParked ==
    ASSUME GateInv, setupPc = "draining", drained < Len(pending)
    PROVE  /\ drained + 1 \in 1..Len(pending) /\ pending[drained + 1] \in received
           /\ handled[pending[drained + 1]] = 0 /\ received \subseteq Message
<1>1. drained \in Nat /\ pending \in Seq(received) /\ received \subseteq Message
  BY DEF GateInv, GateTypes, HistoryTypes
<1>2. drained + 1 \in 1..Len(pending) /\ drained < drained + 1
  BY <1>1
<1> QED
  BY <1>1, <1>2 DEF GateInv, Queued

LEMMA DrainStep ==
    ASSUME GateInv, Drain
    PROVE  GateInv'
<1> DEFINE m == pending[drained + 1]
<1>1. /\ setupPc = "draining" /\ drained' = drained + 1
      /\ worker' = [worker EXCEPT ![Setup] = [pc |-> "register", msg |-> m]]
      /\ handled' = [handled EXCEPT ![m] = handled[m] + 1]
      /\ UNCHANGED <<pending, setupPc, net, events, total, received>>
  BY DEF Drain, At, wireVars, totalVars
<1>2. drained + 1 \in 1..Len(pending) /\ m \in received /\ m \in Message /\ handled[m] = 0
  BY NextParked DEF Drain
<1>3. drained \in Nat /\ pending \in Seq(received)
  BY DEF GateInv, GateTypes
<1>4. /\ handled' \in [Message -> {0, 1}] /\ \A q \in Message \ {m} : handled'[q] = handled[q]
  BY <1>1, <1>2 DEF GateInv, HistoryTypes
<1>5. GateTypes'
  BY <1>1, <1>3 DEF GateInv, GateTypes
<1>6. HistoryTypes'
  BY <1>1, <1>2, <1>4 DEF GateInv, HistoryTypes
<1>7. /\ worker' \in [Workers -> Work] /\ worker'[Setup].pc # "park"
      /\ \A t \in Sources : worker'[t].pc = "park" => worker'[t] = worker[t]
  <2> DEFINE work == [pc |-> "register", msg |-> m]
  <2>1. work \in Work /\ work.pc # "park" /\ Setup \in Workers
    BY <1>2 DEF Work, Workers
  <2>2. worker' = [worker EXCEPT ![Setup] = work]
    BY <1>1
  <2> HIDE DEF work, m
  <2> QED
    BY <2>1, <2>2, OneWorks
<1>8. WorkTypes'
  BY <1>1, <1>7 DEF GateInv, WorkTypes
<1>9. \A t \in Sources : Undelivered(t)'
  BY <1>1 DEF GateInv, Undelivered
<1>10. ASSUME NEW t \in Sources PROVE Parking(t)'
  <2> SUFFICES ASSUME worker'[t].pc = "park"
               PROVE  /\ worker'[t].msg \in received' /\ worker'[t].msg.src = t
                      /\ handled'[worker'[t].msg] = 0
                      /\ \A i \in 1..Len(pending') : pending'[i] # worker'[t].msg
    BY DEF Parking
  <2>1. worker'[t] = worker[t]
    BY <1>7
  <2>2. worker[t].msg # m /\ worker[t].msg \in Message
    BY <1>2, <2>1 DEF GateInv, Parking, HistoryTypes
  <2> QED
    BY <1>1, <1>4, <2>1, <2>2 DEF GateInv, Parking
<1>11. Queued'
  <2>1. /\ \A i \in 1..Len(pending) : drained < i => handled[pending[i]] = 0
        /\ \A i, j \in 1..Len(pending) : pending[i] = pending[j] => i = j
        /\ \A i \in 1..Len(pending) : pending[i] \in Message
    BY <1>1, <1>3 DEF GateInv, Queued, HistoryTypes
  <2>2. ASSUME NEW i \in 1..Len(pending), drained + 1 < i
        PROVE  handled'[pending[i]] = 0
    <3>1. drained < i /\ i # drained + 1
      BY <1>3, <2>2
    <3>2. pending[i] # m
      BY <1>2, <2>1, <3>1
    <3> QED
      BY <1>4, <2>1, <3>1, <3>2
  <2> QED
    BY <1>1, <2>1, <2>2 DEF Queued
<1> QED
  BY <1>5, <1>6, <1>8, <1>9, <1>10, <1>11 DEF GateInv

(* The other steps of the task: the gate opens before the loop has taken   *)
(* anything, and nothing is taken once the queue is cleared.               *)
LEMMA SetupQuiet ==
    ASSUME GateInv, Fetched \/ DrainEnds \/ Clear
    PROVE  GateInv'
<1>1. /\ worker \in [Workers -> Work] /\ worker[Setup].pc # "park" /\ total \in Nat
      /\ drained \in Nat
  BY DEF GateInv, WorkTypes, GateTypes
<1>2. CASE Fetched
  <2>1. UNCHANGED <<net, events, received, handled, pending, drained, worker, total>>
    BY <1>2 DEF Fetched, GateInv, GateTypes, wireVars, totalVars
  <2>2. setupPc = "fetching" /\ setupPc' = "draining"
    BY <1>2 DEF Fetched
  <2> QED
    BY <1>1, <2>1, <2>2, QuietGate
<1>3. CASE DrainEnds
  <2>1. UNCHANGED <<net, events, received, handled, pending, drained, worker, total>>
        /\ setupPc' = "clearing"
    BY <1>3 DEF DrainEnds, wireVars, totalVars, historyVars
  <2> QED
    BY <1>1, <2>1, QuietGate
<1>4. CASE Clear
  <2>1. /\ pending' = <<>> /\ setupPc' = "done"
        /\ UNCHANGED <<net, events, received, handled, drained, worker, total>>
    BY <1>4 DEF Clear, wireVars, totalVars, historyVars
  <2>2. GateTypes' /\ HistoryTypes' /\ WorkTypes'
    BY <1>1, <2>1 DEF GateInv, GateTypes, HistoryTypes, WorkTypes
  <2>3. \A s \in Sources : Undelivered(s)' /\ Parking(s)'
    BY <2>1 DEF GateInv, Undelivered, Parking
  <2>4. Queued'
    BY <2>1 DEF Queued
  <2> QED
    BY <2>2, <2>3, <2>4 DEF GateInv
<1> QED
  BY <1>2, <1>3, <1>4

LEMMA GateStep == GateInv /\ [MsgNext]_msgVars => GateInv'
<1> SUFFICES ASSUME GateInv, [MsgNext]_msgVars
             PROVE  GateInv'
  OBVIOUS
<1>1. /\ worker \in [Workers -> Work] /\ worker[Setup].pc # "park" /\ total \in Nat
  BY DEF GateInv, WorkTypes
<1>2. CASE Reset
  <2>1. UNCHANGED <<net, events, received, handled, pending, drained, worker, setupPc>>
        /\ total' = 0
    BY <1>2 DEF Reset, gateVars, wireVars, historyVars
  <2> QED
    BY <1>1, <2>1, QuietGate
<1>3. CASE UNCHANGED msgVars
  <2>1. UNCHANGED <<net, events, received, handled, pending, drained, worker, setupPc, total>>
    BY <1>3 DEF msgVars, gateVars, wireVars, historyVars, totalVars
  <2> QED
    BY <1>1, <2>1, QuietGate
<1> QED
  BY <1>2, <1>3, ReportStep, ReceiveStep, ParkStep, DrainStep, SetupQuiet, HandleStep
     DEF MsgNext, SetupStep

-----------------------------------------------------------------------------
(* The refinement. *)

LEMMA InboxInit == MsgInit => AbstractInbox!Init
  BY DEF MsgInit, AbstractInbox!Init

LEMMA InboxStep == GateInv /\ [MsgNext]_msgVars => [AbstractInbox!Next]_(AbstractInbox!inboxVars)
<1> SUFFICES ASSUME GateInv, MsgNext, ~UNCHANGED AbstractInbox!inboxVars
             PROVE  AbstractInbox!Next
  BY DEF msgVars, historyVars, AbstractInbox!inboxVars
<1>1. CASE \E s \in Sources : Receive(s)
  <2> PICK s \in Sources : Receive(s)
    BY <1>1
  <2> DEFINE m == Head(net[s])
  <2>1. m \in Message /\ m \notin received /\ handled[m] = 0
    BY NewHead DEF Receive
  <2>2. /\ received' = received \cup {m}
        /\ handled' = IF ready THEN [handled EXCEPT ![m] = handled[m] + 1] ELSE handled
    BY DEF Receive
  <2>3. AbstractInbox!Receive(m) \/ AbstractInbox!Pass(m)
    BY <2>1, <2>2 DEF AbstractInbox!Receive, AbstractInbox!Pass
  <2> QED
    BY <2>1, <2>3 DEF AbstractInbox!Next
<1>2. CASE Drain
  <2> DEFINE m == pending[drained + 1]
  <2>1. m \in received /\ m \in Message /\ handled[m] = 0
    BY <1>2, NextParked DEF Drain
  <2>2. handled' = [handled EXCEPT ![m] = handled[m] + 1] /\ received' = received
    BY <1>2 DEF Drain
  <2>3. AbstractInbox!Dispatch(m)
    BY <2>1, <2>2 DEF AbstractInbox!Dispatch
  <2> QED
    BY <2>1, <2>3 DEF AbstractInbox!Next
<1>3. ASSUME ~(\E s \in Sources : Receive(s)), ~Drain
      PROVE  UNCHANGED <<received, handled>>
  BY <1>3 DEF MsgNext, SetupStep, Report, Park, Fetched, DrainEnds, Clear, Handle, Register,
              Allow, CheckTime, Sum, Store, Reset, historyVars
<1> QED
  BY <1>1, <1>2, <1>3 DEF AbstractInbox!inboxVars

(* The gate implements the inbox: whichever thread sees the gate shut,     *)
(* parks late or finds it open, and whenever the task opens it and drains  *)
(* the queue, a message is dispatched at most once, and only if received.  *)
THEOREM GateImplementsInbox == MsgSpec => DispatchesOnce
<1> QED
  BY GateInit, GateStep, InboxInit, InboxStep, PTL
     DEF MsgSpec, DispatchesOnce, AbstractInbox!Spec

-----------------------------------------------------------------------------
(* The sum. *)

(* An increment that a thread sums is not after the time of the last one   *)
(* let through, was not counted and is summed by that thread only.         *)
Summing(w) == worker[w].pc \in {"sum", "store"}

OnceInv ==
    /\ lastTime \in Nat /\ counted \in [Events -> {0, 1}]
    /\ \A e \in Events : counted[e] = 1 => Second(e) <= lastTime
    /\ \A w \in Workers : Summing(w) =>
         Second(worker[w].msg.event) <= lastTime /\ counted[worker[w].msg.event] = 0
    /\ \A v, w \in Workers :
         Summing(v) /\ Summing(w) /\ worker[v].msg.event = worker[w].msg.event => v = w

(* Until something races, the state is the sum and every addition under    *)
(* way was computed from it.                                               *)
SumInv ==
    raced \/ /\ total \in Nat /\ total = sinceReset
             /\ \A w \in Workers : Storing(w) => worker[w].value = total + 1

SummedInv == GateInv /\ OnceInv /\ SumInv

LEMMA SecondIsNat == \A e \in Events : Second(e) \in Nat
  BY MessagesAssumption, SMTT(20) DEF Second, Events

LEMMA EventOfWork ==
    ASSUME GateInv, NEW w \in Workers, worker[w].pc # "idle"
    PROVE  worker[w].msg \in Message /\ worker[w].msg.event \in Events
<1>1. worker[w].msg \in Message
  BY DEF GateInv, WorkTypes, Work
<1> QED
  BY <1>1 DEF Message

(* No thread starts to sum, and the counts stay.                           *)
LEMMA OnceKept ==
    ASSUME OnceInv, UNCHANGED <<counted, lastTime>>,
           \A w \in Workers : Summing(w)' => Summing(w) /\ worker'[w].msg = worker[w].msg
    PROVE  OnceInv'
  BY DEF OnceInv, Summing

LEMMA SumKept ==
    ASSUME SumInv, UNCHANGED <<total, sinceReset, raced>>,
           \A w \in Workers : Storing(w)' => Storing(w) /\ worker'[w].value = worker[w].value
    PROVE  SumInv'
  BY DEF SumInv, Storing

LEMMA WorkerGoes ==
    ASSUME GateInv, NEW w \in Workers, worker[w].pc # "idle", NEW pc, Goes(w, pc)
    PROVE  /\ worker'[w].pc = pc /\ worker'[w].msg = worker[w].msg
           /\ \A v \in Workers \ {w} : worker'[v] = worker[v]
<1>1. worker \in [Workers -> Work] /\ worker[w] \in Work
  BY DEF GateInv, WorkTypes
<1>2. worker' = [worker EXCEPT ![w] = [worker[w] EXCEPT !.pc = pc]]
  BY DEF Goes
<1>3. worker'[w] = [worker[w] EXCEPT !.pc = pc]
  BY <1>1, <1>2
<1> QED
  BY <1>1, <1>2, <1>3 DEF Work

LEMMA WorkerEnds ==
    ASSUME GateInv, NEW w \in Workers, Ends(w)
    PROVE  /\ worker'[w].pc = "idle"
           /\ \A v \in Workers \ {w} : worker'[v] = worker[v]
  BY DEF GateInv, WorkTypes, Ends, Idle

(* The steps outside the sum.                                              *)
LEMMA OutsideSum ==
    ASSUME GateInv, MsgNext,
           ~(\E w \in Workers : CheckTime(w) \/ Sum(w) \/ Store(w)), ~Reset
    PROVE  /\ UNCHANGED <<counted, lastTime, total, sinceReset, raced>>
           /\ \A w \in Workers : Summing(w)' => worker'[w] = worker[w]
<1>1. CASE Report \/ Fetched \/ DrainEnds \/ Clear
  BY <1>1 DEF Report, Fetched, DrainEnds, Clear, totalVars, sourceVars
<1>2. ASSUME NEW s \in Sources, Receive(s)
      PROVE  /\ UNCHANGED <<counted, lastTime, total, sinceReset, raced>>
             /\ \A w \in Workers : Summing(w)' => worker'[w] = worker[w]
  <2>1. worker' = [worker EXCEPT ![s] = At(IF ready THEN "register" ELSE "park", Head(net[s]))]
        /\ UNCHANGED <<counted, lastTime, total, sinceReset, raced>>
    BY <1>2 DEF Receive, totalVars, sourceVars
  <2>2. s \in Workers
    BY DEF Workers
  <2>3. worker'[s].pc \in {"register", "park"} /\ \A w \in Workers \ {s} : worker'[w] = worker[w]
    BY <2>1, <2>2 DEF GateInv, WorkTypes, At
  <2> QED
    BY <2>1, <2>3 DEF Summing
<1>3. ASSUME NEW s \in Sources, Park(s)
      PROVE  /\ UNCHANGED <<counted, lastTime, total, sinceReset, raced>>
             /\ \A w \in Workers : Summing(w)' => worker'[w] = worker[w]
  <2>1. s \in Workers
    BY DEF Workers
  <2> QED
    BY <1>3, <2>1, WorkerEnds DEF Park, Summing, totalVars, sourceVars
<1>4. CASE Drain
  <2>1. worker' = [worker EXCEPT ![Setup] = At("register", pending[drained + 1])]
        /\ UNCHANGED <<counted, lastTime, total, sinceReset, raced>>
    BY <1>4 DEF Drain, totalVars, sourceVars
  <2>2. Setup \in Workers
    BY DEF Workers
  <2>3. worker'[Setup].pc = "register" /\ \A w \in Workers \ {Setup} : worker'[w] = worker[w]
    BY <2>1, <2>2 DEF GateInv, WorkTypes, At
  <2> QED
    BY <2>1, <2>3 DEF Summing
<1>5. ASSUME NEW w \in Workers, Register(w)
      PROVE  /\ UNCHANGED <<counted, lastTime, total, sinceReset, raced>>
             /\ \A v \in Workers : Summing(v)' => worker'[v] = worker[v]
  BY <1>5, WorkerGoes DEF Register, Summing, totalVars
<1>6. ASSUME NEW w \in Workers, Allow(w)
      PROVE  /\ UNCHANGED <<counted, lastTime, total, sinceReset, raced>>
             /\ \A v \in Workers : Summing(v)' => worker'[v] = worker[v]
  <2>1. worker'[w].pc \in {"time", "idle"} /\ \A v \in Workers \ {w} : worker'[v] = worker[v]
    BY <1>6, WorkerGoes, WorkerEnds DEF Allow
  <2> QED
    BY <1>6, <2>1 DEF Allow, Summing, totalVars
<1> QED
  BY <1>1, <1>2, <1>3, <1>4, <1>5, <1>6 DEF MsgNext, SetupStep, Handle

(* Only a report that is later than the last one let through is summed.    *)
LEMMA CheckTimeStep ==
    ASSUME SummedInv, NEW w \in Workers, CheckTime(w)
    PROVE  OnceInv' /\ SumInv'
<1> DEFINE e == worker[w].msg.event
<1>1. GateInv /\ worker[w].pc = "time" /\ e \in Events /\ Second(e) \in Nat
  BY EventOfWork, SecondIsNat DEF SummedInv, CheckTime
<1>2. UNCHANGED <<counted, total, sinceReset, raced>>
  BY DEF CheckTime, totalVars
<1>3. ~Summing(w)
  BY <1>1 DEF Summing
<1>4. CASE ~Newer(e)
  <2>1. UNCHANGED lastTime /\ worker'[w].pc = "idle"
        /\ \A v \in Workers \ {w} : worker'[v] = worker[v]
    BY <1>1, <1>4, WorkerEnds DEF CheckTime
  <2> QED
    BY <1>2, <2>1, OnceKept, SumKept DEF Summing, Storing, SummedInv
<1>5. CASE Newer(e)
  <2>1. /\ lastTime' = Second(e) /\ Second(e) > lastTime
        /\ worker'[w].pc = "sum" /\ worker'[w].msg = worker[w].msg
        /\ \A v \in Workers \ {w} : worker'[v] = worker[v]
    BY <1>1, <1>5, WorkerGoes DEF CheckTime, Newer
  <2> HIDE DEF e
  <2>2. /\ lastTime \in Nat /\ counted \in [Events -> {0, 1}]
        /\ \A f \in Events : counted[f] = 1 => Second(f) <= lastTime
        /\ \A v \in Workers : Summing(v) =>
             /\ worker[v].msg.event \in Events
             /\ Second(worker[v].msg.event) <= lastTime /\ counted[worker[v].msg.event] = 0
    BY <1>1, EventOfWork DEF SummedInv, OnceInv, Summing
  <2>3. counted[e] = 0
    BY <1>1, <2>1, <2>2
  <2>4. \A v \in Workers \ {w} : Summing(v)' => Summing(v) /\ worker[v].msg.event # e
    BY <1>1, <2>1, <2>2 DEF Summing
  <2>5. \A f \in Events : counted[f] = 1 => Second(f) <= lastTime'
    BY <1>1, <2>1, <2>2, SecondIsNat
  <2>6. \A v \in Workers : Summing(v)' =>
          Second(worker'[v].msg.event) <= lastTime' /\ counted[worker'[v].msg.event] = 0
    <3>1. ASSUME NEW v \in Workers \ {w}, Summing(v)'
          PROVE  Second(worker'[v].msg.event) <= lastTime' /\ counted[worker'[v].msg.event] = 0
      <4>1. worker'[v] = worker[v] /\ Summing(v)
        BY <2>1, <3>1 DEF Summing
      <4>2. Second(worker[v].msg.event) \in Nat
        BY <2>2, <4>1, SecondIsNat
      <4> QED
        BY <1>1, <2>1, <2>2, <4>1, <4>2
    <3>2. worker'[w].msg.event = e
      BY <2>1 DEF e
    <3> QED
      BY <1>1, <2>1, <2>3, <3>1, <3>2
  <2>7. \A u, v \in Workers :
          Summing(u)' /\ Summing(v)' /\ worker'[u].msg.event = worker'[v].msg.event => u = v
    <3>1. worker'[w].msg.event = e
      BY <2>1 DEF e
    <3> QED
      BY <2>1, <2>4, <3>1 DEF SummedInv, OnceInv, Summing
  <2>8. OnceInv'
    BY <1>1, <1>2, <2>1, <2>2, <2>5, <2>6, <2>7 DEF OnceInv
  <2>9. SumInv'
    BY <1>2, <2>1, SumKept DEF SummedInv, Storing
  <2> QED
    BY <2>8, <2>9
<1> QED
  BY <1>4, <1>5

LEMMA SumStep ==
    ASSUME SummedInv, NEW w \in Workers, Sum(w)
    PROVE  OnceInv' /\ SumInv'
<1>1. /\ worker' = [worker EXCEPT ![w] = [pc |-> "store", msg |-> worker[w].msg,
                                          value |-> total + 1]]
      /\ worker[w].pc = "sum"
      /\ UNCHANGED <<counted, lastTime, total, sinceReset, raced>>
  BY DEF Sum, totalVars, sourceVars
<1>2. worker \in [Workers -> Work]
  BY DEF SummedInv, GateInv, WorkTypes
<1>3. /\ worker'[w].pc = "store" /\ worker'[w].msg = worker[w].msg
      /\ worker'[w].value = total + 1
      /\ \A v \in Workers \ {w} : worker'[v] = worker[v]
  BY <1>1, <1>2
<1>4. OnceInv'
  BY <1>1, <1>3, OnceKept DEF SummedInv, Summing
<1>5. SumInv'
  BY <1>1, <1>3 DEF SummedInv, SumInv, Storing
<1> QED
  BY <1>4, <1>5

LEMMA StoreStep ==
    ASSUME SummedInv, NEW w \in Workers, Store(w)
    PROVE  OnceInv' /\ SumInv'
<1> DEFINE e == worker[w].msg.event
<1>1. GateInv /\ worker[w].pc = "store" /\ e \in Events
  BY EventOfWork DEF SummedInv, Store, Storing
<1>2. /\ total' = worker[w].value /\ counted' = [counted EXCEPT ![e] = counted[e] + 1]
      /\ sinceReset' = sinceReset + 1 /\ UNCHANGED lastTime
      /\ raced' = (raced \/ \E v \in Workers \ {w} : Storing(v))
  BY DEF Store, sourceVars
<1>3. worker'[w].pc = "idle" /\ \A v \in Workers \ {w} : worker'[v] = worker[v]
  BY <1>1, WorkerEnds DEF Store
<1>4. OnceInv'
  <2>1. Summing(w) /\ counted[e] = 0 /\ Second(e) <= lastTime
    BY <1>1 DEF SummedInv, OnceInv, Summing
  <2> HIDE DEF e
  <2>2. counted' \in [Events -> {0, 1}] /\ counted'[e] = 1
        /\ \A f \in Events \ {e} : counted'[f] = counted[f]
    BY <1>1, <1>2, <2>1 DEF SummedInv, OnceInv
  <2>3. \A v \in Workers : Summing(v)' => /\ v # w /\ Summing(v) /\ worker'[v] = worker[v]
                                          /\ worker[v].msg.event \in Events \ {e}
    <3> SUFFICES ASSUME NEW v \in Workers, Summing(v)'
                 PROVE  /\ v # w /\ Summing(v) /\ worker'[v] = worker[v]
                        /\ worker[v].msg.event \in Events \ {e}
      OBVIOUS
    <3>1. v # w /\ Summing(v) /\ worker'[v] = worker[v]
      BY <1>3 DEF Summing
    <3>2. worker[v].msg.event \in Events
      BY <1>1, <3>1, EventOfWork DEF Summing
    <3>3. worker[v].msg.event # e
      BY <2>1, <3>1 DEF SummedInv, OnceInv, e
    <3> QED
      BY <3>1, <3>2, <3>3
  <2>4. \A f \in Events : counted'[f] = 1 => Second(f) <= lastTime
    BY <1>1, <2>1, <2>2 DEF SummedInv, OnceInv
  <2>5. /\ \A v \in Workers : Summing(v)' =>
             Second(worker'[v].msg.event) <= lastTime /\ counted'[worker'[v].msg.event] = 0
        /\ \A u, v \in Workers :
             Summing(u)' /\ Summing(v)' /\ worker'[u].msg.event = worker'[v].msg.event => u = v
    BY <2>2, <2>3 DEF SummedInv, OnceInv
  <2> QED
    BY <1>2, <2>2, <2>4, <2>5 DEF SummedInv, OnceInv
<1>5. SumInv'
  <2> SUFFICES ASSUME ~raced'
               PROVE  /\ total' \in Nat /\ total' = sinceReset'
                      /\ \A v \in Workers : Storing(v)' => worker'[v].value = total' + 1
    BY DEF SumInv
  <2>1. ~raced /\ \A v \in Workers \ {w} : ~Storing(v)
    BY <1>2
  <2>2. total \in Nat /\ total = sinceReset /\ worker[w].value = total + 1
    BY <1>1, <2>1 DEF SummedInv, SumInv, Storing
  <2>3. \A v \in Workers : ~Storing(v)'
    BY <1>3, <2>1 DEF Storing
  <2> QED
    BY <1>2, <2>2, <2>3
<1> QED
  BY <1>4, <1>5

LEMMA ResetStep ==
    ASSUME SummedInv, Reset
    PROVE  OnceInv' /\ SumInv'
<1>1. /\ total' = 0 /\ sinceReset' = 0 /\ UNCHANGED <<counted, lastTime, worker>>
      /\ raced' = (raced \/ \E v \in Workers : Storing(v))
  BY DEF Reset, sourceVars
<1>2. OnceInv'
  BY <1>1, OnceKept DEF SummedInv, Summing
<1>3. SumInv'
  BY <1>1 DEF SumInv, Storing
<1> QED
  BY <1>2, <1>3

LEMMA SummedStep == SummedInv /\ [MsgNext]_msgVars => SummedInv'
<1> SUFFICES ASSUME SummedInv, [MsgNext]_msgVars
             PROVE  OnceInv' /\ SumInv'
  BY GateStep DEF SummedInv
<1>1. CASE UNCHANGED msgVars
  <2>1. UNCHANGED <<counted, lastTime, total, sinceReset, raced, worker>>
    BY <1>1 DEF msgVars, totalVars, sourceVars
  <2> QED
    BY <2>1, OnceKept, SumKept DEF SummedInv, Summing, Storing
<1>2. CASE MsgNext /\ ~(\E w \in Workers : CheckTime(w) \/ Sum(w) \/ Store(w)) /\ ~Reset
  <2>1. /\ UNCHANGED <<counted, lastTime, total, sinceReset, raced>>
        /\ \A w \in Workers : Summing(w)' => worker'[w] = worker[w]
    BY <1>2, OutsideSum DEF SummedInv
  <2> QED
    BY <2>1, OnceKept, SumKept DEF SummedInv, Summing, Storing
<1> QED
  BY <1>1, <1>2, CheckTimeStep, SumStep, StoreStep, ResetStep

LEMMA SummedInit == MsgInit => SummedInv
<1> SUFFICES ASSUME MsgInit PROVE OnceInv /\ SumInv
  BY GateInit DEF SummedInv
<1>1. \A w \in Workers : worker[w].pc = "idle"
  BY DEF MsgInit, Idle
<1> QED
  BY <1>1 DEF MsgInit, OnceInv, SumInv, Summing, Storing

(* However many accounts deliver an event, in however many copies and in   *)
(* whatever order, its increment is added once at most: the check of the   *)
(* time lets no event through twice.                                       *)
THEOREM IncrementsCountOnce == MsgSpec => []CountedOnce
<1>1. SummedInv => CountedOnce
  BY DEF SummedInv, OnceInv, CountedOnce
<1> QED
  BY <1>1, SummedInit, SummedStep, PTL DEF MsgSpec

(* The summed state is what was added since the last reset, as long as no  *)
(* addition was stored, and no reset done, while another was under way.    *)
THEOREM TotalIsTheSum == MsgSpec => []TotalIsSum
<1>1. SummedInv => TotalIsSum
  BY DEF SummedInv, SumInv, TotalIsSum
<1> QED
  BY <1>1, SummedInit, SummedStep, PTL DEF MsgSpec
-----------------------------------------------------------------------------
(* No message is left behind. *)

(* A message that nobody dispatched yet is on its way: a thread is about   *)
(* to park it while the cache is still fetched, or the loop has still to   *)
(* take it from the queue.                                                 *)
Waiting(m) ==
    /\ setupPc = "fetching"
    /\ \E s \in Sources : worker[s].pc = "park" /\ worker[s].msg = m
InQueue(m) ==
    /\ setupPc \in {"fetching", "draining"}
    /\ \E i \in 1..Len(pending) : drained < i /\ pending[i] = m

OnTheWay == \A m \in received : handled[m] = 0 => m \in late \/ Waiting(m) \/ InQueue(m)

StrandInv == GateInv /\ (ready <=> setupPc # "fetching") /\ OnTheWay

LEMMA StrandInit == MsgInit => StrandInv
  BY GateInit DEF MsgInit, StrandInv, OnTheWay

(* A step that leaves the gate and its histories alone and lets the        *)
(* threads go on that are about to park.                                   *)
LEMMA WayKept ==
    ASSUME OnTheWay, UNCHANGED <<received, handled, late, pending, drained, setupPc>>,
           \A s \in Sources : worker[s].pc = "park" => worker'[s] = worker[s]
    PROVE  OnTheWay'
<1> SUFFICES ASSUME NEW m \in received, handled[m] = 0
             PROVE  m \in late \/ Waiting(m)' \/ InQueue(m)'
  BY DEF OnTheWay
<1>1. CASE Waiting(m)
  BY <1>1 DEF Waiting
<1>2. CASE InQueue(m)
  BY <1>2 DEF InQueue
<1> QED
  BY <1>1, <1>2 DEF OnTheWay

(* A thread receives a message: it dispatches it, or is about to park it.  *)
LEMMA StrandReceive ==
    ASSUME StrandInv, NEW s \in Sources, Receive(s)
    PROVE  OnTheWay'
<1> DEFINE m == Head(net[s])
<1>1. /\ worker[s].pc = "idle"
      /\ worker' = [worker EXCEPT ![s] = [pc |-> IF ready THEN "register" ELSE "park", msg |-> m]]
      /\ received' = received \cup {m}
      /\ handled' = IF ready THEN [handled EXCEPT ![m] = handled[m] + 1] ELSE handled
      /\ UNCHANGED <<pending, drained, setupPc, late>>
  BY DEF Receive, At, Busy, gateVars
<1>2. m \in Message /\ m \notin received /\ handled[m] = 0
  BY NewHead DEF Receive, StrandInv
<1> HIDE DEF m
<1>3. handled \in [Message -> {0, 1}] /\ received \subseteq Message
      /\ worker \in [Workers -> Work] /\ Sources \subseteq Workers
  BY DEF StrandInv, GateInv, HistoryTypes, WorkTypes, Workers
<1> SUFFICES ASSUME NEW q \in received', handled'[q] = 0
             PROVE  q \in late' \/ Waiting(q)' \/ InQueue(q)'
  BY DEF OnTheWay
<1>4. CASE q = m
  <2>1. ~ready
    BY <1>1, <1>2, <1>3, <1>4
  <2>2. worker'[s].pc = "park" /\ worker'[s].msg = m /\ setupPc' = "fetching"
    BY <1>1, <1>3, <2>1 DEF StrandInv
  <2> QED
    BY <1>4, <2>2 DEF Waiting
<1>5. CASE q # m
  <2>1. q \in received /\ handled[q] = 0
    BY <1>1, <1>2, <1>3, <1>5
  <2>2. CASE Waiting(q)
    <3>1. PICK t \in Sources : worker[t].pc = "park" /\ worker[t].msg = q
      BY <2>2 DEF Waiting
    <3>2. worker'[t] = worker[t]
      BY <1>1, <1>3, <3>1
    <3> QED
      BY <1>1, <2>2, <3>1, <3>2 DEF Waiting
  <2>3. CASE InQueue(q)
    BY <1>1, <2>3 DEF InQueue
  <2> QED
    BY <1>1, <2>1, <2>2, <2>3 DEF StrandInv, OnTheWay
<1> QED
  BY <1>4, <1>5

(* A parked message stands behind all that the loop has taken.             *)
LEMMA StrandPark ==
    ASSUME StrandInv, NEW s \in Sources, Park(s)
    PROVE  OnTheWay'
<1> DEFINE m == worker[s].msg
<1>1. /\ worker[s].pc = "park" /\ pending' = Append(pending, m)
      /\ worker' = [worker EXCEPT ![s] = Idle]
      /\ UNCHANGED <<drained, setupPc, received, handled, late>>
  BY DEF Park, Ends, historyVars
<1> HIDE DEF m
<1>2. /\ pending \in Seq(received) /\ Len(pending) \in Nat /\ drained \in Nat
      /\ setupPc = "fetching" => drained = 0
      /\ worker \in [Workers -> Work] /\ Sources \subseteq Workers
  BY DEF StrandInv, GateInv, GateTypes, WorkTypes, Workers
<1>3. m \in received
  BY <1>1 DEF StrandInv, GateInv, Parking, m
<1>4. /\ Len(pending') = Len(pending) + 1 /\ pending'[Len(pending) + 1] = m
      /\ \A i \in 1..Len(pending) : i \in 1..Len(pending') /\ pending'[i] = pending[i]
      /\ Len(pending) + 1 \in 1..Len(pending')
  BY <1>1, <1>2, <1>3
<1> SUFFICES ASSUME NEW q \in received, handled[q] = 0
             PROVE  q \in late \/ Waiting(q)' \/ InQueue(q)'
  BY <1>1 DEF OnTheWay
<1>5. CASE InQueue(q)
  BY <1>1, <1>4, <1>5 DEF InQueue
<1>6. CASE Waiting(q) /\ q = m
  <2>1. setupPc' = "fetching" /\ drained' < Len(pending) + 1
    BY <1>1, <1>2, <1>6 DEF Waiting
  <2> QED
    BY <1>4, <1>6, <2>1 DEF InQueue
<1>7. CASE Waiting(q) /\ q # m
  <2>1. PICK t \in Sources : worker[t].pc = "park" /\ worker[t].msg = q
    BY <1>7 DEF Waiting
  <2>2. worker'[t] = worker[t]
    BY <1>1, <1>2, <1>7, <2>1 DEF m
  <2> QED
    BY <1>1, <1>7, <2>1, <2>2 DEF Waiting
<1> QED
  BY <1>5, <1>6, <1>7 DEF StrandInv, OnTheWay

(* The gate opens: who was about to park is late from here on.             *)
LEMMA StrandFetched ==
    ASSUME StrandInv, Fetched
    PROVE  OnTheWay'
<1>1. /\ setupPc = "fetching" /\ setupPc' = "draining" /\ drained' = 0
      /\ late' = late \cup {worker[s].msg : s \in {t \in Sources : worker[t].pc = "park"}}
      /\ UNCHANGED <<received, handled, pending>>
  BY DEF Fetched
<1> SUFFICES ASSUME NEW q \in received, handled[q] = 0
             PROVE  q \in late' \/ InQueue(q)'
  BY <1>1 DEF OnTheWay
<1>2. CASE Waiting(q)
  BY <1>1, <1>2 DEF Waiting
<1>3. CASE InQueue(q)
  BY <1>1, <1>3 DEF InQueue, StrandInv, GateInv, GateTypes
<1> QED
  BY <1>1, <1>2, <1>3 DEF StrandInv, OnTheWay

(* The loop takes the next message and dispatches it.                      *)
LEMMA StrandDrain ==
    ASSUME StrandInv, Drain
    PROVE  OnTheWay'
<1> DEFINE m == pending[drained + 1]
<1>1. /\ setupPc = "draining" /\ drained' = drained + 1 /\ drained < Len(pending)
      /\ handled' = [handled EXCEPT ![m] = handled[m] + 1]
      /\ UNCHANGED <<received, late, pending, setupPc>>
  BY DEF Drain
<1>2. m \in Message /\ handled[m] = 0
  BY <1>1, NextParked DEF StrandInv
<1>3. drained \in Nat /\ handled \in [Message -> {0, 1}] /\ received \subseteq Message
      /\ Len(pending) \in Nat
  BY DEF StrandInv, GateInv, GateTypes, HistoryTypes
<1> SUFFICES ASSUME NEW q \in received, handled'[q] = 0
             PROVE  q \in late \/ InQueue(q)'
  BY <1>1 DEF OnTheWay
<1>4. q # m /\ handled[q] = 0
  <2> HIDE DEF m
  <2> QED
    BY <1>1, <1>2, <1>3
<1>5. ~Waiting(q)
  BY <1>1 DEF Waiting
<1>6. CASE InQueue(q)
  <2>1. PICK i \in 1..Len(pending) : drained < i /\ pending[i] = q
    BY <1>6 DEF InQueue
  <2>2. i # drained + 1 /\ i \in Nat
    BY <1>4, <2>1
  <2>3. drained' < i
    BY <1>1, <1>3, <2>1, <2>2
  <2> QED
    BY <1>1, <2>1, <2>3 DEF InQueue
<1> QED
  BY <1>4, <1>5, <1>6 DEF StrandInv, OnTheWay

(* The loop ends with nothing left to take.                                *)
LEMMA StrandEnds ==
    ASSUME StrandInv, DrainEnds \/ Clear
    PROVE  OnTheWay'
<1>1. UNCHANGED <<received, handled, late>> /\ setupPc # "fetching"
  BY DEF DrainEnds, Clear, historyVars
<1>2. \A q \in received : ~Waiting(q)
  BY <1>1 DEF Waiting
<1>3. \A q \in received : ~InQueue(q)
  <2>1. CASE DrainEnds
    BY <2>1 DEF DrainEnds, InQueue, StrandInv, GateInv, GateTypes
  <2>2. CASE Clear
    BY <2>2 DEF Clear, InQueue
  <2> QED
    BY <2>1, <2>2
<1> QED
  BY <1>1, <1>2, <1>3 DEF StrandInv, OnTheWay

LEMMA StrandStep == StrandInv /\ [MsgNext]_msgVars => StrandInv'
<1> SUFFICES ASSUME StrandInv, [MsgNext]_msgVars
             PROVE  StrandInv'
  OBVIOUS
<1>1. GateInv'
  BY GateStep DEF StrandInv
<1>2. (ready <=> setupPc # "fetching")'
  <2>1. CASE Fetched \/ DrainEnds \/ Clear
    BY <2>1 DEF Fetched, DrainEnds, Clear, StrandInv
  <2>2. CASE ~(Fetched \/ DrainEnds \/ Clear)
    <3>1. UNCHANGED <<ready, setupPc>>
      BY <2>2 DEF MsgNext, SetupStep, Report, Receive, Park, Drain, Handle, Register, Allow,
                  CheckTime, Sum, Store, Reset, gateVars, msgVars
    <3> QED
      BY <3>1 DEF StrandInv
  <2> QED
    BY <2>1, <2>2
<1>3. OnTheWay'
  <2>1. CASE Report \/ Reset \/ UNCHANGED msgVars
    <3>1. UNCHANGED <<received, handled, late, pending, drained, setupPc, worker>>
      BY <2>1 DEF Report, Reset, msgVars, gateVars, historyVars
    <3> QED
      BY <3>1, WayKept DEF StrandInv
  <2>2. ASSUME NEW w \in Workers, Handle(w) PROVE OnTheWay'
    <3>1. UNCHANGED <<received, handled, late, pending, drained, setupPc>>
          /\ worker[w].pc # "park" /\ \E x : worker' = [worker EXCEPT ![w] = x]
      BY <2>2 DEF Handle, Register, Allow, CheckTime, Sum, Store, Storing, Goes, Ends, gateVars,
                  historyVars
    <3>2. worker \in [Workers -> Work] /\ Sources \subseteq Workers
      BY DEF StrandInv, GateInv, WorkTypes, Workers
    <3>3. \A s \in Sources : worker[s].pc = "park" => worker'[s] = worker[s]
      BY <3>1, <3>2
    <3> QED
      BY <3>1, <3>3, WayKept DEF StrandInv
  <2> QED
    BY <2>1, <2>2, StrandReceive, StrandPark, StrandFetched, StrandDrain, StrandEnds
       DEF MsgNext, SetupStep
<1> QED
  BY <1>1, <1>2, <1>3 DEF StrandInv

(* However the accounts' threads interleave with the task that opens the   *)
(* gate and drains the queue: when all is quiet a received message was     *)
(* dispatched, unless its thread had seen the gate shut and had not parked *)
(* it when the gate opened.                                                *)
THEOREM NoMessageStranded == MsgSpec => []NoneStranded
<1>1. StrandInv => NoneStranded
  BY DEF StrandInv, OnTheWay, Waiting, InQueue, NoneStranded, AtRest
<1> QED
  BY <1>1, StrandInit, StrandStep, PTL DEF MsgSpec

-----------------------------------------------------------------------------
(* The supervisor, for every number of streams, failures and bits of trouble.*)

(* Only the newest stream, which is the current one, is listened to.  A    *)
(* refresh works on that stream, has silenced it before it makes the next  *)
(* one, and no other refresh can have made one meanwhile.                  *)
RefreshTypeOK == refresh \in [pc : {"idle", "stop", "joining", "new"}, stream : Streams]

OnlyCurrent ==
    /\ made \in Streams /\ current = made
    /\ listening \in [Streams -> BOOLEAN]
    /\ \A i \in Streams : listening[i] => i = current

RefreshInStep ==
    /\ refresh.pc # "idle" => refresh.stream = current /\ made < MaxStreams
    /\ refresh.pc = "new" => ~listening[current]

Sole == RefreshTypeOK /\ OnlyCurrent /\ RefreshInStep

-----------------------------------------------------------------------------
LEMMA SoleInit == MqInit => Sole
<1> SUFFICES ASSUME MqInit PROVE Sole
  OBVIOUS
<1>1. 1 \in Streams
  BY MqAssumption DEF Streams
<1>2. RefreshTypeOK /\ RefreshInStep
  BY <1>1 DEF MqInit, RefreshTypeOK, RefreshInStep, NoRefresh
<1>3. OnlyCurrent
  BY <1>1 DEF MqInit, OnlyCurrent
<1> QED
  BY <1>2, <1>3 DEF Sole

(* A stop silences its stream and no other.                                *)
LEMMA StoppedSilences ==
    ASSUME Sole, NEW i \in Streams, Stopped(i),
           current' = current, made' = made
    PROVE  /\ OnlyCurrent'
           /\ ~listening'[i] /\ (~listening[current] => ~listening'[current])
  BY DEF Sole, OnlyCurrent, Stopped

(* The steps that leave the listeners and the refresh alone.               *)
LEMMA SoleKept ==
    ASSUME Sole, UNCHANGED <<current, made, listening, refresh>>
    PROVE  Sole'
  BY DEF Sole, RefreshTypeOK, OnlyCurrent, RefreshInStep

(* A stop that is not the refresh's leaves the refresh where it is.        *)
LEMMA SoleStopped ==
    ASSUME Sole, NEW i \in Streams, Stopped(i), UNCHANGED <<current, made, refresh>>
    PROVE  Sole'
<1>1. OnlyCurrent' /\ (~listening[current] => ~listening'[current])
  BY StoppedSilences
<1> QED
  BY <1>1 DEF Sole, RefreshTypeOK, RefreshInStep

LEMMA SoleStep == Sole /\ [MqNext]_mqVars => Sole'
<1> SUFFICES ASSUME Sole, [MqNext]_mqVars
             PROVE  Sole'
  OBVIOUS
<1>1. ASSUME NEW i \in Streams, ThreadStep(i)
      PROVE  Sole'
  <2>1. CASE Loop(i) \/ Check(i) \/ GetConfig(i) \/ DropClient(i) \/ Connect(i) \/ Failed(i)
               \/ GiveUp(i)
    BY <2>1, SoleKept DEF Loop, Check, GetConfig, DropClient, Connect, Failed, GiveUp
  <2>2. CASE GaveUp(i)
    BY <2>2, SoleStopped DEF GaveUp
  <2> QED
    BY <1>1, <2>1, <2>2 DEF ThreadStep
<1>2. ASSUME NEW i \in Streams, NetworkStep(i)
      PROVE  Sole'
  <2>1. CASE NetworkStops(i)
    BY <2>1, SoleStopped DEF NetworkStops
  <2>2. CASE Regain(i)
    BY <2>2, SoleKept DEF Regain
  <2> QED
    BY <1>2, <2>1, <2>2 DEF NetworkStep
<1>3. ASSUME NEW i \in Streams, Troubles(i)
      PROVE  Sole'
  BY <1>3, SoleKept DEF Troubles, GetConfigFails, ConnectRaises, ConnectReturnsNone,
                        NotAuthorized, Lose, ConfigExpires
<1>4. CASE Supervise
  <2>1. refresh' = [pc |-> "stop", stream |-> current] /\ made < MaxStreams
        /\ UNCHANGED <<current, made, listening>>
    BY <1>4 DEF Supervise, streamVars
  <2> QED
    BY <2>1 DEF Sole, RefreshTypeOK, OnlyCurrent, RefreshInStep
<1>5. CASE RefreshStop
  <2>1. refresh.pc = "stop" /\ refresh' = [refresh EXCEPT !.pc = "joining"]
        /\ UNCHANGED <<current, made, listening>>
    BY <1>5 DEF RefreshStop
  <2> QED
    BY <2>1 DEF Sole, RefreshTypeOK, OnlyCurrent, RefreshInStep
<1>6. CASE RefreshStopped
  <2>1. /\ refresh.pc = "joining" /\ refresh' = [refresh EXCEPT !.pc = "new"]
        /\ Stopped(refresh.stream) /\ UNCHANGED <<current, made>>
    BY <1>6 DEF RefreshStopped
  <2>2. refresh.stream = current /\ current \in Streams /\ made < MaxStreams
    BY <2>1 DEF Sole, RefreshInStep, OnlyCurrent
  <2>3. OnlyCurrent' /\ ~listening'[current]
    BY <2>1, <2>2, StoppedSilences
  <2> QED
    BY <2>1, <2>2, <2>3 DEF Sole, RefreshTypeOK, RefreshInStep
<1>7. CASE RefreshNew
  <2>1. /\ refresh.pc = "new" /\ made' = made + 1 /\ current' = made + 1
        /\ listening' = [listening EXCEPT ![made + 1] = TRUE] /\ refresh' = NoRefresh
    BY <1>7 DEF RefreshNew
  <2>2. made + 1 \in Streams /\ \A i \in Streams : ~listening[i]
    BY <2>1, MqAssumption DEF Sole, RefreshInStep, OnlyCurrent, Streams
  <2>3. OnlyCurrent'
    BY <2>1, <2>2 DEF Sole, OnlyCurrent
  <2> QED
    BY <2>1, <2>3, MqAssumption DEF Sole, RefreshTypeOK, RefreshInStep, NoRefresh, Streams
<1>8. CASE CloseHub
  BY <1>8, SoleKept DEF CloseHub
<1>9. CASE HubClosed
  BY <1>9, SoleStopped DEF HubClosed
<1>10. CASE UNCHANGED mqVars
  BY <1>10, SoleKept DEF mqVars, streamVars
<1> QED
  BY <1>1, <1>2, <1>3, <1>4, <1>5, <1>6, <1>7, <1>8, <1>9, <1>10 DEF MqNext, RefreshStep

(* What reaches the hub comes from one stream at most, whatever was        *)
(* stopped, restarted or rebuilt on the way.                               *)
THEOREM HubHearsOneStream == MqSpec => []SoleStream
<1>1. Sole => SoleStream
  <2> SUFFICES ASSUME Sole PROVE SoleStream
    OBVIOUS
  <2>1. {i \in Streams : listening[i]} \subseteq {current}
    BY DEF Sole, OnlyCurrent
  <2>2. IsFiniteSet({current}) /\ Cardinality({current}) = 1
    BY FS_Singleton
  <2>3. Cardinality({i \in Streams : listening[i]}) <= Cardinality({current})
    BY <2>1, <2>2, FS_Subset
  <2> QED
    BY <2>2, <2>3 DEF SoleStream
<1> QED
  BY <1>1, SoleInit, SoleStep, PTL DEF MqSpec

-----------------------------------------------------------------------------
(* The token, for any threads, tokens and requests.                         *)

Pcs == {"send", "reconnect", "flag", "login", "clear", "raise", "wait", "answer"}
Requests == {NoRequest} \cup
              [pc : Pcs, first : BOOLEAN, loop : BOOLEAN, with : 0..MaxTokens]

(* A token, held or sent, was issued.                                      *)
Issued ==
    /\ token.id <= issued
    /\ \A t \in Threads : request[t].pc = "answer" => request[t].with <= issued

TokenInv == TokenTypeOK /\ Issued /\ ReconnectHeals

-----------------------------------------------------------------------------
LEMMA TokenInvInit == TokenInit => TokenInv
<1> SUFFICES ASSUME TokenInit PROVE TokenInv
  OBVIOUS
<1>1. TokenTypeOK
  <2>1. 1 \in 1..MaxTokens /\ 0 \in 0..MaxRequests /\ 0 \in 0..MaxRevoked
    BY TokenAssumption
  <2>2. token \in [id : 1..MaxTokens, valid : BOOLEAN] /\ credentials \in BOOLEAN
    BY <2>1 DEF TokenInit
  <2>3. request \in [Threads -> {NoRequest}]
    BY DEF TokenInit
  <2>4. honoured \subseteq 1..issued /\ refused \subseteq 0..issued
    BY DEF TokenInit
  <2> QED
    BY <2>1, <2>2, <2>3, <2>4 DEF TokenInit, TokenTypeOK
<1>2. Issued /\ ReconnectHeals
  BY DEF TokenInit, Issued, ReconnectHeals, NoRequest
<1> QED
  BY <1>1, <1>2 DEF TokenInv

(* A request that is not idle is a record with its four fields.            *)
LEMMA CallTyped ==
    ASSUME TokenTypeOK, NEW t \in Threads, request[t].pc # "idle"
    PROVE  request[t] \in [pc : Pcs, first : BOOLEAN, loop : BOOLEAN, with : 0..MaxTokens]
<1>1. request[t] \in Requests
  BY DEF TokenTypeOK, Requests, Pcs
<1> QED
  BY <1>1 DEF Requests, NoRequest

(* A thread takes its request to a place of the code, or ends it.          *)
LEMMA OneMoves ==
    ASSUME TokenTypeOK, NEW t \in Threads, NEW r \in Requests,
           request' = [request EXCEPT ![t] = r]
    PROVE  /\ request' \in [Threads -> Requests] /\ request'[t] = r
           /\ \A u \in Threads \ {t} : request'[u] = request[u]
  BY DEF TokenTypeOK, Requests, Pcs

LEMMA GoesOn ==
    ASSUME TokenTypeOK, NEW t \in Threads, request[t].pc # "idle", NEW pc \in Pcs, RGoes(t, pc)
    PROVE  /\ request' \in [Threads -> Requests] /\ request'[t].pc = pc
           /\ \A u \in Threads \ {t} : request'[u] = request[u]
<1> DEFINE r == [request[t] EXCEPT !.pc = pc]
<1>1. r \in Requests /\ r.pc = pc
  BY CallTyped DEF Requests
<1>2. request' = [request EXCEPT ![t] = r]
  BY DEF RGoes
<1> HIDE DEF r
<1> QED
  BY <1>1, <1>2, OneMoves

LEMMA EndsIdle ==
    ASSUME TokenTypeOK, NEW t \in Threads, REnds(t)
    PROVE  /\ request' \in [Threads -> Requests] /\ request'[t].pc = "idle"
           /\ \A u \in Threads \ {t} : request'[u] = request[u]
<1>1. NoRequest \in Requests /\ NoRequest.pc = "idle"
  BY DEF NoRequest, Requests
<1> QED
  BY <1>1, OneMoves DEF REnds

(* The steps of one thread that leave the token, the cloud and the flag    *)
(* alone keep the invariant, if the thread was not connecting.             *)
LEMMA QuietStep ==
    ASSUME TokenInv, NEW t \in Threads,
           request' \in [Threads -> Requests],
           \A u \in Threads \ {t} : request'[u] = request[u],
           request'[t].pc = "answer" => request'[t].with <= issued,
           flag => request[t].pc \notin {"login", "clear", "raise"}
                     \/ request'[t].pc \in {"login", "clear", "raise"},
           requests' \in 0..MaxRequests,
           UNCHANGED <<credentials, token, flag, issued, honoured, revoked, refused>>
    PROVE  TokenInv'
<1>1. TokenTypeOK'
  BY DEF TokenInv, TokenTypeOK, Requests, Pcs
<1>2. Issued'
  BY DEF TokenInv, Issued
<1>3. ReconnectHeals'
  BY DEF TokenInv, ReconnectHeals
<1> QED
  BY <1>1, <1>2, <1>3 DEF TokenInv

(* The end of connect: the flag goes down and stays down.                  *)
LEMMA FlagDown ==
    ASSUME TokenInv, NEW t \in Threads,
           request' \in [Threads -> Requests],
           \A u \in Threads \ {t} : request'[u] = request[u],
           request'[t].pc # "answer", flag' = FALSE,
           UNCHANGED <<credentials, token, issued, honoured, requests, revoked, refused>>
    PROVE  TokenInv'
<1>1. TokenTypeOK'
  BY DEF TokenInv, TokenTypeOK, Requests, Pcs
<1>2. Issued' /\ ReconnectHeals'
  BY DEF TokenInv, Issued, ReconnectHeals
<1> QED
  BY <1>1, <1>2 DEF TokenInv

LEMMA TokenStep == TokenInv /\ [TokenNext]_tokenVars => TokenInv'
<1> SUFFICES ASSUME TokenInv, [TokenNext]_tokenVars
             PROVE  TokenInv'
  OBVIOUS
<1>0. TokenTypeOK
  BY DEF TokenInv
<1>1. CASE ExpireToken
  <2>1. TokenTypeOK'
    <3>1. revoked' \in 0..MaxRevoked
      BY <1>0, <1>1, TokenAssumption DEF ExpireToken, TokenTypeOK
    <3>2. token' \in [id : 1..MaxTokens, valid : BOOLEAN]
      BY <1>0, <1>1 DEF ExpireToken, TokenTypeOK
    <3> QED
      BY <1>0, <1>1, <3>1, <3>2 DEF ExpireToken, TokenTypeOK
  <2>2. Issued' /\ ReconnectHeals'
    BY <1>0, <1>1 DEF ExpireToken, TokenInv, TokenTypeOK, Issued, ReconnectHeals
  <2> QED
    BY <2>1, <2>2 DEF TokenInv
<1>2. CASE RevokeToken
  <2>1. TokenTypeOK'
    BY <1>2, TokenAssumption DEF RevokeToken, TokenInv, TokenTypeOK
  <2>2. Issued' /\ ReconnectHeals'
    BY <1>2 DEF RevokeToken, TokenInv, Issued, ReconnectHeals
  <2> QED
    BY <2>1, <2>2 DEF TokenInv
<1>3. ASSUME NEW t \in Threads, Ask(t)
      PROVE  TokenInv'
  <2> DEFINE r == [pc |-> IF token.valid THEN "send" ELSE "reconnect",
                   first |-> TRUE, loop |-> TRUE, with |-> 0]
  <2>1. r \in Requests /\ r.pc # "answer"
    BY TokenAssumption DEF Requests, Pcs
  <2>2. request' = [request EXCEPT ![t] = r] /\ requests' \in 0..MaxRequests
        /\ request[t].pc = "idle"
    BY <1>0, <1>3, TokenAssumption DEF Ask, TokenTypeOK, NoRequest
  <2> HIDE DEF r
  <2>3. /\ request' \in [Threads -> Requests] /\ request'[t].pc # "answer"
        /\ \A u \in Threads \ {t} : request'[u] = request[u]
    BY <1>0, <2>1, <2>2, OneMoves
  <2> QED
    BY <1>3, <2>2, <2>3, QuietStep DEF Ask
<1>4. ASSUME NEW t \in Threads, Reconnect(t)
      PROVE  TokenInv'
  <2>1. PICK pc \in {"wait", "send", "flag"} : RGoes(t, pc)
    BY <1>4 DEF Reconnect
  <2>2. request[t].pc = "reconnect" /\ requests \in 0..MaxRequests
    BY <1>0, <1>4 DEF Reconnect, TokenTypeOK
  <2>3. /\ request' \in [Threads -> Requests] /\ request'[t].pc = pc
        /\ \A u \in Threads \ {t} : request'[u] = request[u]
    BY <1>0, <2>1, <2>2, GoesOn DEF Pcs
  <2> QED
    BY <1>4, <2>2, <2>3, QuietStep DEF Reconnect
<1>5. ASSUME NEW t \in Threads, SetFlag(t)
      PROVE  TokenInv'
  <2>1. /\ request' \in [Threads -> Requests] /\ request'[t].pc = "login"
        /\ \A u \in Threads \ {t} : request'[u] = request[u]
    BY <1>0, <1>5, GoesOn DEF SetFlag, Pcs
  <2>2. TokenTypeOK'
    BY <1>0, <1>5, <2>1 DEF SetFlag, TokenTypeOK, Requests, Pcs
  <2>3. Issued' /\ ReconnectHeals'
    BY <1>5, <2>1 DEF SetFlag, TokenInv, Issued, ReconnectHeals
  <2> QED
    BY <2>2, <2>3 DEF TokenInv
<1>6. ASSUME NEW t \in Threads, Login(t)
      PROVE  TokenInv'
  <2>1. /\ request' \in [Threads -> Requests] /\ request'[t].pc = "clear"
        /\ \A u \in Threads \ {t} : request'[u] = request[u]
    BY <1>0, <1>6, GoesOn DEF Login, Pcs
  <2>2. issued' = issued + 1 /\ issued' \in 1..MaxTokens /\ issued \in Nat
    BY <1>0, <1>6, TokenAssumption DEF Login, TokenTypeOK
  <2>3. token' = [id |-> issued', valid |-> TRUE] /\ refused' = refused
    BY <1>6 DEF Login
  <2>4. honoured' \subseteq 1..issued' /\ refused' \subseteq 0..issued'
    BY <1>0, <1>6, <2>2 DEF Login, TokenTypeOK
  <2>5. TokenTypeOK'
    <3>1. token' \in [id : 1..MaxTokens, valid : BOOLEAN]
      BY <2>2, <2>3
    <3> QED
      BY <1>0, <1>6, <2>1, <2>2, <2>4, <3>1 DEF Login, TokenTypeOK, Requests, Pcs
  <2>6. Issued'
    <3>1. \A u \in Threads : request'[u].pc = "answer" => request'[u].with <= issued'
      <4> SUFFICES ASSUME NEW u \in Threads, request'[u].pc = "answer"
                   PROVE  request'[u].with <= issued'
        OBVIOUS
      <4>1. request'[u] = request[u] /\ request[u].pc = "answer"
        BY <2>1
      <4>2. request[u].with \in 0..MaxTokens /\ request[u].with <= issued
        BY <1>0, <4>1, CallTyped DEF TokenInv, Issued
      <4> QED
        BY <2>2, <4>1, <4>2, TokenAssumption
    <3>2. token'.id <= issued'
      BY <2>2, <2>3
    <3> QED
      BY <3>1, <3>2 DEF Issued
  <2>7. ReconnectHeals'
    <3>1. issued' \notin refused
      BY <1>0, <2>2 DEF TokenTypeOK
    <3> QED
      BY <2>1, <2>3, <3>1 DEF ReconnectHeals
  <2> QED
    BY <2>5, <2>6, <2>7 DEF TokenInv
<1>7. ASSUME NEW t \in Threads, LoginFails(t) \/ LoginRaises(t)
      PROVE  TokenInv'
  <2>1. PICK pc \in {"clear", "raise"} : RGoes(t, pc)
    BY <1>7 DEF LoginFails, LoginRaises
  <2>2. request[t].pc = "login" /\ requests \in 0..MaxRequests
    BY <1>0, <1>7 DEF LoginFails, LoginRaises, TokenTypeOK
  <2>3. /\ request' \in [Threads -> Requests] /\ request'[t].pc = pc
        /\ \A u \in Threads \ {t} : request'[u] = request[u]
    BY <1>0, <2>1, <2>2, GoesOn DEF Pcs
  <2> QED
    BY <1>7, <2>2, <2>3, QuietStep DEF LoginFails, LoginRaises
<1>8. ASSUME NEW t \in Threads, ClearFlag(t)
      PROVE  TokenInv'
  <2>1. request[t].pc # "idle" /\ (RGoes(t, "send") \/ REnds(t))
    BY <1>8 DEF ClearFlag
  <2>2. /\ request' \in [Threads -> Requests] /\ request'[t].pc # "answer"
        /\ \A u \in Threads \ {t} : request'[u] = request[u]
    BY <1>0, <2>1, GoesOn, EndsIdle DEF Pcs
  <2> QED
    BY <1>8, <2>2, FlagDown DEF ClearFlag
<1>9. ASSUME NEW t \in Threads, WaitEnds(t)
      PROVE  TokenInv'
  <2>1. request[t].pc = "wait" /\ requests \in 0..MaxRequests
    BY <1>0, <1>9 DEF WaitEnds, TokenTypeOK
  <2>2. /\ request' \in [Threads -> Requests] /\ request'[t].pc # "answer"
        /\ \A u \in Threads \ {t} : request'[u] = request[u]
    <3>1. CASE token.valid
      <4>1. RGoes(t, "send")
        BY <1>9, <3>1 DEF WaitEnds
      <4> QED
        BY <1>0, <2>1, <4>1, GoesOn DEF Pcs
    <3>2. CASE ~token.valid
      <4> DEFINE r == [request[t] EXCEPT !.pc = "reconnect", !.loop = FALSE]
      <4>1. r \in Requests /\ r.pc = "reconnect"
        BY <1>0, <2>1, CallTyped DEF Requests, Pcs
      <4>2. request \in [Threads -> Requests]
        BY <1>0 DEF TokenTypeOK, Requests, Pcs
      <4>3. request' = [request EXCEPT ![t] = r]
        BY <1>9, <3>2, <4>2 DEF WaitEnds
      <4> HIDE DEF r
      <4> QED
        BY <1>0, <4>1, <4>3, OneMoves
    <3> QED
      BY <3>1, <3>2
  <2> QED
    BY <1>9, <2>1, <2>2, QuietStep DEF WaitEnds
<1>10. ASSUME NEW t \in Threads, WaitTimesOut(t)
       PROVE  TokenInv'
  <2>1. request[t].pc = "wait" /\ requests \in 0..MaxRequests
    BY <1>0, <1>10 DEF WaitTimesOut, TokenTypeOK
  <2>2. /\ request' \in [Threads -> Requests] /\ request'[t].pc = "send"
        /\ \A u \in Threads \ {t} : request'[u] = request[u]
    BY <1>0, <1>10, <2>1, GoesOn DEF WaitTimesOut, Pcs
  <2> QED
    BY <1>10, <2>1, <2>2, QuietStep DEF WaitTimesOut
<1>11. ASSUME NEW t \in Threads, Send(t)
       PROVE  TokenInv'
  <2> DEFINE id == IF token.valid THEN token.id ELSE 0
             r == [request[t] EXCEPT !.pc = "answer", !.with = id]
  <2>1. request[t].pc = "send" /\ requests \in 0..MaxRequests
    BY <1>0, <1>11 DEF Send, TokenTypeOK
  <2>2. token.id \in 1..MaxTokens /\ token.id <= issued /\ issued \in 1..MaxTokens
    BY <1>0 DEF TokenTypeOK, TokenInv, Issued
  <2>3. r \in Requests /\ r.with <= issued
    <3>1. id \in 0..MaxTokens /\ id <= issued
      BY <2>2, TokenAssumption
    <3>2. request[t] \in [pc : Pcs, first : BOOLEAN, loop : BOOLEAN, with : 0..MaxTokens]
      BY <1>0, <2>1, CallTyped
    <3> HIDE DEF id
    <3> QED
      BY <3>1, <3>2 DEF Requests, Pcs
  <2>4. request \in [Threads -> Requests]
    BY <1>0 DEF TokenTypeOK, Requests, Pcs
  <2>5. request' = [request EXCEPT ![t] = r]
    BY <1>11, <2>4 DEF Send
  <2> HIDE DEF r
  <2>6. /\ request' \in [Threads -> Requests] /\ request'[t] = r
        /\ \A u \in Threads \ {t} : request'[u] = request[u]
    BY <1>0, <2>3, <2>5, OneMoves
  <2> QED
    BY <1>11, <2>1, <2>3, <2>6, QuietStep DEF Send
<1>12. ASSUME NEW t \in Threads, AnswerOk(t) \/ AnswerLost(t)
       PROVE  TokenInv'
  <2>1. request[t].pc = "answer" /\ requests \in 0..MaxRequests /\ REnds(t)
    BY <1>0, <1>12 DEF AnswerOk, AnswerLost, TokenTypeOK
  <2>2. /\ request' \in [Threads -> Requests] /\ request'[t].pc = "idle"
        /\ \A u \in Threads \ {t} : request'[u] = request[u]
    BY <1>0, <2>1, EndsIdle
  <2> QED
    BY <1>12, <2>1, <2>2, QuietStep DEF AnswerOk, AnswerLost
<1>13. ASSUME NEW t \in Threads, AnswerRefused(t)
       PROVE  TokenInv'
  <2>1. request[t].pc = "answer"
    BY <1>13 DEF AnswerRefused
  <2>2. request[t].with \in 0..MaxTokens /\ request[t].with <= issued
    BY <1>0, <2>1, CallTyped DEF TokenInv, Issued
  <2>3. /\ request' \in [Threads -> Requests] /\ request'[t].pc \in {"send", "idle"}
        /\ \A u \in Threads \ {t} : request'[u] = request[u]
    <3>1. CASE request[t].first
      <4> DEFINE r == [request[t] EXCEPT !.pc = "send", !.first = FALSE]
      <4>1. r \in Requests /\ r.pc = "send"
        BY <1>0, <2>1, CallTyped DEF Requests, Pcs
      <4>2. request \in [Threads -> Requests]
        BY <1>0 DEF TokenTypeOK, Requests, Pcs
      <4>3. request' = [request EXCEPT ![t] = r]
        BY <1>13, <3>1, <4>2 DEF AnswerRefused
      <4> HIDE DEF r
      <4> QED
        BY <1>0, <4>1, <4>3, OneMoves
    <3>2. CASE ~request[t].first
      BY <1>0, <1>13, <3>2, EndsIdle DEF AnswerRefused
    <3> QED
      BY <3>1, <3>2
  <2>4. /\ token' = [token EXCEPT !.valid = FALSE]
        /\ refused' = refused \cup {request[t].with}
        /\ UNCHANGED <<credentials, flag, issued, honoured, requests, revoked>>
    BY <1>13 DEF AnswerRefused, ValidAfterRefusal
  <2>5. /\ token' \in [id : 1..MaxTokens, valid : BOOLEAN] /\ token'.id = token.id
        /\ ~token'.valid
    BY <1>0, <2>4 DEF TokenTypeOK
  <2>6. refused' \subseteq 0..issued'
    BY <1>0, <2>2, <2>4, TokenAssumption DEF TokenTypeOK
  <2>7. TokenTypeOK'
    BY <1>0, <2>3, <2>4, <2>5, <2>6 DEF TokenTypeOK, Requests, Pcs
  <2>8. Issued' /\ ReconnectHeals'
    BY <2>1, <2>3, <2>4, <2>5 DEF TokenInv, Issued, ReconnectHeals
  <2> QED
    BY <2>7, <2>8 DEF TokenInv
<1>14. CASE UNCHANGED tokenVars
  BY <1>14 DEF tokenVars, TokenInv, TokenTypeOK, Issued, ReconnectHeals
<1> QED
  BY <1>1, <1>2, <1>3, <1>4, <1>5, <1>6, <1>7, <1>8, <1>9, <1>10, <1>11, <1>12, <1>13, <1>14
     DEF TokenNext

(* Every variable keeps its type, the token and the request of every       *)
(* thread included.                                                        *)
THEOREM TokenTypes == TokenSpec => []TokenTypeOK
<1>1. TokenInv => TokenTypeOK
  BY DEF TokenInv
<1> QED
  BY <1>1, TokenInvInit, TokenStep, PTL DEF TokenSpec

(* However logins overlap, fail or raise, the flag that makes requests     *)
(* wait is up only while a thread connects, and a refused token is never   *)
(* the trusted one again.                                                  *)
THEOREM TokenReconnects == TokenSpec => []ReconnectHeals
<1>1. TokenInv => ReconnectHeals
  BY DEF TokenInv
<1> QED
  BY <1>1, TokenInvInit, TokenStep, PTL DEF TokenSpec

-----------------------------------------------------------------------------
(* The tracker, for any executor threads, devices, months and restarts.     *)

(* What a tracker, in memory or in the file, says of this month.           *)
Counted(q) == IF q.month = month THEN q.devices ELSE {}

UserAt(w, pc) == user[w].pc = pc
UserBusy(w) == user[w].pc # "away"

(* A command that rolled the month and has not asked for its save yet.     *)
RollUnsaved == \E w \in Recorders : (UserAt(w, "empty") \/ UserAt(w, "add")) /\ user[w].rolled

Trackers ==
    /\ month \in 1..MaxMonth /\ saves \in Nat
    /\ quota \in [month : 1..MaxMonth, devices : SUBSET Devices] /\ quota.month <= month
    /\ stored \in [month : 1..MaxMonth, devices : SUBSET Devices] /\ stored.month <= month
    /\ commanded \subseteq Devices /\ limit \in Int

Reading == [pc : {"roll", "empty", "read"}, key : 1..MaxMonth, rolled : BOOLEAN]
Adding == [pc : {"roll", "empty", "add"}, device : Devices, key : 1..MaxMonth, rolled : BOOLEAN]

UsersKnown ==
    /\ user \in [Users -> {Away} \cup Reading \cup Adding]
    /\ \A w \in Recorders : user[w] \in {Away} \cup Adding
    /\ user[Reader] \in {Away} \cup Reading
    /\ \A w \in Users : /\ UserBusy(w) => user[w].key <= month
                        /\ UserAt(w, "empty") => user[w].rolled

(* Unless something overlapped: every thread works on this month, the      *)
(* devices are those commanded except between the two statements of a roll *)
(* (before which nothing was commanded), and so is the file if no save is  *)
(* asked for nor about to be.                                              *)
Undisturbed ==
    /\ \A w \in Users : UserBusy(w) => user[w].key = month
    /\ quota.month # month => commanded = {}
    /\ (\E w \in Users : UserAt(w, "empty")) => commanded = {} /\ quota.month = month
    /\ (\A w \in Users : ~UserAt(w, "empty")) => Counted(quota) = commanded
    /\ \A w \in Users : UserAt(w, "add") \/ UserAt(w, "read") => quota.month = month
    /\ saves = 0 /\ ~RollUnsaved => Counted(stored) = commanded

QuotaInv == Trackers /\ UsersKnown /\ (overlapped \/ Undisturbed)

-----------------------------------------------------------------------------
LEMMA LimitIsInt == \A o \in Options : LimitOf(o) \in Int
<1> SUFFICES ASSUME NEW o \in Options PROVE LimitOf(o) \in Int
  OBVIOUS
<1>1. o.limit \in Int
  BY DEF Options, NoNumber
<1> QED
  BY <1>1 DEF LimitOf, Unlimited, TrialLimit

LEMMA QuotaInvInit == QuotaInit => QuotaInv
<1> SUFFICES ASSUME QuotaInit PROVE QuotaInv
  OBVIOUS
<1>1. \A w \in Users : user[w] = Away /\ user[w].pc = "away"
  BY DEF QuotaInit, Away
<1>2. 1 \in 1..MaxMonth
  BY QuotaAssumption
<1>3. Trackers
  BY <1>2, LimitIsInt DEF QuotaInit, Trackers
<1>4. Recorders \subseteq Users /\ Reader \in Users
  BY DEF Users
<1>5. UsersKnown
  BY <1>1, <1>4 DEF QuotaInit, UsersKnown, UserBusy, UserAt
<1>6. Undisturbed
  BY <1>1 DEF QuotaInit, Undisturbed, UserBusy, UserAt, Counted
<1> QED
  BY <1>3, <1>5, <1>6 DEF QuotaInv

(* A user that is busy has its fields.                                     *)
LEMMA BusyFields ==
    ASSUME UsersKnown, NEW w \in Users
    PROVE  /\ user[w] = Away <=> ~UserBusy(w)
           /\ UserBusy(w) => user[w] \in Reading \cup Adding
           /\ w # Reader => w \in Recorders
           /\ UserAt(w, "add") => w \in Recorders
           /\ UserAt(w, "read") => w = Reader
  BY DEF UsersKnown, UserBusy, UserAt, Away, Reading, Adding, Users

(* A user begins, goes on, or is done.                                     *)
LEMMA UserBecomes ==
    ASSUME UsersKnown, NEW w \in Users, NEW u, month' = month,
           u = Away \/ (w = Reader /\ u \in Reading) \/ (w \in Recorders /\ u \in Adding),
           u # Away => u.key <= month /\ (u.pc = "empty" => u.rolled),
           user' = [user EXCEPT ![w] = u]
    PROVE  /\ UsersKnown' /\ user'[w] = u
           /\ \A v \in Users \ {w} : user'[v] = user[v]
<1>1. Recorders \subseteq Users /\ Reader \in Users /\ Reader \notin Recorders
  BY QuotaAssumption DEF Users
<1>2. user \in [Users -> {Away} \cup Reading \cup Adding]
  BY DEF UsersKnown
<1>3. user'[w] = u /\ \A v \in Users \ {w} : user'[v] = user[v]
  BY <1>2
<1>4. user' \in [Users -> {Away} \cup Reading \cup Adding]
  BY <1>2, Zenon
<1>5. /\ \A v \in Recorders : user'[v] \in {Away} \cup Adding
      /\ user'[Reader] \in {Away} \cup Reading
  BY <1>1, <1>3 DEF UsersKnown
<1>6. \A v \in Users : /\ UserBusy(v)' => user'[v].key <= month'
                       /\ UserAt(v, "empty")' => user'[v].rolled
  BY <1>3 DEF UsersKnown, UserBusy, UserAt, Away
<1> QED
  BY <1>3, <1>4, <1>5, <1>6 DEF UsersKnown

LEMMA NextMonthStep ==
    ASSUME QuotaInv, NextMonth
    PROVE  QuotaInv'
<1>1. /\ month' = month + 1 /\ commanded' = {} /\ month < MaxMonth
      /\ UNCHANGED <<quota, stored, saves, user, limit>>
      /\ overlapped' = (overlapped \/ ~AllAway)
  BY DEF NextMonth
<1>2. Trackers /\ UsersKnown /\ month \in Nat /\ MaxMonth \in Nat
  BY QuotaAssumption DEF QuotaInv, Trackers
<1>3. Trackers'
  <2>1. month' \in 1..MaxMonth
    BY <1>1, <1>2 DEF Trackers
  <2>2. quota.month <= month' /\ stored.month <= month'
    BY <1>1, <1>2 DEF Trackers
  <2> QED
    BY <1>1, <1>2, <2>1, <2>2 DEF Trackers
<1>4. UsersKnown'
  <2>1. ASSUME NEW w \in Users, UserBusy(w)
        PROVE  user[w].key <= month'
    <3>1. user[w].key \in Nat /\ user[w].key <= month
      BY <1>2, <2>1, BusyFields, QuotaAssumption DEF UsersKnown, Reading, Adding
    <3> QED
      BY <1>1, <1>2, <3>1
  <2> QED
    BY <1>1, <1>2, <2>1 DEF UsersKnown, UserBusy, UserAt
<1>5. ASSUME ~overlapped' PROVE Undisturbed'
  <2>1. \A w \in Users : ~UserBusy(w)
    BY <1>1, <1>2, <1>5, BusyFields DEF AllAway
  <2>2. quota.month # month' /\ stored.month # month'
    BY <1>1, <1>2 DEF Trackers
  <2> QED
    BY <1>1, <2>1, <2>2 DEF Undisturbed, UserBusy, UserAt, Counted
<1> QED
  BY <1>3, <1>4, <1>5 DEF QuotaInv

(* A user begins or ends; trackers and file stay.                          *)
LEMMA QuietUser ==
    ASSUME QuotaInv, NEW w \in Users, UsersKnown',
           UNCHANGED <<month, quota, stored, saves, limit, commanded, overlapped>>,
           \A v \in Users \ {w} : user'[v] = user[v],
           user'[w].pc = "away" \/ (user'[w].pc = "roll" /\ user'[w].key = month),
           user[w].pc \in {"away", "read"}
    PROVE  QuotaInv'
<1>1. Trackers'
  BY DEF QuotaInv, Trackers
<1>2. ASSUME ~overlapped' PROVE Undisturbed'
  <2>1. Undisturbed
    BY <1>2 DEF QuotaInv
  <2>2. \A v \in Users : (UserAt(v, "empty")' <=> UserAt(v, "empty")) /\ (UserAt(v, "add")' <=> UserAt(v, "add"))
    BY DEF UserAt
  <2>3. RollUnsaved' <=> RollUnsaved
    <3>1. \A v \in Users : UserAt(v, "empty") \/ UserAt(v, "add") => v # w
      BY DEF UserAt
    <3> QED
      BY <2>2, <3>1 DEF RollUnsaved, Users
  <2>4. \A v \in Users : UserBusy(v)' => user'[v].key = month'
    BY <2>1 DEF Undisturbed, UserBusy
  <2>5. \A v \in Users : UserAt(v, "add")' \/ UserAt(v, "read")' => quota.month = month
    BY <2>1 DEF Undisturbed, UserAt
  <2>6. Counted(quota)' = Counted(quota) /\ Counted(stored)' = Counted(stored)
    BY DEF Counted
  <2> QED
    BY <2>1, <2>2, <2>3, <2>4, <2>5, <2>6 DEF Undisturbed
<1> QED
  BY <1>1, <1>2 DEF QuotaInv

LEMMA BeginStep ==
    ASSUME QuotaInv, Used \/ ReadUsed \/ \E w \in Users : Record(w)
    PROVE  QuotaInv'
<1>1. UsersKnown /\ month \in 1..MaxMonth /\ Reader \in Users
  BY DEF QuotaInv, Trackers, Users
<1>2. ASSUME NEW w \in Users, NEW u, user' = [user EXCEPT ![w] = u],
             u = Away \/ (w = Reader /\ u \in Reading) \/ (w \in Recorders /\ u \in Adding),
             u # Away => u.pc = "roll" /\ u.key = month,
             user[w].pc \in {"away", "read"},
             UNCHANGED <<month, quota, stored, saves, limit, commanded, overlapped>>
      PROVE  QuotaInv'
  <2>1. /\ UsersKnown' /\ user'[w] = u
        /\ \A v \in Users \ {w} : user'[v] = user[v]
    <3>1. u # Away => u.key <= month /\ (u.pc = "empty" => u.rolled)
      BY <1>1, <1>2
    <3> QED
      BY <1>1, <1>2, <3>1, UserBecomes
  <2>2. user'[w].pc = "away" \/ (user'[w].pc = "roll" /\ user'[w].key = month)
    BY <1>2, <2>1 DEF Away
  <2> QED
    BY <1>2, <2>1, <2>2, QuietUser
<1>3. CASE Used
  <2> DEFINE u == [pc |-> "roll", key |-> month, rolled |-> FALSE]
  <2>1. u \in Reading /\ u.pc = "roll" /\ u.key = month
    BY <1>1 DEF Reading
  <2>2. user' = [user EXCEPT ![Reader] = u] /\ user[Reader].pc = "away"
        /\ UNCHANGED <<month, quota, stored, saves, limit, commanded, overlapped>>
    BY <1>3 DEF Used, Away
  <2> HIDE DEF u
  <2> QED
    BY <1>1, <1>2, <2>1, <2>2
<1>4. CASE ReadUsed
  <2>1. user' = [user EXCEPT ![Reader] = Away] /\ user[Reader].pc = "read"
        /\ UNCHANGED <<month, quota, stored, saves, limit, commanded, overlapped>>
    BY <1>4 DEF ReadUsed
  <2> QED
    BY <1>1, <1>2, <2>1
<1>5. ASSUME NEW w \in Users, Record(w)
      PROVE  QuotaInv'
  <2>1. PICK d \in Devices :
          user' = [user EXCEPT ![w] = [pc |-> "roll", device |-> d, key |-> month,
                                       rolled |-> FALSE]]
    BY <1>5 DEF Record
  <2> DEFINE u == [pc |-> "roll", device |-> d, key |-> month, rolled |-> FALSE]
  <2>2. u \in Adding /\ u.pc = "roll" /\ u.key = month
    BY <1>1 DEF Adding
  <2>3. user' = [user EXCEPT ![w] = u]
    BY <2>1
  <2>4. user[w].pc = "away" /\ w \in Recorders
        /\ UNCHANGED <<month, quota, stored, saves, limit, commanded, overlapped>>
    BY <1>5 DEF Record, Away
  <2> HIDE DEF u
  <2> QED
    BY <1>2, <2>2, <2>3, <2>4
<1> QED
  BY <1>3, <1>4, <1>5

(* One user has the month it wanted: on to the device, or to the answer.   *)
LEMMA UserAfter ==
    ASSUME UsersKnown, NEW w \in Users, UserBusy(w), month' = month,
           user' = [user EXCEPT ![w].pc = After(w)]
    PROVE  /\ UsersKnown' /\ user'[w].pc = After(w) /\ user'[w].key = user[w].key
           /\ user'[w].rolled = user[w].rolled
           /\ \A v \in Users \ {w} : user'[v] = user[v]
<1> DEFINE u == [user[w] EXCEPT !.pc = After(w)]
<1>1. /\ u.pc = After(w) /\ u.key = user[w].key /\ u.rolled = user[w].rolled
      /\ (w = Reader /\ u \in Reading) \/ (w \in Recorders /\ u \in Adding)
  <2>1. CASE w = Reader
    <3>1. user[w] \in Reading /\ After(w) = "read"
      BY <2>1, BusyFields DEF UsersKnown, After
    <3> QED
      BY <2>1, <3>1 DEF Reading
  <2>2. CASE w \in Recorders
    <3>1. user[w] \in Adding /\ After(w) = "add"
      BY <2>2, BusyFields, QuotaAssumption DEF UsersKnown, After
    <3> QED
      BY <2>2, <3>1 DEF Adding
  <2> QED
    BY <2>1, <2>2 DEF Users
<1>2. u.key <= month /\ u.pc # "empty"
  BY <1>1 DEF UsersKnown, After
<1>3. user' = [user EXCEPT ![w] = u]
  OBVIOUS
<1> HIDE DEF u
<1>4. /\ UsersKnown' /\ user'[w] = u /\ \A v \in Users \ {w} : user'[v] = user[v]
  BY <1>1, <1>2, <1>3, UserBecomes
<1> QED
  BY <1>1, <1>4

LEMMA RollStep ==
    ASSUME QuotaInv, NEW w \in Users, Roll(w)
    PROVE  QuotaInv'
<1>1. UsersKnown /\ Trackers /\ user[w].pc = "roll" /\ UserBusy(w)
  BY DEF QuotaInv, Roll, UserBusy
<1>2. UNCHANGED <<month, stored, saves, limit, spent, commanded>>
  BY DEF Roll
<1>3. user[w].rolled \in BOOLEAN /\ user[w].key \in 1..MaxMonth /\ user[w].key <= month
  BY <1>1, BusyFields DEF UsersKnown, Reading, Adding
<1>4. After(w) \in {"read", "add"} /\ (w \in Recorders => After(w) = "add")
  BY QuotaAssumption DEF After
<1>5. CASE user[w].key = quota.month
  <2>1. /\ user' = [user EXCEPT ![w].pc = After(w)]
        /\ UNCHANGED <<quota, overlapped>>
    BY <1>5 DEF Roll, UGoes
  <2>2. /\ UsersKnown' /\ user'[w].pc = After(w) /\ user'[w].key = user[w].key
        /\ user'[w].rolled = user[w].rolled
        /\ \A v \in Users \ {w} : user'[v] = user[v]
    BY <1>1, <1>2, <2>1, UserAfter
  <2>3. Trackers'
    BY <1>1, <1>2, <2>1 DEF Trackers
  <2>4. ASSUME ~overlapped' PROVE Undisturbed'
    <3>1. Undisturbed
      BY <2>1, <2>4 DEF QuotaInv
    <3>2. quota.month = month /\ Counted(quota)' = Counted(quota)
          /\ Counted(stored)' = Counted(stored)
      BY <1>1, <1>2, <1>5, <2>1, <3>1 DEF Undisturbed, Counted
    <3>3. \A v \in Users : UserAt(v, "empty")' <=> UserAt(v, "empty")
      BY <1>1, <1>4, <2>2 DEF UserAt
    <3>4. ~RollUnsaved' => ~RollUnsaved
      BY <1>1, <1>4, <2>2 DEF RollUnsaved, UserAt, Users
    <3>5. \A v \in Users : UserBusy(v)' => user'[v].key = month'
      BY <1>1, <1>2, <2>2, <3>1 DEF Undisturbed, UserBusy
    <3> QED
      BY <1>2, <2>1, <3>1, <3>2, <3>3, <3>4, <3>5 DEF Undisturbed
  <2> QED
    BY <2>2, <2>3, <2>4 DEF QuotaInv
<1>6. CASE user[w].key # quota.month
  <2>1. /\ quota' = [quota EXCEPT !.month = user[w].key]
        /\ user' = [user EXCEPT ![w].pc = "empty", ![w].rolled = TRUE]
        /\ overlapped' = (overlapped \/ \E v \in Users \ {w} : user[v] # Away)
    BY <1>6 DEF Roll
  <2> DEFINE u == [user[w] EXCEPT !.pc = "empty", !.rolled = TRUE]
  <2>2. /\ user' = [user EXCEPT ![w] = u]
        /\ u.pc = "empty" /\ u.key = user[w].key /\ u.rolled = TRUE
        /\ (w = Reader /\ u \in Reading) \/ (w \in Recorders /\ u \in Adding)
    <3>1. user' = [user EXCEPT ![w] = u]
      BY <1>1, <2>1 DEF UsersKnown
    <3>2. (w = Reader /\ user[w] \in Reading) \/ (w \in Recorders /\ user[w] \in Adding)
      BY <1>1, BusyFields DEF UsersKnown
    <3> QED
      BY <3>1, <3>2 DEF Reading, Adding
  <2> HIDE DEF u
  <2>3. /\ UsersKnown' /\ user'[w].pc = "empty" /\ user'[w].key = user[w].key
        /\ user'[w].rolled = TRUE
        /\ \A v \in Users \ {w} : user'[v] = user[v]
    <3>1. UsersKnown' /\ user'[w] = u /\ \A v \in Users \ {w} : user'[v] = user[v]
      BY <1>1, <1>2, <1>3, <2>2, UserBecomes
    <3> QED
      BY <2>2, <3>1
  <2>4. quota' \in [month : 1..MaxMonth, devices : SUBSET Devices] /\ quota'.month = user[w].key
    BY <1>1, <1>3, <2>1 DEF Trackers
  <2>5. Trackers'
    BY <1>1, <1>2, <1>3, <2>4 DEF Trackers
  <2>6. ASSUME ~overlapped' PROVE Undisturbed'
    <3>1. Undisturbed /\ \A v \in Users \ {w} : ~UserBusy(v)
      BY <1>1, <2>1, <2>6, BusyFields DEF QuotaInv
    <3>2. user[w].key = month /\ quota'.month = month /\ commanded = {}
      BY <1>1, <1>6, <2>4, <3>1 DEF Undisturbed
    <3>3. ~RollUnsaved
      BY <1>1, <3>1 DEF RollUnsaved, UserAt, UserBusy, Users
    <3>4. Counted(stored)' = Counted(stored)
      BY <1>2 DEF Counted
    <3>5. \A v \in Users \ {w} : ~UserAt(v, "add")' /\ ~UserAt(v, "read")' /\ ~UserBusy(v)'
      BY <2>3, <3>1 DEF UserBusy, UserAt
    <3> QED
      BY <1>2, <2>3, <3>1, <3>2, <3>3, <3>4, <3>5 DEF Undisturbed, UserAt, UserBusy
  <2> QED
    BY <2>3, <2>5, <2>6 DEF QuotaInv
<1> QED
  BY <1>5, <1>6

LEMMA EmptyStep ==
    ASSUME QuotaInv, NEW w \in Users, EmptyDevices(w)
    PROVE  QuotaInv'
<1>1. UsersKnown /\ Trackers /\ user[w].pc = "empty" /\ UserBusy(w)
  BY DEF QuotaInv, EmptyDevices, UserBusy
<1>2. /\ UNCHANGED <<month, stored, saves, limit, spent, commanded>>
      /\ quota' = [quota EXCEPT !.devices = {}]
      /\ overlapped' = (overlapped \/ \E v \in Users \ {w} : user[v] # Away)
  BY DEF EmptyDevices
<1>4. After(w) \in {"read", "add"} /\ (w \in Recorders => After(w) = "add")
  BY QuotaAssumption DEF After
<1>5. /\ UsersKnown' /\ user'[w].pc = After(w) /\ user'[w].key = user[w].key
      /\ user'[w].rolled = user[w].rolled
      /\ \A v \in Users \ {w} : user'[v] = user[v]
  BY <1>1, <1>2, UserAfter DEF EmptyDevices, UGoes
<1>6. /\ quota' \in [month : 1..MaxMonth, devices : SUBSET Devices]
      /\ quota'.month = quota.month /\ quota'.devices = {}
  BY <1>1, <1>2 DEF Trackers
<1>7. Trackers'
  BY <1>1, <1>2, <1>6 DEF Trackers
<1>8. ASSUME ~overlapped' PROVE Undisturbed'
  <2>1. Undisturbed /\ \A v \in Users \ {w} : ~UserBusy(v)
    BY <1>1, <1>2, <1>8, BusyFields DEF QuotaInv
  <2>2. commanded = {} /\ quota.month = month /\ user[w].key = month
    BY <1>1, <2>1 DEF Undisturbed, UserAt
  <2>3. \A v \in Users : ~UserAt(v, "empty")'
    BY <1>4, <1>5, <2>1 DEF UserAt, UserBusy
  <2>4. ~RollUnsaved' => ~RollUnsaved
    BY <1>1, <1>4, <1>5, <2>1 DEF RollUnsaved, UserAt, UserBusy, Users
  <2>5. Counted(stored)' = Counted(stored) /\ Counted(quota)' = {}
    BY <1>2, <1>6 DEF Counted
  <2>6. \A v \in Users : UserBusy(v)' => user'[v].key = month'
    BY <1>2, <1>5, <2>1, <2>2 DEF UserBusy
  <2> QED
    BY <1>2, <1>6, <2>1, <2>2, <2>3, <2>4, <2>5, <2>6 DEF Undisturbed
<1> QED
  BY <1>5, <1>7, <1>8 DEF QuotaInv

LEMMA AddStep ==
    ASSUME QuotaInv, NEW w \in Users, Add(w)
    PROVE  QuotaInv'
<1> DEFINE d == user[w].device
           rolled == user[w].rolled
<1>1. UsersKnown /\ Trackers /\ user[w].pc = "add" /\ UserBusy(w)
  BY DEF QuotaInv, Add, UserBusy
<1>2. /\ UNCHANGED <<month, stored, limit, spent>>
      /\ quota' = [quota EXCEPT !.devices = quota.devices \cup {d}]
      /\ saves' = IF d \notin quota.devices \/ rolled THEN saves + 1 ELSE saves
      /\ commanded' = commanded \cup {d}
      /\ user' = [user EXCEPT ![w] = Away]
      /\ overlapped' = (overlapped \/ \E v \in Users : user[v].pc = "empty")
  BY DEF Add
<1>3. w \in Recorders /\ d \in Devices
  <2>1. w \in Recorders
    BY <1>1, BusyFields DEF UserAt
  <2>2. user[w] \in Adding
    BY <1>1, <2>1, BusyFields DEF UsersKnown
  <2> QED
    BY <2>1, <2>2 DEF Adding
<1> HIDE DEF d
<1>4. /\ UsersKnown' /\ user'[w] = Away
      /\ \A v \in Users \ {w} : user'[v] = user[v]
  BY <1>1, <1>2, UserBecomes
<1>5. /\ quota' \in [month : 1..MaxMonth, devices : SUBSET Devices]
      /\ quota'.month = quota.month /\ quota'.devices = quota.devices \cup {d}
  BY <1>1, <1>2, <1>3 DEF Trackers
<1>6. saves' \in Nat /\ (saves' = 0 => saves = 0 /\ d \in quota.devices /\ ~rolled)
  BY <1>1, <1>2 DEF Trackers
<1>7. Trackers'
  BY <1>1, <1>2, <1>3, <1>5, <1>6 DEF Trackers
<1>8. ASSUME ~overlapped' PROVE Undisturbed'
  <2>1. Undisturbed /\ \A v \in Users : ~UserAt(v, "empty")
    BY <1>2, <1>8 DEF QuotaInv, UserAt
  <2>2. quota.month = month /\ quota.devices = commanded
    BY <1>1, <2>1 DEF Undisturbed, UserAt, Counted
  <2>3. \A v \in Users : /\ ~UserAt(v, "empty")' /\ (UserBusy(v)' => user'[v].key = month')
    BY <1>2, <1>4, <2>1 DEF Undisturbed, UserAt, UserBusy, Away
  <2>4. Counted(quota)' = commanded'
    BY <1>2, <1>5, <2>2 DEF Counted
  <2>5. ASSUME saves' = 0, ~RollUnsaved' PROVE Counted(stored)' = commanded'
    <3>1. ~RollUnsaved
      BY <1>3, <1>4, <1>6, <2>5 DEF RollUnsaved, UserAt, Users
    <3>2. commanded' = commanded
      BY <1>2, <1>6, <2>2, <2>5
    <3> QED
      BY <1>2, <1>6, <2>1, <2>5, <3>1, <3>2 DEF Undisturbed, Counted
  <2> QED
    BY <1>2, <1>5, <2>2, <2>3, <2>4, <2>5 DEF Undisturbed
<1> QED
  BY <1>4, <1>7, <1>8 DEF QuotaInv

LEMMA SaveStep ==
    ASSUME QuotaInv, SaveQuota
    PROVE  QuotaInv'
<1>1. /\ saves > 0 /\ user[Reader] = Away /\ saves' = saves - 1 /\ stored' = quota
      /\ UNCHANGED <<month, quota, user, limit, spent, commanded, overlapped>>
  BY DEF SaveQuota
<1>2. Trackers'
  BY <1>1 DEF QuotaInv, Trackers
<1>3. UsersKnown'
  BY <1>1 DEF QuotaInv, UsersKnown, UserBusy, UserAt
<1>4. ASSUME ~overlapped' PROVE Undisturbed'
  <2>1. Undisturbed
    BY <1>1, <1>4 DEF QuotaInv
  <2>2. ASSUME ~RollUnsaved PROVE \A w \in Users : ~UserAt(w, "empty")
    <3>1. ~UserAt(Reader, "empty")
      BY <1>1 DEF UserAt, Away
    <3>2. \A w \in Recorders : ~UserAt(w, "empty")
      BY <2>2 DEF RollUnsaved, QuotaInv, UsersKnown, Users
    <3> QED
      BY <3>1, <3>2 DEF Users
  <2>3. ~RollUnsaved => Counted(quota) = commanded
    BY <2>1, <2>2 DEF Undisturbed
  <2> QED
    BY <1>1, <2>1, <2>3 DEF Undisturbed, RollUnsaved, Counted, UserBusy, UserAt
<1> QED
  BY <1>2, <1>3, <1>4 DEF QuotaInv

LEMMA RestartStep ==
    ASSUME QuotaInv, RestartQuota
    PROVE  QuotaInv'
<1>1. /\ quota' = Loaded /\ stored' = Loaded /\ saves' = 0
      /\ user' = [w \in Users |-> Away]
      /\ overlapped' = (overlapped \/ saves > 0 \/ ~AllAway)
      /\ UNCHANGED <<month, limit, commanded>>
  BY DEF RestartQuota
<1>2. /\ Loaded \in [month : 1..MaxMonth, devices : SUBSET Devices] /\ Loaded.month = month
      /\ Loaded.devices = Counted(stored)
  BY DEF QuotaInv, Trackers, Loaded, Counted
<1>3. Trackers'
  BY <1>1, <1>2 DEF QuotaInv, Trackers
<1>4. \A w \in Users : user'[w] = Away /\ ~UserBusy(w)' /\ user'[w].pc = "away"
  BY <1>1 DEF UserBusy, Away
<1>5. UsersKnown'
  <2>1. Recorders \subseteq Users /\ Reader \in Users
    BY DEF Users
  <2> QED
    BY <1>1, <1>4, <2>1 DEF UsersKnown, UserAt
<1>6. ASSUME ~overlapped' PROVE Undisturbed'
  <2>1. Undisturbed /\ saves = 0 /\ \A w \in Users : user[w].pc = "away"
    <3>1. ~overlapped /\ ~(saves > 0) /\ AllAway
      BY <1>1, <1>6
    <3>2. saves \in Nat
      BY DEF QuotaInv, Trackers
    <3> QED
      BY <3>1, <3>2 DEF QuotaInv, AllAway, Away
  <2>2. ~RollUnsaved
    BY <2>1 DEF RollUnsaved, UserAt, Users
  <2>3. Counted(stored) = commanded
    BY <2>1, <2>2 DEF Undisturbed
  <2>4. Counted(quota)' = commanded' /\ Counted(stored)' = commanded' /\ quota'.month = month'
    BY <1>1, <1>2, <2>3 DEF Counted
  <2> QED
    BY <1>4, <2>4 DEF Undisturbed, UserAt
<1> QED
  BY <1>3, <1>5, <1>6 DEF QuotaInv

LEMMA QuotaStep == QuotaInv /\ [QuotaNext]_quotaVars => QuotaInv'
<1> SUFFICES ASSUME QuotaInv, [QuotaNext]_quotaVars
             PROVE  QuotaInv'
  OBVIOUS
<1>1. CASE UNCHANGED quotaVars
  BY <1>1 DEF quotaVars, QuotaInv, Trackers, UsersKnown, Undisturbed, RollUnsaved, Counted,
              UserBusy, UserAt
<1> QED
  BY <1>1, NextMonthStep, BeginStep, SaveStep, RestartStep, RollStep, EmptyStep, AddStep
     DEF QuotaNext

-----------------------------------------------------------------------------
(* What remains of the allowance of a plan.                                *)
LEMMA RemainingIs ==
    ASSUME limit \in Int, limit # Unlimited, Cardinality(quota.devices) \in Nat
    PROVE  Remaining = IF Cardinality(quota.devices) > limit
                         THEN 0 ELSE limit - Cardinality(quota.devices)
<1> DEFINE n == Cardinality(quota.devices)
<1>1. Remaining = Max({0, limit - n})
  BY DEF Remaining
<1>2. n \in Nat
  OBVIOUS
<1> HIDE DEF n
<1>3. Max({0, limit - n}) = IF n > limit THEN 0 ELSE limit - n
  <2> DEFINE most == IF n > limit THEN 0 ELSE limit - n
  <2>1. /\ most \in {0, limit - n} /\ \A y \in {0, limit - n} : most >= y
        /\ \A x \in {0, limit - n} : (\A y \in {0, limit - n} : x >= y) => x = most
    BY <1>2
  <2> HIDE DEF most
  <2>2. Max({0, limit - n}) = CHOOSE x \in {0, limit - n} : \A y \in {0, limit - n} : x >= y
    BY DEF Max
  <2>3. Max({0, limit - n}) = most
    BY <2>1, <2>2
  <2> QED
    BY <2>3 DEF most
<1> QED
  BY <1>1, <1>3 DEF n

(* The number shown is what the hub used of its allowance: across months,  *)
(* threads and restarts the tracker at rest holds the devices commanded    *)
(* this month and what remains is never less than nothing, unless a roll   *)
(* met another thread or a restart an unsaved change.                      *)
THEOREM TrackerCounts == QuotaSpec => []CountsThisMonth
<1>1. QuotaInv => CountsThisMonth
  <2> SUFFICES ASSUME QuotaInv, AllAway, ~overlapped
               PROVE  /\ Counted(quota) = commanded
                      /\ limit # Unlimited /\ quota.month = month =>
                           Remaining = IF Cardinality(commanded) > limit
                                         THEN 0 ELSE limit - Cardinality(commanded)
    BY DEF CountsThisMonth, Counted
  <2>1. Counted(quota) = commanded
    BY DEF QuotaInv, Undisturbed, AllAway, UserAt, Away
  <2>2. limit \in Int /\ Cardinality(commanded) \in Nat
    BY QuotaAssumption, FS_Subset, FS_CardinalityType DEF QuotaInv, Trackers
  <2>3. quota.month = month => quota.devices = commanded
    BY <2>1 DEF Counted
  <2> QED
    BY <2>1, <2>2, <2>3, RemainingIs
<1> QED
  BY <1>1, QuotaInvInit, QuotaStep, PTL DEF QuotaSpec
=============================================================================
