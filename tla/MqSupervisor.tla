---------------------------- MODULE MqSupervisor ----------------------------
(***************************************************************************)
(* The message stream of the IoT account: the thread TuyaOpenMQ.run that   *)
(* connects an MQTT client and connects it again when it is lost, the      *)
(* network thread of that client, the timer that restarts a dead stream    *)
(* and the stop of the hub.  They share the lock of a stream; a stream is  *)
(* never started twice, refresh_mq makes a new one.                        *)
(*                                                                         *)
(* Threads step between two of their calls on the lock, the client or the  *)
(* cloud.  The lock is not reentrant: the second pass of _run_mqtt waits   *)
(* for the first one, which waits for it.  That state is "again", and no   *)
(* action leaves it.                                                       *)
(***************************************************************************)
EXTENDS Naturals, FiniteSets

CONSTANTS
    MaxStreams,     \* bound: streams made
    MaxRetries,     \* failures in a row after which a stream stops itself
    MaxTrouble      \* bound: answers of the cloud or events of the network that hurt

ASSUME MqAssumption == MaxStreams \in Nat \ {0} /\ MaxRetries \in Nat /\ MaxTrouble \in Nat

VARIABLES
    current,    \* device_manager.mq
    thread,     \* thread[i]: where the run loop of stream i is
    lock,       \* lock[i]: who holds _client_lock
    client,     \* client[i]: none, down or up
    network,    \* network[i]: the network thread of the client: none, running, stopping
    valid,      \* valid[i]: mq_config.is_valid()
    listening,  \* listening[i]: message_listeners is not empty
    stopped,    \* stopped[i]: _stop_event
    retries,    \* retries[i]: retry_amount
    refresh,    \* the refresh job: idle, stop, joining or new, and the stream it stops
    closing,    \* the stop of the hub: no, stop, joining, done
    made,       \* streams made
    mqTrouble   \* trouble so far

streamVars == <<thread, lock, client, network, valid, listening, stopped, retries>>
mqVars == <<current, streamVars, refresh, closing, made, mqTrouble>>

Streams == 1..MaxStreams
NoRefresh == [pc |-> "idle", stream |-> 1]

MqInit ==
    /\ current = 1 /\ made = 1 /\ mqTrouble = 0
    /\ thread = [i \in Streams |-> IF i = 1 THEN "try" ELSE "none"]
    /\ lock = [i \in Streams |-> "free"]
    /\ client = [i \in Streams |-> "none"] /\ network = [i \in Streams |-> "none"]
    /\ valid = [i \in Streams |-> FALSE] /\ listening = [i \in Streams |-> i = 1]
    /\ stopped = [i \in Streams |-> FALSE] /\ retries = [i \in Streams |-> 0]
    /\ refresh = NoRefresh /\ closing = "no"

Trouble == mqTrouble < MaxTrouble /\ mqTrouble' = mqTrouble + 1

-----------------------------------------------------------------------------
(* The run loop. *)

ThreadGoes(i, pc) == thread' = [thread EXCEPT ![i] = pc]
Take(i, who) == lock[i] = "free" /\ lock' = [lock EXCEPT ![i] = who]
Release(i) == lock' = [lock EXCEPT ![i] = "free"]

\* The loop looks at the stop event, then waits for the lock.
Loop(i) ==
    /\ thread[i] = "try"
    /\ ThreadGoes(i, IF stopped[i] THEN "dead" ELSE "lock")
    /\ UNCHANGED <<current, lock, client, network, valid, listening, stopped, retries, refresh,
                   closing, made, mqTrouble>>

\* _run_mqtt does nothing when connected, else it looks at its configuration.
Check(i) ==
    /\ thread[i] = "lock" /\ lock[i] = "free"
    /\ IF client[i] = "up" /\ valid[i]
         THEN /\ ThreadGoes(i, "try") /\ retries' = [retries EXCEPT ![i] = 0]
              /\ UNCHANGED lock
         ELSE /\ Take(i, "thread") /\ ThreadGoes(i, IF valid[i] THEN "drop" ELSE "config")
              /\ UNCHANGED retries
    /\ UNCHANGED <<current, client, network, valid, listening, stopped, refresh, closing, made,
                   mqTrouble>>

\* _get_mqtt_config asks twice before it gives up.
GetConfig(i) ==
    /\ thread[i] = "config"
    /\ valid' = [valid EXCEPT ![i] = TRUE] /\ ThreadGoes(i, "drop")
    /\ UNCHANGED <<current, lock, client, network, listening, stopped, retries, refresh, closing,
                   made, mqTrouble>>

GetConfigFails(i) ==
    /\ thread[i] = "config" /\ Trouble
    /\ ThreadGoes(i, "failed") /\ Release(i)
    /\ UNCHANGED <<current, client, network, valid, listening, stopped, retries, refresh, closing,
                   made>>

\* client.loop_stop() waits for the network thread, which may wait for the lock in stop().
Joined(i) == network[i] # "stopping"

DropClient(i) ==
    /\ thread[i] = "drop" /\ Joined(i)
    /\ client' = [client EXCEPT ![i] = "none"] /\ network' = [network EXCEPT ![i] = "none"]
    /\ ThreadGoes(i, "connect")
    /\ UNCHANGED <<current, lock, valid, listening, stopped, retries, refresh, closing, made,
                   mqTrouble>>

\* _start returns a connected client.
Connect(i) ==
    /\ thread[i] = "connect"
    /\ client' = [client EXCEPT ![i] = "up"] /\ network' = [network EXCEPT ![i] = "running"]
    /\ Release(i) /\ ThreadGoes(i, "try") /\ retries' = [retries EXCEPT ![i] = 0]
    /\ UNCHANGED <<current, valid, listening, stopped, refresh, closing, made, mqTrouble>>

\* connect raises: the loop will try again.
ConnectRaises(i) ==
    /\ thread[i] = "connect" /\ Trouble
    /\ Release(i) /\ ThreadGoes(i, "failed")
    /\ UNCHANGED <<current, client, network, valid, listening, stopped, retries, refresh, closing,
                   made>>

\* _start returns no client: the second pass waits for the lock that the first one holds.
ConnectReturnsNone(i) ==
    /\ thread[i] = "connect" /\ Trouble
    /\ valid' = [valid EXCEPT ![i] = FALSE] /\ ThreadGoes(i, "again")
    /\ UNCHANGED <<current, lock, client, network, listening, stopped, retries, refresh, closing,
                   made>>

\* The handler of run: after too many failures in a row the stream stops itself.
Failed(i) ==
    /\ thread[i] = "failed"
    /\ retries' = [retries EXCEPT ![i] = @ + 1]
    /\ ThreadGoes(i, IF retries[i] + 1 > MaxRetries THEN "giveUp" ELSE "try")
    /\ UNCHANGED <<current, lock, client, network, valid, listening, stopped, refresh, closing,
                   made, mqTrouble>>

-----------------------------------------------------------------------------
(* stop(), by the thread itself, a refresh, the hub or the network thread. *)

\* Mutant: stop leaves the listeners of the stream in place.
StoppedListening(i) ==
    /\ client' = [client EXCEPT ![i] = "none"]
    /\ network' = [network EXCEPT ![i] = "none"]
    /\ stopped' = [stopped EXCEPT ![i] = TRUE]
    /\ Release(i)
    /\ UNCHANGED listening

\* The rest of stop() once the lock is held and the network thread has ended.
Stopped(i) ==
    /\ client' = [client EXCEPT ![i] = "none"]
    /\ network' = [network EXCEPT ![i] = "none"]
    /\ stopped' = [stopped EXCEPT ![i] = TRUE]
    /\ listening' = [listening EXCEPT ![i] = FALSE]
    /\ Release(i)

GiveUp(i) ==
    /\ thread[i] = "giveUp" /\ Take(i, "thread") /\ ThreadGoes(i, "stopping")
    /\ UNCHANGED <<current, client, network, valid, listening, stopped, retries, refresh, closing,
                   made, mqTrouble>>

GaveUp(i) ==
    /\ thread[i] = "stopping" /\ Joined(i)
    /\ Stopped(i) /\ ThreadGoes(i, "try")
    /\ UNCHANGED <<current, valid, retries, refresh, closing, made, mqTrouble>>

\* _on_disconnect in the network thread: not authorized, so stop.
NotAuthorized(i) ==
    /\ network[i] = "running" /\ Trouble
    /\ network' = [network EXCEPT ![i] = "stopping"] /\ client' = [client EXCEPT ![i] = "down"]
    /\ UNCHANGED <<current, thread, lock, valid, listening, stopped, retries, refresh, closing, made>>

\* A network thread does not wait for itself.
NetworkStops(i) ==
    /\ network[i] = "stopping" /\ lock[i] = "free"
    /\ Stopped(i)
    /\ UNCHANGED <<current, thread, valid, retries, refresh, closing, made, mqTrouble>>

\* The connection is lost; the network thread connects it again by itself.
Lose(i) ==
    /\ client[i] = "up" /\ network[i] = "running" /\ Trouble
    /\ client' = [client EXCEPT ![i] = "down"]
    /\ UNCHANGED <<current, thread, lock, network, valid, listening, stopped, retries, refresh,
                   closing, made>>

Regain(i) ==
    /\ client[i] = "down" /\ network[i] = "running"
    /\ client' = [client EXCEPT ![i] = "up"]
    /\ UNCHANGED <<current, thread, lock, network, valid, listening, stopped, retries, refresh,
                   closing, made, mqTrouble>>

\* The configuration expires.
ConfigExpires(i) ==
    /\ valid[i] /\ Trouble
    /\ valid' = [valid EXCEPT ![i] = FALSE]
    /\ UNCHANGED <<current, thread, lock, client, network, listening, stopped, retries, refresh,
                   closing, made>>

-----------------------------------------------------------------------------
(* The supervisor and the stop of the hub. *)

\* _check: the thread of the current stream is dead, so refresh_mq runs in the executor;
\* it ends, or waits for ever, before the timer fires again.
Supervise ==
    /\ closing = "no" /\ refresh.pc = "idle" /\ thread[current] = "dead" /\ made < MaxStreams
    /\ refresh' = [pc |-> "stop", stream |-> current]
    /\ UNCHANGED <<current, streamVars, closing, made, mqTrouble>>

RefreshStop ==
    /\ refresh.pc = "stop" /\ Take(refresh.stream, "refresh")
    /\ refresh' = [refresh EXCEPT !.pc = "joining"]
    /\ UNCHANGED <<current, thread, client, network, valid, listening, stopped, retries, closing,
                   made, mqTrouble>>

RefreshStopped ==
    /\ refresh.pc = "joining" /\ Joined(refresh.stream)
    /\ Stopped(refresh.stream) /\ refresh' = [refresh EXCEPT !.pc = "new"]
    /\ UNCHANGED <<current, thread, valid, retries, closing, made, mqTrouble>>

\* The new stream takes the place of the old one, and starts.
RefreshNew ==
    /\ refresh.pc = "new"
    /\ made' = made + 1 /\ current' = made'
    /\ thread' = [thread EXCEPT ![made'] = "try"]
    /\ listening' = [listening EXCEPT ![made'] = TRUE]
    /\ refresh' = NoRefresh
    /\ UNCHANGED <<lock, client, network, valid, stopped, retries, closing, mqTrouble>>

\* on_mqtt_stop of the hub stops the stream that is current then; the timer is gone.
CloseHub ==
    /\ closing = "no" /\ Take(current, "hub")
    /\ closing' = "joining"
    /\ UNCHANGED <<current, thread, client, network, valid, listening, stopped, retries, refresh,
                   made, mqTrouble>>

HubClosed ==
    /\ closing = "joining"
    /\ \E i \in Streams :
         /\ lock[i] = "hub" /\ Joined(i)
         /\ Stopped(i)
    /\ closing' = "done"
    /\ UNCHANGED <<current, thread, valid, retries, refresh, made, mqTrouble>>

-----------------------------------------------------------------------------
ThreadStep(i) ==
    Loop(i) \/ Check(i) \/ GetConfig(i) \/ DropClient(i) \/ Connect(i) \/ Failed(i)
      \/ GiveUp(i) \/ GaveUp(i)

NetworkStep(i) == NetworkStops(i) \/ Regain(i)

Troubles(i) ==
    GetConfigFails(i) \/ ConnectRaises(i) \/ ConnectReturnsNone(i) \/ NotAuthorized(i)
      \/ Lose(i) \/ ConfigExpires(i)

RefreshStep == Supervise \/ RefreshStop \/ RefreshStopped \/ RefreshNew

MqNext ==
    \/ \E i \in Streams : ThreadStep(i) \/ NetworkStep(i) \/ Troubles(i)
    \/ RefreshStep
    \/ CloseHub \/ HubClosed

MqSpec == MqInit /\ [][MqNext]_mqVars

\* Every thread that can step does, a network thread that lost its connection gets it
\* back, and the timer fires; trouble and the end of the hub need not come.
MqFairSpec ==
    /\ MqSpec
    /\ \A i \in Streams : WF_mqVars(ThreadStep(i)) /\ WF_mqVars(NetworkStep(i))
    /\ WF_mqVars(RefreshStep)

-----------------------------------------------------------------------------
(* Properties. *)

MqTypeOK ==
    /\ current \in 1..made /\ made \in Streams /\ mqTrouble \in 0..MaxTrouble
    /\ thread \in [Streams -> {"none", "try", "lock", "config", "drop", "connect", "again",
                               "failed", "giveUp", "stopping", "dead"}]
    /\ lock \in [Streams -> {"free", "thread", "refresh", "hub"}]
    /\ client \in [Streams -> {"none", "down", "up"}]
    /\ network \in [Streams -> {"none", "running", "stopping"}]
    /\ valid \in [Streams -> BOOLEAN] /\ listening \in [Streams -> BOOLEAN]
    /\ stopped \in [Streams -> BOOLEAN] /\ retries \in [Streams -> 0..(MaxRetries + 1)]
    /\ refresh \in [pc : {"idle", "stop", "joining", "new"}, stream : Streams]
    /\ closing \in {"no", "joining", "done"}

\* What reaches the hub comes from one stream, whatever was stopped, restarted or
\* rebuilt on the way: a stream that was stopped may still connect its client (the
\* loop looked at the stop event before), but it has nobody to tell.
SoleStream == Cardinality({i \in Streams : listening[i]}) <= 1

\* The supervisor's comment (managers/tuya_iot/init.py 415-417): a thread that is alive
\* but disconnected rebuilds its own client; _on_disconnect (openmq.py 255-256) counts on
\* it too.  With the restart of dead threads, the hub's stream comes back in the end.
MqRebuilds == <>[](closing # "no" \/ client[current] = "up" \/ made = MaxStreams)
=============================================================================
