---------------------------- MODULE ValveTimers ----------------------------
(***************************************************************************)
(* The timers of one valve and everything that changes them: the timer     *)
(* services of entity_parser/valves/timer_service.py, the daily sweep of   *)
(* timer_reconcile.py, the registry sensor that reads the DP, the hub's    *)
(* quota breaker (transport/port.py) and, outside the code, the valve, the *)
(* report path, the cloud's timer registry and the SmartLife app.          *)
(*                                                                         *)
(* A service is a coroutine: it runs without interruption between awaits,  *)
(* so each step of a call is what happens from one await to the next.  The *)
(* remote side answers in a step of its own (Serve), and the coroutine    *)
(* resumes later (Resume), with everything else in between.               *)
(***************************************************************************)
EXTENDS TimerState, Sequences

CONSTANTS Calls,        \* service calls that can be in flight at a time
          Serial,       \* TRUE: an operation starts only when none is running
          MaxWire,      \* reports in flight
          MaxOps,       \* service calls of a behaviour
          MaxTrouble    \* SmartLife edits, remote calls that do not answer ok,
                        \* reports lost on the way and restarts of a behaviour

ASSUME BoundsAssumption ==
    /\ Serial \in BOOLEAN
    /\ {MaxWire, MaxOps, MaxTrouble} \subseteq Nat

VARIABLES
    dev,        \* the valve: its slots, the truth that waters
    window,     \* the timer DP: the last frame written, None before the first
    wire,       \* reports on their way to Home Assistant, in order
    cloud,      \* the cloud's timer registry, by group id
    hub,        \* the hub's settings: "mirror", "dp_only" or "no_account"
    breaker,    \* TRUE while the quota breaker is open
    live,       \* TRUE while the registry sensor is set up and registered
    slots, last, overlay, cloudOnly, stamp, restored,   \* its TimerState
    dp,         \* device.status[timer DP]: the last report received
    saved,      \* what the last restore-state dump holds
    calls,      \* the service calls in flight
    budget,     \* what is left of the bounds
    blind,      \* slots whose last report HA could not take in (history)
    clean,      \* no failed call and no overlapping writes so far (history)
    rolledBack  \* slots the cloud dropped while the valve kept them (history)

device == <<dev, window, wire>>
timerState == <<slots, last, overlay, cloudOnly, stamp, restored>>
ha == <<live, timerState, dp, saved>>
vars == <<device, cloud, hub, breaker, ha, calls, budget, blind, clean, rolledBack>>

Reply == {"pending", "ok", "failed", "quota"}

Call == [op: {"idle", "set", "delete", "resync", "sweep"},
         pc: {"idle", "dp", "get", "del", "post", "clr"},
         reply: Reply, slot: Slots, timer: Held, prior: Held,
         snap: [Slots -> Held], list: SUBSET Entry, orphans: SUBSET Slots]

Idle == [op |-> "idle", pc |-> "idle", reply |-> "pending", slot |-> 0,
         timer |-> None, prior |-> None, snap |-> NoSlots, list |-> {},
         orphans |-> {}]

Saved == [slots: [Slots -> Held], overlay: [Slots -> Labels],
          cloudOnly: SUBSET Keys, stamp: {0, 1}]

Budget == [ops: Nat, trouble: Nat]

WorldTypes ==
    /\ dev \in [Slots -> Held]
    /\ window \in Frame \cup {None}
    /\ wire \in Seq(Frame)
    /\ cloud \in [Gids -> Entry \cup {None}]
    /\ hub \in {"mirror", "dp_only", "no_account"}
    /\ breaker \in BOOLEAN

RegistryTypes ==
    /\ live \in BOOLEAN
    /\ slots \in [Slots -> Held]
    /\ last \in Frame \cup {None}
    /\ overlay \in [Slots -> Labels]
    /\ cloudOnly \in SUBSET Keys
    /\ stamp \in {0, 1}
    /\ restored \in BOOLEAN
    /\ dp \in Frame \cup {None}
    /\ dp = None => last = None
    /\ saved \in Saved \cup {None}

CallTypes ==
    /\ calls \in [Calls -> Call]
    /\ budget \in Budget

(* only set_timer posts, and it has a timer to post *)
CallShape(call) == /\ call.op = "set" => call.timer # None
                   /\ call.pc = "post" => call.op = "set"

CallShapes == \A c \in Calls : CallShape(calls[c])

HistoryTypes ==
    /\ blind \in SUBSET Slots
    /\ clean \in BOOLEAN
    /\ rolledBack \in SUBSET Slots

(* Every variable keeps its type.                                          *)
TypeOK == WorldTypes /\ RegistryTypes /\ CallTypes /\ CallShapes /\ HistoryTypes

Init ==
    /\ dev = NoSlots /\ window = None /\ wire = <<>>
    /\ cloud = [g \in Gids |-> None]
    /\ hub \in {"mirror", "dp_only", "no_account"}
    /\ breaker = FALSE
    /\ live = TRUE
    /\ slots = NoSlots /\ last = None /\ overlay = NoLabels
    /\ cloudOnly = {} /\ stamp = 0 /\ restored = FALSE
    /\ dp = None /\ saved = None
    /\ calls = [c \in Calls |-> Idle]
    /\ budget = [ops |-> MaxOps, trouble |-> MaxTrouble]
    /\ blind = {} /\ clean = TRUE /\ rolledBack = {}

-----------------------------------------------------------------------------
(* Helpers                                                                 *)

Spend(what) == budget[what] > 0 /\ budget' = [budget EXCEPT ![what] = @ - 1]

NoCalls == \A c \in Calls : calls[c].op = "idle"

Unread == live /\ dp # last

Pending(i) == \/ \E k \in DOMAIN wire : wire[k].index = i
              \/ Unread /\ dp.index = i

KeyOf(held) == IF held = None THEN {} ELSE {held.key}

(* A call that writes slot i concerns none of what the calls in flight do,  *)
(* and Home Assistant is right about the slot.                              *)
Undisturbed(i, t) ==
    /\ live /\ slots[i] = dev[i] /\ ~Pending(i)
    /\ \A c \in Calls :
          \/ calls[c].op \in {"idle", "sweep"}
          \/ /\ calls[c].op \in {"set", "delete"} /\ calls[c].slot # i
             /\ (KeyOf(calls[c].timer) \cup KeyOf(calls[c].prior))
                   \cap (KeyOf(t) \cup KeyOf(dev[i])) = {}

Settled == live /\ wire = <<>> /\ ~Unread /\ slots = dev /\ NoCalls

Entries == {cloud[g] : g \in {h \in Gids : cloud[h] # None}}

(* Group ids are unique for good: a new one is in no listing held by a call *)
FreshGids == {g \in Gids : /\ cloud[g] = None
                           /\ \A c \in Calls : \A e \in calls[c].list : e.gid # g}

(* The valve takes a DP write and reports it.  While Home Assistant is     *)
(* down nobody receives the report.                                        *)
DeviceTakes(f) ==
    /\ dev' = [dev EXCEPT ![f.index] = f.timer]
    /\ window' = f
    /\ IF live THEN /\ Len(wire) < MaxWire
                    /\ wire' = Append(wire, f)
                    /\ UNCHANGED blind
               ELSE /\ wire' = wire
                    /\ blind' = blind \cup {f.index}
    /\ rolledBack' = rolledBack \ {f.index}

(* What a call step leaves alone when it does not concern the registry     *)
KeepTimers == UNCHANGED <<ha, blind>>
KeepWorld == UNCHANGED <<device, cloud, rolledBack>>

Step(c, call) == calls' = [calls EXCEPT ![c] = call]
Finish(c) == Step(c, Idle)

(* Mutant: the change is not stamped.                                      *)
TouchForgotten(changed) == UNCHANGED stamp

(* changed_at is a timestamp; a bit that flips tells the same              *)
Touch(changed) == stamp' = IF changed THEN 1 - stamp ELSE stamp

-----------------------------------------------------------------------------
(* The registry sensor                                                     *)

(* apply_report ignores the payload it applied last, also where the slot   *)
(* has changed since (a clear, while the reports in between went unread).  *)
Swallowed(f) == f = last /\ slots[f.index] # f.timer

(* device.status takes the report; a report not read yet is overwritten    *)
Arrive ==
    /\ live /\ wire # <<>>
    /\ dp' = Head(wire) /\ wire' = Tail(wire)
    /\ blind' = blind \cup (IF Unread THEN {dp.index} \ {Head(wire).index} ELSE {})
                     \cup (IF Swallowed(Head(wire)) THEN {Head(wire).index} ELSE {})
    /\ UNCHANGED <<dev, window, cloud, hub, breaker, live, timerState, saved,
                   calls, budget, clean, rolledBack>>

Lose ==
    /\ wire # <<>> /\ Spend("trouble")
    /\ wire' = Tail(wire)
    /\ blind' = blind \cup {Head(wire).index}
    /\ UNCHANGED <<dev, window, cloud, hub, breaker, ha, calls, clean, rolledBack>>

(* TimerState.apply_report on f; the slots it loses track of become blind  *)
ApplyReport(sl, ov, only, st, rest, f) ==
    LET after == AfterReport(sl, f)
        labels == LabelsAfterReport(sl, ov, rest, f)
    IN  /\ slots' = after
        /\ overlay' = labels
        /\ cloudOnly' = only
        /\ stamp' = IF after # sl \/ Planned(after, labels, only) # Planned(sl, ov, only)
                    THEN 1 - st ELSE st
        /\ last' = f
        /\ restored' = FALSE

Read ==
    /\ Unread
    /\ ApplyReport(slots, overlay, cloudOnly, stamp, restored, dp)
    /\ blind' = (IF dp.timer = dev[dp.index] THEN blind \ {dp.index} ELSE blind)
                  \cup {i \in Duplicates(slots, dp) : dev[i] # None}
    /\ UNCHANGED <<device, cloud, hub, breaker, live, dp, saved, calls, budget,
                   clean, rolledBack>>

(* Home Assistant writes the sensor's state to disk: periodically, or when *)
(* it stops.                                                               *)
Snapshot == [slots |-> slots, overlay |-> overlay, cloudOnly |-> cloudOnly,
             stamp |-> stamp]

Dump ==
    /\ live /\ budget.trouble > 0 /\ saved # Snapshot
    /\ saved' = Snapshot
    /\ UNCHANGED <<device, cloud, hub, breaker, live, timerState, dp, calls,
                   budget, blind, clean, rolledBack>>

SavedSlots(s) == IF s = None THEN NoSlots ELSE s.slots

(* Home Assistant stops, in order or by a crash: every coroutine ends where*)
(* it is, the breaker and the timer state go, unread reports are lost.     *)
Stop(graceful) ==
    LET kept == IF graceful THEN Snapshot ELSE saved
    IN  /\ live /\ Spend("trouble")
        /\ saved' = kept
        /\ blind' = blind \cup {i \in Slots : SavedSlots(kept)[i] # slots[i]}
                      \cup {wire[k].index : k \in DOMAIN wire}
                      \cup (IF Unread THEN {dp.index} ELSE {})
        /\ clean' = (clean /\ NoCalls)
        /\ live' = FALSE /\ breaker' = FALSE
        /\ slots' = NoSlots /\ last' = None /\ overlay' = NoLabels
        /\ cloudOnly' = {} /\ stamp' = 0 /\ restored' = FALSE
        /\ dp' = None /\ wire' = <<>>
        /\ calls' = [c \in Calls |-> Idle]
        /\ UNCHANGED <<dev, window, cloud, hub, rolledBack>>

(* async_added_to_hass: restore, then the standing DP on top, then register *)
Load ==
    /\ ~live
    /\ live' = TRUE
    /\ dp' = window
    /\ LET fresh == saved = None
           s == IF fresh THEN [slots |-> NoSlots, overlay |-> NoLabels,
                               cloudOnly |-> {}, stamp |-> 0] ELSE saved
       IN  IF window = None
           THEN /\ slots' = s.slots /\ overlay' = s.overlay
                /\ cloudOnly' = s.cloudOnly /\ stamp' = s.stamp
                /\ last' = None /\ restored' = ~fresh
                /\ UNCHANGED blind
           ELSE /\ ApplyReport(s.slots, s.overlay, s.cloudOnly, s.stamp, ~fresh, window)
                /\ blind' = (blind \ {window.index})
                              \cup {i \in Duplicates(s.slots, window) : dev[i] # None}
    /\ UNCHANGED <<dev, window, wire, cloud, hub, breaker, saved, calls, budget,
                   clean, rolledBack>>

-----------------------------------------------------------------------------
(* Starting a service                                                      *)

MayStart(c) ==
    /\ calls[c].op = "idle"
    /\ Serial => NoCalls
    /\ Spend("ops")

(* set_timer up to its DP write; prior is read before anything is written  *)
SetTimer(c, i, t) ==
    /\ MayStart(c)
    /\ Step(c, [Idle EXCEPT !.op = "set", !.pc = "dp", !.slot = i, !.timer = t,
                            !.prior = IF live THEN slots[i] ELSE None])
    /\ clean' = (clean /\ Undisturbed(i, t)
                        /\ \A j \in Slots \ {i} : t.key \notin KeyOf(dev[j]))
    /\ KeepTimers /\ KeepWorld /\ UNCHANGED <<hub, breaker>>

DeleteTimer(c, i) ==
    /\ MayStart(c)
    /\ Step(c, [Idle EXCEPT !.op = "delete", !.pc = "dp", !.slot = i,
                            !.prior = IF live THEN slots[i] ELSE None])
    /\ clean' = (clean /\ Undisturbed(i, None))
    /\ KeepTimers /\ KeepWorld /\ UNCHANGED <<hub, breaker>>

(* resync_from_cloud takes its snapshot of the slots before the GET        *)
Resync(c) ==
    /\ hub = "mirror" /\ live
    /\ MayStart(c)
    /\ Step(c, [Idle EXCEPT !.op = "resync", !.pc = "get", !.snap = slots])
    /\ clean' = (clean /\ Settled)
    /\ KeepTimers /\ KeepWorld /\ UNCHANGED <<hub, breaker>>

Sweep(c) ==
    /\ hub # "no_account" /\ live
    /\ MayStart(c)
    /\ Step(c, [Idle EXCEPT !.op = "sweep", !.pc = "get"])
    /\ KeepTimers /\ KeepWorld /\ UNCHANGED <<hub, breaker, clean>>

-----------------------------------------------------------------------------
(* The remote side answers                                                 *)

Answer(c, reply) ==
    /\ calls[c].reply = "pending"
    /\ IF reply = "ok" THEN UNCHANGED <<budget, clean>>
                       ELSE Spend("trouble") /\ clean' = FALSE

Replied(c, reply) == Step(c, [calls[c] EXCEPT !.reply = reply])

WritesDp(c) == calls[c].pc \in {"dp", "clr"}

FrameOf(c) == [index |-> calls[c].slot, timer |-> calls[c].timer]

(* a failed DP write may have reached the valve all the same               *)
ServeDp(c, reply, taken) ==
    /\ WritesDp(c) /\ Answer(c, reply) /\ Replied(c, reply)
    /\ IF taken THEN DeviceTakes(FrameOf(c))
                ELSE UNCHANGED <<device, blind, rolledBack>>
    /\ UNCHANGED <<cloud, hub, breaker, ha>>

(* the listing of the registry, or a successful answer that is empty; a    *)
(* read is never stopped by the lockout, but may meet the quota too        *)
ServeGet(c, reply, list) ==
    /\ calls[c].pc = "get" /\ calls[c].reply = "pending"
    /\ IF reply = "ok" /\ list = Entries
       THEN UNCHANGED <<budget, clean>>
       ELSE Spend("trouble") /\ clean' = (clean /\ calls[c].op = "resync")
    /\ Step(c, [calls[c] EXCEPT !.reply = reply, !.list = list])
    /\ KeepTimers /\ KeepWorld /\ UNCHANGED <<hub, breaker>>

ServePost(c, reply, taken) ==
    /\ calls[c].pc = "post" /\ Answer(c, reply) /\ Replied(c, reply)
    /\ IF taken
       THEN \E g \in FreshGids :
               cloud' = [cloud EXCEPT ![g] = [gid |-> g, key |-> calls[c].timer.key,
                                              alias |-> None, on |-> TRUE]]
       ELSE UNCHANGED cloud
    /\ KeepTimers /\ UNCHANGED <<device, rolledBack, hub, breaker>>

(* one DELETE of the group ids still to go                                 *)
ServeDel(c, reply, taken) ==
    /\ calls[c].pc = "del" /\ Answer(c, reply)
    /\ \E e \in calls[c].list :
          /\ Step(c, [calls[c] EXCEPT !.reply = reply, !.list = @ \ {e}])
          /\ cloud' = IF taken THEN [cloud EXCEPT ![e.gid] = None] ELSE cloud
    /\ KeepTimers /\ UNCHANGED <<device, rolledBack, hub, breaker>>

-----------------------------------------------------------------------------
(* A service resumes                                                       *)

Resumes(c, at) == calls[c].pc = at /\ calls[c].reply # "pending"

(* the quota error opens the breaker as the answer reaches port.cloud      *)
BreakerAfter(c) == breaker \/ calls[c].reply = "quota"

Await(c, at) == Step(c, [calls[c] EXCEPT !.pc = at, !.reply = "pending"])

(* Mutants: the disabled timer is posted too; the lockout is not looked at *)
(* again before the post.                                                  *)
PostDisabledToo(c, blocked) ==
    IF calls[c].op = "set" /\ ~blocked
    THEN Step(c, [calls[c] EXCEPT !.pc = "post", !.reply = "pending", !.list = {}])
    ELSE Finish(c)

PostInLockout(c, blocked) ==
    IF calls[c].op = "set" /\ calls[c].timer.on
    THEN Step(c, [calls[c] EXCEPT !.pc = "post", !.reply = "pending", !.list = {}])
    ELSE Finish(c)

(* set_timer once the prior cloud entry is dealt with: a disabled timer is *)
(* never posted, and a lockout skips the post                              *)
PostOrFinish(c, blocked) ==
    IF calls[c].op = "set" /\ calls[c].timer.on /\ ~blocked
    THEN Step(c, [calls[c] EXCEPT !.pc = "post", !.reply = "pending", !.list = {}])
    ELSE Finish(c)

DpResume(c) ==
    /\ Resumes(c, "dp")
    /\ IF calls[c].reply # "ok" \/ hub # "mirror" THEN Finish(c)
       ELSE IF calls[c].prior # None /\ ~breaker THEN Await(c, "get")
       ELSE PostOrFinish(c, breaker)
    /\ clean' = (clean /\ hub = "mirror" /\ ~breaker)
    /\ KeepTimers /\ KeepWorld /\ UNCHANGED <<hub, breaker, budget>>

(* Mutant: an edit deletes what matches the new time instead of the prior. *)
MatchNewTime(c) ==
    {e \in calls[c].list : \E t \in {calls[c].timer, calls[c].prior} :
        e.key \in KeyOf(t) /\ (t = calls[c].prior => calls[c].op = "delete")}

(* every group with the prior time and days                                *)
CloudMatch(c) == {e \in calls[c].list : e.key = calls[c].prior.key}

(* _delete_cloud_timer_by_match has its listing                            *)
GetResume(c) ==
    /\ Resumes(c, "get") /\ calls[c].op \in {"set", "delete"}
    /\ IF calls[c].reply = "ok" /\ CloudMatch(c) # {} /\ ~breaker
       THEN Step(c, [calls[c] EXCEPT !.pc = "del", !.reply = "pending",
                                     !.list = CloudMatch(c)])
       ELSE PostOrFinish(c, BreakerAfter(c))
    /\ breaker' = BreakerAfter(c) /\ clean' = (clean /\ ~BreakerAfter(c))
    /\ KeepTimers /\ KeepWorld /\ UNCHANGED <<hub, budget>>

DelResume(c) ==
    /\ Resumes(c, "del")
    /\ breaker' = BreakerAfter(c)
    /\ IF calls[c].list # {} /\ ~BreakerAfter(c) THEN Await(c, "del")
       ELSE PostOrFinish(c, BreakerAfter(c))
    /\ clean' = (clean /\ ~BreakerAfter(c))
    /\ KeepTimers /\ KeepWorld /\ UNCHANGED <<hub, budget>>

PostResume(c) ==
    /\ Resumes(c, "post")
    /\ breaker' = BreakerAfter(c)
    /\ Finish(c)
    /\ KeepTimers /\ KeepWorld /\ UNCHANGED <<hub, budget, clean>>

(* TimerState.apply_cloud                                                  *)
ApplyCloud(list) ==
    IF Trusted(slots, list)
    THEN LET labels == LabelsFromCloud(slots, list, hub = "mirror")
             only == CloudOnly(slots, list)
         IN  /\ overlay' = labels /\ cloudOnly' = only
             /\ Touch(Planned(slots, labels, only) # Planned(slots, overlay, cloudOnly))
             /\ UNCHANGED <<live, slots, last, restored, dp, saved>>
    ELSE UNCHANGED ha

SweepResume(c) ==
    /\ Resumes(c, "get") /\ calls[c].op = "sweep"
    /\ IF calls[c].reply = "ok" THEN ApplyCloud(calls[c].list) ELSE UNCHANGED ha
    /\ Finish(c) /\ breaker' = BreakerAfter(c)
    /\ KeepWorld /\ UNCHANGED <<hub, budget, blind, clean>>

(* Mutant: the slots are numbered from 1.                                  *)
ClearFirstFromOne(c, orphans) ==
    IF orphans = {} THEN Finish(c)
    ELSE \E i \in orphans :
            Step(c, [Idle EXCEPT !.op = "resync", !.pc = "clr", !.slot = i + 1,
                                 !.orphans = orphans \ {i},
                                 !.snap = calls[c].snap, !.list = calls[c].list])

(* Mutant: an empty registry clears every enabled slot.                    *)
MayClearOnEmpty(list) == ~breaker

(* an empty registry is no proof of orphans, and a lockout defers them     *)
MayClear(list) == list # {} /\ ~breaker

(* the loop over the snapshot: one DP clear per orphan, in slot order; the  *)
(* snapshot and the listing are what the loop judges to its end             *)
ClearFirst(c, orphans) ==
    IF orphans = {} THEN Finish(c)
    ELSE \E i \in orphans :
            /\ \A j \in orphans : i <= j
            /\ Step(c, [Idle EXCEPT !.op = "resync", !.pc = "clr", !.slot = i,
                                    !.orphans = orphans \ {i},
                                    !.snap = calls[c].snap, !.list = calls[c].list])

(* resync labels the live slots, then judges the snapshot it took before   *)
(* the GET                                                                 *)
ResyncResume(c) ==
    /\ Resumes(c, "get") /\ calls[c].op = "resync"
    /\ IF calls[c].reply = "ok"
       THEN LET list == calls[c].list
                orphans == Orphans(calls[c].snap, list)
            IN  /\ ApplyCloud(list)
                /\ IF MayClear(list) THEN ClearFirst(c, orphans) ELSE Finish(c)
       ELSE Finish(c) /\ UNCHANGED ha
    /\ breaker' = BreakerAfter(c)
    /\ KeepWorld /\ UNCHANGED <<hub, budget, blind, clean>>

(* TimerState.clear once the valve accepted the clear, then the next orphan *)
ClearResume(c) ==
    LET i == calls[c].slot
    IN  /\ Resumes(c, "clr")
        /\ IF calls[c].reply = "ok"
           THEN /\ slots' = [slots EXCEPT ![i] = None]
                /\ overlay' = [overlay EXCEPT ![i] = "none"]
                /\ Touch(slots[i] # None)
                /\ UNCHANGED <<live, last, cloudOnly, restored, dp, saved>>
           ELSE UNCHANGED ha
        /\ ClearFirst(c, calls[c].orphans)
        /\ KeepWorld /\ UNCHANGED <<hub, breaker, budget, blind, clean>>

-----------------------------------------------------------------------------
(* Time and the SmartLife app                                              *)

(* six hours pass, or the clear service runs                               *)
BreakerCloses ==
    /\ breaker /\ breaker' = FALSE
    /\ UNCHANGED <<device, cloud, hub, ha, calls, budget, blind, clean, rolledBack>>

MayEdit == Spend("trouble") /\ (Serial => NoCalls)

AppSet(i, k, aliased) ==
    /\ MayEdit
    /\ DeviceTakes([index |-> i, timer |-> [key |-> k, on |-> TRUE]])
    /\ \E g \in FreshGids :
          cloud' = [cloud EXCEPT ![g] = [gid |-> g, key |-> k, on |-> TRUE,
                                         alias |-> IF aliased THEN i ELSE None]]
    /\ clean' = (clean /\ dev[i] = None /\ NoCalls
                        /\ \A j \in Slots \ {i} : k \notin KeyOf(dev[j]))
    /\ UNCHANGED <<hub, breaker, ha, calls>>

(* the app removes an entry; the slot is cleared too, or left live         *)
AppDelete(g, i, reached) ==
    /\ MayEdit
    /\ cloud[g] # None /\ dev[i] # None /\ dev[i].key = cloud[g].key
    /\ cloud' = [cloud EXCEPT ![g] = None]
    /\ IF reached
       THEN /\ DeviceTakes([index |-> i, timer |-> None])
            /\ clean' = (clean /\ NoCalls)
       ELSE /\ rolledBack' = rolledBack \cup {i}
            /\ clean' = FALSE
            /\ UNCHANGED <<device, blind>>
    /\ UNCHANGED <<hub, breaker, ha, calls>>

(* switching an old valve's timer off does not reach the DP                *)
AppDisable(g) ==
    /\ MayEdit
    /\ cloud[g] # None /\ cloud[g].alias # None /\ cloud[g].on
    /\ cloud' = [cloud EXCEPT ![g].on = FALSE]
    /\ clean' = FALSE
    /\ UNCHANGED <<device, hub, breaker, ha, calls, blind, rolledBack>>

-----------------------------------------------------------------------------
Serve(c) ==
    \/ \E taken \in BOOLEAN : ServeDp(c, "failed", taken)
    \/ ServeDp(c, "ok", TRUE)
    \/ ServeGet(c, "ok", Entries)
    \/ ServeGet(c, "ok", {})
    \/ \E reply \in {"failed", "quota"} : ServeGet(c, reply, {})
    \/ \E taken \in BOOLEAN : ServePost(c, "failed", taken)
    \/ ServePost(c, "quota", FALSE)
    \/ ServePost(c, "ok", TRUE)
    \/ \E taken \in BOOLEAN : ServeDel(c, "failed", taken)
    \/ ServeDel(c, "quota", FALSE)
    \/ ServeDel(c, "ok", TRUE)

Resume(c) == \/ DpResume(c) \/ GetResume(c) \/ DelResume(c) \/ PostResume(c)
             \/ SweepResume(c) \/ ResyncResume(c) \/ ClearResume(c)

Start(c) == \/ \E i \in Slots : \E t \in Timer : SetTimer(c, i, t)
            \/ \E i \in Slots : DeleteTimer(c, i)
            \/ Resync(c)
            \/ Sweep(c)

App == \/ \E i \in Slots : \E k \in Keys : \E aliased \in BOOLEAN : AppSet(i, k, aliased)
       \/ \E g \in Gids : \E i \in Slots : \E reached \in BOOLEAN : AppDelete(g, i, reached)
       \/ \E g \in Gids : AppDisable(g)

Registry == Arrive \/ Lose \/ Read \/ Dump \/ Load \/ \E graceful \in BOOLEAN : Stop(graceful)

Next == (\E c \in Calls : Start(c) \/ Serve(c) \/ Resume(c)) \/ Registry
            \/ BreakerCloses \/ App

Spec == Init /\ [][Next]_vars

-----------------------------------------------------------------------------
(* Properties                                                              *)

(* Home Assistant's slots are the valve's: while one operation runs at a   *)
(* time, a slot differs from the valve only while its report is on the way *)
(* (in transit, or received and not yet read), or because that report was  *)
(* never taken in (lost, overwritten unread, equal to the payload applied  *)
(* last, or dropped as a stale duplicate).  apply_report, clear, restore   *)
(* and the priming on start all have to agree.                             *)
MirrorExact ==
    live => \A i \in Slots : slots[i] = dev[i] \/ i \in blind \/ Pending(i)

Count(k, held) == Cardinality({x \in DOMAIN held : held[x] # None /\ held[x].key = k})

(* The cloud mirror is exact: as long as no operation fails, and those in  *)
(* flight together concern different slots, times and days, SmartLife      *)
(* lists each enabled timer of the valve exactly once and nothing else,    *)
(* through any interleaving of sets, edits, disables, deletes, sweeps,     *)
(* resyncs and restarts (set_timer, delete_timer).                         *)
CloudMirrors ==
    (clean /\ hub = "mirror" /\ NoCalls) =>
        \A k \in Keys : Count(k, cloud) = Count(k, [i \in ActiveSlots(dev) |-> dev[i]])

(* resync_from_cloud clears slot i on the valve in this step               *)
ResyncClears(c, i) ==
    /\ calls[c].op = "resync" /\ calls[c].pc = "clr" /\ calls[c].reply = "pending"
    /\ i = calls[c].slot /\ dev[i] # None /\ dev'[i] = None

(* A resync that starts settled, and that no other write overlaps, never   *)
(* wipes a timer of the valve that the cloud lists.  Whatever overlaps it, *)
(* a timer it read before the GET and that is still in its slot is wiped   *)
(* only if it is enabled and the cloud listed timers, but none at its time *)
(* (resync_from_cloud, audit C7).  What changed in between it does not see *)
(* (ResyncSparesDisabled, OrphansWereDropped).                             *)
ResyncSparesListed ==
    [][\A c \in Calls : \A i \in Slots : ResyncClears(c, i) =>
          /\ clean => \A e \in Entries : e.key # dev[i].key
          /\ calls[c].snap[i] = dev[i] =>
               /\ dev[i].on /\ calls[c].list # {}
               /\ \A e \in calls[c].list : e.key # dev[i].key]_vars

(* What the docstring of resync_from_cloud takes for granted: an enabled   *)
(* slot without a cloud entry is one the cloud dropped, because set_timer  *)
(* posts every enabled timer.                                              *)
OrphansWereDropped ==
    [][\A c \in Calls : \A i \in Slots :
          ResyncClears(c, i) /\ slots[i] = dev[i] => i \in rolledBack]_vars

(* What the same docstring promises: a resync leaves the timers the user   *)
(* disabled alone.                                                         *)
ResyncSparesDisabled ==
    [][\A c \in Calls : \A i \in Slots : ResyncClears(c, i) => dev[i].on]_vars

DistinctKeys(held) ==
    \A i, j \in Slots : (i # j /\ held[i] # None /\ held[j] # None)
                            => held[i].key # held[j].key

(* No two slots of Home Assistant hold the same time and days, through any *)
(* interleaving of reports, clears and restores: what the match on time    *)
(* and days of apply_cloud, set_timer and delete_timer relies on.          *)
NoDuplicateKeys == DistinctKeys(slots)

LabelsFit(held, labels) ==
    \A i \in Slots : /\ labels[i] # "none" => held[i] # None
                     /\ labels[i] = "missing" => held[i].on

(* A cloud label never outlives the slot it was given to, and only an      *)
(* enabled slot is ever "missing", whatever reports, clears and restarts   *)
(* come between the read that gave the label and now (_forget_cloud).      *)
LabelsOnHeldSlots == LabelsFit(slots, overlay)

(* Whenever the planned runs change, changed_at moves: the calendar counts *)
(* a run as missed only from changed_at on (apply_report, apply_cloud,     *)
(* clear).                                                                 *)
PlanStamped ==
    [][(live /\ live' /\ Planned(slots, overlay, cloudOnly)'
                             # Planned(slots, overlay, cloudOnly)) => stamp' # stamp]_vars

Issued(c) == /\ calls'[c].pc \in {"post", "del"} /\ calls'[c].reply = "pending"
             /\ calls'[c] # calls[c]

WritesUnlocked == \A c \in Calls : Issued(c) => ~breaker'

(* No timer service issues a POST or a DELETE while the hub's breaker is   *)
(* open, also when an earlier write of the same call opened it.            *)
NoWriteDuringLockout == [][WritesUnlocked]_vars

=============================================================================
