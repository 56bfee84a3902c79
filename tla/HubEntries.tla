----------------------------- MODULE HubEntries -----------------------------
(***************************************************************************)
(* The config entries ("hubs") of the integration, which share one Home    *)
(* Assistant: their setup, background load, retry, unload and removal      *)
(* (__init__.py), the arbitration of the devices that reach several hubs   *)
(* (claim_device and its callers in multi_manager.py), and the clean-up of *)
(* the device registry.                                                    *)
(*                                                                         *)
(* Coroutines share the event loop: while one of them claims the devices of*)
(* its hub nothing else runs in the loop.  Devices added while HA runs     *)
(* are claimed in threads (the MQTT thread on a bindUser message, an       *)
(* executor thread for find_new_devices), in between any two steps, and    *)
(* claim_device reads device_owner in one step and writes it in another.   *)
(***************************************************************************)
EXTENDS Naturals, FiniteSets

CONSTANTS NHubs,       \* config entries, in the order HA lists them
          Devices,
          Workers,     \* threads that add a device
          None,
          MaxOps,      \* user operations and device additions of a behaviour
          MaxTrouble   \* failures and restarts of a behaviour

Hubs == 1 .. NHubs

ASSUME BoundsAssumption == {NHubs, MaxOps, MaxTrouble} \subseteq Nat

ASSUME NoneAssumption == None \notin Nat \cup Devices \cup [Devices -> Hubs \cup {None}]

VARIABLES
    home,      \* per hub: the devices its Tuya accounts list
    reg,       \* per hub: its devices in HA's device registry (persisted)
    rows,      \* per device: the hub its entity registry rows belong to
    entry,     \* per hub: "listed", "disabled" or "removed"
    state,     \* per hub: the state HA gives the entry
    goal,      \* per hub: what follows its unload
    load,      \* per hub: the background load task
    map,       \* per hub: master_device_map of its current manager
    done,      \* _LOAD_DONE
    timers,    \* per hub: pending reloads of failed loads
    cleaners,  \* per hub: cleanup_device_registry tasks that wait
    owner,     \* MultiManager.device_owner
    cache,     \* MultiManager._registry_owner_cache, None until first needed
    busy,      \* the hub whose claims hold the event loop, or None
    todo,      \* devices it has still to claim
    passing,   \* the one whose claim passed the checks, not yet written
    work,      \* the threads
    budget,    \* what is left of the bounds
    raced      \* devices claimed after another hub took them meanwhile (history)

registries == <<reg, rows>>
hubs == <<entry, state, goal, load, map, done, timers, cleaners>>
claims == <<owner, cache, raced>>
loop == <<busy, todo, passing>>
vars == <<home, registries, hubs, claims, loop, work, budget>>

State == {"not_loaded", "setup", "loaded", "retry", "error", "unloading", "unloaded",
          "failed_unload"}

Load == {"none", "fetch", "claim", "platforms", "failed", "auth", "done"}

Work == [pc: {"idle", "fetch", "write", "discover"}, hub: Hubs \cup {None},
         dev: Devices \cup {None}, find: BOOLEAN, stale: BOOLEAN]

Idle == [pc |-> "idle", hub |-> None, dev |-> None, find |-> FALSE, stale |-> FALSE]

HubOrNone == Hubs \cup {None}

RegistryTypes == /\ home \in [Hubs -> SUBSET Devices]
                 /\ reg \in [Hubs -> SUBSET Devices]
                 /\ rows \in [Devices -> HubOrNone]

HubTypes == /\ entry \in [Hubs -> {"listed", "disabled", "removed"}]
            /\ state \in [Hubs -> State]
            /\ goal \in [Hubs -> {"setup", "stay", "remove"}]
            /\ load \in [Hubs -> Load]
            /\ map \in [Hubs -> SUBSET Devices]
            /\ done \subseteq Hubs
            /\ timers \in [Hubs -> Nat]
            /\ cleaners \in [Hubs -> Nat]

ClaimTypes == /\ owner \in [Devices -> HubOrNone]
              /\ cache \in [Devices -> HubOrNone] \cup {None}
              /\ raced \subseteq Devices

ProcessTypes == /\ busy \in HubOrNone
                /\ todo \subseteq Devices
                /\ passing \in Devices \cup {None}
                /\ passing # None => busy # None /\ passing \in todo
                /\ work \in [Workers -> Work]
                /\ \A w \in Workers : work[w].pc # "idle" =>
                       work[w].hub \in Hubs /\ work[w].dev \in Devices
                /\ budget \in [ops: Nat, trouble: Nat]

(* Every variable keeps its type.                                          *)
TypeOK == RegistryTypes /\ HubTypes /\ ClaimTypes /\ ProcessTypes

(* Home Assistant starts: the registries and the entries are what is left  *)
FreshProcess ==
    /\ state' = [h \in Hubs |-> "not_loaded"]
    /\ goal' = [h \in Hubs |-> IF entry[h] = "listed" THEN "setup" ELSE "stay"]
    /\ load' = [h \in Hubs |-> "none"]
    /\ map' = [h \in Hubs |-> {}]
    /\ done' = {} /\ timers' = [h \in Hubs |-> 0] /\ cleaners' = [h \in Hubs |-> 0]
    /\ owner' = [d \in Devices |-> None] /\ cache' = None /\ raced' = {}
    /\ busy' = None /\ todo' = {} /\ passing' = None
    /\ work' = [w \in Workers |-> Idle]

Init ==
    /\ home \in [Hubs -> SUBSET Devices]
    /\ entry \in [Hubs -> {"listed", "disabled"}]
    /\ rows \in [Devices -> HubOrNone]
    /\ reg = [h \in Hubs |-> {d \in Devices : rows[d] = h}]
    /\ state = [h \in Hubs |-> "not_loaded"]
    /\ goal = [h \in Hubs |-> IF entry[h] = "listed" THEN "setup" ELSE "stay"]
    /\ load = [h \in Hubs |-> "none"]
    /\ map = [h \in Hubs |-> {}]
    /\ done = {} /\ timers = [h \in Hubs |-> 0] /\ cleaners = [h \in Hubs |-> 0]
    /\ owner = [d \in Devices |-> None] /\ cache = None /\ raced = {}
    /\ busy = None /\ todo = {} /\ passing = None
    /\ work = [w \in Workers |-> Idle]
    /\ budget = [ops |-> MaxOps, trouble |-> MaxTrouble]

-----------------------------------------------------------------------------
(* Helpers                                                                 *)

Spend(what) == budget[what] > 0 /\ budget' = [budget EXCEPT ![what] = @ - 1]

LoopFree == busy = None

Listed == {h \in Hubs : entry[h] = "listed"}

(* hass.config_entries.async_get_entry: disabled entries exist too         *)
Exists(h) == entry[h] # "removed"

(* Mutant: HA's own LOADED state is taken for a finished load.             *)
StillLoadingByState(h) == state[h] = "setup"

(* _entry_still_loading                                                    *)
StillLoading(h) == state[h] = "setup" \/ (state[h] = "loaded" /\ h \notin done)

(* are_all_domain_config_loaded, for the clean-up of hub m                 *)
OthersLoaded(m) == \A h \in Listed \ {m} : ~StillLoading(h)

(* is_config_entry_master: the first listed entry that is not loaded, or   *)
(* the first of all                                                        *)
Master(m) ==
    LET unloaded == {h \in Listed : state[h] # "loaded"}
        pool == IF unloaded # {} THEN unloaded ELSE Listed
    IN  m \in pool /\ \A h \in pool : m <= h

(* get_config_entry_runtime_data: HA drops runtime_data after an unload    *)
HasManager(h) == state[h] \in {"loaded", "unloading", "unloaded", "failed_unload"}

InDeviceMaps == UNION {map[h] : h \in {g \in Listed : HasManager(g)}}

(* cleanup_device_registry removes the devices in no map, and with a device*)
(* go its entities                                                         *)
Swept(registered) == [h \in Hubs |-> registered[h] \cap InDeviceMaps]

RowsSwept(r) ==
    [d \in Devices |-> IF (\E h \in Hubs : d \in reg[h]) /\ d \notin InDeviceMaps
                       THEN None ELSE r[d]]

-----------------------------------------------------------------------------
(* claim_device                                                            *)

(* the registry is read once per process, by the first claim of a device   *)
(* nobody owns                                                             *)
CacheAfter(d) == IF owner[d] = None /\ cache = None THEN rows ELSE cache

(* Mutant: the registry row of a hub that is not loaded does not count.    *)
RefusedByLoadedOnly(h, d) ==
    LET other == IF owner[d] # None THEN owner[d] ELSE CacheAfter(d)[d]
    IN  other \notin {None, h} /\ Exists(other) /\ (owner[d] = None => state[other] = "loaded")

(* an owner that still exists keeps the device; a device without owner     *)
(* belongs to the hub that has its registry rows                           *)
Refused(h, d) ==
    LET other == IF owner[d] # None THEN owner[d] ELSE CacheAfter(d)[d]
    IN  other \notin {None, h} /\ Exists(other)

(* the write overtakes a claim made since the check                        *)
Claim(h, d) ==
    /\ owner' = [owner EXCEPT ![d] = h]
    /\ raced' = IF owner[d] \notin {None, h} /\ Exists(owner[d])
                THEN raced \cup {d} ELSE raced
    /\ UNCHANGED cache

-----------------------------------------------------------------------------
(* Setup and background load                                               *)

(* HA sets the entry up: at start, in a reload, or again after NotReady    *)
SetupBegins(h) ==
    /\ LoopFree /\ entry[h] = "listed"
    /\ \/ state[h] = "not_loaded" /\ goal[h] = "setup"
       \/ state[h] = "retry"
    /\ state' = [state EXCEPT ![h] = "setup"]
    /\ goal' = [goal EXCEPT ![h] = "stay"]
    /\ UNCHANGED <<home, registries, entry, load, map, done, timers, cleaners,
                   claims, loop, work, budget>>

(* async_setup_entry: MultiManager.setup_entry signs in, and the load starts *)
SetupEnds(h) ==
    /\ LoopFree /\ state[h] = "setup"
    /\ \/ /\ state' = [state EXCEPT ![h] = "loaded"]
          /\ load' = [load EXCEPT ![h] = "fetch"]
          /\ map' = [map EXCEPT ![h] = {}]
          /\ done' = done \ {h}
          /\ UNCHANGED budget
       \/ /\ \E failure \in {"retry", "error"} : state' = [state EXCEPT ![h] = failure]
          /\ Spend("trouble")
          /\ UNCHANGED <<load, map, done>>
    /\ UNCHANGED <<home, registries, entry, goal, timers, cleaners, claims, loop, work>>

(* mm_update_device_cache has the lists of its accounts: update_master_    *)
(* device_map claims them one by one without leaving the event loop        *)
FetchEnds(h) ==
    /\ LoopFree /\ load[h] = "fetch"
    /\ load' = [load EXCEPT ![h] = "claim"]
    /\ busy' = h /\ todo' = home[h]
    /\ UNCHANGED <<home, registries, entry, state, goal, map, done, timers, cleaners,
                   claims, passing, work, budget>>

LoopChecks(d) ==
    /\ busy # None /\ passing = None /\ d \in todo
    /\ cache' = CacheAfter(d)
    /\ IF Refused(busy, d) THEN todo' = todo \ {d} /\ UNCHANGED passing
                           ELSE passing' = d /\ UNCHANGED todo
    /\ UNCHANGED <<home, registries, hubs, owner, raced, busy, work, budget>>

(* Mutant: the turn is not given up after the claim.                       *)
LoopClaimsOnce ==
    /\ passing # None
    /\ Claim(busy, passing)
    /\ map' = [map EXCEPT ![busy] = @ \cup {passing}]
    /\ todo' = todo \ {passing} /\ UNCHANGED passing
    /\ UNCHANGED <<home, registries, entry, state, goal, load, done, timers, cleaners,
                   busy, work, budget>>

LoopClaims ==
    /\ passing # None
    /\ Claim(busy, passing)
    /\ map' = [map EXCEPT ![busy] = @ \cup {passing}]
    /\ todo' = todo \ {passing} /\ passing' = None
    /\ UNCHANGED <<home, registries, entry, state, goal, load, done, timers, cleaners,
                   busy, work, budget>>

(* the load goes on: the clean-up task starts (and runs at once when       *)
(* nobody is loading), then the devices enter the registry                 *)
Registers(h) ==
    /\ load' = [load EXCEPT ![h] = "platforms"]
    /\ LET now == Master(h) /\ OthersLoaded(h)
       IN  /\ reg' = [(IF now THEN Swept(reg) ELSE reg) EXCEPT ![h] = @ \cup map[h]]
           /\ rows' = IF now THEN RowsSwept(rows) ELSE rows
           /\ cleaners' = IF Master(h) /\ ~now THEN [cleaners EXCEPT ![h] = @ + 1]
                          ELSE cleaners
    /\ UNCHANGED <<home, entry, state, goal, map, done, timers, claims, work>>

MergeEnds ==
    /\ busy # None /\ todo = {}
    /\ Registers(busy)
    /\ busy' = None
    /\ UNCHANGED <<todo, passing, budget>>

(* an error other than ConfigEntryNotReady is swallowed: the load goes on  *)
(* with the map it has                                                     *)
FetchSwallowed(h) ==
    /\ LoopFree /\ load[h] = "fetch" /\ Spend("trouble")
    /\ Registers(h)
    /\ UNCHANGED loop

(* the platforms are set up and the load is done; their entities take over *)
(* the registry rows of the devices                                        *)
RowsOf(h) == [d \in Devices |-> IF d \in map[h] THEN h ELSE rows[d]]

LoadEnds(h) ==
    /\ LoopFree /\ load[h] = "platforms"
    /\ rows' = RowsOf(h)
    /\ load' = [load EXCEPT ![h] = "done"]
    /\ done' = done \cup {h}
    /\ UNCHANGED <<home, reg, entry, state, goal, map, timers, cleaners, claims, loop,
                   work, budget>>

(* Mutant: a load that fails is left alone.                                *)
LoadFailsForGood(h, failure) ==
    /\ LoopFree /\ load[h] \in {"fetch", "platforms"} /\ Spend("trouble")
    /\ rows' \in IF load[h] = "platforms" THEN {rows, RowsOf(h)} ELSE {rows}
    /\ load' = [load EXCEPT ![h] = failure]
    /\ UNCHANGED timers
    /\ UNCHANGED <<home, reg, entry, state, goal, map, done, cleaners, claims, loop, work>>

(* _async_load_entry routes a failure to a reauthentication or to a reload *)
(* in LOAD_RETRY_SECONDS                                                   *)
LoadFails(h, failure) ==
    /\ LoopFree /\ load[h] \in {"fetch", "platforms"} /\ Spend("trouble")
    /\ rows' \in IF load[h] = "platforms" THEN {rows, RowsOf(h)} ELSE {rows}
    /\ load' = [load EXCEPT ![h] = failure]
    /\ timers' = IF failure = "failed" THEN [timers EXCEPT ![h] = @ + 1] ELSE timers
    /\ UNCHANGED <<home, reg, entry, state, goal, map, done, cleaners, claims, loop, work>>

-----------------------------------------------------------------------------
(* Unload, reload, disable, remove                                         *)

(* async_unload_entry up to the platforms: the load is cancelled.  The     *)
(* setup lock keeps a reload out while the entry is being set up.          *)
Unload(h, next) ==
    /\ LoopFree /\ state[h] \notin {"setup", "unloading", "unloaded"}
    /\ goal' = [goal EXCEPT ![h] = next]
    /\ IF state[h] = "loaded"
       THEN /\ state' = [state EXCEPT ![h] = "unloading"]
            /\ load' = [load EXCEPT ![h] = "none"]
            /\ done' = done \ {h}
       ELSE /\ state' = IF state[h] = "failed_unload" THEN state
                        ELSE [state EXCEPT ![h] = "not_loaded"]
            /\ UNCHANGED <<load, done>>
    /\ UNCHANGED <<home, registries, map, cleaners, claims, loop, work>>

Reload(h) == entry[h] = "listed" /\ Spend("ops") /\ Unload(h, "setup") /\ UNCHANGED <<entry, timers>>

(* the reload scheduled by a failed load, whatever became of the entry     *)
RetryFires(h) ==
    /\ timers[h] > 0
    /\ timers' = [timers EXCEPT ![h] = @ - 1]
    /\ IF entry[h] = "listed" THEN Unload(h, "setup")
       ELSE UNCHANGED <<home, registries, state, goal, load, map, done, cleaners, claims,
                        loop, work>>
    /\ UNCHANGED <<entry, budget>>

Disable(h) ==
    /\ entry[h] = "listed" /\ Spend("ops")
    /\ Unload(h, "stay")
    /\ entry' = [entry EXCEPT ![h] = "disabled"]
    /\ UNCHANGED timers

Enable(h) ==
    /\ entry[h] = "disabled" /\ state[h] = "not_loaded" /\ LoopFree /\ Spend("ops")
    /\ entry' = [entry EXCEPT ![h] = "listed"]
    /\ goal' = [goal EXCEPT ![h] = "setup"]
    /\ UNCHANGED <<home, registries, state, load, map, done, timers, cleaners, claims,
                   loop, work>>

Remove(h) ==
    /\ Exists(h) /\ Spend("ops")
    /\ Unload(h, "remove")
    /\ UNCHANGED <<entry, timers>>

(* Mutant: the claims of every hub go.                                     *)
ReleasedByAll(h) == [d \in Devices |-> None]

(* release_devices                                                         *)
Released(h) == [d \in Devices |-> IF owner[d] = h THEN None ELSE owner[d]]

(* the claims go in an executor thread, when teardown gets that far        *)
Teardown(h, complete) ==
    /\ state[h] = "unloading"
    /\ IF complete
       THEN /\ owner' = Released(h)
            /\ UNCHANGED budget
       ELSE Spend("trouble") /\ UNCHANGED owner
    /\ state' = [state EXCEPT ![h] = "unloaded"]
    /\ UNCHANGED <<home, registries, entry, goal, load, map, done, timers, cleaners,
                   cache, raced, loop, work>>

(* HA forgets the manager; a thread that still runs on it works for nobody *)
UnloadEnds(h) ==
    /\ LoopFree /\ state[h] = "unloaded"
    /\ state' = [state EXCEPT ![h] = "not_loaded"]
    /\ map' = [map EXCEPT ![h] = {}]
    /\ work' = [w \in Workers |-> IF work[w].hub = h THEN [work[w] EXCEPT !.stale = TRUE]
                                  ELSE work[w]]
    /\ UNCHANGED <<home, registries, entry, goal, load, done, timers, cleaners, claims,
                   loop, budget>>

(* a platform refuses to unload: the entry stays as it is until a restart  *)
UnloadRefused(h) ==
    /\ LoopFree /\ state[h] = "unloading" /\ Spend("trouble")
    /\ state' = [state EXCEPT ![h] = "failed_unload"]
    /\ UNCHANGED <<home, registries, entry, goal, load, map, done, timers, cleaners,
                   claims, loop, work>>

(* HA deletes an entry, its registry devices and its rows                  *)
Removed(h) ==
    /\ LoopFree /\ goal[h] = "remove" /\ state[h] \in {"not_loaded", "failed_unload"}
    /\ entry' = [entry EXCEPT ![h] = "removed"]
    /\ goal' = [goal EXCEPT ![h] = "stay"]
    /\ state' = [state EXCEPT ![h] = "not_loaded"]
    /\ reg' = [reg EXCEPT ![h] = {}]
    /\ rows' = [d \in Devices |-> IF rows[d] = h THEN None ELSE rows[d]]
    /\ UNCHANGED <<home, load, map, done, timers, cleaners, claims, loop, work, budget>>

-----------------------------------------------------------------------------
(* The clean-up task that waits                                            *)

Cleans(m) ==
    /\ LoopFree /\ cleaners[m] > 0 /\ OthersLoaded(m)
    /\ reg' = Swept(reg) /\ rows' = RowsSwept(rows)
    /\ cleaners' = [cleaners EXCEPT ![m] = @ - 1]
    /\ UNCHANGED <<home, entry, state, goal, load, map, done, timers, claims, loop, work,
                   budget>>

(* after 900 s the devices are left alone                                  *)
GivesUp(m) ==
    /\ LoopFree /\ cleaners[m] > 0 /\ ~OthersLoaded(m)
    /\ cleaners' = [cleaners EXCEPT ![m] = @ - 1]
    /\ UNCHANGED <<home, registries, entry, state, goal, load, map, done, timers, claims,
                   loop, work, budget>>

-----------------------------------------------------------------------------
(* A device is added while the hub runs: add_device_by_id                  *)

Begins(w, h, d, found) ==
    /\ work[w].pc = "idle" /\ Spend("ops")
    /\ d \notin map[h] /\ owner[d] \in {None, h}
    /\ work' = [work EXCEPT ![w] = [pc |-> "fetch", hub |-> h, dev |-> d,
                                    find |-> found, stale |-> FALSE]]
    /\ UNCHANGED <<registries, hubs, claims, loop>>

(* a bindUser message of a hub that takes messages                         *)
BindUser(w, h, d) ==
    /\ state[h] = "loaded" /\ load[h] \in {"platforms", "failed", "auth", "done"}
    /\ home' = [home EXCEPT ![h] = @ \cup {d}]
    /\ Begins(w, h, d, FALSE)

(* find_new_devices: one run at a time per manager                         *)
FindNew(w, h, d) ==
    /\ state[h] = "loaded" /\ h \in done /\ d \in home[h]
    /\ ~ \E v \in Workers : work[v].hub = h /\ work[v].find /\ ~work[v].stale
    /\ Begins(w, h, d, TRUE)
    /\ UNCHANGED home

(* the device is fetched, then claimed: first the checks ...               *)
Checks(w) ==
    LET h == work[w].hub  d == work[w].dev
    IN  /\ work[w].pc = "fetch"
        /\ \/ /\ work[w].stale \/ d \notin map[h]
              /\ ~Refused(h, d)
              /\ cache' = CacheAfter(d)
              /\ work' = [work EXCEPT ![w].pc = "write"]
           \/ /\ Refused(h, d)
              /\ cache' = CacheAfter(d)
              /\ work' = [work EXCEPT ![w] = Idle]
           \/ /\ ~work[w].stale /\ d \in map[h]
              /\ UNCHANGED cache
              /\ work' = [work EXCEPT ![w] = Idle]
    /\ UNCHANGED <<home, registries, hubs, owner, raced, loop, budget>>

(* the device cannot be fetched                                            *)
FetchesNothing(w) ==
    /\ work[w].pc = "fetch"
    /\ work' = [work EXCEPT ![w] = Idle]
    /\ UNCHANGED <<home, registries, hubs, claims, loop, budget>>

(* ... then the write, and the device enters the map of that manager       *)
Writes(w) ==
    LET h == work[w].hub  d == work[w].dev
    IN  /\ work[w].pc = "write"
        /\ Claim(h, d)
        /\ map' = IF work[w].stale THEN map ELSE [map EXCEPT ![h] = @ \cup {d}]
        /\ work' = [work EXCEPT ![w].pc = "discover"]
    /\ UNCHANGED <<home, registries, entry, state, goal, load, done, timers, cleaners,
                   loop, budget>>

(* the discovery signal reaches the platforms of the hub                   *)
Discovers(w) ==
    LET h == work[w].hub  d == work[w].dev
    IN  /\ LoopFree /\ work[w].pc = "discover"
        /\ IF ~work[w].stale /\ state[h] = "loaded"
           THEN reg' = [reg EXCEPT ![h] = @ \cup {d}] /\ rows' = [rows EXCEPT ![d] = h]
           ELSE UNCHANGED registries
        /\ work' = [work EXCEPT ![w] = Idle]
    /\ UNCHANGED <<home, hubs, claims, loop, budget>>

-----------------------------------------------------------------------------
Restart ==
    /\ Spend("trouble") /\ FreshProcess
    /\ UNCHANGED <<home, registries, entry>>

Progress(h) ==
    \/ SetupBegins(h) \/ SetupEnds(h) \/ FetchEnds(h) \/ LoadEnds(h)
    \/ RetryFires(h) \/ \E complete \in BOOLEAN : Teardown(h, complete)
    \/ UnloadEnds(h) \/ Removed(h)

Claiming == (\E d \in Devices : LoopChecks(d)) \/ LoopClaims \/ MergeEnds

Fails(h) == FetchSwallowed(h) \/ UnloadRefused(h)
               \/ \E failure \in {"failed", "auth"} : LoadFails(h, failure)

User(h) == Reload(h) \/ Disable(h) \/ Enable(h) \/ Remove(h)

Threads == \E w \in Workers :
    \/ \E h \in Hubs : \E d \in Devices : BindUser(w, h, d) \/ FindNew(w, h, d)
    \/ Checks(w) \/ FetchesNothing(w) \/ Writes(w) \/ Discovers(w)

Next == \/ \E h \in Hubs : Progress(h) \/ Fails(h) \/ User(h) \/ Cleans(h) \/ GivesUp(h)
        \/ Claiming \/ Threads \/ Restart

Spec == Init /\ [][Next]_vars

(* The event loop serves every coroutine, and HA sets up the entries it has *)
(* been asked to; nothing is assumed of users, failures and threads.       *)
Fairness == WF_vars(Claiming) /\ \A h \in Hubs : WF_vars(Progress(h))

FairSpec == Spec /\ Fairness

-----------------------------------------------------------------------------
(* Properties                                                              *)

Serves(h, d) == state[h] = "loaded" /\ d \in map[h]

(* A device is materialised by one hub: two loaded hubs serve the same     *)
(* device only if their claims overlapped, one thread writing what it had  *)
(* checked before the other wrote.  Through loads, retries, unloads whose  *)
(* teardown fails, removals and hot adds that outlive their manager        *)
(* (claim_device, release_devices, update_master_device_map).              *)
SoleServer ==
    \A h, g \in Hubs : \A d \in Devices \ raced :
        (Serves(h, d) /\ Serves(g, d)) => h = g

(* The same without the exception: what the comment of class MultiManager  *)
(* says, "a device_id is materialised by exactly one entry".               *)
ExactlyOneEntry ==
    \A h, g \in Hubs : \A d \in Devices : (Serves(h, d) /\ Serves(g, d)) => h = g

(* A device whose entities belonged to a hub when this process first asked *)
(* is claimed by no other hub while that hub exists, be it loading,        *)
(* reloading or disabled (claim_device, "boot-order roulette").            *)
KeepsHub ==
    cache # None =>
        \A d \in Devices : (cache[d] # None /\ Exists(cache[d]))
                               => owner[d] \in {None, cache[d]}

(* HA forgets a device of h that the cloud of h still lists                *)
Loses(h) == (reg[h] \ reg'[h]) \cap home[h] # {}

OnlyOwnTaskClears ==
    \A h \in Hubs : (load[h] = "fetch" /\ load'[h] = "fetch" /\ Loses(h))
                        => cleaners'[h] < cleaners[h]

(* While a hub fetches its devices, its map still empty, the clean-up of   *)
(* another hub removes none of them; only a task left over from an earlier *)
(* load of the hub itself can (_entry_still_loading, cleanup_device_       *)
(* registry).                                                              *)
SparesOthersLoading == [][OnlyOwnTaskClears]_vars

(* The comment of _CLEANUP_WAIT_SECONDS: a hub that never finishes loading *)
(* gets its devices left alone rather than deleted.                        *)
SparesUnfinished ==
    [][\A h \in Listed \ done : (load'[h] = load[h] /\ entry'[h] = "listed")
                                    => ~Loses(h)]_vars

(* claim_device: only deleting an entry frees its devices; the entities of *)
(* a disabled one revive when it is enabled again.                         *)
SparesDisabled ==
    [][\A h \in Hubs : (entry[h] = "disabled" /\ entry'[h] = "disabled") => ~Loses(h)]_vars

(* What only the user can get going again: an entry that is not listed, a  *)
(* sign-in that was refused, an unload that failed.                        *)
WaitsForUser(h) == \/ entry[h] # "listed"
                   \/ state[h] \in {"error", "failed_unload"}
                   \/ load[h] = "auth"

(* Every listed hub ends up loaded, once failures and users stop, however  *)
(* setups, loads, retries and reloads of the hubs interleave.              *)
LoadsEventually == \A h \in Hubs : <>[](WaitsForUser(h) \/ h \in done)

=============================================================================
