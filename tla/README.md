# xtend_tuya: models and proofs

`xtend_tuya` is a Home Assistant custom integration: it connects Tuya accounts
("hubs"), merges what they say of each device, and runs a farm of irrigation
valves on top (timers, runs, calendar, cards). These modules model the parts of
it that keep state through concurrency and failure, check them with TLC on small
instances, and prove the central invariants with TLAPS for every value of the
constants. The map covers about 31 % of the lines of the implementation; what it
leaves out is listed in section 6. `X` below is `src/custom_components/xtend_tuya`, and
`V` is `X/entity_parser/valves`.

## 1. The system

Layers, as `docs/architecture.md` names them: L1 transport (`X/multi_manager`,
`X/lib`, `X/transport`), L2 valve drivers (`V`), L3 farm (`X/farm`), L4 cards
(`frontend/`). Everything runs on the asyncio event loop of Home Assistant, in
executor threads (blocking cloud calls) and in MQTT threads (one per account).
A coroutine gives way only at an `await`; threads interleave anywhere.

| Component | State | Operations | Interacts with | Hard behaviour | What makes it correct |
|---|---|---|---|---|---|
| Timer registry `V/timer_state.py`, `V/sensor.py` | slots, cloud overlay, last payload, planned-runs stamp | report, listing, clear, dump, restore | valve reports, services, sweep, calendar | reports lost, repeated, overtaken; restarts | shows what the valve holds; no label outlives its slot; the stamp moves with the plan |
| Timer services `V/timer_service.py` | locals of a coroutine | set, delete, resync | valve (DP), cloud registry, `TimerState` | every `await` is a gap; half-done double writes | valve and cloud agree at rest; resync clears only what its listing convicts; no write in a lockout |
| Reconciliation `V/timer_reconcile.py` | none | fetch, apply, stop on quota | cloud, `TimerState` | stale listings | as above |
| Port and breaker `X/transport/port.py`, `breaker.py` | breaker open or closed | cloud call, DP write | all services | lockout in mid-operation | no POST or DELETE while open |
| Config entries `X/__init__.py` | entry states, background load, registry | setup, load, fail, retry, unload, reload, remove, clean-up | Home Assistant, managers | background load races reload, disable, remove; half teardowns | every hub loads in the end; the clean-up spares devices of loading hubs |
| Device ownership `X/multi_manager/multi_manager.py` | `device_owner` (class), device maps | claim, release, hot add, find new | all hubs, registry | several threads, no lock | one hub serves a device; a device stays with its hub |
| Runs store `X/farm/runs_store.py` | rows, accumulator, timers, file | close, scheduled close, idle close, correction, load, save | sensor states, calendar | order of reports, silent closes, restarts, re-arms | each run once, with its own close and water |
| Messages `multi_manager.py`, `shared/multi_source_handler.py`, `multi_virtual_state_handler.py` | pending queue, ready flag, counters per code, totals | on_message, drain, register, filter, sum, reset | accounts, device copies | one MQTT thread per account and the task that drains; two copies of each event | no message stranded or dispatched twice, an increment added once |
| Commands and locks `multi_manager.py`, `xt_tuya_iot_manager.py` | none | send_commands, lock and unlock with fall-backs | accounts, cloud, quota | answers lost after the cloud acted | no repeat without a lost answer, the result is the cloud's |
| MQTT stream `X/lib/tuya_iot/openmq.py` | client, config, lock, stop event | run, refresh, stop, supervise | OpenAPI, paho | non-reentrant lock, stop against connect | one stream speaks; it comes back |
| OpenAPI `X/lib/tuya_iot/openapi.py` | token, reconnecting flag | request, refresh, reconnect | executor threads | many threads find the token expired | the flag comes down; a refused token is not used again |
| Quota `X/transport/quota.py` | month, devices, store | record, used, load, save | threads, store | month roll in two threads, restarts | each device of the month once |
| Dialogs `X/config_flow.py` | entry, options | login, re-auth, options | config entries | two dialogs open, reloads | a form changes what it shows only |
| Infrared `shared/data_entry`, `X/remote.py`, `X/button.py` | dialog data per button, keys, entities | add, learn, delete, refresh | cloud, dialogs | data shared by dialogs, learnings in threads | answers of one dialog; keys true to their session |
| WebRTC `ipc/webrtc/xt_tuya_iot_webrtc_manager.py`, `X/camera.py` | sessions, candidates | offer, candidate, answer, close, expire | browser, IPC queue | candidates between the awaits of the offer | each candidate once, after the offer |
| Device copies `shared_classes.py`, `merging_manager.py` | a copy per account, mirrored attributes | fetch, merge, align, report | messages, entities | which copies share a dictionary | what an account writes is what entities read |
| Repair of descriptions `cloud_fix.py` | none | twenty fixes, applied twice | merging | the order of the fixes, two copies that disagree | a third pass changes nothing; one description |
| Discovery `X/entity.py`, the platforms, `__init__.py` | descriptors, handled codes, callbacks | merge, discover, generic, bind, remove | setup, other threads | devices bound while setup awaits | each code shown once |
| Covers `X/cover.py` | handler, virtual position | open, close, stop, set, tick | device, timers | commands that replace each other | the position at rest is the cover's |
| Timer codec `V/codecs/time_task.py` | none | encode, clear, decode, publish | registry, services, app | one byte tells a delete from a disable | the frame tells the timer |
| Places `X/farm/location_model.py`, `irrigation_locations.py` | places, sites, pumps, dated | edits, seeds, save | runs | sequences of legal edits, crashes | the past stays |
| Calendars `X/farm/calendar.py` | registry overlay, import | render, import | runs store, sensors | import against live rows | feeds show what happened and what will |
| Entity values, climate, lock states, views, cards | per entity | | | | not modelled |

`PROJECT.json` lists every component with what is and is not modelled
(`components`) and each place in the code that is hard to test with the
properties that watch it (`hazards`).

## 2. Modules

| Module | Models |
|---|---|
| `TimerState.tla` | the pure part of the registry: slots, overlay, labels, duplicates, planned runs |
| `ValveTimers.tla` | EXTENDS it: services, sweep, report path, breaker, cloud registry, restarts, SmartLife app |
| `MCValveTimers.tla` | instances: symmetry, the view, a seeded start |
| `ValveTimersProofs.tla` | proofs |
| `HubEntries.tla` | config entries, claims, threads, registry clean-up |
| `MCHubEntries.tla`, `HubEntriesProofs.tla` | instances, proofs |
| `RunsStore.tla` | one valve, its reports, and the runs store |
| `MCRunsStore.tla`, `RunsStoreProofs.tla` | instance, proofs |
| `Inbox.tla` | what the gate of a hub promises: the abstract specification of `Messages` |
| `Messages.tla` | the gate, arbitration between accounts, summed states, the write of a status |
| `Commands.tla` | fall-backs of commands and of lock operations |
| `MqSupervisor.tla`, `OpenApiToken.tla`, `Quota.tla` | threads on a lock, on a flag, on nothing |
| `AccountsProofs.tla` | proofs about the gate, the counters and the refinement of `Inbox`, and about these three |
| `ConfigFlow.tla`, `IrRemotes.tla`, `WebRtc.tla` | dialogs, infrared remotes, camera signalling |
| `DialogsProofs.tla` | proofs about these three and `Discovery` |
| `DeviceCopies.tla`, `DpRepair.tla` | the copies of a device; the repair of the descriptions of a data point |
| `Locations.tla`, `WaterFeed.tla` | places and pumps; the calendars and the import |
| `Covers.tla`, `Discovery.tla` | virtual positions; how entities are found |
| `LocationsProofs.tla`, `WaterFeedProofs.tla` | proofs about `Locations` and `WaterFeed` |
| `TimeTaskCodec.tla` | the frames of the timer data point |
| `DevicesProofs.tla` | proofs about `TimeTaskCodec`, `Commands`, `Covers`, `DeviceCopies` and `DpRepair` |
| `MCComponents.tla` | instance of the fifteen components above, one in each behaviour |

A definition whose comment begins "Mutant:" or "A plausible bug" is not part of a
model: it is kept next to the definition it would replace, and with it the
property named in `PROJECT.json` (`mutants`) fails.

### 2.1 Valve timers

The device holds `NSlots` timers; a timer is a key (time and days) and an enabled
bit. The integration mirrors them from reports (`ApplyReport`, `Read`), overlays
what the cloud registry lists (`ApplyCloud`), and writes to both through three
services. A service is a record in `calls` with a program counter; the code
between two awaits is one action, an answer of the outside world is another
(`Serve`), so calls, sweeps and reports interleave exactly where the event loop
may switch. `Answer` covers success, refusal, quota error and exception, of a GET too:
a quota answer to any request opens the breaker (`BreakerAfter`), as `port.cloud` does. `wire`
is the report path: reports may wait, be lost or be overtaken in `dp`, the one
value per DP that the sensor reads. A restart drops calls and memory, and `Load`
primes the registry in the order of `V/sensor.py` 324-387. `AppSet`, `AppDelete`
and `AppDisable` are the SmartLife app.

History variables: `blind` (keys whose report the integration could not have
seen, among them a report equal to the last payload that `apply_report` ignores
though its slot was cleared), `clean` (no call met a failure, so the cloud should
agree) and `rolledBack` (what the cloud dropped by itself).

Abstracted: watering amounts, the text of attributes, the numbers of the
schedule of the sweep (a sweep may start at any time). Not modelled: a service
that keeps a `live` object of an entry that is reloaded meanwhile.

### 2.2 Hub entries

Each hub is a config entry with Home Assistant's state, its manager (`Released`,
device map, load finished or not) and its background load as a program counter:
fetch, merge, claim device by device, load platforms, finish or fail, then retry.
`Unload`, `Teardown`, `Removed`, `Cleans` follow `async_unload_entry`,
`async_remove_entry` and the clean-up task, cut at their awaits. `workers` are the
threads that add devices (`bindUser` messages, `find_new_devices`); they check and
write `device_owner` in two steps, as `claim_device` does without a lock, and they
survive the manager that started them. `registry` says whose rows a device has;
the cache of owners is filled on the first claim (`CacheAfter`). `overlapped` is a
history variable: devices for which two claims ran at once.

Not modelled: the official Tuya entry's map, scenes, the merge of duplicated
devices, service registration, more than one new device per
`find_new_devices`.

### 2.3 Runs store

One valve: an old one (start and end sensors) or a T3 (counter and own record).
`dps` is what it reported, `seen` what Home Assistant shows; `Deliver` moves one
sensor and runs its listener, so start, end and counter reports arrive in every
order. Timers (`pend` with `RecordScheduled`, `idle` with `CloseIdle`, `saveDue`
with `Save`) fire within the tick they are due. `Arm` and `Rearm` are
`track_devices` for the first time and again; `Stop` is a shutdown (saves) or a
crash (does not), `Boot` a load.

Times are ticks; the thresholds keep the order they have in the code
(15 s, 30 s, 120 s, 120 s, 180 s, 6 h become 1, 1, 2, 2, 3, 8 ticks, and
a save delay of 30 s becomes 1). `MAX_RUN_SECONDS` is longer than a run and the rest
after it, as in the code: a close that is heard before its start does find the start
of the run before within it, and is paired with that one. Two assumptions are named: `Gap`, the rest between a
scheduled close and the next run (above `RUN_DEDUPE_SLACK_SEC`), and `disturbed`
(history), the runs that `EachRunOnce` and `OwnLiters` stop promising:
those with a report still under way when the clock moves (and the run whose start an
old valve's sensor then still shows, `Mistaken`), a T3 run during which HA
stops or its idle timer is dropped, an old valve's run still in progress when the
listeners are armed, and a row lost in a crash before its save when the sensors
already show another run. `RowsBounded` and the first half of `RowsApart` (`OneRowPerBound`: one row per start and
per close) promise their content for disturbed runs too; the second half, that no two
rows meet one run, is about the runs whose reports came in time. Without that
exception it fails: with a start report that is late by a tick, the close of a run is
paired with the previous run's start, and the valve's own record of that run then adds
a row of the same water. The history variable `truth` also plays the valve's own
record (`SendRecord`, `UnpairedStarts`). With `Gap = 0` `EachRunOnce` fails: after
an early close the stand-in timer pairs the next run's start with the last one's
scheduled close.
`OwnLiters` lets a row miss the last reading of its run, when the close is heard first,
and for an old valve the first one too, which an accumulator that was never fed since the
start of Home Assistant takes for its base (`OnVolume` with no `last`): only a run of four
ticks that closes early misses both, hence the bound on the lengths.

Rows are a set: two identical rows are one. Not modelled: backfill from the
recorder, pruning, queries, the rate ceiling of a sample, several valves (they
share nothing but the file and `release`).

### 2.4 The other components

Each of these modules has its own variables, `XInit`, `XNext` and `XSpec`, and
shares no state with the others; `MCComponents` therefore picks one component in
its initial state and lets the others stand still, so that one run checks all of
them. Its `VIEW` keeps the state of the component that runs, and counts
interchangeable dialogs, learners and recorders.

- `Messages`. A worker is an MQTT thread of an account or the task that drains
  the queue; a step is what lies between two places where another thread may come
  in: the test of the ready flag, the append, one method of a counter object, the
  read of a total and the write of the status. An event is one unit of
  consumption, of which each account delivers a copy with its own clock.
  `late` (history) holds the messages that saw the gate shut and were parked after
  the queue was taken: these do stay parked. `raced` marks additions that
  overlapped. `Inbox` is the abstract specification, and `DispatchesOnce` says that
  `Messages` implements it: a message is dispatched at most once, and none that was
  not received.
- `Commands`. What is tried for one command is a sequence of attempts (accounts,
  then reversed filters, then aliases), each of which the cloud may take while its
  answer is lost. A lock tries projects and mechanisms, the last being
  `send_commands` itself, so a frame of each call is kept. The IoT account may be of a
  custom project (`custom`), whose regular command does not raise when the cloud refuses
  it (`lib/tuya_iot/device.py` 715-720 against 655-656): the comment of `init.py` 689 is
  false there, the refusal returns True, is noted in the quota and ends the fall-backs.
  `misread` (history) holds these commands.
- `MqSupervisor`. Three threads and a lock for each stream: the loop, the network
  thread of the client, and whoever stops or refreshes. `again` is the second pass
  of `_run_mqtt`, which waits for the lock that the first one holds.
- `OpenApiToken`. Requests of several threads; a token is a number, so that a late
  answer can be told from one about the token in use.
- `Quota`. `record` and `used` cut at every statement that another thread may
  come between; saves are jobs of the event loop.
- `ConfigFlow`, `IrRemotes`, `WebRtc`. A dialog, a learning or a session is a
  record with a program counter; the user may leave, the cloud may refuse. The browser
  may hang up at any await of the offer (`hungUp`): the offer takes no notice and is
  published after the disconnect, with its candidates.
- `DeviceCopies`. `shared` groups the copies of a device that hold the same
  dictionary object: assignment, merge and mirror change the groups as Python's
  references do, which is what decides whether an account's message reaches the
  entities.
- `DpRepair`. One data point with two names, described in three tables, twice. The
  fixes are operators on the device, in the order of `apply_fixes`; values are
  small representatives of each case the code distinguishes.
- `Locations`. The table as a value and each edit as an operator that accepts or
  refuses; a refused edit may leave what it changed before (`update_site`,
  `create_site`, `connect_device` do), and the model keeps that.
- `Covers`. Time in units of the motor's way; a handler object stays in `handlers`
  as long as its timer may fire, also when another replaced it. Positions are the
  device's own: 0 is where its CLOSE ends. A cover may be inverted (`invert_control`:
  open sends CLOSE and runs the handler to 0, a position that is asked for is turned
  around), may have a data point for the position (`sets`) and may follow it or not
  (`precise`, not `no_precise_position`); one that is not precise is opened or closed
  until the handler stops it, and the position is sent all the same, so its motor may
  run to either (`SetPosition`). `astray` (history) marks the moves in which the motor
  was sent where no handler counts.
- `WaterFeed`. A valve, its sensors, the recorder and the store, in minutes; the
  feeds are functions of the state, compared with the waterings that happened. `opener`
  is the timer that began the watering: it is what the cloud's overlay may withhold
  from the planned calendar (`Withheld`), each timer by its own slot. The average rate
  is that of the last `LastNForAverages` rows (ten in the code, one in the instance).
- `Discovery`. One platform of a hub: the descriptors of the platform, the accounts
  and the parsers are merged as sequences; `handledBy` are the codes and compound
  keys of each device. `sensor.py` stands for the platforms, whose discovery is the
  same text; the catalogues of the instance vary what differs between them (compound
  keys, a platform that is overridden as a whole). A device joins the master map already
  merged, prepared and aligned: `add_device_by_id` joins it (687) some statements before
  that (697-699), and a platform that is set up in between would read the device
  unprepared. Devices are bound once the platforms listen: a `bindUser` message that comes
  after the gate opened and before `_async_load_entry_body` sets the platforms up is not
  modelled. Nor are lists of descriptors whose types do not match, from which
  `merge_descriptors` (`entity.py` 211-219) drops what was to be added, and the removal of
  repeated descriptors by `get_category_dict`. Of the base descriptors of one key
  `merge_descriptors` keeps the last (`Placed`).
- `TimeTaskCodec`. A frame is a sequence of eleven or twelve bytes. Base64 on the
  way to the valve is left out: the codec sees the bytes on both sides.

## 3. Runs

| Run | Question | Bounds | Size |
|---|---|---|---|
| `timers_serial` | do registry, valve and cloud agree at rest after any one fault? | from an empty valve or one in use; 2 slots, 2 keys, 3 cloud ids, 1 call at a time, 2 operations, 1 fault; symmetric keys and ids | 1,476,839 states |
| `timers_concurrent` | two calls at once on a valve in use | 4 cloud ids, 2 calls, 2 reports under way, no fault; `VIEW` drops variables that nothing reads any more | 110,901 |
| `timers_resync_unposted`, `timers_resync_disabled` | two statements of the resync docstring | as needed | violations |
| `hubs` | ownership, clean-up and loading of two hubs | 2 hubs sharing a device, 2 devices, 2 threads, 2 operations, 1 failure or restart | 505,438 |
| `hubs_claim_race`, `hubs_cleanup_disabled`, `hubs_cleanup_unfinished` | three statements of comments | as needed | violations |
| `runs_store` | is each run recorded once, with its own close and water? | 14 ticks, runs of up to 4 ticks, 2 ticks of trouble | 7,559,321 |
| `runs_store_rearm` | a statement of a docstring | no trouble | violation |
| `components` | the fifteen components of 2.4 | `components.cfg` names each bound; see below | 949,523 |
| `mq_rebuilds` | a statement of the supervisor's comment | 2 streams, 2 troubles | violation |

Why the bounds suffice: a slot clash needs two slots, a re-key two keys, a stale
cloud id one more than are in use; a claim race two hubs and two threads (a claim
has two steps); a wrong pairing two runs, and fourteen ticks hold two runs, the rest
between them and the last idle window; a run that ends while HA is down needs a
stop and a tick. In `components`: two accounts with two copies of two events, which
is what doubles or reorders an increment; two commands with two accounts, a code with
an alias and one that only the project takes; two streams, one that stops while the
other starts, with four troubles; two threads, three tokens and two revocations; two
recorders and the reader over a month roll; two options dialogs; two learners with a
refresh; one browser with two candidates (sessions do not meet); three maps with two
data points; every pair of eight kinds of description under two names; two valves,
places, sites, pumps and two edits with a crash; four cover moves, followed up to the first command that supersedes another; two waterings
with two lost reports, one more than `RowsApartInFeed` bears; two devices of two categories with two threads that bind; slots,
times, amounts and masks at their limits. Each property fails with its mutant inside the same bounds.

What the passing runs show:

- `MirrorExact`: with nothing under way, the registry shows the valve's slots,
  except those in `blind`. `CloudMirrors`: with nothing under way and no fault,
  the cloud lists exactly the enabled timers. `ResyncSparesListed`: a resync that no
  other write overlaps wipes no timer that the cloud lists; and whatever overlaps it, a
  slot that still holds what was read before the GET is wiped only if its timer is
  enabled and the listing has timers, but none at its time and days. What a call in
  between wrote is not safe: that is what the two violations show. `LabelsOnHeldSlots`
  is checked with restarts (`timers_serial`) and proved for any number of calls.
  `NoWriteDuringLockout`, `PlanStamped` (action properties), `NoDuplicateKeys`.
- `SoleServer`: two hubs serve a device only if their claims overlapped.
  `KeepsHub`: a device whose rows belong to a hub is claimed by no other while it
  exists, also while it is loading or disabled. `SparesOthersLoading`: while a hub
  fetches its devices no other hub's clean-up removes them. `LoadsEventually`: an
  enabled hub gets loaded, or is changed by a user again.
- `EachRunOnce`, `OwnLiters`, `RowsApart`, `RowsBounded`: section 2.3.
- Messages: `CountedOnce` (an increment is added once however many accounts deliver
  it), `TotalIsSum`, `NoneStranded`, `DispatchesOnce` (the refinement of `Inbox`).
  Commands: `FallBacksSafe` (no repeat unless an answer was lost, and the result and
  the quota say what the cloud said, but for the refusals that a custom project's
  account misreads; and those commands the cloud did not take).
- Threads: `SoleStream` (one stream speaks to the hub), `ReconnectHeals` (the flag
  comes down with the login, a refused token is not trusted again), `CountsThisMonth`.
- Dialogs: `SettingsKept`, `OneDialog`, `KeysTrue`, `CandidatesOnce` (each trickled
  candidate reaches the camera once and after the offer, also when the browser hangs up
  while the offer is handled).
- Devices: `EntitiesFollow` (all copies share what the entities read),
  `RepairSettles` (a third pass of the fixes changes nothing, which is the reason the
  code gives for the second, and all descriptions of the data point then agree),
  `NamedOnce` (its codes keep their names, and no status is left under an alias),
  `CodesShown` (every code shown by its descriptors or by one generic entity).
- Farm: `HistoryStays` (the past of a place and of a pump cannot be edited away, and
  only the seed puts two valves on a place), `FeedTrue` (the feeds against what
  happened; a watering a timer began is on the planned calendar unless the cloud says
  that this very timer is off or gone), `FramesTell`. `PositionTrue`: at rest the
  position shown is the cover's, up to the overshoot of the timed stops, and exactly if
  it last ran into a position by itself. Excused are a command that superseded another,
  and `astray`, until the cover runs into a position again.

Each of them carries the exceptions that the code really has, as history variables
(`late`, `raced`, `overlapped`, `crossed`, `irCrossed`, `superseded`, `astray`,
`misread`, `reopened`) or
in its antecedent: they mark the overlaps after which the code does not promise it. So
`NoneStranded`, `TotalIsSum`, `CountsThisMonth` and `SettingsKept` say what holds but for
the race itself, whose outcome is listed below.

Two specifications state fairness. In `hubs`: weak fairness on the load of
each hub and on the steps Home Assistant owes (set up what is asked for, fire the
retry timer), since the event loop serves every coroutine. In `mq_rebuilds`: weak
fairness of every thread, of the network thread that reconnects a client it lost, and of
the supervisor's timer, since threads are scheduled and the timer is periodic.
Nothing is assumed of users, of the cloud or of failures, and failures are bounded
(`MaxTrouble`). Runs say `CHECK_DEADLOCK FALSE` because operations and ticks are
bounded, so a behaviour may end; that everything comes to rest properly is what the
properties at rest say.

### Findings

`PROJECT.json` quotes the lines. In short: a resync deletes a timer that never reached the cloud,
and one that was disabled while it was fetching; two MQTT threads can claim one device; the
clean-up removes devices of a disabled hub, or of one in the middle of a reload;
a calendar render within two minutes of a T3 run drops the timer that would
record it; and an MQTT thread whose client could not be made waits for its own lock
for ever, alive, so nothing restarts it.

### Observed and not checked

Met while reading the code; no run claims them.

- Hubs: an exception of a source other than `ConfigEntryNotReady` leaves a hub
  "loaded" with an empty map (`multi_manager.py` 295-300); a retry timer that was left over
  reloads a healthy hub.
- Runs: a close reported before its start, within six hours of the previous start, is
  paired with that start (`runs_store.py` 388): one row then covers two runs and the rest
  between them. A run in progress over a restart that closes on schedule is lost
  (`runs_store.py` 343-351). Live rows are not tested for overlap with imported ones;
  an imported run whose next start and own end were both lost merges two runs.
- Messages: codes that are not summed have no arbitration; two reports of the sharing
  account within one second lose the second (both are treated as copies).
- Messages: one that is parked after the queue was taken stays there (`late`); two additions
  to a summed state that overlap lose one (`raced`).
- Quota: a roll of the month against another thread may drop a device (`overlapped`).
- Commands: a refused regular command of a custom project passes for a good one (2.4);
  regular commands are dropped when a virtual one is among them, and
  `send_commands` returns the result of its last command only; the quota counts
  commands of the sharing account too.
- Token: a client without country code never reconnects after the expiry; a late
  refusal of an old token makes a newer one invalid; the second pass of a refused request is
  sent without a token.
- MQTT: `stop` against the test of the stop event leaves a client connected that
  nobody listens to; a refresh that overlaps the end of the hub leaves a stream running.
- Dialogs: an options dialog writes back the options it read when it opened. Only the first
  dialog of an "add remote" button is registered; after a creation that failed, the
  next press creates at once. The cover form copies the first cover's position to all.
- WebRTC: an offer is published after the disconnect of a browser that hung up while it
  was handled; candidates that arrive before the offer is read are dropped when the offer
  brings its own; a camera answer after the expiry makes a session nobody owns.
- Copies: after a re-bind a copy whose statuses equal the new ones keeps the old
  dictionary (`EntitiesFollow` holds until then); no fixes run after a re-bind.
- Repair: a second pass loses `ErrorValue2`; ranges that do not meet are all replaced by
  the first description's.
- Discovery: a device removed in Tuya stays in the master map, so pairing it again
  counts as known and gives no entities until a reload (`CodesShown` leaves out
  `unbound`); a callback of an earlier priority that is added while the last ones run
  is never called; the excluded descriptors are computed and not used.
- Covers: a handler that was replaced keeps ticking and its end stops the motor; setting the
  position a button cover already has drives it fully closed. An inverted cover without
  precise positions turns the position around (`cover.py` 637) and then opens or closes
  through the inverting `async_open_cover` (650-652): the motor runs away from it. The
  virtual position of an inverted cover is shown as the device counts it.
- Calendars: planned windows include both ends; a run that closes within two minutes
  counts as closed; `_query_recent_runs` and `_pair_runs` (`calendar.py` 655-836) have no
  caller.
- Places: the seed may put two valves on one place; re-assigning a valve to a place it
  shares keeps both; a refused `update_site` has already renamed it.
- Codec: a disabled T3 timer with amount, hour, minute and days all zero reads as an
  empty slot (`FramesTell` says so).

## 4. Proofs

Every theorem holds for all values of the constants that satisfy the named
assumptions of the modules (natural bounds, `None` outside the sets it is compared
with, thresholds in the order of the code, bytes in their range).

| Theorem | Inductive invariant and why |
|---|---|
| `ValveTimersProofs!TypeCorrect` | `TypeOK` with what a call may hold at each program counter |
| `SlotsDistinct`, `LabelsHeld` | `Consistent`: distinct keys and labels on held slots, in the registry and in the last dump, since a restart brings the dump back |
| `PlansStamped`, `LockoutHonoured` | action properties over `TypeOK` |
| `SlotsMirrorTheValve` | `Mirrors`: `MirrorExact` says nothing of the report path, so: the last report of a slot on its way holds what the valve has (`Carries`), so does the one received and not read (`Received`) and the value a start reads (`Standing`), and what a restart will restore is right (`AtRest`). `ClearsFit` and `Alone`: an accepted clear is applied to a slot the valve has emptied |
| `ResyncSpares` | Two parts. Undisturbed, `Sparing`: the resync has the valve and the registry to itself, so its snapshot is the valve, its listing the registry or empty, and what it is still to clear is not listed. Whatever overlaps it, `AllConvict`: each slot a resync clears, or has still to clear, is one that its own snapshot and listing convict, since both are kept until it is done and no other call writes them |
| `CloudStaysMirrored` | `CloudAgrees`: outside the keys of the calls in flight the cloud lists what waters; the calls have slots and keys of their own (`Separate`); and `HalfDone`, `Phase` say, await by await, what the cloud lists of a call's keys. `OwnGids`: an entry is kept under its own id, so a DELETE drops that entry |
| `HubEntriesProofs!TypeCorrect` | `TypeOK` |
| `OneServer` | `Lifecycle` (which program counters go with which entry state) and `Owned` (what a hub serves it owns, unless claims overlapped) |
| `StaysWithItsHub` | `KeepsInv`: each pending write is justified by the check that preceded it |
| `LoadingSpared` | action property over `Lifecycle` |
| `RunsStoreProofs!TypeCorrect`, `RowsAreBounded` | `Sound`: not only rows but the file, the records a valve may send and the run in progress are good, and no sensor shows what was not reported. `AddRunGood` is the lemma about the table |
| `BoundsAreUnique` | `Bounds`: one row per start and per close in the store and in the file, for every order of reports; `AddRunBounds` is the lemma about the table |
| `RowsStayApart` | `Courses`: `RowsApart` says nothing of what the sensors show, and a late start is what breaks it. `InOrder`: the valve's runs do not overlap, and the last one has the start it reports. `LateStart`, `NoStart`: a sensor that shows an older start, or none, has disturbed every run since; the first rise of the counter too. Hence `OwnStarts`: a row in the store or in the file that meets an undisturbed run, finished or in progress, has its start, and `Bounds` makes two such rows one. `RisePair`, `ShownPair` and `OwnPair` say it of the three pairs of a start and a close that become a row |
| `OldRunsOnce` | `Books`, for old valves and with `LongRests` (`Grace < Gap`, `Slack <= Gap`): `EachRunOnce` speaks of a quiet moment only. `Spacing`: every close in the store, in the file, in a timer or in a report lies in a rest, or is the scheduled one of the run in progress, so none is taken for another's. `Exact`: a row with the start of an undisturbed run has its close once it has closed. `Follows`, `Unarmed`: what the sensors and the timers hold of the run in progress, or of the last one. `Kept`: a closed run is in the table, or its close is still to be heard or its timer to run; across a stop it is in the file, or the sensors still show it. `InsideGrows` says what any handler can write into the table, `AddRunResult` what `add_run` makes of it |
| `OldRunsOwnWater` | `Waters`, on top of `Books` and under the same assumptions. `Metered`: what the valve's counter shows against the run in progress or the last one; a counter that is never reset lies at `Base` or above, so its value is not taken for a run's. `Gauged`: where the accumulator stands between the readings, and that it is empty while HA is down. `InRun`, `AfterRun`: while a run goes on, and until its row has liters, the sensor or the accumulator is at most one reading short of it at either end. `OwnWater` says the property of the store and of the file, closed runs only. `InsideWrites` says what each handler does to table and accumulator. That a close with no row near it makes a row of its own needs the latest of a set of rows: `BoundedHasMax`, from the well-foundedness of `<` on `Nat` (`WFMin`) |
| `AccountsProofs!GateImplementsInbox` | `GateInv`: what a broker still holds is new and without repeats, a message about to be parked is not in the queue, and while the queue may be drained what the loop has not taken is in it once and was not dispatched. Then every step is a step of `Inbox` or a stutter |
| `IncrementsCountOnce`, `TotalIsTheSum` | `OnceInv`: an increment under way is not after the last time let through, was not counted and has one thread, since only a strictly later report passes. `SumInv`: an addition under way was computed from the present total, until something races |
| `NoMessageStranded` | `StrandInv`: a message that nobody dispatched is about to be parked while the cache is fetched, or in the part of the queue that the loop has still to take, or late. `NoneStranded` speaks of the quiet end only |
| `HubHearsOneStream` | `Sole`: only the current stream is listened to, and a refresh has silenced it before it makes the next. `SoleStream` alone does not say which stream |
| `TokenTypes`, `TokenReconnects` | `TokenInv`: types, and a token held or sent was issued, so that a new token was never refused |
| `TrackerCounts` | `QuotaInv`: between the two statements of a roll nothing was commanded, and with no save due or about to be asked for the file too holds this month's devices; hence a restart loses nothing |
| `DialogsProofs!FormsKeepTheRest` | `FlowInv`: no dialog without an entry, and until the entry changes under an open dialog every open dialog holds the options of the entry: only then does writing all of them back keep what another dialog entered |
| `RemotesOfOneDialog` | `AddInv`: what is entered so far in the shared record was entered in its registered dialog, and a creation under way works on a complete one |
| `KeysStayTrue` | `KeyInv`: a thread holds nothing but what it heard in its own session; the hub listens for some thread that will stop it; a deletion is followed by a refresh, and a refresh under way has the keys as they are unless another is due |
| `CandidatesArriveOnce` | `RtcInv`: at each stage of the offer, what the browser told is split between the queue and the wire, and no candidate is on the wire before the offer (`Led`), though a disconnect may be |
| `EveryCodeShown`, `FoundTypesTrue` | `FoundInv`: `CodesShown` speaks of the quiet end only, so `AllPlanned`: from the setup of the platform on, a device in the master map has all its entities (`Covered`), or a thread is about to announce it, or a job is to discover it, or a callback is to give it generic entities. `CallsTrue`: what waits to be called names devices of the map, and a generic callback only those whose descriptors were all tried. `DevicesTrue`: an entity of a descriptor has its code handled, a generic one was made when every descriptor had been tried and nothing handled its code (`EntitiesTrue`), so no code gets both; and what is handled is shown, here or by the official integration (`ShownTrue`, `OfficialHandled`). `AtFirst`: before the platform is set up nothing listens and nothing is shown. The merge of the tables is a fold of folds: `MergeLists` keeps the codes of both lists as long as a key has one code, so `PlatformTable` has for a category what the sources have for it (`SourceDescriptors`); the two passes over it (`Pass`) are folds again. A fold is proved on the sequence of its prefixes (`FollowSteps`, `TableSteps`, `PassSteps`). Assumed (`CatalogueAssumption`): see below |
| `DevicesProofs!FramesTellTheTimer`, `FramesTyped` | `TaskInv`: the frame is the encoding of the timer that was written last, or a clear. `FramesTell` is not inductive, because what a toggle or an edit does to a frame depends on its bytes and not on what they decode to. The lemmas take an amount apart into four bytes and a mask into seven days |
| `FallBacksStaySafe` | `CmdInv`: a command was taken as often as its answer was lost, and once more if it was answered; what was answered, or was misread as answered, lies behind the command being tried, and nothing is both; a lock call that is not done lost the answer of every operation |
| `PositionStaysTrue` | `CoverInv`: at most one handler ticks; while it does, the position computed for it and the motor's are at most the drift and one interval apart (`Beside`), and so they are at the end (`AtEnd`). A motor that still runs with nothing ticking runs to where it was asked to, unless `astray` says otherwise |
| `CopiesFollow` | `FollowInv`: until the device is bound again its copies have one dictionary. The merge is two nested loops (`MergeWithEarlier`, `MergeSources`, recursive functions): the inner one leaves the copies it has come to with the same codes (`Level`), so the outer one ends with all of them level, though they do not share yet. What the master's group then gets tells every other copy from it, and one code more is no collapse, so the mirror reaches them all. Assumed: the accounts do not know the code that the integration itself adds |
| `CodesNamedOnce` | `DpInv`: until it is prepared, the device is a well-formed copy that holds the codes it is forced to keep; once prepared it has clean names (`CleanNames`), and those codes are its own. The fourteen repairs and the seven steps of a merge are folds over their names (`FixSteps`, `AgreeSteps`); all but two of the repairs leave names alone (`SameNames`), and the two that do not, and the merge, keep a code `Answered`: reported under its own name, or an alias of the strategy that is. Thus a forced code that an alias hides is given back by `_enforce_compatibility` (`EnforceSteps`): it can be the only forced code, since with both forced nothing can be hidden. For a fetched device that is `DescriptionsAssumption`, below; for a prepared one, that a clean device with both codes has neither as an alias, so that no repair on the way removes one |
| `LocationsProofs!TheFarmKeepsItsHistory` | `FarmInv`: table and file are `Good`, that is, each list of windows is dated up to today, at most one at a time, and refers to what exists; and `Mirrors`: on the days before `farmDirty` the file has the pumps of the table and at least its valves. `Good` says the sites are a forest as every set of sites having one whose parent lies outside: that a parent is no ancestor (`NothingDangles`) is about the chain that `site_chain` walks, and follows from it (`ChainEnds`: the walk is over before the sites are; `NoCircle`). `Kept` is what each request must do: `Good` again, past places and pumps the same or dropped with a place never watered, no place shared anew. The one request that reaches back is the first pump of a target, which is why `farmDirty` is then before all days. The seeds are folds over sets, whose invariants are proved on the function the fold stands for (`SeedSteps`, `SiteSteps`). Assumed (`FarmAssumption`): what is on the disk was written by this code before the first day, and ids do not run out |
| `WaterFeedProofs!TheCalendarsAreTrue` | `FeedInv`: `FeedTrue` is about rows and calendars; the invariant is about what they are made from. `ClosesPlaced`: no reported close lies within a watering but the scheduled one of the watering that runs, unless a valve was opened under an older schedule. `Losses`: one lost report leaves, of any ended watering and any start, the close of the one or the other, so that a start is never paired with a close beyond the next watering's start; with none lost the sensors show the last watering. `CounterTrue`: the counter restarts with each watering. Hence a pairing is a run of one watering (`PairsAreRuns`), of all that were over and with their liters if nothing was lost (`PairsExact`, `SumIs`), and both ways a row comes into the table, live (`RowAdded`) and from the import (`MergeShape`, `MergeExact`), keep rows apart and one to a watering. The merge and the sum go over sets: their lemmas are an induction over the subsets of a finite set (`SubsetInduct`). Assumed (`FeedAssumption`): a slot of the registry is one timer, its length a natural number, and the cloud's own timers have slots of their own |

Each proof has one lemma per action, or per group of actions that touch the same
variables, and lemmas for the record and table operators. `SlotsMirrorTheValve` has
the hypothesis `Serial`: one operation at a time, as in the run that checks it. TLC
checked the inductive invariants inside the bounds of the runs while they were found.

`CatalogueAssumption` says three things of the tables of descriptors. No two descriptors
that may meet in a category have one key and different codes, and no code that a generic
entity suits is the key of a descriptor for another code: without either the merge drops a
code that nothing then shows. The tables of number, switch, event, button, fan,
binary_sensor, select, sensor, cover and light, of this integration and its parsers, have no
such pair. And a platform with descriptors for any category merges at least one more table:
merged with nothing, they would not reach a category that has a list of its own
(`entity.py` 43-82). The sharing account always brings the official integration's.

`DescriptionsAssumption` says of what the accounts report that it is a well-formed record,
and that the official integration's copy reports the data point under one code: it has one
code for each data point, and the second name is what the other account adds.

Model-checked only, and why:

- `LoadsEventually`: liveness under fairness is out of the prover's reach.
- `EachRunOnce` and `OwnLiters` for a T3, whose rows come from the accumulator, its idle
  timer and the record the valve sends on its own: the run in progress has no start the
  sensors show, so neither `Books` nor `Waters` says anything of it. For an old valve
  both are proved; TLC checks both kinds. The attempts at `RowsApart` showed that it is
  false without its exception for disturbed runs (section 2.3).
- `RepairSettles`: what fourteen repairs in a row make of the types, limits and options
  that two accounts give. TLC goes through every pair of the descriptions the instance
  lists; for any descriptions at all it is not claimed.
- The types of the components in 2.4 that have no theorem.

The library's induction theorems cannot be used, since they take operators; a loop has
to be written as a recursive function, and its invariant as a set of naturals or of
subsets closed under the next (`NatInduct`, `SubsetInduct`), as for `CopiesFollow`, the
seeds of `Locations`, the merge of `WaterFeed`, the tables of `Discovery` and the repairs of `DpRepair`.

## 5. Plan

Done: valve timers; hub entries; runs store; the components of 2.4. Next, in this order:

1. `EachRunOnce` and `OwnLiters` for a T3, from an invariant about the accumulator and its idle
   timer.
2. `RunsStore` extended: back-to-back runs, runs cut by a restart, two stores at
   setup; an abstract ledger that it implements under `Gap`.
3. `Messages` and `DeviceCopies` composed: a report between two merges.
4. Lock states (`lock.py` 205-420) and the totals that sensors restore
   (`sensor.py` 2440-2620).

## 6. Not modelled

- Tables: the descriptors of the platforms (most of `sensor.py`, `switch.py`,
  `number.py`, `event.py`, `climate.py`, `const.py`), about half of the implementation.
- The conversion of single values: `V/sensor.py` but the timer registry, `light.py`,
  `climate.py`, `entity_parser/inkbird`, `single_run.py`, `liters.py`.
- The parsing of cloud answers: specifications, data models, scenes, assets, statistics.
- What passes a request on and keeps nothing: services, views, diagnostics, most of the
  account interfaces.
- Copies of Home Assistant's Tuya integration (`ha_tuya_integration`), the library
  `tuya_sharing`, paho, Home Assistant itself: they appear as the actions that `map`
  marks external.
- The cards in the browser.
