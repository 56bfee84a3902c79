---------------------------- MODULE DeviceCopies ----------------------------
(* One device as the several copies a hub keeps of it: one per device map of its *)
(* accounts, the first of which is also the object of the master map, the one    *)
(* every entity reads.  Merging the copies makes them share one status           *)
(* dictionary, so that what any account's message writes is what the entities    *)
(* read (merging_manager.py, shared_classes.py, MultiManager).  Attribute writes *)
(* are mirrored into every registered map, unless that would lose half of the    *)
(* data points.  The other dictionaries of a device (function, status_range,     *)
(* local_strategy) are merged, linked and mirrored by the same code.             *)
EXTENDS Naturals, Sequences, SequencesExt, FiniteSets, Functions

CONSTANTS Copies,        \* the device maps of the hub: regular, sharing, iot
          Priority,      \* device_source_priority of each: the lowest wins
          DpCodes,       \* the data points the device may have
          MinCollapse,   \* _COLLAPSE_MIN_SIZE
          MaxRequeries,  \* how often the device is bound again
          MaxForeign     \* how often another hub fetches the device

VARIABLES maps,       \* the maps that hold the device, in the order of the accounts
          status,     \* the status dictionary of each copy
          shared,     \* the copies grouped by the dictionary object they share
          requeries, foreign

copyVars == <<maps, status, shared, requeries, foreign>>

EventCode == "xt_device_event_notify"    \* the data point every device gets
(* The accounts know nothing of the code that the integration itself adds. *)
ASSUME CopiesAssumption ==
  /\ IsFiniteSet(Copies) /\ Priority \in [Copies -> Nat]
  /\ IsFiniteSet(DpCodes) /\ EventCode \notin DpCodes
  /\ MinCollapse \in Nat /\ MaxRequeries \in Nat /\ MaxForeign \in Nat

Values == {0, 1}
Statuses(codes) == UNION {[c -> Values] : c \in SUBSET codes}
Held == Range(maps)
Master == Head(maps)
HasMaps == maps # <<>>

(* A state of the copies: the dictionaries and who shares which. *)
State(contents, groups) == [status |-> contents, shared |-> groups]
GroupOf(state, c) == CHOOSE g \in state.shared : c \in g
(* attribute := dictionary, for the given copies. *)
Assign(state, copies, dictionary) ==
  State([c \in DOMAIN state.status |-> IF c \in copies THEN dictionary ELSE state.status[c]],
        ({g \ copies : g \in state.shared} \ {{}}) \cup {copies})
(* lower.status = higher.status *)
Link(state, lower, higher) ==
  Assign(state, GroupOf(state, higher) \cup {lower}, state.status[higher])

(* is_dp_collapse *)
Collapses(old, new) == /\ Cardinality(DOMAIN old) >= MinCollapse
                       /\ 2 * Cardinality(DOMAIN new) <= Cardinality(DOMAIN old)
(* XTDeviceMap.set_device_key_value_multimap: the registered copies that differ  *)
(* take the dictionary, except where it would collapse them.                     *)
Mirrored(state, dictionary) ==
  {c \in DOMAIN state.status : /\ state.status[c] # dictionary
                               /\ ~Collapses(state.status[c], dictionary)}
(* XTDevice.__setattr__ on a copy in a map, and on a fresh object in none. *)
Write(state, copy, dictionary) ==
  Assign(state, {copy} \cup Mirrored(state, dictionary), dictionary)
WriteFresh(state, dictionary) ==
  IF Mirrored(state, dictionary) = {} THEN state
  ELSE Assign(state, Mirrored(state, dictionary), dictionary)

(* smart_merge of two dictionaries: a new one, the left one's values first. *)
SmartMerge(left, right) ==
  [c \in DOMAIN left \cup DOMAIN right |-> IF c \in DOMAIN left THEN left[c] ELSE right[c]]

(* merge_devices of two copies while the mirror is off. *)
MergeDevices(state, first, second) ==
  LET swap == Priority[second] < Priority[first]
      higher == IF swap THEN second ELSE first
      lower == IF swap THEN first ELSE second
      merged == SmartMerge(state.status[higher], state.status[lower])
  IN Link(Assign(state, {higher}, merged), lower, higher)

(* _merge_device_sources: each copy, in the order of the maps, with every one    *)
(* before it.                                                                     *)
MergeWithEarlier(state, order, n) ==
  LET upTo[p \in 0..(n - 1)] ==
        IF p = 0 THEN state ELSE MergeDevices(upTo[p - 1], order[p], order[n])
  IN upTo[n - 1]
MergeSources(state, order) ==
  LET merged[n \in 0..Len(order)] ==
        IF n = 0 THEN state ELSE MergeWithEarlier(merged[n - 1], order, n)
  IN merged[Len(order)]

(* _prepare_device writes into the master's dictionary, *)
AddDpcodes(state, master) ==
  LET dictionary == SmartMerge(state.status[master], [c \in {EventCode} |-> 0])
  IN State([c \in DOMAIN state.status |->
              IF c \in GroupOf(state, master) THEN dictionary ELSE state.status[c]],
           state.shared)
(* _align_multi_map_devices writes the master's dictionary over itself, which    *)
(* mirrors it into the copies that differ.  (As if the maps were only            *)
(* registered:)                                                                  *)
AlignNothing(state, master) == state
Align(state, master) ==
  Assign(state, GroupOf(state, master) \cup Mirrored(state, state.status[master]),
         state.status[master])

CopyInit == /\ maps = <<>> /\ status = <<>> /\ shared = {}
            /\ requeries = 0 /\ foreign = 0

(* mm_update_device_cache: every map that lists the device brings its own        *)
(* statuses; the copies are merged, the master prepared and the maps aligned.    *)
Load == /\ ~HasMaps
        /\ \E order \in UNION {[1..n -> Copies] : n \in 1..Cardinality(Copies)} :
             /\ IsInjective(order)
             /\ maps' = order
             /\ \E fetched \in [Range(order) -> Statuses(DpCodes)] :
                  LET alone == State(fetched, {{c} : c \in Range(order)})
                      merged == MergeSources(alone, order)
                      ready == Align(AddDpcodes(merged, order[1]), order[1])
                  IN status' = ready.status /\ shared' = ready.shared
        /\ UNCHANGED <<requeries, foreign>>

(* _on_device_report of an account: device.status[code] = value. *)
Reported(c, code, value) ==
  /\ HasMaps /\ c \in Held
  /\ status' = [d \in Held |-> IF d \in GroupOf(State(status, shared), c)
                               THEN SmartMerge([k \in {code} |-> value], status[d])
                               ELSE status[d]]
  /\ UNCHANGED <<maps, shared, requeries, foreign>>

(* put_device_keeping_object for a device bound again: building the fresh object *)
(* mirrors its statuses, and it is merged into the copy of the map.              *)
Requery(c) ==
  /\ HasMaps /\ c \in Held /\ requeries < MaxRequeries
  /\ requeries' = requeries + 1
  /\ \E fetched \in Statuses(DpCodes) :
       LET before == WriteFresh(State(status, shared), fetched)
           after == Write(before, c, SmartMerge(before.status[c], fetched))
       IN status' = after.status /\ shared' = after.shared
  /\ UNCHANGED <<maps, foreign>>

(* Another hub loads the device before it learns that this one owns it: the      *)
(* objects it builds carry the device's id and are mirrored here.                *)
ForeignFetch ==
  /\ HasMaps /\ foreign < MaxForeign
  /\ foreign' = foreign + 1
  /\ \E fetched \in Statuses(DpCodes) :
       LET after == WriteFresh(State(status, shared), fetched)
       IN status' = after.status /\ shared' = after.shared
  /\ UNCHANGED <<maps, requeries>>

CopyNext == \/ Load \/ ForeignFetch
            \/ \E c \in Copies : \/ Requery(c)
                                 \/ \E k \in DpCodes, v \in Values : Reported(c, k, v)

CopySpec == CopyInit /\ [][CopyNext]_copyVars

-----------------------------------------------------------------------------
(* Each held copy has a dictionary and belongs to one group, whose copies hold   *)
(* the same entries.                                                             *)
CopyTypeOK == /\ status \in [Held -> Statuses(DpCodes \cup {EventCode})]
              /\ UNION shared = Held
              /\ \A g, h \in shared : g # h => g \cap h = {}
              /\ \A g \in shared : \A c, d \in g : status[c] = status[d]

(* Until a device is bound again, whatever the maps that list it, their order    *)
(* and their statuses, and whatever another hub fetches: the copy each account's *)
(* messages are written to shares its statuses with the object the entities read *)
(* (merge_devices, _prepare_device, _align_multi_map_devices and the mirror).    *)
EntitiesFollow == HasMaps /\ requeries = 0 => shared = {Held}
=============================================================================
