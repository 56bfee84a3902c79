----------------------------- MODULE TimerState -----------------------------
(***************************************************************************)
(* The timer slots Home Assistant keeps for one irrigation valve           *)
(* (entity_parser/valves/timer_state.py, class TimerState), as operators   *)
(* on the slots, the cloud overlay and the listings the cloud returns.     *)
(*                                                                         *)
(* A timer is its key (hour, minute and days mask: what every match        *)
(* compares) and its enabled bit; the watering amount plays no part in any *)
(* of these decisions.  A frame is one report of the timer DP: the slot    *)
(* that was written last and its new content, None for a deleted slot.     *)
(***************************************************************************)
EXTENDS Naturals, FiniteSets

CONSTANTS NSlots,   \* number of slots of a valve (7 in the code)
          Keys,     \* (hour, minute, days_mask) triples
          Gids,     \* group ids the cloud gives its timer entries
          None      \* Python's None

ASSUME NSlotsAssumption == NSlots \in Nat \ {0}

Slots == 0 .. NSlots - 1

Timer == [key: Keys, on: BOOLEAN]

Held == Timer \cup {None}

(* The valve reports its own slots: an index out of range is dropped by the *)
(* code and is not modelled.                                               *)
Frame == [index: Slots, timer: Held]

(* One entry of the cloud's /timers listing.  alias is the device slot     *)
(* (old valves) or None; on is its start flag.                             *)
Entry == [gid: Gids, key: Keys, alias: Slots \cup {None}, on: BOOLEAN]

ASSUME NoneAssumption == None \notin Timer \cup Slots \cup Frame \cup Entry

Labels == {"on", "off", "missing", "unknown", "none"}   \* "none": no label

NoSlots == [i \in Slots |-> None]
NoLabels == [i \in Slots |-> "none"]

Enabled(held) == held # None /\ held.on

ActiveSlots(slots) == {i \in Slots : Enabled(slots[i])}

-----------------------------------------------------------------------------
(* apply_report: the frame replaces its slot, and any other slot with the  *)
(* same time and days is dropped as a stale duplicate.                     *)

(* Mutant: no slot is ever dropped as a duplicate.                         *)
DuplicatesKept(slots, f) == {}

Duplicates(slots, f) ==
    {i \in Slots : /\ f.timer # None /\ i # f.index /\ slots[i] # None
                   /\ slots[i].key = f.timer.key}

(* Mutant: a deletion that is reported leaves the slot as it was.          *)
AfterReportKeepingDeleted(slots, f) ==
    [i \in Slots |-> IF i = f.index /\ f.timer # None THEN f.timer
                     ELSE IF i \in Duplicates(slots, f) THEN None
                     ELSE slots[i]]

AfterReport(slots, f) ==
    [i \in Slots |-> IF i = f.index THEN f.timer
                     ELSE IF i \in Duplicates(slots, f) THEN None
                     ELSE slots[i]]

(* Mutant: what was restored keeps its labels, whatever the standing value *)
(* says.                                                                   *)
LabelsKeptOnRestore(slots, overlay, restored, f) ==
    [i \in Slots |-> IF (i = f.index /\ ~restored) \/ i \in Duplicates(slots, f) THEN "none" ELSE overlay[i]]

(* A report is newer than any cloud read of its slot, except the standing  *)
(* value read right after a restore when it changes nothing.               *)
LabelsAfterReport(slots, overlay, restored, f) ==
    [i \in Slots |->
        IF \/ i = f.index /\ ~(restored /\ slots[i] = f.timer)
           \/ i \in Duplicates(slots, f)
        THEN "none" ELSE overlay[i]]

-----------------------------------------------------------------------------
(* apply_cloud: one trusted listing labels the held slots.                 *)

(* An empty list while HA holds enabled slots, or an alias or a time that  *)
(* is listed twice, is a read that keeps the previous overlay.             *)
Collide(list) ==
    \E e, f \in list : /\ e # f
                       /\ e.key = f.key \/ (e.alias = f.alias /\ e.alias # None)

Trusted(slots, list) ==
    /\ ~(list = {} /\ ActiveSlots(slots) # {})
    /\ ~Collide(list)

(* Old valves match on the alias, entries without one on time and days.    *)
AliasMatches(i, list) == {e \in list : e.alias = i}

Matches(slots, i, list) ==
    IF AliasMatches(i, list) # {} THEN AliasMatches(i, list)
    ELSE {e \in list : e.alias = None /\ e.key = slots[i].key}

LabelFor(slots, i, list, mirrorOn) ==
    IF slots[i] = None THEN "none"
    ELSE IF Matches(slots, i, list) # {}
         THEN IF \E e \in Matches(slots, i, list) : e.on THEN "on" ELSE "off"
    ELSE IF slots[i].on /\ mirrorOn THEN "missing"
    ELSE "unknown"

LabelsFromCloud(slots, list, mirrorOn) ==
    [i \in Slots |-> LabelFor(slots, i, list, mirrorOn)]

Claimed(slots, list) ==
    UNION {Matches(slots, i, list) : i \in {j \in Slots : slots[j] # None}}

CloudOnly(slots, list) == {e.key : e \in {f \in list \ Claimed(slots, list) : f.on}}

(* The runs the calendar plans from the slots and their overlay.           *)
Planned(slots, overlay, cloudOnly) ==
    {slots[i].key : i \in {j \in ActiveSlots(slots) :
                              overlay[j] \notin {"off", "missing"}}} \cup cloudOnly

-----------------------------------------------------------------------------
(* What the services ask of a listing.                                     *)

KeysOf(list) == {e.key : e \in list}

(* Enabled slots of a snapshot that a listing does not know: what resync   *)
(* takes for live orphans.                                                 *)
Orphans(snap, list) == {i \in ActiveSlots(snap) : snap[i].key \notin KeysOf(list)}

=============================================================================
