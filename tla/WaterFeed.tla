------------------------------ MODULE WaterFeed ------------------------------
(* The calendars of a valve and the one-time import behind them.  The store *)
(* of its waterings is written as each one ends; what it missed is read     *)
(* once from the recorder, in the background, by pairing the values of the  *)
(* start and end sensors.  The completed calendar shows the rows and the    *)
(* watering that runs, the planned one what the timers will open.           *)
(* A unit of time is a minute, and a minute of water is LitersPerMinute.    *)
EXTENDS Naturals, Integers, FiniteSets, FiniteSetsExt

CONSTANTS
    LastMinute,     \* bound: the clock
    MaxRunMinutes,  \* MAX_RUN_SECONDS, MAX_SANE_RUN_SECONDS
    MaxWaterings,   \* bound
    MaxLostReports, \* bound: sensor reports that never arrive
    LastNForAverages,   \* LAST_N_FOR_AVERAGES
    Registries      \* the timers a valve may report, with the cloud's word on them

ASSUME FeedAssumption ==
    /\ LastMinute \in Nat /\ MaxRunMinutes \in Nat
    /\ \A reg \in Registries :       \* a slot is one timer, the cloud's own ones have slots of their own
          /\ \A x \in reg.slots : x.value \in Nat
          /\ \A x, y \in reg.slots \cup reg.cloudOnly : x.slot = y.slot => x = y

VARIABLES
    minute,
    registry,       \* the registry sensor: [slots, overlay, cloudOnly, fresh]
    watering,       \* the valve: closed, or open since start, scheduled to close
    waterings,      \* history: every watering that has ended, [start, end]
    startShown, endShown,               \* the states of the start and end sensors
    recStarts, recEnds, recVolumes,     \* what the recorder holds of them and of the counter
    feedRows,       \* the rows of the runs store
    import,         \* the import: where it is, and what it has read
    lostReports,
    reopened,       \* history: opened again before an earlier schedule was over
    opener          \* history: the slot of the timer that opened the valve last

sensorVars == <<startShown, endShown, recStarts, recEnds, recVolumes>>
feedVars == <<minute, registry, watering, waterings, sensorVars, feedRows, import, lostReports, reopened, opener>>

Never == -1         \* no time, no schedule, no liters
LitersPerMinute == 10
Closed == [start |-> Never, until |-> Never]
ByHand == "by hand" \* no timer's slot
NotImported == [phase |-> "no", at |-> Never, runs |-> {}]

Least(S) == IF S = {} THEN Never ELSE Min(S)

-----------------------------------------------------------------------------
(* Pairing the recorded values. *)

(* A start pairs with the earliest end after it, before the next start. *)
AnyLater(s, starts) == s + MaxRunMinutes
CloseLimit(s, starts) == Min({s + MaxRunMinutes} \cup {t \in starts : t > s})
CloseOf(s, starts, ends) == Least({e \in ends : s < e /\ e <= CloseLimit(s, starts)})

(* What the counter climbed from one time to another; a fall is a restart. *)
Climb(volumes, t) ==
    LET before == {u \in DOMAIN volumes : u < t}
        last == volumes[Max(before)]
    IN  IF before = {} THEN 0 ELSE IF volumes[t] >= last THEN volumes[t] - last ELSE volumes[t]
SumPlausible(volumes, from, until) ==
    LET seen == {t \in DOMAIN volumes : from <= t /\ t <= until}
    IN  IF seen = {} THEN Never ELSE FoldSet(LAMBDA t, sum : sum + Climb(volumes, t), 0, seen)

(* From the counter's restart, if it shows one; a counter that reports      *)
(* nothing and rests at 0 has let no water through.                         *)
LitersOf(s, end, starts, volumes) ==
    LET resets == {t \in DOMAIN volumes : s <= t /\ t <= s + 2 /\ volumes[t] = 0}
        from == IF resets = {} THEN s ELSE Min(resets)
        climbed == SumPlausible(volumes, from, Min({end + 1} \cup {t \in starts : t > s}))
        before == {t \in DOMAIN volumes : t <= s}
    IN  IF climbed # Never THEN climbed
        ELSE IF before # {} /\ volumes[Max(before)] = 0 THEN 0 ELSE Never

PairByValue(starts, ends, volumes) ==
    {[start |-> s, end |-> CloseOf(s, starts, ends),
      liters |-> LitersOf(s, CloseOf(s, starts, ends), starts, volumes)] :
        s \in {t \in starts : CloseOf(t, starts, ends) # Never}}

-----------------------------------------------------------------------------
(* The rows. *)

HasWater(r) == r.liters > 0
Watered(r, liters) == IF liters > 0 /\ ~HasWater(r) THEN [r EXCEPT !.liters = liters] ELSE r

(* add_run: one row per end, and one per start with its earliest end. *)
AddRow(table, new) ==
    LET sameEnd == {r \in table : r.end = new.end}
        sameStart == {r \in table : r.start = new.start}
        Earliest(r) == IF new.end < r.end THEN [r EXCEPT !.end = new.end] ELSE r
    IN  IF new.end <= new.start THEN table
        ELSE IF sameEnd # {} THEN (table \ sameEnd) \cup {Watered(r, new.liters) : r \in sameEnd}
        ELSE IF sameStart # {} THEN (table \ sameStart) \cup {Watered(Earliest(r), new.liters) : r \in sameStart}
        ELSE table \cup {new}

OverlapsOther(r, have) == \E x \in have : x.start < r.end /\ r.start < x.end /\ x.start # r.start

(* A recorded row the import changes nothing else of gets its liters. *)
Repaired(table, r) ==
    {IF x.start = r.start /\ r.liters # Never
           /\ (x.liters = Never \/ x.liters - r.liters > 1 \/ r.liters - x.liters > 1)
     THEN [x EXCEPT !.liters = r.liters] ELSE x : x \in table}
MergeRun(table, r, have) ==
    IF OverlapsOther(r, have) THEN table
    ELSE IF AddRow(table, r) # table THEN AddRow(table, r) ELSE Repaired(table, r)
(* In order of their starts. *)
MergeBackfill(table, runs) ==
    LET Last(those) == CHOOSE r \in those : \A q \in those : q.start <= r.start
        merged[those \in SUBSET runs] ==
            IF those = {} THEN table ELSE MergeRun(merged[those \ {Last(those)}], Last(those), table)
    IN  merged[runs]

-----------------------------------------------------------------------------
(* The calendars. *)

RunsInWindow(from, to) == {r \in feedRows : from <= r.end /\ r.end <= to}

(* The valve runs when its last start is newer than the last real close; a  *)
(* close well in the future is the schedule of the one that runs.           *)
LiveOpenRun ==
    IF \/ startShown = Never
       \/ startShown < endShown /\ endShown <= minute + 2
       \/ minute - startShown > MaxRunMinutes
    THEN {} ELSE {startShown}

CompletedFeed(from, to) == [rows |-> RunsInWindow(from, Min({to, minute})), open |-> LiveOpenRun]

AverageRate ==      \* of the last rows, where they have water
    LET Later(r) == {q \in feedRows : q.end > r.end}
        wet == {r \in feedRows : HasWater(r) /\ Cardinality(Later(r)) < LastNForAverages}
    IN  IF wet = {} THEN 0
        ELSE FoldSet(LAMBDA r, sum : sum + r.liters \div (r.end - r.start), 0, wet) \div Cardinality(wet)

Length(x) ==        \* of the event a timer is shown as; Never: it is not shown
    IF x.mode = "duration"
    THEN IF x.value > MaxRunMinutes THEN Never ELSE IF x.value > 0 THEN x.value ELSE 1
    ELSE IF AverageRate > 0 THEN Max({1, x.value \div AverageRate}) ELSE 1

FreshOverlay == IF registry.fresh THEN registry.overlay ELSE {}
FreshOnly == IF registry.fresh THEN registry.cloudOnly ELSE {}
Withheld(slot) == <<slot, "off">> \in FreshOverlay \/ <<slot, "missing">> \in FreshOverlay
PlannedSlots ==
    {x \in registry.slots : x.enabled /\ ~Withheld(x.slot)} \cup FreshOnly
PlannedFeed(from, to) ==
    {[uid |-> x.slot, start |-> x.minute, end |-> x.minute + Length(x)] :
        x \in {y \in PlannedSlots : y.today /\ from <= y.minute /\ y.minute <= to /\ Length(y) # Never}}

-----------------------------------------------------------------------------
FeedInit ==
    /\ minute = 0 /\ registry \in Registries
    /\ watering = Closed /\ waterings = {}
    /\ startShown = Never /\ endShown = Never
    /\ recStarts = {} /\ recEnds = {} /\ recVolumes = <<>>
    /\ feedRows = {} /\ import = NotImported
    /\ lostReports = 0 /\ reopened = FALSE /\ opener = ByHand

Counted(t, liters) == recVolumes' = [u \in DOMAIN recVolumes \cup {t} |-> IF u = t THEN liters ELSE recVolumes[u]]
Reports(lost) == lostReports' = lostReports + lost /\ lostReports' <= MaxLostReports

(* The valve opens; a valve that knows when it will close reports that too. *)
OpenValve(slot, until, startLost, endLost) ==
    /\ watering = Closed /\ minute < LastMinute
    /\ Cardinality(waterings) < MaxWaterings
    /\ \A r \in waterings : r.end < minute
    /\ watering' = [start |-> minute, until |-> until] /\ opener' = slot
    /\ Counted(minute, 0)
    /\ IF startLost THEN UNCHANGED <<startShown, recStarts>>
       ELSE startShown' = minute /\ recStarts' = recStarts \cup {minute}
    /\ IF endLost \/ until = Never THEN UNCHANGED <<endShown, recEnds>>
       ELSE endShown' = until /\ recEnds' = recEnds \cup {until}
    /\ Reports((IF startLost THEN 1 ELSE 0) + (IF endLost THEN 1 ELSE 0))
    /\ reopened' = (reopened \/ \E e \in recEnds : e > minute)
    /\ UNCHANGED <<minute, registry, waterings, feedRows, import>>

OpenByTimer ==
    \E x \in registry.slots : /\ x.enabled /\ x.today /\ x.minute = minute
                              /\ x.mode = "duration" /\ x.value \in 1..MaxRunMinutes
                              /\ \E startLost, endLost \in BOOLEAN :
                                    OpenValve(x.slot, minute + x.value, startLost, endLost)
OpenByHand == \E startLost \in BOOLEAN : OpenValve(ByHand, Never, startLost, FALSE)

(* The valve closes: a close as scheduled has been reported before.  The    *)
(* runs store adds the row at once, with the valve's start or its own clock *)
(* of a manual opening and the liters it counted, or misses the watering.   *)
CloseValve(lost) ==
    LET run == [start |-> watering.start, end |-> minute]
        true == LitersPerMinute * (minute - run.start)
    IN  /\ watering # Closed /\ minute > run.start
        /\ watering' = Closed /\ waterings' = waterings \cup {run}
        /\ IF lost \/ endShown = minute THEN UNCHANGED <<endShown, recEnds>>
           ELSE endShown' = minute /\ recEnds' = recEnds \cup {minute}
        /\ Reports(IF lost THEN 1 ELSE 0) /\ (lost => endShown # minute)
        /\ \/ UNCHANGED feedRows
           \/ \E s \in {run.start} \cup (IF watering.until = Never THEN {run.start + 1} ELSE {}),
                 liters \in {true, true + LitersPerMinute, Never} :
                ~lost /\ feedRows' = AddRow(feedRows, [start |-> s, end |-> minute, liters |-> liters])
        /\ UNCHANGED <<minute, registry, startShown, recStarts, recVolumes, import, reopened, opener>>

(* The import: the recorder is queried off the event loop, up to the time   *)
(* it began; the rows are merged when the answer is there.                  *)
ImportReads ==
    /\ import = NotImported
    /\ import' = [phase |-> "read", at |-> minute, runs |->
         {r \in PairByValue(recStarts, recEnds, recVolumes) : r.end <= minute}]
    /\ UNCHANGED <<minute, registry, watering, waterings, sensorVars, feedRows, lostReports, reopened, opener>>
ImportMerges ==
    /\ import.phase = "read"
    /\ feedRows' = MergeBackfill(feedRows, import.runs)
    /\ import' = [import EXCEPT !.phase = "done", !.runs = {}]
    /\ UNCHANGED <<minute, registry, watering, waterings, sensorVars, lostReports, reopened, opener>>
ImportAgain ==      \* it failed, or Home Assistant stopped: the next start imports
    /\ import.phase = "read" /\ import' = NotImported
    /\ UNCHANGED <<minute, registry, watering, waterings, sensorVars, feedRows, lostReports, reopened, opener>>

MinuteGoes ==
    /\ minute < LastMinute /\ minute' = minute + 1
    /\ watering # Closed => /\ watering.until # minute /\ minute < watering.start + MaxRunMinutes
    /\ IF watering = Closed THEN UNCHANGED recVolumes
       ELSE Counted(minute', LitersPerMinute * (minute' - watering.start))
    /\ UNCHANGED <<registry, watering, waterings, startShown, endShown, recStarts, recEnds,
                   feedRows, import, lostReports, reopened, opener>>

FeedNext ==
    \/ OpenByTimer \/ OpenByHand \/ ImportReads \/ ImportMerges \/ ImportAgain \/ MinuteGoes
    \/ \E lost \in BOOLEAN : CloseValve(lost)

FeedSpec == FeedInit /\ [][FeedNext]_feedVars

-----------------------------------------------------------------------------
Minutes == 0..LastMinute
FeedTypeOK ==
    /\ minute \in Minutes /\ registry \in Registries
    /\ startShown \in Minutes \cup {Never} /\ endShown \in 0..(LastMinute + MaxRunMinutes) \cup {Never}
    /\ recStarts \subseteq Minutes /\ DOMAIN recVolumes \subseteq Minutes
    /\ \A r \in feedRows : r.start \in Minutes /\ r.end \in Minutes /\ r.liters \in Nat \cup {Never}
    /\ import.phase \in {"no", "read", "done"}

(* No two rows overlap, and a row is of one watering that has begun, even   *)
(* if a report was lost: no other close is taken for a lost one.  Not so    *)
(* when two are lost, a close and the next start, which make one row of two *)
(* waterings, nor when the valve opened again before the schedule of an     *)
(* aborted watering was over: that stale close may be taken for the later   *)
(* watering's.                                                              *)
Begun == waterings \cup (IF watering = Closed THEN {} ELSE {[start |-> watering.start, end |-> minute]})
Overlap(r, q) == r.start < q.end /\ q.start < r.end
RowsApartInFeed ==
    lostReports <= 1 /\ ~reopened =>
      /\ \A r, q \in feedRows : r # q => ~Overlap(r, q)
      /\ \A r \in feedRows : Cardinality({w \in Begun : Overlap(r, w)}) = 1

(* With every report received and no watering begun before an earlier one's *)
(* schedule was over, the import brings back every watering that ended      *)
(* before it began, and liters that were counted wrong.                     *)
Undisturbed == lostReports = 0 /\ ~reopened
ImportComplete ==
    import.phase = "done" /\ Undisturbed =>
      \A w \in waterings : w.end < import.at =>
        \E r \in feedRows : /\ r.end = w.end /\ r.start \in {w.start, w.start + 1}
                            /\ r.start = w.start => r.liters = LitersPerMinute * (w.end - w.start)

(* And the completed calendar shows the valve that is open, once: a close   *)
(* less than three minutes ahead counts as one.                             *)
OpenShown ==
    Undisturbed =>
      LET shown == CompletedFeed(0, LastMinute)
      IN  /\ shown.open \subseteq {watering.start} \ {Never}
          /\ \A r \in shown.rows : r.start \notin shown.open
          /\ watering # Closed /\ (watering.until = Never \/ watering.until > minute + 2) =>
               shown.open = {watering.start}

(* A watering that a timer began is on the planned calendar, with the uid   *)
(* of that timer and the close it has, unless the cloud says that this very *)
(* timer is off or gone; and no two events share a uid.                     *)
PlannedShown ==
    LET events == PlannedFeed(0, LastMinute)
    IN  /\ \A e, f \in events : e.uid = f.uid /\ e.start = f.start => e = f
        /\ watering.until # Never /\ ~Withheld(opener) =>
             [uid |-> opener, start |-> watering.start, end |-> watering.until]
                 \in PlannedFeed(watering.start, minute)

FeedTrue == RowsApartInFeed /\ ImportComplete /\ OpenShown /\ PlannedShown
=============================================================================
