----------------------------- MODULE RunsStore -----------------------------
(***************************************************************************)
(* The irrigation runs of one valve and how farm/runs_store.py records     *)
(* them from the valve's reports.  A valve is either an old one (start and *)
(* end sensors: the firmware reports the scheduled close when a run starts *)
(* and says nothing more when the valve closes on schedule) or a T3 (a     *)
(* volume counter, and now and then a record of the last run).             *)
(*                                                                         *)
(* Time advances in ticks.  The thresholds of the code are constants that  *)
(* keep their order; a timer of Home Assistant fires in the tick it is due.*)
(* A running valve delivers one liter per tick; the last tick may be dry.  *)
(***************************************************************************)
EXTENDS Integers, FiniteSets

CONSTANTS MaxTime,     \* ticks of a behaviour
          Lengths,     \* scheduled durations
          Grace,       \* PREREPORT_SETTLE_SEC
          Settle,      \* CLOSE_SETTLE_SEC
          Slack,       \* MAX_FUTURE_SLACK_SEC
          IdleTime,    \* IDLE_CLOSE_SEC
          Dedupe,      \* RUN_DEDUPE_SLACK_SEC
          MaxRun,      \* MAX_RUN_SECONDS
          SaveDelay,   \* SAVE_DELAY_SEC
          Gap,         \* least rest between a scheduled close and the next run
          MaxTrouble,  \* ticks with a report under way or Home Assistant down, and stops
          None

ASSUME ThresholdsAssumption ==
    /\ {MaxTime, Grace, Settle, Slack, IdleTime, Dedupe, MaxRun, SaveDelay, Gap, MaxTrouble} \subseteq Nat
    /\ 1 <= Grace /\ Grace <= Settle /\ Settle <= Slack
    /\ Slack <= IdleTime /\ IdleTime <= Dedupe /\ Dedupe <= MaxRun
    /\ Lengths \subseteq 1 .. MaxRun

VARIABLES
    now,
    valve,      \* [kind, odometer]: which firmware, which volume counter
    run,        \* the run in progress: [start, until, liters], or None
    rest,       \* no run starts before this time
    dps,        \* what the valve reported last
    seen,       \* the states of its sensors in Home Assistant
    up,         \* Home Assistant runs and has loaded the store
    armed,      \* track_devices has found the valve's sensors
    rows,       \* RunsStore.runs of the valve
    perCycle,   \* the valve is in RunsStore.per_cycle
    acc,        \* its volume accumulator
    pend,       \* the pre-reported closes _record_scheduled waits for
    idle,       \* when _close_idle_run is due, or None
    saveDue,    \* when the delayed save is due, or None
    disk,       \* the stored [rows, perCycle]
    trouble,    \* what is left of MaxTrouble
    truth,      \* the finished runs: [start, end, liters] (history)
    disturbed   \* starts of the runs met by a late report or a stop (history)

outside == <<valve, run, rest, dps>>
memory == <<rows, perCycle, acc, pend, idle, saveDue>>
history == <<truth, disturbed>>
vars == <<now, outside, seen, up, armed, memory, disk, trouble, history>>

Time == 0 .. MaxTime + MaxRun
Base == MaxTime + MaxRun + 1      \* where an odometer stands
Liters == Nat

Row == [start: Time, end: Time, liters: Liters \cup {None}]
Running == [start: Time, until: Time, liters: Nat]

ASSUME NoneAssumption == None \notin Int /\ None \notin Row /\ None \notin Running

Valve == [kind: {"old", "t3"}, odometer: BOOLEAN]

(* counter: the record of the last run of a T3                              *)
Reports == [start: Time \cup {None}, end: Time \cup {None}, volume: Nat,
            counter: Row \cup {None}]

Shown == [start: Time \cup {None}, end: Time \cup {None}, volume: Nat \cup {None},
          counter: Row \cup {None}]

Sensors == {"start", "end", "volume", "counter"}

(* a sensor is unknown until it has a report                                *)
Unknown == [start |-> None, end |-> None, volume |-> None, counter |-> None]

Accumulator == [last: Nat \cup {None}, at: Time, delivered: Nat,
                first: Time \cup {None}, rise: Time \cup {None}]

NewAccumulator == [last |-> None, at |-> 0, delivered |-> 0, first |-> None, rise |-> None]

OldValve == valve.kind = "old"

(* Every variable keeps its type.                                          *)
TypeOK ==
    /\ now \in 0 .. MaxTime
    /\ valve \in Valve
    /\ run \in Running \cup {None} /\ rest \in Nat
    /\ dps \in Reports
    /\ seen \in Shown
    /\ up \in BOOLEAN /\ armed \in BOOLEAN
    /\ rows \subseteq Row
    /\ perCycle \in BOOLEAN
    /\ acc \in Accumulator
    /\ pend \subseteq Time
    /\ idle \in Nat \cup {None} /\ saveDue \in Nat \cup {None}
    /\ disk \in [rows: SUBSET Row, perCycle: BOOLEAN]
    /\ trouble \in 0 .. MaxTrouble
    /\ truth \subseteq Row
    /\ disturbed \subseteq Time

Init ==
    /\ now = 0
    /\ valve \in Valve /\ (valve.kind = "t3" => ~valve.odometer)
    /\ run = None /\ rest = 0
    /\ dps = [Unknown EXCEPT !.volume = IF valve.odometer THEN Base ELSE 0]
    /\ seen = dps
    /\ up = TRUE /\ armed = TRUE
    /\ rows = {} /\ perCycle = FALSE
    /\ acc = [NewAccumulator EXCEPT !.last = dps.volume]
    /\ pend = {} /\ idle = None /\ saveDue = None
    /\ disk = [rows |-> {}, perCycle |-> FALSE]
    /\ trouble = MaxTrouble
    /\ truth = {} /\ disturbed = {}

-----------------------------------------------------------------------------
(* The table of runs                                                       *)

Truthy(liters) == liters \notin {None, 0}

(* a total that is an odometer reading is no run's                         *)
Sane(liters) == IF liters = None \/ liters >= Base THEN None ELSE liters

Max2(a, b) == IF a < b THEN b ELSE a

(* a copy only contributes the liters the kept row lacks                   *)
Filled(row, liters) ==
    IF Truthy(liters) /\ ~Truthy(row.liters) THEN [row EXCEPT !.liters = liters] ELSE row

Replaced(table, old, new) == (table \ {old}) \cup {new}

(* Mutant: every new end of a run becomes a row.                           *)
AddRunByEndOnly(table, start, end, liters) ==
    IF \E r \in table : r.end = end THEN table
    ELSE table \cup {[start |-> start, end |-> end, liters |-> liters]}

(* add_run: one row per end, and one per start, whose earliest end is kept *)
AddRun(table, start, end, liters) ==
    IF end <= start THEN table
    ELSE IF \E r \in table : r.end = end
         THEN LET row == CHOOSE r \in table : r.end = end
              IN  Replaced(table, row, Filled(row, liters))
    ELSE IF \E r \in table : r.start = start
         THEN LET row == CHOOSE r \in table : r.start = start
                  earliest == IF end < row.end THEN [row EXCEPT !.end = end] ELSE row
              IN  Replaced(table, row, Filled(earliest, liters))
    ELSE table \cup {[start |-> start, end |-> end, liters |-> liters]}

(* _row_near: the last row that ends up to slack after end, unless it ends *)
(* more than slack before                                                  *)
Near(table, end, slack) ==
    LET upTo == {r \in table : r.end <= end + slack}
    IN  {r \in upTo : r.end >= end - slack /\ \A q \in upTo : q.end <= r.end}

(* dedupe_by_start, at load                                                *)
DedupedByStart(table) ==
    {Filled(r, LET copies == {q \in table : q.start = r.start /\ Truthy(q.liters)}
               IN  IF copies = {} THEN None ELSE (CHOOSE q \in copies : TRUE).liters) :
        r \in {q \in table : \A p \in table : p.start = q.start => q.end <= p.end}}

-----------------------------------------------------------------------------
(* The volume accumulator                                                  *)

Emptied(a) == [a EXCEPT !.delivered = 0, !.first = None, !.rise = None]

(* plausible_delta: a small drop right after a reading is a late sample    *)
Implausible(prev, value, elapsed) == value < prev /\ 2 * value > prev /\ elapsed < 1

(* Mutant: a restarted counter counts backwards.                           *)
SignedClimb(prev, value) == value - prev

Climb(prev, value) == IF value < prev THEN value ELSE value - prev

(* a counter that falls to (almost) nothing restarts with every run        *)
Restarted(prev, value) == value < prev /\ value <= 1      \* MIN_RESET_READING_L

(* _late_close_reading: the last row takes the reading of its own counter  *)
LateReading(table, value) ==
    {IF /\ \A q \in table : q.end <= r.end
        /\ r.liters # None /\ r.liters < value /\ now - r.end <= Settle
        /\ Sane(value) # None
     THEN [r EXCEPT !.liters = value] ELSE r : r \in table}

(* _run_liters, and the accumulator it leaves                              *)
RunLiters(cycle, a) ==
    IF cycle /\ Sane(seen.volume) # None THEN <<seen.volume, Emptied(a)>>
    ELSE IF a.delivered > 0 THEN <<Sane(a.delivered), Emptied(a)>>
    ELSE <<Sane(seen.volume), a>>

RecordEnd(start, end) ==
    LET taken == RunLiters(perCycle, acc)
    IN  /\ rows' = AddRun(rows, start, end, taken[1])
        /\ acc' = taken[2]

-----------------------------------------------------------------------------
(* The handlers of the sensors' state changes; seen holds the new state    *)

(* Mutant: a close is paired with whatever start is shown.                *)
PairsUpUncapped(start, end) == None \notin {start, end} /\ start < end

PairsUp(start, end) == None \notin {start, end} /\ start < end /\ end - start <= MaxRun

(* Mutant: the liters counted before a run are kept.                       *)
PreReportKeepingLiters(end) ==
    /\ pend' = IF end - now <= MaxRun THEN pend \cup {end} ELSE pend
    /\ UNCHANGED <<rows, acc>>

(* a close in the future is the schedule of a run that starts              *)
PreReport(end) ==
    /\ acc' = Emptied(acc)
    /\ pend' = IF end - now <= MaxRun THEN pend \cup {end} ELSE pend
    /\ UNCHANGED rows

(* the close of a run whose start is not known: the valve's own record of  *)
(* its duration, while fresh, or the first rise of the counter             *)
UnpairedStarts(end) ==
    LET own == {t.start : t \in {r \in truth : r.end = end}}
    IN  own \cup {acc.first}

OnEnd(end) ==
    IF end > now THEN PreReport(end)
    ELSE /\ UNCHANGED pend
         /\ IF PairsUp(seen.start, end) THEN RecordEnd(seen.start, end)
            ELSE IF Near(rows, end, Settle) # {} THEN UNCHANGED <<rows, acc>>
            ELSE \E start \in UnpairedStarts(end) :
                    IF PairsUp(start, end) THEN RecordEnd(start, end)
                                           ELSE UNCHANGED <<rows, acc>>

OnVolume(value) ==
    LET fresh == [acc EXCEPT !.last = value, !.at = now]
        restarted == acc.last # None /\ Restarted(acc.last, value)
        base == IF restarted THEN [fresh EXCEPT !.delivered = 0] ELSE fresh
        cycle == perCycle \/ restarted
        delta == Climb(acc.last, value)
    IN  IF acc.last = None THEN acc' = fresh /\ UNCHANGED <<rows, perCycle, idle>>
        ELSE /\ perCycle' = cycle
             /\ rows' = IF cycle THEN LateReading(rows, value) ELSE rows
             /\ IF Implausible(acc.last, value, now - acc.at)
                THEN acc' = [base EXCEPT !.last = acc.last, !.at = acc.at] /\ UNCHANGED idle
                ELSE IF delta = 0 THEN acc' = base /\ UNCHANGED idle
                ELSE /\ acc' = [base EXCEPT !.delivered = @ + delta, !.rise = now,
                                            !.first = IF @ = None THEN now ELSE @]
                     /\ idle' = IF OldValve THEN idle ELSE now + IdleTime

(* Mutant: the record is just another run.                                 *)
RecordCounterAdding(record) ==
    rows' = AddRun(rows, record.start, record.end, record.liters)

(* counter_custom is the valve's own record: it corrects a row that was    *)
(* derived from the flow                                                   *)
RecordCounter(record) ==
    LET near == Near(rows, record.end, Dedupe)
    IN  IF record.end - record.start > MaxRun \/ record.end <= record.start
        THEN UNCHANGED rows
        ELSE IF \E r \in near : r.end # record.end
             THEN rows' = (rows \ near) \cup {record}
        ELSE rows' = AddRun(rows, record.start, record.end, record.liters)

-----------------------------------------------------------------------------
(* Which runs a late report or a stop has met                              *)

Latest == IF run # None THEN {run.start}
          ELSE {t.start : t \in {r \in truth : \A q \in truth : q.end <= r.end}}

(* the run whose start an old valve's sensor still shows in the next one    *)
Mistaken == IF OldValve /\ seen.start # dps.start THEN {seen.start} \ {None} ELSE {}

Disturb(runs) == disturbed' = disturbed \cup runs

If(condition, runs) == IF condition THEN runs ELSE {}

AllSeen == up /\ seen = dps

-----------------------------------------------------------------------------
(* Reports, timers and listeners                                           *)

(* async_schedule_save: each change puts the save off                      *)
SchedulesSave ==
    saveDue' = IF rows' = rows /\ perCycle' = perCycle THEN saveDue ELSE now + SaveDelay

Deliver(sensor) ==
    /\ up /\ seen[sensor] # dps[sensor]
    /\ seen' = [seen EXCEPT ![sensor] = dps[sensor]]
    /\ \/ (~armed \/ sensor = "start") /\ UNCHANGED <<rows, perCycle, acc, pend, idle>>
       \/ armed /\ sensor = "end" /\ OnEnd(dps.end) /\ UNCHANGED <<perCycle, idle>>
       \/ armed /\ sensor = "volume" /\ OnVolume(dps.volume) /\ UNCHANGED pend
       \/ /\ armed /\ sensor = "counter"
          /\ RecordCounter(dps.counter) /\ UNCHANGED <<perCycle, acc, pend, idle>>
    /\ SchedulesSave
    /\ UNCHANGED <<now, outside, up, armed, disk, trouble, history>>

(* _record_scheduled: a pre-reported close has passed, and no close near it *)
(* is recorded                                                             *)
RecordScheduled(end) ==
    /\ end \in pend /\ end + Grace <= now
    /\ pend' = pend \ {end}
    /\ IF PairsUp(seen.start, end) /\ Near(rows, end, Slack) = {}
       THEN RecordEnd(seen.start, end) ELSE UNCHANGED <<rows, acc>>
    /\ UNCHANGED <<now, outside, seen, up, armed, perCycle, idle, disk, trouble, history>>
    /\ SchedulesSave

(* _close_idle_run: the counter has stopped climbing                       *)
CloseIdle ==
    /\ idle # None /\ idle <= now
    /\ idle' = None
    /\ acc' = Emptied(acc)
    /\ rows' = IF PairsUp(acc.first, acc.rise) /\ Near(rows, acc.rise, Dedupe) = {}
               THEN AddRun(rows, acc.first, acc.rise, Sane(acc.last)) ELSE rows
    /\ UNCHANGED <<now, outside, seen, up, armed, perCycle, pend, disk, trouble, history>>
    /\ SchedulesSave

(* track_devices for the first time: the last run is replayed from the     *)
(* sensors; a run that is not over yet is lost if it closes on schedule    *)
Arm ==
    /\ up /\ ~armed /\ armed' = TRUE
    /\ IF OldValve /\ PairsUp(seen.start, seen.end) /\ seen.end <= now
       THEN RecordEnd(seen.start, seen.end)
       ELSE /\ UNCHANGED acc
            /\ IF seen.counter # None THEN RecordCounter(seen.counter) ELSE UNCHANGED rows
    /\ Disturb(If(run # None \/ ~AllSeen, Latest))
    /\ UNCHANGED <<now, outside, seen, up, perCycle, pend, idle, disk, trouble, truth>>
    /\ SchedulesSave

(* track_devices again, every 15 minutes and at each render: release()     *)
(* drops the idle timer too                                                *)
Rearm ==
    /\ up /\ armed
    /\ idle' = None
    /\ Disturb(If(idle # None, Latest))
    /\ UNCHANGED <<now, outside, seen, up, armed, rows, perCycle, acc, pend, saveDue, disk,
                   trouble, truth>>

-----------------------------------------------------------------------------
(* Home Assistant stops and starts                                         *)

Stored == [rows |-> rows, perCycle |-> perCycle]

Save ==
    /\ saveDue # None /\ saveDue <= now
    /\ saveDue' = None /\ disk' = Stored
    /\ UNCHANGED <<now, outside, seen, up, armed, rows, perCycle, acc, pend, idle, trouble,
                   history>>

(* a delayed save is written at a shutdown, not in a crash: the rows that   *)
(* are not saved are lost, unless the sensors still hold the run           *)
Stop(graceful) ==
    /\ up /\ trouble > 0 /\ trouble' = trouble - 1
    /\ up' = FALSE /\ armed' = FALSE
    /\ disk' = IF graceful THEN Stored ELSE disk
    /\ rows' = {} /\ perCycle' = FALSE /\ acc' = NewAccumulator
    /\ pend' = {} /\ idle' = None /\ saveDue' = None
    /\ seen' = Unknown
    /\ Disturb(IF OldValve THEN {r.start : r \in rows \ disk'.rows} \ {dps.start} ELSE Latest)
    /\ UNCHANGED <<now, outside, truth>>

Boot ==
    /\ ~up /\ up' = TRUE
    /\ rows' = DedupedByStart(disk.rows) /\ perCycle' = disk.perCycle
    /\ saveDue' = IF rows' = disk.rows THEN None ELSE now + SaveDelay
    /\ UNCHANGED <<now, outside, seen, armed, acc, pend, idle, disk, trouble, history>>

-----------------------------------------------------------------------------
(* The valve                                                               *)

(* a run that starts before the reports of the last one have been heard    *)
(* meets it; the counter of a T3 must also have been heard at rest         *)
StartRun(length) ==
    /\ run = None /\ rest <= now /\ now < MaxTime
    /\ run' = [start |-> now, until |-> now + length, liters |-> 0]
    /\ dps' = [dps EXCEPT !.volume = IF valve.odometer THEN @ ELSE 0,
                          !.start = IF OldValve THEN now ELSE @,
                          !.end = IF OldValve THEN now + length ELSE @]
    /\ Disturb(If(~armed \/ ~AllSeen, Latest)
                  \cup If(IF OldValve THEN armed /\ ~AllSeen
                          ELSE ~armed \/ ~AllSeen \/ acc.last = None \/ acc.first # None, {now}))
    /\ UNCHANGED <<now, valve, rest, seen, up, armed, memory, disk, trouble, truth>>

(* the valve closes, on schedule or before                                 *)
CloseRun ==
    /\ run # None /\ run.start < now
    /\ run' = None /\ rest' = run.until + Gap
    /\ truth' = truth \cup {[start |-> run.start, end |-> now, liters |-> run.liters]}
    /\ dps' = [dps EXCEPT !.end = IF OldValve THEN now ELSE @]
    /\ UNCHANGED <<now, valve, seen, up, armed, memory, disk, trouble, disturbed>>

(* a T3 sends the record of its last run, some time after its close        *)
SendRecord ==
    /\ ~OldValve
    /\ \E t \in truth : /\ \A q \in truth : q.end <= t.end
                        /\ dps' = [dps EXCEPT !.counter = t]
    /\ UNCHANGED <<now, valve, run, rest, seen, up, armed, memory, disk, trouble, history>>

Due(timer) == timer # None /\ timer <= now

TimersDone == ~Due(idle) /\ ~Due(saveDue) /\ \A end \in pend : now < end + Grace

Flow == IF run = None THEN {0} ELSE IF now + 1 = run.until THEN {0, 1} ELSE {1}

Tick ==
    /\ now < MaxTime /\ (run # None => now < run.until)
    /\ TimersDone
    /\ now' = now + 1
    /\ IF AllSeen THEN UNCHANGED trouble ELSE trouble > 0 /\ trouble' = trouble - 1
    /\ Disturb(If(IF OldValve THEN up /\ ~AllSeen ELSE ~AllSeen, Latest \cup Mistaken))
    /\ \E liters \in Flow :
           /\ dps' = [dps EXCEPT !.volume = @ + liters]
           /\ run' = IF run = None THEN None ELSE [run EXCEPT !.liters = @ + liters]
    /\ UNCHANGED <<valve, rest, seen, up, armed, memory, disk, truth>>

-----------------------------------------------------------------------------
Next == \/ \E sensor \in Sensors : Deliver(sensor)
        \/ \E end \in pend : RecordScheduled(end)
        \/ CloseIdle \/ Arm \/ Rearm
        \/ Save \/ (\E graceful \in BOOLEAN : Stop(graceful)) \/ Boot
        \/ \E length \in Lengths : StartRun(length)
        \/ CloseRun \/ SendRecord \/ Tick

Spec == Init /\ [][Next]_vars

-----------------------------------------------------------------------------
(* Properties                                                              *)

Meets(row, t) == row.start < t.end /\ t.start < row.end

(* A run the store can know of: the counter of a T3 must have risen twice, *)
(* unless the valve sends its record.                                      *)
Known(t) == OldValve \/ t.liters >= 2 \/ seen.counter = t

(* The row of a T3 run spans the rises of its counter, until the valve     *)
(* sends its record.                                                       *)
Stands(row, t) ==
    IF OldValve THEN row.start = t.start /\ row.end = t.end
    ELSE /\ row.start \in t.start .. t.start + 1
         /\ row.end \in t.end - 1 .. t.end /\ (seen.counter = t => row.end = t.end)

Over(t) == now > t.end + (IF OldValve THEN Grace ELSE IdleTime)

Settled == AllSeen /\ armed /\ TimersDone

(* Each run is recorded exactly once, with its own start and close: from   *)
(* the close report, the scheduled close, the counter or the record, in    *)
(* whatever order they arrive, through re-arms and restarts.  Runs met by  *)
(* a late report or by a stop they do not outlive are no longer promised.  *)
EachRunOnce ==
    Settled => \A t \in truth : (Over(t) /\ Known(t) /\ t.start \notin disturbed) =>
        \E row \in rows : Stands(row, t) /\ \A r \in rows : Meets(r, t) => r = row

(* A row never holds the water of another run, and misses at most the last *)
(* reading, and the first one of an old valve, which a fresh accumulator   *)
(* takes for its base.                                                     *)
OwnLiters ==
    \A row \in rows : \A t \in truth :
        (Meets(row, t) /\ t.start \notin disturbed /\ row.liters # None)
          => row.liters \in t.liters - (IF OldValve THEN 2 ELSE 1) .. t.liters

(* No two rows of an old valve have the same start or the same close.      *)
OneRowPerBound(table) ==
    \A r, q \in table : (r.start = q.start \/ r.end = q.end) => r = q

(* An old valve's run is counted once in every total, at every moment: no  *)
(* two rows have one start or one close, whatever was late or lost, and no *)
(* two rows meet a run whose reports came in time.                         *)
RowsApart ==
    OldValve =>
        /\ OneRowPerBound(rows)
        /\ \A t \in truth : t.start \notin disturbed =>
               \A r, q \in rows : (Meets(r, t) /\ Meets(q, t)) => r = q

(* No row is empty or longer than MAX_RUN_SECONDS, on any path, also when a *)
(* close is heard before its start and paired with an earlier one.         *)
RowsBounded == \A row \in rows : row.start < row.end /\ row.end - row.start <= MaxRun

(* A T3 run whose counter has stopped climbing for IdleTime is recorded.   *)
IdleRunRecorded ==
    (Settled /\ ~OldValve) =>
        \A t \in truth : (Over(t) /\ Known(t)) => \E row \in rows : Meets(row, t)

=============================================================================
