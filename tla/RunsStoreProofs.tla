-------------------------- MODULE RunsStoreProofs --------------------------
(***************************************************************************)
(* Proofs about RunsStore, for every number of ticks, every thresholds and *)
(* any number of late reports and stops: variables keep their types; no    *)
(* row is empty or longer than MAX_RUN_SECONDS, on any of the paths that   *)
(* write one; for an old valve, no two rows share a bound, no two rows     *)
(* cover a moment of a run that nothing disturbed, and after a long enough *)
(* rest there is one, with the bounds of the run and its own water.        *)
(***************************************************************************)
EXTENDS RunsStore, TLAPS, WellFoundedInduction

(* The rows the store may hold.                                            *)
GoodRows == {r \in Row : r.start < r.end /\ r.end - r.start <= MaxRun}

(* Whatever is, or becomes, a row is good: what is stored, and the records *)
(* the valve may send.                                                     *)
AllGood ==
    /\ rows \subseteq GoodRows /\ disk.rows \subseteq GoodRows /\ truth \subseteq GoodRows
    /\ dps.counter \in GoodRows \cup {None} /\ seen.counter \in GoodRows \cup {None}

(* A sensor shows nothing the valve has not reported.                      *)
Heard == \A sensor \in Sensors : dps[sensor] = None => seen[sensor] = None

(* A run in progress has not passed its scheduled close.                   *)
OnSchedule ==
    run # None => /\ run.start <= now /\ now <= run.until
                  /\ run.until - run.start <= MaxRun

Sound == TypeOK /\ AllGood /\ Heard /\ OnSchedule

-----------------------------------------------------------------------------
(* The table of runs                                                       *)

LEMMA FilledGood ==
    ASSUME NEW row \in GoodRows, NEW liters \in Liters \cup {None}
    PROVE  Filled(row, liters) \in GoodRows
BY DEF Filled, GoodRows, Row

LEMMA AddRunGood ==
    ASSUME NEW table \in SUBSET GoodRows, NEW start \in Time, NEW end \in Time,
           start < end, end - start <= MaxRun, NEW liters \in Liters \cup {None}
    PROVE  AddRun(table, start, end, liters) \in SUBSET GoodRows
<1>1. [start |-> start, end |-> end, liters |-> liters] \in GoodRows
  BY DEF GoodRows, Row
<1>2. ASSUME NEW row \in table, NEW new \in GoodRows
      PROVE  Replaced(table, row, new) \subseteq GoodRows
  BY <1>2 DEF Replaced
<1>3. ~(end <= start)
  BY ThresholdsAssumption DEF Time
<1>4. CASE \E r \in table : r.end = end
  <2> DEFINE row == CHOOSE r \in table : r.end = end
  <2>1. row \in table
    BY <1>4
  <2>2. AddRun(table, start, end, liters) = Replaced(table, row, Filled(row, liters))
    BY <1>3, <1>4 DEF AddRun
  <2> QED
    BY <1>2, <2>1, <2>2, FilledGood
<1>5. CASE ~(\E r \in table : r.end = end) /\ \E r \in table : r.start = start
  <2> DEFINE row == CHOOSE r \in table : r.start = start
             earliest == IF end < row.end THEN [row EXCEPT !.end = end] ELSE row
  <2>1. row \in table /\ row.start = start
    BY <1>5
  <2>2. AddRun(table, start, end, liters) = Replaced(table, row, Filled(earliest, liters))
    BY <1>3, <1>5 DEF AddRun
  <2>3. earliest \in GoodRows
    BY <2>1 DEF GoodRows, Row
  <2> HIDE DEF row, earliest
  <2> QED
    BY <1>2, <2>1, <2>2, <2>3, FilledGood
<1>6. CASE ~(\E r \in table : r.end = end) /\ ~(\E r \in table : r.start = start)
  BY <1>1, <1>3, <1>6 DEF AddRun
<1> QED
  BY <1>4, <1>5, <1>6

LEMMA DedupedGood ==
    ASSUME NEW table \in SUBSET GoodRows
    PROVE  DedupedByStart(table) \in SUBSET GoodRows
<1>1. SUFFICES ASSUME NEW r \in table
               PROVE  LET copies == {q \in table : q.start = r.start /\ Truthy(q.liters)}
                      IN  Filled(r, IF copies = {} THEN None
                                    ELSE (CHOOSE q \in copies : TRUE).liters) \in GoodRows
  BY DEF DedupedByStart
<1> DEFINE copies == {q \in table : q.start = r.start /\ Truthy(q.liters)}
           liters == IF copies = {} THEN None ELSE (CHOOSE q \in copies : TRUE).liters
<1>2. liters \in Liters \cup {None}
  <2>1. CASE copies = {}
    BY <2>1
  <2>2. CASE copies # {}
    <3>1. (CHOOSE q \in copies : TRUE) \in GoodRows
      BY <2>2
    <3> QED
      BY <2>2, <3>1 DEF GoodRows, Row
  <2> QED
    BY <2>1, <2>2
<1> HIDE DEF liters
<1>3. Filled(r, liters) \in GoodRows
  BY <1>2, FilledGood
<1> QED
  BY <1>3 DEF liters

LEMMA LateReadingGood ==
    ASSUME NEW table \in SUBSET GoodRows, NEW value \in Nat
    PROVE  LateReading(table, value) \in SUBSET GoodRows
BY DEF LateReading, GoodRows, Row, Liters

-----------------------------------------------------------------------------
(* The steps that write rows                                               *)

LEMMA RecordEndGood ==
    ASSUME TypeOK, rows \subseteq GoodRows,
           NEW start \in Time \cup {None}, NEW end \in Time \cup {None},
           PairsUp(start, end), RecordEnd(start, end)
    PROVE  rows' \subseteq GoodRows /\ acc' \in Accumulator
<1> DEFINE taken == RunLiters(perCycle, acc)
<1>1. /\ start \in Time /\ end \in Time /\ start < end /\ end - start <= MaxRun
  BY DEF PairsUp
<1>2. acc \in Accumulator /\ acc.delivered \in Nat /\ seen.volume \in Nat \cup {None}
  BY DEF TypeOK, Accumulator, Shown
<1>3. Emptied(acc) \in Accumulator
  BY <1>2 DEF Emptied, Accumulator
<1>4. \A liters \in Nat \cup {None} : Sane(liters) \in Nat \cup {None}
  BY DEF Sane
<1>5. taken[1] \in Liters \cup {None} /\ taken[2] \in Accumulator
  BY <1>2, <1>3, <1>4 DEF RunLiters, Liters
<1>6. rows' = AddRun(rows, start, end, taken[1]) /\ acc' = taken[2]
  BY DEF RecordEnd
<1> HIDE DEF taken
<1> QED
  BY <1>1, <1>5, <1>6, AddRunGood

LEMMA RecordCounterGood ==
    ASSUME rows \subseteq GoodRows, NEW record \in GoodRows, RecordCounter(record)
    PROVE  rows' \subseteq GoodRows
<1>1. /\ record.start \in Time /\ record.end \in Time /\ record.liters \in Liters \cup {None}
      /\ record.start < record.end /\ record.end - record.start <= MaxRun
  BY DEF GoodRows, Row
<1>2. AddRun(rows, record.start, record.end, record.liters) \subseteq GoodRows
  BY <1>1, AddRunGood
<1> QED
  BY <1>2 DEF RecordCounter

LEMMA OnEndGood ==
    ASSUME Sound, NEW end \in Time, OnEnd(end)
    PROVE  rows' \subseteq GoodRows /\ acc' \in Accumulator /\ pend' \subseteq Time
<1>1. acc \in Accumulator /\ pend \subseteq Time /\ rows \subseteq GoodRows
      /\ seen.start \in Time \cup {None} /\ truth \subseteq Row
  BY DEF Sound, TypeOK, AllGood, Shown
<1>2. Emptied(acc) \in Accumulator
  BY <1>1 DEF Emptied, Accumulator
<1>3. CASE end > now
  BY <1>1, <1>2, <1>3 DEF OnEnd, PreReport
<1>4. CASE ~(end > now)
  <2>1. pend' = pend
    BY <1>4 DEF OnEnd
  <2>2. \/ UNCHANGED <<rows, acc>>
        \/ \E start \in {seen.start} \cup UnpairedStarts(end) :
              PairsUp(start, end) /\ RecordEnd(start, end)
    BY <1>4 DEF OnEnd
  <2>3. UnpairedStarts(end) \subseteq Time \cup {None}
    BY <1>1 DEF UnpairedStarts, Row, Accumulator
  <2> QED
    BY <1>1, <2>1, <2>2, <2>3, RecordEndGood DEF Sound
<1> QED
  BY <1>3, <1>4

LEMMA ClimbedGood ==
    ASSUME NEW a \in Accumulator, NEW delta \in Nat, NEW t \in Time
    PROVE  [a EXCEPT !.delivered = @ + delta, !.rise = t,
                     !.first = IF @ = None THEN t ELSE @] \in Accumulator
<1>1. a.delivered + delta \in Nat
  BY DEF Accumulator
<1>2. (IF a.first = None THEN t ELSE a.first) \in Time \cup {None}
  BY DEF Accumulator
<1> QED
  BY <1>1, <1>2 DEF Accumulator

LEMMA OnVolumeGood ==
    ASSUME Sound, NEW value \in Nat, OnVolume(value)
    PROVE  /\ rows' \subseteq GoodRows /\ acc' \in Accumulator
           /\ perCycle' \in BOOLEAN /\ idle' \in Nat \cup {None}
<1> DEFINE fresh == [acc EXCEPT !.last = value, !.at = now]
           restarted == acc.last # None /\ Restarted(acc.last, value)
           base == IF restarted THEN [fresh EXCEPT !.delivered = 0] ELSE fresh
           delta == Climb(acc.last, value)
<1>1. /\ acc \in Accumulator /\ rows \subseteq GoodRows /\ now \in Time /\ now \in Nat
      /\ perCycle \in BOOLEAN /\ idle \in Nat \cup {None}
  BY ThresholdsAssumption DEF Sound, TypeOK, AllGood, Time
<1>2. fresh \in Accumulator
  BY <1>1 DEF Accumulator
<1>3. base \in Accumulator
  BY <1>2 DEF Accumulator
<1>4. CASE acc.last = None
  BY <1>1, <1>2, <1>4 DEF OnVolume
<1>5. CASE acc.last # None
  <2>1. acc.last \in Nat /\ delta \in Nat
    BY <1>1, <1>5 DEF Accumulator, Climb
  <2>2. /\ perCycle' = (perCycle \/ restarted)
        /\ rows' = IF perCycle \/ restarted THEN LateReading(rows, value) ELSE rows
        /\ \/ acc' = [base EXCEPT !.last = acc.last, !.at = acc.at] /\ idle' = idle
           \/ acc' = base /\ idle' = idle
           \/ /\ acc' = [base EXCEPT !.delivered = @ + delta, !.rise = now,
                                     !.first = IF @ = None THEN now ELSE @]
              /\ idle' = IF OldValve THEN idle ELSE now + IdleTime
    BY <1>5 DEF OnVolume
  <2>3. [base EXCEPT !.last = acc.last, !.at = acc.at] \in Accumulator
    BY <1>1, <1>3 DEF Accumulator
  <2>4. [base EXCEPT !.delivered = @ + delta, !.rise = now,
                     !.first = IF @ = None THEN now ELSE @] \in Accumulator
    <3> HIDE DEF base, delta
    <3> QED
      BY <1>1, <1>3, <2>1, ClimbedGood
  <2>5. now + IdleTime \in Nat
    BY <1>1, ThresholdsAssumption
  <2>6. perCycle' \in BOOLEAN
    BY <2>2, <1>1 DEF Restarted
  <2>7. rows' \subseteq GoodRows
    BY <2>2, <1>1, LateReadingGood
  <2> HIDE DEF base, delta, restarted
  <2> QED
    BY <1>1, <1>3, <2>2, <2>3, <2>4, <2>5, <2>6, <2>7
<1> QED
  BY <1>4, <1>5

-----------------------------------------------------------------------------
(* The steps                                                               *)

LEMMA TimeFacts ==
    /\ Time \subseteq Nat /\ MaxTime \in Nat /\ MaxRun \in Nat /\ IdleTime \in Nat
    /\ SaveDelay \in Nat /\ Gap \in Nat
    /\ 0 .. MaxTime \subseteq Time
    /\ None \notin Nat
BY ThresholdsAssumption, NoneAssumption DEF Time

LEMMA InitSound == Init => Sound
<1> SUFFICES ASSUME Init PROVE Sound
  OBVIOUS
<1>1. PICK volume \in Nat : dps = [start |-> None, end |-> None, volume |-> volume,
                                   counter |-> None]
  <2>1. Base \in Nat
    BY TimeFacts DEF Base
  <2>2. (IF valve.odometer THEN Base ELSE 0) \in Nat
    BY <2>1
  <2> QED
    BY <2>2 DEF Init, Unknown
<1>2. 0 \in Time /\ 0 \in 0 .. MaxTime /\ MaxTrouble \in 0 .. MaxTrouble
  BY ThresholdsAssumption DEF Time
<1>3. dps \in Reports /\ dps \in Shown /\ dps.volume \in Nat /\ dps.counter = None
  BY <1>1 DEF Reports, Shown
<1>4. [NewAccumulator EXCEPT !.last = dps.volume] \in Accumulator
  BY <1>2, <1>3 DEF NewAccumulator, Accumulator
<1>5. [rows |-> {}, perCycle |-> FALSE] \in [rows: SUBSET Row, perCycle: BOOLEAN]
  OBVIOUS
<1>6. /\ now = 0 /\ valve \in Valve /\ run = None /\ rest = 0 /\ seen = dps
      /\ up = TRUE /\ armed = TRUE /\ rows = {} /\ perCycle = FALSE
      /\ acc = [NewAccumulator EXCEPT !.last = dps.volume]
      /\ pend = {} /\ idle = None /\ saveDue = None
      /\ disk = [rows |-> {}, perCycle |-> FALSE]
      /\ trouble = MaxTrouble /\ truth = {} /\ disturbed = {}
  BY DEF Init
<1>7. TypeOK
  <2> HIDE DEF Init
  <2> QED
    BY <1>2, <1>3, <1>4, <1>5, <1>6 DEF TypeOK
<1>8. AllGood /\ Heard /\ OnSchedule
  BY <1>3, <1>6 DEF AllGood, Heard, OnSchedule
<1> QED
  BY <1>7, <1>8 DEF Sound

LEMMA DeliverSound ==
    ASSUME Sound, NEW sensor \in Sensors, Deliver(sensor)
    PROVE  Sound'
<1>1. /\ TypeOK /\ AllGood /\ Heard /\ OnSchedule
      /\ UNCHANGED <<now, valve, run, rest, dps, up, armed, disk, trouble, truth, disturbed>>
      /\ seen' = [seen EXCEPT ![sensor] = dps[sensor]] /\ seen[sensor] # dps[sensor]
  BY DEF Sound, Deliver, outside, history
<1>2. dps \in Reports /\ seen \in Shown
  BY <1>1 DEF TypeOK
<1>3. seen' \in Shown /\ seen'.counter \in GoodRows \cup {None}
  BY <1>1, <1>2 DEF Reports, Shown, Sensors, AllGood
<1>4. Heard'
  BY <1>1, <1>2 DEF Heard, Shown, Sensors
<1>5. dps[sensor] # None
  BY <1>1 DEF Heard
<1>6. /\ rows' \subseteq GoodRows /\ acc' \in Accumulator /\ perCycle' \in BOOLEAN
      /\ pend' \subseteq Time /\ idle' \in Nat \cup {None}
  <2>1. /\ rows \subseteq GoodRows /\ acc \in Accumulator /\ perCycle \in BOOLEAN
        /\ pend \subseteq Time /\ idle \in Nat \cup {None}
    BY <1>1 DEF TypeOK, AllGood
  <2>2. CASE UNCHANGED <<rows, perCycle, acc, pend, idle>>
    BY <2>1, <2>2
  <2>3. CASE sensor = "end" /\ OnEnd(dps.end) /\ UNCHANGED <<perCycle, idle>>
    <3>1. dps.end \in Time
      BY <1>2, <1>5, <2>3 DEF Reports
    <3> QED
      BY <2>1, <2>3, <3>1, OnEndGood
  <2>4. CASE sensor = "volume" /\ OnVolume(dps.volume) /\ UNCHANGED pend
    <3>1. dps.volume \in Nat
      BY <1>2 DEF Reports
    <3> QED
      BY <2>1, <2>4, <3>1, OnVolumeGood
  <2>5. CASE sensor = "counter" /\ RecordCounter(dps.counter)
                /\ UNCHANGED <<perCycle, acc, pend, idle>>
    <3>1. dps.counter \in GoodRows
      BY <1>1, <1>5, <2>5 DEF AllGood
    <3> QED
      BY <2>1, <2>5, <3>1, RecordCounterGood
  <2> QED
    BY <2>2, <2>3, <2>4, <2>5 DEF Deliver
<1>7. saveDue' \in Nat \cup {None}
  BY <1>1, TimeFacts DEF Deliver, SchedulesSave, TypeOK
<1> QED
  BY <1>1, <1>3, <1>4, <1>6, <1>7 DEF Sound, TypeOK, AllGood, OnSchedule, GoodRows

LEMMA TimersSound ==
    ASSUME Sound, CloseIdle \/ \E end \in pend : RecordScheduled(end)
    PROVE  Sound'
<1>1. /\ TypeOK /\ AllGood /\ Heard /\ OnSchedule
      /\ UNCHANGED <<now, valve, run, rest, dps, seen, up, armed, perCycle, disk, trouble,
                     truth, disturbed>>
  BY DEF Sound, CloseIdle, RecordScheduled, outside, history
<1>2. /\ rows \subseteq GoodRows /\ acc \in Accumulator /\ pend \subseteq Time
      /\ idle \in Nat \cup {None} /\ seen.start \in Time \cup {None}
  BY <1>1 DEF TypeOK, AllGood, Shown
<1>3. rows' \subseteq GoodRows /\ acc' \in Accumulator /\ pend' \subseteq Time
      /\ idle' \in Nat \cup {None}
  <2>1. CASE CloseIdle
    <3>1. acc' \in Accumulator /\ acc.first \in Time \cup {None}
          /\ acc.rise \in Time \cup {None} /\ Sane(acc.last) \in Liters \cup {None}
      BY <1>2, <2>1 DEF CloseIdle, Emptied, Accumulator, Sane, Liters
    <3>2. ASSUME PairsUp(acc.first, acc.rise)
          PROVE  AddRun(rows, acc.first, acc.rise, Sane(acc.last)) \subseteq GoodRows
      BY <1>2, <3>1, <3>2, AddRunGood DEF PairsUp
    <3> QED
      BY <1>2, <2>1, <3>1, <3>2 DEF CloseIdle
  <2>2. ASSUME NEW end \in pend, RecordScheduled(end)
        PROVE  rows' \subseteq GoodRows /\ acc' \in Accumulator /\ pend' \subseteq Time
               /\ idle' \in Nat \cup {None}
    <3>1. \/ PairsUp(seen.start, end) /\ RecordEnd(seen.start, end)
          \/ UNCHANGED <<rows, acc>>
      BY <2>2 DEF RecordScheduled
    <3>2. rows' \subseteq GoodRows /\ acc' \in Accumulator
      BY <1>1, <1>2, <3>1, RecordEndGood
    <3> QED
      BY <1>2, <2>2, <3>2 DEF RecordScheduled
  <2> QED
    BY <2>1, <2>2
<1>4. saveDue' \in Nat \cup {None}
  BY <1>1, TimeFacts DEF CloseIdle, RecordScheduled, SchedulesSave, TypeOK
<1> QED
  BY <1>1, <1>3, <1>4 DEF Sound, TypeOK, AllGood, Heard, OnSchedule, GoodRows

LEMMA LatestTyped == ASSUME TypeOK PROVE Latest \subseteq Time
BY DEF TypeOK, Latest, Row, Running

LEMMA MistakenTyped == ASSUME TypeOK PROVE Mistaken \subseteq Time
BY DEF TypeOK, Mistaken, Shown

LEMMA ArmSound == ASSUME Sound, Arm PROVE Sound'
<1>1. /\ TypeOK /\ AllGood /\ Heard /\ OnSchedule
      /\ UNCHANGED <<now, valve, run, rest, dps, seen, up, perCycle, pend, idle, disk, trouble,
                     truth>>
      /\ armed' = TRUE
  BY DEF Sound, Arm, outside
<1>2. rows' \subseteq GoodRows /\ acc' \in Accumulator
  <2>1. rows \subseteq GoodRows /\ acc \in Accumulator /\ seen.start \in Time \cup {None}
        /\ seen.end \in Time \cup {None}
    BY <1>1 DEF TypeOK, AllGood, Shown
  <2>2. CASE PairsUp(seen.start, seen.end) /\ RecordEnd(seen.start, seen.end)
    BY <1>1, <2>1, <2>2, RecordEndGood
  <2>3. CASE seen.counter # None /\ RecordCounter(seen.counter) /\ acc' = acc
    <3>1. seen.counter \in GoodRows
      BY <1>1, <2>3 DEF AllGood
    <3> QED
      BY <2>1, <2>3, <3>1, RecordCounterGood
  <2>4. CASE UNCHANGED <<rows, acc>>
    BY <2>1, <2>4
  <2> QED
    BY <2>2, <2>3, <2>4 DEF Arm
<1>3. saveDue' \in Nat \cup {None}
  BY <1>1, TimeFacts DEF Arm, SchedulesSave, TypeOK
<1>4. disturbed' \subseteq Time
  BY <1>1, LatestTyped DEF Arm, Disturb, If, TypeOK
<1> QED
  BY <1>1, <1>2, <1>3, <1>4 DEF Sound, TypeOK, AllGood, Heard, OnSchedule, GoodRows

LEMMA RestartsSound ==
    ASSUME Sound, Rearm \/ Save \/ Boot \/ \E graceful \in BOOLEAN : Stop(graceful)
    PROVE  Sound'
<1>1. TypeOK /\ AllGood /\ Heard /\ OnSchedule
  BY DEF Sound
<1>2. CASE Rearm
  <2>1. disturbed' \subseteq Time
    BY <1>1, <1>2, LatestTyped DEF Rearm, Disturb, If, TypeOK
  <2> QED
    BY <1>1, <1>2, <2>1
    DEF Rearm, outside, Sound, TypeOK, AllGood, Heard, OnSchedule
<1>3. Stored \in [rows: SUBSET Row, perCycle: BOOLEAN] /\ Stored.rows \subseteq GoodRows
  BY <1>1 DEF Stored, TypeOK, AllGood
<1>4. CASE Save
  BY <1>1, <1>3, <1>4
  DEF Save, outside, history, Sound, TypeOK, AllGood, Heard, OnSchedule
<1>5. CASE Boot
  <2>1. rows' \subseteq GoodRows /\ perCycle' \in BOOLEAN
    BY <1>1, <1>5, DedupedGood DEF Boot, TypeOK, AllGood
  <2>2. saveDue' \in Nat \cup {None}
    BY <1>1, <1>5, TimeFacts DEF Boot, TypeOK
  <2> QED
    BY <1>1, <1>5, <2>1, <2>2
    DEF Boot, outside, history, Sound, TypeOK, AllGood, Heard, OnSchedule, GoodRows
<1>6. ASSUME NEW graceful \in BOOLEAN, Stop(graceful)
      PROVE  Sound'
  <2>1. disk' \in [rows: SUBSET Row, perCycle: BOOLEAN] /\ disk'.rows \subseteq GoodRows
    BY <1>1, <1>3, <1>6 DEF Stop, TypeOK, AllGood
  <2>2. disturbed' \subseteq Time
    BY <1>1, <1>6, LatestTyped DEF Stop, Disturb, TypeOK, Row
  <2>3. trouble' \in 0 .. MaxTrouble
    BY <1>1, <1>6, ThresholdsAssumption DEF Stop, TypeOK
  <2>4. NewAccumulator \in Accumulator
    BY ThresholdsAssumption DEF NewAccumulator, Accumulator, Time
  <2>5. Unknown \in Shown /\ Unknown.counter = None
        /\ \A sensor \in Sensors : Unknown[sensor] = None
    BY DEF Unknown, Shown, Sensors
  <2>6. /\ UNCHANGED <<now, valve, run, rest, dps, truth>>
        /\ up' = FALSE /\ armed' = FALSE /\ rows' = {} /\ perCycle' = FALSE
        /\ acc' = NewAccumulator /\ pend' = {} /\ idle' = None /\ saveDue' = None
        /\ seen' = Unknown
    BY <1>6 DEF Stop, outside
  <2> QED
    BY <1>1, <2>1, <2>2, <2>3, <2>4, <2>5, <2>6
    DEF Sound, TypeOK, AllGood, Heard, OnSchedule
<1> QED
  BY <1>2, <1>4, <1>5, <1>6

LEMMA StartRunSound ==
    ASSUME Sound, NEW length \in Lengths, StartRun(length)
    PROVE  Sound'
<1>1. /\ TypeOK /\ AllGood /\ Heard /\ OnSchedule
      /\ UNCHANGED <<now, valve, rest, seen, up, armed, rows, perCycle, acc, pend, idle, saveDue,
                     disk, trouble, truth>>
  BY DEF Sound, StartRun, memory
<1>2. now \in Time /\ now \in Nat /\ length \in Nat /\ length <= MaxRun
      /\ now + length \in Time
  BY <1>1, ThresholdsAssumption DEF StartRun, TypeOK, Time
<1>3. run' = [start |-> now, until |-> now + length, liters |-> 0]
  BY DEF StartRun
<1>4. run' \in Running /\ OnSchedule'
  BY <1>1, <1>2, <1>3 DEF OnSchedule, Running
<1>5. dps' \in Reports /\ dps'.counter = dps.counter
      /\ \A sensor \in Sensors : dps'[sensor] = None => dps[sensor] = None
  <2>1. dps \in Reports
    BY <1>1 DEF TypeOK
  <2>2. now # None /\ now + length # None
    BY <1>2, TimeFacts
  <2>3. PICK start \in Time \cup {None}, end \in Time \cup {None}, volume \in Nat :
            /\ dps' = [dps EXCEPT !.volume = volume, !.start = start, !.end = end]
            /\ start = None => dps.start = None
            /\ end = None => dps.end = None
    <3>1. dps.start \in Time \cup {None} /\ dps.end \in Time \cup {None} /\ dps.volume \in Nat
      BY <2>1 DEF Reports
    <3>2. (IF valve.odometer THEN dps.volume ELSE 0) \in Nat
      BY <3>1
    <3> QED
      BY <1>2, <2>2, <3>1, <3>2 DEF StartRun
  <2>4. dps' = [start |-> start, end |-> end, volume |-> volume, counter |-> dps.counter]
    BY <2>1, <2>3 DEF Reports
  <2>5. dps' \in Reports
    BY <2>1, <2>4 DEF Reports
  <2>6. volume # None
    BY TimeFacts
  <2> QED
    BY <2>3, <2>4, <2>5, <2>6 DEF Sensors
<1>6. disturbed' \subseteq Time
  BY <1>1, <1>2, LatestTyped DEF StartRun, Disturb, If, TypeOK
<1> QED
  BY <1>1, <1>4, <1>5, <1>6 DEF Sound, TypeOK, AllGood, Heard

LEMMA CloseRunSound == ASSUME Sound, CloseRun PROVE Sound'
<1>1. /\ TypeOK /\ AllGood /\ Heard /\ OnSchedule
      /\ UNCHANGED <<now, valve, seen, up, armed, rows, perCycle, acc, pend, idle, saveDue,
                     disk, trouble, disturbed>>
      /\ run # None /\ run.start < now /\ run' = None /\ rest' = run.until + Gap
  BY DEF Sound, CloseRun, memory
<1>2. run \in [start: Time, until: Time, liters: Nat] /\ now \in Time /\ now # None
  BY <1>1, TimeFacts DEF TypeOK, Running
<1>3. [start |-> run.start, end |-> now, liters |-> run.liters] \in GoodRows
  <2>1. run.start \in Time /\ now \in Time /\ run.liters \in Nat
    BY <1>2
  <2>2. run.start < now /\ now - run.start <= MaxRun
    <3>1. run.start \in Nat /\ now \in Nat /\ run.until \in Nat /\ MaxRun \in Nat
      BY <1>2, TimeFacts
    <3> QED
      BY <1>1, <3>1 DEF OnSchedule
  <2> QED
    BY <2>1, <2>2 DEF GoodRows, Row, Liters
<1>4. truth' \subseteq GoodRows
  <2>1. truth' = truth \cup {[start |-> run.start, end |-> now, liters |-> run.liters]}
    BY DEF CloseRun
  <2> QED
    BY <1>1, <1>3, <2>1 DEF AllGood
<1>5. rest' \in Nat
  <2>1. run.until \in Nat /\ Gap \in Nat
    BY <1>2, TimeFacts
  <2>2. run.until + Gap \in Nat
    BY <2>1
  <2> QED
    BY <1>1, <2>2
<1>6. dps' \in Reports /\ dps'.counter = dps.counter
      /\ \A sensor \in Sensors : dps'[sensor] = None => dps[sensor] = None
  BY <1>1, <1>2 DEF CloseRun, TypeOK, Reports, Sensors
<1> QED
  BY <1>1, <1>4, <1>5, <1>6 DEF Sound, TypeOK, AllGood, Heard, OnSchedule, GoodRows

LEMMA SendRecordSound == ASSUME Sound, SendRecord PROVE Sound'
<1>1. /\ TypeOK /\ AllGood /\ Heard /\ OnSchedule
      /\ UNCHANGED <<now, valve, run, rest, seen, up, armed, rows, perCycle, acc, pend, idle,
                     saveDue, disk, trouble, truth, disturbed>>
  BY DEF Sound, SendRecord, memory, history
<1>2. PICK t \in truth : dps' = [dps EXCEPT !.counter = t]
  BY DEF SendRecord
<1>3. t \in GoodRows /\ t \in Row /\ t # None
  BY <1>1, NoneAssumption DEF AllGood, GoodRows
<1>4. dps' \in Reports /\ dps'.counter = t
  BY <1>1, <1>2, <1>3 DEF TypeOK, Reports
<1>5. AllGood'
  BY <1>1, <1>3, <1>4 DEF AllGood
<1>6. Heard'
  BY <1>1, <1>2, <1>3 DEF Heard, Sensors, TypeOK, Reports
<1> QED
  BY <1>1, <1>4, <1>5, <1>6 DEF Sound, TypeOK, OnSchedule

LEMMA TickSound == ASSUME Sound, Tick PROVE Sound'
<1>1. /\ TypeOK /\ AllGood /\ Heard /\ OnSchedule
      /\ UNCHANGED <<valve, rest, seen, up, armed, rows, perCycle, acc, pend, idle, saveDue,
                     disk, truth>>
      /\ now < MaxTime /\ (run # None => now < run.until) /\ now' = now + 1
  BY DEF Sound, Tick, memory
<1>2. now' \in 0 .. MaxTime
  BY <1>1, TimeFacts DEF TypeOK
<1>3. trouble' \in 0 .. MaxTrouble
  BY <1>1, ThresholdsAssumption DEF Tick, TypeOK
<1>4. disturbed' \subseteq Time
  BY <1>1, LatestTyped, MistakenTyped DEF Tick, Disturb, If, TypeOK
<1>5. PICK liters \in Nat :
          /\ dps' = [dps EXCEPT !.volume = @ + liters]
          /\ run' = IF run = None THEN None ELSE [run EXCEPT !.liters = @ + liters]
  BY DEF Tick, Flow
<1>6. dps \in Reports /\ dps.volume + liters \in Nat
  BY <1>1 DEF TypeOK, Reports
<1>7. dps' \in Reports /\ dps'.counter = dps.counter
  BY <1>5, <1>6 DEF Reports
<1>8. Heard'
  <2>1. \A sensor \in Sensors : dps'[sensor] = None => dps[sensor] = None
    BY <1>5, <1>6, TimeFacts DEF Reports, Sensors
  <2> QED
    BY <1>1, <2>1 DEF Heard
<1>9. /\ run' \in Running \cup {None}
      /\ OnSchedule'
  <2>1. CASE run = None
    BY <1>5, <2>1 DEF OnSchedule
  <2>2. CASE run # None
    <3>1. run \in Running
      BY <1>1, <2>2 DEF TypeOK
    <3>2. run.liters + liters \in Nat
      BY <3>1 DEF Running
    <3>3. run' = [start |-> run.start, until |-> run.until, liters |-> run.liters + liters]
      BY <1>5, <2>2, <3>1 DEF Running
    <3>4. run.start <= now + 1 /\ now + 1 <= run.until /\ run.until - run.start <= MaxRun
      <4>1. now \in Nat /\ run.start \in Nat /\ run.until \in Nat
        BY <1>1, <3>1, TimeFacts DEF TypeOK, Running
      <4> QED
        BY <1>1, <2>2, <4>1 DEF OnSchedule
    <3> QED
      BY <1>1, <3>1, <3>2, <3>3, <3>4 DEF OnSchedule, Running
  <2> QED
    BY <2>1, <2>2
<1> QED
  BY <1>1, <1>2, <1>3, <1>4, <1>7, <1>8, <1>9 DEF Sound, TypeOK, AllGood

-----------------------------------------------------------------------------
(* The theorems                                                            *)

LEMMA NextSound == Sound /\ [Next]_vars => Sound'
<1> SUFFICES ASSUME Sound, [Next]_vars PROVE Sound'
  OBVIOUS
<1>1. CASE \E sensor \in Sensors : Deliver(sensor)
  BY <1>1, DeliverSound
<1>2. CASE CloseIdle \/ \E end \in pend : RecordScheduled(end)
  BY <1>2, TimersSound
<1>3. CASE Arm
  BY <1>3, ArmSound
<1>4. CASE Rearm \/ Save \/ Boot \/ \E graceful \in BOOLEAN : Stop(graceful)
  BY <1>4, RestartsSound
<1>5. CASE \E length \in Lengths : StartRun(length)
  BY <1>5, StartRunSound
<1>6. CASE CloseRun
  BY <1>6, CloseRunSound
<1>7. CASE SendRecord
  BY <1>7, SendRecordSound
<1>8. CASE Tick
  BY <1>8, TickSound
<1>9. CASE UNCHANGED vars
  BY <1>9 DEF vars, outside, memory, history, Sound, TypeOK, AllGood, Heard, OnSchedule
<1> QED
  BY <1>1, <1>2, <1>3, <1>4, <1>5, <1>6, <1>7, <1>8, <1>9 DEF Next

LEMMA AlwaysSound == Spec => []Sound
BY InitSound, NextSound, PTL DEF Spec

(* Every report, timer, re-arm and restart keeps the types of the store,   *)
(* of the accumulator and of what the sensors show.                        *)
THEOREM TypeCorrect == Spec => []TypeOK
<1>1. Sound => TypeOK
  BY DEF Sound
<1> QED
  BY <1>1, AlwaysSound, PTL

(* No path of runs_store.py writes an empty row or one longer than         *)
(* MAX_RUN_SECONDS: neither a close heard before its start, nor a          *)
(* scheduled close, nor the idle counter, nor a correction, nor a reload.  *)
THEOREM RowsAreBounded == Spec => []RowsBounded
<1>1. Sound => RowsBounded
  BY DEF Sound, AllGood, GoodRows, RowsBounded
<1> QED
  BY <1>1, AlwaysSound, PTL


-----------------------------------------------------------------------------
(* An old valve's rows have their starts and their closes for themselves   *)

LEMMA FilledBounds ==
    ASSUME NEW row \in Row, NEW liters \in Liters \cup {None}
    PROVE  /\ Filled(row, liters) \in Row
           /\ Filled(row, liters).start = row.start /\ Filled(row, liters).end = row.end
BY DEF Filled, Row

(* A row whose start and close no other row has keeps the table's property *)
(* in the place of an old one.                                             *)
LEMMA ReplacedBounds ==
    ASSUME NEW table \in SUBSET Row, OneRowPerBound(table), NEW old \in table, NEW new \in Row,
           \A r \in table \ {old} : r.start # new.start /\ r.end # new.end
    PROVE  OneRowPerBound(Replaced(table, old, new))
BY DEF Replaced, OneRowPerBound

LEMMA AddRunBounds ==
    ASSUME NEW table \in SUBSET Row, OneRowPerBound(table), NEW start \in Time,
           NEW end \in Time, NEW liters \in Liters \cup {None}
    PROVE  OneRowPerBound(AddRun(table, start, end, liters))
<1>1. CASE end <= start
  BY <1>1 DEF AddRun
<1>2. CASE ~(end <= start) /\ \E r \in table : r.end = end
  <2> DEFINE row == CHOOSE r \in table : r.end = end
  <2>1. row \in table
    BY <1>2
  <2>2. AddRun(table, start, end, liters) = Replaced(table, row, Filled(row, liters))
    BY <1>2 DEF AddRun
  <2> HIDE DEF row
  <2>3. /\ Filled(row, liters) \in Row
        /\ Filled(row, liters).start = row.start /\ Filled(row, liters).end = row.end
    BY <2>1, FilledBounds
  <2>4. \A r \in table \ {row} : r.start # row.start /\ r.end # row.end
    BY <2>1 DEF OneRowPerBound
  <2> QED
    BY <2>1, <2>2, <2>3, <2>4, ReplacedBounds
<1>3. CASE ~(end <= start) /\ ~(\E r \in table : r.end = end) /\ \E r \in table : r.start = start
  <2> DEFINE row == CHOOSE r \in table : r.start = start
             earliest == IF end < row.end THEN [row EXCEPT !.end = end] ELSE row
  <2>1. row \in table /\ row.start = start
    BY <1>3
  <2>2. AddRun(table, start, end, liters) = Replaced(table, row, Filled(earliest, liters))
    BY <1>3 DEF AddRun
  <2>3. earliest \in Row /\ earliest.start = start /\ earliest.end \in {row.end, end}
    BY <2>1 DEF Row
  <2> HIDE DEF row, earliest
  <2>4. /\ Filled(earliest, liters) \in Row /\ Filled(earliest, liters).start = start
        /\ Filled(earliest, liters).end \in {row.end, end}
    BY <2>3, FilledBounds
  <2>5. \A r \in table \ {row} : r.start # start /\ r.end # row.end /\ r.end # end
    BY <1>3, <2>1 DEF OneRowPerBound
  <2>6. \A r \in table \ {row} : r.start # Filled(earliest, liters).start
                                  /\ r.end # Filled(earliest, liters).end
    BY <2>4, <2>5
  <2> QED
    BY <2>1, <2>2, <2>4, <2>6, ReplacedBounds
<1>4. CASE ~(end <= start) /\ ~(\E r \in table : r.end = end) /\ ~(\E r \in table : r.start = start)
  BY <1>4 DEF AddRun, OneRowPerBound
<1> QED
  BY <1>1, <1>2, <1>3, <1>4


LEMMA LateReadingBounds ==
    ASSUME NEW table \in SUBSET Row, OneRowPerBound(table), NEW value \in Nat
    PROVE  OneRowPerBound(LateReading(table, value))
<1> DEFINE Read(r) == IF /\ \A q \in table : q.end <= r.end
                         /\ r.liters # None /\ r.liters < value /\ now - r.end <= Settle
                         /\ Sane(value) # None
                      THEN [r EXCEPT !.liters = value] ELSE r
<1>1. LateReading(table, value) = {Read(r) : r \in table}
  BY DEF LateReading
<1>2. \A r \in table : Read(r).start = r.start /\ Read(r).end = r.end
  BY DEF Row
<1> HIDE DEF Read
<1> QED
  BY <1>1, <1>2 DEF OneRowPerBound

LEMMA DedupedBounds ==
    ASSUME NEW table \in SUBSET Row, OneRowPerBound(table)
    PROVE  OneRowPerBound(DedupedByStart(table))
<1> DEFINE copies(r) == {q \in table : q.start = r.start /\ Truthy(q.liters)}
           liters(r) == IF copies(r) = {} THEN None ELSE (CHOOSE q \in copies(r) : TRUE).liters
           kept == {q \in table : \A p \in table : p.start = q.start => q.end <= p.end}
<1>1. DedupedByStart(table) = {Filled(r, liters(r)) : r \in kept}
  BY DEF DedupedByStart
<1>2. \A r \in table : liters(r) \in Liters \cup {None}
  <2> SUFFICES ASSUME NEW r \in table, copies(r) # {}
               PROVE  (CHOOSE q \in copies(r) : TRUE).liters \in Liters \cup {None}
    OBVIOUS
  <2>1. (CHOOSE q \in copies(r) : TRUE) \in table
    OBVIOUS
  <2> QED
    BY <2>1 DEF Row
<1> HIDE DEF liters
<1>3. \A r \in table : /\ Filled(r, liters(r)).start = r.start
                       /\ Filled(r, liters(r)).end = r.end
  BY <1>2, FilledBounds
<1>4. kept \subseteq table
  OBVIOUS
<1> HIDE DEF kept
<1> QED
  BY <1>1, <1>3, <1>4 DEF OneRowPerBound

(* The rows of an old valve, in the store and in the file; it sends no     *)
(* record that could correct one.                                          *)
Bounds ==
    OldValve => /\ OneRowPerBound(rows) /\ OneRowPerBound(disk.rows)
                /\ dps.counter = None

LEMMA RecordEndBounds ==
    ASSUME Sound, OneRowPerBound(rows), NEW start, NEW end, PairsUp(start, end),
           start \in Time \cup {None}, end \in Time \cup {None}, RecordEnd(start, end)
    PROVE  OneRowPerBound(rows')
<1> DEFINE taken == RunLiters(perCycle, acc)
<1>1. start \in Time /\ end \in Time /\ rows \subseteq Row
  BY DEF PairsUp, Sound, TypeOK
<1>2. taken[1] \in Liters \cup {None}
  BY DEF RunLiters, Sane, Liters, Sound, TypeOK, Accumulator, Shown
<1>3. rows' = AddRun(rows, start, end, taken[1])
  BY DEF RecordEnd
<1> HIDE DEF taken
<1> QED
  BY <1>1, <1>2, <1>3, AddRunBounds

LEMMA DeliverBounds ==
    ASSUME Sound, OldValve, OneRowPerBound(rows), dps.counter = None,
           NEW sensor \in Sensors, Deliver(sensor)
    PROVE  OneRowPerBound(rows')
<1>1. /\ rows \subseteq Row /\ truth \subseteq Row /\ acc \in Accumulator
      /\ seen.start \in Time \cup {None} /\ dps.end \in Time \cup {None}
      /\ dps.volume \in Nat /\ seen.counter = None
  BY DEF Sound, TypeOK, Shown, Reports, Heard, Sensors
<1>2. CASE UNCHANGED rows
  BY <1>2
<1>3. CASE OnEnd(dps.end)
  <2>1. \/ UNCHANGED rows
        \/ \E start \in {seen.start} \cup UnpairedStarts(dps.end) :
              PairsUp(start, dps.end) /\ RecordEnd(start, dps.end)
    BY <1>3 DEF OnEnd, PreReport
  <2>2. UnpairedStarts(dps.end) \subseteq Time \cup {None}
    BY <1>1 DEF UnpairedStarts, Row, Accumulator
  <2> QED
    BY <1>1, <2>1, <2>2, RecordEndBounds
<1>4. CASE OnVolume(dps.volume)
  <2>1. rows' \in {rows, LateReading(rows, dps.volume)}
    BY <1>4 DEF OnVolume
  <2> QED
    BY <1>1, <2>1, LateReadingBounds
<1>5. sensor # "counter"
  BY <1>1 DEF Deliver
<1> QED
  BY <1>2, <1>3, <1>4, <1>5 DEF Deliver

LEMMA TimersBounds ==
    ASSUME Sound, OneRowPerBound(rows), CloseIdle \/ \E end \in pend : RecordScheduled(end)
    PROVE  OneRowPerBound(rows')
<1>1. /\ rows \subseteq Row /\ acc \in Accumulator /\ pend \subseteq Time
      /\ seen.start \in Time \cup {None}
  BY DEF Sound, TypeOK, Shown
<1>2. CASE CloseIdle
  <2>1. /\ acc.first \in Time \cup {None} /\ acc.rise \in Time \cup {None}
        /\ Sane(acc.last) \in Liters \cup {None}
    BY <1>1 DEF Accumulator, Sane, Liters
  <2>2. \/ UNCHANGED rows
        \/ /\ PairsUp(acc.first, acc.rise)
           /\ rows' = AddRun(rows, acc.first, acc.rise, Sane(acc.last))
    BY <1>2 DEF CloseIdle
  <2>3. PairsUp(acc.first, acc.rise) => acc.first \in Time /\ acc.rise \in Time
    BY <2>1 DEF PairsUp
  <2> QED
    BY <1>1, <2>1, <2>2, <2>3, AddRunBounds
<1>3. ASSUME NEW end \in pend, RecordScheduled(end) PROVE OneRowPerBound(rows')
  <2>1. \/ UNCHANGED rows
        \/ PairsUp(seen.start, end) /\ RecordEnd(seen.start, end)
    BY <1>3 DEF RecordScheduled
  <2>2. end \in Time \cup {None}
    BY <1>1
  <2> QED
    BY <1>1, <2>1, <2>2, RecordEndBounds
<1> QED
  BY <1>2, <1>3

LEMMA ArmBounds ==
    ASSUME Sound, OldValve, OneRowPerBound(rows), dps.counter = None, Arm
    PROVE  OneRowPerBound(rows')
<1>1. /\ seen.start \in Time \cup {None} /\ seen.end \in Time \cup {None}
      /\ seen.counter = None
  BY DEF Sound, TypeOK, Shown, Heard, Sensors
<1>2. \/ UNCHANGED rows
      \/ PairsUp(seen.start, seen.end) /\ RecordEnd(seen.start, seen.end)
  BY <1>1 DEF Arm
<1> QED
  BY <1>1, <1>2, RecordEndBounds

LEMMA NextBounds == Sound /\ Bounds /\ [Next]_vars => Bounds'
<1> SUFFICES ASSUME Sound, Bounds, [Next]_vars, OldValve' PROVE Bounds'
  BY DEF Bounds
<1>1. valve' = valve
  BY DEF Next, vars, outside, Deliver, RecordScheduled, CloseIdle, Arm, Rearm, Save, Stop, Boot,
         StartRun, CloseRun, SendRecord, Tick
<1>2. /\ OldValve /\ OneRowPerBound(rows) /\ OneRowPerBound(disk.rows) /\ dps.counter = None
      /\ rows \subseteq Row /\ disk.rows \subseteq Row /\ dps \in Reports
      /\ disk \in [rows: SUBSET Row, perCycle: BOOLEAN]
  BY <1>1 DEF Bounds, OldValve, Sound, TypeOK
<1>3. ASSUME NEW sensor \in Sensors, Deliver(sensor) PROVE Bounds'
  BY <1>2, <1>3, DeliverBounds DEF Deliver, outside, Bounds
<1>4. CASE CloseIdle \/ \E end \in pend : RecordScheduled(end)
  BY <1>2, <1>4, TimersBounds DEF CloseIdle, RecordScheduled, outside, Bounds
<1>5. CASE Arm
  BY <1>2, <1>5, ArmBounds DEF Arm, outside, Bounds
<1>6. CASE Rearm \/ Save \/ Boot \/ \E graceful \in BOOLEAN : Stop(graceful)
  <2>1. OneRowPerBound({})
    BY DEF OneRowPerBound
  <2>2. CASE Boot
    BY <1>2, <2>2, DedupedBounds DEF Boot, outside, Bounds
  <2>3. CASE Rearm
    BY <1>2, <2>3 DEF Rearm, outside, Bounds
  <2>4. CASE Save
    BY <1>2, <2>4 DEF Save, Stored, outside, Bounds
  <2>5. ASSUME NEW graceful \in BOOLEAN, Stop(graceful) PROVE Bounds'
    <3>1. /\ rows' = {} /\ dps' = dps
          /\ disk' \in {disk, Stored}
      BY <2>5 DEF Stop, outside
    <3>2. OneRowPerBound(disk'.rows)
      BY <1>2, <3>1 DEF Stored
    <3> QED
      BY <1>2, <2>1, <3>1, <3>2 DEF Bounds
  <2> QED
    BY <1>6, <2>2, <2>3, <2>4, <2>5
<1>7. CASE \E length \in Lengths : StartRun(length)
  <2>1. dps'.counter = dps.counter
    BY <1>2, <1>7 DEF StartRun, Reports
  <2> QED
    BY <1>2, <1>7, <2>1 DEF StartRun, memory, Bounds
<1>8. CASE CloseRun
  <2>1. dps'.counter = dps.counter
    BY <1>2, <1>8 DEF CloseRun, Reports
  <2> QED
    BY <1>2, <1>8, <2>1 DEF CloseRun, memory, Bounds
<1>9. CASE SendRecord
  BY <1>2, <1>9 DEF SendRecord
<1>10. CASE Tick
  <2>1. dps'.counter = dps.counter
    BY <1>2, <1>10 DEF Tick, Reports
  <2> QED
    BY <1>2, <1>10, <2>1 DEF Tick, memory, Bounds
<1>11. CASE UNCHANGED vars
  BY <1>2, <1>11 DEF vars, outside, memory, Bounds
<1> QED
  BY <1>3, <1>4, <1>5, <1>6, <1>7, <1>8, <1>9, <1>10, <1>11 DEF Next

(* The part of RowsApart that holds for every rest between runs and any    *)
(* number of late reports and restarts: no path of runs_store.py (add_run  *)
(* from a close, a scheduled close or a replay, a late reading, a reload)  *)
(* gives an old valve two rows with one start or one close.                *)
THEOREM BoundsAreUnique == Spec => [](OldValve => OneRowPerBound(rows))
<1>1. Init => Bounds
  BY DEF Init, Bounds, OneRowPerBound, Unknown
<1>2. Bounds => (OldValve => OneRowPerBound(rows))
  BY DEF Bounds
<1> QED
  BY <1>1, <1>2, AlwaysSound, NextBounds, PTL DEF Spec

-----------------------------------------------------------------------------
(* No two rows meet a run of an old valve whose reports came in time.      *)
(*                                                                         *)
(* Two rows never have one start, so it is enough that every row that      *)
(* meets such a run starts with it.  A row takes its start from the sensor *)
(* (which may still show an earlier run: then whatever ran since has been  *)
(* met by a late report), from the record of the valve, or from the first  *)
(* rise of the counter, which is not older than the start that was taken   *)
(* for too old.                                                            *)

(* The runs of an old valve follow each other, and what it reports is of   *)
(* the last one.                                                           *)
InOrder ==
    /\ \A t \in truth : /\ t.start < t.end /\ t.end <= now
                        /\ dps.start # None /\ (t.start = dps.start \/ t.end <= dps.start)
    /\ \A t, q \in truth : t # q => ~Meets(t, q)
    /\ run # None => dps.start = run.start /\ \A t \in truth : t.end <= run.start
    /\ (run = None /\ dps.start # None) => \E t \in truth : t.start = dps.start
    /\ dps.end # None => /\ dps.start # None /\ dps.start < dps.end
                         /\ dps.end - dps.start <= MaxRun

(* An old valve's counter closes no run, and no sensor is shown while Home *)
(* Assistant is down.                                                      *)
Awake ==
    /\ idle = None
    /\ armed => up
    /\ ~up => seen.start = None

(* A start that is shown late: the runs since, and the one it is of, have  *)
(* been met by a late report, unless the next one has just begun.          *)
LateStart ==
    seen.start # None =>
        /\ dps.start # None /\ seen.start <= dps.start
        /\ \A t \in truth : t.start < seen.start => t.end <= seen.start
        /\ \A t \in truth : seen.start < t.start => t.start \in disturbed
        /\ (run # None /\ seen.start < run.start) => run.start \in disturbed \cup {now}
        /\ seen.start # dps.start => seen.start \in disturbed \/ dps.start = now

(* And while no start is shown, the same goes for the runs the counter may *)
(* have risen in.                                                          *)
NoStart ==
    /\ ~armed => acc.first = None
    /\ (armed /\ seen.start = None) =>
         /\ acc.first # None => \A t \in truth : acc.first < t.end => t.start \in disturbed
         /\ run # None => run.start \in disturbed \cup {now}

(* A row from start to end meets no undisturbed run but the one it starts  *)
(* with.                                                                   *)
Rightly(start, end) ==
    /\ end <= now
    /\ \A t \in truth : (start < t.end /\ t.start < end /\ t.start \notin disturbed) => start = t.start
    /\ (run # None /\ run.start < end /\ run.start \notin disturbed) => start = run.start

OwnStarts(table) == \A r \in table : Rightly(r.start, r.end)

Chronicle == InOrder /\ Awake /\ LateStart /\ NoStart

LEMMA SoundTypes ==
    ASSUME Sound
    PROVE  /\ now \in Nat /\ now \in Time
           /\ run # None => run.start \in Nat /\ run.until \in Nat
           /\ dps.start \in Nat \cup {None} /\ dps.end \in Nat \cup {None}
           /\ seen.start \in Nat \cup {None} /\ seen.end \in Nat \cup {None}
           /\ acc.first \in Nat \cup {None} /\ acc.rise \in Nat \cup {None}
           /\ \A t \in truth : t.start \in Nat /\ t.end \in Nat
           /\ \A r \in rows : r.start \in Nat /\ r.end \in Nat
           /\ \A r \in disk.rows : r.start \in Nat /\ r.end \in Nat
           /\ MaxRun \in Nat /\ None \notin Nat
<1>1. Time \subseteq Nat /\ 0 .. MaxTime \subseteq Time
  BY TimeFacts
<1>2. /\ now \in Time /\ dps \in Reports /\ seen \in Shown /\ acc \in Accumulator
      /\ truth \subseteq Row /\ rows \subseteq Row /\ disk.rows \subseteq Row
      /\ run \in Running \cup {None}
  BY <1>1 DEF Sound, TypeOK
<1> QED
  BY <1>1, <1>2, TimeFacts DEF Reports, Shown, Accumulator, Row, Running

(* The run the reports are of is the latest one.                           *)
LEMMA LatestReported ==
    ASSUME Sound, InOrder, dps.start # None
    PROVE  dps.start \in Latest
<1>1. CASE run # None
  BY <1>1 DEF InOrder, Latest
<1>2. CASE run = None
  <2>1. PICK t \in truth : t.start = dps.start
    BY <1>2 DEF InOrder
  <2>2. \A q \in truth : q.end <= t.end
    BY <2>1, SoundTypes DEF InOrder, Meets
  <2> QED
    BY <1>2, <2>1, <2>2 DEF Latest
<1> QED
  BY <1>1, <1>2

-----------------------------------------------------------------------------
(* The order of the runs                                                   *)

LEMMA StartRunOrder ==
    ASSUME Sound, InOrder, OldValve, NEW length \in Lengths, StartRun(length)
    PROVE  InOrder'
<1>1. /\ UNCHANGED <<now, truth>> /\ run = None
      /\ run' # None /\ run'.start = now
      /\ dps'.start = now /\ dps'.end = now + length
  <2>1. dps \in Reports
    BY DEF Sound, TypeOK
  <2>2. [start |-> now, until |-> now + length, liters |-> 0] # None
    <3>1. now \in Time /\ now + length \in Time
      BY ThresholdsAssumption DEF StartRun, Sound, TypeOK, Time
    <3> QED
      BY <3>1, NoneAssumption DEF Running
  <2> QED
    BY <2>1, <2>2 DEF StartRun, Reports
<1>2. length \in Nat /\ 1 <= length /\ length <= MaxRun
  BY ThresholdsAssumption
<1> QED
  BY <1>1, <1>2, SoundTypes DEF InOrder, Meets

LEMMA CloseRunOrder == ASSUME Sound, InOrder, OldValve, CloseRun PROVE InOrder'
<1> DEFINE t == [start |-> run.start, end |-> now, liters |-> run.liters]
<1>1. /\ UNCHANGED now /\ run' = None /\ run # None /\ run.start < now
      /\ truth' = truth \cup {t} /\ dps'.start = dps.start /\ dps'.end = now
  <2>1. dps \in Reports
    BY DEF Sound, TypeOK
  <2> QED
    BY <2>1 DEF CloseRun, Reports
<1>2. t.start = run.start /\ t.end = now
  OBVIOUS
<1> HIDE DEF t
<1>3. /\ dps.start = run.start /\ \A q \in truth : q.end <= run.start
      /\ now <= run.until /\ run.until - run.start <= MaxRun
  BY <1>1 DEF InOrder, Sound, OnSchedule
<1>4. \A q \in truth : ~Meets(t, q) /\ ~Meets(q, t)
  BY <1>2, <1>3, <1>1, SoundTypes DEF Meets
<1>5. \A p, q \in truth' : p # q => ~Meets(p, q)
  BY <1>1, <1>4 DEF InOrder
<1>6. dps'.end - dps'.start <= MaxRun /\ dps'.start # None /\ dps'.start < dps'.end
  BY <1>1, <1>3, SoundTypes
<1>7. \A p \in truth' : /\ p.start < p.end /\ p.end <= now'
                        /\ (p.start = dps'.start \/ p.end <= dps'.start)
  BY <1>1, <1>2, <1>3, SoundTypes DEF InOrder
<1> QED
  BY <1>1, <1>2, <1>3, <1>5, <1>6, <1>7 DEF InOrder

LEMMA TickOrder == ASSUME Sound, InOrder, Tick PROVE InOrder'
<1>1. /\ UNCHANGED truth /\ now' = now + 1
      /\ dps'.start = dps.start /\ dps'.end = dps.end
      /\ run = None => run' = None
      /\ run # None => run' # None /\ run'.start = run.start
  <2>1. dps \in Reports /\ run \in Running \cup {None} /\ run' \in Running \cup {None}
    BY TickSound DEF Sound, TypeOK
  <2>2. PICK liters \in Flow : run' = IF run = None THEN None ELSE [run EXCEPT !.liters = @ + liters]
    BY DEF Tick
  <2>3. ASSUME run # None PROVE run' # None /\ run'.start = run.start
    <3>1. run \in Running
      BY <2>1, <2>3
    <3>2. run.liters + liters \in Nat
      BY <3>1 DEF Running, Flow
    <3>3. run' \in Running /\ run'.start = run.start
      BY <2>2, <2>3, <3>1, <3>2 DEF Running
    <3> QED
      BY <3>3, NoneAssumption
  <2> QED
    BY <2>1, <2>2, <2>3 DEF Tick, Reports
<1>2. \A t \in truth : t.end <= now'
  BY <1>1, SoundTypes DEF InOrder
<1> QED
  BY <1>1, <1>2 DEF InOrder

LEMMA KeepsOrder == InOrder /\ UNCHANGED <<now, run, dps, truth>> => InOrder'
BY DEF InOrder, Meets

(* A disturbed run stays one, and a valve keeps its kind.                  *)
LEMMA DisturbedGrows ==
    ASSUME Next PROVE disturbed \subseteq disturbed' /\ valve' = valve
BY DEF Next, outside, history, Deliver, RecordScheduled, CloseIdle, Arm, Rearm, Save, Stop, Boot,
       StartRun, CloseRun, SendRecord, Tick, Disturb

(* The actions after which the valve and the clock are as before.          *)
Inside ==
    \/ \E sensor \in Sensors : Deliver(sensor)
    \/ \E end \in pend : RecordScheduled(end)
    \/ CloseIdle \/ Arm \/ Rearm \/ Save \/ (\E graceful \in BOOLEAN : Stop(graceful)) \/ Boot

LEMMA InsideFrame == ASSUME Inside PROVE UNCHANGED <<now, valve, run, dps, truth>>
BY DEF Inside, outside, history, Deliver, RecordScheduled, CloseIdle, Arm, Rearm, Save, Stop, Boot

-----------------------------------------------------------------------------
(* What the sensors show                                                   *)

(* An action inside Home Assistant shows a start, the last one, or none.   *)
LEMMA InsideShows ==
    ASSUME Sound, Inside
    PROVE  /\ seen'.start \in {seen.start, dps.start, None}
           /\ (seen'.start = None /\ up') => seen.start = None
<1>1. seen \in Shown /\ dps \in Reports
  BY DEF Sound, TypeOK
<1>2. ASSUME NEW sensor \in Sensors, Deliver(sensor)
      PROVE  /\ seen'.start \in {seen.start, dps.start}
             /\ seen'.start = None => seen.start = None
  <2>1. /\ seen' = [seen EXCEPT ![sensor] = dps[sensor]]
        /\ dps[sensor] = None => seen[sensor] = None
    BY <1>2 DEF Deliver, Sound, Heard
  <2>2. CASE sensor = "start"
    BY <1>1, <2>1, <2>2 DEF Shown
  <2>3. CASE sensor # "start"
    BY <1>1, <2>1, <2>3 DEF Shown, Sensors
  <2> QED
    BY <2>2, <2>3
<1>3. ASSUME NEW graceful \in BOOLEAN, Stop(graceful)
      PROVE  seen'.start = None /\ ~up'
  BY <1>3 DEF Stop, Unknown
<1>4. CASE (\E end \in pend : RecordScheduled(end)) \/ CloseIdle \/ Arm \/ Rearm \/ Save \/ Boot
  BY <1>4 DEF RecordScheduled, CloseIdle, Arm, Rearm, Save, Boot
<1> QED
  BY <1>2, <1>3, <1>4 DEF Inside

LEMMA InsideLate ==
    ASSUME Sound, InOrder, LateStart, Inside
    PROVE  LateStart'
<1>1. /\ UNCHANGED <<now, run, dps, truth>> /\ disturbed \subseteq disturbed'
      /\ seen'.start \in {seen.start, dps.start, None}
  BY InsideFrame, InsideShows, DisturbedGrows DEF Inside, Next
<1>2. CASE seen'.start = None
  BY <1>2 DEF LateStart
<1>3. CASE seen'.start = seen.start
  BY <1>1, <1>3 DEF LateStart
<1>4. CASE seen'.start = dps.start /\ dps.start # None
  <2>1. \A t \in truth : /\ t.start < dps.start => t.end <= dps.start
                         /\ ~(dps.start < t.start)
    BY <1>4, SoundTypes DEF InOrder
  <2>2. run # None => run.start = dps.start
    BY DEF InOrder
  <2> QED
    BY <1>1, <1>4, <2>1, <2>2, SoundTypes DEF LateStart
<1> QED
  BY <1>1, <1>2, <1>3, <1>4

LEMMA StartRunLate ==
    ASSUME Sound, InOrder, LateStart, OldValve, NEW length \in Lengths, StartRun(length)
    PROVE  LateStart'
<1>1. /\ UNCHANGED <<now, truth, seen>> /\ run = None /\ run'.start = now /\ dps'.start = now
      /\ disturbed \subseteq disturbed'
  BY DEF StartRun, Reports, Sound, TypeOK, Disturb
<1>2. ASSUME seen.start # None PROVE seen.start <= now
  <2>1. dps.start # None /\ seen.start <= dps.start
    BY <1>2 DEF LateStart
  <2>2. PICK t \in truth : t.start = dps.start
    BY <1>1, <2>1 DEF InOrder
  <2> QED
    BY <1>2, <2>1, <2>2, SoundTypes DEF InOrder
<1> QED
  BY <1>1, <1>2, SoundTypes DEF LateStart

LEMMA CloseRunLate ==
    ASSUME Sound, InOrder, LateStart, CloseRun
    PROVE  LateStart'
<1> DEFINE t == [start |-> run.start, end |-> now, liters |-> run.liters]
<1>1. /\ UNCHANGED <<now, seen, disturbed>> /\ run' = None /\ run # None /\ run.start < now
      /\ truth' = truth \cup {t} /\ dps'.start = dps.start
  BY DEF CloseRun, Reports, Sound, TypeOK
<1>2. t.start = run.start
  OBVIOUS
<1> HIDE DEF t
<1>3. dps.start = run.start
  BY <1>1 DEF InOrder
<1>4. ASSUME seen.start # None
      PROVE  /\ ~(t.start < seen.start)
             /\ seen.start < t.start => t.start \in disturbed
             /\ seen.start # dps.start => seen.start \in disturbed
  BY <1>1, <1>2, <1>3, <1>4, SoundTypes DEF LateStart
<1> QED
  BY <1>1, <1>4 DEF LateStart

LEMMA TickLate ==
    ASSUME Sound, InOrder, Awake, LateStart, OldValve, Tick
    PROVE  LateStart'
<1>1. /\ UNCHANGED <<truth, seen>> /\ now' = now + 1 /\ dps'.start = dps.start
      /\ run # None => run'.start = run.start
      /\ run = None => run' = None
  BY DEF Tick, Reports, Sound, TypeOK, Running
<1>2. ASSUME seen.start # None, seen.start # dps.start
      PROVE  disturbed' = disturbed \cup Latest \cup {seen.start}
  <2>1. up /\ ~AllSeen
    BY <1>2 DEF Awake, AllSeen
  <2> QED
    BY <1>2, <2>1 DEF Tick, Disturb, If, Mistaken
<1>3. disturbed \subseteq disturbed'
  BY DEF Tick, Disturb
<1>4. ASSUME seen.start # None, run' # None, seen.start < run'.start
      PROVE  run'.start \in disturbed'
  <2>1. run # None /\ run'.start = run.start /\ dps.start = run.start
    BY <1>1, <1>4 DEF InOrder
  <2>2. run.start \in Latest /\ seen.start # dps.start
    BY <1>4, <2>1, SoundTypes DEF Latest
  <2> QED
    BY <1>2, <1>4, <2>1, <2>2
<1> QED
  BY <1>1, <1>2, <1>3, <1>4 DEF LateStart

-----------------------------------------------------------------------------
LEMMA InsideAwake ==
    ASSUME Sound, OldValve, Awake, Inside
    PROVE  Awake'
<1>1. idle' = None
  BY DEF Awake, Inside, Deliver, OnVolume, RecordScheduled, CloseIdle, Arm, Rearm, Save, Stop, Boot
<1>2. armed' => up'
  BY DEF Awake, Inside, Deliver, RecordScheduled, CloseIdle, Arm, Rearm, Save, Stop, Boot
<1>3. ~up' => seen'.start = None
  <2>1. CASE \E sensor \in Sensors : Deliver(sensor)
    BY <2>1 DEF Deliver
  <2>2. CASE \E graceful \in BOOLEAN : Stop(graceful)
    BY <2>2 DEF Stop, Unknown
  <2>3. CASE (\E end \in pend : RecordScheduled(end)) \/ CloseIdle \/ Arm \/ Rearm \/ Save \/ Boot
    BY <2>3 DEF Awake, RecordScheduled, CloseIdle, Arm, Rearm, Save, Boot
  <2> QED
    BY <2>1, <2>2, <2>3 DEF Inside
<1> QED
  BY <1>1, <1>2, <1>3 DEF Awake

LEMMA OutsideAwake ==
    ASSUME Awake, \/ \E length \in Lengths : StartRun(length)
                  \/ CloseRun \/ SendRecord \/ Tick \/ UNCHANGED vars
    PROVE  Awake'
<1>1. UNCHANGED <<idle, armed, up, seen>>
  BY DEF StartRun, CloseRun, SendRecord, Tick, vars, memory
<1> QED
  BY <1>1 DEF Awake

-----------------------------------------------------------------------------
(* The first rise of the counter                                           *)

LEMMA RecordEndRise ==
    ASSUME NEW start, NEW end, acc \in Accumulator, RecordEnd(start, end)
    PROVE  acc'.first \in {acc.first, None}
BY DEF RecordEnd, RunLiters, Emptied, Accumulator

LEMMA OnVolumeRise ==
    ASSUME acc \in Accumulator, NEW value \in Nat, OnVolume(value)
    PROVE  acc'.first \in {acc.first, now}
<1> DEFINE fresh == [acc EXCEPT !.last = value, !.at = now]
           restarted == acc.last # None /\ Restarted(acc.last, value)
           base == IF restarted THEN [fresh EXCEPT !.delivered = 0] ELSE fresh
           delta == Climb(acc.last, value)
<1>1. fresh.first = acc.first /\ base.first = acc.first
      /\ base = [last |-> value, at |-> now, delivered |-> base.delivered, first |-> acc.first,
                 rise |-> acc.rise]
  BY DEF Accumulator
<1>2. \/ acc' = fresh
      \/ acc' = [base EXCEPT !.last = acc.last, !.at = acc.at]
      \/ acc' = base
      \/ acc' = [base EXCEPT !.delivered = @ + delta, !.rise = now,
                             !.first = IF @ = None THEN now ELSE @]
  BY DEF OnVolume
<1> HIDE DEF fresh, base, delta
<1> QED
  BY <1>1, <1>2

(* The counter of an armed store first rises now, or as before, or not.    *)
LEMMA InsideRise ==
    ASSUME Sound, Inside
    PROVE  /\ acc'.first \in {acc.first, None, now}
           /\ acc'.first # acc.first => acc'.first = None \/ armed
           /\ (armed' /\ ~armed) => Arm
<1>1. acc \in Accumulator /\ dps.volume \in Nat
  BY DEF Sound, TypeOK, Reports
<1>2. ASSUME NEW sensor \in Sensors, Deliver(sensor)
      PROVE  /\ acc'.first \in {acc.first, None, now} /\ armed' = armed
             /\ ~armed => acc' = acc
  <2>1. CASE OnEnd(dps.end) /\ armed
    BY <1>1, <1>2, <2>1, RecordEndRise DEF OnEnd, PreReport, Emptied, Accumulator, Deliver
  <2>2. CASE OnVolume(dps.volume) /\ armed
    BY <1>1, <1>2, <2>2, OnVolumeRise DEF Deliver
  <2>3. CASE acc' = acc
    BY <1>2, <2>3 DEF Deliver
  <2> QED
    BY <1>2, <2>1, <2>2, <2>3 DEF Deliver
<1>3. ASSUME NEW end \in pend, RecordScheduled(end)
      PROVE  acc'.first \in {acc.first, None} /\ armed' = armed
  BY <1>1, <1>3, RecordEndRise DEF RecordScheduled
<1>4. CASE Arm
  BY <1>1, <1>4, RecordEndRise DEF Arm
<1>5. CASE CloseIdle \/ (\E graceful \in BOOLEAN : Stop(graceful))
  <2>1. Emptied(acc).first = None /\ NewAccumulator.first = None
    BY <1>1 DEF Emptied, NewAccumulator, Accumulator
  <2>2. acc' \in {Emptied(acc), NewAccumulator}
    BY <1>5 DEF CloseIdle, Stop
  <2>3. armed' => armed
    BY <1>5 DEF CloseIdle, Stop
  <2> QED
    BY <2>1, <2>2, <2>3
<1>6. CASE Rearm \/ Save \/ Boot
  BY <1>6 DEF Rearm, Save, Boot
<1> QED
  BY <1>2, <1>3, <1>4, <1>5, <1>6 DEF Inside

LEMMA InsideNoStart ==
    ASSUME Sound, OldValve, InOrder, Awake, NoStart, Inside
    PROVE  NoStart'
<1>1. /\ UNCHANGED <<now, valve, run, dps, truth>> /\ disturbed \subseteq disturbed'
      /\ acc'.first \in {acc.first, None, now}
      /\ acc'.first # acc.first => acc'.first = None \/ armed
      /\ (seen'.start = None /\ up') => seen.start = None
      /\ armed' => up'
      /\ (armed' /\ ~armed) => Arm
  BY InsideFrame, InsideRise, InsideShows, DisturbedGrows, InsideAwake DEF Inside, Next, Awake
<1>2. ~armed' => acc'.first = None
  <2>1. CASE ~armed
    BY <1>1, <2>1 DEF NoStart
  <2>2. CASE armed /\ ~armed'
    <3>1. PICK graceful \in BOOLEAN : Stop(graceful)
      BY <2>2 DEF Inside, Deliver, RecordScheduled, CloseIdle, Arm, Rearm, Save, Boot
    <3> QED
      BY <3>1 DEF Stop, NewAccumulator
  <2> QED
    BY <2>1, <2>2
<1>3. ASSUME armed', seen'.start = None
      PROVE  /\ acc'.first # None => \A t \in truth' : acc'.first < t.end => t.start \in disturbed'
             /\ run' # None => run'.start \in disturbed' \cup {now'}
  <2>1. seen.start = None
    BY <1>1, <1>3
  <2>2. CASE armed
    <3>1. \A t \in truth : ~(now < t.end)
      BY SoundTypes DEF InOrder
    <3> QED
      BY <1>1, <2>1, <2>2, <3>1 DEF NoStart
  <2>3. CASE ~armed
    <3>1. Arm /\ acc'.first = None
      BY <1>1, <1>3, <2>3 DEF NoStart
    <3>2. ASSUME run # None PROVE run.start \in disturbed'
      BY <3>1, <3>2 DEF Arm, Disturb, If, Latest
    <3> QED
      BY <1>1, <3>1, <3>2
  <2> QED
    BY <2>2, <2>3
<1> QED
  BY <1>2, <1>3 DEF NoStart

LEMMA OutsideNoStart ==
    ASSUME Sound, OldValve, InOrder, Awake, NoStart,
           (\E length \in Lengths : StartRun(length)) \/ CloseRun \/ Tick
    PROVE  NoStart'
<1>1. UNCHANGED <<seen, armed, acc, up>> /\ disturbed \subseteq disturbed'
  BY DEF StartRun, CloseRun, Tick, memory, Disturb
<1>2. CASE \E length \in Lengths : StartRun(length)
  <2>1. PICK length \in Lengths : run' = [start |-> now, until |-> now + length, liters |-> 0]
    BY <1>2 DEF StartRun
  <2>2. UNCHANGED <<now, truth>>
    BY <1>2 DEF StartRun
  <2> QED
    BY <1>1, <2>1, <2>2 DEF NoStart
<1>3. CASE CloseRun
  <2> DEFINE t == [start |-> run.start, end |-> now, liters |-> run.liters]
  <2>1. /\ run # None /\ run' = None /\ run.start < now /\ truth' = truth \cup {t}
        /\ UNCHANGED disturbed
    BY <1>3 DEF CloseRun
  <2>2. t.start = run.start
    OBVIOUS
  <2> HIDE DEF t
  <2>3. ASSUME armed, seen.start = None PROVE t.start \in disturbed
    BY <2>1, <2>2, <2>3, SoundTypes DEF NoStart
  <2> QED
    BY <1>1, <2>1, <2>3 DEF NoStart
<1>4. CASE Tick
  <2>1. /\ UNCHANGED truth
        /\ run' # None => run # None /\ run'.start = run.start
    BY <1>4 DEF Tick, Sound, TypeOK, Running
  <2>2. ASSUME armed, seen.start = None, run # None PROVE run.start \in disturbed'
    <3>1. up /\ ~AllSeen
      BY <2>2, SoundTypes DEF Awake, AllSeen, InOrder
    <3> QED
      BY <1>4, <2>2, <3>1 DEF Tick, Disturb, If, Latest
  <2> QED
    BY <1>1, <2>1, <2>2 DEF NoStart
<1> QED
  BY <1>2, <1>3, <1>4

-----------------------------------------------------------------------------
(* The rows                                                                *)

(* What add_run leaves: the table, with one row changed, or with one more. *)
LEMMA AddRunResult ==
    ASSUME NEW table \in SUBSET Row, NEW start \in Time, NEW end \in Time,
           NEW liters \in Liters \cup {None}
    PROVE  \/ end <= start /\ AddRun(table, start, end, liters) = table
           \/ \E row \in table, new \in Row :
                 /\ AddRun(table, start, end, liters) = Replaced(table, row, new)
                 /\ row.end = end \/ row.start = start
                 /\ new.start = row.start
                 /\ new.end = row.end \/ (new.end = end /\ row.start = start /\ end < row.end)
                 /\ new.liters = IF Truthy(liters) /\ ~Truthy(row.liters) THEN liters
                                                                        ELSE row.liters
           \/ \E new \in Row :
                 /\ AddRun(table, start, end, liters) = table \cup {new}
                 /\ new.start = start /\ new.end = end /\ new.liters = liters
                 /\ \A q \in table : q.start # start /\ q.end # end
<1>1. CASE end <= start
  BY <1>1 DEF AddRun
<1>2. CASE ~(end <= start) /\ \E q \in table : q.end = end
  <2> DEFINE row == CHOOSE q \in table : q.end = end
  <2>1. row \in table /\ row.end = end
    BY <1>2
  <2>2. AddRun(table, start, end, liters) = Replaced(table, row, Filled(row, liters))
    BY <1>2 DEF AddRun
  <2> HIDE DEF row
  <2>3. /\ Filled(row, liters) \in Row
        /\ Filled(row, liters).start = row.start /\ Filled(row, liters).end = row.end
        /\ Filled(row, liters).liters = IF Truthy(liters) /\ ~Truthy(row.liters) THEN liters
                                                                             ELSE row.liters
    BY <2>1, FilledBounds DEF Filled, Row
  <2> QED
    BY <2>1, <2>2, <2>3
<1>3. CASE ~(end <= start) /\ ~(\E q \in table : q.end = end) /\ \E q \in table : q.start = start
  <2> DEFINE row == CHOOSE q \in table : q.start = start
             earliest == IF end < row.end THEN [row EXCEPT !.end = end] ELSE row
  <2>1. row \in table /\ row.start = start
    BY <1>3
  <2>2. AddRun(table, start, end, liters) = Replaced(table, row, Filled(earliest, liters))
    BY <1>3 DEF AddRun
  <2>3. earliest \in Row /\ earliest.start = start /\ earliest.liters = row.liters
        /\ earliest.end = IF end < row.end THEN end ELSE row.end
    BY <2>1 DEF Row
  <2> HIDE DEF row, earliest
  <2>4. /\ Filled(earliest, liters) \in Row
        /\ Filled(earliest, liters).start = start
        /\ Filled(earliest, liters).end = IF end < row.end THEN end ELSE row.end
        /\ Filled(earliest, liters).liters = IF Truthy(liters) /\ ~Truthy(row.liters) THEN liters
                                                                                  ELSE row.liters
    BY <2>3, FilledBounds DEF Filled, Row
  <2> QED
    BY <2>1, <2>2, <2>4
<1>4. CASE ~(end <= start) /\ ~(\E q \in table : q.end = end) /\ ~(\E q \in table : q.start = start)
  <2> DEFINE new == [start |-> start, end |-> end, liters |-> liters]
  <2>1. new \in Row /\ new.start = start /\ new.end = end /\ new.liters = liters
    BY DEF Row
  <2> HIDE DEF new
  <2>2. AddRun(table, start, end, liters) = table \cup {new}
    BY <1>4 DEF AddRun, new
  <2> QED
    BY <1>4, <2>1, <2>2
<1> QED
  BY <1>1, <1>2, <1>3, <1>4

(* The bounds of its rows are those of the table, or the new ones.         *)
LEMMA AddRunSpans ==
    ASSUME NEW table \in SUBSET Row, NEW start \in Time, NEW end \in Time,
           NEW liters \in Liters \cup {None}, NEW r \in AddRun(table, start, end, liters)
    PROVE  \/ \E q \in table : r.start = q.start /\ r.end = q.end
           \/ r.start = start /\ r.end = end
BY AddRunResult DEF Replaced

LEMMA AddRunNew ==
    ASSUME NEW table \in SUBSET Row, OneRowPerBound(table), NEW start \in Time, NEW end \in Time,
           NEW liters \in Liters \cup {None}, NEW r \in AddRun(table, start, end, liters)
    PROVE  \/ \E q \in table : r.start = q.start /\ r.end = q.end
           \/ r.start = start /\ r.end = end /\ \A q \in table : q.start = start => end < q.end
<1>1. \A row, q \in table : row.start = start /\ q.start = start => q = row
  BY DEF OneRowPerBound
<1> QED
  BY <1>1, AddRunResult DEF Replaced

LEMMA AddRunKeeps ==
    ASSUME NEW table \in SUBSET Row, NEW start \in Time, NEW end \in Time,
           NEW liters \in Liters \cup {None}, NEW q \in table
    PROVE  \E r \in AddRun(table, start, end, liters) :
              /\ r.start = q.start
              /\ r.end = q.end \/ (q.start = start /\ end < q.end)
BY AddRunResult DEF Replaced

LEMMA AddRunAdds ==
    ASSUME NEW table \in SUBSET Row, NEW start \in Time, NEW end \in Time, start < end,
           NEW liters \in Liters \cup {None}, \A q \in table : q.start # start /\ q.end # end
    PROVE  \E r \in AddRun(table, start, end, liters) : r.start = start /\ r.end = end
<1>1. ~(end <= start)
  BY TimeFacts
<1> QED
  BY <1>1, AddRunResult

(* A late reading of the counter changes no bound.                         *)
LEMMA LateReadingSpans ==
    ASSUME NEW table \in SUBSET Row, NEW value
    PROVE  /\ \A r \in LateReading(table, value) : \E q \in table : r.start = q.start /\ r.end = q.end
           /\ \A q \in table : \E r \in LateReading(table, value) : r.start = q.start /\ r.end = q.end
<1> DEFINE Read(r) == IF /\ \A q \in table : q.end <= r.end
                         /\ r.liters # None /\ r.liters < value /\ now - r.end <= Settle
                         /\ Sane(value) # None
                      THEN [r EXCEPT !.liters = value] ELSE r
<1>1. LateReading(table, value) = {Read(r) : r \in table}
  BY DEF LateReading
<1>2. \A r \in table : Read(r).start = r.start /\ Read(r).end = r.end
  BY DEF Row
<1> HIDE DEF Read
<1> QED
  BY <1>1, <1>2

LEMMA RecordEndOwn ==
    ASSUME Sound, OwnStarts(rows), NEW start, NEW end, PairsUp(start, end),
           start \in Time \cup {None}, end \in Time \cup {None}, RecordEnd(start, end),
           Rightly(start, end)
    PROVE  \A r \in rows' : Rightly(r.start, r.end)
<1> DEFINE taken == RunLiters(perCycle, acc)
<1>1. start \in Time /\ end \in Time /\ rows \subseteq Row
  BY DEF PairsUp, Sound, TypeOK
<1>2. taken[1] \in Liters \cup {None}
  BY DEF RunLiters, Sane, Liters, Sound, TypeOK, Accumulator, Shown
<1>3. rows' = AddRun(rows, start, end, taken[1])
  BY DEF RecordEnd
<1> HIDE DEF taken
<1>4. SUFFICES ASSUME NEW r \in rows' PROVE Rightly(r.start, r.end)
  OBVIOUS
<1>5. \/ \E q \in rows : r.start = q.start /\ r.end = q.end
      \/ r.start = start /\ r.end = end
  BY <1>1, <1>2, <1>3, AddRunSpans
<1> QED
  BY <1>5 DEF OwnStarts

(* A close paired with the start that is shown.                            *)
LEMMA ShownPair ==
    ASSUME Sound, InOrder, LateStart, NEW end \in Nat, end <= now,
           PairsUp(seen.start, end)
    PROVE  Rightly(seen.start, end)
<1>1. seen.start \in Nat /\ seen.start < end
  BY SoundTypes DEF PairsUp
<1>2. ASSUME NEW t \in truth, seen.start < t.end, t.start \notin disturbed
      PROVE  seen.start = t.start
  BY <1>1, <1>2, SoundTypes DEF LateStart
<1>3. ASSUME run # None, run.start < end, run.start \notin disturbed
      PROVE  seen.start = run.start
  <2>1. run.start # now /\ seen.start <= run.start
    BY <1>1, <1>3, SoundTypes DEF LateStart, InOrder
  <2> QED
    BY <1>1, <1>3, <2>1, SoundTypes DEF LateStart
<1> QED
  BY <1>1, <1>2, <1>3 DEF Rightly

(* A close paired with the start of the valve's own record of its run.     *)
LEMMA OwnPair ==
    ASSUME Sound, InOrder, NEW t \in truth
    PROVE  Rightly(t.start, t.end)
<1>1. \A q \in truth : (t.start < q.end /\ q.start < t.end) => t.start = q.start
  BY DEF InOrder, Meets
<1>2. run # None => ~(run.start < t.end)
  BY SoundTypes DEF InOrder
<1> QED
  BY <1>1, <1>2 DEF Rightly, InOrder

(* A close paired with the first rise of the counter, since the start that *)
(* is shown is no start of it: the runs it may meet are disturbed.         *)
LEMMA RiseDisturbed ==
    ASSUME Sound, Chronicle, armed, dps.end # None, dps.end <= now,
           ~PairsUp(seen.start, dps.end), PairsUp(acc.first, dps.end)
    PROVE  /\ \A t \in truth : acc.first < t.end => t.start \in disturbed
           /\ (run # None /\ run.start < dps.end) => run.start \in disturbed
<1>1. InOrder /\ Awake /\ LateStart /\ NoStart
  BY DEF Chronicle
<1>2. /\ acc.first \in Nat /\ acc.first < dps.end /\ dps.end - acc.first <= MaxRun
      /\ dps.end \in Nat /\ dps.start \in Nat /\ dps.start < dps.end
      /\ dps.end - dps.start <= MaxRun
  BY <1>1, SoundTypes DEF PairsUp, InOrder
<1>3. CASE seen.start = None
  <2>1. \A t \in truth : acc.first < t.end => t.start \in disturbed
    BY <1>1, <1>2, <1>3, SoundTypes DEF NoStart
  <2>2. (run # None /\ run.start < dps.end) => run.start \in disturbed
    BY <1>1, <1>2, <1>3, SoundTypes DEF NoStart
  <2> QED
    BY <2>1, <2>2
<1>4. CASE seen.start # None
  <2>1. seen.start \in Nat /\ seen.start <= dps.start
    BY <1>1, <1>4, SoundTypes DEF LateStart
  <2>2. dps.end - seen.start > MaxRun
    BY <1>2, <1>4, <2>1, SoundTypes DEF PairsUp
  <2>3. seen.start < acc.first /\ seen.start # dps.start
    BY <1>2, <2>1, <2>2, SoundTypes
  <2>4. seen.start \in disturbed
    BY <1>1, <1>2, <1>4, <2>3, SoundTypes DEF LateStart
  <2>5. ASSUME NEW t \in truth, acc.first < t.end PROVE t.start \in disturbed
    <3>1. t.start \in Nat /\ t.end \in Nat
      BY SoundTypes
    <3>2. seen.start <= t.start
      BY <1>1, <1>2, <1>4, <2>1, <2>3, <2>5, <3>1 DEF LateStart
    <3> QED
      BY <1>1, <1>4, <2>1, <2>4, <3>1, <3>2 DEF LateStart
  <2>6. ASSUME run # None, run.start < dps.end PROVE run.start \in disturbed
    <3>1. run.start = dps.start /\ run.start # now
      BY <1>1, <1>2, <2>6, SoundTypes DEF InOrder
    <3>2. seen.start < run.start
      BY <1>2, <2>1, <2>3, <3>1
    <3> QED
      BY <1>1, <1>4, <2>6, <3>1, <3>2 DEF LateStart
  <2> QED
    BY <2>5, <2>6
<1> QED
  BY <1>3, <1>4

LEMMA RisePair ==
    ASSUME Sound, Chronicle, armed, dps.end # None, dps.end <= now,
           ~PairsUp(seen.start, dps.end), PairsUp(acc.first, dps.end)
    PROVE  Rightly(acc.first, dps.end)
BY RiseDisturbed DEF Rightly

LEMMA LateReadingOwn ==
    ASSUME Sound, OwnStarts(rows), NEW value \in Nat
    PROVE  \A r \in LateReading(rows, value) : Rightly(r.start, r.end)
BY LateReadingSpans DEF OwnStarts, Sound, TypeOK

(* A load drops rows of one start only.                                    *)
LEMMA DedupedSpans ==
    ASSUME NEW table \in SUBSET Row, OneRowPerBound(table)
    PROVE  /\ \A r \in DedupedByStart(table) : \E q \in table : r.start = q.start /\ r.end = q.end
           /\ \A q \in table : \E r \in DedupedByStart(table) : r.start = q.start /\ r.end = q.end
<1> DEFINE copies(r) == {q \in table : q.start = r.start /\ Truthy(q.liters)}
           liters(r) == IF copies(r) = {} THEN None ELSE (CHOOSE q \in copies(r) : TRUE).liters
           kept == {q \in table : \A p \in table : p.start = q.start => q.end <= p.end}
<1>1. DedupedByStart(table) = {Filled(r, liters(r)) : r \in kept}
  BY DEF DedupedByStart
<1>2. \A r \in table : liters(r) \in Liters \cup {None}
  <2> SUFFICES ASSUME NEW r \in table, copies(r) # {}
               PROVE  (CHOOSE q \in copies(r) : TRUE).liters \in Liters \cup {None}
    OBVIOUS
  <2>1. (CHOOSE q \in copies(r) : TRUE) \in table
    OBVIOUS
  <2> QED
    BY <2>1 DEF Row
<1> HIDE DEF liters
<1>3. \A r \in table : /\ Filled(r, liters(r)).start = r.start
                       /\ Filled(r, liters(r)).end = r.end
  BY <1>2, FilledBounds
<1>4. kept = table
  <2>1. \A p, q \in table : p.start = q.start => p = q
    BY DEF OneRowPerBound
  <2>2. \A q \in table : q.end \in Nat
    BY TimeFacts DEF Row
  <2> QED
    BY <2>1, <2>2
<1> HIDE DEF kept
<1> QED
  BY <1>1, <1>3, <1>4

LEMMA DedupedOwn ==
    ASSUME NEW table \in SUBSET Row, OneRowPerBound(table), OwnStarts(table)
    PROVE  \A r \in DedupedByStart(table) : Rightly(r.start, r.end)
BY DedupedSpans DEF OwnStarts

(* A row that starts rightly does so after every step.                     *)
LEMMA InsideRight ==
    ASSUME Inside, NEW start, NEW end, Rightly(start, end)
    PROVE  Rightly(start, end)'
<1>1. UNCHANGED <<now, run, truth>> /\ disturbed \subseteq disturbed'
  BY InsideFrame, DisturbedGrows DEF Inside, Next
<1> QED
  BY <1>1 DEF Rightly

LEMMA OutsideRight ==
    ASSUME Sound, (\E length \in Lengths : StartRun(length)) \/ CloseRun \/ Tick,
           NEW start \in Nat, NEW end \in Nat, Rightly(start, end)
    PROVE  Rightly(start, end)'
<1>1. disturbed \subseteq disturbed'
  BY DEF StartRun, CloseRun, Tick, Disturb
<1>2. CASE \E length \in Lengths : StartRun(length)
  <2>1. PICK length \in Lengths : run' = [start |-> now, until |-> now + length, liters |-> 0]
    BY <1>2 DEF StartRun
  <2>2. UNCHANGED <<now, truth>>
    BY <1>2 DEF StartRun
  <2> QED
    BY <1>1, <2>1, <2>2, SoundTypes DEF Rightly
<1>3. CASE CloseRun
  <2> DEFINE t == [start |-> run.start, end |-> now, liters |-> run.liters]
  <2>1. /\ run # None /\ run' = None /\ truth' = truth \cup {t}
        /\ UNCHANGED <<now, disturbed>>
    BY <1>3 DEF CloseRun
  <2>2. t.start = run.start
    OBVIOUS
  <2> HIDE DEF t
  <2> QED
    BY <2>1, <2>2 DEF Rightly
<1>4. CASE Tick
  <2>1. /\ UNCHANGED truth /\ now' = now + 1
        /\ run' # None => run # None /\ run'.start = run.start
    BY <1>4 DEF Tick, Sound, TypeOK, Running
  <2> QED
    BY <1>1, <2>1, SoundTypes DEF Rightly
<1> QED
  BY <1>2, <1>3, <1>4

(* Whatever writes a row gives it its own start.                           *)
LEMMA InsideOwn ==
    ASSUME Sound, OldValve, dps.counter = None, Chronicle, OwnStarts(rows),
           OwnStarts(disk.rows), OneRowPerBound(disk.rows), Inside
    PROVE  \A r \in rows' : Rightly(r.start, r.end)
<1>1. /\ InOrder /\ Awake /\ LateStart /\ NoStart
      /\ seen.start \in Time \cup {None} /\ seen.end \in Time \cup {None}
      /\ dps.end \in Time \cup {None} /\ dps.volume \in Nat /\ acc.first \in Time \cup {None}
      /\ pend \subseteq Time /\ Time \subseteq Nat /\ None \notin Nat
      /\ disk.rows \subseteq Row /\ Grace \in Nat /\ now \in Nat
  BY TimeFacts, ThresholdsAssumption
  DEF Chronicle, Sound, TypeOK, Shown, Reports, Accumulator
<1>2. ASSUME NEW sensor \in Sensors, Deliver(sensor)
      PROVE  \A r \in rows' : Rightly(r.start, r.end)
  <2>1. CASE UNCHANGED rows
    BY <2>1 DEF OwnStarts
  <2>2. CASE armed /\ sensor = "end" /\ OnEnd(dps.end)
    <3>1. dps.end # None /\ dps.end \in Nat /\ now \in Nat
      BY <1>2, <2>2, SoundTypes DEF Deliver, Sound, Heard
    <3>2. CASE dps.end > now
      BY <2>2, <3>2 DEF OnEnd, PreReport, OwnStarts
    <3>3. CASE ~(dps.end > now) /\ PairsUp(seen.start, dps.end)
      <4> dps.end \in Nat /\ dps.end <= now
        BY <3>1, <3>3
      <4>1. Rightly(seen.start, dps.end)
        BY <1>1, <3>3, ShownPair
      <4> QED
        BY <1>1, <2>2, <3>3, <4>1, RecordEndOwn DEF OnEnd
    <3>4. CASE ~(dps.end > now) /\ ~PairsUp(seen.start, dps.end)
      <4> dps.end \in Nat /\ dps.end <= now
        BY <3>1, <3>4
      <4>1. CASE UNCHANGED rows
        BY <4>1 DEF OwnStarts
      <4>2. ASSUME NEW start \in UnpairedStarts(dps.end), PairsUp(start, dps.end),
                   RecordEnd(start, dps.end)
            PROVE  \A r \in rows' : Rightly(r.start, r.end)
        <5>1. start \in Time \cup {None}
          BY <1>1, <4>2 DEF UnpairedStarts, Sound, TypeOK, Row
        <5>2. Rightly(start, dps.end)
          <6>1. CASE start = acc.first
            BY <1>1, <2>2, <3>1, <3>4, <4>2, <6>1, RisePair
          <6>2. ASSUME NEW t \in truth, t.end = dps.end, start = t.start
                PROVE  Rightly(start, dps.end)
            BY <1>1, <6>2, OwnPair
          <6> QED
            BY <4>2, <6>1, <6>2 DEF UnpairedStarts
        <5> QED
          BY <1>1, <4>2, <5>1, <5>2, RecordEndOwn
      <4> QED
        BY <2>2, <3>4, <4>1, <4>2 DEF OnEnd
    <3> QED
      BY <3>2, <3>3, <3>4
  <2>3. CASE armed /\ sensor = "volume" /\ OnVolume(dps.volume)
    <3>1. rows' \in {rows, LateReading(rows, dps.volume)}
      BY <2>3 DEF OnVolume
    <3> QED
      BY <1>1, <3>1, LateReadingOwn DEF OwnStarts
  <2>4. sensor # "counter"
    BY <1>2 DEF Deliver, Sound, Heard
  <2> QED
    BY <1>2, <2>1, <2>2, <2>3, <2>4 DEF Deliver
<1>3. ASSUME NEW end \in pend, RecordScheduled(end)
      PROVE  \A r \in rows' : Rightly(r.start, r.end)
  <2>1. CASE UNCHANGED rows
    BY <2>1 DEF OwnStarts
  <2>2. CASE PairsUp(seen.start, end) /\ RecordEnd(seen.start, end)
    <3>1. end \in Nat /\ end <= now /\ end \in Time \cup {None}
      BY <1>1, <1>3 DEF RecordScheduled
    <3> QED
      BY <1>1, <2>2, <3>1, ShownPair, RecordEndOwn
  <2> QED
    BY <1>3, <2>1, <2>2 DEF RecordScheduled
<1>4. CASE Arm
  <2>1. CASE UNCHANGED rows
    BY <2>1 DEF OwnStarts
  <2>2. CASE PairsUp(seen.start, seen.end) /\ seen.end <= now /\ RecordEnd(seen.start, seen.end)
    <3>1. seen.end \in Nat
      BY <1>1, <2>2 DEF PairsUp
    <3> QED
      BY <1>1, <2>2, <3>1, ShownPair, RecordEndOwn
  <2>3. seen.counter = None
    BY DEF Sound, Heard, Sensors
  <2> QED
    BY <1>4, <2>1, <2>2, <2>3 DEF Arm
<1>5. CASE CloseIdle
  BY <1>1, <1>5 DEF CloseIdle, Awake
<1>6. CASE Rearm \/ Save
  BY <1>6 DEF Rearm, Save, OwnStarts
<1>7. CASE Boot
  BY <1>1, <1>7, DedupedOwn DEF Boot
<1>8. CASE \E graceful \in BOOLEAN : Stop(graceful)
  BY <1>8 DEF Stop
<1> QED
  BY <1>2, <1>3, <1>4, <1>5, <1>6, <1>7, <1>8 DEF Inside

(* The rows of an old valve, in the store and in the file, and the course  *)
(* of its runs.                                                            *)
Courses == OldValve => Chronicle /\ OwnStarts(rows) /\ OwnStarts(disk.rows)

LEMMA InitCourses == Init => Courses
<1> SUFFICES ASSUME Init PROVE Courses
  OBVIOUS
<1>1. /\ truth = {} /\ run = None /\ rows = {} /\ disk.rows = {} /\ idle = None /\ up = TRUE
      /\ dps.start = None /\ dps.end = None /\ seen.start = None /\ acc.first = None
  BY DEF Init, Unknown, NewAccumulator
<1> QED
  BY <1>1 DEF Courses, Chronicle, InOrder, Awake, LateStart, NoStart, OwnStarts

LEMMA InsideCourses ==
    ASSUME Sound, Bounds, Courses, OldValve, Inside
    PROVE  Chronicle' /\ OwnStarts(rows)' /\ OwnStarts(disk.rows)'
<1>1. /\ InOrder /\ Awake /\ LateStart /\ NoStart /\ Chronicle
      /\ OwnStarts(rows) /\ OwnStarts(disk.rows) /\ dps.counter = None
      /\ OneRowPerBound(disk.rows)
  BY DEF Courses, Chronicle, Bounds
<1>2. Chronicle'
  BY <1>1, InsideFrame, KeepsOrder, InsideAwake, InsideLate, InsideNoStart DEF Chronicle
<1>3. \A r \in rows' : Rightly(r.start, r.end)
  BY <1>1, InsideOwn
<1>4. disk' = disk \/ disk'.rows = rows
  <2>1. disk' \in {disk, Stored}
    BY DEF Inside, Deliver, RecordScheduled, CloseIdle, Arm, Rearm, Save, Stop, Boot
  <2> QED
    BY <2>1 DEF Stored
<1>5. \A r \in disk'.rows : Rightly(r.start, r.end)
  BY <1>1, <1>4 DEF OwnStarts
<1> QED
  BY <1>2, <1>3, <1>5, InsideRight DEF OwnStarts

LEMMA OutsideCourses ==
    ASSUME Sound, Courses, OldValve,
           (\E length \in Lengths : StartRun(length)) \/ CloseRun \/ Tick
    PROVE  Chronicle' /\ OwnStarts(rows)' /\ OwnStarts(disk.rows)'
<1>1. /\ InOrder /\ Awake /\ LateStart /\ NoStart
      /\ OwnStarts(rows) /\ OwnStarts(disk.rows)
  BY DEF Courses, Chronicle
<1>2. InOrder' /\ LateStart'
  BY <1>1, StartRunOrder, CloseRunOrder, TickOrder, StartRunLate, CloseRunLate, TickLate
<1>3. Awake' /\ NoStart'
  BY <1>1, OutsideAwake, OutsideNoStart
<1>4. UNCHANGED <<rows, disk>>
  BY DEF StartRun, CloseRun, Tick, memory
<1>5. \A r \in rows \cup disk.rows : Rightly(r.start, r.end)'
  <2>1. \A r \in rows \cup disk.rows : r.start \in Nat /\ r.end \in Nat
    BY SoundTypes
  <2> QED
    BY <1>1, <2>1, OutsideRight DEF OwnStarts
<1> QED
  BY <1>2, <1>3, <1>4, <1>5 DEF Chronicle, OwnStarts

LEMMA NextCourses == Sound /\ Bounds /\ Courses /\ [Next]_vars => Courses'
<1> SUFFICES ASSUME Sound, Bounds, Courses, [Next]_vars PROVE Courses'
  OBVIOUS
<1>1. CASE UNCHANGED vars
  BY <1>1 DEF vars, outside, memory, history, Courses, Chronicle, InOrder, Awake, LateStart, NoStart,
              OwnStarts, Rightly, OldValve, Meets
<1>2. CASE Next
  <2>1. OldValve' <=> OldValve
    BY <1>2, DisturbedGrows DEF OldValve
  <2>2. OldValve => ~SendRecord
    BY DEF SendRecord
  <2> QED
    BY <1>2, <2>1, <2>2, InsideCourses, OutsideCourses DEF Next, Inside, Courses
<1> QED
  BY <1>1, <1>2

LEMMA CoursesApart == Bounds /\ Courses => RowsApart
BY DEF Bounds, Courses, RowsApart, OwnStarts, Rightly, Meets, OneRowPerBound

(* The rows of an old valve, at every moment, for every thresholds and     *)
(* every rest between runs, whatever was late or lost: no two have one     *)
(* start or one close, and no two meet a run whose reports came in time,   *)
(* so no total counts it twice (runs_store.py, add_run and its callers).   *)
THEOREM RowsStayApart == Spec => []RowsApart
<1>1. Init => Bounds
  BY DEF Init, Bounds, OneRowPerBound, Unknown
<1> QED
  BY <1>1, AlwaysSound, NextBounds, InitCourses, NextCourses, CoursesApart, PTL DEF Spec

-----------------------------------------------------------------------------
(* A run of an old valve whose reports came in time is in the table, with  *)
(* its own start and its own close.                                        *)
(*                                                                         *)
(* That takes a rest between runs, or the scheduled close of one run would *)
(* be taken for another's.                                                 *)
LongRests == Grace < Gap /\ Slack <= Gap

(* The scheduled close of the last run.                                    *)
Horizon == IF run # None THEN run.until ELSE rest - Gap

(* A close that was reported lies in a rest, or is of the run in progress. *)
Spaced(end) ==
    /\ end <= Horizon
    /\ \A t \in truth : end + Gap <= t.start \/ t.end <= end
    /\ run # None => end + Gap <= run.start \/ end = run.until

Ends(table) == {r.end : r \in table}
Closes == Ends(rows) \cup Ends(disk.rows) \cup pend \cup ({dps.end, seen.end} \ {None})

Spacing ==
    /\ \A end \in Closes : Spaced(end)
    /\ \A end \in pend : now <= end + Grace
    /\ run # None => rest <= run.start /\ dps.end = run.until
    /\ run = None => \A t \in truth : t.start = dps.start => t.end = dps.end

(* A run is in a table with its bounds.                                    *)
Whole(table, t) == \E r \in table : r.start = t.start /\ r.end = t.end

(* A row that starts with an undisturbed run has its close, once it has    *)
(* closed.                                                                 *)
Exactly(start, end) ==
    /\ \A t \in truth : (t.start = start /\ t.start \notin disturbed) => t.end = end
    /\ (run # None /\ run.start = start) => run.start \in disturbed

Exact(table) == \A r \in table : Exactly(r.start, r.end)

(* Until the listeners are armed, the start of a run that is no longer the *)
(* last one is shown of a disturbed run only.                              *)
Unarmed == (~armed /\ seen.start \notin {None, dps.start}) => seen.start \in disturbed

(* While an undisturbed run goes on, the sensors show its bounds and its   *)
(* scheduled close is waited for.                                          *)
Follows ==
    (run # None /\ armed /\ run.start \notin disturbed) =>
        /\ run.start < now => seen.start = dps.start /\ seen.end = dps.end
        /\ seen.end = dps.end => run.until \in pend

(* The close of the last run has just been reported, or was scheduled.     *)
Awaited(t) ==
    /\ run = None /\ t.start = dps.start /\ seen.start = dps.start
    /\ \/ t.end = now /\ seen.end # dps.end
       \/ t.end \in pend /\ rest = t.end + Gap

(* A closed run is in the table or awaited; the last one may still be      *)
(* replayed from the sensors, the others are in what is on the disk.       *)
Kept ==
    \A t \in truth : t.start \notin disturbed =>
        /\ armed => Whole(rows, t) \/ Awaited(t)
        /\ (up /\ t.start # dps.start) => Whole(rows, t)
        /\ (~up /\ t.start # dps.start) => Whole(disk.rows, t)

(* What a stop drops is not taken up before the start.                     *)
Down ==
    /\ ~up => saveDue = None
    /\ ~armed => pend = {}

Books ==
    Spacing /\ Exact(rows) /\ Exact(disk.rows) /\ Unarmed /\ Follows /\ Kept /\ Down

LEMMA BookTypes ==
    ASSUME Sound
    PROVE  /\ rest \in Nat /\ Gap \in Nat /\ Grace \in Nat /\ 1 <= Grace /\ Slack \in Nat
           /\ pend \subseteq Nat /\ Closes \subseteq Nat
           /\ rows \subseteq Row /\ disk.rows \subseteq Row
<1>1. /\ rest \in Nat /\ Gap \in Nat /\ Grace \in Nat /\ 1 <= Grace /\ Slack \in Nat
      /\ pend \subseteq Time /\ Time \subseteq Nat
      /\ rows \subseteq Row /\ disk.rows \subseteq Row
  BY ThresholdsAssumption, TimeFacts DEF Sound, TypeOK
<1> QED
  BY <1>1, SoundTypes DEF Closes, Ends

-----------------------------------------------------------------------------
(* What an action inside Home Assistant writes into the table              *)

(* The pairs of a start and a close that become a run.                     *)
Written(start, end) ==
    /\ PairsUp(start, end) /\ end <= now
    /\ \/ /\ armed /\ end = dps.end /\ seen.end # dps.end
          /\ \/ start = seen.start
             \/ start = acc.first /\ ~PairsUp(seen.start, end)
             \/ \E t \in truth : t.start = start /\ t.end = end
       \/ /\ end \in pend /\ end + Grace <= now /\ start = seen.start
          /\ Near(rows, end, Slack) = {}
       \/ Arm /\ end = seen.end /\ start = seen.start

SameSpans(new, old) ==
    /\ \A r \in new : \E q \in old : r.start = q.start /\ r.end = q.end
    /\ \A q \in old : \E r \in new : r.start = q.start /\ r.end = q.end

(* A table that gets a run, or only liters.                                *)
Grows(new, old) ==
    \/ SameSpans(new, old)
    \/ \E start \in Time, end \in Time, liters \in Liters \cup {None} :
          Written(start, end) /\ new = AddRun(old, start, end, liters)

LEMMA RecordEndWrites ==
    ASSUME Sound, NEW start \in Time \cup {None}, NEW end \in Time \cup {None},
           RecordEnd(start, end), Written(start, end)
    PROVE  Grows(rows', rows)
<1> DEFINE taken == RunLiters(perCycle, acc)
<1>1. start \in Time /\ end \in Time
  BY DEF PairsUp, Written
<1>2. taken[1] \in Liters \cup {None}
  BY DEF RunLiters, Sane, Liters, Sound, TypeOK, Accumulator, Shown
<1>3. rows' = AddRun(rows, start, end, taken[1])
  BY DEF RecordEnd
<1> HIDE DEF taken
<1> QED
  BY <1>1, <1>2, <1>3 DEF Grows

LEMMA Unchanging == ASSUME NEW table PROVE SameSpans(table, table) /\ Grows(table, table)
BY DEF SameSpans, Grows

(* What an action inside Home Assistant does to the table and to the       *)
(* accumulator.                                                            *)
LEMMA InsideWrites ==
    ASSUME Sound, OldValve, dps.counter = None, Awake, Inside
    PROVE  \/ UNCHANGED <<rows, acc, perCycle, up>>
           \/ /\ armed /\ Deliver("end") /\ dps.end > now /\ acc' = Emptied(acc)
              /\ UNCHANGED <<rows, perCycle, up>>
           \/ /\ \E start \in Time, end \in Time : Written(start, end) /\ RecordEnd(start, end)
              /\ UNCHANGED <<perCycle, up>>
           \/ armed /\ Deliver("volume") /\ OnVolume(dps.volume) /\ UNCHANGED up
           \/ \E graceful \in BOOLEAN : Stop(graceful)
           \/ Boot
<1>1. /\ seen.start \in Time \cup {None} /\ seen.end \in Time \cup {None}
      /\ dps.end \in Time \cup {None} /\ acc.first \in Time \cup {None}
      /\ pend \subseteq Time /\ Time \subseteq Nat /\ None \notin Nat
      /\ Grace \in Nat /\ now \in Nat
  BY TimeFacts, ThresholdsAssumption DEF Sound, TypeOK, Shown, Reports, Accumulator
<1>2. ASSUME NEW sensor \in Sensors, Deliver(sensor), ~UNCHANGED <<rows, acc, perCycle, up>>,
             ~(armed /\ Deliver("volume") /\ OnVolume(dps.volume) /\ UNCHANGED up)
      PROVE  \/ /\ armed /\ Deliver("end") /\ dps.end > now /\ acc' = Emptied(acc)
                /\ UNCHANGED <<rows, perCycle, up>>
             \/ /\ \E start \in Time, end \in Time : Written(start, end) /\ RecordEnd(start, end)
                /\ UNCHANGED <<perCycle, up>>
  <2>1. sensor # "counter"
    BY <1>2 DEF Deliver, Sound, Heard
  <2>2. armed /\ sensor = "end" /\ OnEnd(dps.end) /\ UNCHANGED <<perCycle, up>>
    BY <1>2, <2>1 DEF Deliver
  <2>3. dps.end # None /\ dps.end \in Nat /\ dps.end \in Time /\ seen.end # dps.end
    BY <1>1, <1>2, <2>2, SoundTypes DEF Deliver, Sound, Heard
  <2>4. CASE dps.end > now
    BY <1>2, <2>2, <2>4 DEF OnEnd, PreReport
  <2>5. CASE ~(dps.end > now)
    <3>1. dps.end <= now /\ ~UNCHANGED <<rows, acc>>
      BY <1>1, <1>2, <2>2, <2>3, <2>5
    <3>2. CASE PairsUp(seen.start, dps.end)
      <4>1. Written(seen.start, dps.end) /\ seen.start \in Time
        BY <1>1, <2>2, <2>3, <3>1, <3>2 DEF Written, PairsUp
      <4>2. RecordEnd(seen.start, dps.end)
        BY <2>2, <2>5, <3>2 DEF OnEnd
      <4> QED
        BY <2>2, <2>3, <4>1, <4>2
    <3>3. CASE ~PairsUp(seen.start, dps.end)
      <4>1. PICK start \in UnpairedStarts(dps.end) :
                    PairsUp(start, dps.end) /\ RecordEnd(start, dps.end)
        BY <2>2, <2>5, <3>1, <3>3 DEF OnEnd
      <4>2. start \in Time
        BY <1>1, <4>1 DEF UnpairedStarts, Sound, TypeOK, Row, PairsUp
      <4>3. start = acc.first \/ \E t \in truth : t.start = start /\ t.end = dps.end
        BY <4>1 DEF UnpairedStarts
      <4>4. Written(start, dps.end)
        BY <2>2, <2>3, <3>1, <3>3, <4>1, <4>3 DEF Written
      <4> QED
        BY <2>2, <2>3, <4>1, <4>2, <4>4
    <3> QED
      BY <3>2, <3>3
  <2> QED
    BY <2>4, <2>5
<1>3. ASSUME NEW end \in pend, RecordScheduled(end), ~UNCHANGED <<rows, acc, perCycle, up>>
      PROVE  /\ \E start \in Time, close \in Time : Written(start, close) /\ RecordEnd(start, close)
             /\ UNCHANGED <<perCycle, up>>
  <2>1. /\ end \in Nat /\ end \in Time /\ end + Grace <= now /\ UNCHANGED <<perCycle, up>>
        /\ PairsUp(seen.start, end) /\ Near(rows, end, Slack) = {} /\ RecordEnd(seen.start, end)
    BY <1>1, <1>3 DEF RecordScheduled
  <2>2. end <= now /\ seen.start \in Time
    BY <1>1, <2>1 DEF PairsUp
  <2>3. Written(seen.start, end)
    BY <1>3, <2>1, <2>2 DEF Written
  <2> QED
    BY <2>1, <2>2, <2>3
<1>4. ASSUME Arm, ~UNCHANGED <<rows, acc, perCycle, up>>
      PROVE  /\ \E start \in Time, end \in Time : Written(start, end) /\ RecordEnd(start, end)
             /\ UNCHANGED <<perCycle, up>>
  <2>1. seen.counter = None
    BY DEF Sound, Heard, Sensors
  <2>2. /\ PairsUp(seen.start, seen.end) /\ seen.end <= now /\ RecordEnd(seen.start, seen.end)
        /\ UNCHANGED <<perCycle, up>>
    BY <1>4, <2>1 DEF Arm
  <2>3. Written(seen.start, seen.end) /\ seen.start \in Time /\ seen.end \in Time
    BY <1>1, <1>4, <2>2 DEF Written, PairsUp
  <2> QED
    BY <2>2, <2>3
<1>5. ~CloseIdle
  BY DEF CloseIdle, Awake
<1>6. CASE Rearm \/ Save
  BY <1>6 DEF Rearm, Save
<1> QED
  BY <1>2, <1>3, <1>4, <1>5, <1>6 DEF Inside

LEMMA InsideGrows ==
    ASSUME Sound, OldValve, dps.counter = None, Awake, OneRowPerBound(disk.rows), Down, Inside
    PROVE  \/ Grows(rows', rows) /\ UNCHANGED up
           \/ up /\ ~up' /\ rows' = {}
           \/ ~up /\ up' /\ ~armed' /\ SameSpans(rows', disk.rows)
<1>1. rows \subseteq Row /\ disk.rows \subseteq Row
  BY DEF Sound, TypeOK
<1>2. UNCHANGED rows => Grows(rows', rows)
  BY Unchanging
<1>3. ASSUME NEW start \in Time, NEW end \in Time, Written(start, end), RecordEnd(start, end)
      PROVE  Grows(rows', rows)
  BY <1>3, RecordEndWrites
<1>4. ASSUME OnVolume(dps.volume) PROVE Grows(rows', rows)
  <2>1. rows' \in {rows, LateReading(rows, dps.volume)}
    BY <1>4 DEF OnVolume
  <2>2. SameSpans(LateReading(rows, dps.volume), rows)
    BY <1>1, LateReadingSpans DEF SameSpans
  <2> QED
    BY <2>1, <2>2, Unchanging DEF Grows
<1>5. CASE \E graceful \in BOOLEAN : Stop(graceful)
  BY <1>5 DEF Stop
<1>6. CASE Boot
  BY <1>1, <1>6, DedupedSpans DEF Boot, SameSpans, Awake
<1> QED
  BY <1>2, <1>3, <1>4, <1>5, <1>6, InsideWrites

-----------------------------------------------------------------------------
(* The closes                                                              *)

LEMMA InsideSeesEnd ==
    ASSUME Sound, Inside
    PROVE  seen'.end \in {seen.end, dps.end, None}
<1>1. seen \in Shown /\ dps \in Reports
  BY DEF Sound, TypeOK
<1>2. ASSUME NEW sensor \in Sensors, Deliver(sensor)
      PROVE  seen'.end \in {seen.end, dps.end}
  <2>1. seen' = [seen EXCEPT ![sensor] = dps[sensor]]
    BY <1>2 DEF Deliver
  <2>2. CASE sensor = "end"
    BY <1>1, <2>1, <2>2 DEF Shown
  <2>3. CASE sensor # "end"
    BY <1>1, <2>1, <2>3 DEF Shown, Sensors
  <2> QED
    BY <2>2, <2>3
<1>3. ASSUME NEW graceful \in BOOLEAN, Stop(graceful) PROVE seen'.end = None
  BY <1>3 DEF Stop, Unknown
<1>4. CASE (\E end \in pend : RecordScheduled(end)) \/ CloseIdle \/ Arm \/ Rearm \/ Save \/ Boot
  BY <1>4 DEF RecordScheduled, CloseIdle, Arm, Rearm, Save, Boot
<1> QED
  BY <1>2, <1>3, <1>4 DEF Inside

(* A close is awaited from its report on, until its timer has run.         *)
LEMMA InsideAwaits ==
    ASSUME Sound, Inside
    PROVE  /\ \A end \in pend' : end \in pend \/ (end = dps.end /\ end > now)
           /\ \A end \in pend : end \in pend' \/ RecordScheduled(end) \/ ~up'
<1>1. ASSUME NEW sensor \in Sensors, Deliver(sensor)
      PROVE  pend' = pend \/ (up /\ pend' = pend \cup {dps.end} /\ dps.end > now)
  <2>1. ASSUME OnEnd(dps.end)
        PROVE  pend' = pend \/ (pend' = pend \cup {dps.end} /\ dps.end > now)
    BY <2>1 DEF OnEnd, PreReport
  <2> QED
    BY <1>1, <2>1 DEF Deliver
<1>2. ASSUME NEW end \in pend, RecordScheduled(end) PROVE pend' = pend \ {end}
  BY <1>2 DEF RecordScheduled
<1>3. ASSUME NEW graceful \in BOOLEAN, Stop(graceful) PROVE pend' = {} /\ ~up'
  BY <1>3 DEF Stop
<1>4. CASE CloseIdle \/ Arm \/ Rearm \/ Save \/ Boot
  BY <1>4 DEF CloseIdle, Arm, Rearm, Save, Boot
<1>5. CASE \E sensor \in Sensors : Deliver(sensor)
  BY <1>1, <1>5
<1>6. CASE \E end \in pend : RecordScheduled(end)
  BY <1>2, <1>6
<1> QED
  BY <1>3, <1>4, <1>5, <1>6 DEF Inside

LEMMA InsideDisk ==
    ASSUME Inside
    PROVE  /\ disk'.rows = disk.rows \/ disk'.rows = rows
           /\ up' => disk'.rows = disk.rows \/ Save
<1>1. ASSUME NEW graceful \in BOOLEAN, Stop(graceful) PROVE disk' \in {disk, Stored} /\ ~up'
  BY <1>1 DEF Stop
<1>2. CASE Save
  BY <1>2 DEF Save, Stored
<1>3. CASE \/ \E sensor \in Sensors : Deliver(sensor)
           \/ \E end \in pend : RecordScheduled(end)
           \/ CloseIdle \/ Arm \/ Rearm \/ Boot
  BY <1>3 DEF Deliver, RecordScheduled, CloseIdle, Arm, Rearm, Boot
<1> QED
  BY <1>1, <1>2, <1>3 DEF Inside, Stored

LEMMA GrowsEnds ==
    ASSUME Sound, Grows(rows', rows)
    PROVE  Ends(rows') \subseteq Closes
<1>1. rows \in SUBSET Row
  BY DEF Sound, TypeOK
<1>2. SUFFICES ASSUME NEW r \in rows' PROVE r.end \in Closes
  BY DEF Ends
<1>3. CASE SameSpans(rows', rows)
  BY <1>3 DEF SameSpans, Closes, Ends
<1>4. ASSUME NEW start \in Time, NEW end \in Time, NEW liters \in Liters \cup {None},
             Written(start, end), rows' = AddRun(rows, start, end, liters)
      PROVE  r.end \in Closes
  <2>1. end \in Closes
    BY <1>4 DEF Written, PairsUp, Closes
  <2>2. (\E q \in rows : r.end = q.end) \/ r.end = end
    BY <1>1, <1>4, AddRunSpans
  <2> QED
    BY <2>1, <2>2 DEF Closes, Ends
<1> QED
  BY <1>3, <1>4 DEF Grows

LEMMA InsideCloses ==
    ASSUME Sound, OldValve, dps.counter = None, Awake, OneRowPerBound(disk.rows), Down, Inside
    PROVE  Closes' \subseteq Closes
<1>1. Ends(rows') \subseteq Closes
  <2>1. CASE Grows(rows', rows)
    BY <2>1, GrowsEnds
  <2>2. CASE rows' = {}
    BY <2>2 DEF Ends
  <2>3. CASE SameSpans(rows', disk.rows)
    BY <2>3 DEF SameSpans, Ends, Closes
  <2> QED
    BY <2>1, <2>2, <2>3, InsideGrows
<1>2. Ends(disk'.rows) \subseteq Closes
  BY InsideDisk DEF Closes
<1>3. pend' \subseteq Closes
  <2>1. \A end \in pend' : end \in pend \/ (end = dps.end /\ end > now)
    BY InsideAwaits
  <2>2. pend' \subseteq Time
    BY NextSound DEF Inside, Next, Sound, TypeOK
  <2> QED
    BY <2>1, <2>2, TimeFacts DEF Closes
<1>4. {dps'.end, seen'.end} \ {None} \subseteq Closes
  BY InsideFrame, InsideSeesEnd DEF Closes
<1> QED
  BY <1>1, <1>2, <1>3, <1>4 DEF Closes, Ends

-----------------------------------------------------------------------------
(* Where the closes lie                                                    *)

LEMMA InsideSpacing ==
    ASSUME Sound, OldValve, dps.counter = None, Awake, OneRowPerBound(disk.rows), Down, Spacing,
           Inside
    PROVE  Spacing'
<1>1. UNCHANGED <<now, run, dps, truth, rest>>
  BY InsideFrame DEF Inside, outside, Deliver, RecordScheduled, CloseIdle, Arm, Rearm, Save, Stop, Boot
<1>2. \A end \in Closes' : Spaced(end)'
  BY <1>1, InsideCloses DEF Spacing, Spaced, Horizon
<1>3. \A end \in pend' : now <= end + Grace
  <2> SUFFICES ASSUME NEW end \in pend', end \notin pend PROVE now <= end + Grace
    BY DEF Spacing
  <2>1. end = dps.end /\ end > now /\ end \in Time
    BY InsideAwaits, NextSound DEF Inside, Next, Sound, TypeOK
  <2> QED
    BY <2>1, BookTypes, SoundTypes, TimeFacts
<1> QED
  BY <1>1, <1>2, <1>3 DEF Spacing

LEMMA StartRunSpacing ==
    ASSUME Sound, InOrder, OldValve, Spacing, NEW length \in Lengths, StartRun(length)
    PROVE  Spacing'
<1>1. /\ UNCHANGED <<now, truth, rest, seen, rows, disk, pend>> /\ run = None /\ rest <= now
      /\ run' # None /\ run'.start = now /\ run'.until = now + length
      /\ dps'.end = now + length
  <2>1. dps \in Reports
    BY DEF Sound, TypeOK
  <2>2. [start |-> now, until |-> now + length, liters |-> 0] # None
    <3>1. now \in Time /\ now + length \in Time
      BY ThresholdsAssumption DEF StartRun, Sound, TypeOK, Time
    <3> QED
      BY <3>1, NoneAssumption DEF Running
  <2> QED
    BY <2>1, <2>2 DEF StartRun, Reports, memory
<1>2. length \in Nat /\ 1 <= length /\ length <= MaxRun
  BY ThresholdsAssumption
<1>3. Closes' \subseteq Closes \cup {now + length}
  BY <1>1 DEF Closes, Ends
<1>4. ASSUME NEW end \in Closes PROVE Spaced(end)'
  <2>1. end \in Nat /\ end <= rest - Gap /\ rest \in Nat /\ Gap \in Nat
    BY <1>1, <1>4, BookTypes DEF Spacing, Spaced, Horizon
  <2>2. end + Gap <= now /\ end <= now + length
    BY <1>1, <1>2, <2>1, SoundTypes
  <2> QED
    BY <1>1, <1>4, <2>2 DEF Spacing, Spaced, Horizon
<1>5. Spaced(now + length)'
  <2>1. \A t \in truth : t.end <= now + length
    BY <1>2, SoundTypes DEF InOrder
  <2>2. now + length <= now + length
    BY <1>2, SoundTypes
  <2> QED
    BY <1>1, <2>1, <2>2 DEF Spaced, Horizon
<1> QED
  BY <1>1, <1>3, <1>4, <1>5 DEF Spacing

LEMMA CloseRunSpacing ==
    ASSUME Sound, InOrder, OldValve, Spacing, CloseRun
    PROVE  Spacing'
<1> DEFINE t == [start |-> run.start, end |-> now, liters |-> run.liters]
<1>1. /\ UNCHANGED <<now, seen, rows, disk, pend>> /\ run' = None /\ run # None /\ run.start < now
      /\ rest' = run.until + Gap
      /\ truth' = truth \cup {t} /\ dps'.start = dps.start /\ dps'.end = now
  <2>1. dps \in Reports
    BY DEF Sound, TypeOK
  <2> QED
    BY <2>1 DEF CloseRun, Reports, memory
<1>2. t.start = run.start /\ t.end = now
  OBVIOUS
<1> HIDE DEF t
<1>3. /\ dps.start = run.start /\ \A q \in truth : q.end <= run.start /\ q.end <= now /\ q.start < q.end
      /\ now <= run.until /\ run.until \in Nat
  BY <1>1, SoundTypes DEF InOrder, Sound, OnSchedule
<1>4. Horizon' = run.until /\ Horizon = run.until
  <2>1. run.until + Gap - Gap = run.until
    BY <1>3, BookTypes
  <2> QED
    BY <1>1, <1>3, <2>1, BookTypes DEF Horizon
<1>5. Closes' \subseteq Closes \cup {now}
  BY <1>1 DEF Closes, Ends
<1>6. ASSUME NEW end \in Closes PROVE Spaced(end)'
  <2>1. end <= run.until /\ (end + Gap <= run.start \/ end = run.until)
    BY <1>1, <1>4, <1>6 DEF Spacing, Spaced
  <2>2. end + Gap <= t.start \/ t.end <= end
    BY <1>2, <1>3, <2>1
  <2> QED
    BY <1>1, <1>4, <1>6, <2>1, <2>2 DEF Spacing, Spaced
<1>7. Spaced(now)'
  BY <1>1, <1>2, <1>3, <1>4, SoundTypes DEF Spaced
<1>8. \A q \in truth' : q.start = dps'.start => q.end = dps'.end
  BY <1>1, <1>2, <1>3, SoundTypes
<1> QED
  BY <1>1, <1>5, <1>6, <1>7, <1>8 DEF Spacing

LEMMA TickFrame ==
    ASSUME Sound, Tick
    PROVE  /\ UNCHANGED <<truth, rest, seen, rows, disk, pend, up, armed, acc, saveDue>>
           /\ now' = now + 1 /\ dps'.start = dps.start /\ dps'.end = dps.end
           /\ run = None => run' = None
           /\ run # None => run' # None /\ run'.start = run.start /\ run'.until = run.until
<1>1. dps \in Reports /\ run \in Running \cup {None} /\ run' \in Running \cup {None}
  BY TickSound DEF Sound, TypeOK
<1>2. PICK liters \in Flow :
          /\ dps' = [dps EXCEPT !.volume = @ + liters]
          /\ run' = IF run = None THEN None ELSE [run EXCEPT !.liters = @ + liters]
  BY DEF Tick
<1>3. ASSUME run # None PROVE run' # None /\ run'.start = run.start /\ run'.until = run.until
  <2>1. run \in Running
    BY <1>1, <1>3
  <2>2. run.liters + liters \in Nat
    BY <2>1 DEF Running, Flow
  <2>3. run' \in Running /\ run'.start = run.start /\ run'.until = run.until
    BY <1>2, <1>3, <2>1, <2>2 DEF Running
  <2> QED
    BY <2>3, NoneAssumption
<1>4. dps'.start = dps.start /\ dps'.end = dps.end
  BY <1>1, <1>2 DEF Reports
<1> QED
  BY <1>2, <1>3, <1>4 DEF Tick, memory

LEMMA TickSpacing ==
    ASSUME Sound, Spacing, Tick
    PROVE  Spacing'
<1>1. Closes' = Closes
  BY TickFrame DEF Closes, Ends
<1>2. \A end : Spaced(end) => Spaced(end)'
  BY TickFrame DEF Spaced, Horizon
<1>3. \A end \in pend : now + 1 <= end + Grace
  <2>1. \A end \in pend : now < end + Grace
    BY DEF Tick, TimersDone
  <2> QED
    BY <2>1, BookTypes, SoundTypes
<1> QED
  BY <1>1, <1>2, <1>3, TickFrame DEF Spacing

-----------------------------------------------------------------------------
(* The close of a row                                                      *)

LEMMA LastOfTruth ==
    ASSUME Sound, InOrder, Spacing, NEW t \in truth, t.start = dps.start
    PROVE  run = None /\ t.end = dps.end
<1>1. run = None
  BY SoundTypes DEF InOrder
<1> QED
  BY <1>1 DEF Spacing

(* A row that is added for a run that came in time has its close.          *)
LEMMA WrittenExact ==
    ASSUME Sound, Chronicle, Books, Inside, NEW start \in Time, NEW end \in Time,
           Written(start, end), \A q \in rows : q.start = start => end < q.end
    PROVE  Exactly(start, end)'
<1>1. /\ InOrder /\ LateStart /\ NoStart /\ Awake /\ Spacing /\ Unarmed /\ Follows /\ Kept /\ Down
      /\ UNCHANGED <<run, truth>> /\ disturbed \subseteq disturbed'
  BY InsideFrame, DisturbedGrows DEF Books, Chronicle, Inside, Next
<1>2. start \in Nat /\ end \in Nat /\ start < end /\ end <= now
  BY TimeFacts DEF Written, PairsUp
<1>3. SUFFICES /\ \A t \in truth : (t.start = start /\ t.start \notin disturbed') => t.end = end
               /\ (run # None /\ run.start = start) => run.start \in disturbed'
  BY <1>1 DEF Exactly
<1>4. CASE armed /\ end = dps.end /\ seen.end # dps.end /\ start = seen.start
  <2>1. ASSUME NEW t \in truth, t.start = start, t.start \notin disturbed PROVE t.end = end
    <3>1. seen.start # None
      BY <1>2, <1>4, SoundTypes
    <3>2. seen.start = dps.start
      BY <1>1, <1>2, <1>4, <2>1, <3>1, SoundTypes DEF LateStart, InOrder
    <3> QED
      BY <1>1, <1>4, <2>1, <3>2, LastOfTruth
  <2>2. ASSUME run # None, run.start = start PROVE run.start \in disturbed
    <3>1. run.start < now
      BY <1>2, <2>2, SoundTypes
    <3> QED
      BY <1>1, <1>4, <2>2, <3>1 DEF Follows
  <2> QED
    BY <1>1, <2>1, <2>2
<1>5. CASE armed /\ end = dps.end /\ start = acc.first /\ ~PairsUp(seen.start, end)
  <2>1. /\ \A t \in truth : acc.first < t.end => t.start \in disturbed
        /\ (run # None /\ run.start < dps.end) => run.start \in disturbed
    <3>1. dps.end # None /\ PairsUp(acc.first, dps.end)
      BY <1>2, <1>5, SoundTypes DEF Written
    <3> QED
      BY <1>2, <1>5, <3>1, RiseDisturbed
  <2>2. \A t \in truth : t.start = start => start < t.end
    BY <1>1 DEF InOrder
  <2> QED
    BY <1>1, <1>2, <1>5, <2>1, <2>2
<1>6. ASSUME NEW t \in truth, t.start = start, t.end = end
      PROVE  /\ \A q \in truth : q.start = start => q.end = end
             /\ ~(run # None /\ run.start = start)
  <2>1. \A q \in truth : q.start = start => Meets(t, q)
    BY <1>1, <1>2, <1>6, SoundTypes DEF InOrder, Meets
  <2>2. \A q \in truth : q.start = start => q = t
    BY <1>1, <2>1 DEF InOrder
  <2>3. ~(run # None /\ run.start = start)
    BY <1>1, <1>2, <1>6, SoundTypes DEF InOrder
  <2> QED
    BY <1>6, <2>2, <2>3
<1>7. CASE end \in pend /\ end + Grace <= now /\ start = seen.start
  <2>1. /\ end <= Horizon /\ armed
        /\ \A t \in truth : end + Gap <= t.start \/ t.end <= end
        /\ run # None => end + Gap <= run.start \/ end = run.until
    BY <1>1, <1>7 DEF Spacing, Spaced, Closes, Down
  <2>2. Gap \in Nat /\ Grace \in Nat /\ 1 <= Grace /\ rest \in Nat /\ now \in Nat
    BY BookTypes, SoundTypes
  <2>3. ASSUME NEW t \in truth, t.start = start, t.start \notin disturbed PROVE t.end = end
    <3>1. t.end \in Nat /\ t.end <= end
      BY <1>2, <2>1, <2>2, <2>3, SoundTypes
    <3>2. CASE Whole(rows, t)
      BY <1>2, <2>3, <3>1, <3>2 DEF Whole
    <3>3. CASE Awaited(t)
      <4>1. t.end # now /\ run = None
        BY <1>2, <1>7, <2>2, <3>1, <3>3 DEF Awaited
      <4>2. rest = t.end + Gap
        BY <3>3, <4>1 DEF Awaited
      <4> QED
        BY <1>2, <2>1, <2>2, <3>1, <4>1, <4>2 DEF Horizon
    <3> QED
      BY <1>1, <2>1, <2>3, <3>2, <3>3 DEF Kept
  <2>4. ASSUME run # None, run.start = start PROVE FALSE
    <3>1. run.until \in Nat /\ now <= run.until
      BY <2>4, SoundTypes DEF Sound, OnSchedule
    <3> QED
      BY <1>2, <1>7, <2>1, <2>2, <2>4, <3>1
  <2> QED
    BY <1>1, <2>3, <2>4
<1>8. CASE Arm /\ end = seen.end /\ start = seen.start
  <2>1. /\ ~armed /\ disturbed' = disturbed \cup If(run # None \/ ~AllSeen, Latest)
    BY <1>8 DEF Arm, Disturb
  <2>2. run # None => run.start \in disturbed'
    BY <2>1 DEF If, Latest
  <2>3. ASSUME NEW t \in truth, t.start = start, t.start \notin disturbed' PROVE t.end = end
    <3>1. seen.start # None /\ seen.start = dps.start
      BY <1>1, <1>2, <1>8, <2>1, <2>3, SoundTypes DEF Unarmed
    <3>2. t.end = dps.end
      BY <1>1, <1>8, <2>3, <3>1, LastOfTruth
    <3>3. AllSeen
      <4>1. dps.start \in Latest
        BY <1>1, <3>1, LatestReported
      <4> QED
        BY <1>8, <2>1, <2>3, <3>1, <4>1 DEF If
    <3> QED
      BY <1>8, <3>2, <3>3 DEF AllSeen
  <2> QED
    BY <2>2, <2>3
<1>9. \/ armed /\ end = dps.end /\ seen.end # dps.end /\ start = seen.start
      \/ armed /\ end = dps.end /\ start = acc.first /\ ~PairsUp(seen.start, end)
      \/ \E t \in truth : t.start = start /\ t.end = end
      \/ end \in pend /\ end + Grace <= now /\ start = seen.start
      \/ Arm /\ end = seen.end /\ start = seen.start
  BY DEF Written
<1> QED
  BY <1>4, <1>5, <1>6, <1>7, <1>8, <1>9

LEMMA InsideExact ==
    ASSUME Sound, OldValve, Bounds, Chronicle, Books, Inside
    PROVE  Exact(rows)' /\ Exact(disk.rows)'
<1>1. /\ UNCHANGED <<run, truth>> /\ disturbed \subseteq disturbed' /\ Awake /\ Down
      /\ dps.counter = None /\ OneRowPerBound(rows) /\ OneRowPerBound(disk.rows)
      /\ Exact(rows) /\ Exact(disk.rows)
      /\ rows \subseteq Row /\ disk.rows \subseteq Row
  BY InsideFrame, DisturbedGrows DEF Books, Chronicle, Inside, Next, Bounds, Sound, TypeOK
<1>2. ASSUME NEW start, NEW end, Exactly(start, end) PROVE Exactly(start, end)'
  BY <1>1, <1>2 DEF Exactly
<1>3. ASSUME NEW old, NEW new, SameSpans(new, old), \A r \in old : Exactly(r.start, r.end)
      PROVE  \A r \in new : Exactly(r.start, r.end)'
  BY <1>2, <1>3 DEF SameSpans
<1>4. ASSUME Grows(rows', rows), NEW r \in rows' PROVE Exactly(r.start, r.end)'
  <2>1. CASE SameSpans(rows', rows)
    BY <1>1, <1>3, <1>4, <2>1 DEF Exact
  <2>2. ASSUME NEW start \in Time, NEW end \in Time, NEW liters \in Liters \cup {None},
               Written(start, end), rows' = AddRun(rows, start, end, liters)
        PROVE  Exactly(r.start, r.end)'
    <3>1. CASE \E q \in rows : r.start = q.start /\ r.end = q.end
      BY <1>1, <1>2, <3>1 DEF Exact
    <3>2. CASE r.start = start /\ r.end = end /\ \A q \in rows : q.start = start => end < q.end
      BY <2>2, <3>2, WrittenExact
    <3> QED
      BY <1>1, <1>4, <2>2, <3>1, <3>2, AddRunNew
  <2> QED
    BY <1>4, <2>1, <2>2 DEF Grows
<1>5. \A r \in rows' : Exactly(r.start, r.end)'
  <2>1. CASE SameSpans(rows', disk.rows)
    BY <1>1, <1>3, <2>1 DEF Exact
  <2> QED
    BY <1>1, <1>4, <2>1, InsideGrows
<1>6. \A r \in disk'.rows : Exactly(r.start, r.end)'
  BY <1>1, <1>2, InsideDisk DEF Exact
<1> QED
  BY <1>5, <1>6 DEF Exact

LEMMA OutsideExact ==
    ASSUME Sound, OldValve, Courses, Books,
           (\E length \in Lengths : StartRun(length)) \/ CloseRun \/ Tick
    PROVE  Exact(rows)' /\ Exact(disk.rows)'
<1>1. /\ UNCHANGED <<rows, disk>> /\ disturbed \subseteq disturbed' /\ Exact(rows) /\ Exact(disk.rows)
  BY DEF StartRun, CloseRun, Tick, memory, Disturb, Books
<1>2. SUFFICES ASSUME NEW r \in rows \cup disk.rows PROVE Exactly(r.start, r.end)'
  BY <1>1 DEF Exact
<1>3. Exactly(r.start, r.end) /\ r.start \in Nat /\ r.end \in Nat /\ r.start < now
  <2>1. r.end <= now /\ r.start < r.end
    BY DEF Courses, OwnStarts, Rightly, Sound, AllGood, GoodRows
  <2> QED
    BY <1>1, <2>1, SoundTypes DEF Exact
<1>4. CASE \E length \in Lengths : StartRun(length)
  <2>1. PICK length \in Lengths : run' = [start |-> now, until |-> now + length, liters |-> 0]
    BY <1>4 DEF StartRun
  <2>2. run'.start = now /\ now # r.start
    BY <1>3, <2>1, SoundTypes
  <2>3. UNCHANGED truth
    BY <1>4 DEF StartRun
  <2> QED
    BY <1>1, <1>3, <2>2, <2>3 DEF Exactly
<1>5. CASE CloseRun
  <2> DEFINE t == [start |-> run.start, end |-> now, liters |-> run.liters]
  <2>1. /\ run # None /\ run' = None /\ truth' = truth \cup {t} /\ UNCHANGED disturbed
    BY <1>5 DEF CloseRun
  <2>2. t.start = run.start
    OBVIOUS
  <2> HIDE DEF t
  <2> QED
    BY <1>3, <2>1, <2>2 DEF Exactly
<1>6. CASE Tick
  BY <1>1, <1>3, <1>6, TickFrame DEF Exactly
<1> QED
  BY <1>4, <1>5, <1>6

-----------------------------------------------------------------------------
(* A run stays in the table                                                *)

LEMMA GrowsWhole ==
    ASSUME Sound, Spacing, Grows(rows', rows), NEW t \in truth, Whole(rows, t)
    PROVE  Whole(rows', t)
<1>1. PICK q \in rows : q.start = t.start /\ q.end = t.end
  BY DEF Whole
<1>2. CASE SameSpans(rows', rows)
  BY <1>1, <1>2 DEF SameSpans, Whole
<1>3. ASSUME NEW start \in Time, NEW end \in Time, NEW liters \in Liters \cup {None},
             Written(start, end), rows' = AddRun(rows, start, end, liters)
      PROVE  Whole(rows', t)
  <2>1. end \in Closes /\ start < end
    BY <1>3 DEF Written, PairsUp, Closes
  <2>2. end + Gap <= t.start \/ t.end <= end
    BY <2>1 DEF Spacing, Spaced
  <2>3. ~(q.start = start /\ end < q.end)
    BY <1>1, <2>1, <2>2, BookTypes, SoundTypes, TimeFacts
  <2>4. rows \in SUBSET Row
    BY DEF Sound, TypeOK
  <2> QED
    BY <1>1, <1>3, <2>3, <2>4, AddRunKeeps DEF Whole
<1> QED
  BY <1>2, <1>3 DEF Grows

(* A row that ends with an undisturbed run is of that run.                 *)
LEMMA SameEnd ==
    ASSUME Sound, InOrder, OwnStarts(rows), NEW t \in truth, t.start \notin disturbed,
           NEW r \in rows, r.end = t.end
    PROVE  Whole(rows, t)
<1>1. r.start < r.end /\ t.start < t.end
  BY DEF Sound, AllGood, GoodRows, InOrder
<1>2. r.start = t.start
  BY <1>1 DEF OwnStarts, Rightly
<1> QED
  BY <1>2 DEF Whole

(* Recording an undisturbed run with its own bounds puts it in the table.  *)
LEMMA RecordEndWhole ==
    ASSUME Sound, InOrder, OwnStarts(rows), Exact(rows), NEW t \in truth,
           t.start \notin disturbed, RecordEnd(t.start, t.end)
    PROVE  Whole(rows', t)
<1> DEFINE taken == RunLiters(perCycle, acc)
<1>1. t.start \in Time /\ t.end \in Time /\ rows \in SUBSET Row /\ t.start < t.end
  BY DEF Sound, TypeOK, Row, InOrder
<1>2. taken[1] \in Liters \cup {None}
  BY DEF RunLiters, Sane, Liters, Sound, TypeOK, Accumulator, Shown
<1>3. rows' = AddRun(rows, t.start, t.end, taken[1])
  BY DEF RecordEnd
<1> HIDE DEF taken
<1>4. CASE Whole(rows, t)
  <2>1. PICK q \in rows : q.start = t.start /\ q.end = t.end
    BY <1>4 DEF Whole
  <2>2. ~(t.end < q.end)
    BY <2>1, SoundTypes
  <2> QED
    BY <1>1, <1>2, <1>3, <2>1, <2>2, AddRunKeeps DEF Whole
<1>5. CASE ~Whole(rows, t)
  <2>1. \A r \in rows : r.start # t.start /\ r.end # t.end
    BY <1>5, SameEnd DEF Exact, Exactly, Whole
  <2> QED
    BY <1>1, <1>2, <1>3, <2>1, AddRunAdds DEF Whole
<1> QED
  BY <1>4, <1>5

-----------------------------------------------------------------------------
(* What the sensors and the timers hold of the last run                    *)

LEMMA InsideDown ==
    ASSUME Sound, Awake, Down, Inside
    PROVE  /\ Down'
           /\ ~up /\ ~up' => disk' = disk
           /\ armed /\ ~armed' => ~up'
           /\ ~armed /\ armed' => Arm
<1>1. ASSUME NEW sensor \in Sensors, Deliver(sensor)
      PROVE  up /\ UNCHANGED <<up, armed, disk>> /\ (~armed => UNCHANGED pend)
  BY <1>1 DEF Deliver
<1>2. ASSUME NEW end \in pend, RecordScheduled(end)
      PROVE  up /\ armed /\ UNCHANGED <<up, armed, disk>>
  BY <1>2 DEF RecordScheduled, Down, Awake
<1>3. ~CloseIdle
  BY DEF CloseIdle, Awake
<1>4. CASE Arm \/ Rearm \/ Boot
  BY <1>4, <1>3 DEF Arm, Rearm, Boot, Down, Awake
<1>5. CASE Save
  BY <1>5 DEF Save, Down, Awake
<1>6. CASE \E graceful \in BOOLEAN : Stop(graceful)
  BY <1>6 DEF Stop, Down
<1>7. CASE (\E sensor \in Sensors : Deliver(sensor)) \/ \E end \in pend : RecordScheduled(end)
  BY <1>1, <1>2, <1>7 DEF Down
<1> QED
  BY <1>3, <1>4, <1>5, <1>6, <1>7 DEF Inside

LEMMA OutsideDown ==
    ASSUME Down, (\E length \in Lengths : StartRun(length)) \/ CloseRun \/ Tick
    PROVE  Down'
<1>1. UNCHANGED <<up, armed, saveDue, pend>>
  BY DEF StartRun, CloseRun, Tick, memory
<1> QED
  BY <1>1 DEF Down

LEMMA InsideUnarmed ==
    ASSUME Sound, OldValve, Awake, Down, Unarmed, Inside
    PROVE  Unarmed'
<1>1. /\ UNCHANGED dps /\ disturbed \subseteq disturbed'
      /\ seen'.start \in {seen.start, dps.start, None}
  BY InsideFrame, InsideShows, DisturbedGrows DEF Inside, Next
<1>2. armed /\ ~armed' => seen'.start = None
  BY InsideDown, InsideAwake DEF Awake
<1> QED
  BY <1>1, <1>2 DEF Unarmed

LEMMA OutsideUnarmed ==
    ASSUME Sound, OldValve, InOrder, Unarmed,
           (\E length \in Lengths : StartRun(length)) \/ CloseRun \/ Tick
    PROVE  Unarmed'
<1>1. UNCHANGED <<seen, armed>> /\ disturbed \subseteq disturbed'
  BY DEF StartRun, CloseRun, Tick, Disturb
<1>2. CASE \E length \in Lengths : StartRun(length)
  <2>1. ASSUME ~armed, dps.start # None PROVE dps.start \in disturbed'
    <3>1. dps.start \in Latest
      BY <2>1, LatestReported
    <3> QED
      BY <1>2, <2>1, <3>1 DEF StartRun, Disturb, If
  <2> QED
    BY <1>1, <2>1 DEF Unarmed
<1>3. CASE CloseRun
  <2>1. dps'.start = dps.start
    BY <1>3 DEF CloseRun, Sound, TypeOK, Reports
  <2> QED
    BY <1>1, <2>1 DEF Unarmed
<1>4. CASE Tick
  BY <1>1, <1>4, TickFrame DEF Unarmed
<1> QED
  BY <1>2, <1>3, <1>4

(* The close is heard when it is delivered, and forgotten by a stop only.  *)
LEMMA InsideHearsEnd ==
    ASSUME Sound, Inside, up', seen'.end # seen.end
    PROVE  Deliver("end") /\ seen'.end = dps.end
<1>1. seen \in Shown /\ dps \in Reports
  BY DEF Sound, TypeOK
<1>2. ASSUME NEW sensor \in Sensors, Deliver(sensor)
      PROVE  sensor = "end" /\ seen'.end = dps.end
  <2>1. seen' = [seen EXCEPT ![sensor] = dps[sensor]]
    BY <1>2 DEF Deliver
  <2>2. CASE sensor = "end"
    BY <1>1, <2>1, <2>2 DEF Shown
  <2>3. CASE sensor # "end"
    BY <1>1, <2>1, <2>3 DEF Shown, Sensors
  <2> QED
    BY <2>2, <2>3
<1>3. ASSUME NEW graceful \in BOOLEAN, Stop(graceful) PROVE FALSE
  BY <1>3 DEF Stop
<1>4. CASE (\E end \in pend : RecordScheduled(end)) \/ CloseIdle \/ Arm \/ Rearm \/ Save \/ Boot
  BY <1>4 DEF RecordScheduled, CloseIdle, Arm, Rearm, Save, Boot
<1> QED
  BY <1>2, <1>3, <1>4 DEF Inside

LEMMA HearEnd == ASSUME Deliver("end"), armed PROVE OnEnd(dps.end)
BY DEF Deliver

LEMMA InsideFollows ==
    ASSUME Sound, OldValve, InOrder, Awake, Spacing, Down, Follows, Inside
    PROVE  Follows'
<1> SUFFICES ASSUME run' # None, armed', run'.start \notin disturbed'
             PROVE  /\ run'.start < now' => seen'.start = dps'.start /\ seen'.end = dps'.end
                    /\ seen'.end = dps'.end => run'.until \in pend'
  BY DEF Follows
<1>1. /\ UNCHANGED <<now, run, dps>> /\ disturbed \subseteq disturbed' /\ up'
  BY InsideFrame, DisturbedGrows, InsideAwake DEF Inside, Next, Awake
<1>2. armed
  <2>1. Arm => run.start \in disturbed'
    BY <1>1 DEF Arm, Disturb, If, Latest
  <2> QED
    BY <1>1, <2>1, InsideDown
<1>3. /\ run.start < now => seen.start = dps.start /\ seen.end = dps.end
      /\ seen.end = dps.end => run.until \in pend
  BY <1>1, <1>2 DEF Follows
<1>4. run.start < now => seen'.start = dps.start /\ seen'.end = dps.end
  <2>1. run.start < now => seen'.start = dps.start
    BY <1>1, <1>3, InsideShows, SoundTypes DEF InOrder
  <2> QED
    BY <1>1, <1>3, <2>1, InsideHearsEnd
<1>5. ASSUME seen'.end = dps.end PROVE run.until \in pend'
  <2>1. /\ run.start \in Nat /\ run.until \in Nat /\ now \in Nat /\ Grace \in Nat /\ 1 <= Grace
        /\ run.start <= now /\ now <= run.until /\ run.until - run.start <= MaxRun
        /\ dps.end = run.until /\ dps.start = run.start /\ dps.start < dps.end /\ MaxRun \in Nat
    BY <1>1, SoundTypes, BookTypes DEF Sound, OnSchedule, Spacing, InOrder
  <2>2. CASE seen.end = dps.end
    <3>1. ~(run.until + Grace <= now)
      BY <2>1
    <3>2. ~RecordScheduled(run.until)
      BY <3>1 DEF RecordScheduled
    <3> QED
      BY <1>1, <1>3, <2>2, <3>2, InsideAwaits
  <2>3. CASE seen.end # dps.end
    <3>1. OnEnd(dps.end)
      BY <1>1, <1>2, <1>5, <2>3, InsideHearsEnd, HearEnd
    <3>2. run.until > now
      BY <1>3, <2>1, <2>3
    <3>3. run.until - now <= MaxRun
      BY <2>1
    <3> QED
      BY <2>1, <3>1, <3>2, <3>3 DEF OnEnd, PreReport
  <2> QED
    BY <2>2, <2>3
<1> QED
  BY <1>1, <1>4, <1>5

LEMMA OutsideFollows ==
    ASSUME Sound, OldValve, InOrder, Awake, Spacing, Follows,
           (\E length \in Lengths : StartRun(length)) \/ CloseRun \/ Tick
    PROVE  Follows'
<1>1. ASSUME NEW length \in Lengths, StartRun(length) PROVE Follows'
  <2>1. PICK most \in Lengths : run' = [start |-> now, until |-> now + most, liters |-> 0]
    BY <1>1 DEF StartRun
  <2>2. /\ UNCHANGED <<now, seen>> /\ run = None /\ rest <= now /\ dps'.end = now + length
    BY <1>1 DEF StartRun, Sound, TypeOK, Reports
  <2>3. seen.end # now + length
    <3>1. length \in Nat /\ 1 <= length /\ now \in Nat /\ rest \in Nat /\ Gap \in Nat
      BY ThresholdsAssumption, SoundTypes, BookTypes
    <3>2. seen.end \in Closes => seen.end <= rest - Gap
      BY <2>2 DEF Spacing, Spaced, Horizon
    <3>3. seen.end # None => seen.end \in Closes
      BY DEF Closes
    <3> QED
      BY <2>2, <3>1, <3>2, <3>3, SoundTypes
  <2>4. run'.start = now /\ ~(now < now)
    BY <2>1, SoundTypes
  <2> QED
    BY <2>2, <2>3, <2>4 DEF Follows
<1>2. CASE CloseRun
  BY <1>2 DEF CloseRun, Follows
<1>3. CASE Tick
  <2> SUFFICES ASSUME run' # None, armed', run'.start \notin disturbed'
               PROVE  /\ seen'.start = dps'.start /\ seen'.end = dps'.end
                      /\ seen'.end = dps'.end => run'.until \in pend'
    BY DEF Follows
  <2>1. /\ run # None /\ armed /\ run'.start = run.start /\ run'.until = run.until
        /\ UNCHANGED <<seen, pend>> /\ dps'.start = dps.start /\ dps'.end = dps.end
    BY <1>3, TickFrame
  <2>2. AllSeen
    <3>1. ASSUME ~AllSeen PROVE run.start \in disturbed'
      BY <1>3, <2>1, <3>1 DEF Tick, Disturb, If, Latest, Awake
    <3> QED
      BY <2>1, <3>1
  <2>3. run.start \notin disturbed
    BY <1>3, <2>1 DEF Tick, Disturb
  <2> QED
    BY <2>1, <2>2, <2>3 DEF AllSeen, Follows
<1> QED
  BY <1>1, <1>2, <1>3

-----------------------------------------------------------------------------
(* A run that is awaited is recorded                                       *)

LEMMA AwaitedKept ==
    ASSUME LongRests, Sound, OldValve, InOrder, Awake, OwnStarts(rows), Exact(rows), Spacing,
           Down, Inside, armed, armed', NEW t \in truth, t.start \notin disturbed, Awaited(t)
    PROVE  Whole(rows', t) \/ Awaited(t)'
<1>1. /\ UNCHANGED <<now, run, dps, rest>> /\ up' /\ up
  BY InsideFrame, InsideAwake
  DEF Awake, Inside, outside, Deliver, RecordScheduled, CloseIdle, Arm, Rearm, Save, Stop, Boot
<1>2. /\ run = None /\ t.start = dps.start /\ seen.start = dps.start /\ t.end = dps.end
      /\ t.start \in Nat /\ t.end \in Nat /\ t.start < t.end /\ t.end <= now /\ now \in Nat
      /\ None \notin Nat
  BY LastOfTruth, SoundTypes DEF Awaited, InOrder
<1>3. PairsUp(t.start, t.end)
  BY <1>2, SoundTypes DEF PairsUp, InOrder
<1>4. seen'.start = dps.start
  BY <1>1, <1>2, InsideShows
<1>5. CASE t.end = now /\ seen.end # dps.end
  <2>1. CASE seen'.end # dps.end
    BY <1>1, <1>2, <1>4, <1>5, <2>1 DEF Awaited
  <2>2. CASE seen'.end = dps.end
    <3>1. OnEnd(dps.end)
      BY <1>1, <1>5, <2>2, InsideHearsEnd, HearEnd
    <3>2. RecordEnd(t.start, t.end)
      BY <1>2, <1>3, <3>1 DEF OnEnd
    <3> QED
      BY <3>2, RecordEndWhole
  <2> QED
    BY <2>1, <2>2
<1>6. CASE t.end \in pend /\ rest = t.end + Gap
  <2>1. CASE t.end \in pend'
    BY <1>1, <1>2, <1>4, <1>6, <2>1 DEF Awaited
  <2>2. CASE RecordScheduled(t.end)
    <3>1. CASE Near(rows, t.end, Slack) = {}
      <4>1. RecordEnd(t.start, t.end)
        BY <1>2, <1>3, <2>2, <3>1 DEF RecordScheduled
      <4> QED
        BY <4>1, RecordEndWhole
    <3>2. CASE Near(rows, t.end, Slack) # {}
      <4>1. PICK r \in rows : r.end >= t.end - Slack
        BY <3>2 DEF Near
      <4>2. Spaced(r.end)
        BY DEF Spacing, Closes, Ends
      <4>3. /\ r.end <= rest - Gap /\ (r.end + Gap <= t.start \/ t.end <= r.end)
        BY <1>2, <4>2 DEF Spaced, Horizon
      <4>4. r.end \in Nat /\ Gap \in Nat /\ Slack \in Nat /\ Slack <= Gap
        BY SoundTypes, BookTypes DEF LongRests
      <4>5. r.end = t.end
        BY <1>2, <1>6, <4>1, <4>3, <4>4
      <4>6. UNCHANGED rows
        BY <2>2, <3>2 DEF RecordScheduled
      <4> QED
        BY <4>5, <4>6, SameEnd
    <3> QED
      BY <3>1, <3>2
  <2> QED
    BY <1>1, <1>6, <2>1, <2>2, InsideAwaits
<1> QED
  BY <1>5, <1>6 DEF Awaited

(* The last run, replayed from the sensors.                                *)
LEMMA ArmKept ==
    ASSUME Sound, OldValve, InOrder, OwnStarts(rows), Exact(rows), Spacing, Arm,
           NEW t \in truth, t.start \notin disturbed', t.start = dps.start
    PROVE  Whole(rows', t)
<1>1. run = None /\ t.end = dps.end
  BY LastOfTruth
<1>2. /\ t.start \in Nat /\ t.end \in Nat /\ t.start < t.end /\ t.end <= now /\ None \notin Nat
      /\ PairsUp(t.start, t.end)
  BY <1>1, SoundTypes DEF InOrder, PairsUp
<1>3. disturbed' = disturbed \cup If(~AllSeen, Latest)
  BY <1>1 DEF Arm, Disturb
<1>4. AllSeen
  <2>1. dps.start \in Latest
    BY <1>2, LatestReported
  <2> QED
    BY <1>3, <2>1 DEF If
<1>5. RecordEnd(t.start, t.end)
  BY <1>1, <1>2, <1>4 DEF AllSeen, Arm
<1>6. t.start \notin disturbed
  BY <1>3
<1> QED
  BY <1>5, <1>6, RecordEndWhole

LEMMA InsideKept ==
    ASSUME LongRests, Sound, OldValve, Bounds, Chronicle, OwnStarts(rows), Books, Inside
    PROVE  Kept'
<1>1. /\ InOrder /\ Awake /\ Down /\ Spacing /\ Exact(rows) /\ Kept
      /\ dps.counter = None /\ OneRowPerBound(disk.rows)
      /\ UNCHANGED <<truth, dps>> /\ disturbed \subseteq disturbed'
  BY InsideFrame, DisturbedGrows DEF Books, Chronicle, Inside, Next, Bounds
<1>2. SUFFICES ASSUME NEW t \in truth, t.start \notin disturbed'
               PROVE  /\ armed' => Whole(rows', t) \/ Awaited(t)'
                      /\ (up' /\ t.start # dps.start) => Whole(rows', t)
                      /\ (~up' /\ t.start # dps.start) => Whole(disk'.rows, t)
  BY <1>1 DEF Kept, Whole
<1>3. /\ armed => Whole(rows, t) \/ Awaited(t)
      /\ (up /\ t.start # dps.start) => Whole(rows, t)
      /\ (~up /\ t.start # dps.start) => Whole(disk.rows, t)
  BY <1>1, <1>2 DEF Kept
<1>4. (Whole(rows, t) /\ up /\ up') => Whole(rows', t)
  BY <1>1, InsideGrows, GrowsWhole
<1>5. ASSUME up', t.start # dps.start PROVE Whole(rows', t)
  <2>1. CASE up
    BY <1>3, <1>4, <1>5, <2>1
  <2>2. CASE ~up
    <3>1. (Grows(rows', rows) /\ UNCHANGED up) \/ SameSpans(rows', disk.rows)
      BY <1>1, <1>5, InsideGrows
    <3> QED
      BY <1>3, <1>5, <2>2, <3>1 DEF SameSpans, Whole
  <2> QED
    BY <2>1, <2>2
<1>6. ASSUME ~up', t.start # dps.start PROVE Whole(disk'.rows, t)
  <2>1. CASE ~up
    BY <1>1, <1>3, <1>6, <2>1, InsideDown
  <2>2. CASE up
    <3>1. PICK r \in rows : r.start = t.start /\ r.end = t.end
      BY <1>3, <1>6, <2>2 DEF Whole
    <3>2. PICK graceful \in BOOLEAN : Stop(graceful)
      BY <1>6, <2>2 DEF Inside, Deliver, RecordScheduled, CloseIdle, Arm, Rearm, Save, Boot
    <3>3. disturbed' = disturbed \cup ({q.start : q \in rows \ disk'.rows} \ {dps.start})
      BY <3>2 DEF Stop, Disturb
    <3>4. r \in disk'.rows
      BY <1>2, <1>6, <3>1, <3>3
    <3> QED
      BY <3>1, <3>4 DEF Whole
  <2> QED
    BY <2>1, <2>2
<1>7. ASSUME armed' PROVE Whole(rows', t) \/ Awaited(t)'
  <2>1. up'
    BY <1>1, <1>7, InsideAwake DEF Awake
  <2>2. CASE armed
    <3>1. up
      BY <1>1, <2>2 DEF Awake
    <3>2. t.start \notin disturbed
      BY <1>1, <1>2
    <3> QED
      BY <1>1, <1>3, <1>4, <1>7, <2>1, <2>2, <3>1, <3>2, AwaitedKept
  <2>3. CASE ~armed
    <3>1. Arm
      BY <1>1, <1>7, <2>3, InsideDown
    <3> QED
      BY <1>1, <1>2, <1>5, <2>1, <3>1, ArmKept
  <2> QED
    BY <2>2, <2>3
<1> QED
  BY <1>5, <1>6, <1>7

LEMMA StartRunKept ==
    ASSUME LongRests, Sound, OldValve, InOrder, Awake, Spacing, Kept,
           NEW length \in Lengths, StartRun(length)
    PROVE  Kept'
<1>1. /\ UNCHANGED <<now, truth, seen, up, armed, rows, disk, pend>> /\ run = None /\ rest <= now
      /\ disturbed' = disturbed \cup If(~armed \/ ~AllSeen, Latest)
                                \cup If(armed /\ ~AllSeen, {now})
  BY DEF StartRun, memory, Disturb
<1>2. SUFFICES ASSUME NEW t \in truth, t.start \notin disturbed'
               PROVE  /\ armed => Whole(rows, t)
                      /\ up => Whole(rows, t)
                      /\ ~up => Whole(disk.rows, t)
  BY <1>1 DEF Kept, Whole
<1>3. /\ armed => Whole(rows, t) \/ Awaited(t)
      /\ (up /\ t.start # dps.start) => Whole(rows, t)
      /\ (~up /\ t.start # dps.start) => Whole(disk.rows, t)
  BY <1>1, <1>2 DEF Kept
<1>4. t.start = dps.start => armed /\ AllSeen
  <2>1. t.start = dps.start => dps.start \in Latest
    BY LatestReported, SoundTypes
  <2> QED
    BY <1>1, <1>2, <2>1 DEF If
<1>5. ~Awaited(t)
  <2> SUFFICES ASSUME Awaited(t) PROVE FALSE
    OBVIOUS
  <2>1. t.end \in pend /\ rest = t.end + Gap
    BY <1>4 DEF Awaited, AllSeen
  <2>2. now <= t.end + Grace
    BY <2>1 DEF Spacing
  <2> QED
    BY <1>1, <2>1, <2>2, SoundTypes, BookTypes DEF LongRests
<1> QED
  BY <1>3, <1>4, <1>5 DEF Awake

LEMMA CloseRunKept ==
    ASSUME Sound, OldValve, InOrder, Spacing, Follows, Kept, CloseRun
    PROVE  Kept'
<1>0. PICK t : t = [start |-> run.start, end |-> now, liters |-> run.liters]
  OBVIOUS
<1>1. /\ UNCHANGED <<now, seen, up, armed, rows, disk, pend, disturbed>>
      /\ run' = None /\ run # None /\ run.start < now
      /\ rest' = run.until + Gap
      /\ truth' = truth \cup {t} /\ dps'.start = dps.start /\ dps'.end = now
  <2>1. dps \in Reports
    BY DEF Sound, TypeOK
  <2> QED
    BY <1>0, <2>1 DEF CloseRun, Reports, memory
<1>2. t.start = run.start /\ t.end = now
  BY <1>0
<1>3. dps.start = run.start /\ dps.end = run.until
  BY <1>1 DEF InOrder, Spacing
<1>4. ASSUME NEW q \in truth, q.start \notin disturbed
      PROVE  /\ armed => Whole(rows, q)
             /\ (up /\ q.start # dps.start) => Whole(rows, q)
             /\ (~up /\ q.start # dps.start) => Whole(disk.rows, q)
  BY <1>1, <1>4 DEF Kept, Awaited
<1>5. ASSUME armed, t.start \notin disturbed PROVE Awaited(t)'
  <2>1. seen.start = dps.start /\ seen.end = run.until /\ run.until \in pend
    BY <1>1, <1>2, <1>3, <1>5 DEF Follows
  <2> QED
    BY <1>1, <1>2, <1>3, <2>1 DEF Awaited
<1> SUFFICES ASSUME NEW q \in truth \cup {t}, q.start \notin disturbed
             PROVE  /\ armed => Whole(rows, q) \/ Awaited(q)'
                    /\ (up /\ q.start # dps.start) => Whole(rows, q)
                    /\ (~up /\ q.start # dps.start) => Whole(disk.rows, q)
  BY <1>1 DEF Kept, Whole
<1>6. CASE q = t
  BY <1>2, <1>3, <1>5, <1>6
<1> QED
  BY <1>4, <1>6

LEMMA TickKept ==
    ASSUME Sound, OldValve, InOrder, Awake, Kept, Tick
    PROVE  Kept'
<1>1. disturbed' = disturbed \cup If(up /\ ~AllSeen, Latest \cup Mistaken)
  BY DEF Tick, Disturb
<1>2. ASSUME NEW t \in truth, t.start \notin disturbed', armed, Awaited(t) PROVE Awaited(t)'
  <2>1. AllSeen
    <3>1. t.start \in Latest
      BY <1>2, LatestReported, SoundTypes DEF Awaited
    <3> QED
      BY <1>1, <1>2, <3>1 DEF If, Awake
  <2> QED
    BY <1>2, <2>1, TickFrame DEF Awaited, AllSeen
<1> SUFFICES ASSUME NEW t \in truth, t.start \notin disturbed'
             PROVE  /\ armed => Whole(rows, t) \/ Awaited(t)'
                    /\ (up /\ t.start # dps.start) => Whole(rows, t)
                    /\ (~up /\ t.start # dps.start) => Whole(disk.rows, t)
  BY TickFrame DEF Kept, Whole
<1> QED
  BY <1>1, <1>2 DEF Kept

-----------------------------------------------------------------------------
(* Under the assumption on rests, every step keeps the books.              *)

OldBooks == (OldValve /\ LongRests) => Books

LEMMA InitBooks == Init => OldBooks
<1> SUFFICES ASSUME Init PROVE Books
  BY DEF OldBooks
<1>1. /\ truth = {} /\ run = None /\ rows = {} /\ disk.rows = {} /\ up /\ armed
      /\ dps.start = None /\ dps.end = None /\ seen.start = None /\ seen.end = None /\ pend = {}
  BY DEF Init, Unknown
<1> QED
  BY <1>1 DEF Books, Spacing, Closes, Ends, Exact, Unarmed, Follows, Kept, Down

LEMMA InsideBooks ==
    ASSUME LongRests, Sound, OldValve, Bounds, Courses, Books, Inside
    PROVE  Books'
<1>1. /\ InOrder /\ Awake /\ Chronicle /\ OwnStarts(rows) /\ dps.counter = None
      /\ OneRowPerBound(disk.rows)
      /\ Spacing /\ Unarmed /\ Follows /\ Kept /\ Down
  BY DEF Courses, Chronicle, Bounds, Books
<1> QED
  BY <1>1, InsideSpacing, InsideExact, InsideUnarmed, InsideFollows, InsideKept, InsideDown
  DEF Books

LEMMA OutsideBooks ==
    ASSUME LongRests, Sound, OldValve, Bounds, Courses, Books,
           (\E length \in Lengths : StartRun(length)) \/ CloseRun \/ Tick
    PROVE  Books'
<1>1. /\ InOrder /\ Awake
      /\ Spacing /\ Unarmed /\ Follows /\ Kept /\ Down
  BY DEF Courses, Chronicle, Books
<1>2. Spacing'
  BY <1>1, StartRunSpacing, CloseRunSpacing, TickSpacing
<1>3. Kept'
  BY <1>1, StartRunKept, CloseRunKept, TickKept
<1> QED
  BY <1>1, <1>2, <1>3, OutsideExact, OutsideUnarmed, OutsideFollows, OutsideDown DEF Books

LEMMA NextBooks == Sound /\ Bounds /\ Courses /\ OldBooks /\ [Next]_vars => OldBooks'
<1> SUFFICES ASSUME Sound, Bounds, Courses, OldBooks, [Next]_vars PROVE OldBooks'
  OBVIOUS
<1>1. CASE UNCHANGED vars
  BY <1>1 DEF vars, outside, memory, history, OldBooks, Books, Spacing, Spaced, Horizon, Closes,
              Ends, Exact, Exactly, Unarmed, Follows, Kept, Whole, Awaited, Down, OldValve
<1>2. CASE Next
  <2>1. OldValve' <=> OldValve
    BY <1>2, DisturbedGrows DEF OldValve
  <2>2. OldValve => ~SendRecord
    BY DEF SendRecord
  <2> QED
    BY <1>2, <2>1, <2>2, InsideBooks, OutsideBooks DEF Next, Inside, OldBooks
<1> QED
  BY <1>1, <1>2

LEMMA BooksRecord ==
    Sound /\ Bounds /\ Courses /\ OldBooks => ((OldValve /\ LongRests) => EachRunOnce)
<1> SUFFICES ASSUME Sound, Bounds, Courses, Books, OldValve, Settled,
                    NEW t \in truth, Over(t), t.start \notin disturbed
             PROVE  \E row \in rows : Stands(row, t) /\ \A r \in rows : Meets(r, t) => r = row
  BY DEF EachRunOnce, OldBooks
<1>1. ~Awaited(t)
  <2>1. seen = dps /\ now > t.end + Grace
    BY DEF Settled, AllSeen, Over
  <2>2. t.end \in pend => now <= t.end + Grace
    BY DEF Books, Spacing
  <2> QED
    BY <2>1, <2>2, SoundTypes, BookTypes DEF Awaited
<1>2. PICK row \in rows : row.start = t.start /\ row.end = t.end
  BY <1>1 DEF Books, Kept, Settled, Whole
<1>3. Meets(row, t)
  BY <1>2 DEF Meets, Courses, Chronicle, InOrder
<1>4. \A r \in rows : Meets(r, t) => r = row
  BY <1>3, CoursesApart DEF RowsApart
<1> QED
  BY <1>2, <1>4 DEF Stands

(* Once everything is reported and no timer is due, each run of an old     *)
(* valve that nothing disturbed is in the table exactly once, with its own *)
(* start and close: from its close report, from the close that was         *)
(* scheduled, or replayed from the sensors after a restart, in whatever    *)
(* order the reports came (runs_store.py, _on_change, _record_scheduled    *)
(* and track_devices).                                                     *)
THEOREM OldRunsOnce == Spec => []((OldValve /\ LongRests) => EachRunOnce)
<1>1. Init => Bounds
  BY DEF Init, Bounds, OneRowPerBound, Unknown
<1> QED
  BY <1>1, AlwaysSound, NextBounds, InitCourses, NextCourses, InitBooks, NextBooks, BooksRecord,
     PTL DEF Spec

-----------------------------------------------------------------------------
(* The liters of an old valve's rows are those of the run they start with. *)

(* A set of numbers under a bound has a greatest one.                       *)
LEMMA BoundedHasMax ==
    ASSUME NEW S \in SUBSET Nat, S # {}, NEW n \in Nat, \A x \in S : x <= n
    PROVE  \E x \in S : \A y \in S : y <= x
<1> DEFINE T == {n - x : x \in S}
<1>1. T \subseteq Nat /\ T # {}
  <2>1. \A x \in S : n - x \in Nat
    OBVIOUS
  <2> QED
    BY <2>1
<1>0. PICK R : R = OpToRel(<, Nat)
  OBVIOUS
<1>2. \A x, y \in Nat : x < y => <<x, y>> \in R
  BY <1>0 DEF OpToRel
<1>3. IsWellFoundedOn(R, Nat)
  BY <1>0, NatLessThanWellFounded
<1> HIDE DEF T
<1>4. PICK m \in T : \A k \in T : ~(<<k, m>> \in R)
  BY <1>1, <1>3, WFMin
<1>5. ASSUME NEW k \in T PROVE m <= k
  <2>1. k \in Nat /\ m \in Nat /\ ~(<<k, m>> \in R)
    BY <1>1, <1>4
  <2>2. ~(k < m)
    BY <1>2, <2>1
  <2> QED
    BY <2>1, <2>2
<1>6. PICK x \in S : m = n - x
  BY <1>4 DEF T
<1>7. ASSUME NEW y \in S PROVE y <= x
  <2>1. n - y \in T
    BY DEF T
  <2> QED
    BY <1>5, <1>6, <2>1
<1> QED
  BY <1>7

(* Where no row is near a close, none has it.                              *)
LEMMA NoneNear ==
    ASSUME NEW table \in SUBSET Row, NEW end \in Nat, NEW slack \in Nat,
           Near(table, end, slack) = {}, NEW r \in table
    PROVE  r.end # end
<1> SUFFICES ASSUME r.end = end PROVE FALSE
  OBVIOUS
<1> DEFINE upTo == {q \in table : q.end <= end + slack}
           S == {q.end : q \in upTo}
<1>1. \A q \in table : q.end \in Nat
  BY TimeFacts DEF Row
<1>2. r \in upTo /\ S \subseteq Nat /\ \A x \in S : x <= end + slack
  BY <1>1
<1>3. r.end \in S /\ end + slack \in Nat
  BY <1>2
<1>4. PICK x \in S : \A y \in S : y <= x
  <2> HIDE DEF S
  <2> QED
    BY <1>2, <1>3, BoundedHasMax
<1>5. PICK q \in upTo : q.end = x
  OBVIOUS
<1>6. \A p \in upTo : p.end <= q.end
  BY <1>4, <1>5
<1>7. q.end >= end - slack
  BY <1>1, <1>2, <1>5, <1>6
<1>8. q \in Near(table, end, slack)
  BY <1>5, <1>6, <1>7 DEF Near
<1> QED
  BY <1>8

(* What the sensor has shown of the liters of the last run.                *)
HeardOf(liters) == seen.volume - (dps.volume - liters)

(* The counter of the valve shows the water of the last run, or all water. *)
Metered ==
    /\ valve.odometer => ~perCycle /\ ~disk.perCycle /\ dps.volume >= Base
    /\ (valve.odometer /\ seen.volume # None) => seen.volume >= Base
    /\ run # None => /\ run.liters <= now - run.start
                     /\ ~valve.odometer => dps.volume = run.liters
    /\ \A t \in truth : /\ t.liters \in Nat /\ t.liters <= t.end - t.start
                        /\ (run = None /\ t.start = dps.start /\ ~valve.odometer)
                              => dps.volume = t.liters

(* The accumulator counts from the reading that is shown.                  *)
Gauged ==
    /\ acc.last # None => acc.last = seen.volume /\ acc.at <= now
    /\ (acc.last # None /\ acc.at = now) => dps.volume >= acc.last \/ dps.volume = 0
    /\ ~armed => acc.last = None /\ acc.delivered = 0

(* At most the last reading is still to be heard.                          *)
Fresh(liters) ==
    seen.volume # None /\ seen.volume \in {dps.volume - 1, dps.volume} /\ 0 <= HeardOf(liters)

(* The accumulator holds what was heard of a run, or all but a liter.      *)
Counting(liters) ==
    \/ perCycle
    \/ /\ acc.delivered \in {HeardOf(liters) - 1, HeardOf(liters)}
       /\ acc.last = None => HeardOf(liters) = 0

(* An undisturbed run in progress is counted from its start.               *)
InRun ==
    (run # None /\ armed /\ run.start \notin disturbed) =>
        /\ run.start = now =>
              /\ valve.odometer => seen.volume = dps.volume
              /\ seen.end = dps.end => perCycle \/ acc.delivered = 0
        /\ run.start < now => Fresh(run.liters) /\ Counting(run.liters)

(* A row that starts with a run has liters already.                        *)
Watered(table, t) == \E r \in table : r.start = t.start /\ Truthy(r.liters)

(* And until its close has been heard and no close is awaited, or it has   *)
(* its liters.                                                             *)
AfterRun ==
    \A t \in truth : (run = None /\ armed /\ t.start = dps.start /\ t.start \notin disturbed) =>
        /\ Fresh(t.liters)
        /\ (seen.end # dps.end \/ pend # {}) => Counting(t.liters) \/ Watered(rows, t)

Misses(liters, t) == liters \in t.liters - 2 .. t.liters

(* A row that starts with an undisturbed run has the water of that run.    *)
OwnWater(table) ==
    \A t \in truth : t.start \notin disturbed =>
        \A r \in table : (r.start = t.start /\ r.liters # None) => Misses(r.liters, t)

Waters == Metered /\ Gauged /\ InRun /\ AfterRun /\ OwnWater(rows) /\ OwnWater(disk.rows)

LEMMA WaterTypes ==
    ASSUME Sound
    PROVE  /\ Base \in Nat /\ 2 <= Base /\ \A t \in Time : t < Base
           /\ dps.volume \in Nat /\ seen.volume \in Nat \cup {None}
           /\ acc.last \in Nat \cup {None} /\ acc.at \in Nat /\ acc.delivered \in Nat
           /\ run # None => run.liters \in Nat
           /\ \A t \in truth : t.liters \in Nat \cup {None} /\ t.start \in Time /\ t.end \in Time
           /\ \A r \in rows : r.liters \in Nat \cup {None}
           /\ \A r \in disk.rows : r.liters \in Nat \cup {None}
           /\ Settle \in Nat /\ Settle <= Slack
           /\ None \notin Nat
<1>1. /\ dps \in Reports /\ seen \in Shown /\ acc \in Accumulator
      /\ truth \subseteq Row /\ rows \subseteq Row /\ disk.rows \subseteq Row
      /\ run \in Running \cup {None}
  BY DEF Sound, TypeOK
<1>2. /\ MaxTime \in Nat /\ MaxRun \in Nat /\ 1 <= MaxRun
      /\ Settle \in Nat /\ Slack \in Nat /\ Settle <= Slack
  BY ThresholdsAssumption
<1>3. Base \in Nat /\ 2 <= Base /\ \A t \in Time : t < Base
  BY <1>2 DEF Base, Time
<1> QED
  BY <1>1, <1>2, <1>3, TimeFacts DEF Reports, Shown, Accumulator, Row, Running, Liters

(* add_run keeps the liters of a row, fills them, or brings its own.       *)
LEMMA AddRunLiters ==
    ASSUME NEW table \in SUBSET Row, NEW start \in Time, NEW end \in Time,
           NEW liters \in Liters \cup {None}, NEW r \in AddRun(table, start, end, liters)
    PROVE  \/ \E q \in table : r.start = q.start /\ r.liters = q.liters
           \/ /\ r.liters = liters
              /\ \E q \in table : /\ r.start = q.start /\ ~Truthy(q.liters)
                                  /\ q.start = start \/ q.end = end
           \/ /\ r.liters = liters /\ r.start = start
              /\ \A q \in table : q.start # start
BY AddRunResult DEF Replaced

LEMMA AddRunTruthy ==
    ASSUME NEW table \in SUBSET Row, NEW start \in Time, NEW end \in Time,
           NEW liters \in Liters \cup {None}, NEW q \in table, Truthy(q.liters)
    PROVE  \E r \in AddRun(table, start, end, liters) : r.start = q.start /\ Truthy(r.liters)
BY AddRunResult DEF Replaced

(* A run with liters leaves a row with liters at its start.                *)
LEMMA AddRunWaters ==
    ASSUME NEW table \in SUBSET Row, NEW start \in Time, NEW end \in Time, start < end,
           NEW liters \in Liters \cup {None}, Truthy(liters),
           \A q \in table : q.end = end => q.start = start
    PROVE  \E r \in AddRun(table, start, end, liters) : r.start = start /\ Truthy(r.liters)
<1>1. ~(end <= start)
  BY TimeFacts
<1>2. ASSUME NEW row \in table, NEW new \in Row,
             AddRun(table, start, end, liters) = Replaced(table, row, new),
             row.end = end \/ row.start = start, new.start = row.start,
             new.liters = IF Truthy(liters) /\ ~Truthy(row.liters) THEN liters ELSE row.liters
      PROVE  \E r \in AddRun(table, start, end, liters) : r.start = start /\ Truthy(r.liters)
  BY <1>2 DEF Replaced
<1>3. ASSUME NEW new \in Row, AddRun(table, start, end, liters) = table \cup {new},
             new.start = start, new.liters = liters
      PROVE  \E r \in AddRun(table, start, end, liters) : r.start = start /\ Truthy(r.liters)
  BY <1>3
<1> QED
  BY <1>1, <1>2, <1>3, AddRunResult

LEMMA DedupedSame ==
    ASSUME NEW table \in SUBSET Row, OneRowPerBound(table)
    PROVE  DedupedByStart(table) = table
<1> DEFINE copies(r) == {q \in table : q.start = r.start /\ Truthy(q.liters)}
           liters(r) == IF copies(r) = {} THEN None ELSE (CHOOSE q \in copies(r) : TRUE).liters
           kept == {q \in table : \A p \in table : p.start = q.start => q.end <= p.end}
<1>1. DedupedByStart(table) = {Filled(r, liters(r)) : r \in kept}
  BY DEF DedupedByStart
<1>2. kept = table
  <2>1. \A p, q \in table : p.start = q.start => p = q
    BY DEF OneRowPerBound
  <2>2. \A q \in table : q.end \in Nat
    BY TimeFacts DEF Row
  <2> QED
    BY <2>1, <2>2
<1>3. ASSUME NEW r \in table PROVE Filled(r, liters(r)) = r
  <2>1. CASE copies(r) = {}
    BY <2>1 DEF Filled, Truthy
  <2>2. CASE copies(r) # {}
    <3>1. (CHOOSE q \in copies(r) : TRUE) \in copies(r)
      BY <2>2
    <3>2. (CHOOSE q \in copies(r) : TRUE) = r /\ Truthy(r.liters)
      BY <3>1 DEF OneRowPerBound
    <3> QED
      BY <3>2 DEF Filled
  <2> QED
    BY <2>1, <2>2
<1> HIDE DEF liters, kept
<1> QED
  BY <1>1, <1>2, <1>3

(* What is written starts or ends with no undisturbed run but the last.    *)
LEMMA WritesLast ==
    ASSUME LongRests, Sound, Chronicle, Books, Inside, NEW start \in Time, NEW end \in Time,
           Written(start, end), NEW q \in truth, q.start \notin disturbed',
           q.start = start \/ q.end = end
    PROVE  q.start = dps.start
<1>1. /\ InOrder /\ LateStart /\ NoStart /\ Awake /\ Spacing /\ Unarmed
      /\ disturbed \subseteq disturbed' /\ q.start \notin disturbed
  BY DisturbedGrows DEF Books, Chronicle, Inside, Next
<1>2. start \in Nat /\ end \in Nat /\ start < end /\ end <= now /\ now \in Nat
  BY TimeFacts, SoundTypes DEF Written, PairsUp
<1> SUFFICES ASSUME q.start # dps.start PROVE FALSE
  OBVIOUS
<1>3. /\ dps.start \in Nat /\ q.start \in Nat /\ q.end \in Nat /\ q.start < q.end
      /\ q.end <= dps.start /\ dps.start <= now
  <2>1. /\ q.start < q.end /\ q.end <= dps.start /\ dps.start # None
    BY <1>1 DEF InOrder
  <2>2. CASE run # None
    BY <1>1, <2>1, <2>2, SoundTypes DEF InOrder, Sound, OnSchedule
  <2>3. CASE run = None
    <3>1. PICK t \in truth : t.start = dps.start
      BY <1>1, <2>1, <2>3 DEF InOrder
    <3>2. t.start < t.end /\ t.end <= now
      BY <1>1 DEF InOrder
    <3> QED
      BY <2>1, <3>1, <3>2, SoundTypes
  <2> QED
    BY <2>2, <2>3
<1>4. CASE armed /\ end = dps.end /\ seen.end # dps.end
  <2>1. dps.start < dps.end /\ dps.end # None
    BY <1>1, <1>2, <1>4, SoundTypes DEF InOrder
  <2>2. q.start = start
    BY <1>2, <1>3, <1>4, <2>1
  <2>3. CASE start = seen.start
    BY <1>1, <1>2, <1>3, <1>4, <2>1, <2>2, <2>3, SoundTypes DEF LateStart
  <2>4. CASE start = acc.first /\ ~PairsUp(seen.start, end)
    <3>1. PairsUp(acc.first, dps.end)
      BY <1>4, <2>4 DEF Written
    <3> QED
      BY <1>1, <1>2, <1>3, <1>4, <2>1, <2>2, <2>4, <3>1, RiseDisturbed
  <2>5. ASSUME NEW t \in truth, t.start = start, t.end = end PROVE FALSE
    BY <1>1, <1>2, <1>3, <1>4, <2>1, <2>2, <2>5 DEF InOrder
  <2>6. end \notin pend \/ ~(end + Grace <= now /\ start = seen.start)
    BY <2>3
  <2>7. ~(Arm /\ end = seen.end)
    BY <1>4
  <2> QED
    BY <2>3, <2>4, <2>5, <2>6, <2>7 DEF Written
<1>5. CASE end \in pend /\ end + Grace <= now /\ start = seen.start
  <2>1. /\ \A t \in truth : end + Gap <= t.start \/ t.end <= end
        /\ run # None => end + Gap <= run.start \/ end = run.until
        /\ now <= end + Grace
    BY <1>1, <1>5 DEF Spacing, Spaced, Closes
  <2>2. Gap \in Nat /\ Grace \in Nat /\ 1 <= Grace /\ Grace < Gap
    BY BookTypes DEF LongRests
  <2>3. run = None
    <3> SUFFICES ASSUME run # None PROVE FALSE
      OBVIOUS
    <3>1. run.start = dps.start /\ run.until \in Nat /\ now <= run.until
      BY <1>1, SoundTypes DEF InOrder, Sound, OnSchedule
    <3> QED
      BY <1>2, <1>3, <1>5, <2>1, <2>2, <3>1
  <2>4. PICK t \in truth : t.start = dps.start
    BY <1>1, <1>3, <2>3, SoundTypes DEF InOrder
  <2>5. t.start < t.end /\ t.end <= now /\ t.end \in Nat
    BY <1>1, SoundTypes DEF InOrder
  <2>6. t.end <= end
    BY <1>2, <1>3, <2>1, <2>2, <2>4
  <2>7. q.start = seen.start
    BY <1>2, <1>3, <1>5, <2>4, <2>5, <2>6
  <2> QED
    BY <1>1, <1>3, <2>4, <2>5, <2>7, SoundTypes DEF LateStart
<1>6. CASE Arm /\ end = seen.end /\ start = seen.start
  <2>1. ~armed /\ seen.start # None
    BY <1>2, <1>6, SoundTypes DEF Arm
  <2>2. CASE seen.start = dps.start
    BY <1>2, <1>3, <1>6, <2>2
  <2>3. CASE seen.start # dps.start
    <3>1. seen.start \in disturbed
      BY <1>1, <2>1, <2>3 DEF Unarmed
    <3>2. q.end = end
      BY <1>1, <1>6, <3>1
    <3>3. q.start < seen.start => q.end <= seen.start
      BY <1>1, <2>1 DEF LateStart
    <3>4. seen.start < q.start => q.start \in disturbed
      BY <1>1, <2>1 DEF LateStart
    <3> QED
      BY <1>1, <1>2, <1>3, <1>6, <3>1, <3>2, <3>3, <3>4
  <2> QED
    BY <2>2, <2>3
<1> QED
  BY <1>4, <1>5, <1>6 DEF Written

(* What is written while the last run is undisturbed starts with it.       *)
LEMMA WritesOwn ==
    ASSUME Sound, Chronicle, Spacing, Inside, NEW start \in Time, NEW end \in Time,
           Written(start, end), NEW t \in truth, t.start = dps.start, t.start \notin disturbed'
    PROVE  start = t.start
<1>1. /\ InOrder /\ LateStart /\ NoStart /\ Awake
      /\ disturbed \subseteq disturbed' /\ t.start \notin disturbed
  BY DisturbedGrows DEF Chronicle, Inside, Next
<1>2. start \in Nat /\ end \in Nat /\ start < end /\ end <= now /\ now \in Nat
  BY TimeFacts, SoundTypes DEF Written, PairsUp
<1>3. /\ t.start \in Nat /\ t.end \in Nat /\ t.start < t.end /\ t.end = dps.end
  BY <1>1, SoundTypes, LastOfTruth DEF InOrder
<1>4. start = seen.start => start = t.start
  BY <1>1, <1>2, <1>3, SoundTypes DEF LateStart
<1>5. CASE armed /\ end = dps.end /\ start = acc.first /\ ~PairsUp(seen.start, end)
  <2>1. dps.end # None /\ PairsUp(acc.first, dps.end)
    BY <1>2, <1>5, SoundTypes DEF Written
  <2> QED
    BY <1>1, <1>2, <1>3, <1>5, <2>1, RiseDisturbed
<1>6. ASSUME NEW q \in truth, q.start = start, q.end = end, end = dps.end PROVE start = t.start
  BY <1>1, <1>2, <1>3, <1>6, SoundTypes DEF InOrder
<1> QED
  BY <1>4, <1>5, <1>6 DEF Written

(* The liters a row of the last run takes, from the counter of the valve   *)
(* or from the accumulator.                                                *)
LEMMA TakenOwn ==
    ASSUME Sound, Metered, NEW t \in truth, run = None, t.start = dps.start, Fresh(t.liters),
           Counting(t.liters) \/ acc.delivered = 0,
           NEW liters, liters = RunLiters(perCycle, acc)[1], liters # None
    PROVE  Misses(liters, t)
<1>1. /\ t.liters \in Nat /\ t.liters < Base /\ Base \in Nat
      /\ dps.volume \in Nat /\ seen.volume \in Nat /\ acc.delivered \in Nat /\ None \notin Nat
      /\ seen.volume \in {dps.volume - 1, dps.volume}
  <2>1. t.liters \in Nat /\ t.liters <= t.end - t.start /\ t.end \in Time /\ t.start \in Nat
    BY WaterTypes, SoundTypes DEF Metered
  <2>2. t.end < Base /\ t.end \in Nat /\ Base \in Nat
    BY <2>1, WaterTypes, TimeFacts
  <2> QED
    BY <2>1, <2>2, WaterTypes DEF Fresh
<1>2. CASE ~valve.odometer
  <2>1. dps.volume = t.liters /\ seen.volume < Base
    BY <1>1, <1>2 DEF Metered
  <2>2. HeardOf(t.liters) = seen.volume
    BY <1>1, <2>1 DEF HeardOf
  <2>3. Sane(seen.volume) = seen.volume /\ Sane(seen.volume) # None
    BY <1>1, <2>1 DEF Sane
  <2>4. liters = seen.volume \/ (~perCycle /\ acc.delivered > 0 /\ liters = Sane(acc.delivered))
    BY <2>3 DEF RunLiters
  <2>5. CASE ~perCycle /\ acc.delivered > 0 /\ liters = Sane(acc.delivered)
    <3>1. acc.delivered \in {seen.volume - 1, seen.volume}
      BY <1>1, <2>2, <2>5 DEF Counting
    <3>2. liters = acc.delivered
      BY <2>5 DEF Sane
    <3> QED
      BY <1>1, <2>1, <3>1, <3>2 DEF Misses
  <2> QED
    BY <1>1, <2>1, <2>4, <2>5 DEF Misses
<1>3. CASE valve.odometer
  <2>1. ~perCycle /\ seen.volume >= Base
    BY <1>1, <1>3 DEF Metered
  <2>2. Sane(seen.volume) = None
    BY <2>1 DEF Sane
  <2>3. acc.delivered > 0 /\ liters = Sane(acc.delivered)
    BY <2>1, <2>2 DEF RunLiters
  <2>4. acc.delivered \in {HeardOf(t.liters) - 1, HeardOf(t.liters)}
    BY <1>1, <2>1, <2>3 DEF Counting
  <2>5. HeardOf(t.liters) \in {t.liters - 1, t.liters}
    BY <1>1 DEF HeardOf
  <2>6. liters = acc.delivered
    BY <2>3 DEF Sane
  <2> QED
    BY <1>1, <2>4, <2>5, <2>6 DEF Misses
<1> QED
  BY <1>2, <1>3

(* The last run may be recorded: it has been counted, or not at all.       *)
Ready(t) ==
    /\ run = None /\ Fresh(t.liters)
    /\ Counting(t.liters) \/ acc.delivered = 0 \/ Watered(rows, t)

LEMMA WritesReady ==
    ASSUME Sound, OldValve, Chronicle, Books, Gauged, AfterRun, Inside, NEW start, NEW end,
           Written(start, end), NEW t \in truth, t.start = dps.start, t.start \notin disturbed',
           Metered
    PROVE  Ready(t)
<1>1. /\ InOrder /\ Spacing /\ Down
      /\ disturbed \subseteq disturbed' /\ t.start \notin disturbed
  BY DisturbedGrows DEF Chronicle, Books, Inside, Next
<1>2. run = None /\ dps.start # None
  BY <1>1, LastOfTruth, SoundTypes
<1>3. CASE armed
  <2>1. seen.end # dps.end \/ pend # {}
    BY <1>3 DEF Written, Arm
  <2> QED
    BY <1>1, <1>2, <1>3, <2>1 DEF AfterRun, Ready
<1>4. CASE ~armed
  <2>1. Arm
    BY <1>1, <1>4 DEF Written, Down
  <2>2. AllSeen
    <3>1. dps.start \in Latest
      BY <1>1, <1>2, LatestReported
    <3> QED
      BY <1>2, <2>1, <3>1 DEF Arm, Disturb, If
  <2>3. Fresh(t.liters)
    BY <2>2, WaterTypes DEF Fresh, HeardOf, AllSeen, Metered
  <2> QED
    BY <1>2, <1>4, <2>3 DEF Gauged, Ready
<1> QED
  BY <1>3, <1>4

(* A recorded close gives a row the water of its run, or leaves its own.   *)
LEMMA RecordEndWater ==
    ASSUME LongRests, Sound, OldValve, Chronicle, Books, Metered, Gauged, AfterRun,
           OneRowPerBound(rows), OwnWater(rows), Inside,
           NEW start \in Time, NEW end \in Time, Written(start, end), RecordEnd(start, end),
           NEW t \in truth, t.start \notin disturbed', NEW r \in rows', r.start = t.start,
           r.liters # None
    PROVE  Misses(r.liters, t)
<1>0. PICK liters : liters = RunLiters(perCycle, acc)[1]
  OBVIOUS
<1>1. /\ InOrder /\ Spacing /\ Exact(rows) /\ t.start \notin disturbed
  BY DisturbedGrows DEF Chronicle, Books, Inside, Next
<1>2. liters \in Liters \cup {None} /\ rows \in SUBSET Row
  BY <1>0 DEF RunLiters, Sane, Liters, Sound, TypeOK, Accumulator, Shown
<1>3. rows' = AddRun(rows, start, end, liters)
  BY <1>0 DEF RecordEnd
<1>4. ASSUME t.start = start \/ t.end = end, r.liters = liters,
             \A q \in rows : q.start = t.start => ~Truthy(q.liters)
      PROVE  Misses(r.liters, t)
  <2>1. t.start = dps.start
    BY <1>4, WritesLast
  <2>2. Ready(t)
    BY <2>1, WritesReady
  <2>3. Counting(t.liters) \/ acc.delivered = 0
    BY <1>4, <2>2 DEF Ready, Watered
  <2> QED
    BY <1>0, <1>4, <2>1, <2>2, <2>3, TakenOwn DEF Ready
<1>5. CASE \E q \in rows : r.start = q.start /\ r.liters = q.liters
  BY <1>1, <1>5 DEF OwnWater
<1>6. ASSUME NEW q \in rows, r.liters = liters, r.start = q.start, ~Truthy(q.liters),
             q.start = start \/ q.end = end
      PROVE  Misses(r.liters, t)
  <2>1. t.start = start \/ t.end = end
    BY <1>1, <1>6 DEF Exact, Exactly
  <2>2. \A p \in rows : p.start = t.start => p = q
    BY <1>6 DEF OneRowPerBound
  <2> QED
    BY <1>4, <1>6, <2>1, <2>2
<1>7. CASE r.liters = liters /\ r.start = start /\ \A q \in rows : q.start # start
  BY <1>4, <1>7
<1> QED
  BY <1>2, <1>3, <1>5, <1>6, <1>7, AddRunLiters

(* A late reading is of the last run: the rest before it was too long for  *)
(* any other.                                                              *)
LEMMA LateReadingWater ==
    ASSUME LongRests, Sound, OldValve, InOrder, Books, Metered, OwnWater(rows), ~valve.odometer,
           NEW t \in truth, t.start \notin disturbed,
           NEW r \in LateReading(rows, dps.volume), r.start = t.start, r.liters # None
    PROVE  Misses(r.liters, t)
<1>1. PICK q \in rows :
          r = IF /\ \A p \in rows : p.end <= q.end
                 /\ q.liters # None /\ q.liters < dps.volume /\ now - q.end <= Settle
                 /\ Sane(dps.volume) # None
              THEN [q EXCEPT !.liters = dps.volume] ELSE q
  BY DEF LateReading
<1>2. q \in Row /\ Spacing /\ Exact(rows)
  BY DEF Sound, TypeOK, Books
<1>3. CASE r = q
  BY <1>3 DEF OwnWater
<1>4. CASE /\ q.liters # None /\ q.liters < dps.volume /\ now - q.end <= Settle
           /\ r = [q EXCEPT !.liters = dps.volume]
  <2>1. r.start = q.start /\ r.liters = dps.volume
    BY <1>2, <1>4 DEF Row
  <2>2. /\ q.end = t.end /\ Spaced(q.end)
        /\ t.start < t.end /\ t.end <= now
    BY <1>2, <2>1 DEF Exact, Exactly, InOrder, Spacing, Closes, Ends
  <2>3. /\ Gap \in Nat /\ Settle \in Nat /\ Slack \in Nat /\ Settle <= Slack /\ Slack <= Gap
        /\ t.start \in Nat /\ t.end \in Nat /\ now \in Nat /\ dps.volume \in Nat
        /\ t.liters \in Nat /\ q.liters \in Nat
    BY <1>4, BookTypes, SoundTypes, WaterTypes DEF LongRests, Metered
  <2>4. CASE t.start = dps.start
    <3>1. dps.volume = t.liters
      BY <1>2, <2>4, LastOfTruth DEF Metered
    <3> QED
      BY <2>1, <2>3, <3>1 DEF Misses
  <2>5. CASE t.start # dps.start /\ run # None
    <3>1. /\ run.start = dps.start /\ t.end <= run.start /\ run.start <= now
          /\ run.start < run.until /\ run.until \in Nat /\ run.start \in Nat
      BY <1>2, <2>5, SoundTypes DEF InOrder, Sound, OnSchedule, Spacing
    <3>2. t.end + Gap <= run.start
      BY <2>2, <2>3, <2>5, <3>1 DEF Spaced
    <3>3. run.start = now
      BY <1>4, <2>2, <2>3, <3>1, <3>2
    <3>4. dps.volume = run.liters /\ run.liters <= now - run.start
      BY <2>5 DEF Metered
    <3> QED
      BY <1>4, <2>3, <3>3, <3>4
  <2>6. CASE t.start # dps.start /\ run = None
    <3>1. PICK p \in truth : p.start = dps.start
      BY <2>6 DEF InOrder
    <3>2. /\ t.end <= p.start /\ p.start < p.end /\ p.end <= now /\ p.start \in Nat /\ p.end \in Nat
      BY <2>6, <3>1, SoundTypes DEF InOrder
    <3>3. t.end + Gap <= p.start
      BY <2>2, <2>3, <3>2 DEF Spaced
    <3> QED
      BY <1>4, <2>2, <2>3, <3>2, <3>3
  <2> QED
    BY <2>4, <2>5, <2>6
<1> QED
  BY <1>1, <1>3, <1>4

(* What the counter's listener does with a reading that is no late sample. *)
LEMMA HearsVolume ==
    ASSUME Sound, Gauged, armed, Deliver("volume"), OnVolume(dps.volume)
    PROVE  /\ acc'.last = dps.volume /\ acc'.at = now
           /\ perCycle' => perCycle \/ (acc.last # None /\ Restarted(acc.last, dps.volume))
           /\ perCycle => perCycle'
           /\ rows' = rows \/ (perCycle' /\ rows' = LateReading(rows, dps.volume))
           /\ (acc.last # None /\ dps.volume <= 1 /\ dps.volume < acc.last) => perCycle'
           /\ acc.last = None => acc'.delivered = acc.delivered
           /\ (acc.last # None /\ dps.volume = acc.last + 1) => acc'.delivered = acc.delivered + 1
<1> DEFINE value == dps.volume
           fresh == [acc EXCEPT !.last = value, !.at = now]
           restarted == acc.last # None /\ Restarted(acc.last, value)
           base == IF restarted THEN [fresh EXCEPT !.delivered = 0] ELSE fresh
           delta == Climb(acc.last, value)
<1>1. /\ acc \in Accumulator /\ value \in Nat /\ now \in Nat
      /\ acc.last \in Nat \cup {None} /\ acc.at \in Nat /\ acc.delivered \in Nat /\ None \notin Nat
  BY WaterTypes, SoundTypes DEF Sound, TypeOK
<1>2. seen.volume # value
  BY DEF Deliver
<1>3. CASE acc.last = None
  <2>1. acc' = fresh /\ UNCHANGED <<rows, perCycle>>
    BY <1>3 DEF OnVolume
  <2> QED
    BY <1>1, <1>3, <2>1 DEF Accumulator
<1>4. CASE acc.last # None
  <2>1. acc.last = seen.volume /\ acc.at <= now /\ acc.last \in Nat /\ acc.last # value
    BY <1>1, <1>2, <1>4 DEF Gauged
  <2>2. ~Implausible(acc.last, value, now - acc.at)
    BY <1>1, <1>4, <2>1 DEF Gauged, Implausible
  <2>3. /\ perCycle' = (perCycle \/ restarted)
        /\ rows' = IF perCycle \/ restarted THEN LateReading(rows, value) ELSE rows
        /\ \/ acc' = base /\ delta = 0
           \/ /\ acc' = [base EXCEPT !.delivered = @ + delta, !.rise = now,
                                     !.first = IF @ = None THEN now ELSE @]
              /\ delta # 0
    BY <1>4, <2>2 DEF OnVolume
  <2>4. /\ fresh.last = value /\ fresh.at = now /\ fresh.delivered = acc.delivered
        /\ base.last = value /\ base.at = now
        /\ ~restarted => base.delivered = acc.delivered
        /\ base \in [last: {value}, at: {now}, delivered: Nat, first: Time \cup {None},
                     rise: Time \cup {None}]
    BY <1>1 DEF Accumulator
  <2>5. /\ acc'.last = value /\ acc'.at = now
        /\ acc'.delivered \in {base.delivered, base.delivered + delta}
        /\ delta # 0 => acc'.delivered = base.delivered + delta
    <3> HIDE DEF base, delta
    <3> QED
      BY <2>3, <2>4
  <2>6. ASSUME value = acc.last + 1 PROVE acc'.delivered = acc.delivered + 1
    <3>1. ~restarted /\ delta = 1
      BY <2>1, <2>6 DEF Restarted, Climb
    <3>2. base.delivered = acc.delivered
      BY <2>4, <3>1
    <3> HIDE DEF base, delta
    <3> QED
      BY <2>5, <3>1, <3>2
  <2>7. (value <= 1 /\ value < acc.last) => restarted
    BY <1>4 DEF Restarted
  <2>8. /\ perCycle' => perCycle \/ (acc.last # None /\ Restarted(acc.last, dps.volume))
        /\ perCycle => perCycle'
        /\ restarted => perCycle'
        /\ rows' = rows \/ (perCycle' /\ rows' = LateReading(rows, dps.volume))
    <3> HIDE DEF base, delta
    <3> QED
      BY <2>3
  <2> HIDE DEF base, delta, restarted
  <2> QED
    BY <1>4, <2>5, <2>6, <2>7, <2>8
<1> QED
  BY <1>3, <1>4

LEMMA InsideSeesVolume ==
    ASSUME Sound, Inside
    PROVE  \/ seen'.volume = seen.volume /\ ~Deliver("volume")
           \/ Deliver("volume") /\ seen'.volume = dps.volume /\ seen.volume # dps.volume
              /\ seen'.end = seen.end /\ UNCHANGED <<up, armed, disk, disturbed>>
           \/ \E graceful \in BOOLEAN : Stop(graceful)
<1>1. seen \in Shown /\ dps \in Reports
  BY DEF Sound, TypeOK
<1>2. ASSUME NEW sensor \in Sensors, Deliver(sensor)
      PROVE  /\ seen' = [seen EXCEPT ![sensor] = dps[sensor]] /\ seen[sensor] # dps[sensor]
             /\ UNCHANGED <<up, armed, disk, disturbed>>
  BY <1>2 DEF Deliver, history
<1>3. Deliver("volume") => /\ seen'.volume = dps.volume /\ seen.volume # dps.volume
                           /\ seen'.end = seen.end /\ UNCHANGED <<up, armed, disk, disturbed>>
  BY <1>1, <1>2 DEF Shown, Sensors
<1>4. ASSUME NEW sensor \in Sensors, Deliver(sensor), sensor # "volume"
      PROVE  seen'.volume = seen.volume
  BY <1>1, <1>2, <1>4 DEF Shown, Sensors
<1>5. CASE (\E end \in pend : RecordScheduled(end)) \/ CloseIdle \/ Arm \/ Rearm \/ Save \/ Boot
  BY <1>3, <1>5 DEF RecordScheduled, CloseIdle, Arm, Rearm, Save, Boot
<1> QED
  BY <1>3, <1>4, <1>5 DEF Inside

LEMMA InsideMetered ==
    ASSUME Sound, OldValve, dps.counter = None, Awake, Down, Metered, Gauged, Inside
    PROVE  Metered'
<1>1. UNCHANGED <<now, valve, run, dps, truth>>
  BY InsideFrame
<1>2. disk' \in {disk, Stored}
  BY DEF Inside, Deliver, RecordScheduled, CloseIdle, Arm, Rearm, Save, Stop, Boot
<1>3. ASSUME valve.odometer PROVE ~perCycle' /\ ~disk'.perCycle
  <2>1. ~perCycle /\ ~disk.perCycle /\ dps.volume >= Base
    BY <1>3 DEF Metered
  <2>2. ~disk'.perCycle
    BY <1>2, <2>1 DEF Stored
  <2>3. CASE armed /\ Deliver("volume") /\ OnVolume(dps.volume)
    <3>1. ~Restarted(acc.last, dps.volume)
      BY <2>1, WaterTypes DEF Restarted
    <3> QED
      BY <2>1, <2>2, <2>3, <3>1, HearsVolume
  <2>4. CASE (\E graceful \in BOOLEAN : Stop(graceful)) \/ Boot
    BY <2>1, <2>2, <2>4 DEF Stop, Boot
  <2> QED
    BY <2>1, <2>2, <2>3, <2>4, InsideWrites
<1>4. ASSUME valve.odometer, seen'.volume # None PROVE seen'.volume >= Base
  <2>1. (\E graceful \in BOOLEAN : Stop(graceful)) => seen'.volume = None
    BY DEF Stop, Unknown
  <2> QED
    BY <1>4, <2>1, InsideSeesVolume DEF Metered
<1> QED
  BY <1>1, <1>3, <1>4 DEF Metered

LEMMA InsideGauged ==
    ASSUME Sound, OldValve, dps.counter = None, Awake, Down, Gauged, Inside
    PROVE  Gauged'
<1>1. /\ UNCHANGED <<now, dps>> /\ acc \in Accumulator /\ now \in Nat /\ dps.volume \in Nat
      /\ None \notin Nat
  BY InsideFrame, SoundTypes, WaterTypes DEF Sound, TypeOK
<1>2. CASE \E graceful \in BOOLEAN : Stop(graceful)
  BY <1>2 DEF Stop, NewAccumulator, Gauged
<1>3. CASE armed /\ Deliver("volume") /\ OnVolume(dps.volume)
  <2>1. acc'.last = dps.volume /\ acc'.at = now /\ seen'.volume = dps.volume /\ armed'
    <3>1. seen \in Shown /\ seen' = [seen EXCEPT !["volume"] = dps["volume"]] /\ armed' = armed
      BY <1>3 DEF Deliver, Sound, TypeOK
    <3> QED
      BY <1>3, <3>1, HearsVolume DEF Shown
  <2> QED
    BY <1>1, <2>1 DEF Gauged
<1>4. CASE /\ ~(\E graceful \in BOOLEAN : Stop(graceful))
           /\ ~(armed /\ Deliver("volume") /\ OnVolume(dps.volume))
  <2>1. /\ acc'.last = acc.last /\ acc'.at = acc.at
        /\ acc'.delivered \in {acc.delivered, 0}
    <3>1. /\ Emptied(acc).last = acc.last /\ Emptied(acc).at = acc.at
          /\ Emptied(acc).delivered = 0
      BY <1>1 DEF Emptied, Accumulator
    <3>2. ASSUME NEW start, NEW end, RecordEnd(start, end) PROVE acc' \in {acc, Emptied(acc)}
      BY <3>2 DEF RecordEnd, RunLiters
    <3>3. Boot => acc' = acc
      BY DEF Boot
    <3> QED
      BY <1>4, <3>1, <3>2, <3>3, InsideWrites
  <2>2. ~armed' => ~armed
    BY <1>4, InsideDown, InsideAwake
    DEF Inside, Deliver, RecordScheduled, CloseIdle, Arm, Rearm, Save, Boot
  <2>3. acc.last # None => seen'.volume = seen.volume
    <3>1. acc.last # None => armed
      BY DEF Gauged
    <3>2. (armed /\ Deliver("volume")) => OnVolume(dps.volume)
      BY DEF Deliver
    <3> QED
      BY <1>4, <3>1, <3>2, InsideSeesVolume
  <2> QED
    BY <1>1, <2>1, <2>2, <2>3 DEF Gauged
<1> QED
  BY <1>2, <1>3, <1>4

(* A run that is counted stays so while its counter is heard.              *)
LEMMA VolumeCounts ==
    ASSUME Sound, Gauged, armed, Deliver("volume"), OnVolume(dps.volume),
           NEW liters \in Nat, Fresh(liters), UNCHANGED dps
    PROVE  Counting(liters) => Counting(liters)'
<1> SUFFICES ASSUME Counting(liters) PROVE Counting(liters)'
  OBVIOUS
<1>1. /\ dps.volume \in Nat /\ seen.volume \in Nat /\ seen.volume = dps.volume - 1
      /\ seen'.volume = dps.volume /\ acc.delivered \in Nat /\ 0 <= HeardOf(liters)
      /\ acc.last \in Nat \cup {None} /\ None \notin Nat
  <2>1. seen.volume # dps.volume /\ seen' = [seen EXCEPT !["volume"] = dps["volume"]]
    BY DEF Deliver
  <2>2. seen'.volume = dps.volume
    BY <2>1 DEF Sound, TypeOK, Shown
  <2> QED
    BY <2>1, <2>2, WaterTypes DEF Fresh
<1>2. HeardOf(liters)' = HeardOf(liters) + 1 /\ HeardOf(liters) \in Nat
  BY <1>1 DEF HeardOf
<1>3. CASE perCycle
  BY <1>3, HearsVolume DEF Counting
<1>4. CASE ~perCycle /\ acc.last = None
  <2>1. HeardOf(liters) = 0 /\ acc.delivered = 0
    BY <1>1, <1>4 DEF Counting
  <2>2. acc'.delivered = 0 /\ acc'.last # None
    BY <1>1, <1>4, <2>1, HearsVolume
  <2> QED
    BY <1>2, <2>1, <2>2 DEF Counting
<1>5. CASE ~perCycle /\ acc.last # None
  <2>1. dps.volume = acc.last + 1
    BY <1>1, <1>5 DEF Gauged
  <2>2. acc'.delivered = acc.delivered + 1 /\ acc'.last # None
    BY <1>1, <1>5, <2>1, HearsVolume
  <2>3. acc.delivered \in {HeardOf(liters) - 1, HeardOf(liters)}
    BY <1>5 DEF Counting
  <2>4. acc'.delivered \in {HeardOf(liters)' - 1, HeardOf(liters)'}
    BY <1>1, <1>2, <2>2, <2>3
  <2> QED
    BY <2>2, <2>4 DEF Counting
<1> QED
  BY <1>3, <1>4, <1>5

(* What a recorded close leaves in the accumulator.                        *)
LEMMA RecordEndLeaves ==
    ASSUME Sound, NEW start, NEW end, RecordEnd(start, end)
    PROVE  /\ acc'.delivered \in {acc.delivered, 0} /\ acc'.last = acc.last
           /\ (~perCycle /\ acc.delivered = 0) => acc' = acc
           /\ (~perCycle /\ acc.delivered > 0) =>
                 rows' = AddRun(rows, start, end, Sane(acc.delivered))
<1>1. acc \in Accumulator /\ acc.delivered \in Nat
  BY WaterTypes DEF Sound, TypeOK
<1>2. Emptied(acc).delivered = 0 /\ Emptied(acc).last = acc.last
  BY <1>1 DEF Emptied, Accumulator
<1> QED
  BY <1>1, <1>2 DEF RecordEnd, RunLiters

LEMMA InsideInRun ==
    ASSUME LongRests, Sound, OldValve, dps.counter = None, Chronicle, Spacing, Follows, Down,
           Metered, Gauged, InRun, Inside
    PROVE  InRun'
<1> SUFFICES ASSUME run # None, armed', run.start \notin disturbed'
             PROVE  /\ run.start = now =>
                         /\ valve.odometer => seen'.volume = dps.volume
                         /\ seen'.end = dps.end => perCycle' \/ acc'.delivered = 0
                    /\ run.start < now => Fresh(run.liters)' /\ Counting(run.liters)'
  BY InsideFrame DEF InRun
<1>1. /\ UNCHANGED <<now, valve, run, dps>> /\ disturbed \subseteq disturbed' /\ up'
      /\ InOrder /\ Awake
  BY InsideFrame, DisturbedGrows, InsideAwake DEF Inside, Next, Awake, Chronicle
<1>2. armed
  <2>1. Arm => run.start \in disturbed'
    BY <1>1 DEF Arm, Disturb, If, Latest
  <2> QED
    BY <1>1, <2>1, InsideDown
<1>3. /\ run.start = now =>
             /\ valve.odometer => seen.volume = dps.volume
             /\ seen.end = dps.end => perCycle \/ acc.delivered = 0
      /\ run.start < now => /\ Fresh(run.liters) /\ Counting(run.liters)
                            /\ seen.start = dps.start /\ seen.end = dps.end
  BY <1>1, <1>2 DEF InRun, Follows
<1>4. /\ run.start \in Nat /\ run.until \in Nat /\ now \in Nat /\ run.start <= now
      /\ now <= run.until /\ dps.end = run.until /\ dps.start = run.start /\ run.start < run.until
      /\ run.liters \in Nat /\ dps.volume \in Nat /\ None \notin Nat
  BY <1>1, SoundTypes, WaterTypes DEF Sound, OnSchedule, Spacing, InOrder
<1>5. \A graceful \in BOOLEAN : ~Stop(graceful)
  BY <1>1 DEF Stop
<1>6. CASE Deliver("volume")
  <2>1. OnVolume(dps.volume) /\ seen'.volume = dps.volume /\ seen.volume # dps.volume
        /\ seen'.end = seen.end
    <3>1. OnVolume(dps.volume)
      BY <1>2, <1>6 DEF Deliver
    <3> QED
      BY <1>5, <1>6, <3>1, InsideSeesVolume
  <2>2. CASE run.start < now
    <3>1. Counting(run.liters)'
      <4>0. PICK liters \in Nat : liters = run.liters
        BY <1>4
      <4>1. Counting(liters)'
        BY <1>1, <1>2, <1>3, <1>6, <2>1, <2>2, <4>0, VolumeCounts
      <4> QED
        BY <1>1, <4>0, <4>1 DEF Counting, HeardOf
    <3>2. Fresh(run.liters)'
      BY <1>1, <1>4, <2>1 DEF Fresh, HeardOf
    <3> QED
      BY <1>4, <2>2, <3>1, <3>2
  <2>3. CASE run.start = now
    <3>1. ~valve.odometer /\ dps.volume = 0
      BY <1>3, <1>4, <2>1, <2>3 DEF Metered
    <3>2. CASE acc.last = None
      BY <1>2, <1>3, <1>6, <2>1, <2>3, <3>1, <3>2, <1>4, HearsVolume
    <3>3. CASE acc.last # None
      <4>1. acc.last \in Nat /\ acc.last # dps.volume
        BY <2>1, <3>3, WaterTypes DEF Gauged
      <4>2. perCycle'
        BY <1>2, <1>6, <2>1, <3>1, <3>3, <4>1, HearsVolume
      <4> QED
        BY <2>3, <1>4, <3>1, <4>2
    <3> QED
      BY <3>2, <3>3
  <2> QED
    BY <1>4, <2>2, <2>3
<1>7. CASE ~Deliver("volume")
  <2>1. seen'.volume = seen.volume
    BY <1>5, <1>7, InsideSeesVolume
  <2>2. /\ acc'.delivered \in {acc.delivered, 0} /\ acc'.last = acc.last
        /\ perCycle' = perCycle
        /\ run.start < now => acc' = acc
    <3>1. CASE UNCHANGED <<rows, acc, perCycle, up>>
      BY <3>1
    <3>2. CASE Deliver("end") /\ acc' = Emptied(acc) /\ UNCHANGED perCycle
      <4>1. seen.end # dps.end
        BY <3>2 DEF Deliver
      <4>2. ~(run.start < now)
        BY <1>3, <4>1
      <4>3. Emptied(acc).delivered = 0 /\ Emptied(acc).last = acc.last
        BY DEF Emptied, Sound, TypeOK, Accumulator
      <4> QED
        BY <3>2, <4>2, <4>3
    <3>3. ASSUME NEW start \in Time, NEW end \in Time, Written(start, end), RecordEnd(start, end),
                 UNCHANGED perCycle
          PROVE  /\ acc'.delivered \in {acc.delivered, 0} /\ acc'.last = acc.last
                 /\ ~(run.start < now)
      <4>1. CASE end = dps.end /\ seen.end # dps.end
        BY <1>3, <3>3, <4>1, RecordEndLeaves
      <4>2. CASE end \in pend /\ end + Grace <= now
        <5>1. /\ end + Gap <= run.start \/ end = run.until
              /\ now <= end + Grace
          BY <4>2 DEF Spacing, Spaced, Closes
        <5>2. Gap \in Nat /\ Grace \in Nat /\ 1 <= Grace /\ Grace < Gap /\ end \in Nat
          BY BookTypes, TimeFacts DEF LongRests
        <5> QED
          BY <1>4, <4>2, <5>1, <5>2
      <4>3. ~Arm
        BY <1>2 DEF Arm
      <4> QED
        BY <3>3, <4>1, <4>2, <4>3 DEF Written
    <3>4. ~Boot
      BY <1>1, <1>2 DEF Boot, Awake
    <3> QED
      BY <1>1, <1>5, <1>7, <3>1, <3>2, <3>3, <3>4, InsideWrites
  <2>3. ASSUME seen'.end = dps.end, run.start = now PROVE perCycle' \/ acc'.delivered = 0
    <3>1. CASE seen.end = dps.end
      BY <1>3, <2>2, <2>3, <3>1
    <3>2. CASE seen.end # dps.end
      <4>1. OnEnd(dps.end)
        BY <1>1, <1>2, <2>3, <3>2, InsideHearsEnd, HearEnd
      <4>2. acc' = Emptied(acc)
        BY <1>4, <2>3, <4>1 DEF OnEnd, PreReport
      <4> QED
        BY <4>2 DEF Emptied, Sound, TypeOK, Accumulator
    <3> QED
      BY <3>1, <3>2
  <2>4. run.start < now => Fresh(run.liters)' /\ Counting(run.liters)'
    BY <1>1, <1>3, <2>1, <2>2 DEF Fresh, Counting, HeardOf
  <2> QED
    BY <1>3, <2>1, <2>3, <2>4
<1> QED
  BY <1>6, <1>7

(* A close that is recorded for the last run leaves it its liters.         *)
LEMMA RecordEndWatered ==
    ASSUME Sound, Chronicle, Spacing, OwnStarts(rows), Metered, Inside, armed,
           NEW start \in Time, NEW end \in Time, Written(start, end), RecordEnd(start, end),
           UNCHANGED perCycle,
           NEW t \in truth, t.start = dps.start, t.start \notin disturbed', Fresh(t.liters),
           Counting(t.liters) \/ Watered(rows, t)
    PROVE  ((perCycle \/ acc' = acc) /\ Counting(t.liters)) \/ Watered(rows', t)
<1>1. /\ InOrder /\ t.start \notin disturbed /\ rows \in SUBSET Row
      /\ UNCHANGED truth
  BY InsideFrame, DisturbedGrows DEF Chronicle, Inside, Next, Sound, TypeOK
<1>2. CASE Watered(rows, t)
  <2>0. PICK liters : liters = RunLiters(perCycle, acc)[1]
    OBVIOUS
  <2>1. liters \in Liters \cup {None}
    BY <2>0 DEF RunLiters, Sane, Liters, Sound, TypeOK, Accumulator, Shown
  <2>2. rows' = AddRun(rows, start, end, liters)
    BY <2>0 DEF RecordEnd
  <2> QED
    BY <1>1, <1>2, <2>1, <2>2, AddRunTruthy DEF Watered
<1>3. CASE Counting(t.liters) /\ perCycle
  BY <1>3
<1>4. CASE Counting(t.liters) /\ ~perCycle /\ acc.delivered = 0
  BY <1>4, RecordEndLeaves
<1>5. CASE Counting(t.liters) /\ ~perCycle /\ acc.delivered # 0
  <2>1. /\ t.liters \in Nat /\ t.liters < Base /\ Base \in Nat
        /\ dps.volume \in Nat /\ seen.volume \in Nat /\ acc.delivered \in Nat /\ None \notin Nat
        /\ seen.volume \in {dps.volume - 1, dps.volume}
    <3>1. t.liters \in Nat /\ t.liters <= t.end - t.start /\ t.end \in Time /\ t.start \in Nat
      BY WaterTypes, SoundTypes DEF Metered
    <3>2. t.end < Base /\ t.end \in Nat /\ Base \in Nat
      BY <3>1, WaterTypes, TimeFacts
    <3> QED
      BY <3>1, <3>2, WaterTypes DEF Fresh
  <2>2. acc.delivered \in {HeardOf(t.liters) - 1, HeardOf(t.liters)}
    BY <1>5 DEF Counting
  <2>3. HeardOf(t.liters) \in {t.liters - 1, t.liters}
    BY <2>1 DEF HeardOf
  <2>4. acc.delivered > 0 /\ acc.delivered < Base
    BY <1>5, <2>1, <2>2, <2>3
  <2>5. Sane(acc.delivered) = acc.delivered /\ Truthy(acc.delivered)
    BY <2>1, <2>4 DEF Sane, Truthy
  <2>6. rows' = AddRun(rows, start, end, acc.delivered)
    BY <1>5, <2>4, <2>5, RecordEndLeaves
  <2>7. start = t.start /\ start < end
    BY WritesOwn DEF Written, PairsUp
  <2>8. \A q \in rows : q.end = end => q.start = start
    <3>1. CASE end = dps.end
      <4>1. t.end = end
        BY <1>1, <3>1, LastOfTruth
      <4>2. \A q \in rows : q.start < q.end
        BY DEF Sound, AllGood, GoodRows
      <4> QED
        BY <1>1, <2>7, <4>1, <4>2 DEF OwnStarts, Rightly, InOrder
    <3>2. CASE Near(rows, end, Slack) = {}
      BY <1>1, <3>2, NoneNear, BookTypes, TimeFacts
    <3> QED
      BY <3>1, <3>2 DEF Written, Arm
  <2> QED
    BY <1>1, <2>1, <2>5, <2>6, <2>7, <2>8, AddRunWaters DEF Watered, Liters
<1> QED
  BY <1>2, <1>3, <1>4, <1>5

LEMMA InsideAfterRun ==
    ASSUME LongRests, Sound, OldValve, dps.counter = None, Chronicle, Spacing, Down,
           OwnStarts(rows), Metered, Gauged, AfterRun, Inside
    PROVE  AfterRun'
<1>1. /\ UNCHANGED <<now, valve, run, dps, truth>> /\ disturbed \subseteq disturbed'
      /\ InOrder /\ Awake
  BY InsideFrame, DisturbedGrows DEF Inside, Next, Chronicle
<1> SUFFICES ASSUME NEW t \in truth, run = None, armed', t.start = dps.start,
                    t.start \notin disturbed'
             PROVE  /\ Fresh(t.liters)'
                    /\ (seen'.end # dps.end \/ pend' # {})
                          => Counting(t.liters)' \/ Watered(rows', t)
  BY <1>1 DEF AfterRun, Watered
<1>2. /\ up' /\ t.start \notin disturbed /\ dps.start # None
      /\ t.liters \in Nat /\ dps.volume \in Nat /\ None \notin Nat
      /\ dps.end = t.end /\ t.end <= now /\ t.end \in Nat /\ now \in Nat
  BY <1>1, InsideAwake, SoundTypes, WaterTypes, LastOfTruth DEF Awake, Metered, InOrder
<1>3. \A graceful \in BOOLEAN : ~Stop(graceful)
  BY <1>2 DEF Stop
<1>4. CASE ~armed
  <2>1. Arm
    BY <1>1, <1>4, InsideDown
  <2>2. AllSeen
    <3>1. dps.start \in Latest
      BY <1>1, <1>2, LatestReported
    <3> QED
      BY <2>1, <3>1 DEF Arm, Disturb, If
  <2>3. UNCHANGED <<seen, pend>> /\ pend = {}
    BY <1>4, <2>1 DEF Arm, Down
  <2> QED
    BY <1>1, <1>2, <2>2, <2>3 DEF AllSeen, Fresh, HeardOf
<1>5. CASE armed
  <2>1. /\ Fresh(t.liters)
        /\ (seen.end # dps.end \/ pend # {}) => Counting(t.liters) \/ Watered(rows, t)
    BY <1>2, <1>5 DEF AfterRun
  <2>2. Fresh(t.liters)'
    <3>1. seen'.volume \in {seen.volume, dps.volume}
      BY <1>3, InsideSeesVolume
    <3>2. CASE seen'.volume = seen.volume
      BY <1>1, <2>1, <3>2 DEF Fresh, HeardOf
    <3>3. CASE seen'.volume = dps.volume
      BY <1>1, <1>2, <3>3 DEF Fresh, HeardOf
    <3> QED
      BY <3>1, <3>2, <3>3
  <2>3. ASSUME seen'.end # dps.end \/ pend' # {} PROVE Counting(t.liters) \/ Watered(rows, t)
    <3>1. seen'.end # dps.end => seen.end # dps.end
      BY <1>2, InsideHearsEnd
    <3>2. pend' # {} => pend # {}
      <4> SUFFICES ASSUME NEW end \in pend', pend = {} PROVE FALSE
        OBVIOUS
      <4>1. end = dps.end /\ end > now
        BY InsideAwaits
      <4> QED
        BY <1>2, <4>1
    <3> QED
      BY <2>1, <2>3, <3>1, <3>2
  <2>4. ASSUME Counting(t.liters) \/ Watered(rows, t)
        PROVE  Counting(t.liters)' \/ Watered(rows', t)
    <3>1. CASE Deliver("volume")
      <4>1. OnVolume(dps.volume)
        BY <1>5, <3>1 DEF Deliver
      <4>2. Counting(t.liters) => Counting(t.liters)'
        <5>0. PICK liters \in Nat : liters = t.liters
          BY <1>2
        <5>1. Counting(liters) => Counting(liters)'
          BY <1>1, <1>5, <2>1, <3>1, <4>1, <5>0, VolumeCounts
        <5> QED
          BY <1>1, <5>0, <5>1 DEF Counting, HeardOf
      <4>3. perCycle' => Counting(t.liters)'
        BY DEF Counting
      <4> QED
        BY <1>5, <2>4, <3>1, <4>1, <4>2, <4>3, HearsVolume
    <3>2. CASE ~Deliver("volume")
      <4>1. seen'.volume = seen.volume
        BY <1>3, <3>2, InsideSeesVolume
      <4>2. (UNCHANGED perCycle /\ (perCycle \/ acc' = acc) /\ Counting(t.liters))
               => Counting(t.liters)'
        BY <1>1, <4>1 DEF Counting, HeardOf
      <4>3. ASSUME NEW start \in Time, NEW end \in Time, Written(start, end),
                   RecordEnd(start, end), UNCHANGED perCycle
            PROVE  Counting(t.liters)' \/ Watered(rows', t)
        BY <1>5, <2>1, <2>4, <4>2, <4>3, RecordEndWatered
      <4>4. ~(Deliver("end") /\ dps.end > now)
        BY <1>2
      <4>5. ~Boot
        BY <1>1, <1>5 DEF Boot, Awake
      <4> QED
        BY <1>1, <1>3, <2>4, <3>2, <4>2, <4>3, <4>4, <4>5, InsideWrites DEF Watered
    <3> QED
      BY <3>1, <3>2
  <2> QED
    BY <2>2, <2>3, <2>4
<1> QED
  BY <1>4, <1>5

LEMMA InsideOwnWater ==
    ASSUME LongRests, Sound, OldValve, Bounds, Courses, Books, Waters, Inside
    PROVE  OwnWater(rows)' /\ OwnWater(disk.rows)'
<1>1. /\ Chronicle /\ InOrder /\ Awake /\ Metered /\ Gauged /\ AfterRun
      /\ OwnWater(rows) /\ OwnWater(disk.rows)
      /\ dps.counter = None /\ OneRowPerBound(rows) /\ OneRowPerBound(disk.rows)
      /\ UNCHANGED <<valve, run, dps, truth>> /\ disturbed \subseteq disturbed'
      /\ disk.rows \in SUBSET Row
  BY InsideFrame, DisturbedGrows
  DEF Inside, Next, Courses, Chronicle, Bounds, Waters, Sound, TypeOK
<1>2. ASSUME NEW table, OwnWater(table), NEW t \in truth, t.start \notin disturbed',
             NEW r \in table, r.start = t.start, r.liters # None
      PROVE  Misses(r.liters, t)
  BY <1>1, <1>2 DEF OwnWater
<1>3. ASSUME NEW t \in truth, t.start \notin disturbed', NEW r \in rows', r.start = t.start,
             r.liters # None
      PROVE  Misses(r.liters, t)
  <2>1. CASE UNCHANGED rows
    BY <1>1, <1>2, <1>3, <2>1
  <2>2. ASSUME NEW start \in Time, NEW end \in Time, Written(start, end), RecordEnd(start, end)
        PROVE  Misses(r.liters, t)
    BY <1>1, <1>3, <2>2, RecordEndWater
  <2>3. CASE armed /\ Deliver("volume") /\ OnVolume(dps.volume)
    <3>1. rows' = rows \/ (perCycle' /\ rows' = LateReading(rows, dps.volume))
      BY <1>1, <2>3, HearsVolume
    <3>2. perCycle' => ~valve.odometer
      BY <1>1, InsideMetered DEF Metered, Books
    <3>3. t.start \notin disturbed
      BY <1>1, <1>3
    <3> QED
      BY <1>1, <1>3, <2>1, <3>1, <3>2, <3>3, LateReadingWater
  <2>4. CASE \E graceful \in BOOLEAN : Stop(graceful)
    BY <1>3, <2>4 DEF Stop
  <2>5. CASE Boot
    <3>1. rows' = disk.rows
      BY <1>1, <2>5, DedupedSame DEF Boot
    <3> QED
      BY <1>1, <1>2, <1>3, <3>1
  <2> QED
    BY <1>1, <2>1, <2>2, <2>3, <2>4, <2>5, InsideWrites
<1>4. OwnWater(rows)'
  BY <1>1, <1>3 DEF OwnWater, Misses
<1>5. OwnWater(disk.rows)'
  BY <1>1, <1>2, InsideDisk DEF OwnWater, Misses
<1> QED
  BY <1>4, <1>5

-----------------------------------------------------------------------------
(* What the valve and the clock do to the water                            *)

LEMMA StartRunWater ==
    ASSUME Sound, OldValve, InOrder, Awake, Spacing, Waters, NEW length \in Lengths, StartRun(length)
    PROVE  Waters'
<1>1. /\ UNCHANGED <<now, valve, truth, seen, acc, pend, armed, rows, disk, perCycle>>
      /\ run = None /\ run' # None /\ run'.start = now /\ run'.liters = 0 /\ rest <= now
      /\ dps'.end = now + length /\ dps'.volume = IF valve.odometer THEN dps.volume ELSE 0
      /\ disturbed \subseteq disturbed'
      /\ (armed /\ ~AllSeen) => now \in disturbed'
  <2>1. dps \in Reports
    BY DEF Sound, TypeOK
  <2>2. [start |-> now, until |-> now + length, liters |-> 0] # None
    <3>1. now \in Time /\ now + length \in Time
      BY ThresholdsAssumption DEF StartRun, Sound, TypeOK, Time
    <3> QED
      BY <3>1, NoneAssumption DEF Running
  <2> QED
    BY <2>1, <2>2 DEF StartRun, Reports, memory, Disturb, If
<1>2. /\ now \in Nat /\ dps.volume \in Nat /\ acc.last \in Nat \cup {None} /\ Base \in Nat
  BY SoundTypes, WaterTypes
<1>3. Metered'
  BY <1>1, <1>2 DEF Waters, Metered
<1>4. Gauged'
  BY <1>1, <1>2 DEF Waters, Gauged
<1>5. seen.end # now + length
  <2>1. length \in Nat /\ 1 <= length /\ now \in Nat /\ rest \in Nat /\ Gap \in Nat
    BY ThresholdsAssumption, SoundTypes, BookTypes
  <2>2. seen.end # None => seen.end \in Closes /\ seen.end <= rest - Gap
    BY <1>1 DEF Spacing, Spaced, Horizon, Closes
  <2> QED
    BY <1>1, <2>1, <2>2, SoundTypes
<1>6. InRun'
  <2>1. (armed /\ now \notin disturbed') => seen.volume = dps.volume
    BY <1>1 DEF AllSeen
  <2>2. ~(now < now)
    BY <1>2
  <2> QED
    BY <1>1, <1>5, <2>1, <2>2 DEF InRun
<1>7. AfterRun'
  BY <1>1 DEF AfterRun
<1>8. OwnWater(rows)' /\ OwnWater(disk.rows)'
  BY <1>1 DEF Waters, OwnWater, Misses
<1> QED
  BY <1>3, <1>4, <1>6, <1>7, <1>8 DEF Waters

LEMMA CloseRunWater ==
    ASSUME Sound, OldValve, InOrder, Books, Waters, CloseRun
    PROVE  Waters'
<1>0. PICK t : t = [start |-> run.start, end |-> now, liters |-> run.liters]
  OBVIOUS
<1>1. /\ UNCHANGED <<now, valve, seen, acc, pend, armed, rows, disk, perCycle, disturbed>>
      /\ run # None /\ run' = None /\ run.start < now
      /\ truth' = truth \cup {t}
      /\ dps'.start = dps.start /\ dps'.end = now /\ dps'.volume = dps.volume
  <2>1. dps \in Reports
    BY DEF Sound, TypeOK
  <2> QED
    BY <1>0, <2>1 DEF CloseRun, Reports, memory
<1>2. t.start = run.start /\ t.end = now /\ t.liters = run.liters
  BY <1>0
<1>3. /\ run.start \in Nat /\ now \in Nat /\ run.liters \in Nat /\ dps.start = run.start
      /\ \A q \in truth : q.start < q.end /\ q.end <= run.start /\ q.start \in Nat /\ q.end \in Nat
  BY <1>1, SoundTypes, WaterTypes DEF InOrder
<1>4. \A q \in truth : q.start # dps.start
  BY <1>3
<1>5. Metered'
  BY <1>1, <1>2, <1>3, <1>4 DEF Waters, Metered
<1>6. Gauged'
  BY <1>1 DEF Waters, Gauged
<1>7. InRun'
  BY <1>1 DEF InRun
<1>8. AfterRun'
  <2> SUFFICES ASSUME armed, t.start \notin disturbed
               PROVE  Fresh(t.liters)' /\ Counting(t.liters)'
    BY <1>1, <1>4 DEF AfterRun
  <2>1. Fresh(run.liters) /\ Counting(run.liters)
    BY <1>1, <1>2 DEF Waters, InRun
  <2>2. Fresh(t.liters) /\ Counting(t.liters)
    BY <1>2, <2>1
  <2>3. UNCHANGED t
    BY <1>0, <1>1, <1>2
  <2> QED
    BY <1>1, <2>2, <2>3 DEF Fresh, Counting, HeardOf
<1>9. ASSUME NEW table, OwnWater(table), Exact(table), UNCHANGED table PROVE OwnWater(table)'
  <2> SUFFICES ASSUME NEW q \in truth \cup {t}, q.start \notin disturbed, NEW r \in table,
                      r.start = q.start, r.liters # None
               PROVE  Misses(r.liters, q)
    BY <1>1, <1>9 DEF OwnWater, Misses
  <2>1. CASE q \in truth
    BY <1>9, <2>1 DEF OwnWater
  <2>2. CASE q = t
    BY <1>1, <1>2, <1>9, <2>2 DEF Exact, Exactly
  <2> QED
    BY <2>1, <2>2
<1>10. OwnWater(rows)' /\ OwnWater(disk.rows)'
  BY <1>1, <1>9 DEF Waters, Books
<1> QED
  BY <1>5, <1>6, <1>7, <1>8, <1>10 DEF Waters

LEMMA TickWater ==
    ASSUME Sound, OldValve, InOrder, Awake, Waters, Tick
    PROVE  Waters'
<1>0. PICK flow \in Flow :
          /\ dps' = [dps EXCEPT !.volume = @ + flow]
          /\ run' = IF run = None THEN None ELSE [run EXCEPT !.liters = @ + flow]
  BY DEF Tick
<1>1. /\ UNCHANGED <<valve, truth, seen, acc, pend, armed, rows, disk, perCycle>>
      /\ now' = now + 1 /\ flow \in {0, 1}
      /\ dps'.start = dps.start /\ dps'.end = dps.end /\ dps'.volume = dps.volume + flow
      /\ disturbed' = disturbed \cup If(up /\ ~AllSeen, Latest \cup Mistaken)
  BY <1>0, TickFrame DEF Tick, memory, Flow, Disturb, Sound, TypeOK, Reports
<1>2. /\ run = None => run' = None /\ flow = 0
      /\ run # None => run' # None /\ run'.start = run.start /\ run'.liters = run.liters + flow
  <2>1. run = None => run' = None /\ flow = 0
    BY <1>0 DEF Flow
  <2>2. run # None => run'.liters = run.liters + flow
    BY <1>0 DEF Sound, TypeOK, Running
  <2> QED
    BY <2>1, <2>2, TickFrame
<1>3. /\ now \in Nat /\ dps.volume \in Nat /\ acc.at \in Nat /\ Base \in Nat
      /\ acc.delivered \in Nat /\ None \notin Nat
      /\ run # None => run.start \in Nat /\ run.liters \in Nat /\ run.start <= now
  BY SoundTypes, WaterTypes DEF Sound, OnSchedule
<1>4. Metered'
  BY <1>1, <1>2, <1>3 DEF Waters, Metered
<1>5. Gauged'
  BY <1>1, <1>3 DEF Waters, Gauged
<1>6. InRun'
  <2> SUFFICES ASSUME run # None, armed, run.start \notin disturbed'
               PROVE  run'.start < now' /\ Fresh(run.liters)' /\ Counting(run.liters)'
    BY <1>1, <1>2, <1>3 DEF InRun
  <2>1. AllSeen
    BY <1>1 DEF If, Latest, Awake
  <2>2. run.start \notin disturbed
    BY <1>1
  <2>3. /\ seen.volume = dps.volume /\ HeardOf(run.liters) = run.liters
        /\ HeardOf(run.liters)' = run.liters
    BY <1>1, <1>2, <1>3, <2>1 DEF AllSeen, HeardOf
  <2>4. Fresh(run.liters)'
    BY <1>1, <1>3, <2>3 DEF Fresh
  <2>5. Counting(run.liters)'
    <3>1. CASE run.start < now
      <4>1. Counting(run.liters)
        BY <2>2, <3>1 DEF Waters, InRun
      <4> QED
        BY <1>1, <2>3, <4>1 DEF Counting
    <3>2. CASE run.start = now
      <4>1. perCycle \/ acc.delivered = 0
        BY <2>1, <2>2, <3>2 DEF Waters, InRun, AllSeen
      <4>2. run.liters = 0
        BY <1>3, <3>2 DEF Waters, Metered
      <4> QED
        BY <1>1, <2>3, <4>1, <4>2 DEF Counting
    <3> QED
      BY <1>3, <3>1, <3>2
  <2> QED
    BY <1>1, <1>2, <1>3, <2>4, <2>5
<1>7. AfterRun'
  <2> SUFFICES ASSUME run = None, NEW t \in truth, armed, t.start = dps.start,
                      t.start \notin disturbed
               PROVE  /\ Fresh(t.liters)'
                      /\ (seen.end # dps.end \/ pend # {})
                            => Counting(t.liters)' \/ Watered(rows, t)
    BY <1>1, <1>2 DEF AfterRun, Watered
  <2>1. dps'.volume = dps.volume
    BY <1>1, <1>2, <1>3
  <2> QED
    BY <1>1, <2>1 DEF Waters, AfterRun, Fresh, Counting, HeardOf
<1>8. OwnWater(rows)' /\ OwnWater(disk.rows)'
  BY <1>1 DEF Waters, OwnWater, Misses
<1> QED
  BY <1>4, <1>5, <1>6, <1>7, <1>8 DEF Waters

OldWaters == (OldValve /\ LongRests) => Waters

LEMMA InitWaters == Init => OldWaters
<1> SUFFICES ASSUME Init PROVE Waters
  BY DEF OldWaters
<1>1. /\ truth = {} /\ run = None /\ rows = {} /\ disk.rows = {} /\ armed
      /\ perCycle = FALSE /\ disk.perCycle = FALSE /\ seen = dps
      /\ dps.volume = IF valve.odometer THEN Base ELSE 0
      /\ acc.last = dps.volume /\ acc.at = 0 /\ now = 0
  BY DEF Init, Unknown, NewAccumulator
<1>2. Base \in Nat
  BY InitSound, WaterTypes
<1> QED
  BY <1>1, <1>2 DEF Waters, Metered, Gauged, InRun, AfterRun, OwnWater

LEMMA NextWaters ==
    Sound /\ Bounds /\ Courses /\ OldBooks /\ OldWaters /\ [Next]_vars => OldWaters'
<1> SUFFICES ASSUME Sound, Bounds, Courses, OldBooks, OldWaters, [Next]_vars PROVE OldWaters'
  OBVIOUS
<1>1. CASE UNCHANGED vars
  BY <1>1 DEF vars, outside, memory, history, OldWaters, OldValve, Waters, Metered, Gauged, InRun,
              AfterRun, OwnWater, Misses, Fresh, Counting, HeardOf, Watered
<1>2. CASE Next
  <2> SUFFICES ASSUME OldValve, LongRests PROVE Waters'
    BY <1>2, DisturbedGrows DEF OldValve, OldWaters
  <2>1. /\ Chronicle /\ InOrder /\ Awake /\ Books /\ Spacing /\ Follows /\ Down /\ OwnStarts(rows)
        /\ Waters /\ Metered /\ Gauged /\ InRun /\ AfterRun /\ dps.counter = None
    BY DEF Courses, Chronicle, OldBooks, Books, OldWaters, Waters, Bounds
  <2>2. CASE Inside
    <3>1. Metered' /\ Gauged'
      BY <2>1, <2>2, InsideMetered, InsideGauged
    <3>2. InRun' /\ AfterRun'
      BY <2>1, <2>2, InsideInRun, InsideAfterRun
    <3>3. OwnWater(rows)' /\ OwnWater(disk.rows)'
      BY <2>1, <2>2, InsideOwnWater
    <3> QED
      BY <3>1, <3>2, <3>3 DEF Waters
  <2>3. ~SendRecord
    BY DEF SendRecord
  <2> QED
    BY <1>2, <2>1, <2>2, <2>3, StartRunWater, CloseRunWater, TickWater DEF Next, Inside
<1> QED
  BY <1>1, <1>2

LEMMA WatersOwn == Courses /\ OldWaters => ((OldValve /\ LongRests) => OwnLiters)
BY DEF Courses, OwnStarts, Rightly, OldWaters, Waters, OwnWater, Misses, OwnLiters, Meets

(* A row of an old valve that meets a run whose reports came in time holds *)
(* the water of that run, of no other, but for the first and the last      *)
(* reading: whether the liters come from the accumulator, from the counter *)
(* of a valve that restarts it with every run, or from a reading after the *)
(* close, through every order of reports, stops, crashes and replays       *)
(* (runs_store.py, _run_liters, _late_close_reading, _on_change).          *)
THEOREM OldRunsOwnWater == Spec => []((OldValve /\ LongRests) => OwnLiters)
<1>1. Init => Bounds
  BY DEF Init, Bounds, OneRowPerBound, Unknown
<1> QED
  BY <1>1, AlwaysSound, NextBounds, InitCourses, NextCourses, InitBooks, NextBooks, InitWaters,
     NextWaters, WatersOwn, PTL DEF Spec

=============================================================================
