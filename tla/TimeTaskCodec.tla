--------------------------- MODULE TimeTaskCodec ---------------------------
(* The timer data point of the irrigation valves: a frame of bytes that      *)
(* holds the timer of one slot, the last that was written.  Home Assistant   *)
(* writes whole frames; the SmartLife app flips the byte that enables the    *)
(* timer; what the registry shows is decoded from the frame, and what a user *)
(* edits goes back through the published form of a timer.                    *)
EXTENDS Integers, Sequences

CONSTANTS
    TaskSlots, TaskHours, TaskMinutes, Amounts, Masks   \* the timers that are written

TopByte == 16777216      \* what the first of four bytes counts

(* An amount is four bytes, a mask seven bits: the services and the encoder  *)
(* refuse others.                                                           *)
ASSUME TaskAssumption ==
    /\ TaskSlots \subseteq 0..6
    /\ TaskHours \subseteq 0..23
    /\ TaskMinutes \subseteq 0..59
    /\ Amounts \subseteq {v \in Nat : v \div 256 < TopByte}
    /\ Masks \subseteq 0..127

VARIABLES
    valve,      \* the family of the valve
    frame,      \* its timer data point
    task        \* what was last written to it: a slot, and its timer or none

taskVars == <<valve, frame, task>>

Families == {"QT-08W", "QT-08W-T3"}
Duration == 0
Volume == 1
Modes == {Duration, Volume}

TaskTimer == [slot: TaskSlots, hour: TaskHours, minute: TaskMinutes, mode: Modes, value: Amounts, days: Masks,
              enabled: BOOLEAN]

(* A slot that holds no timer has an empty set where its timer would be.     *)
Empty(slot) == [slot |-> slot, timers |-> {}]
Holds(timer) == [slot |-> timer.slot, timers |-> {timer}]
Tasks == {Empty(slot) : slot \in TaskSlots} \cup {Holds(timer) : timer \in TaskTimer}

-----------------------------------------------------------------------------
(* Bytes. *)

BigEndian(v) == <<v \div TopByte, (v \div 65536) % 256, (v \div 256) % 256, v % 256>>
FromBigEndian(b1, b2, b3, b4) == b1 * TopByte + b2 * 65536 + b3 * 256 + b4
Flag(enabled) == IF enabled THEN 1 ELSE 0

(* A plausible bug: the last byte is left at zero, which a delete leaves too. *)
EncodeQt08wUnmarked(timer) ==
    LET amount == BigEndian(timer.value)
    IN  <<timer.slot, Flag(timer.enabled), timer.mode % 256, amount[1], amount[2], amount[3], amount[4],
          timer.hour % 256, timer.minute % 256, timer.days % 128, 0>>
EncodeQt08w(timer) ==
    LET amount == BigEndian(timer.value)
    IN  <<timer.slot, Flag(timer.enabled), timer.mode % 256, amount[1], amount[2], amount[3], amount[4],
          timer.hour % 256, timer.minute % 256, timer.days % 128, 1>>

EncodeT3(timer) ==
    LET amount == BigEndian(timer.value)
    IN  <<0, timer.slot, timer.slot, timer.mode % 256, amount[1], amount[2], amount[3], amount[4],
          timer.hour % 256, timer.minute % 256, timer.days % 128, Flag(timer.enabled)>>

ClearQt08w(slot) == <<slot, 0, 0, 0, 0, 0, 0, 0, 0, 0, 0>>
ClearT3(slot) == <<0, slot, 0, 0, 0, 0, 0, 0, 0, 0, 0, 0>>

(* Any payload at all, even that of a disabled timer, keeps the slot. *)
DecodeQt08w(f) ==
    IF f[2] = 0 /\ \A i \in 3..11 : f[i] = 0 THEN Empty(f[1])
    ELSE Holds([slot |-> f[1], hour |-> f[8], minute |-> f[9], mode |-> f[3],
                value |-> FromBigEndian(f[4], f[5], f[6], f[7]), days |-> f[10], enabled |-> f[2] # 0])

(* The mode does not count: a timer that waters nothing, at midnight, on no  *)
(* day and disabled is an empty slot.                                        *)
DecodeT3(f) ==
    IF \A i \in 5..12 : f[i] = 0 THEN Empty(f[2])
    ELSE Holds([slot |-> f[2], hour |-> f[9], minute |-> f[10], mode |-> f[4],
                value |-> FromBigEndian(f[5], f[6], f[7], f[8]), days |-> f[11], enabled |-> f[12] # 0])

Encode(timer) == IF valve = "QT-08W" THEN EncodeQt08w(timer) ELSE EncodeT3(timer)
ClearFrame(slot) == IF valve = "QT-08W" THEN ClearQt08w(slot) ELSE ClearT3(slot)
Decode(f) == IF valve = "QT-08W" THEN DecodeQt08w(f) ELSE DecodeT3(f)
EnabledByte == IF valve = "QT-08W" THEN 2 ELSE 12

-----------------------------------------------------------------------------
(* The form of a timer that is published and sent back: the days by name,    *)
(* Monday first, the mode by name.                                          *)

DayBits == [i \in 0..6 |-> CASE i = 0 -> 1 [] i = 1 -> 2 [] i = 2 -> 4 [] i = 3 -> 8
                             [] i = 4 -> 16 [] i = 5 -> 32 [] i = 6 -> 64]
DaysOf(mask) == {i \in 0..6 : (mask \div DayBits[i]) % 2 = 1}
Bit(days, i) == IF i \in days THEN DayBits[i] ELSE 0
DaysToMask(days) == Bit(days, 0) + Bit(days, 1) + Bit(days, 2) + Bit(days, 3)
                      + Bit(days, 4) + Bit(days, 5) + Bit(days, 6)

AsAttribute(timer) ==
    [slot |-> timer.slot, hour |-> timer.hour, minute |-> timer.minute,
     mode |-> IF timer.mode = Duration THEN "duration" ELSE "volume",
     value |-> timer.value, days |-> DaysOf(timer.days), enabled |-> timer.enabled]

ModeFromName(name) == IF name = "duration" THEN Duration ELSE Volume

(* What the set_timer service makes of the fields it is sent. *)
FromFields(fields) ==
    [slot |-> fields.slot, hour |-> fields.hour, minute |-> fields.minute,
     mode |-> ModeFromName(fields.mode), value |-> fields.value,
     days |-> DaysToMask(fields.days), enabled |-> fields.enabled]

-----------------------------------------------------------------------------
(* The behaviour. *)

TaskInit ==
    /\ valve \in Families
    /\ \E slot \in TaskSlots :
          /\ frame = IF valve = "QT-08W" THEN ClearQt08w(slot) ELSE ClearT3(slot)
          /\ task = Empty(slot)

WriteTask(timer) ==
    /\ frame' = Encode(timer)
    /\ task' = Holds(timer)
    /\ UNCHANGED valve

SetTimer == \E timer \in TaskTimer : WriteTask(timer)

(* An edit of what the registry shows: a field is changed, the others are    *)
(* sent back as they were published; the timer stays otherwise.              *)
EditTimer ==
    \E shown \in Decode(frame).timers, amount \in Amounts :
        LET fields == [AsAttribute(shown) EXCEPT !.value = amount]
        IN  /\ frame' = Encode(FromFields(fields))
            /\ \E timer \in task.timers : task' = Holds([timer EXCEPT !.value = amount])
            /\ UNCHANGED valve

ClearTimer ==
    \E slot \in TaskSlots :
        /\ frame' = ClearFrame(slot)
        /\ task' = Empty(slot)
        /\ UNCHANGED valve

(* The app enables or disables the timer it shows. *)
AppToggles ==
    /\ Decode(frame).timers # {}
    /\ frame' = [frame EXCEPT ![EnabledByte] = 1 - @]
    /\ \E timer \in task.timers : task' = Holds([timer EXCEPT !.enabled = ~@])
    /\ UNCHANGED valve

TaskNext == SetTimer \/ EditTimer \/ ClearTimer \/ AppToggles

TaskSpec == TaskInit /\ [][TaskNext]_taskVars

-----------------------------------------------------------------------------
(* Properties. *)

TaskTypeOK == valve \in Families /\ task \in Tasks /\ Len(frame) = IF valve = "QT-08W" THEN 11 ELSE 12

(* Nothing is left of a timer that a newer valve takes for an empty slot.    *)
WatersNothing(timer) ==
    timer.value = 0 /\ timer.hour = 0 /\ timer.minute = 0 /\ timer.days = 0 /\ ~timer.enabled

(* What the registry decodes from the frame is the timer that was written,   *)
(* with every edit of its amount and every toggle of the app, and an empty   *)
(* slot only after a clear; a newer valve cannot tell a disabled timer       *)
(* without amount, hour, minute and days from one.                           *)
FramesTell ==
    LET Kept(timer) == valve = "QT-08W" \/ ~WatersNothing(timer)
    IN  Decode(frame) = [task EXCEPT !.timers = {timer \in task.timers : Kept(timer)}]
=============================================================================
