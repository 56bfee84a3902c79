--------------------------- MODULE DevicesProofs ---------------------------
(***************************************************************************)
(* Theorems about what a device is asked and told: the frames of a         *)
(* valve's timer (TimeTaskCodec), the fall-backs of a command (Commands),  *)
(* the position of a timed cover (Covers), the copies that the accounts    *)
(* keep of a device (DeviceCopies) and the codes it keeps when its         *)
(* descriptions are merged and repaired (DpRepair).                        *)
(***************************************************************************)
EXTENDS TimeTaskCodec, Commands, Covers, DeviceCopies, DpRepair, FiniteSetTheorems, SequenceTheorems,
        WellFoundedInduction, TLAPS

-----------------------------------------------------------------------------
(* The frames of the timer data point tell the timer that was written, for *)
(* every amount, time and mask and along every sequence of writes, edits,  *)
(* toggles and clears.                                                     *)

(* The four bytes of an amount are bytes, give it back, and are all zero for *)
(* the amount zero only.                                                     *)
LEMMA FourBytes ==
    ASSUME NEW v \in Nat, v \div 256 < TopByte
    PROVE  LET b == BigEndian(v)
           IN  /\ b[1] \in Nat /\ b[2] \in Nat /\ b[3] \in Nat /\ b[4] \in Nat
               /\ FromBigEndian(b[1], b[2], b[3], b[4]) = v
  BY SMTT(30) DEF BigEndian, FromBigEndian, TopByte

LEMMA ZeroBytes ==
    ASSUME NEW v \in Nat, v \div 256 < TopByte
    PROVE  LET b == BigEndian(v)
           IN  (b[1] = 0 /\ b[2] = 0 /\ b[3] = 0 /\ b[4] = 0) <=> v = 0
  BY SMTT(30) DEF BigEndian, TopByte

(* The days of a mask, by name, give the mask back. *)
LEMMA DaysRoundTrip ==
    ASSUME NEW mask \in 0..127
    PROVE  DaysToMask(DaysOf(mask)) = mask
<1>1. \A i \in 0..6 : i \in DaysOf(mask) <=> (mask \div DayBits[i]) % 2 = 1
  BY Zenon DEF DaysOf
<1>2. /\ DayBits[0] = 1 /\ DayBits[1] = 2 /\ DayBits[2] = 4 /\ DayBits[3] = 8
      /\ DayBits[4] = 16 /\ DayBits[5] = 32 /\ DayBits[6] = 64
  BY DEF DayBits
<1>3. DaysToMask(DaysOf(mask)) =
        (IF mask % 2 = 1 THEN 1 ELSE 0) + (IF (mask \div 2) % 2 = 1 THEN 2 ELSE 0)
        + (IF (mask \div 4) % 2 = 1 THEN 4 ELSE 0) + (IF (mask \div 8) % 2 = 1 THEN 8 ELSE 0)
        + (IF (mask \div 16) % 2 = 1 THEN 16 ELSE 0) + (IF (mask \div 32) % 2 = 1 THEN 32 ELSE 0)
        + (IF (mask \div 64) % 2 = 1 THEN 64 ELSE 0)
  <2>1. mask \div 1 = mask
    OBVIOUS
  <2>2. /\ 0 \in DaysOf(mask) <=> mask % 2 = 1
        /\ 1 \in DaysOf(mask) <=> (mask \div 2) % 2 = 1
        /\ 2 \in DaysOf(mask) <=> (mask \div 4) % 2 = 1
        /\ 3 \in DaysOf(mask) <=> (mask \div 8) % 2 = 1
        /\ 4 \in DaysOf(mask) <=> (mask \div 16) % 2 = 1
        /\ 5 \in DaysOf(mask) <=> (mask \div 32) % 2 = 1
        /\ 6 \in DaysOf(mask) <=> (mask \div 64) % 2 = 1
    BY <1>1, <1>2, <2>1
  <2> QED
    BY <1>2, <2>2 DEF DaysToMask, Bit
<1> QED
  BY <1>3, SMTT(30)

-----------------------------------------------------------------------------
(* A timer goes through its frame, and through its published form. *)

LEMMA TimerParts ==
    ASSUME NEW t \in TaskTimer
    PROVE  /\ t.slot \in 0..6 /\ t.hour \in 0..23 /\ t.minute \in 0..59
           /\ t.mode \in {0, 1} /\ t.value \in Nat /\ t.value \div 256 < TopByte
           /\ t.days \in 0..127 /\ t.enabled \in BOOLEAN
  BY TaskAssumption DEF TaskTimer, Modes, Duration, Volume

LEMMA PublishedForm ==
    ASSUME NEW t \in TaskTimer, NEW amount \in Amounts
    PROVE  FromFields([AsAttribute(t) EXCEPT !.value = amount]) = [t EXCEPT !.value = amount]
<1>1. DaysToMask(DaysOf(t.days)) = t.days
  BY TimerParts, DaysRoundTrip
<1>2. ModeFromName(IF t.mode = Duration THEN "duration" ELSE "volume") = t.mode
  BY TimerParts DEF ModeFromName, Duration, Volume
<1> DEFINE f == [AsAttribute(t) EXCEPT !.value = amount]
<1>3. /\ f.slot = t.slot /\ f.hour = t.hour /\ f.minute = t.minute /\ f.value = amount
      /\ f.mode = (IF t.mode = Duration THEN "duration" ELSE "volume")
      /\ f.days = DaysOf(t.days) /\ f.enabled = t.enabled
  BY DEF AsAttribute
<1>4. FromFields(f) = [slot |-> t.slot, hour |-> t.hour, minute |-> t.minute, mode |-> t.mode,
                       value |-> amount, days |-> t.days, enabled |-> t.enabled]
  BY <1>1, <1>2, <1>3 DEF FromFields
<1> QED
  BY <1>4 DEF TaskTimer

LEMMA Qt08wRoundTrip ==
    ASSUME NEW t \in TaskTimer
    PROVE  DecodeQt08w(EncodeQt08w(t)) = Holds(t)
<1> DEFINE b == BigEndian(t.value)
           f == EncodeQt08w(t)
<1>1. /\ f[1] = t.slot /\ f[2] = Flag(t.enabled) /\ f[3] = t.mode % 256
      /\ f[4] = b[1] /\ f[5] = b[2] /\ f[6] = b[3] /\ f[7] = b[4]
      /\ f[8] = t.hour % 256 /\ f[9] = t.minute % 256 /\ f[10] = t.days % 128 /\ f[11] = 1
  BY DEF EncodeQt08w
<1>2. f[3] = t.mode /\ f[8] = t.hour /\ f[9] = t.minute /\ f[10] = t.days
  BY <1>1, TimerParts
<1>3. FromBigEndian(f[4], f[5], f[6], f[7]) = t.value
  BY <1>1, TimerParts, FourBytes
<1>4. (f[2] # 0) = t.enabled
  BY <1>1, TimerParts DEF Flag
<1>5. ~ \A i \in 3..11 : f[i] = 0
  BY <1>1
<1>6. t = [slot |-> t.slot, hour |-> t.hour, minute |-> t.minute, mode |-> t.mode,
           value |-> t.value, days |-> t.days, enabled |-> t.enabled]
  BY DEF TaskTimer
<1> HIDE DEF f
<1>7. DecodeQt08w(f) = Holds([slot |-> f[1], hour |-> f[8], minute |-> f[9], mode |-> f[3],
                value |-> FromBigEndian(f[4], f[5], f[6], f[7]), days |-> f[10], enabled |-> f[2] # 0])
  BY <1>5 DEF DecodeQt08w
<1> QED
  BY <1>1, <1>2, <1>3, <1>4, <1>6, <1>7 DEF f

LEMMA T3RoundTrip ==
    ASSUME NEW t \in TaskTimer
    PROVE  DecodeT3(EncodeT3(t)) = IF WatersNothing(t) THEN Empty(t.slot) ELSE Holds(t)
<1> DEFINE b == BigEndian(t.value)
           f == EncodeT3(t)
<1>1. /\ f[2] = t.slot /\ f[4] = t.mode % 256
      /\ f[5] = b[1] /\ f[6] = b[2] /\ f[7] = b[3] /\ f[8] = b[4]
      /\ f[9] = t.hour % 256 /\ f[10] = t.minute % 256 /\ f[11] = t.days % 128 /\ f[12] = Flag(t.enabled)
  BY DEF EncodeT3
<1>2. f[4] = t.mode /\ f[9] = t.hour /\ f[10] = t.minute /\ f[11] = t.days
  BY <1>1, TimerParts
<1>3. FromBigEndian(f[5], f[6], f[7], f[8]) = t.value
  BY <1>1, TimerParts, FourBytes
<1>4. (f[12] # 0) = t.enabled
  BY <1>1, TimerParts DEF Flag
<1>5. (f[5] = 0 /\ f[6] = 0 /\ f[7] = 0 /\ f[8] = 0) <=> t.value = 0
  BY <1>1, TimerParts, ZeroBytes
<1>6. t = [slot |-> t.slot, hour |-> t.hour, minute |-> t.minute, mode |-> t.mode,
           value |-> t.value, days |-> t.days, enabled |-> t.enabled]
  BY DEF TaskTimer
<1> HIDE DEF f
<1>7. (\A i \in 5..12 : f[i] = 0) <=>
        /\ f[5] = 0 /\ f[6] = 0 /\ f[7] = 0 /\ f[8] = 0
        /\ f[9] = 0 /\ f[10] = 0 /\ f[11] = 0 /\ f[12] = 0
  <2>1. \A i \in 5..12 : i \in {5, 6, 7, 8, 9, 10, 11, 12}
    OBVIOUS
  <2> QED
    BY <2>1
<1>8. (\A i \in 5..12 : f[i] = 0) <=> WatersNothing(t)
  BY <1>2, <1>4, <1>5, <1>7 DEF WatersNothing
<1>9. DecodeT3(f) = IF WatersNothing(t) THEN Empty(f[2]) ELSE
         Holds([slot |-> f[2], hour |-> f[9], minute |-> f[10], mode |-> f[4],
                value |-> FromBigEndian(f[5], f[6], f[7], f[8]), days |-> f[11], enabled |-> f[12] # 0])
  BY <1>8 DEF DecodeT3
<1> QED
  BY <1>1, <1>2, <1>3, <1>4, <1>6, <1>9 DEF f

LEMMA ClearedFrames ==
    ASSUME NEW slot \in TaskSlots
    PROVE  Decode(ClearFrame(slot)) = Empty(slot)
  BY DEF Decode, ClearFrame, ClearQt08w, ClearT3, DecodeQt08w, DecodeT3

-----------------------------------------------------------------------------
(* The invariant: the frame is what the encoder makes of what was written,   *)
(* the byte a toggle of the app flips included.                              *)

Cleared(slot) == task = Empty(slot) /\ frame = ClearFrame(slot)
Written(t) == task = Holds(t) /\ frame = Encode(t)

TaskInv ==
    /\ valve \in Families
    /\ \/ \E slot \in TaskSlots : Cleared(slot)
       \/ \E t \in TaskTimer : Written(t)

LEMMA WrittenTells ==
    ASSUME NEW t \in TaskTimer, valve \in Families, Written(t)
    PROVE  FramesTell
<1>1. task = [slot |-> t.slot, timers |-> {t}]
  BY DEF Written, Holds
<1>2. CASE valve = "QT-08W"
  <2>1. Decode(frame) = Holds(t)
    BY <1>2, Qt08wRoundTrip DEF Written, Decode, Encode
  <2> QED
    BY <1>1, <1>2, <2>1 DEF FramesTell, Holds
<1>3. CASE valve # "QT-08W"
  <2>1. Decode(frame) = IF WatersNothing(t) THEN Empty(t.slot) ELSE Holds(t)
    BY <1>3, T3RoundTrip DEF Written, Decode, Encode
  <2>2. CASE WatersNothing(t)
    BY <1>1, <1>3, <2>1, <2>2 DEF FramesTell, Empty
  <2>3. CASE ~WatersNothing(t)
    BY <1>1, <1>3, <2>1, <2>3 DEF FramesTell, Holds
  <2> QED
    BY <2>2, <2>3
<1> QED
  BY <1>2, <1>3

LEMMA ClearedTells ==
    ASSUME NEW slot \in TaskSlots, Cleared(slot)
    PROVE  FramesTell
<1>1. Decode(frame) = Empty(slot)
  BY ClearedFrames DEF Cleared
<1> QED
  BY <1>1 DEF FramesTell, Cleared, Empty

LEMMA InvTells == TaskInv => FramesTell
  BY WrittenTells, ClearedTells DEF TaskInv

LEMMA InvTyped == TaskInv => TaskTypeOK
<1> SUFFICES ASSUME TaskInv PROVE TaskTypeOK
  OBVIOUS
<1>1. ASSUME NEW slot \in TaskSlots, Cleared(slot)
      PROVE  task \in Tasks /\ Len(frame) = IF valve = "QT-08W" THEN 11 ELSE 12
  BY <1>1 DEF Cleared, Tasks, ClearFrame, ClearQt08w, ClearT3
<1>2. ASSUME NEW t \in TaskTimer, Written(t)
      PROVE  task \in Tasks /\ Len(frame) = IF valve = "QT-08W" THEN 11 ELSE 12
  BY <1>2 DEF Written, Tasks, Encode, EncodeQt08w, EncodeT3
<1> QED
  BY <1>1, <1>2 DEF TaskInv, TaskTypeOK

(* The timer a frame shows is the one that was written to it. *)
LEMMA ShownIsWritten ==
    ASSUME TaskInv, NEW shown \in Decode(frame).timers
    PROVE  shown \in TaskTimer /\ Written(shown) /\ task.timers = {shown}
<1>1. FramesTell
  BY InvTells
<1>2. shown \in task.timers
  BY <1>1 DEF FramesTell
<1>3. PICK t \in TaskTimer : Written(t)
  <2>1. ASSUME NEW slot \in TaskSlots, Cleared(slot) PROVE FALSE
    BY <1>2, <2>1 DEF Cleared, Empty
  <2> QED
    BY <2>1 DEF TaskInv
<1>4. task.timers = {t}
  BY <1>3 DEF Written, Holds
<1> QED
  BY <1>2, <1>3, <1>4

(* Flipping the byte of the frame is what encoding the toggled timer gives.  *)
LEMMA ToggledFrame ==
    ASSUME NEW t \in TaskTimer, valve \in Families
    PROVE  [Encode(t) EXCEPT ![EnabledByte] = 1 - @] = Encode([t EXCEPT !.enabled = ~@])
<1> DEFINE u == [t EXCEPT !.enabled = ~@]
<1>1. /\ u.slot = t.slot /\ u.hour = t.hour /\ u.minute = t.minute /\ u.mode = t.mode
      /\ u.value = t.value /\ u.days = t.days /\ u.enabled = ~t.enabled
  BY DEF TaskTimer
<1> HIDE DEF u
<1>2. Flag(u.enabled) = 1 - Flag(t.enabled)
  <2>1. CASE t.enabled
    <3>1. Flag(t.enabled) = 1
      BY <2>1, Zenon DEF Flag
    <3>2. Flag(u.enabled) = 0
      BY <1>1, <2>1, Zenon DEF Flag
    <3> QED
      BY <3>1, <3>2
  <2>2. CASE ~t.enabled
    <3>1. Flag(t.enabled) = 0
      BY <2>2, Zenon DEF Flag
    <3>2. Flag(u.enabled) = 1
      BY <1>1, <2>2, Zenon DEF Flag
    <3> QED
      BY <3>1, <3>2
  <2> QED
    BY <2>1, <2>2
<1>3. CASE valve = "QT-08W"
  BY <1>1, <1>2, <1>3 DEF Encode, EnabledByte, EncodeQt08w
<1>4. CASE valve # "QT-08W"
  BY <1>1, <1>2, <1>4 DEF Encode, EnabledByte, EncodeT3
<1> QED
  BY <1>3, <1>4 DEF u

-----------------------------------------------------------------------------
LEMMA TaskInvInit == TaskInit => TaskInv
  BY DEF TaskInit, TaskInv, Cleared, ClearFrame

LEMMA TaskInvStep == TaskInv /\ [TaskNext]_taskVars => TaskInv'
<1> SUFFICES ASSUME TaskInv, [TaskNext]_taskVars PROVE TaskInv'
  OBVIOUS
<1>1. CASE SetTimer
  <2>1. PICK t \in TaskTimer : WriteTask(t)
    BY <1>1 DEF SetTimer
  <2>2. Written(t)' /\ valve' = valve
    BY <2>1 DEF WriteTask, Written, Encode
  <2> QED
    BY <2>2 DEF TaskInv
<1>2. CASE EditTimer
  <2>1. PICK shown \in Decode(frame).timers, amount \in Amounts :
          /\ frame' = Encode(FromFields([AsAttribute(shown) EXCEPT !.value = amount]))
          /\ \E timer \in task.timers : task' = Holds([timer EXCEPT !.value = amount])
          /\ UNCHANGED valve
    BY <1>2 DEF EditTimer
  <2>2. shown \in TaskTimer /\ task.timers = {shown}
    BY ShownIsWritten
  <2> DEFINE t == [shown EXCEPT !.value = amount]
  <2>3. t \in TaskTimer
    BY <2>2 DEF TaskTimer
  <2>4. frame' = Encode(t)
    BY <2>1, <2>2, PublishedForm
  <2>5. task' = Holds(t)
    BY <2>1, <2>2
  <2>6. Written(t)' /\ valve' = valve
    BY <2>1, <2>4, <2>5 DEF Written, Encode
  <2> QED
    BY <2>3, <2>6 DEF TaskInv
<1>3. CASE ClearTimer
  <2>1. PICK slot \in TaskSlots : Cleared(slot)' /\ valve' = valve
    BY <1>3 DEF ClearTimer, Cleared, ClearFrame
  <2> QED
    BY <2>1 DEF TaskInv
<1>4. CASE AppToggles
  <2>1. PICK shown \in Decode(frame).timers : TRUE
    BY <1>4 DEF AppToggles
  <2>2. shown \in TaskTimer /\ Written(shown) /\ task.timers = {shown}
    BY ShownIsWritten
  <2> DEFINE t == [shown EXCEPT !.enabled = ~@]
  <2>3. t \in TaskTimer
    BY <2>2 DEF TaskTimer
  <2>4. frame' = Encode(t)
    BY <1>4, <2>2, ToggledFrame DEF AppToggles, Written, TaskInv
  <2>5. task' = Holds(t) /\ valve' = valve
    BY <1>4, <2>2 DEF AppToggles
  <2>6. Written(t)'
    BY <2>4, <2>5 DEF Written, Encode
  <2> QED
    BY <2>3, <2>5, <2>6 DEF TaskInv
<1>5. CASE UNCHANGED taskVars
  BY <1>5 DEF taskVars, TaskInv, Cleared, Written, ClearFrame, Encode
<1> QED
  BY <1>1, <1>2, <1>3, <1>4, <1>5 DEF TaskNext

(* Along every sequence of writes, edits, clears and toggles, what the       *)
(* registry decodes from the frame is the timer last written with every edit *)
(* and toggle since, for every amount, time and mask the services accept.    *)
THEOREM FramesTellTheTimer == TaskSpec => []FramesTell
<1>1. TaskSpec => []TaskInv
  BY TaskInvInit, TaskInvStep, PTL DEF TaskSpec
<1> QED
  BY <1>1, InvTells, PTL

(* The frame keeps its length and the timer its fields, which the encoder    *)
(* and the decoder both count on.                                           *)
THEOREM FramesTyped == TaskSpec => []TaskTypeOK
<1>1. TaskSpec => []TaskInv
  BY TaskInvInit, TaskInvStep, PTL DEF TaskSpec
<1> QED
  BY <1>1, InvTyped, PTL

-----------------------------------------------------------------------------
(* The fall-backs of a command.  The invariant tells a command that was    *)
(* taken and answered from one whose answer was lost, and a lock call that *)
(* goes on from one that is done.                                          *)

Sending == [pc : {"try", "return"}, cmds : Seq(Codes), n : Nat \ {0}, k : Nat, last : BOOLEAN]
LockPcs == {"types", "way", "door", "codes", "next", "done"}
Locking == [pc : LockPcs, lock : BOOLEAN, ways : Seq(Mechanisms), half : Nat, i : Nat,
            remote : BOOLEAN, result : BOOLEAN]

FrameTypes ==
    /\ custom \in BOOLEAN /\ known \in BOOLEAN
    /\ sending = NoFrame \/ sending \in Sending
    /\ locking = NoFrame \/ locking \in Locking

(* Only a lock call that waits for it runs beside a send_commands.         *)
OneFrame == sending # NoFrame => locking = NoFrame \/ locking.pc = "codes"

(* The commands the code takes for answered well.                          *)
Said == answered \cup misread

TakenTypes ==
    /\ taken \in [1..MaxCommands -> Nat] /\ lost \in [1..MaxCommands -> Nat]
    /\ answered \in SUBSET Nat /\ misread \in SUBSET Nat /\ IsFiniteSet(Said)
    /\ answered \cap misread = {} /\ (~custom => misread = {})

(* A command was taken as often as its answer was lost, and once more if   *)
(* it was answered.                                                        *)
TakenOf(n) == /\ n \notin answered => taken[n] = lost[n]
              /\ n \in answered => taken[n] = lost[n] + 1
Taken == (\A n \in 1..MaxCommands : TakenOf(n)) /\ noted = Cardinality(Said)

(* What was answered lies behind, and the result is the last command's.    *)
Behind(f) == f.n <= Len(f.cmds) + 1 /\ \A a \in Said : a < f.n
Honest(f) == (f.pc = "try" /\ f.cmds # <<>> /\ f.n = Len(f.cmds) + 1) =>
                (f.last <=> Len(f.cmds) \in Said)
Place == sending # NoFrame => Behind(sending) /\ Honest(sending)

(* Until a lock call is done, each operation of the door lost its answer.  *)
Door == /\ doorTaken \in Nat /\ doorLost \in Nat /\ doorTaken <= doorLost + 1
        /\ locking # NoFrame /\ locking.pc # "done" => doorTaken <= doorLost

CmdInv == FrameTypes /\ OneFrame /\ TakenTypes /\ Taken /\ Place /\ Door

LEMMA CmdInvInit == CmdInit => CmdInv
<1> SUFFICES ASSUME CmdInit PROVE CmdInv
  OBVIOUS
<1>1. FrameTypes /\ OneFrame /\ Place /\ Door
  BY DEF CmdInit, FrameTypes, OneFrame, Place, Door
<1>2. IsFiniteSet({}) /\ Cardinality({}) = 0
  BY FS_EmptySet
<1>3. TakenTypes /\ Taken
  BY <1>2 DEF CmdInit, TakenTypes, Taken, TakenOf, Said
<1> QED
  BY <1>1, <1>3 DEF CmdInv

(* A frame is told from none by its pc.                                    *)
LEMMA Frames ==
    /\ NoFrame.pc = "none" /\ NoFrame \notin Sending /\ NoFrame \notin Locking
    /\ \A f \in Sending : f # NoFrame /\ f.pc # "none"
    /\ \A f \in Locking : f # NoFrame /\ f.pc # "none"
<1>1. NoFrame.pc = "none"
  BY DEF NoFrame
<1>2. \A f \in Sending : f.pc # "none"
  BY DEF Sending
<1>3. \A f \in Locking : f.pc # "none"
  BY DEF Locking, LockPcs
<1> QED
  BY <1>1, <1>2, <1>3

(* A send_commands begins.                                                 *)
LEMMA BeginKeeps ==
    ASSUME NEW cmds \in Seq(Codes), known \in BOOLEAN, custom \in BOOLEAN, Begin(cmds),
           UNCHANGED custom
    PROVE  sending' \in Sending /\ Place' /\ Taken' /\ TakenTypes'
<1>1. sending' \in Sending /\ sending'.n = 1 /\ sending'.cmds = cmds
      /\ answered' = {} /\ misread' = {} /\ Said' = {} /\ noted' = 0
  BY DEF Begin, Sending, Said
<1>2. Place'
  BY <1>1 DEF Place, Behind, Honest
<1>3. IsFiniteSet({}) /\ Cardinality({}) = 0
  BY FS_EmptySet
<1>4. Taken' /\ TakenTypes'
  BY <1>1, <1>3 DEF Taken, TakenOf, TakenTypes, Begin
<1> QED
  BY <1>1, <1>2, <1>4

(* A send_commands goes on.                                                *)
LEMMA SendingStays ==
    ASSUME NEW f \in Sending, NEW k \in Nat, NEW b \in BOOLEAN, NEW g,
           g = [f EXCEPT !.k = k, !.last = b]
    PROVE  g \in Sending /\ g.pc = f.pc /\ g.cmds = f.cmds /\ g.n = f.n
  BY DEF Sending

LEMMA CmdBegins ==
    ASSUME CmdInv, SendCommands
    PROVE  CmdInv'
<1>1. PICK cmds \in BoundedSeq(Codes, MaxCommands) : Begin(cmds)
  BY DEF SendCommands
<1>2. cmds \in Seq(Codes)
  <2>1. PICK m \in 0..MaxCommands : cmds \in [1..m -> Codes]
    BY <1>1 DEF BoundedSeq, SeqOf
  <2>2. m \in Nat
    BY <2>1
  <2> QED
    BY <2>1, <2>2
<1>3. sending' \in Sending /\ Place' /\ Taken' /\ TakenTypes'
  BY <1>1, <1>2, BeginKeeps DEF CmdInv, FrameTypes, SendCommands
<1>4. UNCHANGED <<custom, known, locking>> /\ locking = NoFrame /\ doorTaken' = 0 /\ doorLost' = 0
  BY DEF SendCommands
<1>5. FrameTypes' /\ OneFrame' /\ Door'
  BY <1>3, <1>4, Frames DEF CmdInv, FrameTypes, OneFrame, Door
<1> QED
  BY <1>3, <1>5 DEF CmdInv

LEMMA CmdAttempts ==
    ASSUME CmdInv, NEW o \in Outcomes \cup {"misread"}, Attempt(o)
    PROVE  CmdInv'
<1> DEFINE n == sending.n
           good == o \in {"answered", "misread"}
<1>1. /\ sending \in Sending /\ sending.pc = "try" /\ n \in Nat /\ n # 0
      /\ n <= Len(sending.cmds) /\ sending # NoFrame
      /\ sending.cmds \in Seq(Codes) /\ Len(sending.cmds) \in Nat
  BY Frames DEF CmdInv, FrameTypes, Attempt, Trying, Sending
<1>2. /\ UNCHANGED <<custom, known, locking, doorTaken, doorLost>>
      /\ NextAttempt(good)
      /\ taken' = IF o \in {"answered", "lost"} THEN [taken EXCEPT ![n] = taken[n] + 1] ELSE taken
      /\ lost' = IF o = "lost" THEN [lost EXCEPT ![n] = lost[n] + 1] ELSE lost
      /\ noted' = IF good THEN noted + 1 ELSE noted
      /\ answered' = IF o = "answered" THEN answered \cup {n} ELSE answered
      /\ misread' = IF o = "misread" THEN misread \cup {n} ELSE misread
      /\ o = "misread" => custom
  BY DEF Attempt, doorVars
<1>10. Said' = (IF good THEN Said \cup {n} ELSE Said)
  BY <1>2 DEF Said
<1>11. n \in Said' <=> good \/ n \in Said
  BY <1>10
<1>3. n \notin Said /\ Said \in SUBSET Nat /\ IsFiniteSet(Said)
      /\ \A a \in Said : a < n /\ a \in Nat
  <2>1. Said \in SUBSET Nat /\ IsFiniteSet(Said)
    BY DEF CmdInv, TakenTypes, Said
  <2>2. \A a \in Said : a < n
    BY <1>1 DEF CmdInv, Place, Behind
  <2>3. ~(n < n)
    BY <1>1
  <2> HIDE DEF n
  <2> QED
    BY <2>1, <2>2, <2>3
<1>4. /\ sending' \in Sending /\ sending'.pc = "try" /\ sending'.cmds = sending.cmds
      /\ good => sending'.n = n + 1 /\ sending'.last
      /\ ~good => sending'.n = n
  <2>1. CASE good
    <3>1. sending' = [sending EXCEPT !.n = n + 1, !.k = 1, !.last = TRUE]
      BY <1>2, <2>1 DEF NextAttempt
    <3>2. n + 1 \in Nat \ {0} /\ 1 \in Nat /\ TRUE \in BOOLEAN
      BY <1>1
    <3> DEFINE m == n + 1
               one == 1
    <3>3. sending' = [sending EXCEPT !.n = m, !.k = one, !.last = TRUE]
      BY <3>1
    <3>4. m \in Nat /\ m # 0
      BY <3>2
    <3>6. one \in Nat
      BY <3>2
    <3>7. sending \in Sending /\ TRUE \in BOOLEAN
      BY <1>1
    <3> HIDE DEF m, one
    <3>5. /\ sending' \in Sending /\ sending'.pc = sending.pc /\ sending'.cmds = sending.cmds
          /\ sending'.n = m
      BY <3>3, <3>4, <3>6, <3>7 DEF Sending
    <3>8. sending'.last
      BY <3>3, <3>7 DEF Sending
    <3> QED
      BY <1>1, <2>1, <3>5, <3>8 DEF m
  <2>2. CASE ~good
    <3>1. sending' = [sending EXCEPT !.k = sending.k + 1, !.last = FALSE]
      BY <1>2, <2>2 DEF NextAttempt
    <3> DEFINE k == sending.k + 1
    <3>2. k \in Nat
      BY <1>1 DEF Sending
    <3>3. sending' = [sending EXCEPT !.k = k, !.last = FALSE]
      BY <3>1
    <3>4. sending \in Sending /\ FALSE \in BOOLEAN
      BY <1>1
    <3> HIDE DEF k
    <3>5. /\ sending' \in Sending /\ sending'.pc = sending.pc /\ sending'.cmds = sending.cmds
          /\ sending'.n = sending.n
      BY <3>2, <3>3, <3>4, SendingStays, Zenon
    <3> QED
      BY <1>1, <2>2, <3>5 DEF n
  <2> QED
    BY <2>1, <2>2
<1> HIDE DEF n, good
<1>5. FrameTypes' /\ OneFrame'
  BY <1>1, <1>2, <1>4, Frames DEF CmdInv, FrameTypes, OneFrame
<1>6. Place'
  <2>1. sending'.n <= Len(sending'.cmds) + 1
    BY <1>1, <1>4
  <2>2. \A a \in Said' : a < sending'.n
    BY <1>1, <1>3, <1>4, <1>10
  <2>3. CASE good
    <3>1. sending'.n = Len(sending'.cmds) + 1 => Len(sending'.cmds) = n
      BY <1>1, <1>4, <2>3
    <3>2. n \in Said' /\ sending'.last
      BY <1>4, <1>11, <2>3
    <3> QED
      BY <2>1, <2>2, <3>1, <3>2 DEF Place, Behind, Honest
  <2>4. CASE ~good
    <3>1. sending'.n # Len(sending'.cmds) + 1
      BY <1>1, <1>4, <2>4
    <3> QED
      BY <2>1, <2>2, <3>1 DEF Place, Behind, Honest
  <2> QED
    BY <2>3, <2>4
<1>7. TakenTypes'
  <2>1. IsFiniteSet(Said \cup {n})
    BY <1>3, FS_AddElement
  <2> QED
    <3>1. IsFiniteSet(Said')
      BY <1>3, <1>10, <2>1
    <3>3. answered' \in SUBSET Nat /\ misread' \in SUBSET Nat
      BY <1>1, <1>2 DEF CmdInv, TakenTypes
    <3>4. answered' \cap misread' = {}
      BY <1>2, <1>3 DEF CmdInv, TakenTypes, Said
    <3>5. ~custom' => misread' = {}
      BY <1>2 DEF CmdInv, TakenTypes
    <3>2. taken' \in [1..MaxCommands -> Nat] /\ lost' \in [1..MaxCommands -> Nat]
      <4>1. ASSUME NEW f \in [1..MaxCommands -> Nat]
            PROVE  [f EXCEPT ![n] = f[n] + 1] \in [1..MaxCommands -> Nat]
        <5> DEFINE S == 1..MaxCommands
        <5>1. CASE n \in S
          <6>1. f[n] + 1 \in Nat
            BY <4>1, <5>1
          <6> HIDE DEF S
          <6> QED
            BY <4>1, <6>1 DEF S
        <5>2. CASE n \notin S
          <6>1. \A v : [f EXCEPT ![n] = v] = f
            BY <4>1, <5>2
          <6> QED
            BY <4>1, <6>1
        <5> QED
          BY <5>1, <5>2
      <4> QED
        BY <1>2, <4>1 DEF CmdInv, TakenTypes
    <3> QED
      BY <3>1, <3>2, <3>3, <3>4, <3>5 DEF TakenTypes
<1>8. Taken'
  <2>1. Cardinality(Said \cup {n}) = Cardinality(Said) + 1
    BY <1>3, FS_AddElement
  <2>2. noted' = Cardinality(Said')
    BY <1>2, <1>10, <2>1 DEF CmdInv, Taken
  <2>3. ASSUME NEW m \in 1..MaxCommands PROVE TakenOf(m)'
    <3>1. TakenOf(m) /\ taken[m] \in Nat /\ lost[m] \in Nat
      BY DEF CmdInv, Taken, TakenTypes
    <3>2. CASE m # n
      <4>1. taken'[m] = taken[m] /\ lost'[m] = lost[m] /\ (m \in answered' <=> m \in answered)
        BY <1>2, <3>2 DEF CmdInv, TakenTypes
      <4> QED
        BY <3>1, <4>1 DEF TakenOf
    <3>3. CASE m = n
      <4>0. n \notin answered
        BY <1>3 DEF Said
      <4>1. taken[n] = lost[n] /\ lost[n] \in Nat /\ n \in 1..MaxCommands
        BY <3>1, <3>3, <4>0 DEF TakenOf
      <4>2. CASE o = "answered"
        <5>1. taken'[n] = taken[n] + 1 /\ lost'[n] = lost[n] /\ n \in answered'
          BY <1>2, <4>1, <4>2 DEF CmdInv, TakenTypes
        <5> QED
          BY <3>3, <4>1, <5>1 DEF TakenOf
      <4>3. CASE o = "lost"
        <5>1. taken'[n] = taken[n] + 1 /\ lost'[n] = lost[n] + 1 /\ n \notin answered'
          BY <1>2, <4>0, <4>1, <4>3 DEF CmdInv, TakenTypes
        <5> QED
          BY <3>3, <4>1, <5>1 DEF TakenOf
      <4>4. CASE o \in {"refused", "misread"}
        <5>1. taken'[n] = taken[n] /\ lost'[n] = lost[n] /\ n \notin answered'
          BY <1>2, <4>0, <4>1, <4>4
        <5> QED
          BY <3>3, <4>1, <5>1 DEF TakenOf
      <4> QED
        BY <4>2, <4>3, <4>4 DEF Outcomes
    <3> QED
      BY <3>2, <3>3
  <2> QED
    BY <2>2, <2>3 DEF Taken
<1>9. Door'
  BY <1>2 DEF CmdInv, Door
<1> QED
  BY <1>5, <1>6, <1>7, <1>8, <1>9 DEF CmdInv

LEMMA CmdExhausts ==
    ASSUME CmdInv, Exhausted
    PROVE  CmdInv'
<1>1. /\ sending \in Sending /\ sending.pc = "try" /\ sending.n \in Nat /\ sending.n # 0
      /\ sending.n <= Len(sending.cmds) /\ sending # NoFrame
      /\ sending.cmds \in Seq(Codes) /\ Len(sending.cmds) \in Nat
  BY Frames DEF CmdInv, FrameTypes, Exhausted, Trying, Sending
<1>2. /\ UNCHANGED <<custom, known, locking, noted, taken, lost, answered, misread, doorTaken, doorLost>>
      /\ sending' = [sending EXCEPT !.n = sending.n + 1, !.k = 1, !.last = FALSE]
  BY DEF Exhausted, takenVars, doorVars
<1>3. /\ sending' \in Sending /\ sending'.pc = "try" /\ sending'.cmds = sending.cmds
      /\ sending'.n = sending.n + 1 /\ ~sending'.last
  <2> DEFINE m == sending.n + 1
             one == 1
  <2>1. sending' = [sending EXCEPT !.n = m, !.k = one, !.last = FALSE]
    BY <1>2
  <2>2. m \in Nat /\ m # 0
    BY <1>1
  <2>4. one \in Nat
    OBVIOUS
  <2>5. sending \in Sending /\ FALSE \in BOOLEAN
    BY <1>1
  <2> HIDE DEF m, one
  <2>3. /\ sending' \in Sending /\ sending'.pc = sending.pc /\ sending'.cmds = sending.cmds
        /\ sending'.n = m
    BY <2>1, <2>2, <2>4, <2>5 DEF Sending
  <2>6. ~sending'.last
    BY <2>1, <2>5 DEF Sending
  <2> QED
    BY <1>1, <2>3, <2>6 DEF m
<1>4. Said \in SUBSET Nat
  BY DEF CmdInv, TakenTypes, Said
<1>5. \A a \in Said : a < sending.n
  BY <1>1 DEF CmdInv, Place, Behind
<1>8. sending.n \notin Said
  BY <1>1, <1>5
<1>9. \A a \in Said : a < sending.n + 1
  BY <1>1, <1>4, <1>5
<1>10. sending'.n = Len(sending'.cmds) + 1 => Len(sending'.cmds) = sending.n
  BY <1>1, <1>3
<1>11. Behind(sending)' /\ Honest(sending)'
  BY <1>1, <1>2, <1>3, <1>8, <1>9, <1>10 DEF Behind, Honest, Said
<1>12. Place'
  BY <1>11 DEF Place
<1>6. FrameTypes' /\ OneFrame'
  BY <1>1, <1>2, <1>3, Frames DEF CmdInv, FrameTypes, OneFrame
<1>7. TakenTypes' /\ Taken' /\ Door'
  BY <1>2 DEF CmdInv, TakenTypes, Taken, TakenOf, Said, Door
<1> QED
  BY <1>6, <1>7, <1>12 DEF CmdInv

LEMMA CmdReturns ==
    ASSUME CmdInv, Return
    PROVE  CmdInv'
<1>1. /\ sending' = NoFrame /\ UNCHANGED <<custom, known, noted, taken, lost, answered, misread, doorTaken, doorLost>>
      /\ sending # NoFrame
  BY DEF Return, takenVars, doorVars
<1>2. \/ locking = NoFrame /\ locking' = NoFrame
      \/ /\ locking # NoFrame /\ locking' \in Locking
         /\ locking'.pc \in {"done", "next"} /\ locking.pc = "codes"
  <2>1. CASE locking = NoFrame
    BY <2>1 DEF Return
  <2>2. CASE locking # NoFrame
    <3>1. locking \in Locking /\ locking.pc = "codes"
      BY <1>1, <2>2 DEF CmdInv, FrameTypes, OneFrame
    <3>2. \/ locking' = [locking EXCEPT !.pc = "done", !.result = TRUE]
          \/ locking' = [locking EXCEPT !.pc = "next"]
      BY <2>2 DEF Return
    <3> QED
      BY <2>2, <3>1, <3>2 DEF Locking, LockPcs
  <2> QED
    BY <2>1, <2>2
<1>3. FrameTypes' /\ OneFrame' /\ Place' /\ TakenTypes' /\ Taken'
  BY <1>1, <1>2 DEF CmdInv, FrameTypes, OneFrame, Place, TakenTypes, Taken, TakenOf, Said
<1>4. Door'
  BY <1>1, <1>2 DEF CmdInv, Door
<1> QED
  BY <1>3, <1>4 DEF CmdInv

LEMMA CmdForgets ==
    ASSUME CmdInv, Forget
    PROVE  CmdInv'
<1>1. known' = FALSE /\ UNCHANGED <<custom, sending, locking, noted, taken, lost, answered, misread, doorTaken, doorLost>>
  BY DEF Forget, frameVars, takenVars, doorVars
<1> QED
  BY <1>1 DEF CmdInv, FrameTypes, OneFrame, Place, Behind, Honest, TakenTypes, Taken, TakenOf, Said, Door

(* The steps of a lock call that touch nothing but the call.               *)
LEMMA LockOnly ==
    ASSUME CmdInv, locking # NoFrame, locking.pc \notin {"codes", "done"}, locking' \in Locking,
           locking'.pc # "codes",
           UNCHANGED <<custom, known, sending, cmdResult, takenVars, doorVars, calls>>
    PROVE  CmdInv'
<1>1. UNCHANGED <<custom, known, sending, noted, taken, lost, answered, misread, doorTaken, doorLost>>
  BY DEF takenVars, doorVars
<1>2. sending = NoFrame
  BY DEF CmdInv, OneFrame
<1>3. FrameTypes' /\ OneFrame' /\ Place'
  BY <1>1, <1>2 DEF CmdInv, FrameTypes, OneFrame, Place, Behind, Honest, Said
<1>4. TakenTypes' /\ Taken' /\ Door'
  BY <1>1 DEF CmdInv, TakenTypes, Taken, TakenOf, Said, Door
<1> QED
  BY <1>3, <1>4 DEF CmdInv

LEMMA LockPc ==
    ASSUME FrameTypes, NEW pc \in LockPcs, Locks(pc)
    PROVE  locking \in Locking /\ locking # NoFrame /\ locking.pc = pc
<1>1. pc # "none"
  BY DEF LockPcs
<1> QED
  BY <1>1, Frames DEF FrameTypes, Locks

LEMMA LockMoves ==
    ASSUME NEW l \in Locking, NEW pc \in LockPcs, NEW j \in Nat, NEW r \in BOOLEAN
    PROVE  /\ [l EXCEPT !.pc = pc] \in Locking /\ [l EXCEPT !.pc = pc].pc = pc
           /\ [l EXCEPT !.pc = pc, !.remote = r] \in Locking /\ [l EXCEPT !.pc = pc, !.remote = r].pc = pc
           /\ [l EXCEPT !.pc = pc, !.result = r] \in Locking /\ [l EXCEPT !.pc = pc, !.result = r].pc = pc
           /\ [l EXCEPT !.i = j, !.pc = pc] \in Locking /\ [l EXCEPT !.i = j, !.pc = pc].pc = pc
<1>1. [l EXCEPT !.pc = pc] \in Locking /\ [l EXCEPT !.pc = pc].pc = pc
  BY DEF Locking
<1>2. [l EXCEPT !.pc = pc, !.remote = r] \in Locking /\ [l EXCEPT !.pc = pc, !.remote = r].pc = pc
  BY DEF Locking
<1>3. [l EXCEPT !.pc = pc, !.result = r] \in Locking /\ [l EXCEPT !.pc = pc, !.result = r].pc = pc
  BY DEF Locking
<1>4. [l EXCEPT !.i = j, !.pc = pc] \in Locking /\ [l EXCEPT !.i = j, !.pc = pc].pc = pc
  BY DEF Locking
<1> QED
  BY <1>1, <1>2, <1>3, <1>4

LEMMA LockBegins ==
    ASSUME CmdInv, LockUnlock
    PROVE  CmdInv'
<1>1. PICK mechanism \in Mechanisms, lock \in BOOLEAN :
        locking' = [pc |-> "types", lock |-> lock, ways |-> Ways(mechanism),
                    half |-> Len(MechanismsOf(mechanism)), i |-> 1, remote |-> FALSE,
                    result |-> FALSE]
  BY DEF LockUnlock
<1>2. MechanismsOf(mechanism) \in Seq(Mechanisms)
  <2>1. CASE mechanism = "auto"
    <3>1. ASSUME NEW a \in Mechanisms, NEW b \in Mechanisms, NEW c \in Mechanisms
          PROVE  <<a, b, c>> \in Seq(Mechanisms)
      BY <3>1
    <3>2. MechanismsOf(mechanism) = <<"door_operate", "door_open", "dpcode_command">>
      BY <2>1 DEF MechanismsOf
    <3> QED
      BY <3>1, <3>2 DEF Mechanisms
  <2>2. CASE mechanism # "auto"
    <3>1. MechanismsOf(mechanism) = <<mechanism>>
      BY <2>2 DEF MechanismsOf
    <3> QED
      BY <3>1
  <2> QED
    BY <2>1, <2>2
<1>3. Ways(mechanism) \in Seq(Mechanisms) /\ Len(MechanismsOf(mechanism)) \in Nat
  BY <1>2 DEF Ways
<1> DEFINE ways == Ways(mechanism)
           half == Len(MechanismsOf(mechanism))
<1>4. locking' = [pc |-> "types", lock |-> lock, ways |-> ways, half |-> half, i |-> 1,
                  remote |-> FALSE, result |-> FALSE]
  BY <1>1
<1>5. ways \in Seq(Mechanisms) /\ half \in Nat
  BY <1>3
<1> HIDE DEF ways, half
<1>6. locking' \in Locking /\ locking'.pc = "types"
  BY <1>4, <1>5 DEF Locking, LockPcs
<1>7. /\ sending = NoFrame /\ doorTaken' = 0 /\ doorLost' = 0
      /\ UNCHANGED <<custom, known, sending, noted, taken, lost, answered, misread>>
  BY DEF LockUnlock, takenVars
<1>8. FrameTypes' /\ OneFrame' /\ Place' /\ Door'
  BY <1>6, <1>7 DEF CmdInv, FrameTypes, OneFrame, Place, Behind, Honest, Said, Door
<1>9. TakenTypes' /\ Taken'
  BY <1>7 DEF CmdInv, TakenTypes, Taken, TakenOf, Said
<1> QED
  BY <1>8, <1>9 DEF CmdInv

(* Asking for the types, getting a ticket or not, taking the next way.     *)
LEMMA LockGoesOn ==
    ASSUME CmdInv, LockTypes \/ LockTicket \/ LockNotAllowed \/ LockNext
    PROVE  CmdInv'
<1>0. FrameTypes
  BY DEF CmdInv
<1>1. CASE LockTypes
  <2>1. locking \in Locking /\ locking # NoFrame /\ locking.pc = "types"
    BY <1>0, <1>1, LockPc DEF LockTypes, LockPcs
  <2>2. PICK remote \in BOOLEAN : locking' = [locking EXCEPT !.pc = "way", !.remote = remote]
    BY <1>1 DEF LockTypes
  <2>3. locking' \in Locking /\ locking'.pc = "way"
    BY <2>1, <2>2 DEF Locking, LockPcs
  <2> QED
    BY <1>1, <2>1, <2>3, LockOnly DEF LockTypes
<1>2. CASE LockTicket \/ LockNotAllowed
  <2>1. locking \in Locking /\ locking # NoFrame /\ locking.pc = "way"
    BY <1>0, <1>2, LockPc DEF LockTicket, LockNotAllowed, LockPcs
  <2>2. PICK pc \in {"door", "next"} : locking' = [locking EXCEPT !.pc = pc]
    BY <1>2 DEF LockTicket, LockNotAllowed, LockGoes
  <2>3. locking' \in Locking /\ locking'.pc = pc
    BY <2>1, <2>2 DEF Locking, LockPcs
  <2> QED
    BY <1>2, <2>1, <2>2, <2>3, LockOnly DEF LockTicket, LockNotAllowed
<1>3. CASE LockNext
  <2>1. locking \in Locking /\ locking # NoFrame /\ locking.pc = "next"
    BY <1>0, <1>3, LockPc DEF LockNext, LockPcs
  <2>2. CASE locking.i = Len(locking.ways)
    <3>1. locking' = [locking EXCEPT !.pc = "done"]
      BY <1>3, <2>2 DEF LockNext
    <3>2. locking' \in Locking /\ locking'.pc = "done"
      BY <2>1, <3>1 DEF Locking, LockPcs
    <3> QED
      BY <1>3, <2>1, <3>2, LockOnly DEF LockNext
  <2>3. CASE locking.i # Len(locking.ways)
    <3> DEFINE pc == IF locking.i = locking.half THEN "types" ELSE "way"
               j == locking.i + 1
    <3>1. locking' = [locking EXCEPT !.i = j, !.pc = pc]
      BY <1>3, <2>3 DEF LockNext
    <3>2. pc \in {"types", "way"} /\ j \in Nat
      BY <2>1 DEF Locking
    <3> HIDE DEF pc, j
    <3>3. locking' \in Locking /\ locking'.pc = pc
      BY <2>1, <3>1, <3>2 DEF Locking, LockPcs
    <3> QED
      BY <1>3, <2>1, <3>2, <3>3, LockOnly DEF LockNext
  <2> QED
    BY <2>2, <2>3
<1> QED
  BY <1>1, <1>2, <1>3

LEMMA LockOperates ==
    ASSUME CmdInv, NEW o \in Outcomes, LockOperate(o)
    PROVE  CmdInv'
<1>1. locking \in Locking /\ locking # NoFrame /\ locking.pc = "door"
  BY LockPc DEF CmdInv, LockOperate, LockPcs
<1>2. doorTaken \in Nat /\ doorLost \in Nat /\ doorTaken <= doorLost
  BY <1>1 DEF CmdInv, Door
<1> DEFINE good == o = "answered"
           pc == IF good THEN "done" ELSE "next"
<1>3. locking' = [locking EXCEPT !.pc = pc, !.result = good]
  BY DEF LockOperate, DoorAnswer
<1>4. pc \in {"done", "next"} /\ good \in BOOLEAN /\ (o # "answered" => pc = "next")
      /\ (o = "answered" => pc = "done")
  OBVIOUS
<1> HIDE DEF good, pc
<1>5. locking' \in Locking /\ locking'.pc = pc
  BY <1>1, <1>3, <1>4 DEF Locking, LockPcs
<1>6. /\ doorTaken' = IF o = "refused" THEN doorTaken ELSE doorTaken + 1
      /\ doorLost' = IF o = "lost" THEN doorLost + 1 ELSE doorLost
      /\ UNCHANGED <<custom, known, sending, noted, taken, lost, answered, misread>>
  BY DEF LockOperate, takenVars
<1>7. sending = NoFrame
  BY <1>1 DEF CmdInv, OneFrame
<1>8. Door'
  BY <1>2, <1>4, <1>5, <1>6 DEF Door, Outcomes
<1>9. FrameTypes' /\ OneFrame' /\ Place' /\ TakenTypes' /\ Taken'
  BY <1>5, <1>6, <1>7 DEF CmdInv, FrameTypes, OneFrame, Place, TakenTypes, Taken, TakenOf, Said
<1> QED
  BY <1>8, <1>9 DEF CmdInv

LEMMA LockCodesBegin ==
    ASSUME CmdInv, LockCodes
    PROVE  CmdInv'
<1>1. locking \in Locking /\ locking # NoFrame /\ locking.pc = "way"
  BY LockPc DEF CmdInv, LockCodes, LockPcs
<1>2. Begin(ManualCodes) /\ ManualCodes \in Seq(Codes) /\ known \in BOOLEAN /\ custom \in BOOLEAN
      /\ UNCHANGED custom
  BY CommandsAssumption DEF CmdInv, FrameTypes, LockCodes
<1>3. sending' \in Sending /\ Place' /\ Taken' /\ TakenTypes'
  BY <1>2, BeginKeeps
<1>4. locking' \in Locking /\ locking'.pc = "codes"
  BY <1>1 DEF LockCodes, LockGoes, Locking, LockPcs
<1>5. UNCHANGED <<custom, known, doorTaken, doorLost>>
  BY DEF LockCodes, doorVars
<1>6. FrameTypes' /\ OneFrame' /\ Door'
  BY <1>1, <1>3, <1>4, <1>5 DEF CmdInv, FrameTypes, OneFrame, Door
<1> QED
  BY <1>3, <1>6 DEF CmdInv

LEMMA LockReturns ==
    ASSUME CmdInv, LockReturn
    PROVE  CmdInv'
<1>1. /\ locking' = NoFrame
      /\ UNCHANGED <<custom, known, sending, noted, taken, lost, answered, misread, doorTaken, doorLost>>
  BY DEF LockReturn, takenVars, doorVars
<1> QED
  BY <1>1 DEF CmdInv, FrameTypes, OneFrame, Place, Behind, Honest, TakenTypes, Taken, TakenOf, Said, Door

LEMMA CmdInvStep == CmdInv /\ [CmdNext]_cmdVars => CmdInv'
<1> SUFFICES ASSUME CmdInv, [CmdNext]_cmdVars PROVE CmdInv'
  OBVIOUS
<1>1. CASE UNCHANGED cmdVars
  BY <1>1 DEF cmdVars, frameVars, takenVars, doorVars, CmdInv, FrameTypes, OneFrame, Place, Behind,
              Honest, TakenTypes, Taken, TakenOf, Said, Door
<1>2. CASE CmdNext
  BY <1>2, CmdBegins, CmdAttempts, CmdExhausts, CmdReturns, CmdForgets, LockBegins, LockGoesOn,
     LockOperates, LockCodesBegin, LockReturns DEF CmdNext
<1> QED
  BY <1>1, <1>2

LEMMA CmdInvSafe == CmdInv => FallBacksSafe
<1> SUFFICES ASSUME CmdInv PROVE TakenOnce /\ AnswerHonest
  BY DEF FallBacksSafe
<1>1. ASSUME NEW n \in 1..MaxCommands PROVE taken[n] <= 1 + lost[n]
  <2>1. taken[n] \in Nat /\ lost[n] \in Nat /\ TakenOf(n)
    BY DEF CmdInv, TakenTypes, Taken
  <2> QED
    BY <2>1 DEF TakenOf
<1>2. TakenOnce
  BY <1>1 DEF CmdInv, Door, TakenOnce
<1>3. ASSUME sending # NoFrame, ~Trying, sending.pc = "try", sending.cmds # <<>>
      PROVE  sending.last = (Len(sending.cmds) \in Said)
  <2>1. sending \in Sending /\ sending.n \in Nat /\ Len(sending.cmds) \in Nat
        /\ sending.last \in BOOLEAN
    BY <1>3 DEF CmdInv, FrameTypes, Sending
  <2>2. sending.n = Len(sending.cmds) + 1
    BY <1>3, <2>1 DEF CmdInv, Place, Behind, Trying
  <2> QED
    BY <1>3, <2>1, <2>2 DEF CmdInv, Place, Honest
<1>5. Believed = Said
  BY DEF CmdInv, TakenTypes, Believed, Said
<1>4. AnswerHonest
  BY <1>3, <1>5 DEF CmdInv, Taken, TakenTypes, AnswerHonest
<1> QED
  BY <1>2, <1>4

(* Whatever accounts, endpoints, aliases, mechanisms and projects are left to  *)
(* try, a command and an operation of a door are sent again only when the      *)
(* answer to the last try was lost, the result is the last command's, and the  *)
(* quota counts each command that was answered once; both mistake the refusal  *)
(* of a regular request for an answer with a custom project, and nothing else  *)
(* (send_commands of MultiManager, of the IoT account and of its projects, the *)
(* IoT lock manager).                                                          *)
THEOREM FallBacksStaySafe == CmdSpec => []FallBacksSafe
<1>1. CmdInit => CmdInv
  BY CmdInvInit
<1>2. CmdInv /\ [CmdNext]_cmdVars => CmdInv'
  BY CmdInvStep
<1>3. CmdInv => FallBacksSafe
  BY CmdInvSafe
<1> QED
  BY <1>1, <1>2, <1>3, PTL DEF CmdSpec

-----------------------------------------------------------------------------
(* The position of a timed cover.  As long as no command came before the   *)
(* last move was over, the cover is at rest, or runs beside the handler of *)
(* its move, or ends a move whose handler is through; the invariant bounds *)
(* in each case how far off the position computed for it is.               *)

Timing == [from : Positions, to : Positions, elapsed : Nat, due : Nat, live : BOOLEAN,
           stopsCover : BOOLEAN]

MotorTypes ==
    /\ inverted \in BOOLEAN /\ sets \in BOOLEAN /\ precise \in BOOLEAN /\ physical \in Positions
    /\ goal = Off \/ (goal \in Positions /\ goal # physical)
    /\ aim \in Positions /\ landed \in BOOLEAN /\ drift \in Positions
    /\ astray \in BOOLEAN /\ superseded \in BOOLEAN
TimingTypes ==
    /\ virtual \in Positions /\ storedPosition \in Positions
    /\ handlers \in Seq(Timing)
    /\ handling \in 0..Len(handlers) /\ stops \in Nat

(* Where the motor may run to while the handler counts, and where a cover  *)
(* that left for e is after n units of time.                               *)
Ends(h) == IF h.stopsCover THEN {h.to, Far(h.from, h.to)} ELSE {h.to}
Toward(a, e, n) == IF a < e THEN IF a + n < e THEN a + n ELSE e
                            ELSE IF a - n > e THEN a - n ELSE e
Slack(n) == IF n > 0 THEN Interval - 1 ELSE 0

(* The handler that runs is the one kept; one that never ran has nothing   *)
(* to count.                                                               *)
OneHandler ==
    /\ \A i \in DOMAIN handlers : handlers[i].live => i = handling
    /\ handling # 0 =>
         handlers[handling].live \/ handlers[handling].from = handlers[handling].to

OnCourse(h, e) ==
    /\ goal = e \/ (goal = Off /\ physical = e)
    /\ Distance(Toward(h.from, e, h.elapsed), physical) <= drift + Slack(stops)
OnCourseNext(h, e) ==
    /\ goal' = e \/ (goal' = Off /\ physical' = e)
    /\ Distance(Toward(h.from, e, h.elapsed), physical') <= drift' + Slack(stops')
Beside(h) ==
    /\ h.from # h.to /\ aim = h.to
    /\ landed => goal = Off /\ physical = h.to
    /\ ~astray => \E e \in Ends(h) : OnCourse(h, e)
    /\ h.elapsed + h.due <= Total(h) - 1 + Interval
    /\ stops > 0 => h.elapsed = 0

AtEnd ==
    /\ ~astray => Distance(virtual, physical) <= drift + Slack(stops)
    /\ storedPosition = virtual
    /\ goal = Off /\ landed => virtual = physical
    /\ goal # Off => ~landed /\ virtual = aim /\ (~astray /\ stops = 0 => goal = aim)

Tracked ==
    /\ OneHandler
    /\ handling # 0 /\ handlers[handling].live => Beside(handlers[handling])
    /\ ~Moving => AtEnd

CoverInv == MotorTypes /\ TimingTypes /\ (~superseded => Tracked)

LEMMA TopNat == Top \in Nat /\ Interval \in Nat /\ Interval # 0 /\ Top # 0
  BY CoverAssumption

Step(a, e) == IF a < e THEN a + 1 ELSE IF a > e THEN a - 1 ELSE a

(* One unit of time brings both where they go without parting them.        *)
LEMMA TowardMoves ==
    ASSUME NEW a \in Positions, NEW e \in Positions, NEW n \in Nat
    PROVE  /\ Toward(a, e, n) \in Positions /\ Toward(a, e, 0) = a
           /\ Toward(a, e, n + 1) = Step(Toward(a, e, n), e)
<1>1. a \in Int /\ e \in Int /\ 0 <= a /\ 0 <= e /\ a <= Top /\ e <= Top /\ Top \in Nat
  BY TopNat DEF Positions
<1> QED
  BY <1>1 DEF Toward, Step, Positions

LEMMA StepsDoNotPart ==
    ASSUME NEW a \in Positions, NEW b \in Positions, NEW e \in Positions
    PROVE  /\ Distance(Step(a, e), Step(b, e)) <= Distance(a, b)
           /\ Step(a, e) \in Positions
<1>1. a \in Int /\ e \in Int /\ b \in Int /\ Top \in Nat
      /\ 0 <= a /\ 0 <= e /\ a <= Top /\ e <= Top
  BY TopNat DEF Positions
<1> QED
  BY <1>1 DEF Distance, Step, Positions

LEMMA Distances ==
    ASSUME NEW a \in Positions, NEW b \in Positions, NEW c \in Positions
    PROVE  /\ Distance(a, b) \in 0..Top /\ Distance(a, b) = Distance(b, a)
           /\ Distance(a, c) <= Distance(a, b) + Distance(b, c)
           /\ Distance(a, b) = 0 <=> a = b
<1>1. a \in Int /\ b \in Int /\ c \in Int /\ Top \in Nat
      /\ 0 <= a /\ 0 <= b /\ 0 <= c /\ a <= Top /\ b <= Top /\ c <= Top
  BY TopNat DEF Positions
<1> QED
  BY <1>1 DEF Distance

(* What the handler computes, and how far the motor went beyond.           *)
LEMMA ReachedIs ==
    ASSUME NEW h \in Timing, h.from # h.to
    PROVE  /\ Reached(h) \in Positions /\ Total(h) \in Nat
           /\ h.elapsed >= Total(h) => Reached(h) = h.to
           /\ \A e \in Ends(h) :
                /\ e \in Positions
                /\ h.elapsed <= Total(h) => Reached(h) = Toward(h.from, e, h.elapsed)
                /\ h.elapsed >= Total(h) =>
                     Distance(Reached(h), Toward(h.from, e, h.elapsed)) <= h.elapsed - Total(h)
                /\ ~h.stopsCover => Reached(h) = Toward(h.from, e, h.elapsed)
<1> DEFINE a == h.from
           b == h.to
           n == h.elapsed
<1>1. /\ a \in Int /\ b \in Int /\ Top \in Nat /\ n \in Nat /\ h.stopsCover \in BOOLEAN
      /\ 0 <= a /\ 0 <= b /\ a <= Top /\ b <= Top /\ a # b
  BY TopNat DEF Positions, Timing
<1>2. Total(h) = IF a < b THEN b - a ELSE a - b
  BY DEF Total, Distance
<1>3. Total(h) \in Nat
  BY <1>1, <1>2
<1>4. \A e \in Ends(h) : e = b \/ (h.stopsCover /\ e = IF a < b THEN Top ELSE 0)
  BY DEF Ends, Far
<1>6. Reached(h) = IF a < b THEN a + (IF n < Total(h) THEN n ELSE Total(h))
                            ELSE a - (IF n < Total(h) THEN n ELSE Total(h))
  BY DEF Reached, Smaller
<1> HIDE DEF a, b, n
<1>7. Reached(h) \in Positions
  BY <1>1, <1>2, <1>6 DEF Positions
<1>9. n >= Total(h) => Reached(h) = b
  BY <1>1, <1>2, <1>6
<1>10. ASSUME NEW e \in Ends(h)
       PROVE  /\ e \in Positions
              /\ n <= Total(h) => Reached(h) = Toward(a, e, n)
              /\ n >= Total(h) => Distance(b, Toward(a, e, n)) <= n - Total(h)
              /\ ~h.stopsCover => Reached(h) = Toward(a, e, n)
  <2>1. e = b \/ (h.stopsCover /\ e = IF a < b THEN Top ELSE 0)
    BY <1>4, <1>10
  <2>2. e \in Positions
    BY <1>1, <2>1 DEF Positions
  <2>3. n <= Total(h) => Reached(h) = Toward(a, e, n)
    BY <1>1, <1>2, <1>6, <2>1 DEF Toward
  <2>4. n >= Total(h) => Distance(b, Toward(a, e, n)) <= n - Total(h)
    BY <1>1, <1>2, <2>1 DEF Toward, Distance
  <2>5. ~h.stopsCover => Reached(h) = Toward(a, e, n)
    BY <1>1, <1>2, <1>6, <2>1 DEF Toward
  <2> QED
    BY <2>2, <2>3, <2>4, <2>5
<1> QED
  BY <1>3, <1>7, <1>9, <1>10 DEF a, b, n

LEMMA LastUpdateIs ==
    ASSUME NEW h \in Timing, virtual \in Positions
    PROVE  /\ LastUpdate(h) \in Positions
           /\ h.from # h.to => LastUpdate(h) = Reached(h)
           /\ h.from = h.to => LastUpdate(h) = virtual
<1>1. h.from \in Positions /\ h.to \in Positions
  BY DEF Timing
<1>2. Total(h) = 0 <=> h.from = h.to
  BY <1>1, Distances DEF Total
<1> QED
  BY <1>2, ReachedIs DEF LastUpdate, UpdatedAtStop

(* A move that ends leaves the cover no farther from its position than     *)
(* before, but for the stop that is still to come.                         *)
LEMMA EndOff ==
    ASSUME NEW h \in Timing, MotorTypes, stops \in Nat, Beside(h), ~astray
    PROVE  Distance(Reached(h), physical) <=
             drift + Slack(IF h.stopsCover THEN stops + 1 ELSE stops)
<1>0. PICK e \in Ends(h) : OnCourse(h, e)
  BY DEF Beside
<1> DEFINE y == Toward(h.from, e, h.elapsed)
           r == Reached(h)
           d == Distance(y, physical)
<1>1. h.from # h.to /\ h.from \in Positions /\ h.elapsed \in Nat /\ physical \in Positions
      /\ h.due \in Nat /\ h.stopsCover \in BOOLEAN /\ drift \in Nat
  BY TopNat DEF Beside, Timing, MotorTypes, Positions
<1>2. r \in Positions /\ e \in Positions /\ Total(h) \in Nat /\ Total(h) # 0
  BY <1>1, ReachedIs, Distances DEF Total, Timing
<1>3. y \in Positions
  BY <1>1, <1>2, TowardMoves
<1>4. d <= drift + Slack(stops) /\ d \in Nat
  BY <1>0, <1>1, <1>3, TopNat, Distances DEF OnCourse
<1>5. Interval - 1 \in Nat /\ Slack(stops) \in Nat /\ Slack(stops) <= Interval - 1
      /\ Slack(stops + 1) = Interval - 1
  BY TopNat DEF Slack
<1>6. CASE ~h.stopsCover
  BY <1>0, <1>1, <1>4, <1>6, ReachedIs
<1>7. CASE h.stopsCover /\ h.elapsed <= Total(h)
  <2>1. r = y
    BY <1>0, <1>1, <1>7, ReachedIs
  <2> QED
    BY <1>1, <1>4, <1>5, <1>7, <2>1
<1>8. CASE h.stopsCover /\ ~(h.elapsed <= Total(h))
  <2>1. Distance(r, y) <= h.elapsed - Total(h)
    BY <1>0, <1>1, <1>2, <1>8, ReachedIs
  <2>2. h.elapsed - Total(h) <= Interval - 1
    BY <1>1, <1>2, TopNat DEF Beside
  <2>3. h.elapsed # 0
    BY <1>1, <1>2, <1>8
  <2>4. Slack(stops) = 0
    BY <2>3 DEF Beside, Slack
  <2>5. Distance(r, physical) <= Distance(r, y) + d
    BY <1>1, <1>2, <1>3, Distances
  <2>6. Distance(r, y) \in Nat /\ Distance(r, physical) \in Nat
    BY <1>1, <1>2, <1>3, TopNat, Distances
  <2> HIDE DEF r, y, d
  <2>7. Distance(r, physical) <= drift + (Interval - 1)
    BY <1>1, <1>2, <1>4, <1>5, <2>1, <2>2, <2>4, <2>5, <2>6
  <2> QED
    BY <1>5, <1>8, <2>7 DEF r
<1> QED
  BY <1>1, <1>6, <1>7, <1>8

(* One handler changes, or all of them do.                                 *)
LEMMA HandlerChanges ==
    ASSUME NEW s \in Seq(Timing), NEW i \in DOMAIN s, NEW due \in Nat
    PROVE  /\ [s EXCEPT ![i].live = FALSE] \in Seq(Timing)
           /\ [s EXCEPT ![i].due = due] \in Seq(Timing)
           /\ DOMAIN [s EXCEPT ![i].live = FALSE] = DOMAIN s
           /\ DOMAIN [s EXCEPT ![i].due = due] = DOMAIN s
           /\ Len([s EXCEPT ![i].live = FALSE]) = Len(s)
           /\ Len([s EXCEPT ![i].due = due]) = Len(s)
           /\ \A j \in DOMAIN s : j # i =>
                /\ [s EXCEPT ![i].live = FALSE][j] = s[j]
                /\ [s EXCEPT ![i].due = due][j] = s[j]
           /\ ~[s EXCEPT ![i].live = FALSE][i].live
           /\ [s EXCEPT ![i].due = due][i] = [s[i] EXCEPT !.due = due]
<1> DEFINE a == [s[i] EXCEPT !.live = FALSE]
           b == [s[i] EXCEPT !.due = due]
<1>1. s[i] \in Timing /\ i \in 1..Len(s) /\ DOMAIN s = 1..Len(s)
  OBVIOUS
<1>2. a \in Timing /\ b \in Timing /\ ~a.live
  BY <1>1 DEF Timing
<1>3. [s EXCEPT ![i].live = FALSE] = [s EXCEPT ![i] = a]
      /\ [s EXCEPT ![i].due = due] = [s EXCEPT ![i] = b]
  OBVIOUS
<1> HIDE DEF a, b
<1>4. /\ [s EXCEPT ![i] = a] \in Seq(Timing) /\ Len([s EXCEPT ![i] = a]) = Len(s)
      /\ [s EXCEPT ![i] = b] \in Seq(Timing) /\ Len([s EXCEPT ![i] = b]) = Len(s)
  BY <1>1, <1>2, ExceptSeq
<1>5. /\ DOMAIN [s EXCEPT ![i] = a] = DOMAIN s /\ DOMAIN [s EXCEPT ![i] = b] = DOMAIN s
      /\ [s EXCEPT ![i] = a][i] = a /\ [s EXCEPT ![i] = b][i] = b
      /\ \A j \in DOMAIN s : j # i => [s EXCEPT ![i] = a][j] = s[j] /\ [s EXCEPT ![i] = b][j] = s[j]
  BY <1>1
<1> QED
  BY <1>2, <1>3, <1>4, <1>5 DEF b

LEMMA AllChange ==
    ASSUME NEW s \in Seq(Timing), NEW f, DOMAIN f = DOMAIN s, f = [i \in DOMAIN s |-> f[i]],
           \A i \in DOMAIN s : f[i] \in Timing
    PROVE  f \in Seq(Timing) /\ Len(f) = Len(s)
<1>1. Len(s) \in Nat /\ DOMAIN s = 1..Len(s)
  OBVIOUS
<1>2. f \in [1..Len(s) -> Timing]
  BY <1>1
<1> QED
  BY <1>1, <1>2

LEMMA CoverInvInit == CoverInit => CoverInv
<1> SUFFICES ASSUME CoverInit PROVE CoverInv
  OBVIOUS
<1>1. Top \in Positions /\ 0 \in Positions
  BY TopNat DEF Positions
<1>2. MotorTypes
  BY <1>1 DEF CoverInit, MotorTypes
<1>3. TimingTypes
  BY <1>1 DEF CoverInit, TimingTypes
<1>4. Distance(Top, Top) = 0 /\ Slack(0) = 0
  BY <1>1, Distances DEF Slack
<1>5. Tracked
  BY <1>4 DEF CoverInit, Tracked, OneHandler, AtEnd
<1> QED
  BY <1>2, <1>3, <1>5 DEF CoverInv

LEMMA OffIsNone == Off \notin Positions /\ \A p \in Positions : p # Off /\ p \in Int
  BY TopNat DEF Off, Positions

(* A move begins, of which the motor runs to target.                       *)
LEMMA MoveBegins ==
    ASSUME CoverInv, NEW to \in Positions, NEW target \in Positions, NEW sc \in BOOLEAN,
           ~sc => target = to, BeginMove(to, target, sc)
    PROVE  CoverInv'
<1> DEFINE h == NewHandler(virtual, to, sc)
           n == Len(handlers) + 1
<1>1. /\ handlers' = Append(handlers, h) /\ handling' = Len(handlers') /\ virtual' = virtual
      /\ aim' = to /\ drift' = (IF landed THEN 0 ELSE drift)
      /\ landed' = (physical = to /\ target = to)
      /\ astray' = (Strays(to, target) \/ (astray /\ ~landed))
      /\ superseded' = (superseded \/ Moving \/ goal # Off)
      /\ UNCHANGED <<inverted, sets, precise, physical, storedPosition, stops>>
  BY DEF BeginMove, optionVars
<1>2. MotorTypes /\ TimingTypes
  BY DEF CoverInv
<1>4. goal' = IF physical = target THEN Off ELSE target
  BY DEF BeginMove
<1>5. 0 \in Positions /\ drift \in Nat
  BY <1>2, TopNat DEF Positions, MotorTypes
<1>6. MotorTypes'
  <2>1. landed' \in BOOLEAN /\ astray' \in BOOLEAN /\ superseded' \in BOOLEAN
    BY <1>1, <1>2 DEF MotorTypes
  <2>2. goal' = Off \/ (goal' \in Positions /\ goal' # physical)
    BY <1>4, OffIsNone
  <2>3. drift' \in Positions
    BY <1>1, <1>2, <1>5 DEF MotorTypes
  <2> QED
    BY <1>1, <1>2, <2>1, <2>2, <2>3 DEF MotorTypes
<1>7. /\ h \in Timing /\ h.from = virtual /\ h.to = to /\ h.elapsed = 0 /\ h.due = Interval
      /\ h.stopsCover = sc /\ h.live = (virtual # to)
  BY <1>2, TopNat DEF NewHandler, Timing, TimingTypes
<1> HIDE DEF h
<1>8. /\ handlers \in Seq(Timing) /\ Len(handlers) \in Nat /\ DOMAIN handlers = 1..Len(handlers)
      /\ handlers' \in Seq(Timing) /\ Len(handlers') = n /\ handlers'[n] = h
      /\ DOMAIN handlers' = 1..n /\ \A i \in 1..Len(handlers) : handlers'[i] = handlers[i]
  BY <1>1, <1>2, <1>7 DEF TimingTypes
<1>9. n \in Nat /\ n # 0 /\ n \in 0..n /\ n \in 1..n /\ \A i \in 1..n : i \in 1..Len(handlers) \/ i = n
  BY <1>8
<1> HIDE DEF n
<1>10. handling' = n
  BY <1>1, <1>8
<1>11. TimingTypes'
  BY <1>1, <1>2, <1>8, <1>9, <1>10 DEF TimingTypes
<1>12. ASSUME ~superseded' PROVE Tracked'
  <2>1. ~superseded /\ ~Moving /\ goal = Off /\ Tracked
    BY <1>1, <1>12 DEF CoverInv
  <2>2. \A i \in DOMAIN handlers : ~handlers[i].live
    BY <2>1 DEF Moving
  <2>3. AtEnd
    BY <2>1 DEF Tracked
  <2>4. OneHandler'
    <3>1. \A i \in DOMAIN handlers' : handlers'[i].live => i = handling'
      BY <1>8, <1>9, <1>10, <2>2
    <3>2. h.live \/ h.from = h.to
      BY <1>7
    <3> QED
      BY <1>8, <1>10, <3>1, <3>2 DEF OneHandler
  <2>5. ASSUME ~astray' PROVE Distance(virtual, physical) <= drift' + Slack(stops)
    <3>1. virtual \in Positions /\ physical \in Positions /\ stops \in Nat
      BY <1>2 DEF MotorTypes, TimingTypes
    <3>2. Slack(stops) \in Nat
      BY TopNat DEF Slack
    <3>3. CASE landed
      <4>1. Distance(virtual, physical) = 0
        BY <2>1, <2>3, <3>1, <3>3, Distances DEF AtEnd
      <4> QED
        BY <1>1, <3>2, <3>3, <4>1
    <3>4. CASE ~landed
      BY <1>1, <2>3, <2>5, <3>4 DEF AtEnd
    <3> QED
      BY <3>3, <3>4
  <2>6. ASSUME h.live PROVE Beside(handlers[handling])'
    <3>1. virtual # to
      BY <1>7, <2>6
    <3>2. h.from \in Positions /\ h.to \in Positions
      BY <1>2, <1>7 DEF TimingTypes
    <3>3. Toward(h.from, target, h.elapsed) = virtual
      BY <1>7, <3>2, TowardMoves
    <3>4. Total(h) \in Nat /\ Total(h) # 0
      BY <1>7, <3>1, <3>2, TopNat, Distances DEF Total
    <3>5. h.elapsed + h.due <= Total(h) - 1 + Interval
      BY <1>7, <3>4, TopNat
    <3>6. handlers'[handling'] = h
      BY <1>8, <1>10
    <3>7. ASSUME ~astray' PROVE target \in Ends(h) /\ OnCourseNext(h, target)
      <4>1. ~Strays(to, target)
        BY <1>1, <3>7
      <4>2. target \in Ends(h)
        BY <1>7, <3>1, <4>1 DEF Strays, Ends
      <4>3. goal' = target \/ (goal' = Off /\ physical' = target)
        BY <1>1, <1>4
      <4>4. Distance(Toward(h.from, target, h.elapsed), physical') <= drift' + Slack(stops')
        BY <1>1, <2>5, <3>3, <3>7
      <4> QED
        BY <4>2, <4>3, <4>4 DEF OnCourseNext
    <3>8. landed' => goal' = Off /\ physical' = to
      BY <1>1, <1>4
    <3> QED
      BY <1>1, <1>7, <3>1, <3>5, <3>6, <3>7, <3>8 DEF Beside, Ends, Total, OnCourse, OnCourseNext
  <2>7. Moving' <=> h.live
    BY <1>8, <1>9, <2>2 DEF Moving
  <2>8. ASSUME ~h.live PROVE AtEnd'
    <3>1. virtual = to
      BY <1>7, <2>8
    <3>2. storedPosition' = virtual'
      BY <1>1, <2>3 DEF AtEnd
    <3>3. goal' = Off /\ landed' => virtual' = physical'
      BY <1>1, <3>1
    <3>4. goal' # Off => ~landed' /\ virtual' = aim'
      BY <1>1, <1>4, <3>1
    <3>5. ~astray' /\ goal' # Off => goal' = aim'
      BY <1>1, <1>4, <3>1 DEF Strays
    <3> QED
      BY <1>1, <2>5, <3>2, <3>3, <3>4, <3>5 DEF AtEnd
  <2> QED
    BY <1>8, <1>10, <2>4, <2>6, <2>7, <2>8 DEF Tracked
<1> QED
  BY <1>6, <1>11, <1>12 DEF CoverInv

LEMMA CoverMoves ==
    ASSUME CoverInv, OpenCover \/ CloseCover \/ \E asked \in Positions : SetPosition(asked)
    PROVE  CoverInv'
<1>1. OpenEnd \in Positions /\ CloseEnd \in Positions
  BY TopNat DEF OpenEnd, CloseEnd, Positions
<1>2. CASE OpenCover
  BY <1>1, <1>2, MoveBegins DEF OpenCover
<1>3. CASE CloseCover
  BY <1>1, <1>3, MoveBegins DEF CloseCover
<1>4. ASSUME NEW asked \in Positions, SetPosition(asked) PROVE CoverInv'
  <2> DEFINE to == IF inverted THEN Top - asked ELSE asked
  <2>1. to \in Positions
    BY TopNat DEF Positions
  <2>2. IF precise THEN BeginMove(to, to, FALSE)
        ELSE \E target \in {Towards(to)} \cup (IF sets THEN {to} ELSE {}) : BeginMove(to, target, TRUE)
    BY <1>4 DEF SetPosition
  <2> HIDE DEF to
  <2>3. Towards(to) \in Positions
    BY <1>1 DEF Towards
  <2>4. CASE precise
    BY <2>1, <2>2, <2>4, MoveBegins
  <2>5. CASE ~precise
    <3>1. PICK target \in {Towards(to)} \cup (IF sets THEN {to} ELSE {}) : BeginMove(to, target, TRUE)
      BY <2>2, <2>5
    <3>2. target \in Positions
      BY <2>1, <2>3, <3>1
    <3> QED
      BY <2>1, <3>1, <3>2, MoveBegins
  <2> QED
    BY <2>4, <2>5
<1> QED
  BY <1>2, <1>3, <1>4

(* A handler ends.                                                         *)
LEMMA HandlerEnds ==
    ASSUME CoverInv, NEW i \in DOMAIN handlers, handling' \in {0, handling}, stops' \in Nat,
           handlers' = [handlers EXCEPT ![i].live = FALSE],
           virtual' = LastUpdate(handlers[i]), storedPosition' = virtual'
    PROVE  /\ TimingTypes'
           /\ (~superseded /\ i = handling /\ handling' = 0) => OneHandler' /\ ~Moving'
<1>1. TimingTypes /\ handlers \in Seq(Timing) /\ handlers[i] \in Timing /\ virtual \in Positions
      /\ DOMAIN handlers = 1..Len(handlers) /\ Len(handlers) \in Nat
  BY DEF CoverInv, TimingTypes
<1>2. /\ handlers' \in Seq(Timing) /\ DOMAIN handlers' = DOMAIN handlers
      /\ Len(handlers') = Len(handlers) /\ ~handlers'[i].live
      /\ \A j \in DOMAIN handlers : j # i => handlers'[j] = handlers[j]
  BY <1>1, TopNat, HandlerChanges
<1>3. virtual' \in Positions
  BY <1>1, LastUpdateIs
<1>4. handling' \in 0..Len(handlers')
  BY <1>1, <1>2 DEF TimingTypes
<1>5. TimingTypes'
  BY <1>2, <1>3, <1>4 DEF TimingTypes
<1>6. ASSUME ~superseded, i = handling, handling' = 0 PROVE OneHandler' /\ ~Moving'
  <2>1. \A j \in DOMAIN handlers : handlers[j].live => j = i
    BY <1>6 DEF CoverInv, Tracked, OneHandler
  <2>2. \A j \in DOMAIN handlers' : ~handlers'[j].live
    BY <1>2, <2>1
  <2> QED
    BY <1>6, <2>2 DEF OneHandler, Moving
<1> QED
  BY <1>5, <1>6

(* A handler that is not live, or none, leaves the cover at its end.       *)
LEMMA NoneLive ==
    ASSUME CoverInv, ~superseded, handling # 0 => ~handlers[handling].live
    PROVE  /\ ~Moving /\ AtEnd /\ OneHandler
           /\ handling # 0 => handlers[handling].from = handlers[handling].to
<1>1. OneHandler /\ handling \in 0..Len(handlers) /\ handlers \in Seq(Timing)
      /\ (~Moving => AtEnd)
  BY DEF CoverInv, Tracked, TimingTypes
<1>2. \A i \in DOMAIN handlers : i # 0
  BY <1>1
<1>3. ~Moving
  BY <1>1, <1>2 DEF Moving, OneHandler
<1> QED
  BY <1>1, <1>3 DEF OneHandler

LEMMA CoverTimer ==
    ASSUME CoverInv, NEW i \in DOMAIN handlers, TimerFires(i)
    PROVE  CoverInv'
<1> DEFINE h == handlers[i]
<1>1. MotorTypes /\ TimingTypes /\ h \in Timing /\ h.live /\ h.due = 0
      /\ i \in 1..Len(handlers) /\ Len(handlers) \in Nat /\ i # 0
      /\ DOMAIN handlers = 1..Len(handlers)
  BY DEF CoverInv, TimingTypes, TimerFires
<1>2. UNCHANGED <<inverted, sets, precise, physical, goal, aim, landed, drift, astray, superseded>>
  BY DEF TimerFires, optionVars, motorVars, driftVars
<1>3. MotorTypes'
  BY <1>1, <1>2 DEF MotorTypes
<1>4. h.elapsed \in Nat /\ h.from \in Positions /\ h.to \in Positions /\ h.stopsCover \in BOOLEAN
  BY <1>1 DEF Timing
<1>5. Total(h) \in Nat /\ (h.from # h.to => Total(h) # 0) /\ (h.from = h.to => Total(h) = 0)
  BY <1>4, TopNat, Distances DEF Total
<1>6. ~superseded => i = handling /\ Beside(h) /\ OneHandler /\ Moving
  BY <1>1 DEF CoverInv, Tracked, OneHandler, Moving
<1>7. CASE h.elapsed < Total(h)
  <2>1. /\ virtual' = Reached(h) /\ handlers' = [handlers EXCEPT ![i].due = Interval]
        /\ UNCHANGED <<storedPosition, handling, stops>>
    BY <1>7 DEF TimerFires
  <2>2. virtual' \in Positions
    BY <1>1, <1>4, <1>5, <1>7, <2>1, ReachedIs
  <2>3. /\ handlers' \in Seq(Timing) /\ DOMAIN handlers' = DOMAIN handlers
        /\ Len(handlers') = Len(handlers) /\ handlers'[i] = [h EXCEPT !.due = Interval]
        /\ \A j \in DOMAIN handlers : j # i => handlers'[j] = handlers[j]
    <3> DEFINE s == [handlers EXCEPT ![i].due = Interval]
    <3>1. handlers \in Seq(Timing) /\ Interval \in Nat
      BY <1>1, TopNat DEF TimingTypes
    <3>2. /\ s \in Seq(Timing) /\ DOMAIN s = DOMAIN handlers
          /\ Len(s) = Len(handlers) /\ s[i] = [handlers[i] EXCEPT !.due = Interval]
          /\ \A j \in DOMAIN handlers : j # i => s[j] = handlers[j]
      BY <3>1, HandlerChanges, Zenon
    <3> HIDE DEF s
    <3>3. handlers' = s
      BY <2>1 DEF s
    <3> QED
      BY <3>2, <3>3
  <2>4. TimingTypes'
    BY <1>1, <2>1, <2>2, <2>3 DEF TimingTypes
  <2> DEFINE g == [h EXCEPT !.due = Interval]
  <2>5. g.from = h.from /\ g.to = h.to /\ g.elapsed = h.elapsed /\ g.due = Interval
        /\ g.live = h.live /\ g.stopsCover = h.stopsCover
    BY <1>1 DEF Timing
  <2>6. handlers'[i] = g
    BY <2>3
  <2> HIDE DEF g, h
  <2>7. ASSUME ~superseded PROVE Tracked'
    <3>1. i = handling /\ Beside(h) /\ OneHandler
      BY <1>6, <2>7
    <3>2. OneHandler' /\ Moving'
      BY <1>1, <2>1, <2>3, <2>5, <2>6, <3>1 DEF OneHandler, Moving, h
    <3>3. h.elapsed + Interval <= Total(h) - 1 + Interval
      BY <1>4, <1>5, <1>7, TopNat
    <3>4. Ends(g) = Ends(h) /\ Total(g) = Total(h)
      BY <2>5 DEF Ends, Total
    <3>5. \A e \in Ends(h) : OnCourse(h, e) => OnCourseNext(g, e)
      BY <1>2, <2>1, <2>5 DEF OnCourse, OnCourseNext
    <3>6. handlers'[handling'] = g
      BY <2>1, <2>6, <3>1
    <3>7. Beside(handlers[handling])'
      BY <1>2, <2>1, <2>5, <3>1, <3>3, <3>4, <3>5, <3>6 DEF Beside, OnCourse, OnCourseNext, Ends, Total
    <3> QED
      BY <3>2, <3>7 DEF Tracked
  <2> QED
    BY <1>2, <1>3, <2>4, <2>7 DEF CoverInv
<1>8. CASE ~(h.elapsed < Total(h))
  <2>1. /\ virtual' = LastUpdate(h) /\ storedPosition' = virtual'
        /\ handlers' = [handlers EXCEPT ![i].live = FALSE]
        /\ handling' = (IF handling = i THEN 0 ELSE handling)
        /\ stops' = (IF h.stopsCover THEN stops + 1 ELSE stops)
    BY <1>8 DEF TimerFires, EndHandler
  <2>2. stops \in Nat /\ stops' \in Nat
    BY <1>1, <2>1 DEF TimingTypes
  <2>3. /\ TimingTypes'
        /\ (~superseded /\ i = handling /\ handling' = 0) => OneHandler' /\ ~Moving'
    BY <2>1, <2>2, HandlerEnds
  <2> HIDE DEF h
  <2>4. ASSUME ~superseded PROVE Tracked'
    <3>1. i = handling /\ Beside(h) /\ h.from # h.to
      BY <1>6, <2>4 DEF Beside
    <3>2. OneHandler' /\ ~Moving' /\ handling' = 0
      BY <2>1, <2>3, <2>4, <3>1
    <3>3. virtual' = Reached(h) /\ Reached(h) = h.to
      BY <1>1, <1>4, <1>5, <1>8, <2>1, <3>1, LastUpdateIs, ReachedIs DEF TimingTypes
    <3>4. ~astray => Distance(virtual', physical) <= drift + Slack(stops')
      BY <1>1, <2>1, <2>2, <3>1, <3>3, EndOff
    <3>5. stops' = 0 => ~h.stopsCover
      BY <2>1, <2>2
    <3>6. landed => goal = Off /\ physical = h.to
      BY <3>1 DEF Beside
    <3>7. aim = h.to /\ ((goal # Off /\ stops' = 0 /\ ~astray) => goal = h.to)
      BY <3>1, <3>5 DEF Beside, OnCourse, Ends
    <3>8. AtEnd'
      BY <1>2, <2>1, <3>3, <3>4, <3>6, <3>7 DEF AtEnd
    <3> QED
      BY <3>2, <3>8 DEF Tracked
  <2> QED
    BY <1>2, <1>3, <2>3, <2>4 DEF CoverInv
<1> QED
  BY <1>7, <1>8

(* The user stops the cover.                                               *)
LEMMA CoverStopped ==
    ASSUME CoverInv, StopCover
    PROVE  CoverInv'
<1>1. MotorTypes /\ TimingTypes
  BY DEF CoverInv
<1>2. /\ goal' = Off /\ landed' = (landed /\ goal = Off /\ ~Moving) /\ (goal # Off \/ Moving)
      /\ UNCHANGED <<inverted, sets, precise, physical, aim, drift, astray, superseded>>
  BY DEF StopCover, SendStop, optionVars
<1>3. MotorTypes' /\ ~landed'
  BY <1>1, <1>2 DEF MotorTypes
<1>4. CASE handling = 0
  <2>1. UNCHANGED <<virtual, storedPosition, handlers, handling, stops>>
    BY <1>4 DEF StopCover, timingVars
  <2>2. TimingTypes'
    BY <1>1, <2>1 DEF TimingTypes
  <2>3. ASSUME ~superseded PROVE Tracked'
    <3>1. AtEnd /\ OneHandler /\ ~Moving
      BY <1>4, <2>3, NoneLive
    <3>2. OneHandler' /\ AtEnd'
      BY <1>2, <1>3, <2>1, <3>1 DEF OneHandler, AtEnd
    <3> QED
      BY <1>4, <2>1, <3>2 DEF Tracked
  <2> QED
    BY <1>2, <1>3, <2>2, <2>3 DEF CoverInv
<1>5. CASE handling # 0
  <2> DEFINE h == handlers[handling]
  <2>1. handling \in DOMAIN handlers /\ h \in Timing /\ stops \in Nat /\ virtual \in Positions
    BY <1>1, <1>5 DEF TimingTypes
  <2>2. /\ virtual' = LastUpdate(h) /\ storedPosition' = virtual'
        /\ handlers' = [handlers EXCEPT ![handling].live = FALSE]
        /\ handling' = 0
        /\ stops' = (IF h.stopsCover THEN stops + 1 ELSE stops)
    BY <1>5 DEF StopCover, EndHandler
  <2>3. stops' \in Nat
    BY <2>1, <2>2
  <2>4. TimingTypes' /\ (~superseded => OneHandler' /\ ~Moving')
    BY <2>1, <2>2, <2>3, HandlerEnds
  <2> HIDE DEF h
  <2>5. ASSUME ~superseded, ~astray PROVE Distance(virtual', physical) <= drift + Slack(stops')
    <3>1. CASE h.live
      <4>1. Beside(h) /\ h.from # h.to
        BY <1>5, <2>5, <3>1 DEF CoverInv, Tracked, Beside, h
      <4>2. virtual' = Reached(h)
        BY <2>1, <2>2, <4>1, LastUpdateIs
      <4> QED
        BY <1>1, <2>1, <2>2, <2>5, <4>1, <4>2, EndOff
    <3>2. CASE ~h.live
      <4>1. AtEnd /\ h.from = h.to
        BY <1>5, <2>5, <3>2, NoneLive DEF h
      <4>2. virtual' = virtual
        BY <2>1, <2>2, <4>1, LastUpdateIs
      <4>3. Distance(virtual, physical) <= drift + Slack(stops)
        BY <2>5, <4>1 DEF AtEnd
      <4>4. Distance(virtual, physical) \in Nat /\ drift \in Nat
        BY <1>1, <2>1, TopNat, Distances DEF MotorTypes, Positions
      <4>5. Slack(stops) \in Nat /\ Slack(stops') \in Nat /\ Slack(stops) <= Slack(stops')
        BY <2>1, <2>2, TopNat DEF Slack
      <4> HIDE DEF h
      <4> QED
        BY <4>2, <4>3, <4>4, <4>5
    <3> QED
      BY <3>1, <3>2
  <2>6. ASSUME ~superseded PROVE Tracked'
    <3>1. AtEnd'
      BY <1>2, <1>3, <2>2, <2>5, <2>6 DEF AtEnd
    <3> QED
      BY <2>2, <2>4, <2>6, <3>1 DEF Tracked
  <2> QED
    BY <1>2, <1>3, <2>4, <2>6 DEF CoverInv
<1> QED
  BY <1>4, <1>5

(* A handler's stop may leave the cover off by what a timer comes late.    *)
LEMMA MoreDrift ==
    ASSUME MotorTypes, stops \in Nat, NEW a \in Positions, NEW n \in Nat,
           Distance(a, physical) <= drift + Slack(stops),
           drift' = Smaller(Top, drift + Interval - 1)
    PROVE  drift' \in Positions /\ Distance(a, physical) <= drift' + Slack(n)
<1>1. Distance(a, physical) \in 0..Top /\ Slack(n) \in Nat /\ Slack(stops) <= Interval - 1
      /\ Slack(stops) \in Nat
  BY TopNat, Distances DEF MotorTypes, Slack
<1>2. drift \in Nat /\ drift <= Top
  BY TopNat DEF MotorTypes, Positions
<1> DEFINE d == Distance(a, physical)
           s == Slack(stops)
           t == Slack(n)
<1>3. d \in 0..Top /\ s \in Nat /\ s <= Interval - 1 /\ t \in Nat /\ d <= drift + s
  BY <1>1
<1> HIDE DEF d, s, t
<1>4. drift' = IF Top < drift + Interval - 1 THEN Top ELSE drift + Interval - 1
  BY DEF Smaller
<1>5. drift' \in Nat /\ drift' <= Top /\ d <= drift' + t
  BY <1>2, <1>3, <1>4, TopNat
<1> QED
  BY <1>5, TopNat DEF d, t, Positions

LEMMA CoverStopsItself ==
    ASSUME CoverInv, ScheduledStop
    PROVE  CoverInv'
<1>1. MotorTypes /\ TimingTypes /\ stops \in Nat /\ stops # 0
  BY DEF CoverInv, TimingTypes, ScheduledStop
<1>2. /\ goal' = Off /\ landed' = (landed /\ goal = Off /\ ~Moving)
      /\ drift' = Smaller(Top, drift + Interval - 1)
      /\ UNCHANGED <<inverted, sets, precise, physical, aim, astray, superseded>>
  BY DEF ScheduledStop, SendStop, optionVars
<1>3. drift' \in Positions
  <2>1. drift \in Nat /\ drift <= Top
    BY <1>1, TopNat DEF MotorTypes, Positions
  <2> QED
    BY <1>2, <2>1, TopNat DEF Smaller, Positions
<1>4. MotorTypes'
  BY <1>1, <1>2, <1>3 DEF MotorTypes
<1>5. CASE handling = 0
  <2>1. stops' = stops - 1 /\ UNCHANGED <<virtual, storedPosition, handlers, handling>>
    BY <1>5 DEF ScheduledStop
  <2>2. stops' \in Nat
    BY <1>1, <2>1
  <2>3. TimingTypes'
    BY <1>1, <2>1, <2>2 DEF TimingTypes
  <2>4. ASSUME ~superseded PROVE Tracked'
    <3>1. AtEnd /\ OneHandler /\ ~Moving
      BY <1>5, <2>4, NoneLive
    <3>2. ~astray => Distance(virtual, physical) <= drift' + Slack(stops')
      BY <1>1, <1>2, <2>2, <3>1, MoreDrift DEF AtEnd, TimingTypes
    <3>3. OneHandler' /\ AtEnd'
      BY <1>2, <2>1, <3>1, <3>2 DEF OneHandler, AtEnd
    <3> QED
      BY <1>5, <2>1, <3>3 DEF Tracked
  <2> QED
    BY <1>2, <1>4, <2>3, <2>4 DEF CoverInv
<1>6. CASE handling # 0
  <2> DEFINE h == handlers[handling]
  <2>1. handling \in DOMAIN handlers /\ h \in Timing /\ virtual \in Positions
    BY <1>1, <1>6 DEF TimingTypes
  <2>2. /\ virtual' = LastUpdate(h) /\ storedPosition' = virtual'
        /\ handlers' = [handlers EXCEPT ![handling].live = FALSE]
        /\ handling' = 0
        /\ stops' = (IF h.stopsCover THEN stops ELSE stops - 1)
    BY <1>6 DEF ScheduledStop
  <2>3. stops' \in Nat
    BY <1>1, <2>2
  <2>4. TimingTypes' /\ (~superseded => OneHandler' /\ ~Moving')
    BY <2>1, <2>2, <2>3, HandlerEnds
  <2> HIDE DEF h
  <2>5. ASSUME ~superseded
        PROVE  /\ virtual' \in Positions
               /\ ~astray => Distance(virtual', physical) <= drift + Slack(stops)
               /\ landed' => virtual' = physical
    <3>1. CASE h.live
      <4>1. Beside(h) /\ h.from # h.to /\ Moving
        BY <1>6, <2>1, <2>5, <3>1 DEF CoverInv, Tracked, Beside, Moving, h
      <4>2. virtual' = Reached(h) /\ Reached(h) \in Positions
        BY <2>1, <2>2, <4>1, LastUpdateIs, ReachedIs
      <4>3. h.elapsed = 0 /\ Total(h) \in Nat
        BY <1>1, <2>1, <4>1, ReachedIs DEF Beside
      <4>4. \A e \in Ends(h) : Reached(h) = Toward(h.from, e, h.elapsed)
        BY <2>1, <4>1, <4>3, ReachedIs
      <4> QED
        BY <1>2, <4>1, <4>2, <4>4 DEF Beside, OnCourse
    <3>2. CASE ~h.live
      <4>1. AtEnd /\ h.from = h.to
        BY <1>6, <2>5, <3>2, NoneLive DEF h
      <4>2. virtual' = virtual
        BY <2>1, <2>2, <4>1, LastUpdateIs
      <4> QED
        BY <1>2, <2>1, <4>1, <4>2 DEF AtEnd
    <3> QED
      BY <3>1, <3>2
  <2>6. ASSUME ~superseded PROVE Tracked'
    <3>1. ~astray => Distance(virtual', physical) <= drift' + Slack(stops')
      BY <1>1, <1>2, <2>3, <2>5, <2>6, MoreDrift
    <3>2. AtEnd'
      BY <1>2, <2>2, <2>5, <2>6, <3>1 DEF AtEnd
    <3> QED
      BY <2>2, <2>4, <2>6, <3>2 DEF Tracked
  <2> QED
    BY <1>2, <1>4, <2>4, <2>6 DEF CoverInv
<1> QED
  BY <1>5, <1>6

LEMMA CoverRestarts ==
    ASSUME CoverInv, RestartCover
    PROVE  CoverInv'
<1>1. MotorTypes /\ TimingTypes /\ handlers \in Seq(Timing)
  BY DEF CoverInv, TimingTypes
<1>2. /\ virtual' = storedPosition /\ handling' = 0 /\ stops' = 0
      /\ handlers' = [i \in DOMAIN handlers |-> [handlers[i] EXCEPT !.live = FALSE]]
      /\ superseded' = (superseded \/ ~CoverAtRest)
      /\ UNCHANGED <<inverted, sets, precise, physical, goal, storedPosition, aim, landed, drift, astray>>
  BY DEF RestartCover, optionVars, motorVars
<1>3. \A x \in Timing : [x EXCEPT !.live = FALSE] \in Timing /\ ~[x EXCEPT !.live = FALSE].live
  BY DEF Timing
<1>4. \A i \in DOMAIN handlers : handlers[i] \in Timing
  BY <1>1
<1>5. DOMAIN handlers' = DOMAIN handlers
      /\ \A i \in DOMAIN handlers : handlers'[i] \in Timing /\ ~handlers'[i].live
  BY <1>2, <1>3, <1>4
<1>6. handlers' = [i \in DOMAIN handlers |-> handlers'[i]]
  BY <1>2
<1>7. handlers' \in Seq(Timing) /\ Len(handlers') = Len(handlers)
  BY <1>1, <1>5, <1>6, AllChange
<1>8. MotorTypes'
  BY <1>1, <1>2 DEF MotorTypes, CoverAtRest
<1>9. TimingTypes'
  BY <1>1, <1>2, <1>7 DEF TimingTypes
<1>10. ASSUME ~superseded' PROVE Tracked'
  <2>1. ~superseded /\ ~Moving /\ goal = Off /\ stops = 0
    BY <1>2, <1>10 DEF CoverAtRest
  <2>2. AtEnd
    BY <2>1 DEF CoverInv, Tracked
  <2>3. OneHandler' /\ AtEnd'
    BY <1>2, <1>5, <2>1, <2>2 DEF OneHandler, AtEnd
  <2> QED
    BY <1>2, <2>3 DEF Tracked
<1> QED
  BY <1>8, <1>9, <1>10 DEF CoverInv

(* A unit of time for the motor.                                           *)
LEMMA MotorSteps ==
    ASSUME MotorTypes, goal # Off, physical' = IF physical < goal THEN physical + 1 ELSE physical - 1
    PROVE  /\ goal \in Positions /\ physical \in Positions /\ physical' \in Positions
           /\ physical' = Step(physical, goal)
<1>1. goal \in Positions /\ physical \in Positions /\ goal # physical
  BY DEF MotorTypes
<1>2. goal \in Int /\ physical \in Int /\ 0 <= goal /\ goal <= Top /\ 0 <= physical
      /\ physical <= Top /\ Top \in Nat
  BY <1>1, TopNat DEF Positions
<1>3. physical' = Step(physical, goal)
  BY <1>1, <1>2 DEF Step
<1>4. physical' \in Positions
  BY <1>1, <1>3, StepsDoNotPart
<1> QED
  BY <1>1, <1>3, <1>4

LEMMA CoverTime ==
    ASSUME CoverInv, TimePasses
    PROVE  CoverInv'
<1>1. MotorTypes /\ TimingTypes /\ handlers \in Seq(Timing) /\ stops = 0
      /\ physical \in Positions /\ aim \in Positions
  BY DEF CoverInv, TimingTypes, MotorTypes, TimePasses
<1>2. /\ handlers' = [i \in DOMAIN handlers |->
           IF handlers[i].live THEN [handlers[i] EXCEPT !.elapsed = @ + 1, !.due = @ - 1]
                               ELSE handlers[i]]
      /\ physical' = (IF goal = Off THEN physical
                      ELSE IF physical < goal THEN physical + 1 ELSE physical - 1)
      /\ goal' = (IF physical' = goal THEN Off ELSE goal)
      /\ landed' = (IF goal # Off /\ goal' = Off THEN goal = aim ELSE landed)
      /\ UNCHANGED <<inverted, sets, precise, virtual, storedPosition, handling, stops,
                     aim, drift, astray, superseded>>
      /\ \A i \in DOMAIN handlers : handlers[i].live => handlers[i].due > 0
      /\ Moving \/ goal # Off
  BY DEF TimePasses, optionVars
<1>3. CoverInv'
  <2>1. physical' \in Positions
    BY <1>1, <1>2, MotorSteps
  <2>2. goal' = Off \/ (goal' \in Positions /\ goal' # physical')
    BY <1>1, <1>2 DEF MotorTypes
  <2>3. landed' \in BOOLEAN
    BY <1>1, <1>2 DEF MotorTypes
  <2>4. MotorTypes'
    BY <1>1, <1>2, <2>1, <2>2, <2>3 DEF MotorTypes
  <2>5. ASSUME NEW x \in Timing, x.due > 0
        PROVE  LET y == [x EXCEPT !.elapsed = @ + 1, !.due = @ - 1]
               IN  /\ y \in Timing /\ y.from = x.from /\ y.to = x.to /\ y.elapsed = x.elapsed + 1
                   /\ y.due = x.due - 1 /\ y.live = x.live /\ y.stopsCover = x.stopsCover
    <3> DEFINE e == x.elapsed + 1
               d == x.due - 1
               y == [x EXCEPT !.elapsed = e, !.due = d]
    <3>1. e \in Nat /\ d \in Nat
      BY <2>5 DEF Timing
    <3> HIDE DEF e, d
    <3>2. /\ y \in Timing /\ y.from = x.from /\ y.to = x.to /\ y.elapsed = e
          /\ y.due = d /\ y.live = x.live /\ y.stopsCover = x.stopsCover
      BY <2>5, <3>1 DEF Timing
    <3> QED
      BY <3>2 DEF e, d
  <2>6. \A i \in DOMAIN handlers : handlers[i] \in Timing
    BY <1>1
  <2>7. DOMAIN handlers' = DOMAIN handlers /\ handlers' = [i \in DOMAIN handlers |-> handlers'[i]]
    BY <1>2
  <2>8. \A i \in DOMAIN handlers :
          /\ handlers[i].live =>
               /\ handlers'[i] \in Timing
               /\ handlers'[i].from = handlers[i].from /\ handlers'[i].to = handlers[i].to
               /\ handlers'[i].elapsed = handlers[i].elapsed + 1
               /\ handlers'[i].due = handlers[i].due - 1
               /\ handlers'[i].live
               /\ handlers'[i].stopsCover = handlers[i].stopsCover
          /\ ~handlers[i].live => handlers'[i] = handlers[i]
    BY <1>2, <2>5, <2>6
  <2>9. \A i \in DOMAIN handlers : handlers'[i] \in Timing
    BY <2>6, <2>8
  <2>10. handlers' \in Seq(Timing) /\ Len(handlers') = Len(handlers)
    BY <1>1, <2>7, <2>9, AllChange
  <2>11. TimingTypes'
    BY <1>1, <1>2, <2>10 DEF TimingTypes
  <2>12. ASSUME ~superseded PROVE Tracked'
    <3>1. OneHandler /\ handling \in 0..Len(handlers) /\ DOMAIN handlers = 1..Len(handlers)
          /\ Len(handlers) \in Nat
      BY <1>1, <2>12 DEF CoverInv, Tracked, TimingTypes
    <3>2. handling # 0 => handling \in DOMAIN handlers
      BY <3>1
    <3>3. OneHandler'
      BY <1>2, <2>7, <2>8, <3>1, <3>2 DEF OneHandler
    <3>4. CASE handling # 0 /\ handlers[handling].live
      <4> DEFINE h == handlers[handling]
                 g == handlers'[handling]
      <4>1. Beside(h) /\ h \in Timing /\ h.elapsed \in Nat /\ h.due \in Nat /\ h.from \in Positions
            /\ h.to \in Positions /\ h.stopsCover \in BOOLEAN
        BY <2>6, <2>12, <3>2, <3>4 DEF CoverInv, Tracked, Timing
      <4>2. /\ g.from = h.from /\ g.to = h.to /\ g.elapsed = h.elapsed + 1 /\ g.due = h.due - 1
            /\ g.live /\ g.stopsCover = h.stopsCover
        BY <2>8, <3>2, <3>4
      <4>14. g = handlers'[handling']
        BY <1>2
      <4> HIDE DEF h, g
      <4>3. Ends(g) = Ends(h) /\ Total(g) = Total(h)
        BY <4>2 DEF Ends, Total
      <4>4. h.from # h.to /\ Total(h) \in Nat /\ \A e \in Ends(h) : e \in Positions
        BY <4>1, ReachedIs DEF Beside
      <4>10. ASSUME NEW e \in Ends(h), OnCourse(h, e) PROVE OnCourseNext(g, e)
        <5> DEFINE y == Toward(h.from, e, h.elapsed)
        <5>1. e \in Positions
          BY <4>4, <4>10
        <5>2. y \in Positions /\ Toward(g.from, e, g.elapsed) = Step(y, e)
          <6>1. \A a, b \in Positions, n \in Nat :
                  /\ Toward(a, b, n) \in Positions
                  /\ Toward(a, b, n + 1) = Step(Toward(a, b, n), b)
            BY TowardMoves
          <6>2. Toward(g.from, e, g.elapsed) = Toward(h.from, e, h.elapsed + 1)
            BY <4>2
          <6> QED
            BY <4>1, <5>1, <6>1, <6>2
        <5>3. physical' = Step(physical, e)
          <6>1. CASE goal = Off
            <7>1. physical = e /\ physical' = physical
              BY <1>2, <4>10, <5>1, <6>1, OffIsNone DEF OnCourse
            <7> QED
              BY <5>1, <7>1, OffIsNone DEF Step
          <6>2. CASE goal # Off
            <7>1. goal = e
              BY <4>10, <6>2 DEF OnCourse
            <7> QED
              BY <1>1, <1>2, <6>2, <7>1, MotorSteps
          <6> QED
            BY <6>1, <6>2
        <5>4. Distance(y, physical) <= drift + Slack(stops)
          BY <4>10 DEF OnCourse
        <5> HIDE DEF y
        <5>5. /\ Distance(Step(y, e), Step(physical, e)) <= Distance(y, physical)
              /\ Step(y, e) \in Positions /\ Step(physical, e) \in Positions
          BY <1>1, <5>1, <5>2, StepsDoNotPart
        <5>6. /\ Distance(y, physical) \in Nat
              /\ Distance(Step(y, e), Step(physical, e)) \in Nat
          <6>1. \A a, b \in Positions : Distance(a, b) \in Nat
            BY TopNat, Distances
          <6> QED
            BY <1>1, <5>2, <5>5, <6>1
        <5>7. drift \in Nat /\ Slack(stops) \in Nat
          BY <1>1, TopNat DEF MotorTypes, Positions, Slack
        <5>8. Distance(Step(y, e), Step(physical, e)) <= drift + Slack(stops)
          BY <5>4, <5>5, <5>6, <5>7
        <5>9. goal' = e \/ (goal' = Off /\ physical' = e)
          BY <1>2, <4>10, <5>1, OffIsNone DEF OnCourse
        <5>10. Distance(Toward(g.from, e, g.elapsed), physical') <= drift' + Slack(stops')
          BY <1>2, <5>2, <5>3, <5>8
        <5> QED
          BY <5>9, <5>10 DEF OnCourseNext
      <4>11. landed' => goal' = Off /\ physical' = h.to
        <5>1. CASE goal = Off
          BY <1>2, <4>1, <4>4, <5>1, OffIsNone DEF Beside
        <5>2. CASE goal # Off
          BY <1>2, <4>1, <5>2 DEF Beside
        <5> QED
          BY <5>1, <5>2
      <4>12. g.elapsed + g.due <= Total(g) - 1 + Interval
        BY <4>1, <4>2, <4>3, <4>4, TopNat DEF Beside
      <4>15. Beside(handlers[handling])'
        <5>1. g.from # g.to /\ aim' = g.to
          BY <1>2, <4>1, <4>2, <4>4 DEF Beside
        <5>2. ~astray' => \E e \in Ends(g) : OnCourseNext(g, e)
          BY <1>2, <4>1, <4>3, <4>10 DEF Beside
        <5>3. landed' => goal' = Off /\ physical' = g.to
          BY <4>2, <4>11
        <5>5. stops' = stops
          BY <1>2
        <5>6. ~(stops' > 0)
          BY <1>1, <5>5
        <5> QED
          BY <4>12, <4>14, <5>1, <5>2, <5>3, <5>6 DEF Beside, OnCourse, OnCourseNext, Ends, Total
      <4>16. Moving'
        BY <2>7, <3>2, <3>4, <4>2, <4>14 DEF Moving, g
      <4> QED
        BY <3>3, <4>15, <4>16 DEF Tracked
    <3>5. CASE ~(handling # 0 /\ handlers[handling].live)
      <4>1. ~Moving /\ AtEnd
        BY <2>12, <3>5, NoneLive
      <4>2. /\ goal # Off /\ virtual = aim /\ ~landed /\ storedPosition = virtual
            /\ ~astray => goal = aim
        BY <1>1, <1>2, <4>1 DEF AtEnd
      <4>3. goal \in Positions /\ physical' = Step(physical, goal)
        BY <1>1, <1>2, <4>2, MotorSteps
      <4>4. Step(goal, goal) = goal
        BY <4>3, OffIsNone DEF Step
      <4>7. ASSUME ~astray PROVE Distance(virtual, physical') <= drift + Slack(stops)
        <5>1. virtual = goal
          BY <4>2, <4>7
        <5>2. Distance(virtual, physical') <= Distance(virtual, physical)
          BY <1>1, <4>3, <4>4, <5>1, StepsDoNotPart
        <5>3. Distance(virtual, physical) <= drift + Slack(stops)
          BY <4>1, <4>7 DEF AtEnd
        <5>4. Distance(virtual, physical') \in Nat /\ Distance(virtual, physical) \in Nat
          BY <1>1, <2>1, <4>3, <5>1, TopNat, Distances
        <5>5. drift \in Nat /\ Slack(stops) \in Nat
          BY <1>1, TopNat DEF MotorTypes, Positions, Slack
        <5> QED
          BY <5>2, <5>3, <5>4, <5>5
      <4>8. ASSUME physical' = goal PROVE AtEnd'
        <5>1. goal' = Off /\ storedPosition' = virtual' /\ landed' = (goal = aim)
          BY <1>2, <4>2, <4>8
        <5>2. landed' => virtual' = physical'
          BY <1>2, <4>2, <4>8, <5>1
        <5> QED
          BY <1>2, <4>7, <5>1, <5>2 DEF AtEnd
      <4>9. ASSUME physical' # goal PROVE AtEnd'
        <5>1. goal' = goal /\ goal' # Off /\ ~landed' /\ virtual' = aim'
              /\ storedPosition' = virtual' /\ (~astray' => goal' = aim')
          BY <1>2, <4>2, <4>9
        <5> QED
          BY <1>2, <4>7, <5>1 DEF AtEnd
      <4>10. ~(handling' # 0 /\ handlers'[handling'].live)
        BY <1>2, <2>8, <3>2, <3>5
      <4> QED
        BY <3>3, <4>8, <4>9, <4>10 DEF Tracked
    <3> QED
      BY <3>4, <3>5
  <2> QED
    BY <1>2, <2>4, <2>11, <2>12 DEF CoverInv
<1> QED
  BY <1>3

LEMMA CoverInvStep == CoverInv /\ [CoverNext]_coverVars => CoverInv'
<1> SUFFICES ASSUME CoverInv, [CoverNext]_coverVars PROVE CoverInv'
  OBVIOUS
<1>1. CASE UNCHANGED coverVars
  BY <1>1 DEF coverVars, optionVars, motorVars, timingVars, driftVars, CoverInv, MotorTypes,
              TimingTypes, Tracked, OneHandler, Beside, OnCourse, AtEnd, Moving
<1>2. CASE CoverNext
  BY <1>2, CoverMoves, CoverTimer, CoverStopped, CoverStopsItself, CoverRestarts, CoverTime
     DEF CoverNext
<1> QED
  BY <1>1, <1>2

(* As long as no command came before the last move was over, the position   *)
(* shown at rest, and the one stored for the next start, is off by no more  *)
(* than the timed stops since the cover last ran into a position came late, *)
(* and right if there were none or the cover ended its last move by itself, *)
(* for inverted covers and any position data point, whatever the size, the  *)
(* interval and the restarts.  Not so since the motor was last sent where   *)
(* the handler does not count (`astray`: async_set_cover_position turns an  *)
(* inverted cover the wrong way, and opens or closes one that is where it   *)
(* is asked to be) (XTCoverVirtualPositionHandler, async_stop_cover).       *)
THEOREM PositionStaysTrue == CoverSpec => []PositionTrue
<1>1. CoverInit => CoverInv
  BY CoverInvInit
<1>2. CoverInv /\ [CoverNext]_coverVars => CoverInv'
  BY CoverInvStep
<1>3. CoverInv => PositionTrue
  <2> SUFFICES ASSUME CoverInv, CoverAtRest, ~superseded
               PROVE  /\ ~astray => Distance(virtual, physical) <= drift
                      /\ landed => virtual = physical
                      /\ storedPosition = virtual
    BY DEF PositionTrue
  <2>1. AtEnd /\ stops = 0 /\ goal = Off
    BY DEF CoverInv, Tracked, CoverAtRest
  <2>2. drift + Slack(stops) = drift
    BY <2>1, TopNat DEF CoverInv, MotorTypes, Positions, Slack
  <2> QED
    BY <2>1, <2>2 DEF AtEnd
<1> QED
  BY <1>1, <1>2, <1>3, PTL DEF CoverSpec

-----------------------------------------------------------------------------
(* The copies of a device.  The merge is two nested loops: the inner one   *)
(* leaves the copies it has come to with the same codes (Level), and so    *)
(* the outer one ends with all of them level.  What the master's group     *)
(* then gets tells every other copy from it, and the mirror writes it      *)
(* there.  The loops are recursive functions; that these are well defined, *)
(* and what holds at each of their steps, is shown by induction on a set   *)
(* of natural numbers.                                                     *)

(* Induction on the natural numbers, for a set.                            *)
LEMMA NatInduct ==
    ASSUME NEW S, 0 \in S, \A n \in Nat : n \in S => n + 1 \in S
    PROVE  Nat \subseteq S
<1> DEFINE T == Nat \ S
<1> SUFFICES ASSUME T # {} PROVE FALSE
  OBVIOUS
<1>0. PICK R : R = OpToRel(<, Nat)
  OBVIOUS
<1>1. \A x, y \in Nat : x < y => <<x, y>> \in R
  BY <1>0 DEF OpToRel
<1>2. IsWellFoundedOn(R, Nat)
  BY <1>0, NatLessThanWellFounded
<1>3. T \subseteq Nat
  OBVIOUS
<1>4. PICK m \in T : \A k \in T : ~(<<k, m>> \in R)
  <2> HIDE DEF T
  <2> QED
    BY <1>2, <1>3, WFMin
<1>5. m \in Nat /\ m # 0
  BY <1>4
<1>6. m - 1 \in Nat /\ m - 1 < m /\ (m - 1) + 1 = m
  BY <1>5
<1>7. m - 1 \in T
  BY <1>4, <1>6
<1> QED
  BY <1>1, <1>4, <1>5, <1>6, <1>7

(* The loop over the copies before the n-th, as a function of how far it is. *)
LEMMA MergeUpTo ==
    ASSUME NEW state, NEW order, NEW n \in Nat \ {0}
    PROVE  \E g : /\ g = [p \in 0..(n - 1) |-> IF p = 0 THEN state
                                              ELSE MergeDevices(g[p - 1], order[p], order[n])]
                  /\ MergeWithEarlier(state, order, n) = g[n - 1]
<1> DEFINE F(g, k) == [p \in 0..k |-> IF p = 0 THEN state
                                     ELSE MergeDevices(g[p - 1], order[p], order[n])]
<1> DEFINE S == {k \in Nat : \E g : g = F(g, k)}
<1>1. 0 \in S
  <2>1. PICK g : g = [p \in 0..0 |-> state]
    OBVIOUS
  <2>2. g = F(g, 0)
    BY <2>1
  <2> QED
    BY <2>2
<1>2. ASSUME NEW k \in Nat, k \in S PROVE k + 1 \in S
  <2>1. PICK g : g = F(g, k)
    BY <1>2
  <2>2. PICK h : h = [p \in 0..(k + 1) |->
                        IF p = k + 1 THEN MergeDevices(g[k], order[k + 1], order[n]) ELSE g[p]]
    OBVIOUS
  <2>3. \A p \in 0..k : h[p] = g[p]
    BY <2>2
  <2>4. \A p \in 0..(k + 1) : h[p] = F(h, k + 1)[p]
    BY <2>1, <2>2, <2>3
  <2>5. h = F(h, k + 1)
    BY <2>2, <2>4
  <2> QED
    BY <2>5
<1>3. n - 1 \in S
  BY <1>1, <1>2, NatInduct, n - 1 \in Nat
<1> DEFINE up == CHOOSE g : g = F(g, n - 1)
<1>4. up = F(up, n - 1)
  BY <1>3
<1>5. MergeWithEarlier(state, order, n) = up[n - 1]
  BY DEF MergeWithEarlier
<1> QED
  BY <1>4, <1>5

(* What every step of the merge keeps: the copies have dictionaries and      *)
(* groups.                                                                   *)
Grouped(state, held, codes) ==
    /\ state.status \in [held -> Statuses(codes)]
    /\ UNION state.shared = held

(* An assignment makes of the given copies a group with that dictionary.    *)
Assigned(before, after, held, copies, dictionary) ==
    /\ \A c \in held : after.status[c] = IF c \in copies THEN dictionary ELSE before.status[c]
    /\ \A g \in after.shared : \A c \in copies : c \in g => g = copies

LEMMA AssignKeepsGroups ==
    ASSUME NEW state, NEW held, NEW codes, Grouped(state, held, codes),
           NEW copies \in SUBSET held, NEW dictionary \in Statuses(codes)
    PROVE  /\ Grouped(Assign(state, copies, dictionary), held, codes)
           /\ Assigned(state, Assign(state, copies, dictionary), held, copies, dictionary)
<1>1. /\ Assign(state, copies, dictionary).status =
           [c \in held |-> IF c \in copies THEN dictionary ELSE state.status[c]]
      /\ Assign(state, copies, dictionary).shared =
           ({g \ copies : g \in state.shared} \ {{}}) \cup {copies}
  BY DEF Assign, State, Grouped
<1>2. Assign(state, copies, dictionary).status \in [held -> Statuses(codes)]
  BY <1>1 DEF Grouped
<1>3. UNION Assign(state, copies, dictionary).shared = held
  <2> DEFINE groups == ({g \ copies : g \in state.shared} \ {{}}) \cup {copies}
  <2>1. ASSUME NEW c \in UNION groups PROVE c \in held
    <3>1. PICK h \in groups : c \in h
      BY <2>1
    <3>2. h = copies \/ \E g \in state.shared : h = g \ copies
      BY <3>1
    <3> QED
      BY <3>1, <3>2 DEF Grouped
  <2>2. ASSUME NEW c \in held PROVE c \in UNION groups
    <3>1. CASE c \in copies
      BY <3>1
    <3>2. CASE c \notin copies
      <4>1. PICK g \in state.shared : c \in g
        BY DEF Grouped
      <4>2. g \ copies \in groups /\ c \in g \ copies
        BY <3>2, <4>1
      <4> QED
        BY <4>2
    <3> QED
      BY <3>1, <3>2
  <2>3. UNION groups = held
    <3> HIDE DEF groups
    <3> QED
      BY <2>1, <2>2
  <2> QED
    BY <1>1, <2>3
<1>4. \A c \in held : Assign(state, copies, dictionary).status[c] =
                          IF c \in copies THEN dictionary ELSE state.status[c]
  BY <1>1
<1>5. ASSUME NEW g \in Assign(state, copies, dictionary).shared, NEW c \in copies, c \in g
      PROVE  g = copies
  <2>1. g = copies \/ \E h \in state.shared : g = h \ copies
    BY <1>1
  <2> QED
    BY <1>5, <2>1
<1> QED
  BY <1>2, <1>3, <1>4, <1>5 DEF Grouped, Assigned

LEMMA GroupHolds ==
    ASSUME NEW state, NEW held, UNION state.shared = held, NEW c \in held
    PROVE  /\ GroupOf(state, c) \in state.shared /\ c \in GroupOf(state, c)
           /\ GroupOf(state, c) \subseteq held
<1>1. \E g \in state.shared : c \in g
  OBVIOUS
<1>2. GroupOf(state, c) \in state.shared /\ c \in GroupOf(state, c)
  BY <1>1 DEF GroupOf
<1> QED
  BY <1>2

LEMMA StatusesMerge ==
    ASSUME NEW codes, NEW left \in Statuses(codes), NEW right \in Statuses(codes)
    PROVE  /\ SmartMerge(left, right) \in Statuses(codes)
           /\ DOMAIN SmartMerge(left, right) = DOMAIN left \cup DOMAIN right
<1>1. PICK a \in SUBSET codes : left \in [a -> Values]
  BY DEF Statuses
<1>2. PICK b \in SUBSET codes : right \in [b -> Values]
  BY DEF Statuses
<1>3. SmartMerge(left, right) \in [a \cup b -> Values]
  BY <1>1, <1>2 DEF SmartMerge
<1>4. a \cup b \in SUBSET codes
  OBVIOUS
<1> QED
  BY <1>1, <1>2, <1>3, <1>4 DEF Statuses

(* Two copies that are merged have the codes of both.                        *)
(* Two copies have the codes of both.                                        *)
TwoMerged(before, after, held, first, second) ==
    \A c \in held : DOMAIN after.status[c] =
        IF c \in {first, second} THEN DOMAIN before.status[first] \cup DOMAIN before.status[second]
        ELSE DOMAIN before.status[c]

LEMMA MergeTwo ==
    ASSUME NEW state, NEW held, NEW codes, Grouped(state, held, codes),
           NEW first \in held, NEW second \in held
    PROVE  /\ Grouped(MergeDevices(state, first, second), held, codes)
           /\ TwoMerged(state, MergeDevices(state, first, second), held, first, second)
<1> DEFINE swap == Priority[second] < Priority[first]
<1>1. PICK higher, lower : /\ higher = (IF swap THEN second ELSE first)
                           /\ lower = (IF swap THEN first ELSE second)
  OBVIOUS
<1>2. {higher, lower} = {first, second} /\ higher \in held /\ lower \in held
  BY <1>1
<1>3. PICK dictionary : dictionary = SmartMerge(state.status[higher], state.status[lower])
  OBVIOUS
<1>4. PICK mid : mid = Assign(state, {higher}, dictionary)
  OBVIOUS
<1>5. MergeDevices(state, first, second) = Link(mid, lower, higher)
  BY <1>1, <1>3, <1>4 DEF MergeDevices
<1>6. /\ dictionary \in Statuses(codes)
      /\ DOMAIN dictionary = DOMAIN state.status[first] \cup DOMAIN state.status[second]
  <2>1. state.status[higher] \in Statuses(codes) /\ state.status[lower] \in Statuses(codes)
    BY <1>2 DEF Grouped
  <2>2. /\ dictionary \in Statuses(codes)
        /\ DOMAIN dictionary = DOMAIN state.status[higher] \cup DOMAIN state.status[lower]
    <3>1. /\ SmartMerge(state.status[higher], state.status[lower]) \in Statuses(codes)
          /\ DOMAIN SmartMerge(state.status[higher], state.status[lower]) =
               DOMAIN state.status[higher] \cup DOMAIN state.status[lower]
      BY <2>1, StatusesMerge
    <3> QED
      BY <1>3, <3>1
  <2> QED
    BY <1>1, <2>2
<1>7. /\ Grouped(mid, held, codes)
      /\ \A c \in held : mid.status[c] = IF c = higher THEN dictionary ELSE state.status[c]
      /\ \A g \in mid.shared : higher \in g => g = {higher}
  <2>1. PICK copies \in SUBSET held : copies = {higher}
    BY <1>2
  <2>2. /\ Grouped(Assign(state, copies, dictionary), held, codes)
        /\ Assigned(state, Assign(state, copies, dictionary), held, copies, dictionary)
    BY <1>6, AssignKeepsGroups
  <2> QED
    BY <1>4, <2>1, <2>2 DEF Assigned
<1>8. GroupOf(mid, higher) = {higher}
  <2>1. GroupOf(mid, higher) \in mid.shared /\ higher \in GroupOf(mid, higher)
    BY <1>2, <1>7, GroupHolds DEF Grouped
  <2> QED
    BY <1>7, <2>1
<1>9. mid.status[higher] = dictionary
  BY <1>2, <1>7
<1> DEFINE both == {higher} \cup {lower}
<1>10. Link(mid, lower, higher) = Assign(mid, both, dictionary)
  BY <1>8, <1>9 DEF Link
<1>11. /\ Grouped(Link(mid, lower, higher), held, codes)
       /\ \A c \in held : Link(mid, lower, higher).status[c] =
                           IF c \in {higher, lower} THEN dictionary ELSE mid.status[c]
  <2>1. /\ both \in SUBSET held /\ \A c : c \in both <=> c \in {higher, lower}
        /\ Grouped(mid, held, codes) /\ dictionary \in Statuses(codes)
    BY <1>2, <1>6, <1>7
  <2> HIDE DEF both
  <2>2. /\ Grouped(Assign(mid, both, dictionary), held, codes)
        /\ Assigned(mid, Assign(mid, both, dictionary), held, both, dictionary)
    BY <2>1, AssignKeepsGroups
  <2> QED
    BY <1>10, <2>1, <2>2 DEF Assigned
<1>12. ASSUME NEW c \in held
       PROVE  DOMAIN Link(mid, lower, higher).status[c] =
                    IF c \in {first, second} THEN DOMAIN state.status[first] \cup DOMAIN state.status[second]
                    ELSE DOMAIN state.status[c]
  BY <1>2, <1>6, <1>7, <1>11
<1> QED
  BY <1>5, <1>11, <1>12 DEF TwoMerged

(* Copies that are level have the same codes.                                *)
Level(state, order, n) ==
    \A i, j \in 1..n : DOMAIN state.status[order[i]] = DOMAIN state.status[order[j]]

LEMMA MergeLevels ==
    ASSUME NEW state, NEW held, NEW codes, Grouped(state, held, codes),
           NEW m \in Nat, NEW order \in [1..m -> held],
           \A i, j \in 1..m : order[i] = order[j] => i = j,
           NEW n \in 1..m, Level(state, order, n - 1)
    PROVE  /\ Grouped(MergeWithEarlier(state, order, n), held, codes)
           /\ Level(MergeWithEarlier(state, order, n), order, n)
<1>1. PICK g : /\ g = [p \in 0..(n - 1) |-> IF p = 0 THEN state
                                              ELSE MergeDevices(g[p - 1], order[p], order[n])]
               /\ MergeWithEarlier(state, order, n) = g[n - 1]
  BY MergeUpTo, n \in Nat \ {0}
<1> DEFINE V == DOMAIN state.status[order[n]]
           W == DOMAIN state.status[order[1]] \cup V
           Done(p) == /\ Grouped(g[p], held, codes)
                      /\ \A i \in 1..p : DOMAIN g[p].status[order[i]] = W
                      /\ \A i \in (p + 1)..(n - 1) : DOMAIN g[p].status[order[i]] = DOMAIN state.status[order[1]]
                      /\ DOMAIN g[p].status[order[n]] = IF p = 0 THEN V ELSE W
           S == {p \in Nat : p <= n - 1 => Done(p)}
<1>2. 0 \in S
  <2>1. g[0] = state
    BY <1>1
  <2>2. \A i \in (0 + 1)..(n - 1) : DOMAIN g[0].status[order[i]] = DOMAIN state.status[order[1]]
    BY <2>1 DEF Level
  <2>3. Done(0)
    BY <2>1, <2>2
  <2> QED
    BY <2>3
<1>3. ASSUME NEW p \in Nat, p \in S PROVE p + 1 \in S
  <2> SUFFICES ASSUME p + 1 <= n - 1 PROVE Done(p + 1)
    OBVIOUS
  <2>1. Done(p)
    BY <1>3
  <2>2. /\ p + 1 \in 1..m /\ p + 1 # n /\ p \in 0..(n - 1) /\ p + 1 \in 0..(n - 1) /\ (p + 1) - 1 = p
        /\ p + 1 # 0
    OBVIOUS
  <2>3. g[p + 1] = MergeDevices(g[p], order[p + 1], order[n])
    BY <1>1, <2>2
  <2>4. /\ DOMAIN g[p].status[order[p + 1]] = DOMAIN state.status[order[1]]
        /\ DOMAIN g[p].status[order[p + 1]] \cup DOMAIN g[p].status[order[n]] = W
    BY <2>1, <2>2
  <2>5. /\ Grouped(g[p + 1], held, codes)
        /\ \A c \in held : DOMAIN g[p + 1].status[c] =
             IF c \in {order[p + 1], order[n]} THEN W ELSE DOMAIN g[p].status[c]
    <3>1. order[p + 1] \in held /\ order[n] \in held
      BY <2>2
    <3> HIDE DEF W
    <3>2. Grouped(g[p], held, codes)
      BY <2>1 DEF Done
    <3>3. Grouped(g[p + 1], held, codes) /\ TwoMerged(g[p], g[p + 1], held, order[p + 1], order[n])
      BY <2>3, <3>1, <3>2, MergeTwo
    <3> QED
      BY <2>4, <3>3 DEF TwoMerged
  <2>6. ASSUME NEW i \in 1..(p + 1) PROVE DOMAIN g[p + 1].status[order[i]] = W
    <3> HIDE DEF W, V
    <3>1. order[i] \in held
      BY <2>2
    <3> QED
      BY <2>1, <2>5, <3>1
  <2>7. ASSUME NEW i \in (p + 1 + 1)..(n - 1)
        PROVE DOMAIN g[p + 1].status[order[i]] = DOMAIN state.status[order[1]]
    <3>1. order[i] \in held /\ i \in 1..m /\ i \notin {p + 1, n} /\ i \in (p + 1)..(n - 1)
      BY <2>2
    <3>2. order[i] \notin {order[p + 1], order[n]}
      BY <2>2, <3>1
    <3> HIDE DEF W, V
    <3> QED
      BY <2>1, <2>5, <3>1, <3>2
  <2>8. DOMAIN g[p + 1].status[order[n]] = W
    <3> HIDE DEF W, V
    <3> QED
      BY <2>5
  <2> QED
    BY <2>2, <2>5, <2>6, <2>7, <2>8
<1>4. Done(n - 1)
  <2> HIDE DEF Done
  <2>1. n - 1 \in Nat
    OBVIOUS
  <2>2. n - 1 \in S
    <3> HIDE DEF S
    <3> QED
      BY <1>2, <1>3, <2>1, NatInduct
  <2> QED
    BY <2>2
<1>5. ASSUME NEW i \in 1..n PROVE DOMAIN g[n - 1].status[order[i]] = IF n = 1 THEN V ELSE W
  <2>1. CASE i = n
    BY <1>4, <2>1
  <2>2. CASE i # n
    <3>1. i \in 1..(n - 1) /\ n # 1
      BY <2>2
    <3> QED
      BY <1>4, <3>1
  <2> QED
    BY <2>1, <2>2
<1> QED
  BY <1>1, <1>4, <1>5 DEF Level

(* The loop over all copies, in the same way.                                *)
LEMMA MergeSourcesUpTo ==
    ASSUME NEW state, NEW order, Len(order) \in Nat
    PROVE  \E g : /\ g = [n \in 0..Len(order) |-> IF n = 0 THEN state
                                                 ELSE MergeWithEarlier(g[n - 1], order, n)]
                  /\ MergeSources(state, order) = g[Len(order)]
<1> DEFINE F(g, k) == [n \in 0..k |-> IF n = 0 THEN state ELSE MergeWithEarlier(g[n - 1], order, n)]
<1> DEFINE S == {k \in Nat : \E g : g = F(g, k)}
<1>1. 0 \in S
  <2>1. PICK g : g = [n \in 0..0 |-> state]
    OBVIOUS
  <2>2. g = F(g, 0)
    BY <2>1
  <2> QED
    BY <2>2
<1>2. ASSUME NEW k \in Nat, k \in S PROVE k + 1 \in S
  <2>1. PICK g : g = F(g, k)
    BY <1>2
  <2>2. PICK h : h = [n \in 0..(k + 1) |-> IF n = k + 1 THEN MergeWithEarlier(g[k], order, k + 1) ELSE g[n]]
    OBVIOUS
  <2>3. \A n \in 0..k : h[n] = g[n]
    BY <2>2
  <2>4. \A n \in 0..(k + 1) : h[n] = F(h, k + 1)[n]
    BY <2>1, <2>2, <2>3
  <2>5. h = F(h, k + 1)
    BY <2>2, <2>4
  <2> QED
    BY <2>5
<1>3. Len(order) \in S
  BY <1>1, <1>2, NatInduct
<1> DEFINE merged == CHOOSE g : g = F(g, Len(order))
<1>4. merged = F(merged, Len(order))
  BY <1>3
<1>5. MergeSources(state, order) = merged[Len(order)]
  BY DEF MergeSources
<1> QED
  BY <1>4, <1>5

LEMMA SourcesLevel ==
    ASSUME NEW state, NEW held, NEW codes, Grouped(state, held, codes),
           NEW order, Len(order) \in Nat, order \in [1..Len(order) -> held],
           \A i, j \in 1..Len(order) : order[i] = order[j] => i = j
    PROVE  /\ Grouped(MergeSources(state, order), held, codes)
           /\ Level(MergeSources(state, order), order, Len(order))
<1>1. PICK g : /\ g = [n \in 0..Len(order) |-> IF n = 0 THEN state
                                                 ELSE MergeWithEarlier(g[n - 1], order, n)]
               /\ MergeSources(state, order) = g[Len(order)]
  BY MergeSourcesUpTo
<1> DEFINE Done(n) == Grouped(g[n], held, codes) /\ Level(g[n], order, n)
           S == {n \in Nat : n <= Len(order) => Done(n)}
<1>2. 0 \in S
  <2>1. g[0] = state
    BY <1>1
  <2> QED
    BY <2>1 DEF Level
<1>3. ASSUME NEW n \in Nat, n \in S PROVE n + 1 \in S
  <2> SUFFICES ASSUME n + 1 <= Len(order) PROVE Done(n + 1)
    OBVIOUS
  <2>1. /\ n + 1 \in 1..Len(order) /\ n + 1 \in 0..Len(order) /\ n \in 0..Len(order)
        /\ (n + 1) - 1 = n /\ n + 1 # 0
    OBVIOUS
  <2>2. Grouped(g[n], held, codes) /\ Level(g[n], order, (n + 1) - 1)
    BY <1>3, <2>1
  <2>3. g[n + 1] = MergeWithEarlier(g[n], order, n + 1)
    BY <1>1, <2>1
  <2>4. /\ Grouped(MergeWithEarlier(g[n], order, n + 1), held, codes)
        /\ Level(MergeWithEarlier(g[n], order, n + 1), order, n + 1)
    <3>1. PICK m \in Nat : m = Len(order)
      OBVIOUS
    <3>2. PICK k \in 1..m : k = n + 1
      BY <2>1, <3>1
    <3>3. order \in [1..m -> held] /\ \A i, j \in 1..m : order[i] = order[j] => i = j
      BY <3>1
    <3>4. Grouped(g[n], held, codes) /\ Level(g[n], order, k - 1)
      BY <2>2, <3>2
    <3>5. /\ Grouped(MergeWithEarlier(g[n], order, k), held, codes)
          /\ Level(MergeWithEarlier(g[n], order, k), order, k)
      BY <3>3, <3>4, MergeLevels
    <3> QED
      BY <3>2, <3>5
  <2> QED
    BY <2>3, <2>4
<1>4. Done(Len(order))
  <2> HIDE DEF Done
  <2>1. Len(order) \in S
    <3> HIDE DEF S
    <3> QED
      BY <1>2, <1>3, NatInduct
  <2> QED
    BY <2>1
<1> QED
  BY <1>1, <1>4

(* The copies share one dictionary.                                          *)
Together(contents, groups, held) ==
    /\ groups = {held}
    /\ DOMAIN contents = held
    /\ \A c, d \in held : contents[c] = contents[d]

LEMMA AssignAll ==
    ASSUME NEW state, NEW held, held # {}, DOMAIN state.status = held, UNION state.shared = held,
           NEW dictionary
    PROVE  LET after == Assign(state, held, dictionary) IN Together(after.status, after.shared, held)
<1>1. \A g \in state.shared : g \ held = {}
  OBVIOUS
<1>2. ({g \ held : g \in state.shared} \ {{}}) \cup {held} = {held}
  BY <1>1
<1> QED
  BY <1>2 DEF Assign, State, Together

(* The code that only the master's group has tells every other copy from it, *)
(* and one code more than theirs is no collapse.                             *)
LEMMA PreparedTogether ==
    ASSUME NEW state, NEW held, Grouped(state, held, DpCodes), NEW master \in held,
           \A c \in held : DOMAIN state.status[c] = DOMAIN state.status[master]
    PROVE  LET ready == Align(AddDpcodes(state, master), master)
           IN  Together(ready.status, ready.shared, held)
<1>1. PICK codes : codes = DOMAIN state.status[master]
  OBVIOUS
<1>2. codes \in SUBSET DpCodes
  BY <1>1 DEF Grouped, Statuses
<1>3. /\ IsFiniteSet(codes) /\ Cardinality(codes) \in Nat
      /\ EventCode \notin codes /\ Cardinality(codes \cup {EventCode}) = Cardinality(codes) + 1
  <2>1. IsFiniteSet(DpCodes) /\ EventCode \notin DpCodes
    BY CopiesAssumption
  <2>2. IsFiniteSet(codes)
    BY <1>2, <2>1, FS_Subset
  <2> QED
    BY <1>2, <2>1, <2>2, FS_CardinalityType, FS_AddElement
<1>4. PICK dictionary : dictionary = SmartMerge(state.status[master], [c \in {EventCode} |-> 0])
  OBVIOUS
<1>5. DOMAIN dictionary = codes \cup {EventCode}
  BY <1>1, <1>4 DEF SmartMerge
<1>6. PICK group : group = GroupOf(state, master)
  OBVIOUS
<1>7. master \in group /\ group \subseteq held
  BY <1>6, GroupHolds DEF Grouped
<1>8. PICK ready : ready = AddDpcodes(state, master)
  OBVIOUS
<1>9. /\ ready.status = [c \in held |-> IF c \in group THEN dictionary ELSE state.status[c]]
      /\ ready.shared = state.shared
  BY <1>4, <1>6, <1>8 DEF AddDpcodes, State, Grouped
<1>10. ready.status[master] = dictionary /\ GroupOf(ready, master) = group
  BY <1>6, <1>7, <1>9 DEF GroupOf
<1>11. ASSUME NEW c \in held, c \notin group PROVE c \in Mirrored(ready, dictionary)
  <2>1. ready.status[c] = state.status[c] /\ DOMAIN state.status[c] = codes
    BY <1>1, <1>9, <1>11
  <2>2. ready.status[c] # dictionary
    BY <1>3, <1>5, <2>1
  <2>3. ~Collapses(ready.status[c], dictionary)
    <3>1. ~(2 * (Cardinality(codes) + 1) <= Cardinality(codes))
      BY <1>3
    <3> QED
      BY <1>3, <1>5, <2>1, <3>1 DEF Collapses
  <2> QED
    BY <1>9, <2>2, <2>3 DEF Mirrored
<1>12. group \cup Mirrored(ready, dictionary) = held
  <2>1. Mirrored(ready, dictionary) \subseteq held
    BY <1>9 DEF Mirrored
  <2> QED
    BY <1>7, <1>11, <2>1
<1>13. Align(ready, master) = Assign(ready, held, dictionary)
  BY <1>10, <1>12 DEF Align
<1>14. DOMAIN ready.status = held /\ UNION ready.shared = held
  BY <1>9 DEF Grouped
<1> QED
  BY <1>8, <1>13, <1>14, AssignAll

(* Until it is bound again, the copies of a device share one dictionary.     *)
FollowInv ==
    /\ requeries \in Nat
    /\ (HasMaps /\ requeries = 0) => Together(status, shared, Held)

(* Load, for the maps in a given order.                                      *)
LoadOrder(order) ==
    /\ IsInjective(order)
    /\ maps' = order
    /\ \E fetched \in [Range(order) -> Statuses(DpCodes)] :
         LET alone == State(fetched, {{c} : c \in Range(order)})
             merged == MergeSources(alone, order)
             ready == Align(AddDpcodes(merged, order[1]), order[1])
         IN status' = ready.status /\ shared' = ready.shared

LEMMA LoadFollows == FollowInv /\ Load => FollowInv'
<1> SUFFICES ASSUME FollowInv, Load PROVE FollowInv'
  OBVIOUS
<1>0. PICK length \in 1..Cardinality(Copies) : \E order \in [1..length -> Copies] : LoadOrder(order)
  BY DEF Load, LoadOrder
<1>1. PICK order \in [1..length -> Copies] :
        /\ IsInjective(order)
        /\ maps' = order
        /\ \E fetched \in [Range(order) -> Statuses(DpCodes)] :
             LET alone == State(fetched, {{c} : c \in Range(order)})
                 merged == MergeSources(alone, order)
                 ready == Align(AddDpcodes(merged, order[1]), order[1])
             IN status' = ready.status /\ shared' = ready.shared
  BY <1>0 DEF LoadOrder
<1>2. PICK fetched \in [Range(order) -> Statuses(DpCodes)] :
             LET alone == State(fetched, {{c} : c \in Range(order)})
                 merged == MergeSources(alone, order)
                 ready == Align(AddDpcodes(merged, order[1]), order[1])
             IN status' = ready.status /\ shared' = ready.shared
  BY <1>1
<1>3. PICK alone : alone = State(fetched, {{c} : c \in Range(order)})
  OBVIOUS
<1>4. PICK merged : merged = MergeSources(alone, order)
  OBVIOUS
<1>5. length \in Nat /\ 1 <= length /\ Len(order) = length
  <2>1. length \in Nat /\ 1 <= length
    BY FS_CardinalityType, CopiesAssumption
  <2> QED
    BY <2>1, LenProperties
<1>6. /\ order \in [1..Len(order) -> Range(order)]
      /\ \A i, j \in 1..Len(order) : order[i] = order[j] => i = j
      /\ order[1] \in Range(order)
  BY <1>1, <1>5 DEF Range, IsInjective
<1>7. Grouped(alone, Range(order), DpCodes)
  <2>1. UNION {{c} : c \in Range(order)} = Range(order)
    OBVIOUS
  <2> QED
    BY <1>3, <2>1 DEF Grouped, State
<1>8. Grouped(merged, Range(order), DpCodes) /\ Level(merged, order, Len(order))
  BY <1>4, <1>5, <1>6, <1>7, SourcesLevel
<1>9. \A c \in Range(order) : DOMAIN merged.status[c] = DOMAIN merged.status[order[1]]
  BY <1>5, <1>8 DEF Level, Range
<1>10. Together(status', shared', Range(order))
  BY <1>2, <1>3, <1>4, <1>6, <1>8, <1>9, PreparedTogether
<1> QED
  BY <1>1, <1>10 DEF FollowInv, Load, Held

LEMMA ReportFollows ==
    ASSUME FollowInv, NEW c, NEW code, NEW value, Reported(c, code, value)
    PROVE  FollowInv'
<1>1. c \in Held /\ UNCHANGED <<maps, shared, requeries>>
  BY DEF Reported
<1>2. CASE ~(HasMaps /\ requeries = 0)
  BY <1>1, <1>2 DEF FollowInv, HasMaps
<1>3. CASE HasMaps /\ requeries = 0
  <2>1. Together(status, shared, Held)
    BY <1>3 DEF FollowInv
  <2>2. GroupOf(State(status, shared), c) = Held
    BY <1>1, <2>1 DEF GroupOf, State, Together
  <2>3. status' = [d \in Held |-> SmartMerge([k \in {code} |-> value], status[d])]
    BY <2>2 DEF Reported
  <2>4. Together(status', shared', Held)
    BY <1>1, <2>1, <2>3 DEF Together
  <2> QED
    BY <1>1, <2>4 DEF FollowInv, Held
<1> QED
  BY <1>2, <1>3

(* What another hub fetches is mirrored into all of them, or into none.      *)
LEMMA ForeignFollows == FollowInv /\ ForeignFetch => FollowInv'
<1> SUFFICES ASSUME FollowInv, ForeignFetch PROVE FollowInv'
  OBVIOUS
<1>1. HasMaps /\ UNCHANGED <<maps, requeries>>
  BY DEF ForeignFetch
<1>2. CASE requeries # 0
  BY <1>1, <1>2 DEF FollowInv
<1>3. CASE requeries = 0
  <2>1. Together(status, shared, Held)
    BY <1>1, <1>3 DEF FollowInv
  <2>2. PICK before : before = State(status, shared)
    OBVIOUS
  <2>3. before.status = status /\ before.shared = shared
    BY <2>2 DEF State
  <2>4. PICK fetched : /\ status' = WriteFresh(before, fetched).status
                       /\ shared' = WriteFresh(before, fetched).shared
    BY <2>2 DEF ForeignFetch
  <2>5. CASE Mirrored(before, fetched) = {}
    <3>1. status' = status /\ shared' = shared
      BY <2>3, <2>4, <2>5 DEF WriteFresh
    <3> QED
      BY <1>1, <2>1, <3>1 DEF FollowInv, Held, HasMaps
  <2>6. CASE Mirrored(before, fetched) # {}
    <3>1. PICK c \in Held : status[c] # fetched /\ ~Collapses(status[c], fetched)
      BY <2>1, <2>3, <2>6 DEF Mirrored, Together
    <3>2. \A d \in Held : status[d] = status[c]
      BY <2>1 DEF Together
    <3>3. Mirrored(before, fetched) = Held
      BY <2>1, <2>3, <3>1, <3>2 DEF Mirrored, Together
    <3>4. WriteFresh(before, fetched) = Assign(before, Held, fetched)
      BY <2>6, <3>3 DEF WriteFresh
    <3>5. Held # {} /\ DOMAIN before.status = Held /\ UNION before.shared = Held
      BY <2>1, <2>3, <3>1 DEF Together
    <3>6. Together(status', shared', Held)
      BY <2>4, <3>4, <3>5, AssignAll
    <3> QED
      BY <1>1, <3>6 DEF FollowInv, Held
  <2> QED
    BY <2>5, <2>6
<1> QED
  BY <1>2, <1>3

(* The copies of a device share one dictionary from the merge on, whichever  *)
(* accounts list it, in whatever order and with whatever priorities, through *)
(* reports and through what another hub fetches, until it is bound again     *)
(* (multi_manager.py, _merge_device_sources; merging_manager.py).            *)
THEOREM CopiesFollow == CopySpec => []EntitiesFollow
<1>1. CopyInit => FollowInv
  BY DEF CopyInit, FollowInv, HasMaps
<1>2. FollowInv /\ [CopyNext]_copyVars => FollowInv'
  <2> SUFFICES ASSUME FollowInv, [CopyNext]_copyVars PROVE FollowInv'
    OBVIOUS
  <2>1. CASE Load
    BY <2>1, LoadFollows
  <2>2. CASE ForeignFetch
    BY <2>2, ForeignFollows
  <2>3. CASE \E c \in Copies : Requery(c)
    <3>1. requeries' = requeries + 1
      BY <2>3 DEF Requery
    <3> QED
      BY <3>1 DEF FollowInv
  <2>4. CASE \E c \in Copies, k \in DpCodes, v \in Values : Reported(c, k, v)
    BY <2>4, ReportFollows
  <2>5. CASE UNCHANGED copyVars
    BY <2>5 DEF FollowInv, copyVars, HasMaps, Held
  <2> QED
    BY <2>1, <2>2, <2>3, <2>4, <2>5 DEF CopyNext
<1>3. FollowInv => EntitiesFollow
  BY DEF FollowInv, EntitiesFollow, Together
<1> QED
  BY <1>1, <1>2, <1>3, PTL DEF CopySpec

-----------------------------------------------------------------------------
(* The codes of a data point through the merges and repairs of its          *)
(* descriptions.                                                            *)

(* The greatest index of a part of a sequence, which the folds take last.  *)
LEMMA TopIndex ==
    ASSUME NEW n \in Nat, NEW s \in SUBSET (1..n), s # {}
    PROVE  Max(s) \in s /\ \A y \in s : Max(s) >= y
<1> DEFINE T == {k \in Nat : \A t \in SUBSET (1..k) : t # {} => \E x \in t : \A y \in t : x >= y}
<1>1. 0 \in T
  <2>1. \A t \in SUBSET (1..0) : t = {}
    OBVIOUS
  <2> QED
    BY <2>1
<1>2. ASSUME NEW k \in Nat, k \in T PROVE k + 1 \in T
  <2>1. k + 1 \in Nat
    OBVIOUS
  <2>2. ASSUME NEW t \in SUBSET (1..k + 1), t # {} PROVE \E x \in t : \A y \in t : x >= y
    <3>1. CASE k + 1 \in t
      BY <3>1
    <3>2. CASE k + 1 \notin t
      <4>1. t \in SUBSET (1..k)
        BY <3>2
      <4> QED
        BY <1>2, <2>2, <4>1
    <3> QED
      BY <3>1, <3>2
  <2> QED
    BY <2>1, <2>2
<1>3. n \in T
  <2> HIDE DEF T
  <2> QED
    BY <1>1, <1>2, NatInduct
<1>4. \E x \in s : \A y \in s : x >= y
  BY <1>3
<1> QED
  BY <1>4 DEF Max

LEMMA TopRemoved ==
    ASSUME NEW n \in Nat, NEW s \in SUBSET (1..n + 1), s # {}
    PROVE  s \ {Max(s)} \in SUBSET (1..n)
<1>1. n + 1 \in Nat
  OBVIOUS
<1>2. Max(s) \in s /\ \A y \in s : Max(s) >= y
  BY <1>1, TopIndex
<1>3. PICK m : m = Max(s)
  OBVIOUS
<1>4. m \in 1..n + 1 /\ \A y \in s : m >= y /\ y \in 1..n + 1
  BY <1>2, <1>3
<1>5. ASSUME NEW y \in s, y # m PROVE y \in 1..n
  BY <1>4, <1>5
<1> QED
  BY <1>3, <1>5

LEMMA TopOfAll ==
    ASSUME NEW n \in Nat, NEW k \in 1..n
    PROVE  Max(1..k) = k /\ (1..k) \ {k} = 1..(k - 1)
<1>1. k \in Nat /\ k \in 1..k /\ 1..k \in SUBSET (1..k)
  OBVIOUS
<1>2. Max(1..k) \in 1..k /\ \A y \in 1..k : Max(1..k) >= y
  BY <1>1, TopIndex
<1>3. PICK m : m = Max(1..k)
  OBVIOUS
<1>4. m \in 1..k /\ m >= k
  BY <1>1, <1>2, <1>3
<1>5. m = k
  BY <1>1, <1>4
<1>6. (1..k) \ {k} = 1..(k - 1)
  OBVIOUS
<1> QED
  BY <1>3, <1>5, <1>6

FixesApplied(d, h) ==
    /\ h[0] = d
    /\ \A k \in 1..Len(Fixes) : h[k] = Fixed(h[k - 1], Fixes[k])

(* The fixes are applied one after the other.                              *)
LEMMA FixSteps ==
    ASSUME NEW d, NEW S, Fixes \in Seq(S)
    PROVE  \E h : FixesApplied(d, h) /\ ApplyFixes(d) = h[Len(Fixes)]
<1> DEFINE all == Fixes
           G(g, s) == IF s = {} THEN d
                      ELSE Fixed(g[s \ {Max(s)}], all[Max(s)])
           F(g, k) == [s \in SUBSET (1..k) |-> G(g, s)]
           T == {k \in Nat : \E g : g = F(g, k)}
<1>1. 0 \in T
  <2>1. PICK g : g = [s \in SUBSET (1..0) |-> d]
    OBVIOUS
  <2>2. \A s \in SUBSET (1..0) : s = {}
    OBVIOUS
  <2>3. \A s \in SUBSET (1..0) : G(g, s) = d
    BY <2>2
  <2>4. g = F(g, 0)
    <3> HIDE DEF G
    <3> QED
      BY <2>1, <2>3
  <2> QED
    BY <2>4
<1>2. ASSUME NEW k \in Nat, k \in T PROVE k + 1 \in T
  <2>1. PICK g : g = F(g, k)
    BY <1>2
  <2>2. PICK h : h = [s \in SUBSET (1..k + 1) |-> G(g, s)]
    OBVIOUS
  <2>3. ASSUME NEW s \in SUBSET (1..k) PROVE h[s] = g[s]
    <3>1. s \in SUBSET (1..k + 1)
      OBVIOUS
    <3>2. g[s] = G(g, s)
      <4> HIDE DEF G
      <4> QED
        BY <2>1
    <3> HIDE DEF G
    <3> QED
      BY <2>2, <3>1, <3>2
  <2>4. ASSUME NEW s \in SUBSET (1..k + 1) PROVE h[s] = G(h, s)
    <3>1. CASE s = {}
      BY <2>2, <3>1
    <3>2. CASE s # {}
      <4>1. PICK x : x = Max(s)
        OBVIOUS
      <4>2. s \ {x} \in SUBSET (1..k)
        BY <3>2, <4>1, TopRemoved
      <4>3. h[s \ {x}] = g[s \ {x}]
        BY <2>3, <4>2
      <4> QED
        BY <2>2, <3>2, <4>1, <4>3
    <3> QED
      BY <3>1, <3>2
  <2>5. h = F(h, k + 1)
    <3> HIDE DEF G
    <3> QED
      BY <2>2, <2>4
  <2>6. k + 1 \in Nat
    OBVIOUS
  <2> HIDE DEF F
  <2> QED
    BY <2>5, <2>6
<1>3. PICK n : n \in Nat /\ n = Len(all) /\ DOMAIN all = 1..n
  <2>1. PICK list \in Seq(S) : list = all
    OBVIOUS
  <2>2. Len(list) \in Nat /\ DOMAIN list = 1..Len(list)
    BY LenProperties
  <2> QED
    BY <2>1, <2>2
<1>4. n \in T
  <2> HIDE DEF T
  <2> QED
    BY <1>1, <1>2, <1>3, NatInduct
<1> DEFINE H(g) == [s \in SUBSET DOMAIN all |-> G(g, s)]
           iter == CHOOSE g : g = H(g)
<1>5. iter = H(iter)
  <2>1. \E g : g = H(g)
    BY <1>3, <1>4
  <2> QED
    BY <2>1
<1>6. ApplyFixes(d) = iter[DOMAIN all]
  BY DEF ApplyFixes, Fixes, FoldLeft, MapThenFoldSet
<1>7. \A s \in SUBSET (1..n) : iter[s] = G(iter, s)
  <2> HIDE DEF G, iter
  <2> QED
    BY <1>3, <1>5
<1>8. PICK h : h = [k \in 0..n |-> iter[1..k]]
  OBVIOUS
<1>9. h[0] = d
  <2>1. 0 \in 0..n /\ 1..0 = {}
    <3>1. n \in Nat
      BY <1>3
    <3> QED
      BY <3>1
  <2>2. iter[1..0] = G(iter, 1..0)
    <3>1. 1..0 \in SUBSET (1..n)
      BY <2>1
    <3> HIDE DEF G, iter
    <3> QED
      BY <1>7, <3>1
  <2>3. h[0] = iter[1..0]
    <3> HIDE DEF iter
    <3> QED
      BY <1>8, <2>1
  <2> HIDE DEF iter
  <2> QED
    BY <2>1, <2>2, <2>3
<1>10. ASSUME NEW k \in 1..n PROVE h[k] = Fixed(h[k - 1], all[k])
  <2>1. k \in 0..n /\ k - 1 \in 0..n /\ 1..k \in SUBSET (1..n) /\ 1..k # {}
    <3>1. n \in Nat
      BY <1>3
    <3>2. k \in 0..n /\ k - 1 \in 0..n
      BY <3>1
    <3>3. k \in 1..k /\ 1..k \in SUBSET (1..n)
      BY <3>1
    <3> QED
      BY <3>2, <3>3
  <2>2. Max(1..k) = k /\ (1..k) \ {k} = 1..(k - 1)
    BY <1>3, TopOfAll
  <2>3. h[k] = iter[1..k] /\ h[k - 1] = iter[1..(k - 1)]
    <3> HIDE DEF iter
    <3> QED
      BY <1>8, <2>1
  <2>4. iter[1..k] = G(iter, 1..k)
    <3> HIDE DEF G, iter
    <3> QED
      BY <1>7, <2>1
  <2> HIDE DEF iter
  <2> QED
    BY <2>1, <2>2, <2>3, <2>4
<1>11. iter[DOMAIN all] = h[n]
  <2> HIDE DEF iter
  <2> QED
    BY <1>3, <1>8
<1>12. ApplyFixes(d) = h[Len(all)]
  <2> HIDE DEF iter
  <2> QED
    BY <1>3, <1>6, <1>11
<1>13. FixesApplied(d, h)
  BY <1>3, <1>9, <1>10 DEF FixesApplied
<1> QED
  BY <1>12, <1>13

AllAgreed(higher, lower, h) ==
    /\ h[0] = <<higher, lower>>
    /\ \A k \in 1..Len(Agreements) : h[k] = Agreed(h[k - 1], Agreements[k])

(* Two copies are repaired side by side, step after step.                  *)
LEMMA AgreeSteps ==
    ASSUME NEW higher, NEW lower, NEW S, Agreements \in Seq(S)
    PROVE  \E h : AllAgreed(higher, lower, h) /\ AgreedPair(higher, lower) = h[Len(Agreements)]
<1> DEFINE all == Agreements
           G(g, s) == IF s = {} THEN <<higher, lower>>
                      ELSE Agreed(g[s \ {Max(s)}], all[Max(s)])
           F(g, k) == [s \in SUBSET (1..k) |-> G(g, s)]
           T == {k \in Nat : \E g : g = F(g, k)}
<1>1. 0 \in T
  <2>1. PICK g : g = [s \in SUBSET (1..0) |-> <<higher, lower>>]
    OBVIOUS
  <2>2. \A s \in SUBSET (1..0) : s = {}
    OBVIOUS
  <2>3. \A s \in SUBSET (1..0) : G(g, s) = <<higher, lower>>
    BY <2>2
  <2>4. g = F(g, 0)
    <3> HIDE DEF G
    <3> QED
      BY <2>1, <2>3
  <2> QED
    BY <2>4
<1>2. ASSUME NEW k \in Nat, k \in T PROVE k + 1 \in T
  <2>1. PICK g : g = F(g, k)
    BY <1>2
  <2>2. PICK h : h = [s \in SUBSET (1..k + 1) |-> G(g, s)]
    OBVIOUS
  <2>3. ASSUME NEW s \in SUBSET (1..k) PROVE h[s] = g[s]
    <3>1. s \in SUBSET (1..k + 1)
      OBVIOUS
    <3>2. g[s] = G(g, s)
      <4> HIDE DEF G
      <4> QED
        BY <2>1
    <3> HIDE DEF G
    <3> QED
      BY <2>2, <3>1, <3>2
  <2>4. ASSUME NEW s \in SUBSET (1..k + 1) PROVE h[s] = G(h, s)
    <3>1. CASE s = {}
      BY <2>2, <3>1
    <3>2. CASE s # {}
      <4>1. PICK x : x = Max(s)
        OBVIOUS
      <4>2. s \ {x} \in SUBSET (1..k)
        BY <3>2, <4>1, TopRemoved
      <4>3. h[s \ {x}] = g[s \ {x}]
        BY <2>3, <4>2
      <4> QED
        BY <2>2, <3>2, <4>1, <4>3
    <3> QED
      BY <3>1, <3>2
  <2>5. h = F(h, k + 1)
    <3> HIDE DEF G
    <3> QED
      BY <2>2, <2>4
  <2>6. k + 1 \in Nat
    OBVIOUS
  <2> HIDE DEF F
  <2> QED
    BY <2>5, <2>6
<1>3. PICK n : n \in Nat /\ n = Len(all) /\ DOMAIN all = 1..n
  <2>1. PICK list \in Seq(S) : list = all
    OBVIOUS
  <2>2. Len(list) \in Nat /\ DOMAIN list = 1..Len(list)
    BY LenProperties
  <2> QED
    BY <2>1, <2>2
<1>4. n \in T
  <2> HIDE DEF T
  <2> QED
    BY <1>1, <1>2, <1>3, NatInduct
<1> DEFINE H(g) == [s \in SUBSET DOMAIN all |-> G(g, s)]
           iter == CHOOSE g : g = H(g)
<1>5. iter = H(iter)
  <2>1. \E g : g = H(g)
    BY <1>3, <1>4
  <2> QED
    BY <2>1
<1>6. AgreedPair(higher, lower) = iter[DOMAIN all]
  BY DEF AgreedPair, Agreements, FoldLeft, MapThenFoldSet
<1>7. \A s \in SUBSET (1..n) : iter[s] = G(iter, s)
  <2> HIDE DEF G, iter
  <2> QED
    BY <1>3, <1>5
<1>8. PICK h : h = [k \in 0..n |-> iter[1..k]]
  OBVIOUS
<1>9. h[0] = <<higher, lower>>
  <2>1. 0 \in 0..n /\ 1..0 = {}
    <3>1. n \in Nat
      BY <1>3
    <3> QED
      BY <3>1
  <2>2. iter[1..0] = G(iter, 1..0)
    <3>1. 1..0 \in SUBSET (1..n)
      BY <2>1
    <3> HIDE DEF G, iter
    <3> QED
      BY <1>7, <3>1
  <2>3. h[0] = iter[1..0]
    <3> HIDE DEF iter
    <3> QED
      BY <1>8, <2>1
  <2> HIDE DEF iter
  <2> QED
    BY <2>1, <2>2, <2>3
<1>10. ASSUME NEW k \in 1..n PROVE h[k] = Agreed(h[k - 1], all[k])
  <2>1. k \in 0..n /\ k - 1 \in 0..n /\ 1..k \in SUBSET (1..n) /\ 1..k # {}
    <3>1. n \in Nat
      BY <1>3
    <3>2. k \in 0..n /\ k - 1 \in 0..n
      BY <3>1
    <3>3. k \in 1..k /\ 1..k \in SUBSET (1..n)
      BY <3>1
    <3> QED
      BY <3>2, <3>3
  <2>2. Max(1..k) = k /\ (1..k) \ {k} = 1..(k - 1)
    BY <1>3, TopOfAll
  <2>3. h[k] = iter[1..k] /\ h[k - 1] = iter[1..(k - 1)]
    <3> HIDE DEF iter
    <3> QED
      BY <1>8, <2>1
  <2>4. iter[1..k] = G(iter, 1..k)
    <3> HIDE DEF G, iter
    <3> QED
      BY <1>7, <2>1
  <2> HIDE DEF iter
  <2> QED
    BY <2>1, <2>2, <2>3, <2>4
<1>11. iter[DOMAIN all] = h[n]
  <2> HIDE DEF iter
  <2> QED
    BY <1>3, <1>8
<1>12. AgreedPair(higher, lower) = h[Len(all)]
  <2> HIDE DEF iter
  <2> QED
    BY <1>3, <1>6, <1>11
<1>13. AllAgreed(higher, lower, h)
  BY <1>3, <1>9, <1>10 DEF AllAgreed
<1> QED
  BY <1>12, <1>13

AllEnforced(higher, lower, h) ==
    /\ h[0] = MergeAgreed(higher, lower)
    /\ \A k \in 1..Len(<<lower, higher>>) : h[k] = Compatible(h[k - 1], <<lower, higher>>[k])

(* The merged device gets its codes back from one copy, then from the other. *)
LEMMA EnforceSteps ==
    ASSUME NEW higher, NEW lower, NEW S, <<lower, higher>> \in Seq(S)
    PROVE  \E h : AllEnforced(higher, lower, h) /\ MergeRepaired(higher, lower) = h[Len(<<lower, higher>>)]
<1> DEFINE all == <<lower, higher>>
           G(g, s) == IF s = {} THEN MergeAgreed(higher, lower)
                      ELSE Compatible(g[s \ {Max(s)}], all[Max(s)])
           F(g, k) == [s \in SUBSET (1..k) |-> G(g, s)]
           T == {k \in Nat : \E g : g = F(g, k)}
<1>1. 0 \in T
  <2>1. PICK g : g = [s \in SUBSET (1..0) |-> MergeAgreed(higher, lower)]
    OBVIOUS
  <2>2. \A s \in SUBSET (1..0) : s = {}
    OBVIOUS
  <2>3. \A s \in SUBSET (1..0) : G(g, s) = MergeAgreed(higher, lower)
    BY <2>2
  <2>4. g = F(g, 0)
    <3> HIDE DEF G
    <3> QED
      BY <2>1, <2>3
  <2> QED
    BY <2>4
<1>2. ASSUME NEW k \in Nat, k \in T PROVE k + 1 \in T
  <2>1. PICK g : g = F(g, k)
    BY <1>2
  <2>2. PICK h : h = [s \in SUBSET (1..k + 1) |-> G(g, s)]
    OBVIOUS
  <2>3. ASSUME NEW s \in SUBSET (1..k) PROVE h[s] = g[s]
    <3>1. s \in SUBSET (1..k + 1)
      OBVIOUS
    <3>2. g[s] = G(g, s)
      <4> HIDE DEF G
      <4> QED
        BY <2>1
    <3> HIDE DEF G
    <3> QED
      BY <2>2, <3>1, <3>2
  <2>4. ASSUME NEW s \in SUBSET (1..k + 1) PROVE h[s] = G(h, s)
    <3>1. CASE s = {}
      BY <2>2, <3>1
    <3>2. CASE s # {}
      <4>1. PICK x : x = Max(s)
        OBVIOUS
      <4>2. s \ {x} \in SUBSET (1..k)
        BY <3>2, <4>1, TopRemoved
      <4>3. h[s \ {x}] = g[s \ {x}]
        BY <2>3, <4>2
      <4> QED
        BY <2>2, <3>2, <4>1, <4>3
    <3> QED
      BY <3>1, <3>2
  <2>5. h = F(h, k + 1)
    <3> HIDE DEF G
    <3> QED
      BY <2>2, <2>4
  <2>6. k + 1 \in Nat
    OBVIOUS
  <2> HIDE DEF F
  <2> QED
    BY <2>5, <2>6
<1>3. PICK n : n \in Nat /\ n = Len(all) /\ DOMAIN all = 1..n
  <2>1. PICK list \in Seq(S) : list = all
    OBVIOUS
  <2>2. Len(list) \in Nat /\ DOMAIN list = 1..Len(list)
    BY LenProperties
  <2> QED
    BY <2>1, <2>2
<1>4. n \in T
  <2> HIDE DEF T
  <2> QED
    BY <1>1, <1>2, <1>3, NatInduct
<1> DEFINE H(g) == [s \in SUBSET DOMAIN all |-> G(g, s)]
           iter == CHOOSE g : g = H(g)
<1>5. iter = H(iter)
  <2>1. \E g : g = H(g)
    BY <1>3, <1>4
  <2> QED
    BY <2>1
<1>6. MergeRepaired(higher, lower) = iter[DOMAIN all]
  BY DEF MergeRepaired, Compatible, FoldLeft, MapThenFoldSet
<1>7. \A s \in SUBSET (1..n) : iter[s] = G(iter, s)
  <2> HIDE DEF G, iter
  <2> QED
    BY <1>3, <1>5
<1>8. PICK h : h = [k \in 0..n |-> iter[1..k]]
  OBVIOUS
<1>9. h[0] = MergeAgreed(higher, lower)
  <2>1. 0 \in 0..n /\ 1..0 = {}
    <3>1. n \in Nat
      BY <1>3
    <3> QED
      BY <3>1
  <2>2. iter[1..0] = G(iter, 1..0)
    <3>1. 1..0 \in SUBSET (1..n)
      BY <2>1
    <3> HIDE DEF G, iter
    <3> QED
      BY <1>7, <3>1
  <2>3. h[0] = iter[1..0]
    <3> HIDE DEF iter
    <3> QED
      BY <1>8, <2>1
  <2> HIDE DEF iter
  <2> QED
    BY <2>1, <2>2, <2>3
<1>10. ASSUME NEW k \in 1..n PROVE h[k] = Compatible(h[k - 1], all[k])
  <2>1. k \in 0..n /\ k - 1 \in 0..n /\ 1..k \in SUBSET (1..n) /\ 1..k # {}
    <3>1. n \in Nat
      BY <1>3
    <3>2. k \in 0..n /\ k - 1 \in 0..n
      BY <3>1
    <3>3. k \in 1..k /\ 1..k \in SUBSET (1..n)
      BY <3>1
    <3> QED
      BY <3>2, <3>3
  <2>2. Max(1..k) = k /\ (1..k) \ {k} = 1..(k - 1)
    BY <1>3, TopOfAll
  <2>3. h[k] = iter[1..k] /\ h[k - 1] = iter[1..(k - 1)]
    <3> HIDE DEF iter
    <3> QED
      BY <1>8, <2>1
  <2>4. iter[1..k] = G(iter, 1..k)
    <3> HIDE DEF G, iter
    <3> QED
      BY <1>7, <2>1
  <2> HIDE DEF iter
  <2> QED
    BY <2>1, <2>2, <2>3, <2>4
<1>11. iter[DOMAIN all] = h[n]
  <2> HIDE DEF iter
  <2> QED
    BY <1>3, <1>8
<1>12. MergeRepaired(higher, lower) = h[Len(all)]
  <2> HIDE DEF iter
  <2> QED
    BY <1>3, <1>6, <1>11
<1>13. AllEnforced(higher, lower, h)
  BY <1>3, <1>9, <1>10 DEF AllEnforced
<1> QED
  BY <1>12, <1>13

-----------------------------------------------------------------------------
(* The names of a data point through its repairs                           *)

(* What a strategy, and a copy, is called before and after.                *)
AlikeNamed(s, t) ==
    \/ s = NoStrategy /\ t = NoStrategy
    \/ s # NoStrategy /\ DOMAIN t = StrategyFields /\ t.code = s.code /\ t.alias = s.alias /\ t.format = s.format
SameNames(d, e) ==
    /\ DOMAIN e = CopyFields /\ DOMAIN e.status = DOMAIN d.status /\ e.forced = d.forced
    /\ AlikeNamed(d.strategy, e.strategy)

LEMMA Strategic == ASSUME NEW s, DOMAIN s = StrategyFields PROVE s # NoStrategy
<1>1. DOMAIN NoStrategy = {"code"}
  BY DEF NoStrategy
<1> QED
  BY <1>1 DEF StrategyFields

LEMMA NamesSelf == ASSUME NEW d, IsCopy(d) PROVE SameNames(d, d)
  BY DEF SameNames, AlikeNamed, IsCopy, HasStrategy

LEMMA NamesCopy ==
    ASSUME NEW d, NEW e, IsCopy(d), SameNames(d, e)
    PROVE  IsCopy(e) /\ (HasStrategy(e) <=> HasStrategy(d))
<1>1. CASE d.strategy = NoStrategy
  BY <1>1 DEF SameNames, AlikeNamed, IsCopy, HasStrategy
<1>2. CASE d.strategy # NoStrategy
  <2>1. e.strategy # NoStrategy
    BY <1>2, Strategic DEF SameNames, AlikeNamed
  <2> QED
    BY <1>2, <2>1 DEF SameNames, AlikeNamed, IsCopy, HasStrategy
<1> QED
  BY <1>1, <1>2

LEMMA NamesOn ==
    ASSUME NEW d, NEW e, NEW f, SameNames(d, e), SameNames(e, f)
    PROVE  SameNames(d, f)
<1>1. CASE d.strategy = NoStrategy
  BY <1>1 DEF SameNames, AlikeNamed
<1>2. CASE d.strategy # NoStrategy
  <2>1. e.strategy # NoStrategy
    BY <1>2, Strategic DEF SameNames, AlikeNamed
  <2> QED
    BY <1>2, <2>1 DEF SameNames, AlikeNamed
<1> QED
  BY <1>1, <1>2

LEMMA StrategySelf == ASSUME NEW d, IsCopy(d) PROVE AlikeNamed(d.strategy, d.strategy)
  BY DEF AlikeNamed, IsCopy, HasStrategy

(* A repair gives a copy other items, or another strategy of the same name. *)
LEMMA OtherItems ==
    ASSUME NEW d, IsCopy(d), NEW R, NEW F, NEW S, AlikeNamed(d.strategy, S)
    PROVE  /\ SameNames(d, [d EXCEPT !.range = R, !.function = F, !.strategy = S])
           /\ SameNames(d, [d EXCEPT !.strategy = S, !.range = R, !.function = F])
           /\ SameNames(d, [d EXCEPT !.range = R, !.function = F])
           /\ SameNames(d, [d EXCEPT !.strategy = S])
<1>1. DOMAIN d = CopyFields /\ AlikeNamed(d.strategy, d.strategy)
  BY StrategySelf DEF IsCopy
<1>2. PICK one : one = [d EXCEPT !.range = R, !.function = F, !.strategy = S]
  OBVIOUS
<1>3. DOMAIN one = CopyFields /\ one.status = d.status /\ one.forced = d.forced /\ one.strategy = S
  BY <1>1, <1>2 DEF CopyFields
<1>4. PICK two : two = [d EXCEPT !.strategy = S, !.range = R, !.function = F]
  OBVIOUS
<1>5. DOMAIN two = CopyFields /\ two.status = d.status /\ two.forced = d.forced /\ two.strategy = S
  BY <1>1, <1>4 DEF CopyFields
<1>6. PICK three : three = [d EXCEPT !.range = R, !.function = F]
  OBVIOUS
<1>7. DOMAIN three = CopyFields /\ three.status = d.status /\ three.forced = d.forced /\ three.strategy = d.strategy
  BY <1>1, <1>6 DEF CopyFields
<1>8. PICK four : four = [d EXCEPT !.strategy = S]
  OBVIOUS
<1>9. DOMAIN four = CopyFields /\ four.status = d.status /\ four.forced = d.forced /\ four.strategy = S
  BY <1>1, <1>8 DEF CopyFields
<1>10. SameNames(d, one) /\ SameNames(d, two) /\ SameNames(d, three) /\ SameNames(d, four)
  BY <1>1, <1>3, <1>5, <1>7, <1>9 DEF SameNames
<1> QED
  BY <1>2, <1>4, <1>6, <1>8, <1>10

LEMMA OtherItem ==
    ASSUME NEW d, IsCopy(d), NEW item \in {"range", "function"}, NEW I
    PROVE  SameNames(d, [d EXCEPT ![item] = I])
<1>1. DOMAIN d = CopyFields /\ AlikeNamed(d.strategy, d.strategy)
  BY StrategySelf DEF IsCopy
<1>2. PICK one : one = [d EXCEPT ![item] = I]
  OBVIOUS
<1>3. DOMAIN one = CopyFields /\ one.status = d.status /\ one.forced = d.forced /\ one.strategy = d.strategy
  BY <1>1, <1>2 DEF CopyFields
<1> QED
  BY <1>1, <1>2, <1>3 DEF SameNames

LEMMA OtherFields ==
    ASSUME NEW d, IsCopy(d), HasStrategy(d), NEW v, NEW w
    PROVE  /\ AlikeNamed(d.strategy, [d.strategy EXCEPT !.values = v])
           /\ AlikeNamed(d.strategy, [d.strategy EXCEPT !.type = w])
           /\ AlikeNamed(d.strategy, [d.strategy EXCEPT !.type = w, !.values = v])
           /\ AlikeNamed(d.strategy, [d.strategy EXCEPT !.mode = w])
           /\ AlikeNamed(d.strategy, [d.strategy EXCEPT !.conv = w])
           /\ AlikeNamed(d.strategy, [d.strategy EXCEPT !.open = v, !.property = w])
<1>1. PICK s : s = d.strategy
  OBVIOUS
<1>2. DOMAIN s = StrategyFields /\ s # NoStrategy
  BY <1>1 DEF IsCopy, HasStrategy
<1>3. AlikeNamed(s, [s EXCEPT !.values = v])
  BY <1>2 DEF AlikeNamed, StrategyFields
<1>4. AlikeNamed(s, [s EXCEPT !.type = w])
  BY <1>2 DEF AlikeNamed, StrategyFields
<1>5. AlikeNamed(s, [s EXCEPT !.type = w, !.values = v])
  BY <1>2 DEF AlikeNamed, StrategyFields
<1>6. AlikeNamed(s, [s EXCEPT !.mode = w])
  BY <1>2 DEF AlikeNamed, StrategyFields
<1>7. AlikeNamed(s, [s EXCEPT !.conv = w])
  BY <1>2 DEF AlikeNamed, StrategyFields
<1>8. AlikeNamed(s, [s EXCEPT !.open = v, !.property = w])
  BY <1>2 DEF AlikeNamed, StrategyFields
<1> QED
  BY <1>1, <1>3, <1>4, <1>5, <1>6, <1>7, <1>8

LEMMA OtherStrategy ==
    ASSUME NEW d, IsCopy(d), HasStrategy(d), NEW v, NEW w
    PROVE  /\ SameNames(d, [d EXCEPT !.strategy.type = w, !.strategy.values = v])
           /\ SameNames(d, [d EXCEPT !.strategy.mode = w])
<1>1. PICK s : s = d.strategy
  OBVIOUS
<1>2. DOMAIN s = StrategyFields /\ s # NoStrategy /\ DOMAIN d = CopyFields
  BY <1>1 DEF IsCopy, HasStrategy
<1>3. PICK one : one = [d EXCEPT !.strategy.type = w, !.strategy.values = v]
  OBVIOUS
<1>4. DOMAIN one = CopyFields /\ one.status = d.status /\ one.forced = d.forced
  BY <1>2, <1>3 DEF CopyFields
<1>5. DOMAIN one.strategy = StrategyFields /\ one.strategy.code = s.code
      /\ one.strategy.alias = s.alias /\ one.strategy.format = s.format
  BY <1>1, <1>2, <1>3 DEF CopyFields, StrategyFields
<1>6. SameNames(d, one)
  BY <1>1, <1>2, <1>4, <1>5 DEF SameNames, AlikeNamed
<1>7. PICK two : two = [d EXCEPT !.strategy.mode = w]
  OBVIOUS
<1>8. DOMAIN two = CopyFields /\ two.status = d.status /\ two.forced = d.forced
  BY <1>2, <1>7 DEF CopyFields
<1>9. DOMAIN two.strategy = StrategyFields /\ two.strategy.code = s.code
      /\ two.strategy.alias = s.alias /\ two.strategy.format = s.format
  BY <1>1, <1>2, <1>7 DEF CopyFields, StrategyFields
<1>10. SameNames(d, two)
  BY <1>1, <1>2, <1>8, <1>9 DEF SameNames, AlikeNamed
<1> QED
  BY <1>3, <1>6, <1>7, <1>10

-----------------------------------------------------------------------------
(* The repairs that keep the names                                         *)

LEMMA UnifyNames ==
    ASSUME NEW d, IsCopy(d), HasStrategy(d), NEW item \in {"range", "function"}
    PROVE  SameNames(d, UnifyWith(d, item))
<1>1. SameNames(d, d)
  BY NamesSelf
<1>2. \A I : SameNames(d, [d EXCEPT ![item] = I])
  BY OtherItem
<1>3. \A v, w : SameNames(d, [d EXCEPT !.strategy.type = w, !.strategy.values = v])
  BY OtherStrategy
<1>4. PICK c : c = d.strategy.code
  OBVIOUS
<1>5. PICK verdict : verdict = MostPlausible(d.strategy.type, d[item][c].type, ValueOf(d.status, c))
  OBVIOUS
<1>6. PICK I : I = OnItem(d[item], c, LAMBDA i : [i EXCEPT !.type = d.strategy.type, !.values = d.strategy.values])
  OBVIOUS
<1>7. PICK v, w : v = d[item][c].values /\ w = d[item][c].type
  OBVIOUS
<1>8. PICK one, two : one = [d EXCEPT ![item] = I] /\ two = [d EXCEPT !.strategy.type = w, !.strategy.values = v]
  OBVIOUS
<1>9. UnifyWith(d, item) \in {d, one, two}
  BY <1>4, <1>5, <1>6, <1>7, <1>8 DEF UnifyWith
<1>10. SameNames(d, one)
  BY <1>2, <1>8
<1>11. SameNames(d, two)
  BY <1>3, <1>8
<1> QED
  BY <1>1, <1>9, <1>10, <1>11

LEMMA UnifyDataTypesNames == ASSUME NEW d, IsCopy(d) PROVE SameNames(d, UnifyDataTypes(d))
<1>1. CASE ~HasStrategy(d)
  BY <1>1, NamesSelf DEF UnifyDataTypes
<1>2. CASE HasStrategy(d)
  <2>1. PICK ranged : ranged = UnifyWith(d, "range")
    OBVIOUS
  <2>2. PICK both : both = UnifyWith(ranged, "function")
    OBVIOUS
  <2>3. PICK again : again = UnifyWith(both, "range")
    OBVIOUS
  <2>4. SameNames(d, ranged)
    BY <1>2, <2>1, UnifyNames
  <2>5. IsCopy(ranged) /\ HasStrategy(ranged)
    BY <1>2, <2>4, NamesCopy
  <2>6. SameNames(ranged, both)
    BY <2>2, <2>5, UnifyNames
  <2>7. IsCopy(both) /\ HasStrategy(both)
    BY <2>5, <2>6, NamesCopy
  <2>8. SameNames(both, again)
    BY <2>3, <2>7, UnifyNames
  <2>9. SameNames(d, both)
    BY <2>4, <2>6, NamesOn
  <2>10. SameNames(d, again)
    BY <2>8, <2>9, NamesOn
  <2>11. UnifyDataTypes(d) \in {both, again}
    BY <1>2, <2>1, <2>2, <2>3 DEF UnifyDataTypes
  <2> QED
    BY <2>9, <2>10, <2>11
<1> QED
  BY <1>1, <1>2

LEMMA MapDpIdsNames == ASSUME NEW d, IsCopy(d) PROVE SameNames(d, MapDpIds(d))
<1>1. PICK R : R = [c \in DOMAIN d.range |-> IF c \in CodesOf(d) THEN [d.range[c] EXCEPT !.dp = Dp] ELSE d.range[c]]
  OBVIOUS
<1>2. PICK F : F = [c \in DOMAIN d.function |-> IF c \in CodesOf(d) THEN [d.function[c] EXCEPT !.dp = Dp] ELSE d.function[c]]
  OBVIOUS
<1>3. MapDpIds(d) = [d EXCEPT !.range = R, !.function = F]
  BY <1>1, <1>2 DEF MapDpIds
<1>4. AlikeNamed(d.strategy, d.strategy)
  BY StrategySelf
<1>5. SameNames(d, [d EXCEPT !.range = R, !.function = F])
  BY <1>4, OtherItems
<1> QED
  BY <1>3, <1>5

LEMMA RevaluedNames ==
    ASSUME NEW d, IsCopy(d), NEW S, NEW v,
           S = d.strategy \/ (HasStrategy(d) /\ S = [d.strategy EXCEPT !.values = v])
    PROVE  AlikeNamed(d.strategy, S)
<1>1. CASE S = d.strategy
  BY <1>1, StrategySelf
<1>2. CASE HasStrategy(d) /\ S = [d.strategy EXCEPT !.values = v]
  BY <1>2, OtherFields
<1> QED
  BY <1>1, <1>2

LEMMA FixValueDescrNames == ASSUME NEW d, IsCopy(d), NEW c PROVE SameNames(d, FixValueDescr(d, c))
<1> DEFINE inRange == c \in DOMAIN d.range
           inFunction == c \in DOMAIN d.function
           inStrategy == HasStrategy(d) /\ (Dp \in DpsOf(d, c) \/ c \in CodesOf(d))
           texts == (IF inStrategy THEN <<d.strategy.values>> ELSE <<>>)
                     \o (IF inRange THEN <<d.range[c].values>> ELSE <<>>)
                     \o (IF inFunction THEN <<d.function[c].values>> ELSE <<>>)
           good == (IF inStrategy /\ IsGood(d.strategy.values) THEN <<d.strategy.values>> ELSE <<>>)
                \o (IF inFunction /\ IsGood(d.function[c].values) THEN <<d.function[c].values>> ELSE <<>>)
                \o (IF inRange /\ IsGood(d.range[c].values) THEN <<d.range[c].values>> ELSE <<>>)
           errors == [i \in DOMAIN texts |-> RawOf(texts[i])]
           correct == IF good # <<>> THEN good[1] ELSE FixedDescr(errors)
           Fix(described) == Revalued(described, LAMBDA v : IF IsGood(v) THEN v ELSE correct)
           R == OnItem(d.range, c, Fix)
           F == OnItem(d.function, c, Fix)
           S == IF inStrategy THEN Fix(d.strategy) ELSE d.strategy
           v == IF IsGood(d.strategy.values) THEN d.strategy.values ELSE correct
<1>1. FixValueDescr(d, c) = [d EXCEPT !.range = R, !.function = F, !.strategy = S]
  BY DEF FixValueDescr
<1>2. S = d.strategy \/ (HasStrategy(d) /\ S = [d.strategy EXCEPT !.values = v])
  BY DEF Revalued
<1>3. PICK s, w : s = S /\ w = v
  OBVIOUS
<1>4. AlikeNamed(d.strategy, s)
  <2> HIDE DEF S, v
  <2> QED
    BY <1>2, <1>3, RevaluedNames
<1>5. PICK r, f : r = R /\ f = F
  OBVIOUS
<1>6. SameNames(d, [d EXCEPT !.range = r, !.function = f, !.strategy = s])
  <2> HIDE DEF S, v, R, F
  <2> QED
    BY <1>4, OtherItems
<1>7. FixValueDescr(d, c) = [d EXCEPT !.range = r, !.function = f, !.strategy = s]
  <2> HIDE DEF S, v, R, F
  <2> QED
    BY <1>1, <1>3, <1>5
<1> QED
  BY <1>6, <1>7

LEMMA FixIncorrectValuedescrNames == ASSUME NEW d, IsCopy(d) PROVE SameNames(d, FixIncorrectValuedescr(d))
<1>1. PICK c, b : c = CodeOrder[1] /\ b = CodeOrder[2]
  OBVIOUS
<1>2. PICK e : e = FixValueDescr(d, c)
  OBVIOUS
<1>3. SameNames(d, e)
  BY <1>2, FixValueDescrNames
<1>4. IsCopy(e)
  BY <1>3, NamesCopy
<1>5. SameNames(e, FixValueDescr(e, b))
  BY <1>4, FixValueDescrNames
<1>6. SameNames(d, FixValueDescr(e, b))
  BY <1>3, <1>5, NamesOn
<1> QED
  BY <1>1, <1>2, <1>6 DEF FixIncorrectValuedescr

(* A repair of every item, and of the strategy by new values.              *)
LEMMA EveryItem ==
    ASSUME NEW d, IsCopy(d), NEW R, NEW F, NEW v, NEW fixed, fixed = [d EXCEPT !.range = R, !.function = F]
    PROVE  /\ SameNames(d, fixed)
           /\ HasStrategy(d) => SameNames(d, [fixed EXCEPT !.strategy = [d.strategy EXCEPT !.values = v]])
<1>1. AlikeNamed(d.strategy, d.strategy)
  BY StrategySelf
<1>2. SameNames(d, fixed)
  BY <1>1, OtherItems
<1>3. ASSUME HasStrategy(d) PROVE SameNames(d, [fixed EXCEPT !.strategy = [d.strategy EXCEPT !.values = v]])
  <2>1. PICK s : s = [d.strategy EXCEPT !.values = v]
    OBVIOUS
  <2>2. AlikeNamed(d.strategy, s)
    BY <1>3, <2>1, OtherFields
  <2>3. SameNames(d, [d EXCEPT !.range = R, !.function = F, !.strategy = s])
    BY <2>2, OtherItems
  <2>4. [fixed EXCEPT !.strategy = s] = [d EXCEPT !.range = R, !.function = F, !.strategy = s]
    OBVIOUS
  <2> QED
    BY <2>1, <2>3, <2>4
<1> QED
  BY <1>2, <1>3

LEMMA FixPercentageScaleNames == ASSUME NEW d, IsCopy(d) PROVE SameNames(d, FixPercentageScale(d))
<1> DEFINE R == [c \in DOMAIN d.range |-> [d.range[c] EXCEPT !.values = PercentFixed(d.range[c].values)]]
           F == [c \in DOMAIN d.function |-> [d.function[c] EXCEPT !.values = PercentFixed(d.function[c].values)]]
           fixed == [d EXCEPT !.range = R, !.function = F]
           v == PercentFixed(d.strategy.values)
<1>1. FixPercentageScale(d) =
        IF HasStrategy(d)
        THEN [fixed EXCEPT !.strategy = [fixed.strategy EXCEPT !.values = PercentFixed(fixed.strategy.values)]]
        ELSE fixed
  BY DEF FixPercentageScale, MapItems, Revalued
<1>2. PICK r, f, w, e : r = R /\ f = F /\ w = v /\ e = fixed
  OBVIOUS
<1>3. e = [d EXCEPT !.range = r, !.function = f]
  BY <1>2
<1>4. e.strategy = d.strategy
  BY <1>3
<1>5. SameNames(d, e) /\ (HasStrategy(d) => SameNames(d, [e EXCEPT !.strategy = [d.strategy EXCEPT !.values = w]]))
  <2> HIDE DEF R, F, fixed, v
  <2> QED
    BY <1>3, EveryItem
<1>6. FixPercentageScale(d) = IF HasStrategy(d) THEN [e EXCEPT !.strategy = [d.strategy EXCEPT !.values = w]] ELSE e
  <2>1. [e.strategy EXCEPT !.values = PercentFixed(e.strategy.values)] = [d.strategy EXCEPT !.values = w]
    BY <1>2, <1>4
  <2> HIDE DEF fixed
  <2> QED
    BY <1>1, <1>2, <2>1
<1> QED
  BY <1>5, <1>6

LEMMA AlignCodeNames == ASSUME NEW d, IsCopy(d), NEW c PROVE SameNames(d, AlignCode(d, c))
<1> DEFINE fix == Aligned(Described(d, c))
           Revalue(described) == Revalued(described, LAMBDA v0 : fix @@ v0)
           inStrategy == HasStrategy(d) /\ DpOf(d, c) = Dp
           R == OnItem(d.range, c, Revalue)
           F == OnItem(d.function, c, Revalue)
           S == IF inStrategy THEN Revalue(d.strategy) ELSE d.strategy
           v == fix @@ d.strategy.values
<1>1. AlignCode(d, c) = IF ~NamedTwice(d, c) THEN d ELSE [d EXCEPT !.strategy = S, !.range = R, !.function = F]
  BY DEF AlignCode, EachDescriptor
<1>2. S = d.strategy \/ (HasStrategy(d) /\ S = [d.strategy EXCEPT !.values = v])
  BY DEF Revalued
<1>3. PICK s, w, r, f : s = S /\ w = v /\ r = R /\ f = F
  OBVIOUS
<1>4. AlikeNamed(d.strategy, s)
  <2> HIDE DEF S, v
  <2> QED
    BY <1>2, <1>3, RevaluedNames
<1>5. SameNames(d, [d EXCEPT !.strategy = s, !.range = r, !.function = f])
  <2> HIDE DEF S, v, R, F
  <2> QED
    BY <1>4, OtherItems
<1>6. AlignCode(d, c) \in {d, [d EXCEPT !.strategy = s, !.range = r, !.function = f]}
  <2> HIDE DEF S, v, R, F
  <2> QED
    BY <1>1, <1>3
<1> QED
  BY <1>5, <1>6, NamesSelf

LEMMA AlignValuedescrNames == ASSUME NEW d, IsCopy(d) PROVE SameNames(d, AlignValuedescr(d))
<1>1. PICK c, b : c = CodeOrder[1] /\ b = CodeOrder[2]
  OBVIOUS
<1>2. PICK e : e = AlignCode(d, c)
  OBVIOUS
<1>3. SameNames(d, e)
  BY <1>2, AlignCodeNames
<1>4. IsCopy(e)
  BY <1>3, NamesCopy
<1>5. SameNames(e, AlignCode(e, b))
  BY <1>4, AlignCodeNames
<1>6. SameNames(d, AlignCode(e, b))
  BY <1>3, <1>5, NamesOn
<1> QED
  BY <1>1, <1>2, <1>6 DEF AlignValuedescr

LEMMA AlignUnitNames == ASSUME NEW d, IsCopy(d), NEW c PROVE SameNames(d, EachDescriptor(d, c, MapUnit))
<1> DEFINE Revalue(described) == Revalued(described, MapUnit)
           inStrategy == HasStrategy(d) /\ DpOf(d, c) = Dp
           R == OnItem(d.range, c, Revalue)
           F == OnItem(d.function, c, Revalue)
           S == IF inStrategy THEN Revalue(d.strategy) ELSE d.strategy
           v == MapUnit(d.strategy.values)
<1>1. EachDescriptor(d, c, MapUnit) = IF ~NamedTwice(d, c) THEN d ELSE [d EXCEPT !.strategy = S, !.range = R, !.function = F]
  BY DEF EachDescriptor
<1>2. S = d.strategy \/ (HasStrategy(d) /\ S = [d.strategy EXCEPT !.values = v])
  BY DEF Revalued
<1>3. PICK s, w, r, f : s = S /\ w = v /\ r = R /\ f = F
  OBVIOUS
<1>4. AlikeNamed(d.strategy, s)
  <2> HIDE DEF S, v
  <2> QED
    BY <1>2, <1>3, RevaluedNames
<1>5. SameNames(d, [d EXCEPT !.strategy = s, !.range = r, !.function = f])
  <2> HIDE DEF S, v, R, F
  <2> QED
    BY <1>4, OtherItems
<1>6. EachDescriptor(d, c, MapUnit) \in {d, [d EXCEPT !.strategy = s, !.range = r, !.function = f]}
  <2> HIDE DEF S, v, R, F
  <2> QED
    BY <1>1, <1>3
<1> QED
  BY <1>5, <1>6, NamesSelf

LEMMA AlignUomNames == ASSUME NEW d, IsCopy(d) PROVE SameNames(d, AlignUom(d))
<1>1. PICK c, b : c = CodeOrder[1] /\ b = CodeOrder[2]
  OBVIOUS
<1>2. PICK e : e = EachDescriptor(d, c, MapUnit)
  OBVIOUS
<1>3. SameNames(d, e)
  BY <1>2, AlignUnitNames
<1>4. IsCopy(e)
  BY <1>3, NamesCopy
<1>5. SameNames(e, EachDescriptor(e, b, MapUnit))
  BY <1>4, AlignUnitNames
<1>6. SameNames(d, EachDescriptor(e, b, MapUnit))
  BY <1>3, <1>5, NamesOn
<1> QED
  BY <1>1, <1>2, <1>6 DEF AlignUom

LEMMA RangesFromDataModelNames == ASSUME NEW d, IsCopy(d) PROVE SameNames(d, RangesFromDataModel(d))
<1>1. PICK v : v = WithOptions(d.strategy.values, d.model)
  OBVIOUS
<1>2. PICK s : s = [d.strategy EXCEPT !.values = v]
  OBVIOUS
<1>3. RangesFromDataModel(d) = IF IsEnum(d) /\ d.model # NoModel THEN [d EXCEPT !.strategy = s] ELSE d
  BY <1>1, <1>2 DEF RangesFromDataModel, Revalued
<1>4. CASE HasStrategy(d)
  <2>1. AlikeNamed(d.strategy, s)
    BY <1>2, <1>4, OtherFields
  <2>2. SameNames(d, [d EXCEPT !.strategy = s])
    BY <2>1, OtherItems
  <2> QED
    BY <1>3, <2>2, NamesSelf
<1>5. CASE ~HasStrategy(d)
  BY <1>3, <1>5, NamesSelf DEF IsEnum
<1> QED
  BY <1>4, <1>5

LEMMA RangesFromLocalStrategyNames == ASSUME NEW d, IsCopy(d) PROVE SameNames(d, RangesFromLocalStrategy(d))
<1> DEFINE options == d.strategy.values.range
           Extend(described) == Revalued(described, LAMBDA v : IF DOMAIN v = {} THEN v ELSE WithOptions(v, options))
           R == OnItem(d.range, d.strategy.code, Extend)
           F == OnItem(d.function, d.strategy.code, Extend)
<1>1. RangesFromLocalStrategy(d) \in {d, [d EXCEPT !.range = R, !.function = F]}
  BY DEF RangesFromLocalStrategy
<1>2. PICK r, f : r = R /\ f = F
  OBVIOUS
<1>3. SameNames(d, [d EXCEPT !.range = r, !.function = f])
  BY StrategySelf, OtherItems
<1>4. RangesFromLocalStrategy(d) \in {d, [d EXCEPT !.range = r, !.function = f]}
  <2> HIDE DEF R, F
  <2> QED
    BY <1>1, <1>2
<1> QED
  BY <1>3, <1>4, NamesSelf

LEMMA StripBitmapsNames == ASSUME NEW d, IsCopy(d) PROVE SameNames(d, StripBitmaps(d))
<1> DEFINE R == [c \in DOMAIN d.range |-> StripBitmap(d.range[c])]
           F == [c \in DOMAIN d.function |-> StripBitmap(d.function[c])]
           v == Restrict(d.strategy.values, DOMAIN d.strategy.values \cap {"label"})
<1>1. PICK r, f, w, e : r = R /\ f = F /\ w = v /\ e = [d EXCEPT !.range = R, !.function = F]
  OBVIOUS
<1>2. e = [d EXCEPT !.range = r, !.function = f]
  BY <1>1
<1>3. e.strategy = d.strategy
  BY <1>2
<1>4. StripBitmaps(d) = IF HasStrategy(d) THEN [e EXCEPT !.strategy = StripBitmap(e.strategy)] ELSE e
  BY <1>1 DEF StripBitmaps, MapItems
<1>5. SameNames(d, e) /\ (HasStrategy(d) => SameNames(d, [e EXCEPT !.strategy = [d.strategy EXCEPT !.values = w]]))
  BY <1>2, EveryItem
<1>6. [e EXCEPT !.strategy = d.strategy] = e
  <2>1. DOMAIN d = CopyFields
    BY DEF IsCopy
  <2>2. e.strategy = d.strategy /\ e \in [DOMAIN d -> {e[x] : x \in DOMAIN d}]
    BY <1>2, <1>3
  <2> QED
    BY <2>1, <2>2
<1>7. HasStrategy(d) => StripBitmap(e.strategy) \in {d.strategy, [d.strategy EXCEPT !.values = w]}
  BY <1>1, <1>3 DEF StripBitmap
<1> QED
  BY <1>4, <1>5, <1>6, <1>7

LEMMA RemoveIsolatedNames == ASSUME NEW d, IsCopy(d) PROVE SameNames(d, RemoveIsolated(d))
<1> DEFINE Kept(items) == Restrict(items, {c \in DOMAIN items : \/ items[c].dp = Dp /\ HasStrategy(d)
                                                           \/ c \in DOMAIN d.status})
<1>1. PICK r, f : r = Kept(d.range) /\ f = Kept(d.function)
  OBVIOUS
<1>2. RemoveIsolated(d) = [d EXCEPT !.range = r, !.function = f]
  BY <1>1 DEF RemoveIsolated
<1>3. SameNames(d, [d EXCEPT !.range = r, !.function = f])
  BY StrategySelf, OtherItems
<1> QED
  BY <1>2, <1>3

LEMMA FixAccessModeNames == ASSUME NEW d, IsCopy(d) PROVE SameNames(d, FixAccessMode(d))
<1>1. CASE ~HasStrategy(d)
  BY <1>1, NamesSelf DEF FixAccessMode
<1>2. CASE HasStrategy(d)
  <2>1. SameNames(d, [d EXCEPT !.strategy.mode = "read only"])
    BY <1>2, OtherStrategy
  <2> QED
    BY <2>1, NamesSelf DEF FixAccessMode
<1> QED
  BY <1>1, <1>2

LEMMA MergeUnalignedNames ==
    ASSUME NEW d, IsCopy(d), HasStrategy(d), NEW item \in {"range", "function"}, NEW c
    PROVE  SameNames(d, MergeUnaligned(d, item, c))
<1> DEFINE own == d.strategy.code
           values == Aligned(<<d.strategy.values>> \o (IF IsGood(d[item][c].values) THEN <<d[item][c].values>> ELSE <<>>))
                  @@ d.strategy.values
           Set(described) == Revalued(described, LAMBDA v : values)
           S == Set(d.strategy)
           R == OnItem(d.range, own, Set)
           F == OnItem(d.function, own, Set)
           merged == IF ~IsGood(d.strategy.values) THEN d
                     ELSE [d EXCEPT !.strategy = S, !.range = R, !.function = F]
           kept == Restrict(merged[item], DOMAIN d[item] \ {c})
           I == IF own \in DOMAIN d.range \cup DOMAIN d.function THEN kept
                ELSE kept @@ (own :> d[item][c])
<1>1. MergeUnaligned(d, item, c) = [merged EXCEPT ![item] = I]
  BY DEF MergeUnaligned
<1>2. PICK w, s, r, f, i, e : w = values /\ s = S /\ r = R /\ f = F /\ i = I /\ e = merged
  <2> HIDE DEF values, S, R, F, I, merged
  <2> QED
    OBVIOUS
<1>3. s = [d.strategy EXCEPT !.values = w]
  <2> HIDE DEF values
  <2> QED
    BY <1>2 DEF Revalued
<1>4. AlikeNamed(d.strategy, s)
  BY <1>3, OtherFields
<1>5. e \in {d, [d EXCEPT !.strategy = s, !.range = r, !.function = f]}
  <2> HIDE DEF S, R, F
  <2> QED
    BY <1>2
<1>6. SameNames(d, e)
  <2>1. SameNames(d, [d EXCEPT !.strategy = s, !.range = r, !.function = f])
    <3> HIDE DEF values, S, R, F, I, merged
    <3> QED
      BY <1>4, OtherItems
  <2>2. SameNames(d, d)
    BY NamesSelf
  <2> HIDE DEF values, S, R, F, I, merged
  <2> QED
    BY <1>5, <2>1, <2>2
<1>7. IsCopy(e)
  BY <1>6, NamesCopy
<1>8. SameNames(e, [e EXCEPT ![item] = i])
  BY <1>7, OtherItem
<1>9. SameNames(d, [e EXCEPT ![item] = i])
  BY <1>6, <1>8, NamesOn
<1> HIDE DEF merged, I
<1> QED
  BY <1>1, <1>2, <1>9

LEMMA FixUnalignedItemNames ==
    ASSUME NEW d, IsCopy(d), NEW item \in {"range", "function"}
    PROVE  SameNames(d, FixUnalignedItem(d, item))
<1>1. CASE Unaligned(d, item) = {}
  BY <1>1, NamesSelf DEF FixUnalignedItem
<1>2. CASE Unaligned(d, item) # {}
  <2>1. PICK c : c = CHOOSE x \in Unaligned(d, item) : TRUE
    OBVIOUS
  <2>2. HasStrategy(d)
    BY <1>2 DEF Unaligned
  <2>3. SameNames(d, MergeUnaligned(d, item, c))
    BY <2>2, MergeUnalignedNames
  <2> QED
    BY <1>2, <2>1, <2>3 DEF FixUnalignedItem
<1> QED
  BY <1>1, <1>2

LEMMA FixUnalignedNames == ASSUME NEW d, IsCopy(d) PROVE SameNames(d, FixUnaligned(d))
<1>1. PICK e : e = FixUnalignedItem(d, "range")
  OBVIOUS
<1>2. SameNames(d, e)
  BY <1>1, FixUnalignedItemNames
<1>3. IsCopy(e)
  BY <1>2, NamesCopy
<1>4. SameNames(e, FixUnalignedItem(e, "function"))
  BY <1>3, FixUnalignedItemNames
<1>5. SameNames(d, FixUnalignedItem(e, "function"))
  BY <1>2, <1>4, NamesOn
<1> QED
  BY <1>1, <1>5 DEF FixUnaligned

LEMMA RetypeNames == ASSUME NEW d, IsCopy(d), NEW c PROVE SameNames(d, Retype(d, c))
<1> DEFINE inStrategy == HasStrategy(d) /\ Dp \in DpsOf(d, c)
           new == TypeFromValue(IF inStrategy THEN d.strategy.conv ELSE "none", d.status[c])
           Set(described) == [described EXCEPT !.type = new]
           S == IF inStrategy THEN Set(d.strategy) ELSE d.strategy
           R == OnItem(d.range, c, Set)
           F == OnItem(d.function, c, Set)
<1>1. Retype(d, c) \in {d, [d EXCEPT !.range = R, !.function = F, !.strategy = S]}
  BY DEF Retype
<1>2. PICK w, s, r, f : w = new /\ s = S /\ r = R /\ f = F
  OBVIOUS
<1>3. s = d.strategy \/ (HasStrategy(d) /\ s = [d.strategy EXCEPT !.type = w])
  BY <1>2
<1>4. AlikeNamed(d.strategy, s)
  <2>1. CASE s = d.strategy
    BY <2>1, StrategySelf
  <2>2. CASE HasStrategy(d) /\ s = [d.strategy EXCEPT !.type = w]
    BY <2>2, OtherFields
  <2> HIDE DEF S, new
  <2> QED
    BY <1>3, <2>1, <2>2
<1>5. SameNames(d, [d EXCEPT !.range = r, !.function = f, !.strategy = s])
  BY <1>4, OtherItems
<1>6. Retype(d, c) \in {d, [d EXCEPT !.range = r, !.function = f, !.strategy = s]}
  <2> HIDE DEF S, R, F
  <2> QED
    BY <1>1, <1>2
<1> QED
  BY <1>5, <1>6, NamesSelf

LEMMA PostInitFixesNames == ASSUME NEW d, IsCopy(d) PROVE SameNames(d, PostInitFixes(d))
<1>1. PICK c, b : c = CodeOrder[1] /\ b = CodeOrder[2]
  OBVIOUS
<1>2. PICK e : e = Retype(d, c)
  OBVIOUS
<1>3. SameNames(d, e)
  BY <1>2, RetypeNames
<1>4. IsCopy(e)
  BY <1>3, NamesCopy
<1>5. SameNames(e, Retype(e, b))
  BY <1>4, RetypeNames
<1>6. SameNames(d, Retype(e, b))
  BY <1>3, <1>5, NamesOn
<1> QED
  BY <1>1, <1>2, <1>6 DEF PostInitFixes

-----------------------------------------------------------------------------
(* The two that move a name                                                *)

(* An alias is not reported, and the format tells of no other.             *)
CleanNames(d) ==
    HasStrategy(d) => /\ d.strategy.format \subseteq {d.strategy.code}
                      /\ (d.strategy.alias \ {d.strategy.code}) \cap DOMAIN d.status = {}
Foretold(d) == HasStrategy(d) => d.strategy.format \subseteq {d.strategy.code}

(* A code is reported, under its own name or as an alias of the strategy.  *)
Answered(d, c) ==
    \/ c \in DOMAIN d.status
    \/ HasStrategy(d) /\ c \in d.strategy.alias /\ d.strategy.code \in DOMAIN d.status

LEMMA NamesKeep ==
    ASSUME NEW d, NEW e, IsCopy(d), SameNames(d, e)
    PROVE  /\ CleanNames(d) => CleanNames(e)
           /\ Foretold(d) => Foretold(e)
           /\ \A c : Answered(d, c) => Answered(e, c)
<1>1. HasStrategy(e) <=> HasStrategy(d)
  BY NamesCopy
<1>2. HasStrategy(d) => e.strategy.code = d.strategy.code /\ e.strategy.alias = d.strategy.alias
                        /\ e.strategy.format = d.strategy.format
  BY DEF SameNames, AlikeNamed, HasStrategy
<1>3. DOMAIN e.status = DOMAIN d.status
  BY DEF SameNames
<1>4. CleanNames(d) => CleanNames(e)
  BY <1>1, <1>2, <1>3 DEF CleanNames
<1>5. Foretold(d) => Foretold(e)
  BY <1>1, <1>2, <1>3 DEF Foretold
<1>6. \A c : Answered(d, c) => Answered(e, c)
  BY <1>1, <1>2, <1>3 DEF Answered
<1> QED
  BY <1>4, <1>5, <1>6

LEMMA AliasesMoved ==
    ASSUME NEW d, NEW e, IsCopy(d), e = AliasesFromStatusFormat(d)
    PROVE  /\ IsCopy(e) /\ e.forced = d.forced /\ DOMAIN e.status = DOMAIN d.status
           /\ Foretold(e)
           /\ CleanNames(d) => CleanNames(e)
           /\ \A c : Answered(d, c) => Answered(e, c)
<1>1. CASE ~HasStrategy(d)
  <2>1. e = d
    BY <1>1 DEF AliasesFromStatusFormat
  <2> QED
    BY <1>1, <2>1 DEF Foretold
<1>2. CASE HasStrategy(d) /\ d.strategy.format = {}
  <2>1. e = d
    BY <1>2 DEF AliasesFromStatusFormat
  <2> QED
    BY <1>2, <2>1 DEF Foretold
<1>3. CASE HasStrategy(d) /\ d.strategy.format # {}
  <2>1. PICK s : s = d.strategy
    OBVIOUS
  <2>2. DOMAIN d = CopyFields /\ DOMAIN s = StrategyFields /\ s.code \in BothCodes /\ s.alias \subseteq BothCodes
        /\ s.format \subseteq BothCodes /\ s # NoStrategy
    BY <1>3, <2>1 DEF IsCopy, HasStrategy
  <2>3. e = [d EXCEPT !.strategy.alias = @ \cup (d.strategy.format \ {d.strategy.code}),
                      !.strategy.format = {d.strategy.code}]
    BY <1>3 DEF AliasesFromStatusFormat
  <2>4. DOMAIN e = CopyFields /\ e.forced = d.forced /\ e.status = d.status
    BY <2>2, <2>3 DEF CopyFields
  <2>5. PICK t : t = e.strategy
    OBVIOUS
  <2>6. DOMAIN t = StrategyFields /\ t.code = s.code /\ t.alias = s.alias \cup (s.format \ {s.code}) /\ t.format = {s.code}
    BY <2>1, <2>2, <2>3, <2>5 DEF CopyFields, StrategyFields
  <2>7. t # NoStrategy
    BY <2>6, Strategic
  <2>8. IsCopy(e)
    BY <2>2, <2>4, <2>5, <2>6 DEF IsCopy
  <2>9. Foretold(e)
    BY <2>5, <2>6 DEF Foretold
  <2>10. ASSUME CleanNames(d) PROVE CleanNames(e)
    <3>1. s.format \subseteq {s.code} /\ (s.alias \ {s.code}) \cap DOMAIN d.status = {}
      BY <1>3, <2>1, <2>10 DEF CleanNames
    <3>2. t.alias = s.alias
      BY <2>6, <3>1
    <3> QED
      BY <2>4, <2>5, <2>6, <3>1, <3>2 DEF CleanNames
  <2>11. ASSUME NEW c, Answered(d, c) PROVE Answered(e, c)
    <3>1. c \in DOMAIN d.status \/ (c \in s.alias /\ s.code \in DOMAIN d.status)
      BY <2>1, <2>11 DEF Answered
    <3>2. HasStrategy(e)
      BY <2>5, <2>7 DEF HasStrategy
    <3> QED
      BY <2>4, <2>5, <2>6, <3>1, <3>2 DEF Answered
  <2> QED
    BY <2>4, <2>8, <2>9, <2>10, <2>11
<1> QED
  BY <1>1, <1>2, <1>3

LEMMA AliasRemoved ==
    ASSUME NEW d, NEW e, IsCopy(d), e = RemoveAliasStatus(d)
    PROVE  /\ IsCopy(e) /\ e.forced = d.forced
           /\ Foretold(d) => CleanNames(e)
           /\ CleanNames(d) => e = d
           /\ \A c : Answered(d, c) => Answered(e, c)
<1>1. PICK present : present = IF HasStrategy(d) THEN (d.strategy.alias \ {d.strategy.code}) \cap DOMAIN d.status ELSE {}
  OBVIOUS
<1>2. CASE present = {}
  <2>1. e = d
    BY <1>1, <1>2 DEF RemoveAliasStatus
  <2>2. Foretold(d) => CleanNames(d)
    BY <1>1, <1>2 DEF Foretold, CleanNames
  <2> QED
    BY <2>1, <2>2
<1>3. CASE present # {}
  <2>1. HasStrategy(d)
    BY <1>1, <1>3
  <2>2. PICK s, c, a : s = d.strategy /\ c = s.code /\ a = CHOOSE x \in present : TRUE
    OBVIOUS
  <2>3. a \in s.alias /\ a \in DOMAIN d.status /\ a # c
    BY <1>1, <1>3, <2>1, <2>2
  <2>4. DOMAIN d = CopyFields /\ c \in BothCodes /\ s.alias \subseteq BothCodes /\ DOMAIN d.status \subseteq BothCodes
    BY <2>1, <2>2 DEF IsCopy
  <2>5. PICK st, r, f : /\ st = Restrict(d.status @@ (c :> d.status[a]), (DOMAIN d.status \cup {c}) \ {a})
                        /\ r = Moved(d.range, a, c) /\ f = Moved(d.function, a, c)
    OBVIOUS
  <2>6. e = [d EXCEPT !.status = st, !.range = r, !.function = f]
    BY <1>1, <1>3, <2>1, <2>2, <2>5 DEF RemoveAliasStatus
  <2>7. DOMAIN e = CopyFields /\ e.status = st /\ e.forced = d.forced /\ e.strategy = s
    BY <2>2, <2>4, <2>6 DEF CopyFields
  <2>8. DOMAIN st = (DOMAIN d.status \cup {c}) \ {a}
    BY <2>5 DEF Restrict
  <2>9. IsCopy(e)
    BY <2>1, <2>2, <2>4, <2>7, <2>8 DEF IsCopy, HasStrategy
  <2>10. HasStrategy(e)
    BY <2>1, <2>2, <2>7 DEF HasStrategy
  <2>11. (s.alias \ {c}) \cap DOMAIN st = {}
    BY <2>3, <2>4, <2>8 DEF BothCodes
  <2>12. ASSUME Foretold(d) PROVE CleanNames(e)
    BY <2>1, <2>2, <2>7, <2>11, <2>12 DEF Foretold, CleanNames
  <2>13. ~CleanNames(d)
    BY <2>1, <2>2, <2>3 DEF CleanNames
  <2>14. ASSUME NEW x, Answered(d, x) PROVE Answered(e, x)
    <3>1. c \in DOMAIN st
      BY <2>3, <2>8
    <3>2. x \in DOMAIN d.status \/ x \in s.alias
      BY <2>2, <2>14 DEF Answered
    <3>3. x \in DOMAIN st \/ x \in s.alias
      BY <2>3, <2>8, <3>2
    <3> QED
      BY <2>2, <2>7, <2>10, <3>1, <3>3 DEF Answered
  <2> QED
    BY <2>7, <2>9, <2>12, <2>13, <2>14
<1> QED
  BY <1>2, <1>3

-----------------------------------------------------------------------------
(* All fourteen                                                            *)

(* What a repair leaves of the codes.                                      *)
Repairs(d, e) ==
    /\ IsCopy(e) /\ e.forced = d.forced
    /\ \A c : Answered(d, c) => Answered(e, c)
    /\ CleanNames(d) => CleanNames(e) /\ DOMAIN e.status = DOMAIN d.status

LEMMA NamesRepair ==
    ASSUME NEW d, NEW e, IsCopy(d), SameNames(d, e)
    PROVE  Repairs(d, e)
<1>1. IsCopy(e)
  BY NamesCopy
<1>2. /\ CleanNames(d) => CleanNames(e)
      /\ \A c : Answered(d, c) => Answered(e, c)
  BY NamesKeep
<1>3. e.forced = d.forced /\ DOMAIN e.status = DOMAIN d.status
  BY DEF SameNames
<1> QED
  BY <1>1, <1>2, <1>3 DEF Repairs

LEMMA RepairsOn ==
    ASSUME NEW d, NEW e, NEW f, Repairs(d, e), Repairs(e, f)
    PROVE  Repairs(d, f)
  BY DEF Repairs

FixNames == {"unify data types", "map dp ids", "fix descriptors", "fix percentage scale", "align descriptors",
             "ranges of the data model", "ranges of the strategy", "aliases of the format", "remove alias status",
             "fix unaligned", "strip bitmaps", "remove isolated", "align units", "fix access mode"}

LEMMA FixesListed == Fixes \in Seq(FixNames) /\ Len(Fixes) = 14 /\ Fixes[8] = "aliases of the format" /\ Fixes[9] = "remove alias status"
<1>1. Fixes \in Seq(FixNames)
  BY DEF Fixes, FixNames
<1>2. Len(Fixes) = 14
  BY DEF Fixes
<1>3. Fixes[8] = "aliases of the format"
  BY DEF Fixes
<1>4. Fixes[9] = "remove alias status"
  BY DEF Fixes
<1> QED
  BY <1>1, <1>2, <1>3, <1>4

LEMMA FixedAs ==
    ASSUME NEW d
    PROVE  /\ Fixed(d, "unify data types") = UnifyDataTypes(d)
           /\ Fixed(d, "map dp ids") = MapDpIds(d)
           /\ Fixed(d, "fix descriptors") = FixIncorrectValuedescr(d)
           /\ Fixed(d, "fix percentage scale") = FixPercentageScale(d)
           /\ Fixed(d, "align descriptors") = AlignValuedescr(d)
           /\ Fixed(d, "ranges of the data model") = RangesFromDataModel(d)
           /\ Fixed(d, "ranges of the strategy") = RangesFromLocalStrategy(d)
           /\ Fixed(d, "aliases of the format") = AliasesFromStatusFormat(d)
           /\ Fixed(d, "remove alias status") = RemoveAliasStatus(d)
           /\ Fixed(d, "fix unaligned") = FixUnaligned(d)
           /\ Fixed(d, "strip bitmaps") = StripBitmaps(d)
           /\ Fixed(d, "remove isolated") = RemoveIsolated(d)
           /\ Fixed(d, "align units") = AlignUom(d)
           /\ Fixed(d, "fix access mode") = FixAccessMode(d)
  BY DEF Fixed

LEMMA FixRepairs == ASSUME NEW d, IsCopy(d), NEW fix \in FixNames PROVE Repairs(d, Fixed(d, fix))
<1>1. CASE fix = "unify data types"
  <2>1. SameNames(d, UnifyDataTypes(d))
    BY UnifyDataTypesNames
  <2>2. Repairs(d, UnifyDataTypes(d))
    BY <2>1, NamesRepair
  <2> QED
    BY <1>1, <2>2, FixedAs
<1>2. CASE fix = "map dp ids"
  <2>1. SameNames(d, MapDpIds(d))
    BY MapDpIdsNames
  <2>2. Repairs(d, MapDpIds(d))
    BY <2>1, NamesRepair
  <2> QED
    BY <1>2, <2>2, FixedAs
<1>3. CASE fix = "fix descriptors"
  <2>1. SameNames(d, FixIncorrectValuedescr(d))
    BY FixIncorrectValuedescrNames
  <2>2. Repairs(d, FixIncorrectValuedescr(d))
    BY <2>1, NamesRepair
  <2> QED
    BY <1>3, <2>2, FixedAs
<1>4. CASE fix = "fix percentage scale"
  <2>1. SameNames(d, FixPercentageScale(d))
    BY FixPercentageScaleNames
  <2>2. Repairs(d, FixPercentageScale(d))
    BY <2>1, NamesRepair
  <2> QED
    BY <1>4, <2>2, FixedAs
<1>5. CASE fix = "align descriptors"
  <2>1. SameNames(d, AlignValuedescr(d))
    BY AlignValuedescrNames
  <2>2. Repairs(d, AlignValuedescr(d))
    BY <2>1, NamesRepair
  <2> QED
    BY <1>5, <2>2, FixedAs
<1>6. CASE fix = "ranges of the data model"
  <2>1. SameNames(d, RangesFromDataModel(d))
    BY RangesFromDataModelNames
  <2>2. Repairs(d, RangesFromDataModel(d))
    BY <2>1, NamesRepair
  <2> QED
    BY <1>6, <2>2, FixedAs
<1>7. CASE fix = "ranges of the strategy"
  <2>1. SameNames(d, RangesFromLocalStrategy(d))
    BY RangesFromLocalStrategyNames
  <2>2. Repairs(d, RangesFromLocalStrategy(d))
    BY <2>1, NamesRepair
  <2> QED
    BY <1>7, <2>2, FixedAs
<1>8. CASE fix = "fix unaligned"
  <2>1. SameNames(d, FixUnaligned(d))
    BY FixUnalignedNames
  <2>2. Repairs(d, FixUnaligned(d))
    BY <2>1, NamesRepair
  <2> QED
    BY <1>8, <2>2, FixedAs
<1>9. CASE fix = "strip bitmaps"
  <2>1. SameNames(d, StripBitmaps(d))
    BY StripBitmapsNames
  <2>2. Repairs(d, StripBitmaps(d))
    BY <2>1, NamesRepair
  <2> QED
    BY <1>9, <2>2, FixedAs
<1>10. CASE fix = "remove isolated"
  <2>1. SameNames(d, RemoveIsolated(d))
    BY RemoveIsolatedNames
  <2>2. Repairs(d, RemoveIsolated(d))
    BY <2>1, NamesRepair
  <2> QED
    BY <1>10, <2>2, FixedAs
<1>11. CASE fix = "align units"
  <2>1. SameNames(d, AlignUom(d))
    BY AlignUomNames
  <2>2. Repairs(d, AlignUom(d))
    BY <2>1, NamesRepair
  <2> QED
    BY <1>11, <2>2, FixedAs
<1>12. CASE fix = "fix access mode"
  <2>1. SameNames(d, FixAccessMode(d))
    BY FixAccessModeNames
  <2>2. Repairs(d, FixAccessMode(d))
    BY <2>1, NamesRepair
  <2> QED
    BY <1>12, <2>2, FixedAs
<1>13. CASE fix = "aliases of the format"
  <2>1. PICK f : f = AliasesFromStatusFormat(d)
    OBVIOUS
  <2>2. Repairs(d, f)
    BY <2>1, AliasesMoved DEF Repairs
  <2> QED
    BY <1>13, <2>1, <2>2, FixedAs
<1>14. CASE fix = "remove alias status"
  <2>1. PICK f : f = RemoveAliasStatus(d)
    OBVIOUS
  <2>2. Repairs(d, f)
    BY <2>1, AliasRemoved DEF Repairs
  <2> QED
    BY <1>14, <2>1, <2>2, FixedAs
<1> QED
  BY <1>1, <1>2, <1>3, <1>4, <1>5, <1>6, <1>7, <1>8, <1>9, <1>10, <1>11, <1>12, <1>13, <1>14 DEF FixNames

(* The chain of the repaired copies, from any of them on.                  *)
LEMMA FixChain ==
    ASSUME NEW d, IsCopy(d), NEW h, FixesApplied(d, h), NEW j \in 0..14, IsCopy(h[j])
    PROVE  \A k \in j..14 : Repairs(h[j], h[k])
<1> DEFINE T == {i \in Nat : j + i <= 14 => Repairs(h[j], h[j + i])}
<1>1. 0 \in T
  <2>1. SameNames(h[j], h[j])
    BY NamesSelf
  <2>2. Repairs(h[j], h[j])
    BY <2>1, NamesRepair
  <2>3. j + 0 = j
    OBVIOUS
  <2> QED
    BY <2>2, <2>3
<1>2. ASSUME NEW i \in Nat, i \in T PROVE i + 1 \in T
  <2>1. i + 1 \in Nat
    OBVIOUS
  <2>2. ASSUME j + (i + 1) <= 14 PROVE Repairs(h[j], h[j + (i + 1)])
    <3>1. PICK k : k = j + (i + 1)
      OBVIOUS
    <3>2. k \in 1..14 /\ k - 1 = j + i /\ j + i <= 14
      BY <2>2, <3>1
    <3>3. Repairs(h[j], h[k - 1])
      BY <1>2, <3>2
    <3>4. h[k] = Fixed(h[k - 1], Fixes[k])
      BY <3>2, FixesListed DEF FixesApplied
    <3>5. Fixes[k] \in FixNames
      <4>1. PICK list : list = Fixes
        OBVIOUS
      <4>2. list \in Seq(FixNames) /\ Len(list) = 14
        BY <4>1, FixesListed
      <4>3. list \in Seq(FixNames) /\ k \in 1..Len(list)
        BY <3>2, <4>2
      <4>4. list[k] \in FixNames
        BY <4>3, ElementOfSeq
      <4> QED
        BY <4>1, <4>4
    <3>6. IsCopy(h[k - 1])
      BY <3>3 DEF Repairs
    <3>7. Repairs(h[k - 1], h[k])
      BY <3>4, <3>5, <3>6, FixRepairs
    <3>8. Repairs(h[j], h[k])
      BY <3>3, <3>7, RepairsOn
    <3> QED
      BY <3>1, <3>8
  <2> QED
    BY <2>1, <2>2
<1>3. ASSUME NEW k \in j..14 PROVE Repairs(h[j], h[k])
  <2>1. k - j \in Nat /\ j + (k - j) = k /\ k <= 14
    OBVIOUS
  <2>2. k - j \in T
    <3> HIDE DEF T
    <3> QED
      BY <1>1, <1>2, <2>1, NatInduct
  <2> QED
    BY <2>1, <2>2
<1> QED
  BY <1>3

(* A pass of the fixes ends with clean names.                              *)
LEMMA FixesClean ==
    ASSUME NEW d, IsCopy(d)
    PROVE  Repairs(d, ApplyFixes(d)) /\ CleanNames(ApplyFixes(d))
<1>1. Fixes \in Seq(FixNames)
  BY FixesListed
<1>2. PICK h : FixesApplied(d, h) /\ ApplyFixes(d) = h[Len(Fixes)]
  BY <1>1, FixSteps
<1>3. ApplyFixes(d) = h[14]
  BY <1>2, FixesListed
<1>4. h[0] = d
  BY <1>2 DEF FixesApplied
<1>5. \A k \in 0..14 : Repairs(h[0], h[k])
  BY <1>2, <1>4, FixChain
<1>6. Repairs(d, h[14])
  BY <1>4, <1>5
<1>7. IsCopy(h[7]) /\ IsCopy(h[8]) /\ IsCopy(h[9])
  BY <1>5 DEF Repairs
<1>8. h[8] = AliasesFromStatusFormat(h[7])
  <2>1. 8 \in 1..Len(Fixes) /\ 8 - 1 = 7 /\ Fixes[8] = "aliases of the format"
    <3>1. PICK n : n = Len(Fixes) /\ n = 14
      BY FixesListed
    <3>2. 8 \in 1..n /\ 8 - 1 = 7
      BY <3>1
    <3> QED
      BY <3>1, <3>2, FixesListed
  <2>2. h[8] = Fixed(h[7], Fixes[8])
    BY <1>2, <2>1 DEF FixesApplied
  <2> QED
    BY <2>1, <2>2, FixedAs
<1>9. h[9] = RemoveAliasStatus(h[8])
  <2>1. 9 \in 1..Len(Fixes) /\ 9 - 1 = 8 /\ Fixes[9] = "remove alias status"
    <3>1. PICK n : n = Len(Fixes) /\ n = 14
      BY FixesListed
    <3>2. 9 \in 1..n /\ 9 - 1 = 8
      BY <3>1
    <3> QED
      BY <3>1, <3>2, FixesListed
  <2>2. h[9] = Fixed(h[8], Fixes[9])
    BY <1>2, <2>1 DEF FixesApplied
  <2> QED
    BY <2>1, <2>2, FixedAs
<1>10. Foretold(h[8])
  BY <1>7, <1>8, AliasesMoved
<1>11. CleanNames(h[9])
  BY <1>7, <1>9, <1>10, AliasRemoved
<1>12. Repairs(h[9], h[14])
  BY <1>2, <1>7, FixChain
<1>13. CleanNames(h[14])
  BY <1>11, <1>12 DEF Repairs
<1> QED
  BY <1>3, <1>6, <1>13

-----------------------------------------------------------------------------
(* Two copies side by side                                                 *)

PairCopied(p) == IsCopy(p[1]) /\ IsCopy(p[2])
PairNames(p, q) == SameNames(p[1], q[1]) /\ SameNames(p[2], q[2])

LEMMA PairSelf == ASSUME NEW p, PairCopied(p) PROVE PairNames(p, p)
  BY NamesSelf DEF PairCopied, PairNames

LEMMA PairStays ==
    ASSUME NEW p, NEW q, PairCopied(p), PairNames(p, q)
    PROVE  PairCopied(q) /\ (Both(q) <=> Both(p))
<1>1. IsCopy(q[1]) /\ (HasStrategy(q[1]) <=> HasStrategy(p[1]))
  BY NamesCopy DEF PairCopied, PairNames
<1>2. IsCopy(q[2]) /\ (HasStrategy(q[2]) <=> HasStrategy(p[2]))
  BY NamesCopy DEF PairCopied, PairNames
<1> QED
  BY <1>1, <1>2 DEF PairCopied, Both

LEMMA PairOn ==
    ASSUME NEW p, NEW q, NEW r, PairNames(p, q), PairNames(q, r)
    PROVE  PairNames(p, r)
<1>1. SameNames(p[1], r[1])
  BY NamesOn DEF PairNames
<1>2. SameNames(p[2], r[2])
  BY NamesOn DEF PairNames
<1> QED
  BY <1>1, <1>2 DEF PairNames

LEMMA PairItems ==
    ASSUME NEW p, PairCopied(p), NEW item \in {"range", "function"}, NEW s, NEW q,
           q = [i \in 1..2 |-> [p[i] EXCEPT ![item] = s[i]]]
    PROVE  PairNames(p, q)
<1>1. PICK one, two : one = s[1] /\ two = s[2]
  OBVIOUS
<1>2. q[1] = [p[1] EXCEPT ![item] = one] /\ q[2] = [p[2] EXCEPT ![item] = two]
  BY <1>1
<1>3. SameNames(p[1], [p[1] EXCEPT ![item] = one])
  BY OtherItem DEF PairCopied
<1>4. SameNames(p[2], [p[2] EXCEPT ![item] = two])
  BY OtherItem DEF PairCopied
<1> QED
  BY <1>2, <1>3, <1>4 DEF PairNames

LEMMA PairStrategies ==
    ASSUME NEW p, PairCopied(p), NEW s, NEW q,
           q = [i \in 1..2 |-> [p[i] EXCEPT !.strategy = s[i]]],
           AlikeNamed(p[1].strategy, s[1]), AlikeNamed(p[2].strategy, s[2])
    PROVE  PairNames(p, q)
<1>1. PICK one, two : one = s[1] /\ two = s[2]
  OBVIOUS
<1>2. q[1] = [p[1] EXCEPT !.strategy = one] /\ q[2] = [p[2] EXCEPT !.strategy = two]
  BY <1>1
<1>3. SameNames(p[1], [p[1] EXCEPT !.strategy = one])
  BY <1>1, OtherItems DEF PairCopied
<1>4. SameNames(p[2], [p[2] EXCEPT !.strategy = two])
  BY <1>1, OtherItems DEF PairCopied
<1> QED
  BY <1>2, <1>3, <1>4 DEF PairNames

(* What is made of the two strategies.                                     *)
LEMMA PairValues ==
    ASSUME NEW p, PairCopied(p), Both(p), NEW v, NEW w, NEW s,
           s = WithValues(p[1].strategy, p[2].strategy, v, w)
    PROVE  AlikeNamed(p[1].strategy, s[1]) /\ AlikeNamed(p[2].strategy, s[2])
<1>1. s[1] = [p[1].strategy EXCEPT !.values = v] /\ s[2] = [p[2].strategy EXCEPT !.values = w]
  BY DEF WithValues
<1>2. AlikeNamed(p[1].strategy, [p[1].strategy EXCEPT !.values = v])
  BY OtherFields DEF PairCopied, Both
<1>3. AlikeNamed(p[2].strategy, [p[2].strategy EXCEPT !.values = w])
  BY OtherFields DEF PairCopied, Both
<1> QED
  BY <1>1, <1>2, <1>3

LEMMA PairSame ==
    ASSUME NEW p, PairCopied(p), NEW s, s = <<p[1].strategy, p[2].strategy>>
    PROVE  AlikeNamed(p[1].strategy, s[1]) /\ AlikeNamed(p[2].strategy, s[2])
<1>1. s[1] = p[1].strategy /\ s[2] = p[2].strategy
  OBVIOUS
<1>2. AlikeNamed(p[1].strategy, p[1].strategy)
  BY StrategySelf DEF PairCopied
<1>3. AlikeNamed(p[2].strategy, p[2].strategy)
  BY StrategySelf DEF PairCopied
<1> QED
  BY <1>1, <1>2, <1>3

LEMMA FixPairNames ==
    ASSUME NEW p, PairCopied(p), Both(p), NEW s, s = FixPair(p[1].strategy, p[2].strategy)
    PROVE  AlikeNamed(p[1].strategy, s[1]) /\ AlikeNamed(p[2].strategy, s[2])
<1>1. PICK a, b : a = p[1].strategy /\ b = p[2].strategy
  OBVIOUS
<1>2. PICK fixed : fixed = FixedDescr(<<RawOf(a.values), RawOf(b.values)>>)
  OBVIOUS
<1>3. \/ s = <<a, b>>
      \/ s = WithValues(a, b, a.values, a.values)
      \/ s = WithValues(a, b, b.values, b.values)
      \/ s = WithValues(a, b, fixed, fixed)
  BY <1>1, <1>2 DEF FixPair
<1>4. \A v, w : s = WithValues(a, b, v, w) => AlikeNamed(p[1].strategy, s[1]) /\ AlikeNamed(p[2].strategy, s[2])
  BY <1>1, PairValues
<1>5. s = <<a, b>> => AlikeNamed(p[1].strategy, s[1]) /\ AlikeNamed(p[2].strategy, s[2])
  BY <1>1, PairSame
<1> QED
  BY <1>3, <1>4, <1>5

LEMMA TypePairNames ==
    ASSUME NEW p, PairCopied(p), Both(p), NEW value, NEW s, s = TypePair(p[1].strategy, p[2].strategy, value)
    PROVE  AlikeNamed(p[1].strategy, s[1]) /\ AlikeNamed(p[2].strategy, s[2])
<1>1. PICK a, b : a = p[1].strategy /\ b = p[2].strategy
  OBVIOUS
<1>2. PICK c, e : c = [a EXCEPT !.type = b.type, !.values = b.values] /\ e = [b EXCEPT !.type = a.type, !.values = a.values]
  OBVIOUS
<1>3. s \in {<<a, b>>, <<a, e>>, <<c, b>>}
  BY <1>1, <1>2 DEF TypePair
<1>4. s[1] \in {a, c} /\ s[2] \in {b, e}
  BY <1>3
<1>5. AlikeNamed(a, a) /\ AlikeNamed(b, b)
  BY <1>1, StrategySelf DEF PairCopied
<1>6. AlikeNamed(a, c)
  <2>1. \A v, w : AlikeNamed(p[1].strategy, [p[1].strategy EXCEPT !.type = w, !.values = v])
    BY OtherFields DEF PairCopied, Both
  <2> QED
    BY <1>1, <1>2, <2>1
<1>7. AlikeNamed(b, e)
  <2>1. \A v, w : AlikeNamed(p[2].strategy, [p[2].strategy EXCEPT !.type = w, !.values = v])
    BY OtherFields DEF PairCopied, Both
  <2> QED
    BY <1>1, <1>2, <2>1
<1> QED
  BY <1>1, <1>4, <1>5, <1>6, <1>7

LEMMA FixAcrossNames == ASSUME NEW p, PairCopied(p) PROVE PairNames(p, FixAcross(p))
<1>1. PICK q : q = ItemsAcross(p, "function", LAMBDA c, a, b : FixPair(a, b))
  OBVIOUS
<1>2. PairNames(p, q)
  <2> DEFINE Side(i) == [c \in DOMAIN p[i].function |->
                    IF c \in Shared(p, "function") THEN FixPair(p[1].function[c], p[2].function[c])[i]
                                                ELSE p[i].function[c]]
  <2>1. PICK s : s = [i \in 1..2 |-> Side(i)]
    OBVIOUS
  <2>2. q = [i \in 1..2 |-> [p[i] EXCEPT !["function"] = Side(i)]]
    BY <1>1 DEF ItemsAcross
  <2>3. q = [i \in 1..2 |-> [p[i] EXCEPT !["function"] = s[i]]]
    <3> HIDE DEF Side
    <3> QED
      BY <2>1, <2>2
  <2> QED
    BY <2>3, PairItems
<1>3. PairCopied(q)
  BY <1>2, PairStays
<1>4. PICK r : r = ItemsAcross(q, "range", LAMBDA c, a, b : FixPair(a, b))
  OBVIOUS
<1>5. PairNames(q, r)
  <2> DEFINE Side(i) == [c \in DOMAIN q[i].range |->
                    IF c \in Shared(q, "range") THEN FixPair(q[1].range[c], q[2].range[c])[i]
                                                ELSE q[i].range[c]]
  <2>1. PICK s : s = [i \in 1..2 |-> Side(i)]
    OBVIOUS
  <2>2. r = [i \in 1..2 |-> [q[i] EXCEPT !["range"] = Side(i)]]
    BY <1>4 DEF ItemsAcross
  <2>3. r = [i \in 1..2 |-> [q[i] EXCEPT !["range"] = s[i]]]
    <3> HIDE DEF Side
    <3> QED
      BY <2>1, <2>2
  <2> QED
    BY <1>3, <2>3, PairItems
<1>6. PairCopied(r)
  BY <1>3, <1>5, PairStays
<1>7. PICK t : t = StrategiesAcross(r, FixPair)
  OBVIOUS
<1>8. PairNames(r, t)
  <2>1. CASE ~Both(r)
    BY <1>6, <1>7, <2>1, PairSelf DEF StrategiesAcross
  <2>2. CASE Both(r)
    <3>1. PICK s : s = FixPair(r[1].strategy, r[2].strategy)
      OBVIOUS
    <3>2. t = [i \in 1..2 |-> [r[i] EXCEPT !.strategy = s[i]]]
      BY <1>7, <2>2, <3>1 DEF StrategiesAcross
    <3>3. AlikeNamed(r[1].strategy, s[1]) /\ AlikeNamed(r[2].strategy, s[2])
      BY <1>6, <2>2, <3>1, FixPairNames
    <3> QED
      BY <1>6, <3>2, <3>3, PairStrategies
  <2> QED
    BY <2>1, <2>2
<1>9. PairNames(p, r)
  BY <1>2, <1>5, PairOn
<1>10. PairNames(p, t)
  BY <1>8, <1>9, PairOn
<1>11. FixAcross(p) = t
  BY <1>1, <1>4, <1>7 DEF FixAcross, EverywhereAcross
<1> QED
  BY <1>10, <1>11

LEMMA AlignAcrossNames == ASSUME NEW p, PairCopied(p) PROVE PairNames(p, AlignAcross(p))
<1> DEFINE AlignBoth(a, b) == WithValues(a, b, Aligned(<<a.values, b.values>>) @@ a.values, Aligned(<<a.values, b.values>>) @@ b.values)
<1>1. PICK q : q = ItemsAcross(p, "function", LAMBDA c, a, b : AlignBoth(a, b))
  OBVIOUS
<1>2. PairNames(p, q)
  <2> DEFINE Side(i) == [c \in DOMAIN p[i].function |->
                    IF c \in Shared(p, "function") THEN AlignBoth(p[1].function[c], p[2].function[c])[i]
                                                ELSE p[i].function[c]]
  <2>1. PICK s : s = [i \in 1..2 |-> Side(i)]
    OBVIOUS
  <2>2. q = [i \in 1..2 |-> [p[i] EXCEPT !["function"] = Side(i)]]
    BY <1>1 DEF ItemsAcross
  <2>3. q = [i \in 1..2 |-> [p[i] EXCEPT !["function"] = s[i]]]
    <3> HIDE DEF Side
    <3> QED
      BY <2>1, <2>2
  <2> QED
    BY <2>3, PairItems
<1>3. PairCopied(q)
  BY <1>2, PairStays
<1>4. PICK r : r = ItemsAcross(q, "range", LAMBDA c, a, b : AlignBoth(a, b))
  OBVIOUS
<1>5. PairNames(q, r)
  <2> DEFINE Side(i) == [c \in DOMAIN q[i].range |->
                    IF c \in Shared(q, "range") THEN AlignBoth(q[1].range[c], q[2].range[c])[i]
                                                ELSE q[i].range[c]]
  <2>1. PICK s : s = [i \in 1..2 |-> Side(i)]
    OBVIOUS
  <2>2. r = [i \in 1..2 |-> [q[i] EXCEPT !["range"] = Side(i)]]
    BY <1>4 DEF ItemsAcross
  <2>3. r = [i \in 1..2 |-> [q[i] EXCEPT !["range"] = s[i]]]
    <3> HIDE DEF Side
    <3> QED
      BY <2>1, <2>2
  <2> QED
    BY <1>3, <2>3, PairItems
<1>6. PairCopied(r)
  BY <1>3, <1>5, PairStays
<1>7. PICK t : t = StrategiesAcross(r, LAMBDA a, b : AlignBoth(a, b))
  OBVIOUS
<1>8. PairNames(r, t)
  <2>1. CASE ~Both(r)
    BY <1>6, <1>7, <2>1, PairSelf DEF StrategiesAcross
  <2>2. CASE Both(r)
    <3>1. PICK s : s = AlignBoth(r[1].strategy, r[2].strategy)
      OBVIOUS
    <3>2. t = [i \in 1..2 |-> [r[i] EXCEPT !.strategy = s[i]]]
      BY <1>7, <2>2, <3>1 DEF StrategiesAcross
    <3>3. AlikeNamed(r[1].strategy, s[1]) /\ AlikeNamed(r[2].strategy, s[2])
      <4>1. PICK v, w : v = Aligned(<<r[1].strategy.values, r[2].strategy.values>>) @@ r[1].strategy.values
                        /\ w = Aligned(<<r[1].strategy.values, r[2].strategy.values>>) @@ r[2].strategy.values
        OBVIOUS
      <4>2. s = WithValues(r[1].strategy, r[2].strategy, v, w)
        BY <3>1, <4>1
      <4> QED
        BY <1>6, <2>2, <4>2, PairValues
    <3> QED
      BY <1>6, <3>2, <3>3, PairStrategies
  <2> QED
    BY <2>1, <2>2
<1>9. PairNames(p, r)
  BY <1>2, <1>5, PairOn
<1>10. PairNames(p, t)
  BY <1>8, <1>9, PairOn
<1>11. AlignAcross(p) = t
  BY <1>1, <1>4, <1>7 DEF AlignAcross, EverywhereAcross
<1> QED
  BY <1>10, <1>11

LEMMA AlignTypesNames == ASSUME NEW p, PairCopied(p) PROVE PairNames(p, AlignTypes(p))
<1> DEFINE Value(c) == ValueOf(p[1].status @@ p[2].status, c)
           Item(c, a, b) == TypePair(a, b, Value(c))
           Strategies(a, b) == TypePair(a, b, IF Value(a.code) # "none" THEN Value(a.code) ELSE Value(b.code))
<1>1. PICK q : q = ItemsAcross(p, "range", Item)
  OBVIOUS
<1>2. PairNames(p, q)
  <2> DEFINE Side(i) == [c \in DOMAIN p[i].range |->
                    IF c \in Shared(p, "range") THEN Item(c, p[1].range[c], p[2].range[c])[i]
                                                ELSE p[i].range[c]]
  <2>1. PICK s : s = [i \in 1..2 |-> Side(i)]
    OBVIOUS
  <2>2. q = [i \in 1..2 |-> [p[i] EXCEPT !["range"] = Side(i)]]
    BY <1>1 DEF ItemsAcross
  <2>3. q = [i \in 1..2 |-> [p[i] EXCEPT !["range"] = s[i]]]
    <3> HIDE DEF Side
    <3> QED
      BY <2>1, <2>2
  <2> QED
    BY <2>3, PairItems
<1>3. PairCopied(q)
  BY <1>2, PairStays
<1>4. PICK r : r = ItemsAcross(q, "function", Item)
  OBVIOUS
<1>5. PairNames(q, r)
  <2> DEFINE Side(i) == [c \in DOMAIN q[i].function |->
                    IF c \in Shared(q, "function") THEN Item(c, q[1].function[c], q[2].function[c])[i]
                                                ELSE q[i].function[c]]
  <2>1. PICK s : s = [i \in 1..2 |-> Side(i)]
    OBVIOUS
  <2>2. r = [i \in 1..2 |-> [q[i] EXCEPT !["function"] = Side(i)]]
    BY <1>4 DEF ItemsAcross
  <2>3. r = [i \in 1..2 |-> [q[i] EXCEPT !["function"] = s[i]]]
    <3> HIDE DEF Side
    <3> QED
      BY <2>1, <2>2
  <2> QED
    BY <1>3, <2>3, PairItems
<1>6. PairCopied(r)
  BY <1>3, <1>5, PairStays
<1>7. PICK t : t = StrategiesAcross(r, Strategies)
  OBVIOUS
<1>8. PairNames(r, t)
  <2>1. CASE ~Both(r)
    BY <1>6, <1>7, <2>1, PairSelf DEF StrategiesAcross
  <2>2. CASE Both(r)
    <3>1. PICK s : s = Strategies(r[1].strategy, r[2].strategy)
      OBVIOUS
    <3>2. t = [i \in 1..2 |-> [r[i] EXCEPT !.strategy = s[i]]]
      BY <1>7, <2>2, <3>1 DEF StrategiesAcross
    <3>3. AlikeNamed(r[1].strategy, s[1]) /\ AlikeNamed(r[2].strategy, s[2])
      <4>1. PICK v : v = IF Value(r[1].strategy.code) # "none" THEN Value(r[1].strategy.code) ELSE Value(r[2].strategy.code)
        OBVIOUS
      <4>2. s = TypePair(r[1].strategy, r[2].strategy, v)
        BY <3>1, <4>1
      <4> QED
        BY <1>6, <2>2, <4>2, TypePairNames
    <3> QED
      BY <1>6, <3>2, <3>3, PairStrategies
  <2> QED
    BY <2>1, <2>2
<1>9. PairNames(p, r)
  BY <1>2, <1>5, PairOn
<1>10. PairNames(p, t)
  BY <1>8, <1>9, PairOn
<1>11. AlignTypes(p) = t
  BY <1>1, <1>4, <1>7 DEF AlignTypes
<1> QED
  BY <1>10, <1>11

LEMMA AlignApiUsageNames == ASSUME NEW p, PairCopied(p) PROVE PairNames(p, AlignApiUsage(p))
<1> DEFINE From(a, b) == IF ~a.open THEN a ELSE IF ~b.open THEN b ELSE IF ~a.property THEN a ELSE IF ~b.property THEN b
                ELSE [open |-> TRUE, property |-> TRUE]
           Change(a, b) == <<[a EXCEPT !.open = From(a, b).open, !.property = From(a, b).property],
                             [b EXCEPT !.open = From(a, b).open, !.property = From(a, b).property]>>
<1>1. PICK t : t = StrategiesAcross(p, Change)
  OBVIOUS
<1>2. PairNames(p, t)
  <2>1. CASE ~Both(p)
    BY <1>1, <2>1, PairSelf DEF StrategiesAcross
  <2>2. CASE Both(p)
    <3>1. PICK s : s = Change(p[1].strategy, p[2].strategy)
      OBVIOUS
    <3>2. t = [i \in 1..2 |-> [p[i] EXCEPT !.strategy = s[i]]]
      BY <1>1, <2>2, <3>1 DEF StrategiesAcross
    <3>3. AlikeNamed(p[1].strategy, s[1]) /\ AlikeNamed(p[2].strategy, s[2])
      <4>1. PICK a, b : a = p[1].strategy /\ b = p[2].strategy
        OBVIOUS
      <4>2. PICK o, y : o = From(a, b).open /\ y = From(a, b).property
        OBVIOUS
      <4>3. s[1] = [a EXCEPT !.open = o, !.property = y] /\ s[2] = [b EXCEPT !.open = o, !.property = y]
        BY <3>1, <4>1, <4>2
      <4>4. AlikeNamed(a, s[1])
        <5>1. \A v, w : AlikeNamed(p[1].strategy, [p[1].strategy EXCEPT !.open = v, !.property = w])
          BY <2>2, OtherFields DEF PairCopied, Both
        <5>2. AlikeNamed(a, [a EXCEPT !.open = o, !.property = y])
          BY <4>1, <5>1
        <5> QED
          BY <4>3, <5>2
      <4>5. AlikeNamed(b, s[2])
        <5>1. \A v, w : AlikeNamed(p[2].strategy, [p[2].strategy EXCEPT !.open = v, !.property = w])
          BY <2>2, OtherFields DEF PairCopied, Both
        <5>2. AlikeNamed(b, [b EXCEPT !.open = o, !.property = y])
          BY <4>1, <5>1
        <5> QED
          BY <4>3, <5>2
      <4> QED
        BY <4>1, <4>4, <4>5
    <3> QED
      BY <3>2, <3>3, PairStrategies
  <2> QED
    BY <2>1, <2>2
<1>3. AlignApiUsage(p) = t
  BY <1>1 DEF AlignApiUsage
<1> QED
  BY <1>2, <1>3

LEMMA PreferConvertNames == ASSUME NEW p, PairCopied(p) PROVE PairNames(p, PreferConvert(p))
<1> DEFINE Conv(a, b) == IF a.conv = "default" THEN b.conv ELSE a.conv
           Change(a, b) == <<[a EXCEPT !.conv = Conv(a, b)], [b EXCEPT !.conv = Conv(a, b)]>>
<1>1. PICK t : t = StrategiesAcross(p, Change)
  OBVIOUS
<1>2. PairNames(p, t)
  <2>1. CASE ~Both(p)
    BY <1>1, <2>1, PairSelf DEF StrategiesAcross
  <2>2. CASE Both(p)
    <3>1. PICK s : s = Change(p[1].strategy, p[2].strategy)
      OBVIOUS
    <3>2. t = [i \in 1..2 |-> [p[i] EXCEPT !.strategy = s[i]]]
      BY <1>1, <2>2, <3>1 DEF StrategiesAcross
    <3>3. AlikeNamed(p[1].strategy, s[1]) /\ AlikeNamed(p[2].strategy, s[2])
      <4>1. PICK a, b : a = p[1].strategy /\ b = p[2].strategy
        OBVIOUS
      <4>2. PICK o : o = Conv(a, b)
        OBVIOUS
      <4>3. s[1] = [a EXCEPT !.conv = o] /\ s[2] = [b EXCEPT !.conv = o]
        BY <3>1, <4>1, <4>2
      <4>4. AlikeNamed(a, s[1])
        <5>1. \A v, w : AlikeNamed(p[1].strategy, [p[1].strategy EXCEPT !.conv = w])
          BY <2>2, OtherFields DEF PairCopied, Both
        <5>2. AlikeNamed(a, [a EXCEPT !.conv = o])
          BY <4>1, <5>1
        <5> QED
          BY <4>3, <5>2
      <4>5. AlikeNamed(b, s[2])
        <5>1. \A v, w : AlikeNamed(p[2].strategy, [p[2].strategy EXCEPT !.conv = w])
          BY <2>2, OtherFields DEF PairCopied, Both
        <5>2. AlikeNamed(b, [b EXCEPT !.conv = o])
          BY <4>1, <5>1
        <5> QED
          BY <4>3, <5>2
      <4> QED
        BY <4>1, <4>4, <4>5
    <3> QED
      BY <3>2, <3>3, PairStrategies
  <2> QED
    BY <2>1, <2>2
<1>3. PreferConvert(p) = t
  BY <1>1 DEF PreferConvert
<1> QED
  BY <1>2, <1>3

-----------------------------------------------------------------------------
(* The merge                                                               *)

StepNames == {"fix descriptors", "the other way", "fix each", "align types", "align API usage",
              "prefer conversions", "align descriptors"}

LEMMA AgreementsListed == Agreements \in Seq(StepNames) /\ Len(Agreements) = 7
<1>1. Agreements \in Seq(StepNames)
  BY DEF Agreements, StepNames
<1>2. Len(Agreements) = 7
  BY DEF Agreements
<1> QED
  BY <1>1, <1>2

LEMMA AgreedAs ==
    ASSUME NEW p
    PROVE  /\ Agreed(p, "fix descriptors") = FixAcross(p)
           /\ Agreed(p, "the other way") = Swapped(FixAcross(Swapped(p)))
           /\ Agreed(p, "fix each") = <<ApplyFixes(p[1]), ApplyFixes(p[2])>>
           /\ Agreed(p, "align types") = AlignTypes(p)
           /\ Agreed(p, "align API usage") = AlignApiUsage(p)
           /\ Agreed(p, "prefer conversions") = PreferConvert(p)
           /\ Agreed(p, "align descriptors") = AlignAcross(p)
  BY DEF Agreed

PairRepairs(p, q) == Repairs(p[1], q[1]) /\ Repairs(p[2], q[2])

LEMMA PairNamesRepair ==
    ASSUME NEW p, NEW q, PairCopied(p), PairNames(p, q)
    PROVE  PairRepairs(p, q)
<1>1. Repairs(p[1], q[1])
  BY NamesRepair DEF PairCopied, PairNames
<1>2. Repairs(p[2], q[2])
  BY NamesRepair DEF PairCopied, PairNames
<1> QED
  BY <1>1, <1>2 DEF PairRepairs

LEMMA PairRepairsOn ==
    ASSUME NEW p, NEW q, NEW r, PairRepairs(p, q), PairRepairs(q, r)
    PROVE  PairRepairs(p, r)
<1>1. Repairs(p[1], r[1])
  BY RepairsOn DEF PairRepairs
<1>2. Repairs(p[2], r[2])
  BY RepairsOn DEF PairRepairs
<1> QED
  BY <1>1, <1>2 DEF PairRepairs

LEMMA OtherWay == ASSUME NEW p, PairCopied(p) PROVE PairNames(p, Swapped(FixAcross(Swapped(p))))
<1>1. PICK q : q = Swapped(p)
  OBVIOUS
<1>2. q[1] = p[2] /\ q[2] = p[1]
  BY <1>1 DEF Swapped
<1>3. PairCopied(q)
  BY <1>2 DEF PairCopied
<1>4. PICK r : r = FixAcross(q)
  OBVIOUS
<1>5. PairNames(q, r)
  BY <1>3, <1>4, FixAcrossNames
<1>6. PICK t : t = Swapped(r)
  OBVIOUS
<1>7. t[1] = r[2] /\ t[2] = r[1]
  BY <1>6 DEF Swapped
<1>8. PairNames(p, t)
  BY <1>2, <1>5, <1>7 DEF PairNames
<1> QED
  BY <1>1, <1>4, <1>6, <1>8

LEMMA AgreedRepairs == ASSUME NEW p, PairCopied(p), NEW step \in StepNames PROVE PairRepairs(p, Agreed(p, step))
<1>1. CASE step = "fix descriptors"
  <2>1. PICK q : q = FixAcross(p)
    OBVIOUS
  <2>2. PairNames(p, q)
    BY <2>1, FixAcrossNames
  <2>3. PairRepairs(p, q)
    BY <2>2, PairNamesRepair
  <2> QED
    BY <1>1, <2>1, <2>3, AgreedAs
<1>2. CASE step = "the other way"
  <2>1. PICK q : q = Swapped(FixAcross(Swapped(p)))
    OBVIOUS
  <2>2. PairNames(p, q)
    BY <2>1, OtherWay
  <2>3. PairRepairs(p, q)
    BY <2>2, PairNamesRepair
  <2> QED
    BY <1>2, <2>1, <2>3, AgreedAs
<1>3. CASE step = "align types"
  <2>1. PICK q : q = AlignTypes(p)
    OBVIOUS
  <2>2. PairNames(p, q)
    BY <2>1, AlignTypesNames
  <2>3. PairRepairs(p, q)
    BY <2>2, PairNamesRepair
  <2> QED
    BY <1>3, <2>1, <2>3, AgreedAs
<1>4. CASE step = "align API usage"
  <2>1. PICK q : q = AlignApiUsage(p)
    OBVIOUS
  <2>2. PairNames(p, q)
    BY <2>1, AlignApiUsageNames
  <2>3. PairRepairs(p, q)
    BY <2>2, PairNamesRepair
  <2> QED
    BY <1>4, <2>1, <2>3, AgreedAs
<1>5. CASE step = "prefer conversions"
  <2>1. PICK q : q = PreferConvert(p)
    OBVIOUS
  <2>2. PairNames(p, q)
    BY <2>1, PreferConvertNames
  <2>3. PairRepairs(p, q)
    BY <2>2, PairNamesRepair
  <2> QED
    BY <1>5, <2>1, <2>3, AgreedAs
<1>6. CASE step = "align descriptors"
  <2>1. PICK q : q = AlignAcross(p)
    OBVIOUS
  <2>2. PairNames(p, q)
    BY <2>1, AlignAcrossNames
  <2>3. PairRepairs(p, q)
    BY <2>2, PairNamesRepair
  <2> QED
    BY <1>6, <2>1, <2>3, AgreedAs
<1>7. CASE step = "fix each"
  <2>1. PICK a, b : a = ApplyFixes(p[1]) /\ b = ApplyFixes(p[2])
    OBVIOUS
  <2>2. Repairs(p[1], a) /\ Repairs(p[2], b)
    BY <2>1, FixesClean DEF PairCopied
  <2>3. PICK q : q = <<a, b>>
    OBVIOUS
  <2>4. PairRepairs(p, q)
    BY <2>2, <2>3 DEF PairRepairs
  <2> QED
    BY <1>7, <2>1, <2>3, <2>4, AgreedAs
<1> QED
  BY <1>1, <1>2, <1>3, <1>4, <1>5, <1>6, <1>7 DEF StepNames

LEMMA AgreedRepaired ==
    ASSUME NEW higher, NEW lower, IsCopy(higher), IsCopy(lower)
    PROVE  Repairs(higher, AgreedPair(higher, lower)[1]) /\ Repairs(lower, AgreedPair(higher, lower)[2])
<1>1. Agreements \in Seq(StepNames)
  BY AgreementsListed
<1>2. PICK h : AllAgreed(higher, lower, h) /\ AgreedPair(higher, lower) = h[Len(Agreements)]
  BY <1>1, AgreeSteps
<1>3. AgreedPair(higher, lower) = h[7]
  BY <1>2, AgreementsListed
<1>4. h[0] = <<higher, lower>>
  BY <1>2 DEF AllAgreed
<1>5. PICK first : first = h[0]
  OBVIOUS
<1>6. first[1] = higher /\ first[2] = lower
  BY <1>4, <1>5
<1>7. PairCopied(first)
  BY <1>6 DEF PairCopied
<1> DEFINE T == {i \in Nat : i <= 7 => PairRepairs(first, h[i])}
<1>8. 0 \in T
  <2>1. PairNames(first, first)
    BY <1>7, PairSelf
  <2>2. PairRepairs(first, first)
    BY <1>7, <2>1, PairNamesRepair
  <2> QED
    BY <1>5, <2>2
<1>9. ASSUME NEW i \in Nat, i \in T PROVE i + 1 \in T
  <2>1. i + 1 \in Nat
    OBVIOUS
  <2>2. ASSUME i + 1 <= 7 PROVE PairRepairs(first, h[i + 1])
    <3>1. PICK k : k = i + 1
      OBVIOUS
    <3>2. k \in 1..7 /\ k - 1 = i /\ i <= 7
      BY <2>2, <3>1
    <3>3. PairRepairs(first, h[k - 1])
      BY <1>9, <3>2
    <3>4. h[k] = Agreed(h[k - 1], Agreements[k])
      BY <1>2, <3>2, AgreementsListed DEF AllAgreed
    <3>5. Agreements[k] \in StepNames
      <4>1. PICK list : list = Agreements
        OBVIOUS
      <4>2. list \in Seq(StepNames) /\ Len(list) = 7
        BY <4>1, AgreementsListed
      <4>3. list \in Seq(StepNames) /\ k \in 1..Len(list)
        BY <3>2, <4>2
      <4>4. list[k] \in StepNames
        BY <4>3, ElementOfSeq
      <4> QED
        BY <4>1, <4>4
    <3>6. PairCopied(h[k - 1])
      BY <3>3 DEF PairRepairs, Repairs, PairCopied
    <3>7. PairRepairs(h[k - 1], h[k])
      BY <3>4, <3>5, <3>6, AgreedRepairs
    <3>8. PairRepairs(first, h[k])
      BY <3>3, <3>7, PairRepairsOn
    <3> QED
      BY <3>1, <3>8
  <2> QED
    BY <2>1, <2>2
<1>10. 7 \in T
  <2>1. 7 \in Nat
    OBVIOUS
  <2> HIDE DEF T
  <2> QED
    BY <1>8, <1>9, <2>1, NatInduct
<1>11. PairRepairs(first, h[7])
  BY <1>10
<1> QED
  BY <1>3, <1>6, <1>11 DEF PairRepairs

(* The merged copy has what the first one had.                             *)
LEMMA MergedKeeps ==
    ASSUME NEW p, PairCopied(p), NEW m, m = Merged(p)
    PROVE  /\ IsCopy(m) /\ m.forced = p[1].forced /\ DOMAIN p[1].status \subseteq DOMAIN m.status
           /\ \A c : Answered(p[1], c) => Answered(m, c)
<1>1. PICK left, right : left = p[1] /\ right = p[2]
  OBVIOUS
<1>2. IsCopy(left) /\ IsCopy(right)
  BY <1>1 DEF PairCopied
<1>3. PICK st, r, f, w : /\ st = MergeStatus(left.status, right.status) /\ r = MergeItems(left.range, right.range)
                         /\ f = MergeItems(left.function, right.function) /\ w = left.model \cup right.model
  OBVIOUS
<1>4. PICK s : s = IF ~HasStrategy(left) THEN right.strategy
                   ELSE IF ~HasStrategy(right) THEN left.strategy
                   ELSE MergeStrategies(left.strategy, right.strategy)
  OBVIOUS
<1>5. m = [left EXCEPT !.status = st, !.range = r, !.function = f, !.strategy = s, !.model = w]
  BY <1>1, <1>3, <1>4 DEF Merged
<1>6. DOMAIN m = CopyFields /\ m.status = st /\ m.forced = left.forced /\ m.strategy = s
  <2>1. DOMAIN left = CopyFields
    BY <1>2 DEF IsCopy
  <2>2. m.status = st /\ m.forced = left.forced /\ m.strategy = s
    BY <1>5, <2>1 DEF CopyFields
  <2>3. DOMAIN m = CopyFields
    BY <1>5, <2>1
  <2> QED
    BY <2>2, <2>3
<1>7. DOMAIN st = DOMAIN left.status \cup DOMAIN right.status
  BY <1>3 DEF MergeStatus
<1>8. CASE ~HasStrategy(left)
  <2>1. s = right.strategy
    BY <1>4, <1>8
  <2>2. IsCopy(m)
    BY <1>2, <1>6, <1>7, <2>1 DEF IsCopy, HasStrategy
  <2>3. \A c : Answered(left, c) => Answered(m, c)
    BY <1>6, <1>7, <1>8 DEF Answered
  <2> QED
    BY <1>1, <1>6, <1>7, <2>2, <2>3
<1>9. CASE HasStrategy(left) /\ ~HasStrategy(right)
  <2>1. s = left.strategy
    BY <1>4, <1>9
  <2>2. IsCopy(m)
    BY <1>2, <1>6, <1>7, <2>1 DEF IsCopy, HasStrategy
  <2>3. \A c : Answered(left, c) => Answered(m, c)
    BY <1>6, <1>7, <1>9, <2>1 DEF Answered, HasStrategy
  <2> QED
    BY <1>1, <1>6, <1>7, <2>2, <2>3
<1>10. CASE HasStrategy(left) /\ HasStrategy(right)
  <2>1. PICK a, b : a = left.strategy /\ b = right.strategy
    OBVIOUS
  <2>2. DOMAIN a = StrategyFields /\ a.code \in BothCodes /\ a.alias \subseteq BothCodes /\ a.format \subseteq BothCodes
        /\ b.alias \subseteq BothCodes /\ b.format \subseteq BothCodes
    BY <1>2, <1>10, <2>1 DEF IsCopy
  <2>3. s = MergeStrategies(a, b)
    BY <1>4, <1>10, <2>1
  <2>4. DOMAIN s = StrategyFields /\ s.code = a.code /\ s.alias = a.alias \cup b.alias /\ s.format = a.format \cup b.format
    BY <2>2, <2>3 DEF MergeStrategies, StrategyFields
  <2>5. s # NoStrategy
    BY <2>4, Strategic
  <2>6. IsCopy(m)
    BY <1>2, <1>6, <1>7, <2>2, <2>4 DEF IsCopy
  <2>7. \A c : Answered(left, c) => Answered(m, c)
    BY <1>6, <1>7, <2>1, <2>4, <2>5 DEF Answered, HasStrategy
  <2> QED
    BY <1>1, <1>6, <1>7, <2>6, <2>7
<1> QED
  BY <1>8, <1>9, <1>10

(* A code gets its name back.                                              *)
LEMMA RenamedDomain ==
    ASSUME NEW f, NEW from, NEW to
    PROVE  DOMAIN Renamed(f, from, to) = IF from \in DOMAIN f THEN (DOMAIN f \cup {to}) \ {from} ELSE DOMAIN f
  BY DEF Renamed, Restrict

LEMMA ReplacedKeeps ==
    ASSUME NEW d, IsCopy(d), HasStrategy(d), NEW x \in d.strategy.alias \ DOMAIN d.status, NEW e, e = ReplaceCode(d, x)
    PROVE  /\ IsCopy(e) /\ e.forced = d.forced
           /\ \A c : Answered(d, c) => Answered(e, c)
           /\ Answered(d, x) => x \in DOMAIN e.status
<1>1. PICK s, own : s = d.strategy /\ own = s.code
  OBVIOUS
<1>2. /\ DOMAIN d = CopyFields /\ DOMAIN s = StrategyFields /\ own \in BothCodes /\ s.alias \subseteq BothCodes
      /\ s.format \subseteq BothCodes /\ DOMAIN d.status \subseteq BothCodes /\ x \in BothCodes /\ d.forced \in BOOLEAN
  BY <1>1 DEF IsCopy
<1>3. PICK st, r, f : st = Renamed(d.status, own, x) /\ r = Renamed(d.range, own, x) /\ f = Renamed(d.function, own, x)
  OBVIOUS
<1>4. PICK al, fo : al = (s.alias \ {x}) \cup {own} /\ fo = IF s.format = {} THEN s.format ELSE (s.format \ {own}) \cup {x}
  OBVIOUS
<1>5. PICK t : t = [s EXCEPT !.code = x, !.alias = al, !.format = fo]
  OBVIOUS
<1>6. e = [d EXCEPT !.status = st, !.range = r, !.function = f, !.strategy = t]
  <2>1. t = ReplaceStrategyCode(s, x)
    BY <1>1, <1>2, <1>4, <1>5 DEF ReplaceStrategyCode, StrategyFields
  <2> QED
    BY <1>1, <1>3, <2>1 DEF ReplaceCode
<1>7. DOMAIN t = StrategyFields /\ t.code = x /\ t.alias = al /\ t.format = fo
  <2>1. t.code = x
    BY <1>2, <1>5 DEF StrategyFields
  <2>2. t.alias = al
    BY <1>2, <1>5 DEF StrategyFields
  <2>3. t.format = fo
    BY <1>2, <1>5 DEF StrategyFields
  <2>4. DOMAIN t = StrategyFields
    BY <1>2, <1>5
  <2> QED
    BY <2>1, <2>2, <2>3, <2>4
<1>8. DOMAIN e = CopyFields /\ e.status = st /\ e.forced = d.forced /\ e.strategy = t
  <2>1. e.status = st /\ e.forced = d.forced /\ e.strategy = t
    BY <1>2, <1>6 DEF CopyFields
  <2> QED
    BY <1>2, <1>6, <2>1
<1>9. DOMAIN st = IF own \in DOMAIN d.status THEN (DOMAIN d.status \cup {x}) \ {own} ELSE DOMAIN d.status
  BY <1>3, RenamedDomain
<1>10. al \subseteq BothCodes /\ fo \subseteq BothCodes /\ DOMAIN st \subseteq BothCodes
  BY <1>2, <1>4, <1>9
<1>11. IsCopy(e)
  BY <1>2, <1>7, <1>8, <1>10 DEF IsCopy
<1>12. HasStrategy(e)
  BY <1>7, <1>8, Strategic DEF HasStrategy
<1>13. ASSUME NEW c, Answered(d, c) PROVE Answered(e, c)
  <2>1. c \in DOMAIN d.status \/ (c \in s.alias /\ own \in DOMAIN d.status)
    BY <1>1, <1>13 DEF Answered
  <2>2. CASE own \in DOMAIN d.status
    <3>1. x \in DOMAIN st
      BY <1>9, <2>2
    <3>2. c \in DOMAIN st \/ c \in al
      BY <1>4, <1>9, <2>1, <2>2
    <3> QED
      BY <1>7, <1>8, <1>12, <3>1, <3>2 DEF Answered
  <2>3. CASE own \notin DOMAIN d.status
    BY <1>8, <1>9, <2>1, <2>3 DEF Answered
  <2> QED
    BY <2>2, <2>3
<1>14. ASSUME Answered(d, x) PROVE x \in DOMAIN e.status
  <2>1. own \in DOMAIN d.status
    BY <1>1, <1>14 DEF Answered
  <2> QED
    BY <1>8, <1>9, <2>1
<1> QED
  BY <1>8, <1>11, <1>13, <1>14

LEMMA EnforceKeeps ==
    ASSUME NEW d, IsCopy(d), NEW codes, codes \subseteq BothCodes, NEW e, e = Enforce(d, codes)
    PROVE  /\ IsCopy(e) /\ e.forced = d.forced
           /\ \A c : Answered(d, c) => Answered(e, c)
           /\ BothCodes \subseteq DOMAIN d.status => e = d
           /\ \A c : codes = {c} /\ Answered(d, c) => c \in DOMAIN e.status
<1>1. PICK masked : masked = IF HasStrategy(d) THEN (codes \ DOMAIN d.status) \cap d.strategy.alias ELSE {}
  OBVIOUS
<1>2. CASE masked = {}
  <2>1. e = d
    BY <1>1, <1>2 DEF Enforce
  <2>2. ASSUME NEW c, codes = {c}, Answered(d, c) PROVE c \in DOMAIN e.status
    BY <1>1, <1>2, <2>1, <2>2 DEF Answered
  <2> QED
    BY <2>1, <2>2
<1>3. CASE masked # {}
  <2>1. PICK x : x = CHOOSE c \in masked : TRUE
    OBVIOUS
  <2>2. x \in masked
    BY <1>3, <2>1
  <2>3. HasStrategy(d)
    BY <1>1, <1>3
  <2>4. x \in codes /\ x \in d.strategy.alias \ DOMAIN d.status
    BY <1>1, <2>2, <2>3
  <2>5. e = ReplaceCode(d, x)
    BY <1>1, <1>3, <2>1 DEF Enforce
  <2>6. /\ IsCopy(e) /\ e.forced = d.forced
        /\ \A c : Answered(d, c) => Answered(e, c)
        /\ Answered(d, x) => x \in DOMAIN e.status
    BY <2>3, <2>4, <2>5, ReplacedKeeps
  <2>7. ~(BothCodes \subseteq DOMAIN d.status)
    BY <2>4
  <2>8. ASSUME NEW c, codes = {c}, Answered(d, c) PROVE c \in DOMAIN e.status
    <3>1. x = c
      BY <2>4, <2>8
    <3> QED
      BY <2>6, <2>8, <3>1
  <2> QED
    BY <2>6, <2>7, <2>8
<1> QED
  BY <1>2, <1>3

(* What the enforcement of a copy's codes leaves of the others.            *)
LEMMA CompatibleKeeps ==
    ASSUME NEW d, IsCopy(d), NEW copy, IsCopy(copy), NEW e, e = Compatible(d, copy)
    PROVE  /\ IsCopy(e) /\ (d.forced \/ copy.forced => e.forced)
           /\ \A c : Answered(d, c) => Answered(e, c)
           /\ BothCodes \subseteq DOMAIN d.status => BothCodes \subseteq DOMAIN e.status
           /\ copy.forced => \A c : DOMAIN copy.status = {c} /\ Answered(d, c) => c \in DOMAIN e.status
<1>1. CASE ~copy.forced
  <2>1. e = d
    BY <1>1 DEF Compatible
  <2> QED
    BY <1>1, <2>1
<1>2. CASE copy.forced
  <2>1. PICK f, codes : f = Enforce(d, codes) /\ codes = DOMAIN copy.status
    OBVIOUS
  <2>2. codes \subseteq BothCodes
    BY <2>1 DEF IsCopy
  <2>3. /\ IsCopy(f) /\ f.forced = d.forced
        /\ \A c : Answered(d, c) => Answered(f, c)
        /\ BothCodes \subseteq DOMAIN d.status => f = d
        /\ \A c : codes = {c} /\ Answered(d, c) => c \in DOMAIN f.status
    BY <2>1, <2>2, EnforceKeeps
  <2>4. e = [f EXCEPT !.forced = TRUE]
    BY <1>2, <2>1 DEF Compatible
  <2>5. e.forced = TRUE /\ e.status = f.status /\ e.strategy = f.strategy /\ DOMAIN e = CopyFields
    <3>1. DOMAIN f = CopyFields
      BY <2>3 DEF IsCopy
    <3>2. e.forced = TRUE /\ e.status = f.status /\ e.strategy = f.strategy
      BY <2>4, <3>1 DEF CopyFields
    <3> QED
      BY <2>4, <3>1, <3>2
  <2>6. IsCopy(e)
    BY <2>3, <2>5 DEF IsCopy, HasStrategy
  <2>7. \A c : Answered(f, c) => Answered(e, c)
    BY <2>5 DEF Answered, HasStrategy
  <2> QED
    BY <2>1, <2>3, <2>5, <2>6, <2>7
<1> QED
  BY <1>1, <1>2

(* The codes of a copy with priority, after another was merged into it.    *)
LEMMA MergeKeeps ==
    ASSUME NEW higher, NEW lower, IsCopy(higher), IsCopy(lower), NEW e, e = MergeRepaired(higher, lower)
    PROVE  /\ IsCopy(e) /\ (higher.forced => e.forced)
           /\ higher.forced => \A c : DOMAIN higher.status = {c} => c \in DOMAIN e.status
           /\ CleanNames(higher) /\ BothCodes \subseteq DOMAIN higher.status => BothCodes \subseteq DOMAIN e.status
<1>1. PICK p : p = AgreedPair(higher, lower)
  OBVIOUS
<1>2. Repairs(higher, p[1]) /\ Repairs(lower, p[2])
  BY <1>1, AgreedRepaired
<1>3. PairCopied(p)
  BY <1>2 DEF Repairs, PairCopied
<1>4. PICK m : m = Merged(p)
  OBVIOUS
<1>5. /\ IsCopy(m) /\ m.forced = p[1].forced /\ DOMAIN p[1].status \subseteq DOMAIN m.status
      /\ \A c : Answered(p[1], c) => Answered(m, c)
  BY <1>3, <1>4, MergedKeeps
<1>6. m = MergeAgreed(higher, lower)
  BY <1>1, <1>4 DEF MergeAgreed
<1>7. m.forced = higher.forced /\ \A c : Answered(higher, c) => Answered(m, c)
  BY <1>2, <1>5 DEF Repairs
<1>8. CleanNames(higher) /\ BothCodes \subseteq DOMAIN higher.status => BothCodes \subseteq DOMAIN m.status
  BY <1>2, <1>5 DEF Repairs
<1>9. PICK all : all = <<lower, higher>>
  OBVIOUS
<1>10. all \in Seq({lower, higher}) /\ Len(all) = 2 /\ all[1] = lower /\ all[2] = higher
  BY <1>9
<1>11. PICK h : AllEnforced(higher, lower, h) /\ e = h[Len(all)]
  <2>1. <<lower, higher>> \in Seq({lower, higher})
    BY <1>9, <1>10
  <2>2. \E h : AllEnforced(higher, lower, h) /\ MergeRepaired(higher, lower) = h[Len(<<lower, higher>>)]
    BY <2>1, EnforceSteps
  <2> QED
    BY <1>9, <2>2
<1>12. h[0] = m /\ \A k \in 1..Len(all) : h[k] = Compatible(h[k - 1], all[k])
  BY <1>6, <1>9, <1>11 DEF AllEnforced
<1>13. PICK f : f = h[1]
  OBVIOUS
<1>14. f = Compatible(m, lower) /\ e = Compatible(f, higher)
  <2>1. PICK n : n = Len(all) /\ n = 2
    BY <1>10
  <2>2. 1 \in 1..n /\ 2 \in 1..n /\ 1 - 1 = 0 /\ 2 - 1 = 1
    BY <2>1
  <2>3. h[1] = Compatible(h[0], all[1])
    BY <1>12, <2>1, <2>2
  <2>4. h[2] = Compatible(h[1], all[2])
    BY <1>12, <2>1, <2>2
  <2> QED
    BY <1>10, <1>11, <1>12, <1>13, <2>1, <2>3, <2>4
<1>15. /\ IsCopy(f) /\ (m.forced \/ lower.forced => f.forced)
       /\ \A c : Answered(m, c) => Answered(f, c)
       /\ BothCodes \subseteq DOMAIN m.status => BothCodes \subseteq DOMAIN f.status
  BY <1>5, <1>14, CompatibleKeeps
<1>16. /\ IsCopy(e) /\ (f.forced \/ higher.forced => e.forced)
       /\ BothCodes \subseteq DOMAIN f.status => BothCodes \subseteq DOMAIN e.status
       /\ higher.forced => \A c : DOMAIN higher.status = {c} /\ Answered(f, c) => c \in DOMAIN e.status
  BY <1>14, <1>15, CompatibleKeeps
<1>17. ASSUME higher.forced, NEW c, DOMAIN higher.status = {c} PROVE c \in DOMAIN e.status
  <2>1. Answered(higher, c)
    BY <1>17 DEF Answered
  <2>2. Answered(f, c)
    BY <1>7, <1>15, <2>1
  <2> QED
    BY <1>16, <1>17, <2>2
<1> QED
  BY <1>8, <1>15, <1>16, <1>17

LEMMA PrepareKeeps ==
    ASSUME NEW d, IsCopy(d), NEW e, e = Prepared(d)
    PROVE  IsCopy(e) /\ e.forced /\ CleanNames(e)
<1>1. PICK f : f = ApplyFixes(d)
  OBVIOUS
<1>2. IsCopy(f)
  BY <1>1, FixesClean DEF Repairs
<1>3. PICK g : g = ApplyFixes(f)
  OBVIOUS
<1>4. IsCopy(g) /\ CleanNames(g)
  BY <1>2, <1>3, FixesClean DEF Repairs
<1>5. PICK h : h = PostInitFixes(g)
  OBVIOUS
<1>6. SameNames(g, h)
  BY <1>4, <1>5, PostInitFixesNames
<1>7. IsCopy(h) /\ CleanNames(h)
  BY <1>4, <1>6, NamesCopy, NamesKeep
<1>8. e = [h EXCEPT !.forced = TRUE]
  BY <1>1, <1>3, <1>5 DEF Prepared
<1>9. e.forced = TRUE /\ e.status = h.status /\ e.strategy = h.strategy /\ DOMAIN e = CopyFields
  <2>1. DOMAIN h = CopyFields
    BY <1>7 DEF IsCopy
  <2>2. e.forced = TRUE /\ e.status = h.status /\ e.strategy = h.strategy
    BY <1>8, <2>1 DEF CopyFields
  <2> QED
    BY <1>8, <2>1, <2>2
<1>10. IsCopy(e) /\ CleanNames(e)
  BY <1>7, <1>9 DEF IsCopy, HasStrategy, CleanNames
<1> QED
  BY <1>9, <1>10

-----------------------------------------------------------------------------
(* The device                                                              *)

DpInv ==
    /\ dpStage \in {"none", "fetched", "merged", "prepared", "rebound"}
    /\ dpStage = "none" => dpForced = {}
    /\ dpStage = "fetched" =>
          /\ dpDevice \in Firsts /\ dpOther \in Seconds
          /\ dpForced = IF dpDevice.forced THEN DOMAIN dpDevice.status ELSE {}
    /\ dpStage \in {"merged", "prepared", "rebound"} =>
          dpOther = NoCopy /\ IsCopy(dpDevice) /\ dpForced \subseteq DOMAIN dpDevice.status
    /\ dpStage \in {"prepared", "rebound"} => dpDevice.forced
    /\ dpStage = "prepared" => CleanNames(dpDevice) /\ dpForced = DOMAIN dpDevice.status

LEMMA DpStarts == DpInit => DpInv
  BY DEF DpInit, DpInv

LEMMA DpFetch == ASSUME DpInv, FetchCopies PROVE DpInv'
  BY DEF DpInv, FetchCopies

LEMMA DpMerge == ASSUME DpInv, MergeCopies PROVE DpInv'
<1>1. dpDevice \in Firsts /\ dpOther \in Seconds /\ dpForced = IF dpDevice.forced THEN DOMAIN dpDevice.status ELSE {}
  BY DEF DpInv, MergeCopies
<1>2. IsCopy(dpDevice) /\ (dpDevice.forced => \A c, other \in DOMAIN dpDevice.status : c = other)
  BY <1>1, DescriptionsAssumption
<1>3. IsCopy(dpDevice') /\ dpForced \subseteq DOMAIN dpDevice'.status
  <2>1. CASE dpOther = NoCopy
    BY <1>1, <1>2, <2>1 DEF MergeCopies
  <2>2. CASE dpOther # NoCopy
    <3>1. PICK e : e = MergeRepaired(dpDevice, dpOther)
      OBVIOUS
    <3>2. IsCopy(dpOther)
      BY <1>1, <2>2, DescriptionsAssumption
    <3>3. IsCopy(e) /\ (dpDevice.forced => \A c : DOMAIN dpDevice.status = {c} => c \in DOMAIN e.status)
      BY <1>2, <3>1, <3>2, MergeKeeps
    <3>4. dpForced \subseteq DOMAIN e.status
      <4>1. CASE dpForced = {}
        BY <4>1
      <4>2. CASE dpForced # {}
        <5>1. dpDevice.forced /\ dpForced = DOMAIN dpDevice.status
          BY <1>1, <4>2
        <5>2. PICK c : c \in DOMAIN dpDevice.status
          BY <4>2, <5>1
        <5>3. DOMAIN dpDevice.status = {c}
          BY <1>2, <5>1, <5>2
        <5> QED
          BY <3>3, <5>1, <5>3
      <4> QED
        BY <4>1, <4>2
    <3> QED
      BY <2>2, <3>1, <3>3, <3>4 DEF MergeCopies
  <2> QED
    BY <2>1, <2>2
<1> QED
  BY <1>3 DEF DpInv, MergeCopies

LEMMA DpPrepare == ASSUME DpInv, Prepare PROVE DpInv'
<1>1. IsCopy(dpDevice) /\ dpOther = NoCopy
  BY DEF DpInv, Prepare
<1>2. PICK e : e = Prepared(dpDevice)
  OBVIOUS
<1>3. IsCopy(e) /\ e.forced /\ CleanNames(e)
  BY <1>1, <1>2, PrepareKeeps
<1>4. dpDevice' = e
  BY <1>2 DEF Prepare
<1>5. IsCopy(dpDevice') /\ dpDevice'.forced /\ CleanNames(dpDevice')
  BY <1>3, <1>4
<1> QED
  BY <1>1, <1>5 DEF DpInv, Prepare

LEMMA DpRebind == ASSUME DpInv, Rebind PROVE DpInv'
<1>1. IsCopy(dpDevice) /\ dpDevice.forced /\ CleanNames(dpDevice) /\ dpForced = DOMAIN dpDevice.status /\ dpOther = NoCopy
  BY DEF DpInv, Rebind
<1>2. PICK fresh \in Fresh : dpDevice' = MergeRepaired(dpDevice, fresh)
  BY DEF Rebind
<1>3. IsCopy(fresh)
  BY DescriptionsAssumption
<1>4. PICK e : e = MergeRepaired(dpDevice, fresh)
  OBVIOUS
<1>5. /\ IsCopy(e) /\ e.forced
      /\ \A c : DOMAIN dpDevice.status = {c} => c \in DOMAIN e.status
      /\ BothCodes \subseteq DOMAIN dpDevice.status => BothCodes \subseteq DOMAIN e.status
  BY <1>1, <1>3, <1>4, MergeKeeps
<1>6. DOMAIN dpDevice.status \subseteq BothCodes
  BY <1>1 DEF IsCopy
<1>7. PICK codes : codes = DOMAIN dpDevice.status
  OBVIOUS
<1>8. codes = {} \/ (\E c : codes = {c}) \/ codes = BothCodes
  BY <1>6, <1>7 DEF BothCodes
<1>9. codes \subseteq DOMAIN e.status
  <2>1. CASE codes = {}
    BY <2>1
  <2>2. ASSUME NEW c, codes = {c} PROVE codes \subseteq DOMAIN e.status
    BY <1>5, <1>7, <2>2
  <2>3. CASE codes = BothCodes
    BY <1>5, <1>7, <2>3
  <2> QED
    BY <1>8, <2>1, <2>2, <2>3
<1>10. dpDevice' = e
  BY <1>2, <1>4
<1>11. IsCopy(dpDevice') /\ dpDevice'.forced /\ dpForced \subseteq DOMAIN dpDevice'.status
  BY <1>1, <1>5, <1>7, <1>9, <1>10
<1> QED
  BY <1>1, <1>11 DEF DpInv, Rebind

LEMMA DpSteps == DpInv /\ [DpNext]_dpVars => DpInv'
<1> SUFFICES ASSUME DpInv, [DpNext]_dpVars PROVE DpInv'
  OBVIOUS
<1>1. CASE UNCHANGED dpVars
  BY <1>1 DEF DpInv, dpVars
<1> QED
  BY <1>1, DpFetch, DpMerge, DpPrepare, DpRebind DEF DpNext

(* For any descriptions two accounts may give: a code that the official    *)
(* integration's copy reports, or that the prepared device has, is         *)
(* reported under its name after every merge and every repair              *)
(* (force_compatibility), and the repairs leave no status under an alias.  *)
THEOREM CodesNamedOnce == DpSpec => []NamedOnce
<1>1. DpInv => NamedOnce
  BY DEF DpInv, NamedOnce, KeepsCodes, NoAliasLeft, CleanNames
<1> QED
  BY DpStarts, DpSteps, <1>1, PTL DEF DpSpec
=============================================================================
