------------------------- MODULE ValveTimersProofs -------------------------
(***************************************************************************)
(* Proofs about ValveTimers, for every number of slots, keys, group ids    *)
(* and calls in flight: type correctness; the two facts the cloud matching *)
(* relies on (no two slots with one time and days, no label without its    *)
(* slot); that changed_at moves with the plan and a lockout is honoured;   *)
(* that Home Assistant's slots mirror the valve's; that a resync clears no *)
(* listed timer; and that the cloud mirrors the valve.                     *)
(***************************************************************************)
EXTENDS ValveTimers, FiniteSetTheorems, TLAPS

-----------------------------------------------------------------------------
(* What the operators of TimerState return                                 *)

LEMMA SlotZero == 0 \in Slots
  BY NSlotsAssumption, SMT DEF Slots

LEMMA EnabledIsHeld ==
    ASSUME NEW held \in Held, Enabled(held)
    PROVE  held \in Timer /\ held # None /\ held.on /\ held.key \in Keys
  BY NoneAssumption DEF Enabled, Held, Timer

LEMMA AfterReportType ==
    ASSUME NEW sl \in [Slots -> Held], NEW f \in Frame
    PROVE  AfterReport(sl, f) \in [Slots -> Held]
  BY DEF AfterReport, Frame, Held

LEMMA LabelsAfterReportType ==
    ASSUME NEW sl, NEW ov \in [Slots -> Labels], NEW r, NEW f
    PROVE  LabelsAfterReport(sl, ov, r, f) \in [Slots -> Labels]
  BY DEF LabelsAfterReport, Labels

LEMMA LabelsFromCloudType ==
    ASSUME NEW sl, NEW list, NEW m
    PROVE  LabelsFromCloud(sl, list, m) \in [Slots -> Labels]
  BY DEF LabelsFromCloud, LabelFor, Labels

LEMMA CloudOnlyType ==
    ASSUME NEW sl, NEW list \in SUBSET Entry
    PROVE  CloudOnly(sl, list) \in SUBSET Keys
  BY DEF CloudOnly, Entry

LEMMA OrphansType ==
    ASSUME NEW sl, NEW list
    PROVE  Orphans(sl, list) \in SUBSET Slots
  BY DEF Orphans, ActiveSlots

(* A report never leaves two slots with one time and days.                 *)
LEMMA AfterReportDistinct ==
    ASSUME NEW sl \in [Slots -> Held], NEW f \in Frame, DistinctKeys(sl)
    PROVE  DistinctKeys(AfterReport(sl, f))
  <1> DEFINE after == AfterReport(sl, f)
  <1> SUFFICES ASSUME NEW i \in Slots, NEW j \in Slots, i # j,
                      after[i] # None, after[j] # None
               PROVE  after[i].key # after[j].key
    BY DEF DistinctKeys
  <1>1. CASE i = f.index
    BY <1>1 DEF AfterReport, Duplicates
  <1>2. CASE j = f.index
    BY <1>2 DEF AfterReport, Duplicates
  <1>3. CASE i # f.index /\ j # f.index
    BY <1>3 DEF AfterReport, DistinctKeys
  <1> QED BY <1>1, <1>2, <1>3

(* A report drops the label of every slot it empties.                      *)
LEMMA AfterReportFits ==
    ASSUME NEW sl \in [Slots -> Held], NEW ov \in [Slots -> Labels],
           NEW r \in BOOLEAN, NEW f \in Frame, LabelsFit(sl, ov)
    PROVE  LabelsFit(AfterReport(sl, f), LabelsAfterReport(sl, ov, r, f))
  <1> DEFINE after == AfterReport(sl, f)
             labels == LabelsAfterReport(sl, ov, r, f)
  <1> SUFFICES ASSUME NEW i \in Slots, labels[i] # "none"
               PROVE  after[i] = sl[i] /\ labels[i] = ov[i]
    BY DEF LabelsFit
  <1>1. i \notin Duplicates(sl, f) /\ (i = f.index => sl[i] = f.timer)
    BY DEF LabelsAfterReport
  <1> QED BY <1>1 DEF AfterReport, LabelsAfterReport

(* apply_cloud labels held slots only, and "missing" only enabled ones.    *)
LEMMA FromCloudFits ==
    ASSUME NEW sl \in [Slots -> Held], NEW list, NEW m
    PROVE  LabelsFit(sl, LabelsFromCloud(sl, list, m))
  BY DEF LabelsFit, LabelsFromCloud, LabelFor

-----------------------------------------------------------------------------
(* What the building blocks of the actions keep                            *)

LEMMA IdleType == Idle \in Call /\ NoSlots \in [Slots -> Held]
  BY SlotZero DEF Idle, Call, Reply, NoSlots, Held

LEMMA EntriesType ==
    ASSUME cloud \in [Gids -> Entry \cup {None}]
    PROVE  Entries \in SUBSET Entry
  BY DEF Entries

LEMMA StepType ==
    ASSUME CallTypes, NEW c \in Calls, NEW call \in Call, Step(c, call)
    PROVE  calls' \in [Calls -> Call]
  BY DEF CallTypes, Step

LEMMA StepShape ==
    ASSUME CallTypes, CallShapes, NEW c \in Calls, NEW call, CallShape(call),
           Step(c, call)
    PROVE  CallShapes'
  BY DEF CallTypes, CallShapes, Step

LEMMA FinishType ==
    ASSUME CallTypes, CallShapes, NEW c \in Calls, Finish(c)
    PROVE  calls' \in [Calls -> Call] /\ CallShapes'
  <1>1. CallShape(Idle)
    BY DEF CallShape, Idle
  <1> QED BY <1>1, IdleType, StepType, StepShape DEF Finish

LEMMA SpendType ==
    ASSUME CallTypes, NEW what \in {"ops", "trouble"}, Spend(what)
    PROVE  budget' \in Budget
  BY SMT DEF CallTypes, Spend, Budget

LEMMA DeviceTakesTypes ==
    ASSUME WorldTypes, HistoryTypes, NEW f \in Frame, DeviceTakes(f)
    PROVE  /\ dev' \in [Slots -> Held] /\ window' \in Frame \cup {None}
           /\ wire' \in Seq(Frame)
           /\ blind' \in SUBSET Slots /\ rolledBack' \in SUBSET Slots
  <1>1. f.index \in Slots /\ f.timer \in Held
    BY DEF Frame
  <1>2. Append(wire, f) \in Seq(Frame)
    BY DEF WorldTypes
  <1> QED BY <1>1, <1>2 DEF DeviceTakes, WorldTypes, HistoryTypes

LEMMA ApplyReportTypes ==
    ASSUME NEW sl \in [Slots -> Held], NEW ov \in [Slots -> Labels],
           NEW only \in SUBSET Keys, NEW st \in {0, 1}, NEW rest \in BOOLEAN,
           NEW f \in Frame, ApplyReport(sl, ov, only, st, rest, f)
    PROVE  /\ slots' \in [Slots -> Held] /\ overlay' \in [Slots -> Labels]
           /\ cloudOnly' \in SUBSET Keys /\ stamp' \in {0, 1}
           /\ last' \in Frame \cup {None} /\ restored' \in BOOLEAN
  <1>1. stamp' \in {0, 1}
    BY SMT DEF ApplyReport
  <1> QED BY <1>1, AfterReportType, LabelsAfterReportType DEF ApplyReport

LEMMA ApplyCloudTypes ==
    ASSUME RegistryTypes, NEW list \in SUBSET Entry, ApplyCloud(list)
    PROVE  RegistryTypes'
  <1>1. CASE Trusted(slots, list)
    <2>1. stamp' \in {0, 1}
      BY <1>1, SMT DEF ApplyCloud, Touch, RegistryTypes
    <2> QED BY <1>1, <2>1, LabelsFromCloudType, CloudOnlyType
            DEF ApplyCloud, RegistryTypes
  <1>2. CASE ~Trusted(slots, list)
    BY <1>2 DEF ApplyCloud, RegistryTypes, ha, timerState
  <1> QED BY <1>1, <1>2

LEMMA KeepTimersTypes ==
    ASSUME RegistryTypes, UNCHANGED ha PROVE RegistryTypes'
  BY DEF RegistryTypes, ha, timerState

LEMMA KeepDeviceTypes ==
    ASSUME WorldTypes, UNCHANGED <<device, cloud, hub, breaker>> PROVE WorldTypes'
  BY DEF WorldTypes, device

-----------------------------------------------------------------------------
(* Every action keeps the types                                            *)

LEMMA InitTypes == Init => TypeOK
  <1> SUFFICES ASSUME Init PROVE TypeOK
    OBVIOUS
  <1>1. WorldTypes
    <2>1. wire \in Seq(Frame)
      BY DEF Init
    <2> QED BY <2>1, IdleType DEF Init, WorldTypes
  <1>2. RegistryTypes
    BY IdleType DEF Init, RegistryTypes, NoLabels, Labels
  <1>3. CallTypes
    <2>1. MaxOps \in Nat /\ MaxTrouble \in Nat
      BY BoundsAssumption
    <2> QED BY <2>1, IdleType DEF Init, CallTypes, Budget
  <1>4. HistoryTypes
    BY DEF Init, HistoryTypes
  <1>5. CallShapes
    BY DEF Init, CallShapes, CallShape, Idle
  <1> QED BY <1>1, <1>2, <1>3, <1>4, <1>5 DEF TypeOK

LEMMA StartTypes ==
    ASSUME TypeOK, NEW c \in Calls, Start(c)
    PROVE  TypeOK'
  <1> USE DEF TypeOK
  <1>0. /\ Spend("ops") /\ RegistryTypes' /\ WorldTypes'
        /\ UNCHANGED <<blind, rolledBack>>
    <2>1. Spend("ops") /\ KeepTimers /\ KeepWorld /\ UNCHANGED <<hub, breaker>>
      BY DEF Start, SetTimer, DeleteTimer, Resync, Sweep, MayStart
    <2> QED BY <2>1, KeepTimersTypes, KeepDeviceTypes DEF KeepTimers, KeepWorld
  <1>1. budget' \in Budget
    BY <1>0, SpendType
  <1>2. slots \in [Slots -> Held] /\ Idle \in Call
    BY IdleType DEF RegistryTypes
  <1> DEFINE prior(i) == IF live THEN slots[i] ELSE None
  <1>p. \A i \in Slots : prior(i) \in Held
    BY <1>2 DEF Held
  <1>3. ASSUME NEW i \in Slots, NEW t \in Timer, SetTimer(c, i, t)
        PROVE  calls' \in [Calls -> Call] /\ CallShapes' /\ clean' \in BOOLEAN
    <2> DEFINE call == [Idle EXCEPT !.op = "set", !.pc = "dp", !.slot = i,
                                    !.timer = t, !.prior = prior(i)]
    <2>1. call \in Call
      <3> HIDE DEF prior
      <3> QED BY <1>2, <1>p DEF Call, Held
    <2>2. CallShape(call)
      BY NoneAssumption DEF CallShape, Idle
    <2> QED BY <1>3, <2>1, <2>2, StepType, StepShape DEF SetTimer, HistoryTypes
  <1>4. ASSUME NEW i \in Slots, DeleteTimer(c, i)
        PROVE  calls' \in [Calls -> Call] /\ CallShapes' /\ clean' \in BOOLEAN
    <2> DEFINE call == [Idle EXCEPT !.op = "delete", !.pc = "dp", !.slot = i,
                                    !.prior = prior(i)]
    <2>1. call \in Call
      <3> HIDE DEF prior
      <3> QED BY <1>2, <1>p DEF Call, Held
    <2>2. CallShape(call)
      BY DEF CallShape, Idle
    <2> QED BY <1>4, <2>1, <2>2, StepType, StepShape DEF DeleteTimer, HistoryTypes
  <1>5. ASSUME Resync(c)
        PROVE  calls' \in [Calls -> Call] /\ CallShapes' /\ clean' \in BOOLEAN
    <2> DEFINE call == [Idle EXCEPT !.op = "resync", !.pc = "get", !.snap = slots]
    <2>1. call \in Call /\ CallShape(call)
      BY <1>2 DEF Call, CallShape, Idle
    <2> QED BY <1>5, <2>1, StepType, StepShape DEF Resync, HistoryTypes
  <1>6. ASSUME Sweep(c)
        PROVE  calls' \in [Calls -> Call] /\ CallShapes' /\ clean' \in BOOLEAN
    <2> DEFINE call == [Idle EXCEPT !.op = "sweep", !.pc = "get"]
    <2>1. call \in Call /\ CallShape(call)
      BY <1>2 DEF Call, CallShape, Idle
    <2> QED BY <1>6, <2>1, StepType, StepShape DEF Sweep, HistoryTypes
  <1>7. calls' \in [Calls -> Call] /\ CallShapes' /\ clean' \in BOOLEAN
    BY <1>3, <1>4, <1>5, <1>6 DEF Start
  <1> QED BY <1>0, <1>1, <1>7 DEF CallTypes, HistoryTypes

LEMMA AnswerTypes ==
    ASSUME TypeOK, NEW c, NEW reply, Answer(c, reply)
    PROVE  budget' \in Budget /\ clean' \in BOOLEAN
  BY SpendType DEF Answer, TypeOK, CallTypes, HistoryTypes

LEMMA RepliedType ==
    ASSUME CallTypes, CallShapes, NEW c \in Calls, NEW reply \in Reply,
           Replied(c, reply)
    PROVE  calls' \in [Calls -> Call] /\ CallShapes'
  <1>1. calls[c] \in Call
    BY DEF CallTypes
  <1>2. [calls[c] EXCEPT !.reply = reply] \in Call
    BY <1>1 DEF Call
  <1>3. CallShape([calls[c] EXCEPT !.reply = reply])
    BY <1>1 DEF CallShapes, CallShape, Call
  <1> QED BY <1>2, <1>3, StepType, StepShape DEF Replied

LEMMA ServeDpTypes ==
    ASSUME TypeOK, NEW c \in Calls, NEW reply \in {"ok", "failed"},
           NEW taken \in BOOLEAN, ServeDp(c, reply, taken)
    PROVE  TypeOK'
  <1>1. FrameOf(c) \in Frame
    BY DEF FrameOf, Frame, TypeOK, CallTypes, Call
  <1>2. RegistryTypes'
    BY KeepTimersTypes DEF ServeDp, TypeOK
  <1>3. calls' \in [Calls -> Call] /\ CallShapes' /\ budget' \in Budget /\ clean' \in BOOLEAN
    BY RepliedType, AnswerTypes DEF ServeDp, TypeOK, Reply
  <1>4. /\ dev' \in [Slots -> Held] /\ window' \in Frame \cup {None}
        /\ wire' \in Seq(Frame)
        /\ blind' \in SUBSET Slots /\ rolledBack' \in SUBSET Slots
    BY <1>1, DeviceTakesTypes
       DEF ServeDp, TypeOK, WorldTypes, HistoryTypes, device
  <1> QED BY <1>2, <1>3, <1>4 DEF ServeDp, TypeOK, WorldTypes, CallTypes, HistoryTypes

LEMMA ServeGetTypes ==
    ASSUME TypeOK, NEW c \in Calls, NEW reply \in Reply,
           NEW list \in SUBSET Entry, ServeGet(c, reply, list)
    PROVE  TypeOK'
  <1>1. calls[c] \in Call
    BY DEF TypeOK, CallTypes
  <1>2. [calls[c] EXCEPT !.reply = reply, !.list = list] \in Call
    BY <1>1 DEF Call
  <1>3. calls' \in [Calls -> Call] /\ CallShapes'
    <2>1. CallShape([calls[c] EXCEPT !.reply = reply, !.list = list])
      BY <1>1 DEF TypeOK, CallShapes, CallShape, Call
    <2> QED BY <1>2, <2>1, StepType, StepShape DEF ServeGet, TypeOK
  <1>4. budget' \in Budget /\ clean' \in BOOLEAN
    BY SpendType DEF ServeGet, TypeOK, CallTypes, HistoryTypes
  <1>5. WorldTypes' /\ RegistryTypes'
    BY KeepTimersTypes, KeepDeviceTypes DEF ServeGet, TypeOK, KeepTimers, KeepWorld
  <1> QED BY <1>3, <1>4, <1>5
          DEF ServeGet, KeepTimers, KeepWorld, TypeOK, CallTypes, HistoryTypes

LEMMA ServePostTypes ==
    ASSUME TypeOK, NEW c \in Calls, NEW reply \in Reply, NEW taken \in BOOLEAN,
           ServePost(c, reply, taken)
    PROVE  TypeOK'
  <1>1. calls' \in [Calls -> Call] /\ CallShapes' /\ budget' \in Budget /\ clean' \in BOOLEAN
    BY RepliedType, AnswerTypes DEF ServePost, TypeOK
  <1>2. calls[c].timer.key \in Keys
    BY DEF ServePost, TypeOK, CallTypes, CallShapes, CallShape, Call, Held, Timer
  <1>3. cloud' \in [Gids -> Entry \cup {None}]
    <2>1. CASE taken
      <3>1. PICK g \in FreshGids :
               cloud' = [cloud EXCEPT ![g] = [gid |-> g, key |-> calls[c].timer.key,
                                              alias |-> None, on |-> TRUE]]
        BY <2>1 DEF ServePost
      <3>2. g \in Gids
        BY DEF FreshGids
      <3>3. [gid |-> g, key |-> calls[c].timer.key, alias |-> None, on |-> TRUE] \in Entry
        BY <1>2, <3>2 DEF Entry
      <3> QED BY <3>1, <3>3 DEF TypeOK, WorldTypes
    <2>2. CASE ~taken
      BY <2>2 DEF ServePost, TypeOK, WorldTypes
    <2> QED BY <2>1, <2>2
  <1>4. RegistryTypes'
    BY KeepTimersTypes DEF ServePost, TypeOK, KeepTimers
  <1> QED BY <1>1, <1>3, <1>4
          DEF ServePost, KeepTimers, device, TypeOK, WorldTypes, CallTypes, HistoryTypes

LEMMA ServeDelTypes ==
    ASSUME TypeOK, NEW c \in Calls, NEW reply \in Reply, NEW taken \in BOOLEAN,
           ServeDel(c, reply, taken)
    PROVE  TypeOK'
  <1>1. calls[c] \in Call
    BY DEF TypeOK, CallTypes
  <1>2. budget' \in Budget /\ clean' \in BOOLEAN
    BY AnswerTypes DEF ServeDel
  <1>3. PICK e \in calls[c].list :
           /\ Step(c, [calls[c] EXCEPT !.reply = reply, !.list = @ \ {e}])
           /\ cloud' = IF taken THEN [cloud EXCEPT ![e.gid] = None] ELSE cloud
    BY DEF ServeDel
  <1>4. [calls[c] EXCEPT !.reply = reply, !.list = @ \ {e}] \in Call
    BY <1>1 DEF Call
  <1>5. calls' \in [Calls -> Call] /\ CallShapes'
    <2>1. CallShape([calls[c] EXCEPT !.reply = reply, !.list = @ \ {e}])
      BY <1>1 DEF TypeOK, CallShapes, CallShape, Call
    <2> QED BY <1>3, <1>4, <2>1, StepType, StepShape DEF TypeOK
  <1>6. cloud' \in [Gids -> Entry \cup {None}]
    BY <1>3 DEF TypeOK, WorldTypes
  <1>7. RegistryTypes'
    BY KeepTimersTypes DEF ServeDel, TypeOK, KeepTimers
  <1> QED BY <1>2, <1>5, <1>6, <1>7
          DEF ServeDel, KeepTimers, device, TypeOK, WorldTypes, CallTypes, HistoryTypes

LEMMA PostOrFinishTypes ==
    ASSUME CallTypes, CallShapes, NEW c \in Calls, NEW blocked,
           PostOrFinish(c, blocked)
    PROVE  calls' \in [Calls -> Call] /\ CallShapes'
  <1>1. calls[c] \in Call /\ CallShape(calls[c])
    BY DEF CallTypes, CallShapes
  <1> DEFINE call == [calls[c] EXCEPT !.pc = "post", !.reply = "pending", !.list = {}]
  <1>2. call \in Call
    BY <1>1 DEF Call, Reply
  <1>3. CASE calls[c].op = "set" /\ calls[c].timer.on /\ ~blocked
    <2>1. CallShape(call)
      BY <1>1, <1>3 DEF CallShape, Call
    <2>2. Step(c, call)
      BY <1>3 DEF PostOrFinish
    <2> HIDE DEF call
    <2> QED BY <1>2, <2>1, <2>2, StepType, StepShape
  <1>4. CASE ~(calls[c].op = "set" /\ calls[c].timer.on /\ ~blocked)
    BY <1>4, FinishType DEF PostOrFinish
  <1> QED BY <1>3, <1>4

LEMMA AwaitTypes ==
    ASSUME CallTypes, CallShapes, NEW c \in Calls, NEW at \in {"get", "del"},
           Await(c, at)
    PROVE  calls' \in [Calls -> Call] /\ CallShapes'
  <1>1. calls[c] \in Call /\ CallShape(calls[c])
    BY DEF CallTypes, CallShapes
  <1> DEFINE call == [calls[c] EXCEPT !.pc = at, !.reply = "pending"]
  <1>2. call \in Call /\ CallShape(call)
    BY <1>1 DEF Call, Reply, CallShape
  <1> QED BY <1>2, StepType, StepShape DEF Await

LEMMA ClearFirstTypes ==
    ASSUME CallTypes, CallShapes, NEW c \in Calls, NEW orphans \in SUBSET Slots,
           ClearFirst(c, orphans)
    PROVE  calls' \in [Calls -> Call] /\ CallShapes'
  <1>1. CASE orphans = {}
    BY <1>1, FinishType DEF ClearFirst
  <1>2. CASE orphans # {}
    <2>1. PICK i \in orphans :
             Step(c, [Idle EXCEPT !.op = "resync", !.pc = "clr", !.slot = i,
                                  !.orphans = orphans \ {i},
                                  !.snap = calls[c].snap, !.list = calls[c].list])
      BY <1>2 DEF ClearFirst
    <2> DEFINE call == [Idle EXCEPT !.op = "resync", !.pc = "clr", !.slot = i,
                                    !.orphans = orphans \ {i},
                                    !.snap = calls[c].snap, !.list = calls[c].list]
    <2>2. call \in Call /\ CallShape(call)
      <3>1. calls[c] \in Call
        BY DEF CallTypes
      <3>2. i \in Slots /\ orphans \ {i} \in SUBSET Slots
        OBVIOUS
      <3>3. calls[c].snap \in [Slots -> Held] /\ calls[c].list \in SUBSET Entry
        BY <3>1 DEF Call
      <3> QED BY <3>2, <3>3, IdleType DEF Call, CallShape, Idle
    <2> QED BY <2>1, <2>2, StepType, StepShape
  <1> QED BY <1>1, <1>2

LEMMA ResumeTypes ==
    ASSUME TypeOK, NEW c \in Calls, Resume(c)
    PROVE  TypeOK'
  <1> USE DEF TypeOK
  <1>0. calls[c] \in Call
    BY DEF CallTypes
  <1>00. BreakerAfter(c) \in BOOLEAN
    BY DEF BreakerAfter, WorldTypes
  <1>1. CASE DpResume(c)
    <2>1. calls' \in [Calls -> Call] /\ CallShapes'
      BY <1>1, FinishType, AwaitTypes, PostOrFinishTypes DEF DpResume
    <2> QED BY <1>1, <2>1, KeepTimersTypes, KeepDeviceTypes
            DEF DpResume, KeepTimers, KeepWorld, CallTypes, HistoryTypes, WorldTypes
  <1>2. CASE GetResume(c)
    <2> DEFINE call == [calls[c] EXCEPT !.pc = "del", !.reply = "pending",
                                        !.list = CloudMatch(c)]
    <2>1. CloudMatch(c) \in SUBSET Entry
      BY <1>0 DEF CloudMatch, Call
    <2>2. call \in Call /\ CallShape(call)
      BY <1>0, <2>1 DEF Call, Reply, CallShapes, CallShape
    <2>3. calls' \in [Calls -> Call] /\ CallShapes'
      BY <1>2, <2>2, StepType, StepShape, PostOrFinishTypes DEF GetResume
    <2>4. breaker' \in BOOLEAN /\ clean' \in BOOLEAN
      BY <1>2, <1>00 DEF GetResume, HistoryTypes
    <2> QED BY <1>2, <2>3, <2>4, KeepTimersTypes
            DEF GetResume, KeepTimers, KeepWorld, device, CallTypes, HistoryTypes, WorldTypes
  <1>3. CASE DelResume(c)
    <2>1. calls' \in [Calls -> Call] /\ CallShapes'
      BY <1>3, AwaitTypes, PostOrFinishTypes DEF DelResume
    <2>2. breaker' \in BOOLEAN /\ clean' \in BOOLEAN
      BY <1>3 DEF DelResume, BreakerAfter, WorldTypes, HistoryTypes
    <2> QED BY <1>3, <2>1, <2>2, KeepTimersTypes
            DEF DelResume, KeepTimers, KeepWorld, device, CallTypes, HistoryTypes, WorldTypes
  <1>4. CASE PostResume(c)
    <2>1. calls' \in [Calls -> Call] /\ CallShapes'
      BY <1>4, FinishType DEF PostResume
    <2>2. breaker' \in BOOLEAN
      BY <1>4 DEF PostResume, BreakerAfter, WorldTypes
    <2> QED BY <1>4, <2>1, <2>2, KeepTimersTypes
            DEF PostResume, KeepTimers, KeepWorld, device, CallTypes, HistoryTypes, WorldTypes
  <1>5. CASE SweepResume(c)
    <2>1. calls' \in [Calls -> Call] /\ CallShapes'
      BY <1>5, FinishType DEF SweepResume
    <2>2. RegistryTypes'
      BY <1>5, <1>0, ApplyCloudTypes, KeepTimersTypes DEF SweepResume, Call
    <2>3. breaker' \in BOOLEAN
      BY <1>5, <1>00 DEF SweepResume
    <2> QED BY <1>5, <2>1, <2>2, <2>3
            DEF SweepResume, KeepWorld, device, CallTypes, HistoryTypes, WorldTypes
  <1>6. CASE ResyncResume(c)
    <2>1. Orphans(calls[c].snap, calls[c].list) \in SUBSET Slots
      BY OrphansType
    <2>2. calls' \in [Calls -> Call] /\ CallShapes'
      BY <1>6, <2>1, FinishType, ClearFirstTypes DEF ResyncResume
    <2>3. RegistryTypes'
      BY <1>6, <1>0, ApplyCloudTypes, KeepTimersTypes DEF ResyncResume, Call
    <2>4. breaker' \in BOOLEAN
      BY <1>6, <1>00 DEF ResyncResume
    <2> QED BY <1>6, <2>2, <2>3, <2>4
            DEF ResyncResume, KeepWorld, device, CallTypes, HistoryTypes, WorldTypes
  <1>7. CASE ClearResume(c)
    <2>1. calls[c].slot \in Slots /\ calls[c].orphans \in SUBSET Slots
      BY <1>0 DEF Call
    <2>2. calls' \in [Calls -> Call] /\ CallShapes'
      BY <1>7, <2>1, ClearFirstTypes DEF ClearResume
    <2>3. RegistryTypes'
      <3>1. CASE calls[c].reply = "ok"
        <4>1. stamp' \in {0, 1}
          BY <1>7, <3>1, SMT DEF ClearResume, Touch, RegistryTypes
        <4>2. slots' \in [Slots -> Held] /\ overlay' \in [Slots -> Labels]
          BY <1>7, <3>1, <2>1 DEF ClearResume, RegistryTypes, Held, Labels
        <4> QED BY <1>7, <3>1, <4>1, <4>2 DEF ClearResume, RegistryTypes
      <3>2. CASE calls[c].reply # "ok"
        BY <1>7, <3>2, KeepTimersTypes DEF ClearResume
      <3> QED BY <3>1, <3>2
    <2> QED BY <1>7, <2>2, <2>3, KeepDeviceTypes
            DEF ClearResume, KeepWorld, CallTypes, HistoryTypes, WorldTypes
  <1> QED BY <1>1, <1>2, <1>3, <1>4, <1>5, <1>6, <1>7 DEF Resume

LEMMA KeepCallTypes ==
    ASSUME CallTypes, CallShapes, UNCHANGED calls
    PROVE  calls' \in [Calls -> Call] /\ CallShapes'
  BY DEF CallTypes, CallShapes

LEMMA SnapshotType ==
    ASSUME RegistryTypes
    PROVE  Snapshot \in Saved
  BY DEF RegistryTypes, Snapshot, Saved

LEMMA UnreadIsFrame ==
    ASSUME RegistryTypes, Unread
    PROVE  dp \in Frame /\ dp.index \in Slots
  BY DEF RegistryTypes, Unread, Frame

LEMMA WireTypes ==
    ASSUME wire \in Seq(Frame), wire # <<>>
    PROVE  /\ Head(wire) \in Frame /\ Tail(wire) \in Seq(Frame)
           /\ Head(wire).index \in Slots
  <1>1. Head(wire) \in Frame /\ Tail(wire) \in Seq(Frame)
    OBVIOUS
  <1> QED BY <1>1 DEF Frame

LEMMA ArriveTypes ==
    ASSUME TypeOK, Arrive PROVE TypeOK'
  <1> USE DEF TypeOK
  <1>1. Head(wire) \in Frame /\ Tail(wire) \in Seq(Frame) /\ Head(wire).index \in Slots
    BY WireTypes DEF Arrive, WorldTypes
  <1>2. blind' \in SUBSET Slots
    BY <1>1, UnreadIsFrame DEF Arrive, HistoryTypes
  <1>3. dp' \in Frame /\ dp' # None
    BY <1>1, NoneAssumption DEF Arrive
  <1> QED BY <1>1, <1>2, <1>3, KeepCallTypes
          DEF Arrive, timerState, WorldTypes, RegistryTypes, CallTypes, HistoryTypes

LEMMA LoseTypes ==
    ASSUME TypeOK, Lose PROVE TypeOK'
  <1> USE DEF TypeOK
  <1>1. Tail(wire) \in Seq(Frame) /\ Head(wire).index \in Slots
    BY WireTypes DEF Lose, WorldTypes
  <1>2. budget' \in Budget
    BY SpendType DEF Lose
  <1>3. blind' \in SUBSET Slots
    BY <1>1 DEF Lose, HistoryTypes
  <1> QED BY <1>1, <1>2, <1>3, KeepCallTypes, KeepTimersTypes
          DEF Lose, WorldTypes, CallTypes, HistoryTypes

LEMMA ReadTypes ==
    ASSUME TypeOK, Read PROVE TypeOK'
  <1> USE DEF TypeOK
  <1>1. dp \in Frame /\ dp.index \in Slots
    BY UnreadIsFrame DEF Read
  <1>2. /\ slots' \in [Slots -> Held] /\ overlay' \in [Slots -> Labels]
        /\ cloudOnly' \in SUBSET Keys /\ stamp' \in {0, 1}
        /\ last' \in Frame \cup {None} /\ restored' \in BOOLEAN
    BY <1>1, ApplyReportTypes DEF Read, RegistryTypes
  <1>3. blind' \in SUBSET Slots
    BY <1>1 DEF Read, Duplicates, HistoryTypes
  <1>4. dp' # None
    BY <1>1, NoneAssumption DEF Read
  <1>5. RegistryTypes'
    BY <1>2, <1>4 DEF Read, RegistryTypes
  <1> QED BY <1>3, <1>5, KeepCallTypes, KeepDeviceTypes
          DEF Read, CallTypes, HistoryTypes

LEMMA DumpTypes ==
    ASSUME TypeOK, Dump PROVE TypeOK'
  BY SnapshotType, KeepCallTypes, KeepDeviceTypes
     DEF Dump, timerState, TypeOK, RegistryTypes, CallTypes, HistoryTypes

LEMMA StopTypes ==
    ASSUME TypeOK, NEW graceful \in BOOLEAN, Stop(graceful) PROVE TypeOK'
  <1> USE DEF TypeOK
  <1>1. budget' \in Budget
    BY SpendType DEF Stop
  <1>2. saved' \in Saved \cup {None}
    BY SnapshotType DEF Stop, RegistryTypes
  <1>3. {wire[k].index : k \in DOMAIN wire} \in SUBSET Slots
    <2>1. ASSUME NEW k \in DOMAIN wire PROVE wire[k].index \in Slots
      <3>1. wire[k] \in Frame
        BY DEF WorldTypes
      <3> QED BY <3>1 DEF Frame
    <2> QED BY <2>1
  <1>4. blind' \in SUBSET Slots
    <2>1. {i \in Slots : SavedSlots(IF graceful THEN Snapshot ELSE saved)[i] # slots[i]}
             \in SUBSET Slots
      OBVIOUS
    <2>2. (IF Unread THEN {dp.index} ELSE {}) \in SUBSET Slots
      BY UnreadIsFrame
    <2> QED BY <1>3, <2>1, <2>2 DEF Stop, HistoryTypes
  <1>5. slots' \in [Slots -> Held] /\ overlay' \in [Slots -> Labels] /\ stamp' \in {0, 1}
    <2>1. NoLabels \in [Slots -> Labels] /\ NoSlots \in [Slots -> Held]
      BY IdleType DEF NoLabels, Labels
    <2> QED BY <2>1 DEF Stop
  <1>6. RegistryTypes'
    BY <1>2, <1>5 DEF Stop, RegistryTypes
  <1>7. calls' \in [Calls -> Call] /\ CallShapes'
    BY IdleType DEF Stop, CallShapes, CallShape, Idle
  <1>8. WorldTypes'
    <2>1. wire' \in Seq(Frame)
      BY DEF Stop
    <2> QED BY <2>1 DEF Stop, WorldTypes
  <1>9. HistoryTypes'
    BY <1>4 DEF Stop, HistoryTypes
  <1> QED BY <1>1, <1>6, <1>7, <1>8, <1>9 DEF CallTypes

LEMMA LoadTypes ==
    ASSUME TypeOK, Load PROVE TypeOK'
  <1> USE DEF TypeOK
  <1> DEFINE fresh == saved = None
             s == IF fresh THEN [slots |-> NoSlots, overlay |-> NoLabels,
                                 cloudOnly |-> {}, stamp |-> 0] ELSE saved
  <1>1. s \in Saved
    <2>1. NoLabels \in [Slots -> Labels] /\ NoSlots \in [Slots -> Held]
      BY IdleType DEF NoLabels, Labels
    <2> QED BY <2>1 DEF Saved, RegistryTypes
  <1>2. /\ s.slots \in [Slots -> Held] /\ s.overlay \in [Slots -> Labels]
        /\ s.cloudOnly \in SUBSET Keys /\ s.stamp \in {0, 1}
    BY <1>1 DEF Saved
  <1>3. CASE window = None
    BY <1>2, <1>3, KeepCallTypes
       DEF Load, WorldTypes, RegistryTypes, CallTypes, HistoryTypes
  <1>4. CASE window # None
    <2>1. window \in Frame /\ window.index \in Slots
      BY <1>4 DEF WorldTypes, Frame
    <2>2. ApplyReport(s.slots, s.overlay, s.cloudOnly, s.stamp, ~fresh, window)
      BY <1>4 DEF Load
    <2>3. /\ slots' \in [Slots -> Held] /\ overlay' \in [Slots -> Labels]
          /\ cloudOnly' \in SUBSET Keys /\ stamp' \in {0, 1}
          /\ last' \in Frame \cup {None} /\ restored' \in BOOLEAN
      <3>1. (~fresh) \in BOOLEAN
        BY Zenon
      <3> HIDE DEF s, fresh
      <3> QED BY <1>2, <2>1, <2>2, <3>1, ApplyReportTypes
    <2>4. blind' \in SUBSET Slots
      BY <1>4, <2>1 DEF Load, Duplicates, HistoryTypes
    <2>5. RegistryTypes'
      BY <1>4, <2>1, <2>3 DEF Load, RegistryTypes
    <2> QED BY <2>4, <2>5, KeepCallTypes DEF Load, WorldTypes, CallTypes, HistoryTypes
  <1> QED BY <1>3, <1>4

LEMMA RegistryStepTypes ==
    ASSUME TypeOK, Registry PROVE TypeOK'
  BY ArriveTypes, LoseTypes, ReadTypes, DumpTypes, StopTypes, LoadTypes DEF Registry

LEMMA BreakerClosesTypes ==
    ASSUME TypeOK, BreakerCloses PROVE TypeOK'
  BY KeepCallTypes, KeepTimersTypes
     DEF BreakerCloses, device, TypeOK, WorldTypes, CallTypes, HistoryTypes

LEMMA AppTypes ==
    ASSUME TypeOK, App PROVE TypeOK'
  <1> USE DEF TypeOK
  <1>1. UNCHANGED calls /\ UNCHANGED ha /\ UNCHANGED <<hub, breaker>> /\ Spend("trouble")
    BY DEF App, AppSet, AppDelete, AppDisable, MayEdit
  <1>2. calls' \in [Calls -> Call] /\ CallShapes' /\ RegistryTypes' /\ budget' \in Budget
    BY <1>1, KeepCallTypes, KeepTimersTypes, SpendType
  <1>3. ASSUME NEW i \in Slots, NEW k \in Keys, NEW aliased \in BOOLEAN, AppSet(i, k, aliased)
        PROVE  TypeOK'
    <2> DEFINE f == [index |-> i, timer |-> [key |-> k, on |-> TRUE]]
    <2>1. f \in Frame
      BY DEF Frame, Held, Timer
    <2>2. /\ dev' \in [Slots -> Held] /\ window' \in Frame \cup {None}
          /\ wire' \in Seq(Frame)
          /\ blind' \in SUBSET Slots /\ rolledBack' \in SUBSET Slots
      <3> DeviceTakes(f)
        BY <1>3 DEF AppSet
      <3> HIDE DEF f
      <3> QED BY <2>1, DeviceTakesTypes
    <2>3. cloud' \in [Gids -> Entry \cup {None}]
      <3>1. PICK g \in FreshGids :
              cloud' = [cloud EXCEPT ![g] = [gid |-> g, key |-> k, on |-> TRUE,
                                             alias |-> IF aliased THEN i ELSE None]]
        BY <1>3 DEF AppSet
      <3>2. [gid |-> g, key |-> k, on |-> TRUE,
             alias |-> IF aliased THEN i ELSE None] \in Entry
        BY DEF Entry, FreshGids
      <3> QED BY <3>1, <3>2 DEF WorldTypes
    <2>4. clean' \in BOOLEAN
      BY <1>3 DEF AppSet, HistoryTypes
    <2> QED BY <1>1, <1>2, <2>2, <2>3, <2>4 DEF WorldTypes, CallTypes, HistoryTypes
  <1>4. ASSUME NEW g \in Gids, NEW i \in Slots, NEW reached \in BOOLEAN, AppDelete(g, i, reached)
        PROVE  TypeOK'
    <2> DEFINE f == [index |-> i, timer |-> None]
    <2>1. f \in Frame
      BY DEF Frame, Held
    <2>2. /\ dev' \in [Slots -> Held] /\ window' \in Frame \cup {None}
          /\ wire' \in Seq(Frame)
          /\ blind' \in SUBSET Slots /\ rolledBack' \in SUBSET Slots
      <3>1. CASE reached
        <4> DeviceTakes(f)
          BY <1>4, <3>1 DEF AppDelete
        <4> HIDE DEF f
        <4> QED BY <2>1, DeviceTakesTypes
      <3>2. CASE ~reached
        BY <1>4, <3>2 DEF AppDelete, device, WorldTypes, HistoryTypes
      <3> QED BY <3>1, <3>2
    <2>3. cloud' \in [Gids -> Entry \cup {None}] /\ clean' \in BOOLEAN
      BY <1>4 DEF AppDelete, WorldTypes, HistoryTypes
    <2> QED BY <1>1, <1>2, <2>2, <2>3 DEF WorldTypes, CallTypes, HistoryTypes
  <1>5. ASSUME NEW g \in Gids, AppDisable(g)
        PROVE  TypeOK'
    <2>1. cloud[g] \in Entry
      BY <1>5 DEF AppDisable, WorldTypes
    <2>2. [cloud[g] EXCEPT !.on = FALSE] \in Entry
      BY <2>1 DEF Entry
    <2>3. cloud' \in [Gids -> Entry \cup {None}]
      BY <1>5, <2>2 DEF AppDisable, WorldTypes
    <2> QED BY <1>5, <1>1, <1>2, <2>3
            DEF AppDisable, device, WorldTypes, CallTypes, HistoryTypes
  <1> QED BY <1>3, <1>4, <1>5 DEF App

LEMMA ServeTypes ==
    ASSUME TypeOK, NEW c \in Calls, Serve(c) PROVE TypeOK'
  <1>1. Entries \in SUBSET Entry /\ {} \in SUBSET Entry
    BY EntriesType DEF TypeOK, WorldTypes
  <1>2. {"ok", "failed", "quota"} \subseteq Reply
    BY DEF Reply
  <1> QED BY <1>1, <1>2, ServeDpTypes, ServeGetTypes, ServePostTypes, ServeDelTypes
          DEF Serve

LEMMA NextTypes ==
    ASSUME TypeOK, [Next]_vars PROVE TypeOK'
  <1>1. ASSUME NEW c \in Calls, Start(c) \/ Serve(c) \/ Resume(c) PROVE TypeOK'
    BY <1>1, StartTypes, ServeTypes, ResumeTypes
  <1>2. CASE Registry
    BY <1>2, RegistryStepTypes
  <1>3. CASE BreakerCloses
    BY <1>3, BreakerClosesTypes
  <1>4. CASE App
    BY <1>4, AppTypes
  <1>5. CASE UNCHANGED vars
    BY <1>5, KeepTimersTypes, KeepDeviceTypes, KeepCallTypes
       DEF vars, TypeOK, CallTypes, HistoryTypes
  <1> QED BY <1>1, <1>2, <1>3, <1>4, <1>5 DEF Next

(* Type correctness: every variable keeps its type, for any number of      *)
(* slots, keys, group ids and calls in flight.                             *)
THEOREM TypeCorrect == Spec => []TypeOK
  <1>1. TypeOK /\ [Next]_vars => TypeOK'
    BY NextTypes
  <1> QED BY <1>1, InitTypes, PTL DEF Spec

-----------------------------------------------------------------------------
(* The slots and their labels                                              *)

(* A restore brings back what was dumped, so what the dump holds has to be *)
(* consistent as well: without it the two facts are not inductive.         *)
Fits(held, labels) == DistinctKeys(held) /\ LabelsFit(held, labels)

Consistent ==
    /\ Fits(slots, overlay)
    /\ saved # None => Fits(saved.slots, saved.overlay)

LEMMA EmptyFits == Fits(NoSlots, NoLabels)
  BY DEF Fits, DistinctKeys, LabelsFit, NoSlots, NoLabels

LEMMA ApplyReportFits ==
    ASSUME NEW sl \in [Slots -> Held], NEW ov \in [Slots -> Labels], NEW only,
           NEW st, NEW rest \in BOOLEAN, NEW f \in Frame, Fits(sl, ov),
           ApplyReport(sl, ov, only, st, rest, f)
    PROVE  Fits(slots, overlay)'
  BY AfterReportDistinct, AfterReportFits DEF Fits, ApplyReport

LEMMA ApplyCloudFits ==
    ASSUME RegistryTypes, Consistent, NEW list, ApplyCloud(list)
    PROVE  Consistent'
  <1>1. CASE Trusted(slots, list)
    BY <1>1, FromCloudFits DEF ApplyCloud, Consistent, Fits, RegistryTypes
  <1>2. CASE ~Trusted(slots, list)
    BY <1>2 DEF ApplyCloud, Consistent, ha, timerState
  <1> QED BY <1>1, <1>2

LEMMA KeepConsistent ==
    ASSUME Consistent, UNCHANGED <<slots, overlay, saved>> PROVE Consistent'
  BY DEF Consistent

(* clear empties one slot and drops its label.                             *)
LEMMA ClearedFits ==
    ASSUME NEW sl \in [Slots -> Held], NEW ov \in [Slots -> Labels],
           NEW i \in Slots, Fits(sl, ov)
    PROVE  Fits([sl EXCEPT ![i] = None], [ov EXCEPT ![i] = "none"])
  BY DEF Fits, DistinctKeys, LabelsFit

LEMMA ClearResumeConsistent ==
    ASSUME TypeOK, Consistent, NEW c \in Calls, ClearResume(c)
    PROVE  Consistent'
  <1>1. calls[c].slot \in Slots
    BY DEF TypeOK, CallTypes, Call
  <1>2. CASE calls[c].reply = "ok"
    <2>1. /\ slots' = [slots EXCEPT ![calls[c].slot] = None]
          /\ overlay' = [overlay EXCEPT ![calls[c].slot] = "none"]
          /\ saved' = saved
      BY <1>2 DEF ClearResume
    <2>2. slots \in [Slots -> Held] /\ overlay \in [Slots -> Labels]
      BY DEF TypeOK, RegistryTypes
    <2>3. Fits(slots, overlay)
      BY DEF Consistent
    <2>4. Fits(slots', overlay')
      BY <1>1, <2>1, <2>2, <2>3, ClearedFits
    <2> QED BY <2>1, <2>4 DEF Consistent, Fits, DistinctKeys, LabelsFit
  <1>3. CASE calls[c].reply # "ok"
    BY <1>3, KeepConsistent DEF ClearResume, ha, timerState
  <1> QED BY <1>2, <1>3

LEMMA CallStepConsistent ==
    ASSUME TypeOK, Consistent, NEW c \in Calls, Start(c) \/ Serve(c) \/ Resume(c)
    PROVE  Consistent'
  <1>1. CASE Start(c) \/ Serve(c)
    BY <1>1, KeepConsistent
       DEF Start, SetTimer, DeleteTimer, Resync, Sweep, Serve, ServeDp, ServeGet,
           ServePost, ServeDel, KeepTimers, ha, timerState
  <1>2. CASE DpResume(c) \/ GetResume(c) \/ DelResume(c) \/ PostResume(c)
    BY <1>2, KeepConsistent
       DEF DpResume, GetResume, DelResume, PostResume, KeepTimers, ha, timerState
  <1>3. CASE SweepResume(c) \/ ResyncResume(c)
    BY <1>3, KeepConsistent, ApplyCloudFits
       DEF SweepResume, ResyncResume, ha, timerState, TypeOK
  <1>4. CASE ClearResume(c)
    BY <1>4, ClearResumeConsistent
  <1> QED BY <1>1, <1>2, <1>3, <1>4 DEF Resume

LEMMA LoadConsistent ==
    ASSUME TypeOK, Consistent, Load PROVE Consistent'
  <1> DEFINE fresh == saved = None
             s == IF fresh THEN [slots |-> NoSlots, overlay |-> NoLabels,
                                 cloudOnly |-> {}, stamp |-> 0] ELSE saved
  <1>1. Fits(s.slots, s.overlay)
    BY EmptyFits DEF Consistent
  <1>2. s.slots \in [Slots -> Held] /\ s.overlay \in [Slots -> Labels]
    <2>1. NoLabels \in [Slots -> Labels] /\ NoSlots \in [Slots -> Held]
      BY IdleType DEF NoLabels, Labels
    <2> QED BY <2>1 DEF Saved, TypeOK, RegistryTypes
  <1>3. UNCHANGED saved
    BY DEF Load
  <1>4. Fits(slots, overlay)'
    <2>1. CASE window = None
      BY <1>1, <2>1 DEF Load
    <2>2. CASE window # None
      <3>1. window \in Frame
        BY <2>2 DEF TypeOK, WorldTypes
      <3>2. ApplyReport(s.slots, s.overlay, s.cloudOnly, s.stamp, ~fresh, window)
        BY <2>2 DEF Load
      <3>3. (~fresh) \in BOOLEAN
        BY Zenon
      <3> HIDE DEF s, fresh
      <3> QED BY <1>1, <1>2, <3>1, <3>2, <3>3, ApplyReportFits
    <2> QED BY <2>1, <2>2
  <1> QED BY <1>3, <1>4 DEF Consistent

LEMMA RegistryStepConsistent ==
    ASSUME TypeOK, Consistent, Registry PROVE Consistent'
  <1>1. CASE Arrive \/ Lose
    BY <1>1, KeepConsistent DEF Arrive, Lose, ha, timerState
  <1>2. CASE Read
    <2>1. dp \in Frame
      BY <1>2, UnreadIsFrame DEF Read, TypeOK
    <2>2. Fits(slots, overlay)'
      BY <1>2, <2>1, ApplyReportFits DEF Read, Consistent, TypeOK, RegistryTypes
    <2> QED BY <1>2, <2>2 DEF Read, Consistent
  <1>3. CASE Dump
    BY <1>3 DEF Dump, Snapshot, Consistent, timerState
  <1>4. ASSUME NEW graceful \in BOOLEAN, Stop(graceful) PROVE Consistent'
    <2>1. Fits(slots, overlay)'
      BY <1>4, EmptyFits DEF Stop
    <2>2. CASE graceful
      <3>1. saved' = Snapshot
        BY <1>4, <2>2 DEF Stop
      <3>2. Snapshot.slots = slots /\ Snapshot.overlay = overlay
        BY DEF Snapshot
      <3> QED BY <2>1, <3>1, <3>2 DEF Consistent
    <2>3. CASE ~graceful
      BY <1>4, <2>1, <2>3 DEF Stop, Consistent
    <2> QED BY <2>2, <2>3
  <1>5. CASE Load
    BY <1>5, LoadConsistent
  <1> QED BY <1>1, <1>2, <1>3, <1>4, <1>5 DEF Registry

LEMMA NextConsistent ==
    ASSUME TypeOK, Consistent, [Next]_vars PROVE Consistent'
  <1>1. CASE BreakerCloses \/ App \/ UNCHANGED vars
    BY <1>1, KeepConsistent
       DEF BreakerCloses, App, AppSet, AppDelete, AppDisable, vars, ha, timerState
  <1> QED BY <1>1, CallStepConsistent, RegistryStepConsistent DEF Next

LEMMA AlwaysConsistent == Spec => []Consistent
  <1>1. Init => Consistent
    BY EmptyFits DEF Init, Consistent
  <1>2. TypeOK /\ Consistent /\ [Next]_vars => Consistent'
    BY NextConsistent
  <1> QED BY <1>1, <1>2, TypeCorrect, PTL DEF Spec

(* No two slots of Home Assistant ever hold the same time and days.        *)
THEOREM SlotsDistinct == Spec => []NoDuplicateKeys
  <1>1. Consistent => NoDuplicateKeys
    BY DEF Consistent, Fits, NoDuplicateKeys
  <1> QED BY <1>1, AlwaysConsistent, PTL

(* No cloud label outlives its slot, and only enabled slots are "missing". *)
THEOREM LabelsHeld == Spec => []LabelsOnHeldSlots
  <1>1. Consistent => LabelsOnHeldSlots
    BY DEF Consistent, Fits, LabelsOnHeldSlots
  <1> QED BY <1>1, AlwaysConsistent, PTL

-----------------------------------------------------------------------------
(* The planned runs and their stamp                                        *)

PlanChanged == Planned(slots, overlay, cloudOnly)' # Planned(slots, overlay, cloudOnly)

LEMMA KeepPlan ==
    ASSUME UNCHANGED <<slots, overlay, cloudOnly>> PROVE ~PlanChanged
  BY DEF PlanChanged

LEMMA FlipMoves == ASSUME NEW st \in {0, 1} PROVE 1 - st # st
  BY SMT

LEMMA ApplyCloudStamps ==
    ASSUME RegistryTypes, NEW list, ApplyCloud(list), PlanChanged
    PROVE  stamp' # stamp
  <1>1. CASE Trusted(slots, list)
    <2>1. stamp' = 1 - stamp
      BY <1>1 DEF ApplyCloud, Touch, PlanChanged
    <2> QED BY <2>1, FlipMoves DEF RegistryTypes
  <1>2. CASE ~Trusted(slots, list)
    BY <1>2, KeepPlan DEF ApplyCloud, ha, timerState
  <1> QED BY <1>1, <1>2

LEMMA ReadStamps ==
    ASSUME RegistryTypes, Read, PlanChanged PROVE stamp' # stamp
  <1>1. stamp' = 1 - stamp
    BY DEF Read, ApplyReport, PlanChanged
  <1> QED BY <1>1, FlipMoves DEF RegistryTypes

(* Clearing a slot that is already empty plans nothing else.               *)
LEMMA ClearStamps ==
    ASSUME TypeOK, NEW c \in Calls, ClearResume(c), PlanChanged
    PROVE  stamp' # stamp
  <1> DEFINE i == calls[c].slot
  <1>1. i \in Slots /\ slots \in [Slots -> Held] /\ overlay \in [Slots -> Labels]
    BY DEF TypeOK, CallTypes, Call, RegistryTypes
  <1>2. calls[c].reply = "ok"
    BY KeepPlan DEF ClearResume, ha, timerState
  <1>3. /\ slots' = [slots EXCEPT ![i] = None]
        /\ overlay' = [overlay EXCEPT ![i] = "none"]
        /\ cloudOnly' = cloudOnly
        /\ Touch(slots[i] # None)
    BY <1>2 DEF ClearResume
  <1>4. slots[i] # None
    <2> SUFFICES ASSUME slots[i] = None PROVE FALSE
      OBVIOUS
    <2>1. slots' = slots
      BY <1>1, <1>3
    <2>2. ASSUME NEW j \in ActiveSlots(slots) PROVE overlay'[j] = overlay[j]
      BY <1>1, <1>3 DEF ActiveSlots, Enabled
    <2>3. Planned(slots, overlay', cloudOnly) = Planned(slots, overlay, cloudOnly)
      BY <2>2 DEF Planned
    <2> QED BY <1>3, <2>1, <2>3 DEF PlanChanged
  <1>5. stamp' = 1 - stamp
    BY <1>3, <1>4 DEF Touch
  <1> QED BY <1>5, FlipMoves DEF TypeOK, RegistryTypes

LEMMA NextStamps ==
    ASSUME TypeOK, [Next]_vars, live, live', PlanChanged
    PROVE  stamp' # stamp
  <1>1. ASSUME NEW c \in Calls, Start(c) \/ Serve(c) PROVE FALSE
    BY <1>1, KeepPlan
       DEF Start, SetTimer, DeleteTimer, Resync, Sweep, Serve, ServeDp, ServeGet,
           ServePost, ServeDel, KeepTimers, ha, timerState
  <1>2. ASSUME NEW c \in Calls, DpResume(c) \/ GetResume(c) \/ DelResume(c) \/ PostResume(c)
        PROVE  FALSE
    BY <1>2, KeepPlan
       DEF DpResume, GetResume, DelResume, PostResume, KeepTimers, ha, timerState
  <1>3. ASSUME NEW c \in Calls, SweepResume(c) \/ ResyncResume(c)
        PROVE  stamp' # stamp
    BY <1>3, KeepPlan, ApplyCloudStamps
       DEF SweepResume, ResyncResume, ha, timerState, TypeOK
  <1>4. ASSUME NEW c \in Calls, ClearResume(c) PROVE stamp' # stamp
    BY <1>4, ClearStamps
  <1>5. CASE Registry
    <2>1. ~(Arrive \/ Lose \/ Dump)
      BY KeepPlan DEF Arrive, Lose, Dump, ha, timerState
    <2>2. ~Load /\ \A graceful \in BOOLEAN : ~Stop(graceful)
      BY DEF Load, Stop
    <2>3. Read
      BY <1>5, <2>1, <2>2 DEF Registry
    <2> QED BY <2>3, ReadStamps DEF TypeOK
  <1>6. ~(BreakerCloses \/ App \/ UNCHANGED vars)
    BY KeepPlan
       DEF BreakerCloses, App, AppSet, AppDelete, AppDisable, vars, ha, timerState
  <1> QED BY <1>1, <1>2, <1>3, <1>4, <1>5, <1>6 DEF Next, Resume

(* changed_at moves with every change of the planned runs, for any number  *)
(* of slots and of calls in flight.                                        *)
THEOREM PlansStamped == Spec => PlanStamped
  <1>1. TypeOK /\ [Next]_vars =>
          [(live /\ live' /\ PlanChanged) => stamp' # stamp]_vars
    BY NextStamps
  <1> QED BY <1>1, TypeCorrect, PTL DEF Spec, PlanStamped, PlanChanged

-----------------------------------------------------------------------------
(* The lockout                                                             *)

LEMMA StepIssues ==
    ASSUME CallTypes, NEW c \in Calls, NEW d \in Calls, NEW call, Step(c, call),
           Issued(d)
    PROVE  d = c /\ call.pc \in {"post", "del"} /\ call.reply = "pending"
  BY DEF CallTypes, Step, Issued

LEMMA FinishIssuesNothing ==
    ASSUME CallTypes, NEW c \in Calls, NEW d \in Calls, Finish(c)
    PROVE  ~Issued(d)
  BY StepIssues DEF Finish, Idle

LEMMA PostOrFinishIssues ==
    ASSUME CallTypes, NEW c \in Calls, NEW d \in Calls, NEW blocked,
           PostOrFinish(c, blocked), Issued(d)
    PROVE  ~blocked
  BY FinishIssuesNothing DEF PostOrFinish

LEMMA ClearFirstIssuesNothing ==
    ASSUME CallTypes, NEW c \in Calls, NEW d \in Calls, NEW orphans,
           ClearFirst(c, orphans)
    PROVE  ~Issued(d)
  <1>1. CASE orphans = {}
    BY <1>1, FinishIssuesNothing DEF ClearFirst
  <1>2. CASE orphans # {}
    <2>1. PICK i \in orphans :
             Step(c, [Idle EXCEPT !.op = "resync", !.pc = "clr", !.slot = i,
                                  !.orphans = orphans \ {i},
                                  !.snap = calls[c].snap, !.list = calls[c].list])
      BY <1>2 DEF ClearFirst
    <2> DEFINE call == [Idle EXCEPT !.op = "resync", !.pc = "clr", !.slot = i,
                                    !.orphans = orphans \ {i},
                                    !.snap = calls[c].snap, !.list = calls[c].list]
    <2>2. call.pc = "clr"
      BY DEF Idle
    <2> HIDE DEF call
    <2>3. Step(c, call)
      BY <2>1 DEF call
    <2> QED BY <2>2, <2>3, StepIssues
  <1> QED BY <1>1, <1>2

LEMMA StartIssuesNothing ==
    ASSUME CallTypes, NEW c \in Calls, NEW d \in Calls, Start(c)
    PROVE  ~Issued(d)
  <1>1. ASSUME NEW i \in Slots, NEW t \in Timer, SetTimer(c, i, t) PROVE ~Issued(d)
    <2> DEFINE call == [Idle EXCEPT !.op = "set", !.pc = "dp", !.slot = i, !.timer = t,
                                    !.prior = IF live THEN slots[i] ELSE None]
    <2>1. Step(c, call) /\ call.pc = "dp"
      BY <1>1 DEF SetTimer, Idle
    <2> HIDE DEF call
    <2> QED BY <2>1, StepIssues
  <1>2. ASSUME NEW i \in Slots, DeleteTimer(c, i) PROVE ~Issued(d)
    <2> DEFINE call == [Idle EXCEPT !.op = "delete", !.pc = "dp", !.slot = i,
                                    !.prior = IF live THEN slots[i] ELSE None]
    <2>1. Step(c, call) /\ call.pc = "dp"
      BY <1>2 DEF DeleteTimer, Idle
    <2> HIDE DEF call
    <2> QED BY <2>1, StepIssues
  <1>3. ASSUME Resync(c) PROVE ~Issued(d)
    <2> DEFINE call == [Idle EXCEPT !.op = "resync", !.pc = "get", !.snap = slots]
    <2>1. Step(c, call) /\ call.pc = "get"
      BY <1>3 DEF Resync, Idle
    <2> HIDE DEF call
    <2> QED BY <2>1, StepIssues
  <1>4. ASSUME Sweep(c) PROVE ~Issued(d)
    <2> DEFINE call == [Idle EXCEPT !.op = "sweep", !.pc = "get"]
    <2>1. Step(c, call) /\ call.pc = "get"
      BY <1>4 DEF Sweep, Idle
    <2> HIDE DEF call
    <2> QED BY <2>1, StepIssues
  <1> QED BY <1>1, <1>2, <1>3, <1>4 DEF Start

LEMMA ServeIssuesNothing ==
    ASSUME CallTypes, NEW c \in Calls, NEW d \in Calls, Serve(c)
    PROVE  ~Issued(d)
  <1>0. calls[c] \in Call
    BY DEF CallTypes
  <1>1. PICK call : Step(c, call) /\ call.reply # "pending"
    <2>1. CASE \E reply \in {"ok", "failed", "quota"} : Replied(c, reply)
      <3>1. PICK reply \in {"ok", "failed", "quota"} : Replied(c, reply)
        BY <2>1
      <3>2. [calls[c] EXCEPT !.reply = reply].reply = reply
        BY <1>0 DEF Call
      <3> QED BY <3>1, <3>2 DEF Replied
    <2>2. CASE \E reply \in {"ok", "failed", "quota"} : \E list : ServeGet(c, reply, list)
      <3>0. PICK reply \in {"ok", "failed", "quota"} : \E list : ServeGet(c, reply, list)
        BY <2>2
      <3>1. PICK list : ServeGet(c, reply, list)
        BY <3>0
      <3>2. [calls[c] EXCEPT !.reply = reply, !.list = list].reply = reply
        BY <1>0 DEF Call
      <3> QED BY <3>1, <3>2 DEF ServeGet
    <2>3. CASE \E reply \in {"ok", "failed", "quota"} :
                   \E taken : ServeDel(c, reply, taken)
      <3>0. PICK reply \in {"ok", "failed", "quota"} : \E taken : ServeDel(c, reply, taken)
        BY <2>3
      <3>1. PICK taken : ServeDel(c, reply, taken)
        BY <3>0
      <3>2. PICK e \in calls[c].list :
               Step(c, [calls[c] EXCEPT !.reply = reply, !.list = @ \ {e}])
        BY <3>1 DEF ServeDel
      <3>3. [calls[c] EXCEPT !.reply = reply, !.list = @ \ {e}].reply = reply
        BY <1>0 DEF Call
      <3> QED BY <3>2, <3>3
    <2> QED BY <2>1, <2>2, <2>3 DEF Serve, ServeDp, ServePost
  <1> QED BY <1>1, StepIssues

LEMMA ResumeIssues ==
    ASSUME CallTypes, NEW c \in Calls, NEW d \in Calls, Resume(c), Issued(d)
    PROVE  ~breaker'
  <1>0. calls[c] \in Call
    BY DEF CallTypes
  <1>1. CASE DpResume(c)
    <2>1. ASSUME Await(c, "get") PROVE FALSE
      <3>1. [calls[c] EXCEPT !.pc = "get", !.reply = "pending"].pc = "get"
        BY <1>0 DEF Call
      <3> QED BY <2>1, <3>1, StepIssues DEF Await
    <2> QED BY <1>1, <2>1, FinishIssuesNothing, PostOrFinishIssues DEF DpResume
  <1>2. CASE GetResume(c)
    <2>1. breaker' = BreakerAfter(c)
      BY <1>2 DEF GetResume
    <2>2. CASE PostOrFinish(c, BreakerAfter(c))
      BY <2>1, <2>2, PostOrFinishIssues
    <2>3. CASE calls[c].reply = "ok" /\ ~breaker
      BY <2>1, <2>3 DEF BreakerAfter
    <2> QED BY <1>2, <2>2, <2>3 DEF GetResume
  <1>3. CASE DelResume(c)
    BY <1>3, PostOrFinishIssues DEF DelResume
  <1>4. CASE PostResume(c) \/ SweepResume(c)
    BY <1>4, FinishIssuesNothing DEF PostResume, SweepResume
  <1>5. CASE ResyncResume(c) \/ ClearResume(c)
    BY <1>5, FinishIssuesNothing, ClearFirstIssuesNothing DEF ResyncResume, ClearResume
  <1> QED BY <1>1, <1>2, <1>3, <1>4, <1>5 DEF Resume

LEMMA NextIssues ==
    ASSUME CallTypes, [Next]_vars, NEW d \in Calls, Issued(d)
    PROVE  ~breaker'
  <1>1. ASSUME UNCHANGED calls PROVE FALSE
    BY <1>1 DEF Issued
  <1>2. ~(BreakerCloses \/ App \/ UNCHANGED vars)
    BY <1>1 DEF BreakerCloses, App, AppSet, AppDelete, AppDisable, vars
  <1>3. ASSUME Registry PROVE ~breaker'
    <2>1. ASSUME Arrive \/ Lose \/ Read \/ Dump \/ Load PROVE FALSE
      BY <2>1, <1>1 DEF Arrive, Lose, Read, Dump, Load
    <2> QED BY <1>3, <2>1 DEF Registry, Stop
  <1> QED BY <1>2, <1>3, StartIssuesNothing, ServeIssuesNothing, ResumeIssues DEF Next

(* No timer service issues a write to the cloud while the breaker is open, *)
(* however many calls of however many slots are in flight.                 *)
THEOREM LockoutHonoured == Spec => NoWriteDuringLockout
  <1>1. TypeOK /\ [Next]_vars => [WritesUnlocked]_vars
    BY NextIssues DEF TypeOK, WritesUnlocked
  <1> QED BY <1>1, TypeCorrect, PTL DEF Spec, NoWriteDuringLockout

-----------------------------------------------------------------------------
(* Home Assistant's slots and the valve's                                  *)

On(w, i) == \E k \in DOMAIN w : w[k].index = i

(* The last report of a slot that is on its way holds what the valve has.  *)
Carries(w, held) ==
    \A k \in DOMAIN w : \/ w[k].timer = held[w[k].index]
                        \/ \E l \in DOMAIN w : k < l /\ w[l].index = w[k].index

(* So does the report Home Assistant has received and not read, unless a   *)
(* later one is on its way or was lost.                                    *)
Received ==
    Unread => dp.timer = dev[dp.index] \/ On(wire, dp.index) \/ dp.index \in blind

(* So does the value of the DP, which the start reads.                     *)
Standing == window # None => window.timer = dev[window.index]

(* While Home Assistant is down, what it will restore is right too.        *)
AtRest ==
    ~live => /\ wire = <<>>
             /\ \A i \in Slots : SavedSlots(saved)[i] = dev[i] \/ i \in blind

Mirrors == Carries(wire, dev) /\ Received /\ Standing /\ AtRest /\ MirrorExact

(* One operation at a time; and a clear is applied to a slot that the valve *)
(* has emptied.                                                            *)
Alone ==
    \A c \in Calls : /\ calls[c].op = "idle" => calls[c].pc = "idle"
                     /\ calls[c].op # "idle" =>
                           \A d \in Calls \ {c} : calls[d].op = "idle"

Clears(call, held) ==
    call.pc = "clr" => call.timer = None /\ (call.reply = "ok" => held[call.slot] = None)

ClearsFit == \A c \in Calls : Clears(calls[c], dev)

LEMMA TailFacts ==
    ASSUME NEW w \in Seq(Frame), w # <<>>
    PROVE  /\ Tail(w) \in Seq(Frame) /\ 1 \in DOMAIN w /\ Head(w) = w[1]
           /\ \A k \in DOMAIN Tail(w) : k + 1 \in DOMAIN w /\ Tail(w)[k] = w[k + 1]
           /\ \A k \in DOMAIN w : k # 1 => /\ k - 1 \in DOMAIN Tail(w)
                                           /\ Tail(w)[k - 1] = w[k]
  OBVIOUS

LEMMA TailCarries ==
    ASSUME NEW w \in Seq(Frame), w # <<>>, NEW held, Carries(w, held)
    PROVE  /\ Carries(Tail(w), held)
           /\ \/ Head(w).timer = held[Head(w).index]
              \/ On(Tail(w), Head(w).index)
           /\ \A i : On(w, i) => i = Head(w).index \/ On(Tail(w), i)
  <1>1. Carries(Tail(w), held)
    <2> SUFFICES ASSUME NEW k \in DOMAIN Tail(w), Tail(w)[k].timer # held[Tail(w)[k].index]
                 PROVE  \E l \in DOMAIN Tail(w) : k < l /\ Tail(w)[l].index = Tail(w)[k].index
      BY DEF Carries
    <2>1. k + 1 \in DOMAIN w /\ Tail(w)[k] = w[k + 1] /\ k \in Nat
      BY TailFacts
    <2>2. PICK l \in DOMAIN w : k + 1 < l /\ w[l].index = w[k + 1].index
      BY <2>1 DEF Carries
    <2>3. l - 1 \in DOMAIN Tail(w) /\ Tail(w)[l - 1] = w[l] /\ l \in Nat
      BY <2>1, <2>2, TailFacts
    <2>4. k < l - 1 /\ Tail(w)[l - 1].index = Tail(w)[k].index
      BY <2>1, <2>2, <2>3
    <2> QED BY <2>3, <2>4
  <1>2. Head(w).timer = held[Head(w).index] \/ On(Tail(w), Head(w).index)
    <2> SUFFICES ASSUME Head(w).timer # held[Head(w).index] PROVE On(Tail(w), Head(w).index)
      OBVIOUS
    <2>1. PICK l \in DOMAIN w : 1 < l /\ w[l].index = w[1].index
      BY TailFacts DEF Carries
    <2>2. l - 1 \in DOMAIN Tail(w) /\ Tail(w)[l - 1].index = Head(w).index
      BY <2>1, TailFacts
    <2> QED BY <2>2 DEF On
  <1>3. ASSUME NEW i, On(w, i) PROVE i = Head(w).index \/ On(Tail(w), i)
    <2>1. PICK k \in DOMAIN w : w[k].index = i
      BY <1>3 DEF On
    <2>2. CASE k = 1
      BY <2>1, <2>2, TailFacts
    <2>3. CASE k # 1
      <3>1. k - 1 \in DOMAIN Tail(w) /\ Tail(w)[k - 1] = w[k]
        BY <2>1, <2>3, TailFacts
      <3> QED BY <2>1, <3>1 DEF On
    <2> QED BY <2>2, <2>3
  <1> QED BY <1>1, <1>2, <1>3

LEMMA AppendCarries ==
    ASSUME NEW w \in Seq(Frame), NEW held \in [Slots -> Held], NEW f \in Frame,
           Carries(w, held)
    PROVE  /\ Carries(Append(w, f), [held EXCEPT ![f.index] = f.timer])
           /\ On(Append(w, f), f.index)
           /\ \A i : On(w, i) => On(Append(w, f), i)
  <1> DEFINE long == Append(w, f)
             n == Len(w) + 1
             now == [held EXCEPT ![f.index] = f.timer]
  <1>1. /\ n \in DOMAIN long /\ long[n] = f /\ n \in Nat
        /\ \A k \in DOMAIN w : k \in DOMAIN long /\ long[k] = w[k] /\ k < n
        /\ \A k \in DOMAIN long : k = n \/ k \in DOMAIN w
    OBVIOUS
  <1>2. f.index \in Slots /\ now[f.index] = f.timer
        /\ \A i \in Slots : i # f.index => now[i] = held[i]
    BY DEF Frame
  <1>3. ASSUME NEW k \in DOMAIN w PROVE w[k].index \in Slots
    <2>1. w[k] \in Frame
      OBVIOUS
    <2> QED BY <2>1 DEF Frame
  <1> HIDE DEF long, n, now
  <1>4. Carries(long, now)
    <2> SUFFICES ASSUME NEW k \in DOMAIN long, long[k].timer # now[long[k].index]
                 PROVE  \E l \in DOMAIN long : k < l /\ long[l].index = long[k].index
      BY DEF Carries
    <2>1. k # n /\ k \in DOMAIN w /\ long[k] = w[k]
      BY <1>1, <1>2
    <2>2. CASE w[k].index = f.index
      BY <1>1, <2>1, <2>2
    <2>3. CASE w[k].index # f.index
      <3>1. PICK l \in DOMAIN w : k < l /\ w[l].index = w[k].index
        BY <1>2, <1>3, <2>1, <2>3 DEF Carries
      <3> QED BY <1>1, <2>1, <3>1
    <2> QED BY <2>2, <2>3
  <1>5. On(long, f.index) /\ \A i : On(w, i) => On(long, i)
    BY <1>1 DEF On
  <1> QED BY <1>4, <1>5 DEF long, now

LEMMA PendingIsOn ==
    ASSUME NEW i PROVE Pending(i) <=> On(wire, i) \/ (Unread /\ dp.index = i)
  BY DEF Pending, On

(* The steps that read neither side keep the two together.                 *)
mirrored == <<dev, window, wire, live, slots, last, dp, saved, blind>>

LEMMA KeepMirrors == ASSUME Mirrors, UNCHANGED mirrored PROVE Mirrors'
  BY DEF Mirrors, mirrored, Carries, Received, Standing, AtRest, MirrorExact, Pending, On,
         Unread, SavedSlots

(* The valve takes a write.                                                *)
LEMMA DeviceTakesMirrors ==
    ASSUME TypeOK, Mirrors, NEW f \in Frame, DeviceTakes(f), UNCHANGED ha
    PROVE  Mirrors'
  <1>1. /\ dev \in [Slots -> Held] /\ wire \in Seq(Frame) /\ f.index \in Slots
        /\ dev' = [dev EXCEPT ![f.index] = f.timer] /\ window' = f
        /\ UNCHANGED <<live, slots, last, dp, saved>>
    BY DEF TypeOK, WorldTypes, Frame, DeviceTakes, ha, timerState
  <1>2. dev'[f.index] = f.timer /\ \A i \in Slots : i # f.index => dev'[i] = dev[i]
    BY <1>1
  <1>3. Standing'
    BY <1>1, <1>2 DEF Standing
  <1>4. CASE live
    <2>1. wire' = Append(wire, f) /\ blind' = blind
      BY <1>4 DEF DeviceTakes
    <2>2. /\ Carries(wire', dev') /\ On(wire', f.index)
          /\ \A i : On(wire, i) => On(wire', i)
      BY <1>1, <2>1, AppendCarries DEF Mirrors
    <2>3. Unread' = Unread
      BY <1>1 DEF Unread
    <2>4. Received'
      <3> SUFFICES ASSUME Unread
                   PROVE  \/ dp.timer = dev'[dp.index]
                          \/ On(wire', dp.index) \/ dp.index \in blind
        BY <1>1, <2>1, <2>3 DEF Received
      <3>1. dp.index \in Slots
        BY UnreadIsFrame DEF TypeOK
      <3> QED BY <1>2, <2>2, <3>1 DEF Mirrors, Received
    <2>5. MirrorExact'
      <3> SUFFICES ASSUME NEW i \in Slots
                   PROVE  slots[i] = dev'[i] \/ i \in blind \/ Pending(i)'
        BY <1>1, <2>1 DEF MirrorExact
      <3>1. On(wire', i) => Pending(i)'
        BY DEF Pending, On
      <3>2. CASE i = f.index
        BY <2>2, <3>1, <3>2
      <3>3. CASE i # f.index
        <4>1. slots[i] = dev[i] \/ i \in blind \/ On(wire, i) \/ (Unread /\ dp.index = i)
          BY <1>4, PendingIsOn DEF Mirrors, MirrorExact
        <4>2. (Unread /\ dp.index = i) => Pending(i)'
          BY <1>1, <2>3 DEF Pending
        <4> QED BY <1>2, <2>2, <3>1, <3>3, <4>1, <4>2
      <3> QED BY <3>2, <3>3
    <2> QED BY <1>1, <1>3, <1>4, <2>2, <2>4, <2>5 DEF Mirrors, AtRest
  <1>5. CASE ~live
    <2>1. wire' = <<>> /\ blind' = blind \cup {f.index}
      BY <1>5 DEF DeviceTakes, Mirrors, AtRest
    <2>2. Carries(wire', dev')
      BY <2>1 DEF Carries
    <2>3. Received' /\ MirrorExact'
      BY <1>1, <1>5 DEF Received, Unread, MirrorExact
    <2>4. \A i \in Slots : SavedSlots(saved)[i] = dev'[i] \/ i \in blind'
      BY <1>2, <1>5, <2>1 DEF Mirrors, AtRest
    <2> QED BY <1>1, <1>3, <2>1, <2>2, <2>3, <2>4 DEF Mirrors, AtRest, SavedSlots
  <1> QED BY <1>4, <1>5

(* A report arrives, over an unread one, or the one applied last again.    *)
LEMMA ArriveMirrors == ASSUME TypeOK, Mirrors, Arrive PROVE Mirrors'
  <1> DEFINE f == Head(wire)
  <1>1. /\ live /\ wire \in Seq(Frame) /\ wire # <<>> /\ wire' = Tail(wire) /\ dp' = f
        /\ UNCHANGED <<dev, window, live, slots, last, saved>>
        /\ f \in Frame /\ f.index \in Slots
    BY WireTypes DEF Arrive, TypeOK, WorldTypes, timerState
  <1>2. blind' = blind \cup (IF Unread THEN {dp.index} \ {f.index} ELSE {})
                       \cup (IF Swallowed(f) THEN {f.index} ELSE {})
    BY DEF Arrive
  <1>3. /\ Carries(wire', dev')
        /\ f.timer = dev[f.index] \/ On(wire', f.index)
        /\ \A i : On(wire, i) => i = f.index \/ On(wire', i)
    BY <1>1, TailCarries DEF Mirrors
  <1>4. Unread' <=> f # last
    BY <1>1 DEF Unread
  <1>5. Swallowed(f) <=> f = last /\ slots[f.index] # f.timer
    BY DEF Swallowed
  <1> HIDE DEF f
  <1>6. Received'
    BY <1>1, <1>3 DEF Received
  <1>7. MirrorExact'
    <2> SUFFICES ASSUME NEW i \in Slots
                 PROVE  slots[i] = dev[i] \/ i \in blind' \/ Pending(i)'
      BY <1>1 DEF MirrorExact
    <2>1. On(wire', i) => Pending(i)'
      BY DEF Pending, On
    <2>2. (f # last /\ f.index = i) => Pending(i)'
      BY <1>1, <1>4 DEF Pending
    <2>3. slots[i] = dev[i] \/ i \in blind \/ On(wire, i) \/ (Unread /\ dp.index = i)
      BY <1>1, PendingIsOn DEF Mirrors, MirrorExact
    <2>4. CASE i = f.index
      BY <1>2, <1>3, <1>5, <2>1, <2>2, <2>4
    <2>5. CASE i # f.index
      BY <1>2, <1>3, <2>1, <2>3, <2>5
    <2> QED BY <2>4, <2>5
  <1> QED BY <1>1, <1>3, <1>6, <1>7 DEF Mirrors, Standing, AtRest

LEMMA LoseMirrors == ASSUME TypeOK, Mirrors, Lose PROVE Mirrors'
  <1> DEFINE f == Head(wire)
  <1>1. /\ wire \in Seq(Frame) /\ wire # <<>> /\ wire' = Tail(wire)
        /\ blind' = blind \cup {f.index}
        /\ UNCHANGED <<dev, window, live, slots, last, dp, saved>>
    BY DEF Lose, TypeOK, WorldTypes, ha, timerState
  <1>2. /\ Carries(wire', dev')
        /\ \A i : On(wire, i) => i = f.index \/ On(wire', i)
    BY <1>1, TailCarries DEF Mirrors
  <1> HIDE DEF f
  <1>3. Received'
    BY <1>1, <1>2 DEF Mirrors, Received, Unread
  <1>4. MirrorExact'
    <2> SUFFICES ASSUME live, NEW i \in Slots
                 PROVE  slots[i] = dev[i] \/ i \in blind' \/ Pending(i)'
      BY <1>1 DEF MirrorExact
    <2>1. On(wire', i) \/ (Unread /\ dp.index = i) => Pending(i)'
      BY <1>1 DEF Pending, On, Unread
    <2>2. slots[i] = dev[i] \/ i \in blind \/ On(wire, i) \/ (Unread /\ dp.index = i)
      BY PendingIsOn DEF Mirrors, MirrorExact
    <2> QED BY <1>1, <1>2, <2>1, <2>2
  <1>5. live
    BY <1>1 DEF Mirrors, AtRest
  <1> QED BY <1>1, <1>2, <1>3, <1>4, <1>5 DEF Mirrors, Standing, AtRest

(* What a report leaves in a slot that is not its own.                     *)
LEMMA AfterReportSlots ==
    ASSUME NEW sl \in [Slots -> Held], NEW f \in Frame
    PROVE  /\ AfterReport(sl, f)[f.index] = f.timer
           /\ \A i \in Slots : i # f.index =>
                 AfterReport(sl, f)[i] = IF i \in Duplicates(sl, f) THEN None ELSE sl[i]
  BY DEF AfterReport, Frame

LEMMA ReadMirrors == ASSUME TypeOK, Mirrors, Read PROVE Mirrors'
  <1>1. /\ live /\ Unread /\ dp \in Frame /\ dp.index \in Slots
        /\ slots \in [Slots -> Held]
        /\ slots' = AfterReport(slots, dp) /\ last' = dp
        /\ UNCHANGED <<dev, window, wire, live, dp, saved>>
    BY UnreadIsFrame DEF Read, Unread, ApplyReport, TypeOK, RegistryTypes, device
  <1>2. blind' = (IF dp.timer = dev[dp.index] THEN blind \ {dp.index} ELSE blind)
                   \cup {i \in Duplicates(slots, dp) : dev[i] # None}
    BY DEF Read
  <1>3. ~Unread'
    BY <1>1 DEF Unread
  <1>4. MirrorExact'
    <2> SUFFICES ASSUME NEW i \in Slots
                 PROVE  slots'[i] = dev[i] \/ i \in blind' \/ On(wire, i)
      BY <1>1 DEF MirrorExact, Pending, On
    <2>1. CASE i = dp.index
      <3>1. slots'[i] = dp.timer
        BY <1>1, <2>1, AfterReportSlots
      <3>2. dp.timer = dev[i] \/ On(wire, i) \/ i \in blind
        BY <1>1, <2>1 DEF Mirrors, Received
      <3> QED BY <1>2, <2>1, <3>1, <3>2
    <2>2. CASE i # dp.index /\ i \in Duplicates(slots, dp)
      BY <1>1, <1>2, <2>2, AfterReportSlots
    <2>3. CASE i # dp.index /\ i \notin Duplicates(slots, dp)
      <3>1. slots'[i] = slots[i]
        BY <1>1, <2>3, AfterReportSlots
      <3>2. slots[i] = dev[i] \/ i \in blind \/ On(wire, i)
        BY <1>1, <2>3, PendingIsOn DEF Mirrors, MirrorExact
      <3> QED BY <1>2, <2>3, <3>1, <3>2
    <2> QED BY <2>1, <2>2, <2>3
  <1> QED BY <1>1, <1>3, <1>4 DEF Mirrors, Carries, Received, Standing, AtRest

LEMMA StopMirrors ==
    ASSUME TypeOK, Mirrors, NEW graceful \in BOOLEAN, Stop(graceful) PROVE Mirrors'
  <1> DEFINE kept == IF graceful THEN Snapshot ELSE saved
  <1>1. /\ live /\ live' = FALSE /\ wire' = <<>> /\ saved' = kept
        /\ UNCHANGED <<dev, window>>
    BY DEF Stop
  <1>2. blind' = blind \cup {i \in Slots : SavedSlots(kept)[i] # slots[i]}
                       \cup {wire[k].index : k \in DOMAIN wire}
                       \cup (IF Unread THEN {dp.index} ELSE {})
    BY DEF Stop
  <1> HIDE DEF kept
  <1>3. \A i \in Slots : SavedSlots(kept)[i] = dev[i] \/ i \in blind'
    <2> SUFFICES ASSUME NEW i \in Slots, i \notin blind'
                 PROVE  SavedSlots(kept)[i] = dev[i]
      OBVIOUS
    <2>1. SavedSlots(kept)[i] = slots[i] /\ i \notin blind /\ ~On(wire, i)
          /\ ~(Unread /\ dp.index = i)
      BY <1>2 DEF On
    <2> QED BY <1>1, <2>1, PendingIsOn DEF Mirrors, MirrorExact
  <1>4. Carries(wire', dev')
    BY <1>1 DEF Carries
  <1>5. Received' /\ MirrorExact'
    BY <1>1 DEF Received, Unread, MirrorExact
  <1>6. AtRest'
    BY <1>1, <1>3 DEF AtRest, SavedSlots
  <1> QED BY <1>1, <1>4, <1>5, <1>6 DEF Mirrors, Standing

LEMMA LoadMirrors == ASSUME TypeOK, Mirrors, Load PROVE Mirrors'
  <1> DEFINE fresh == saved = None
             s == IF fresh THEN [slots |-> NoSlots, overlay |-> NoLabels,
                                 cloudOnly |-> {}, stamp |-> 0] ELSE saved
  <1>1. /\ ~live /\ live' = TRUE /\ dp' = window /\ UNCHANGED <<dev, window, wire, saved>>
    BY DEF Load
  <1>2. s.slots = SavedSlots(saved) /\ s.slots \in [Slots -> Held]
    BY IdleType DEF SavedSlots, Saved, TypeOK, RegistryTypes
  <1>3. \A i \in Slots : s.slots[i] = dev[i] \/ i \in blind
    BY <1>1, <1>2 DEF Mirrors, AtRest
  <1>4. CASE window = None
    <2>1. slots' = s.slots /\ last' = None /\ blind' = blind
      BY <1>4 DEF Load
    <2>2. ~Unread' /\ MirrorExact'
      BY <1>1, <1>3, <1>4, <2>1 DEF Unread, MirrorExact
    <2> QED BY <1>1, <2>2 DEF Mirrors, Carries, Received, Standing, AtRest
  <1>5. CASE window # None
    <2>1. /\ slots' = AfterReport(s.slots, window) /\ last' = window
          /\ blind' = (blind \ {window.index})
                        \cup {i \in Duplicates(s.slots, window) : dev[i] # None}
          /\ window \in Frame /\ window.timer = dev[window.index]
      BY <1>5 DEF Load, ApplyReport, TypeOK, WorldTypes, Mirrors, Standing
    <2> HIDE DEF s
    <2>2. MirrorExact'
      <3> SUFFICES ASSUME NEW i \in Slots PROVE slots'[i] = dev[i] \/ i \in blind'
        BY <1>1 DEF MirrorExact
      <3>1. CASE i = window.index
        BY <1>2, <2>1, <3>1, AfterReportSlots
      <3>2. CASE i # window.index /\ i \in Duplicates(s.slots, window)
        BY <1>2, <2>1, <3>2, AfterReportSlots
      <3>3. CASE i # window.index /\ i \notin Duplicates(s.slots, window)
        <4>1. slots'[i] = s.slots[i]
          BY <1>2, <2>1, <3>3, AfterReportSlots
        <4> QED BY <1>3, <2>1, <3>3, <4>1
      <3> QED BY <3>1, <3>2, <3>3
    <2>3. ~Unread'
      BY <1>1, <2>1 DEF Unread
    <2> QED BY <1>1, <2>2, <2>3 DEF Mirrors, Carries, Received, Standing, AtRest
  <1> QED BY <1>4, <1>5

LEMMA RegistryStepMirrors == ASSUME TypeOK, Mirrors, Registry PROVE Mirrors'
  <1>1. ASSUME Dump PROVE Mirrors'
    BY <1>1 DEF Dump, device, timerState, Mirrors, Carries, Received, Standing, AtRest,
                MirrorExact, Pending, Unread, On
  <1> QED BY <1>1, ArriveMirrors, LoseMirrors, ReadMirrors, StopMirrors, LoadMirrors DEF Registry

LEMMA AppMirrors == ASSUME TypeOK, Mirrors, App PROVE Mirrors'
  <1>1. UNCHANGED ha
    BY DEF App, AppSet, AppDelete, AppDisable
  <1>2. ASSUME NEW i \in Slots, NEW k \in Keys, NEW aliased \in BOOLEAN, AppSet(i, k, aliased)
        PROVE  Mirrors'
    <2> DEFINE f == [index |-> i, timer |-> [key |-> k, on |-> TRUE]]
    <2>1. f \in Frame /\ DeviceTakes(f)
      BY <1>2 DEF AppSet, Frame, Held, Timer
    <2> HIDE DEF f
    <2> QED BY <1>1, <2>1, DeviceTakesMirrors
  <1>3. ASSUME NEW g \in Gids, NEW i \in Slots, NEW reached \in BOOLEAN, AppDelete(g, i, reached)
        PROVE  Mirrors'
    <2> DEFINE f == [index |-> i, timer |-> None]
    <2>1. CASE reached
      <3>1. f \in Frame /\ DeviceTakes(f)
        BY <1>3, <2>1 DEF AppDelete, Frame, Held
      <3> HIDE DEF f
      <3> QED BY <1>1, <3>1, DeviceTakesMirrors
    <2>2. CASE ~reached
      BY <1>1, <1>3, <2>2, KeepMirrors DEF AppDelete, device, ha, timerState, mirrored
    <2> QED BY <2>1, <2>2
  <1>4. ASSUME NEW g \in Gids, AppDisable(g) PROVE Mirrors'
    BY <1>1, <1>4, KeepMirrors DEF AppDisable, device, ha, timerState, mirrored
  <1> QED BY <1>2, <1>3, <1>4 DEF App

(* A call that waits for an answer, or is over.                            *)
Waits(call) ==
    /\ call.op = "idle" => call.pc = "idle"
    /\ call.pc = "clr" => call.timer = None /\ call.reply = "pending"

LEMMA CallMoves ==
    ASSUME CallTypes, Alone, ClearsFit, NEW c \in Calls, NEW call, Step(c, call),
           calls[c].op # "idle" \/ NoCalls,
           call.op = "idle" => call.pc = "idle", Clears(call, dev')
    PROVE  Alone' /\ ClearsFit'
  <1>1. /\ calls' \in [Calls -> {calls[d] : d \in Calls} \cup {call}] /\ calls'[c] = call
        /\ \A d \in Calls : d # c => calls'[d] = calls[d]
    BY DEF CallTypes, Step
  <1>2. \A d \in Calls : d # c => calls[d].op = "idle" /\ calls[d].pc = "idle"
    BY DEF Alone, NoCalls
  <1> QED BY <1>1, <1>2 DEF Alone, ClearsFit, Clears

LEMMA WaitsMoves ==
    ASSUME CallTypes, Alone, ClearsFit, NEW c \in Calls, calls[c].op # "idle" \/ NoCalls,
           \E call : Step(c, call) /\ Waits(call)
    PROVE  Alone' /\ ClearsFit'
  <1>1. PICK call : Step(c, call) /\ Waits(call)
    OBVIOUS
  <1>2. Clears(call, dev')
    BY <1>1 DEF Clears, Waits
  <1> QED BY <1>1, <1>2, CallMoves DEF Waits

LEMMA FinishWaits ==
    ASSUME NEW c \in Calls, Finish(c) PROVE \E call : Step(c, call) /\ Waits(call)
  <1>1. Waits(Idle)
    BY DEF Waits, Idle
  <1> QED BY <1>1 DEF Finish

LEMMA PostOrFinishWaits ==
    ASSUME CallTypes, NEW c \in Calls, NEW blocked, PostOrFinish(c, blocked)
    PROVE  \E call : Step(c, call) /\ Waits(call)
  <1> DEFINE call == [calls[c] EXCEPT !.pc = "post", !.reply = "pending", !.list = {}]
  <1>1. calls[c] \in Call
    BY DEF CallTypes
  <1>2. call.op = calls[c].op /\ call.pc = "post"
    BY <1>1 DEF Call
  <1>3. (calls[c].op = "set" /\ Step(c, call)) \/ Finish(c)
    BY DEF PostOrFinish
  <1> HIDE DEF call
  <1> QED BY <1>2, <1>3, FinishWaits DEF Waits

LEMMA AwaitWaits ==
    ASSUME CallTypes, NEW c \in Calls, calls[c].op # "idle", NEW at \in {"get", "del"},
           Await(c, at)
    PROVE  \E call : Step(c, call) /\ Waits(call)
  <1> DEFINE call == [calls[c] EXCEPT !.pc = at, !.reply = "pending"]
  <1>1. calls[c] \in Call
    BY DEF CallTypes
  <1>2. call.op = calls[c].op /\ call.pc = at
    BY <1>1 DEF Call
  <1>3. Step(c, call)
    BY DEF Await
  <1> HIDE DEF call
  <1> QED BY <1>2, <1>3 DEF Waits

LEMMA ClearFirstWaits ==
    ASSUME NEW c \in Calls, NEW orphans, ClearFirst(c, orphans)
    PROVE  \E call : Step(c, call) /\ Waits(call)
  <1>1. CASE orphans = {}
    BY <1>1, FinishWaits DEF ClearFirst
  <1>2. CASE orphans # {}
    <2>1. PICK i \in orphans :
             Step(c, [Idle EXCEPT !.op = "resync", !.pc = "clr", !.slot = i,
                                  !.orphans = orphans \ {i},
                                  !.snap = calls[c].snap, !.list = calls[c].list])
      BY <1>2 DEF ClearFirst
    <2> DEFINE call == [Idle EXCEPT !.op = "resync", !.pc = "clr", !.slot = i,
                                    !.orphans = orphans \ {i},
                                    !.snap = calls[c].snap, !.list = calls[c].list]
    <2>2. call.op = "resync" /\ call.timer = None /\ call.reply = "pending"
      BY DEF Idle
    <2>3. Step(c, call)
      BY <2>1
    <2> HIDE DEF call
    <2> QED BY <2>2, <2>3 DEF Waits
  <1> QED BY <1>1, <1>2

LEMMA ResumeWaits ==
    ASSUME CallTypes, Alone, NEW c \in Calls, Resume(c)
    PROVE  calls[c].op # "idle" /\ \E call : Step(c, call) /\ Waits(call)
  <1>1. calls[c].op # "idle"
    BY DEF Alone, Resume, DpResume, GetResume, DelResume, PostResume, SweepResume,
           ResyncResume, ClearResume, Resumes
  <1>2. \/ Finish(c) \/ Await(c, "get") \/ Await(c, "del")
        \/ \E blocked : PostOrFinish(c, blocked)
        \/ \E orphans : ClearFirst(c, orphans)
        \/ \E list : Step(c, [calls[c] EXCEPT !.pc = "del", !.reply = "pending", !.list = list])
    <2>1. CASE DpResume(c)
      BY <2>1 DEF DpResume
    <2>2. CASE GetResume(c)
      BY <2>2 DEF GetResume
    <2>3. CASE DelResume(c)
      BY <2>3 DEF DelResume
    <2>4. CASE PostResume(c) \/ SweepResume(c)
      BY <2>4 DEF PostResume, SweepResume
    <2>5. CASE ResyncResume(c)
      BY <2>5 DEF ResyncResume
    <2>6. CASE ClearResume(c)
      BY <2>6 DEF ClearResume
    <2> QED BY <2>1, <2>2, <2>3, <2>4, <2>5, <2>6 DEF Resume
  <1>3. ASSUME NEW list,
               Step(c, [calls[c] EXCEPT !.pc = "del", !.reply = "pending", !.list = list])
        PROVE  \E call : Step(c, call) /\ Waits(call)
    <2> DEFINE call == [calls[c] EXCEPT !.pc = "del", !.reply = "pending", !.list = list]
    <2>1. call.op = calls[c].op /\ call.pc = "del"
      BY DEF CallTypes, Call
    <2>2. Step(c, call)
      BY <1>3
    <2> HIDE DEF call
    <2> QED BY <1>1, <2>1, <2>2 DEF Waits
  <1> QED BY <1>1, <1>2, <1>3, FinishWaits, AwaitWaits, PostOrFinishWaits, ClearFirstWaits

LEMMA StartWaits ==
    ASSUME Serial, NEW c \in Calls, Start(c)
    PROVE  NoCalls /\ \E call : Step(c, call) /\ Waits(call)
  <1>1. NoCalls
    BY DEF Start, SetTimer, DeleteTimer, Resync, Sweep, MayStart
  <1>2. ASSUME NEW i \in Slots, NEW t \in Timer, SetTimer(c, i, t)
        PROVE  \E call : Step(c, call) /\ Waits(call)
    <2> DEFINE call == [Idle EXCEPT !.op = "set", !.pc = "dp", !.slot = i, !.timer = t,
                                    !.prior = IF live THEN slots[i] ELSE None]
    <2>1. Step(c, call) /\ call.op = "set" /\ call.pc = "dp"
      BY <1>2 DEF SetTimer, Idle
    <2> HIDE DEF call
    <2> QED BY <2>1 DEF Waits
  <1>3. ASSUME NEW i \in Slots, DeleteTimer(c, i)
        PROVE  \E call : Step(c, call) /\ Waits(call)
    <2> DEFINE call == [Idle EXCEPT !.op = "delete", !.pc = "dp", !.slot = i,
                                    !.prior = IF live THEN slots[i] ELSE None]
    <2>1. Step(c, call) /\ call.op = "delete" /\ call.pc = "dp"
      BY <1>3 DEF DeleteTimer, Idle
    <2> HIDE DEF call
    <2> QED BY <2>1 DEF Waits
  <1>4. CASE Resync(c)
    <2> DEFINE call == [Idle EXCEPT !.op = "resync", !.pc = "get", !.snap = slots]
    <2>1. Step(c, call) /\ call.op = "resync" /\ call.pc = "get"
      BY <1>4 DEF Resync, Idle
    <2> HIDE DEF call
    <2> QED BY <1>1, <2>1 DEF Waits
  <1>5. CASE Sweep(c)
    <2> DEFINE call == [Idle EXCEPT !.op = "sweep", !.pc = "get"]
    <2>1. Step(c, call) /\ call.op = "sweep" /\ call.pc = "get"
      BY <1>5 DEF Sweep, Idle
    <2> HIDE DEF call
    <2> QED BY <1>1, <2>1 DEF Waits
  <1> QED BY <1>1, <1>2, <1>3, <1>4, <1>5 DEF Start

LEMMA ServeMoves ==
    ASSUME TypeOK, Alone, ClearsFit, NEW c \in Calls, Serve(c)
    PROVE  Alone' /\ ClearsFit'
  <1>0. CallTypes /\ calls[c] \in Call
    BY DEF TypeOK, CallTypes
  <1>1. calls[c].op # "idle"
    BY DEF Alone, Serve, ServeDp, ServeGet, ServePost, ServeDel, WritesDp
  <1>2. ASSUME NEW reply \in {"ok", "failed"}, NEW taken \in BOOLEAN, reply = "ok" => taken,
               ServeDp(c, reply, taken)
        PROVE  Alone' /\ ClearsFit'
    <2> DEFINE call == [calls[c] EXCEPT !.reply = reply]
    <2>1. /\ Step(c, call) /\ call.op = calls[c].op /\ call.pc = calls[c].pc
          /\ call.reply = reply /\ call.slot = calls[c].slot /\ call.timer = calls[c].timer
      BY <1>0, <1>2 DEF ServeDp, Replied, Call
    <2>2. taken => dev'[calls[c].slot] = calls[c].timer
      BY <1>0, <1>2 DEF ServeDp, DeviceTakes, FrameOf, TypeOK, WorldTypes, Call
    <2>3. calls[c].pc = "clr" => calls[c].timer = None
      BY DEF ClearsFit, Clears
    <2> HIDE DEF call
    <2>4. Clears(call, dev')
      BY <1>2, <2>1, <2>2, <2>3 DEF Clears
    <2> QED BY <1>0, <1>1, <2>1, <2>4, CallMoves
  <1>3. ASSUME NEW reply, NEW list, ServeGet(c, reply, list)
        PROVE  Alone' /\ ClearsFit'
    <2> DEFINE call == [calls[c] EXCEPT !.reply = reply, !.list = list]
    <2>1. Step(c, call) /\ call.op = calls[c].op /\ call.pc = "get"
      BY <1>0, <1>3 DEF ServeGet, Call
    <2> HIDE DEF call
    <2> QED BY <1>0, <1>1, <2>1, WaitsMoves DEF Waits
  <1>4. ASSUME NEW reply, NEW taken, ServePost(c, reply, taken)
        PROVE  Alone' /\ ClearsFit'
    <2> DEFINE call == [calls[c] EXCEPT !.reply = reply]
    <2>1. Step(c, call) /\ call.op = calls[c].op /\ call.pc = "post"
      BY <1>0, <1>4 DEF ServePost, Replied, Call
    <2> HIDE DEF call
    <2> QED BY <1>0, <1>1, <2>1, WaitsMoves DEF Waits
  <1>5. ASSUME NEW reply, NEW taken, ServeDel(c, reply, taken)
        PROVE  Alone' /\ ClearsFit'
    <2>1. PICK e \in calls[c].list :
             Step(c, [calls[c] EXCEPT !.reply = reply, !.list = @ \ {e}])
      BY <1>5 DEF ServeDel
    <2> DEFINE call == [calls[c] EXCEPT !.reply = reply, !.list = @ \ {e}]
    <2>2. Step(c, call) /\ call.op = calls[c].op /\ call.pc = "del"
      BY <1>0, <1>5, <2>1 DEF ServeDel, Call
    <2> HIDE DEF call
    <2> QED BY <1>0, <1>1, <2>2, WaitsMoves DEF Waits
  <1> QED BY <1>2, <1>3, <1>4, <1>5 DEF Serve

LEMMA ClearResumeMirrors ==
    ASSUME TypeOK, Mirrors, ClearsFit, NEW c \in Calls, ClearResume(c)
    PROVE  Mirrors'
  <1> DEFINE i == calls[c].slot
  <1>1. CASE calls[c].reply # "ok"
    BY <1>1, KeepMirrors DEF ClearResume, ha, timerState, KeepWorld, device, mirrored
  <1>2. CASE calls[c].reply = "ok"
    <2>1. /\ slots' = [slots EXCEPT ![i] = None]
          /\ UNCHANGED <<dev, window, wire, live, last, dp, saved, blind>>
      BY <1>2 DEF ClearResume, KeepWorld, device
    <2>2. dev[i] = None
      BY <1>2 DEF ClearsFit, Clears, ClearResume, Resumes
    <2>3. \A j \in Slots : slots'[j] = slots[j] \/ (j = i /\ slots'[j] = None)
      BY <2>1 DEF TypeOK, RegistryTypes
    <2> HIDE DEF i
    <2>4. MirrorExact'
      <3> SUFFICES ASSUME live, NEW j \in Slots
                   PROVE  slots'[j] = dev[j] \/ j \in blind \/ Pending(j)
        BY <2>1 DEF MirrorExact, Pending, Unread
      <3> QED BY <2>2, <2>3 DEF Mirrors, MirrorExact
    <2> QED BY <2>1, <2>4 DEF Mirrors, Carries, Received, Unread, On, Standing, AtRest
  <1> QED BY <1>1, <1>2

LEMMA CallStepMirrors ==
    ASSUME TypeOK, Mirrors, ClearsFit, NEW c \in Calls, Start(c) \/ Serve(c) \/ Resume(c)
    PROVE  Mirrors'
  <1>1. CASE Start(c)
    BY <1>1, KeepMirrors
       DEF Start, SetTimer, DeleteTimer, Resync, Sweep, KeepTimers, KeepWorld, ha, timerState,
           device, mirrored
  <1>2. ASSUME NEW reply, NEW taken, ServeDp(c, reply, taken) PROVE Mirrors'
    <2>1. CASE taken
      <3>1. FrameOf(c) \in Frame
        BY DEF FrameOf, Frame, TypeOK, CallTypes, Call
      <3> QED BY <1>2, <2>1, <3>1, DeviceTakesMirrors DEF ServeDp
    <2>2. CASE ~taken
      BY <1>2, <2>2, KeepMirrors DEF ServeDp, device, ha, timerState, mirrored
    <2> QED BY <2>1, <2>2
  <1>3. ASSUME Serve(c), \A reply, taken : ~ServeDp(c, reply, taken) PROVE Mirrors'
    BY <1>3, KeepMirrors
       DEF Serve, ServeGet, ServePost, ServeDel, KeepTimers, KeepWorld, ha, timerState, device,
           mirrored
  <1>4. CASE DpResume(c) \/ GetResume(c) \/ DelResume(c) \/ PostResume(c)
    BY <1>4, KeepMirrors
       DEF DpResume, GetResume, DelResume, PostResume, KeepTimers, KeepWorld, ha, timerState,
           device, mirrored
  <1>5. CASE SweepResume(c) \/ ResyncResume(c)
    BY <1>5, KeepMirrors
       DEF SweepResume, ResyncResume, ApplyCloud, KeepWorld, ha, timerState, device, mirrored
  <1>6. CASE ClearResume(c)
    BY <1>6, ClearResumeMirrors
  <1> QED BY <1>1, <1>2, <1>3, <1>4, <1>5, <1>6 DEF Resume

LEMMA NextAlone ==
    ASSUME Serial, TypeOK, Alone, ClearsFit, [Next]_vars
    PROVE  Alone' /\ ClearsFit'
  <1>0. CallTypes
    BY DEF TypeOK
  <1>1. ASSUME NEW c \in Calls, Start(c) PROVE Alone' /\ ClearsFit'
    BY <1>0, <1>1, StartWaits, WaitsMoves
  <1>2. ASSUME NEW c \in Calls, Serve(c) PROVE Alone' /\ ClearsFit'
    BY <1>2, ServeMoves
  <1>3. ASSUME NEW c \in Calls, Resume(c) PROVE Alone' /\ ClearsFit'
    BY <1>0, <1>3, ResumeWaits, WaitsMoves
  <1>4. CASE UNCHANGED <<calls, dev>>
    BY <1>4 DEF Alone, ClearsFit, Clears
  <1>5. CASE Registry
    <2>1. ASSUME NEW graceful \in BOOLEAN, Stop(graceful) PROVE Alone' /\ ClearsFit'
      <3>1. calls' = [c \in Calls |-> Idle]
        BY <2>1 DEF Stop
      <3> QED BY <3>1 DEF Alone, ClearsFit, Clears, Idle
    <2> QED BY <1>4, <1>5, <2>1
            DEF Registry, Arrive, Lose, Read, Dump, Load, device
  <1>6. CASE App
    <2>1. NoCalls /\ UNCHANGED calls
      BY <1>6 DEF App, AppSet, AppDelete, AppDisable, MayEdit
    <2> QED BY <2>1 DEF NoCalls, Alone, ClearsFit, Clears
  <1>7. CASE BreakerCloses \/ UNCHANGED vars
    BY <1>4, <1>7 DEF BreakerCloses, vars, device
  <1> QED BY <1>1, <1>2, <1>3, <1>5, <1>6, <1>7 DEF Next

LEMMA NextMirrors ==
    ASSUME TypeOK, Mirrors, ClearsFit, [Next]_vars
    PROVE  Mirrors'
  <1>1. CASE BreakerCloses \/ UNCHANGED vars
    BY <1>1, KeepMirrors DEF BreakerCloses, vars, ha, timerState, device, mirrored
  <1> QED BY <1>1, CallStepMirrors, RegistryStepMirrors, AppMirrors DEF Next

(* While one operation runs at a time, Home Assistant's slots are the      *)
(* valve's but for the reports on their way and those it never took in,    *)
(* for any number of slots, of reports in flight, of lost reports, of app  *)
(* edits and of restarts (apply_report, clear, restore, the priming read). *)
THEOREM SlotsMirrorTheValve == Serial => (Spec => []MirrorExact)
  <1> SUFFICES ASSUME Serial PROVE Spec => []MirrorExact
    OBVIOUS
  <1>1. Init => Mirrors /\ Alone /\ ClearsFit
    BY DEF Init, Mirrors, Carries, Received, Unread, Standing, AtRest, MirrorExact, Alone,
           ClearsFit, Clears, Idle
  <1>2. TypeOK /\ Mirrors /\ Alone /\ ClearsFit /\ [Next]_vars
          => Mirrors' /\ Alone' /\ ClearsFit'
    BY NextMirrors, NextAlone
  <1>3. Mirrors => MirrorExact
    BY DEF Mirrors
  <1> QED BY <1>1, <1>2, <1>3, TypeCorrect, PTL DEF Spec

-----------------------------------------------------------------------------
(* What a resync clears                                                    *)

(* Which operation waits at which point.                                   *)
Shaped(call) ==
    /\ call.pc \in {"dp", "del"} => call.op \in {"set", "delete"}
    /\ call.pc = "clr" => call.op = "resync" /\ call.timer = None
    /\ call.op = "resync" => call.pc \in {"get", "clr"}
    /\ call.op = "sweep" => call.pc = "get"
    /\ call.op = "idle" => call.pc = "idle"

AllShaped == \A c \in Calls : Shaped(calls[c])

(* The snapshot of a resync is the valve, its listing the registry, and    *)
(* what it is still to clear is not listed.                                *)
Spares(call, held, list) ==
    /\ call.pc = "get" => /\ call.snap = held
                          /\ call.reply = "ok" => call.list \in {{}, list}
    /\ call.pc = "clr" => \A i \in call.orphans \cup {call.slot} :
                             held[i] # None => \A e \in list : e.key # held[i].key

(* A resync that nothing disturbs has the valve and the registry to itself. *)
Sparing ==
    clean => \A c \in Calls : calls[c].op = "resync" =>
                 /\ \A d \in Calls \ {c} : calls[d].op \in {"idle", "sweep"}
                 /\ Spares(calls[c], dev, Entries)

LEMMA ShapedMoves ==
    ASSUME CallTypes, AllShaped, NEW c \in Calls, NEW call, Step(c, call), Shaped(call)
    PROVE  AllShaped'
  BY DEF CallTypes, AllShaped, Step

LEMMA ClearFirstCall ==
    ASSUME NEW c \in Calls, NEW orphans, ClearFirst(c, orphans)
    PROVE  \/ Finish(c)
           \/ \E call : /\ Step(c, call) /\ call.op = "resync" /\ call.pc = "clr"
                        /\ call.timer = None /\ call.reply = "pending"
                        /\ call.slot \in orphans /\ call.orphans \subseteq orphans
                        /\ call.snap = calls[c].snap /\ call.list = calls[c].list
  <1>1. CASE orphans = {}
    BY <1>1 DEF ClearFirst
  <1>2. CASE orphans # {}
    <2>1. PICK i \in orphans :
             Step(c, [Idle EXCEPT !.op = "resync", !.pc = "clr", !.slot = i,
                                  !.orphans = orphans \ {i},
                                  !.snap = calls[c].snap, !.list = calls[c].list])
      BY <1>2 DEF ClearFirst
    <2> DEFINE call == [Idle EXCEPT !.op = "resync", !.pc = "clr", !.slot = i,
                                    !.orphans = orphans \ {i},
                                    !.snap = calls[c].snap, !.list = calls[c].list]
    <2>2. /\ call.op = "resync" /\ call.pc = "clr" /\ call.timer = None
          /\ call.reply = "pending" /\ call.slot \in orphans /\ call.orphans \subseteq orphans
          /\ call.snap = calls[c].snap /\ call.list = calls[c].list
      BY DEF Idle
    <2>3. Step(c, call)
      BY <2>1
    <2> HIDE DEF call
    <2> QED BY <2>2, <2>3
  <1> QED BY <1>1, <1>2

LEMMA PostOrFinishCall ==
    ASSUME CallTypes, NEW c \in Calls, NEW blocked, PostOrFinish(c, blocked)
    PROVE  \/ Finish(c)
           \/ \E call : Step(c, call) /\ call.op = "set" /\ call.pc = "post"
  <1> DEFINE call == [calls[c] EXCEPT !.pc = "post", !.reply = "pending", !.list = {}]
  <1>1. calls[c] \in Call
    BY DEF CallTypes
  <1>2. call.op = calls[c].op /\ call.pc = "post"
    BY <1>1 DEF Call
  <1>3. (calls[c].op = "set" /\ Step(c, call)) \/ Finish(c)
    BY DEF PostOrFinish
  <1> HIDE DEF call
  <1> QED BY <1>2, <1>3

(* A set or a delete that resumes stays one, or is over.                   *)
LEMMA WriterResumes ==
    ASSUME CallTypes, AllShaped, NEW c \in Calls,
           DpResume(c) \/ GetResume(c) \/ DelResume(c) \/ PostResume(c),
           CallShape(calls[c])
    PROVE  /\ calls[c].op \in {"set", "delete"}
           /\ \/ Finish(c)
              \/ \E call : /\ Step(c, call) /\ call.op \in {"set", "delete"}
                           /\ call.pc \in {"get", "del", "post"}
  <1>1. calls[c] \in Call /\ Shaped(calls[c])
    BY DEF CallTypes, AllShaped
  <1>2. calls[c].op \in {"set", "delete"}
    BY <1>1 DEF Shaped, CallShape, DpResume, GetResume, DelResume, PostResume, Resumes
  <1>3. ASSUME NEW at \in {"get", "del"}, Await(c, at)
        PROVE  \E call : /\ Step(c, call) /\ call.op \in {"set", "delete"}
                         /\ call.pc \in {"get", "del", "post"}
    <2> DEFINE call == [calls[c] EXCEPT !.pc = at, !.reply = "pending"]
    <2>1. Step(c, call) /\ call.op = calls[c].op /\ call.pc = at
      BY <1>1, <1>3 DEF Await, Call
    <2> HIDE DEF call
    <2> QED BY <1>2, <2>1
  <1>4. ASSUME NEW list,
               Step(c, [calls[c] EXCEPT !.pc = "del", !.reply = "pending", !.list = list])
        PROVE  \E call : /\ Step(c, call) /\ call.op \in {"set", "delete"}
                         /\ call.pc \in {"get", "del", "post"}
    <2> DEFINE call == [calls[c] EXCEPT !.pc = "del", !.reply = "pending", !.list = list]
    <2>1. Step(c, call) /\ call.op = calls[c].op /\ call.pc = "del"
      BY <1>1, <1>4 DEF Call
    <2> HIDE DEF call
    <2> QED BY <1>2, <2>1
  <1>5. \/ Finish(c) \/ (\E at \in {"get", "del"} : Await(c, at))
        \/ (\E blocked : PostOrFinish(c, blocked))
        \/ \E list : Step(c, [calls[c] EXCEPT !.pc = "del", !.reply = "pending", !.list = list])
    <2>1. CASE DpResume(c)
      BY <2>1 DEF DpResume
    <2>2. CASE GetResume(c)
      BY <2>2 DEF GetResume
    <2>3. CASE DelResume(c)
      BY <2>3 DEF DelResume
    <2>4. CASE PostResume(c)
      BY <2>4 DEF PostResume
    <2> QED BY <2>1, <2>2, <2>3, <2>4
  <1>6. (\E blocked : PostOrFinish(c, blocked)) =>
           \/ Finish(c)
           \/ \E call : Step(c, call) /\ call.op = "set" /\ call.pc = "post"
    BY PostOrFinishCall
  <1>7. ASSUME NEW call, Step(c, call), call.op = "set", call.pc = "post"
        PROVE  \E other : /\ Step(c, other) /\ other.op \in {"set", "delete"}
                          /\ other.pc \in {"get", "del", "post"}
    BY <1>7
  <1> QED BY <1>2, <1>3, <1>4, <1>5, <1>6, <1>7

(* What a started call does, before it has an answer.                      *)
LEMMA StartCall ==
    ASSUME NEW c \in Calls, Start(c)
    PROVE  /\ calls[c].op = "idle"
           /\ \E call : /\ Step(c, call) /\ Shaped(call)
                        /\ call.op = "resync" => /\ Resync(c) /\ call.pc = "get"
                                                 /\ call.snap = slots
                                                 /\ call.reply = "pending"
                        /\ call.op \in {"set", "delete"} =>
                              \E i \in Slots, t \in Held : clean' => Undisturbed(i, t)
  <1>1. calls[c].op = "idle"
    BY DEF Start, SetTimer, DeleteTimer, Resync, Sweep, MayStart
  <1> DEFINE Goal == \E call : /\ Step(c, call) /\ Shaped(call)
                               /\ call.op = "resync" => /\ Resync(c) /\ call.pc = "get"
                                                        /\ call.snap = slots
                                                        /\ call.reply = "pending"
                               /\ call.op \in {"set", "delete"} =>
                                    \E i \in Slots, t \in Held : clean' => Undisturbed(i, t)
  <1>2. ASSUME NEW i \in Slots, NEW t \in Timer, SetTimer(c, i, t) PROVE Goal
    <2> DEFINE call == [Idle EXCEPT !.op = "set", !.pc = "dp", !.slot = i, !.timer = t,
                                    !.prior = IF live THEN slots[i] ELSE None]
    <2>1. Step(c, call) /\ call.op = "set" /\ call.pc = "dp" /\ (clean' => Undisturbed(i, t))
      BY <1>2 DEF SetTimer, Idle
    <2>2. t \in Held
      BY DEF Held
    <2> HIDE DEF call
    <2>3. Shaped(call)
      BY <2>1 DEF Shaped
    <2> QED BY <2>1, <2>2, <2>3
  <1>3. ASSUME NEW i \in Slots, DeleteTimer(c, i) PROVE Goal
    <2> DEFINE call == [Idle EXCEPT !.op = "delete", !.pc = "dp", !.slot = i,
                                    !.prior = IF live THEN slots[i] ELSE None]
    <2>1. /\ Step(c, call) /\ call.op = "delete" /\ call.pc = "dp"
          /\ clean' => Undisturbed(i, None)
      BY <1>3 DEF DeleteTimer, Idle
    <2>2. None \in Held
      BY DEF Held
    <2> HIDE DEF call
    <2>3. Shaped(call)
      BY <2>1 DEF Shaped
    <2> QED BY <2>1, <2>2, <2>3
  <1>4. ASSUME Resync(c) PROVE Goal
    <2> DEFINE call == [Idle EXCEPT !.op = "resync", !.pc = "get", !.snap = slots]
    <2>1. /\ Step(c, call) /\ call.op = "resync" /\ call.pc = "get" /\ call.snap = slots
          /\ call.reply = "pending"
      BY <1>4 DEF Resync, Idle
    <2> HIDE DEF call
    <2>2. Shaped(call)
      BY <2>1 DEF Shaped
    <2> QED BY <1>4, <2>1, <2>2
  <1>5. ASSUME Sweep(c) PROVE Goal
    <2> DEFINE call == [Idle EXCEPT !.op = "sweep", !.pc = "get"]
    <2>1. Step(c, call) /\ call.op = "sweep" /\ call.pc = "get"
      BY <1>5 DEF Sweep, Idle
    <2> HIDE DEF call
    <2>2. Shaped(call)
      BY <2>1 DEF Shaped
    <2> QED BY <2>1, <2>2
  <1>6. Goal
    BY <1>2, <1>3, <1>4, <1>5 DEF Start
  <1> QED BY <1>1, <1>6

LEMMA CleanOnlyFalls == ASSUME TypeOK, [Next]_vars PROVE clean' => clean
  <1>1. ASSUME NEW c \in Calls, Start(c) \/ Serve(c) \/ Resume(c) PROVE clean' => clean
    <2>1. CASE Start(c)
      BY <2>1 DEF Start, SetTimer, DeleteTimer, Resync, Sweep
    <2>2. CASE Serve(c)
      BY <2>2 DEF Serve, ServeDp, ServeGet, ServePost, ServeDel, Answer
    <2>3. CASE Resume(c)
      BY <2>3 DEF Resume, DpResume, GetResume, DelResume, PostResume, SweepResume, ResyncResume,
                  ClearResume
    <2> QED BY <1>1, <2>1, <2>2, <2>3
  <1>2. CASE Registry
    BY <1>2 DEF Registry, Arrive, Lose, Read, Dump, Load, Stop
  <1>3. CASE BreakerCloses \/ App \/ UNCHANGED vars
    BY <1>3 DEF BreakerCloses, App, AppSet, AppDelete, AppDisable, vars
  <1> QED BY <1>1, <1>2, <1>3 DEF Next

(* A call other than a resync moves: a resync in flight only suffers        *)
(* sweeps, and they touch neither the valve nor the registry.              *)
LEMMA OtherMoves ==
    ASSUME CallTypes, Sparing, clean' => clean, NEW c \in Calls, calls[c].op # "resync",
           NEW call, Step(c, call), call.op # "resync",
           call.op \in {"idle", "sweep"} \/ calls[c].op \notin {"idle", "sweep"},
           calls[c].op \in {"idle", "sweep"} => UNCHANGED <<dev, cloud>>
    PROVE  Sparing'
  <1>1. calls'[c] = call /\ \A d \in Calls : d # c => calls'[d] = calls[d]
    BY DEF CallTypes, Step
  <1> SUFFICES ASSUME clean', clean, NEW r \in Calls, calls'[r].op = "resync"
               PROVE  /\ \A d \in Calls \ {r} : calls'[d].op \in {"idle", "sweep"}
                      /\ Spares(calls'[r], dev', Entries')
    BY DEF Sparing
  <1>2. r # c /\ calls'[r] = calls[r]
    BY <1>1
  <1>3. /\ \A d \in Calls \ {r} : calls[d].op \in {"idle", "sweep"}
        /\ Spares(calls[r], dev, Entries)
    BY <1>2 DEF Sparing
  <1>4. UNCHANGED <<dev, cloud>>
    BY <1>2, <1>3
  <1>5. Entries' = Entries
    BY <1>4 DEF Entries
  <1>6. Spares(calls'[r], dev', Entries')
    BY <1>2, <1>3, <1>4, <1>5
  <1>7. \A d \in Calls \ {r} : calls'[d].op \in {"idle", "sweep"}
    BY <1>1, <1>2, <1>3
  <1> QED BY <1>6, <1>7

(* The resync itself moves.                                                *)
LEMMA ResyncMoves ==
    ASSUME CallTypes, Sparing, clean' => clean, NEW c \in Calls, calls[c].op = "resync",
           NEW call, Step(c, call),
           clean' /\ call.op = "resync" => Spares(call, dev', Entries')
    PROVE  Sparing'
  <1>1. calls'[c] = call /\ \A d \in Calls : d # c => calls'[d] = calls[d]
    BY DEF CallTypes, Step
  <1> SUFFICES ASSUME clean', clean, NEW r \in Calls, calls'[r].op = "resync"
               PROVE  /\ \A d \in Calls \ {r} : calls'[d].op \in {"idle", "sweep"}
                      /\ Spares(calls'[r], dev', Entries')
    BY DEF Sparing
  <1>2. \A d \in Calls \ {c} : calls[d].op \in {"idle", "sweep"}
    BY DEF Sparing
  <1>3. r = c
    BY <1>1, <1>2
  <1> QED BY <1>1, <1>2, <1>3

LEMMA KeepSparing ==
    ASSUME Sparing, clean' => clean, UNCHANGED <<calls, dev, cloud>> PROVE Sparing'
  <1>1. Entries' = Entries
    BY DEF Entries
  <1> QED BY <1>1 DEF Sparing

LEMMA StartSpares ==
    ASSUME TypeOK, AllShaped, Sparing, clean' => clean, NEW c \in Calls, Start(c)
    PROVE  AllShaped' /\ Sparing'
  <1>1. CallTypes
    BY DEF TypeOK
  <1>2. PICK call : /\ Step(c, call) /\ Shaped(call)
                    /\ call.op = "resync" => /\ Resync(c) /\ call.pc = "get"
                                             /\ call.snap = slots /\ call.reply = "pending"
                    /\ call.op \in {"set", "delete"} =>
                          \E i \in Slots, t \in Held : clean' => Undisturbed(i, t)
    BY StartCall
  <1>3. calls[c].op = "idle"
    BY StartCall
  <1>4. UNCHANGED <<dev, cloud>>
    BY DEF Start, SetTimer, DeleteTimer, Resync, Sweep, KeepWorld, device
  <1>5. Entries' = Entries
    BY <1>4 DEF Entries
  <1>6. calls'[c] = call /\ \A d \in Calls : d # c => calls'[d] = calls[d]
    BY <1>1, <1>2 DEF CallTypes, Step
  <1>7. Sparing'
    <2> SUFFICES ASSUME clean', clean, NEW r \in Calls, calls'[r].op = "resync"
                 PROVE  /\ \A d \in Calls \ {r} : calls'[d].op \in {"idle", "sweep"}
                        /\ Spares(calls'[r], dev', Entries')
      BY DEF Sparing
    <2>1. CASE r = c
      <3>1. call.op = "resync" /\ Resync(c)
        BY <1>2, <1>6, <2>1
      <3>2. NoCalls /\ slots = dev
        BY <3>1 DEF Resync, Settled
      <3>3. Spares(call, dev', Entries')
        BY <1>2, <1>4, <3>1, <3>2 DEF Spares
      <3> QED BY <1>6, <2>1, <3>2, <3>3 DEF NoCalls
    <2>2. CASE r # c
      <3>1. calls[r].op = "resync" /\ calls'[r] = calls[r]
        BY <1>6, <2>2
      <3>2. \A d \in Calls \ {r} : calls[d].op \in {"idle", "sweep"}
        BY <3>1 DEF Sparing
      <3>3. Spares(calls'[r], dev', Entries')
        BY <1>4, <1>5, <3>1 DEF Sparing
      <3>4. call.op \notin {"set", "delete"}
        BY <1>2, <3>1 DEF Undisturbed
      <3>5. call.op # "resync"
        BY <1>2, <3>1 DEF Resync, Settled, NoCalls
      <3>6. call.op \in {"idle", "sweep", "set", "delete", "resync"}
        <4>1. calls' \in [Calls -> Call]
          BY StartTypes DEF TypeOK, CallTypes
        <4> QED BY <1>6, <4>1 DEF Call
      <3> QED BY <1>6, <2>2, <3>2, <3>3, <3>4, <3>5, <3>6
    <2> QED BY <2>1, <2>2
  <1> QED BY <1>1, <1>2, <1>7, ShapedMoves

LEMMA ServeSpares ==
    ASSUME TypeOK, AllShaped, Sparing, clean' => clean, NEW c \in Calls, Serve(c)
    PROVE  AllShaped' /\ Sparing'
  <1>0. CallTypes /\ calls[c] \in Call /\ Shaped(calls[c]) /\ CallShape(calls[c])
    BY DEF TypeOK, CallTypes, AllShaped, CallShapes
  <1>1. ASSUME NEW reply \in {"ok", "failed"}, NEW taken \in BOOLEAN, reply = "ok" => taken,
               ServeDp(c, reply, taken)
        PROVE  AllShaped' /\ Sparing'
    <2> DEFINE call == [calls[c] EXCEPT !.reply = reply]
    <2>1. /\ Step(c, call) /\ call.op = calls[c].op /\ call.pc = calls[c].pc
          /\ call.slot = calls[c].slot /\ call.timer = calls[c].timer
          /\ call.orphans = calls[c].orphans
      BY <1>0, <1>1 DEF ServeDp, Replied, Call
    <2>2. calls[c].pc \in {"dp", "clr"}
      BY <1>1 DEF ServeDp, WritesDp
    <2>3. clean' => reply = "ok"
      BY <1>1 DEF ServeDp, Answer
    <2> HIDE DEF call
    <2>4. Shaped(call)
      BY <1>0, <2>1 DEF Shaped
    <2>5. CASE calls[c].op # "resync"
      <3>1. calls[c].op \in {"set", "delete"}
        BY <1>0, <2>2, <2>5 DEF Shaped
      <3> QED BY <1>0, <2>1, <2>4, <2>5, <3>1, OtherMoves, ShapedMoves
    <2>6. CASE calls[c].op = "resync"
      <3>1. calls[c].pc = "clr" /\ calls[c].timer = None
        BY <1>0, <2>2, <2>6 DEF Shaped
      <3>2. ASSUME clean' PROVE Spares(call, dev', Entries')
        <4>1. DeviceTakes(FrameOf(c)) /\ cloud' = cloud
          BY <1>1, <2>3, <3>2 DEF ServeDp
        <4>2. Entries' = Entries
          BY <4>1 DEF Entries
        <4>3. \A i \in Slots : dev'[i] # None => dev'[i] = dev[i]
          BY <3>1, <4>1 DEF DeviceTakes, FrameOf, TypeOK, WorldTypes
        <4>4. Spares(calls[c], dev, Entries)
          BY <2>6, <3>2 DEF Sparing
        <4>5. calls[c].orphans \cup {calls[c].slot} \subseteq Slots
          BY <1>0 DEF Call
        <4> QED BY <2>1, <3>1, <4>2, <4>3, <4>4, <4>5 DEF Spares
      <3> QED BY <1>0, <2>1, <2>4, <2>6, <3>2, ResyncMoves, ShapedMoves
    <2> QED BY <2>5, <2>6
  <1>2. ASSUME NEW reply \in {"ok", "failed", "quota"}, NEW list \in {Entries, {}},
               ServeGet(c, reply, list)
        PROVE  AllShaped' /\ Sparing'
    <2> DEFINE call == [calls[c] EXCEPT !.reply = reply, !.list = list]
    <2>1. /\ Step(c, call) /\ call.op = calls[c].op /\ call.pc = "get" /\ calls[c].pc = "get"
          /\ call.snap = calls[c].snap /\ call.list = list
      BY <1>0, <1>2 DEF ServeGet, Call
    <2>2. UNCHANGED <<dev, cloud>>
      BY <1>2 DEF ServeGet, KeepWorld, device
    <2> HIDE DEF call
    <2>3. Shaped(call)
      BY <1>0, <2>1 DEF Shaped
    <2>4. Entries' = Entries
      BY <2>2 DEF Entries
    <2>5. CASE calls[c].op # "resync"
      BY <1>0, <2>1, <2>2, <2>3, <2>5, OtherMoves, ShapedMoves
    <2>6. CASE calls[c].op = "resync"
      <3>1. ASSUME clean' PROVE Spares(call, dev', Entries')
        <4>1. calls[c].snap = dev
          BY <2>1, <2>6, <3>1 DEF Sparing, Spares
        <4> QED BY <2>1, <2>2, <2>4, <4>1 DEF Spares
      <3> QED BY <1>0, <2>1, <2>3, <2>6, <3>1, ResyncMoves, ShapedMoves
    <2> QED BY <2>5, <2>6
  <1>3. ASSUME NEW reply, NEW taken, ServePost(c, reply, taken)
        PROVE  AllShaped' /\ Sparing'
    <2> DEFINE call == [calls[c] EXCEPT !.reply = reply]
    <2>1. /\ Step(c, call) /\ call.op = calls[c].op /\ call.pc = "post"
          /\ calls[c].pc = "post"
      BY <1>0, <1>3 DEF ServePost, Replied, Call
    <2> HIDE DEF call
    <2>2. calls[c].op = "set"
      BY <1>0, <2>1 DEF CallShape
    <2>3. Shaped(call)
      BY <2>1, <2>2 DEF Shaped
    <2> QED BY <1>0, <2>1, <2>2, <2>3, OtherMoves, ShapedMoves
  <1>4. ASSUME NEW reply, NEW taken, ServeDel(c, reply, taken)
        PROVE  AllShaped' /\ Sparing'
    <2>1. PICK e \in calls[c].list :
             Step(c, [calls[c] EXCEPT !.reply = reply, !.list = @ \ {e}])
      BY <1>4 DEF ServeDel
    <2> DEFINE call == [calls[c] EXCEPT !.reply = reply, !.list = @ \ {e}]
    <2>2. /\ Step(c, call) /\ call.op = calls[c].op /\ call.pc = "del" /\ calls[c].pc = "del"
      BY <1>0, <1>4, <2>1 DEF ServeDel, Call
    <2> HIDE DEF call
    <2>3. calls[c].op \in {"set", "delete"}
      BY <1>0, <2>2 DEF Shaped
    <2>4. Shaped(call)
      BY <2>2, <2>3 DEF Shaped
    <2> QED BY <1>0, <2>2, <2>3, <2>4, OtherMoves, ShapedMoves
  <1> QED BY <1>1, <1>2, <1>3, <1>4 DEF Serve

LEMMA ResumeSpares ==
    ASSUME TypeOK, AllShaped, Sparing, clean' => clean, NEW c \in Calls, Resume(c)
    PROVE  AllShaped' /\ Sparing'
  <1>0. CallTypes /\ calls[c] \in Call /\ Shaped(calls[c]) /\ CallShape(calls[c])
    BY DEF TypeOK, CallTypes, AllShaped, CallShapes
  <1>1. UNCHANGED <<dev, cloud>>
    BY DEF Resume, DpResume, GetResume, DelResume, PostResume, SweepResume, ResyncResume,
           ClearResume, KeepWorld, device
  <1>2. Entries' = Entries
    BY <1>1 DEF Entries
  <1>3. Shaped(Idle) /\ Idle.op = "idle"
    BY DEF Shaped, Idle
  <1>4. CASE DpResume(c) \/ GetResume(c) \/ DelResume(c) \/ PostResume(c)
    <2>1. /\ calls[c].op \in {"set", "delete"}
          /\ \/ Finish(c)
             \/ \E call : /\ Step(c, call) /\ call.op \in {"set", "delete"}
                          /\ call.pc \in {"get", "del", "post"}
      BY <1>0, <1>4, WriterResumes
    <2>2. CASE Finish(c)
      <3>1. Step(c, Idle)
        BY <2>2 DEF Finish
      <3> HIDE DEF Idle
      <3> QED BY <1>0, <1>3, <2>1, <3>1, OtherMoves, ShapedMoves
    <2>3. ASSUME NEW call, Step(c, call), call.op \in {"set", "delete"},
                 call.pc \in {"get", "del", "post"}
          PROVE  AllShaped' /\ Sparing'
      <3>1. Shaped(call)
        BY <2>3 DEF Shaped
      <3> QED BY <1>0, <2>1, <2>3, <3>1, OtherMoves, ShapedMoves
    <2> QED BY <2>1, <2>2, <2>3
  <1>5. CASE SweepResume(c)
    <2>1. calls[c].op = "sweep" /\ Step(c, Idle)
      BY <1>5 DEF SweepResume, Finish
    <2> QED BY <1>0, <1>1, <1>3, <2>1, OtherMoves, ShapedMoves
  <1>6. ASSUME calls[c].op = "resync", NEW orphans,
               clean => \A i \in orphans : dev[i] # None => \A e \in Entries : e.key # dev[i].key,
               ClearFirst(c, orphans)
        PROVE  AllShaped' /\ Sparing'
    <2>1. CASE Finish(c)
      <3>1. Step(c, Idle)
        BY <2>1 DEF Finish
      <3> QED BY <1>0, <1>3, <1>6, <3>1, ResyncMoves, ShapedMoves
    <2>2. ASSUME NEW call, Step(c, call), call.op = "resync", call.pc = "clr",
                 call.timer = None, call.slot \in orphans, call.orphans \subseteq orphans
          PROVE  AllShaped' /\ Sparing'
      <3>1. Shaped(call)
        BY <2>2 DEF Shaped
      <3>2. clean' => Spares(call, dev', Entries')
        BY <1>1, <1>2, <1>6, <2>2 DEF Spares
      <3> QED BY <1>0, <1>6, <2>2, <3>1, <3>2, ResyncMoves, ShapedMoves
    <2> QED BY <1>6, <2>1, <2>2, ClearFirstCall
  <1>7. CASE ResyncResume(c)
    <2>1. calls[c].op = "resync" /\ calls[c].pc = "get"
      BY <1>7 DEF ResyncResume, Resumes
    <2>2. CASE Finish(c)
      <3>1. Step(c, Idle)
        BY <2>2 DEF Finish
      <3> QED BY <1>0, <1>3, <2>1, <3>1, ResyncMoves, ShapedMoves
    <2>3. CASE ~Finish(c)
      <3> DEFINE list == calls[c].list
                 orphans == Orphans(calls[c].snap, list)
      <3>1. calls[c].reply = "ok" /\ MayClear(list) /\ ClearFirst(c, orphans)
        BY <1>7, <2>3 DEF ResyncResume
      <3>2. ASSUME clean PROVE \A i \in orphans : \A e \in Entries : e.key # dev[i].key
        <4>1. calls[c].snap = dev /\ list \in {{}, Entries}
          BY <2>1, <3>1, <3>2 DEF Sparing, Spares
        <4>2. list = Entries
          BY <3>1, <4>1 DEF MayClear
        <4> QED BY <4>1, <4>2 DEF Orphans, KeysOf
      <3> HIDE DEF orphans
      <3> QED BY <1>6, <2>1, <3>1, <3>2
    <2> QED BY <2>2, <2>3
  <1>8. CASE ClearResume(c)
    <2>1. calls[c].pc = "clr" /\ ClearFirst(c, calls[c].orphans)
      BY <1>8 DEF ClearResume, Resumes
    <2>2. calls[c].op = "resync"
      BY <1>0, <2>1 DEF Shaped
    <2>3. clean => \A i \in calls[c].orphans : dev[i] # None =>
                      \A e \in Entries : e.key # dev[i].key
      BY <2>1, <2>2 DEF Sparing, Spares
    <2> QED BY <1>6, <2>1, <2>2, <2>3
  <1> QED BY <1>4, <1>5, <1>7, <1>8 DEF Resume

LEMMA NextSpares ==
    ASSUME TypeOK, AllShaped, Sparing, [Next]_vars
    PROVE  AllShaped' /\ Sparing'
  <1>0. clean' => clean
    BY CleanOnlyFalls
  <1>1. ASSUME NEW c \in Calls, Start(c) \/ Serve(c) \/ Resume(c)
        PROVE  AllShaped' /\ Sparing'
    BY <1>0, <1>1, StartSpares, ServeSpares, ResumeSpares
  <1>2. CASE UNCHANGED <<calls, dev, cloud>>
    BY <1>0, <1>2, KeepSparing DEF AllShaped
  <1>3. CASE Registry
    <2>1. ASSUME NEW graceful \in BOOLEAN, Stop(graceful) PROVE AllShaped' /\ Sparing'
      <3>1. calls' = [c \in Calls |-> Idle]
        BY <2>1 DEF Stop
      <3> QED BY <3>1 DEF AllShaped, Shaped, Sparing, Idle
    <2> QED BY <1>2, <1>3, <2>1 DEF Registry, Arrive, Lose, Read, Dump, Load, device
  <1>4. CASE App
    <2>1. UNCHANGED calls /\ (clean' => NoCalls)
      BY <1>4 DEF App, AppSet, AppDelete, AppDisable
    <2> QED BY <2>1 DEF NoCalls, AllShaped, Sparing
  <1>5. CASE BreakerCloses \/ UNCHANGED vars
    BY <1>2, <1>5 DEF BreakerCloses, vars, device
  <1> QED BY <1>1, <1>3, <1>4, <1>5 DEF Next

(* What a resync clears it has judged: the slots still to clear are enabled *)
(* in its snapshot, and none has a time and days of its listing, which is  *)
(* not empty.                                                              *)
Judged(call, orphans) ==
    /\ call.list # {}
    /\ \A i \in orphans : /\ Enabled(call.snap[i])
                          /\ \A e \in call.list : e.key # call.snap[i].key

Convicts(call) ==
    call.op = "resync" /\ call.pc = "clr" => Judged(call, call.orphans \cup {call.slot})

AllConvict == \A c \in Calls : Convicts(calls[c])

LEMMA ConvictMoves ==
    ASSUME CallTypes, AllConvict, NEW c \in Calls, NEW call, Step(c, call), Convicts(call)
    PROVE  AllConvict'
  BY DEF CallTypes, AllConvict, Step

LEMMA ServeConvicts ==
    ASSUME TypeOK, AllShaped, AllConvict, NEW c \in Calls, Serve(c)
    PROVE  AllConvict'
  <1>0. CallTypes /\ calls[c] \in Call /\ Shaped(calls[c]) /\ Convicts(calls[c])
    BY DEF TypeOK, CallTypes, AllShaped, AllConvict
  <1>1. ASSUME NEW reply \in {"ok", "failed", "quota"}, Replied(c, reply) PROVE AllConvict'
    <2> DEFINE call == [calls[c] EXCEPT !.reply = reply]
    <2>1. /\ Step(c, call) /\ call.op = calls[c].op /\ call.pc = calls[c].pc
          /\ call.slot = calls[c].slot /\ call.orphans = calls[c].orphans
          /\ call.snap = calls[c].snap /\ call.list = calls[c].list
      BY <1>0, <1>1 DEF Replied, Call
    <2> HIDE DEF call
    <2>2. Convicts(call)
      BY <1>0, <2>1 DEF Convicts, Judged
    <2> QED BY <1>0, <2>1, <2>2, ConvictMoves
  <1>2. ASSUME NEW reply \in {"ok", "failed", "quota"}, NEW list, ServeGet(c, reply, list)
        PROVE  AllConvict'
    <2> DEFINE call == [calls[c] EXCEPT !.reply = reply, !.list = list]
    <2>1. Step(c, call) /\ call.pc = "get"
      BY <1>0, <1>2 DEF ServeGet, Call
    <2> HIDE DEF call
    <2>2. Convicts(call)
      BY <2>1 DEF Convicts
    <2> QED BY <1>0, <2>1, <2>2, ConvictMoves
  <1>3. ASSUME NEW reply, NEW taken, ServeDel(c, reply, taken) PROVE AllConvict'
    <2>1. PICK e \in calls[c].list :
             Step(c, [calls[c] EXCEPT !.reply = reply, !.list = @ \ {e}])
      BY <1>3 DEF ServeDel
    <2> DEFINE call == [calls[c] EXCEPT !.reply = reply, !.list = @ \ {e}]
    <2>2. Step(c, call) /\ call.pc = "del"
      BY <1>0, <1>3, <2>1 DEF ServeDel, Call
    <2> HIDE DEF call
    <2>3. Convicts(call)
      BY <2>2 DEF Convicts
    <2> QED BY <1>0, <2>2, <2>3, ConvictMoves
  <1>4. \/ \E reply \in {"ok", "failed", "quota"} : Replied(c, reply)
        \/ \E reply \in {"ok", "failed", "quota"} : \E list : ServeGet(c, reply, list)
        \/ \E reply : \E taken : ServeDel(c, reply, taken)
    BY DEF Serve, ServeDp, ServePost
  <1> QED BY <1>1, <1>2, <1>3, <1>4

LEMMA ResumeConvicts ==
    ASSUME TypeOK, AllShaped, AllConvict, NEW c \in Calls, Resume(c)
    PROVE  AllConvict'
  <1>0. CallTypes /\ calls[c] \in Call /\ Shaped(calls[c]) /\ Convicts(calls[c])
    BY DEF TypeOK, CallTypes, AllShaped, AllConvict
  <1>1. ASSUME Finish(c) PROVE AllConvict'
    <2>1. Step(c, Idle) /\ Convicts(Idle)
      BY <1>1 DEF Finish, Convicts, Idle
    <2> HIDE DEF Idle
    <2> QED BY <1>0, <2>1, ConvictMoves
  <1>2. CASE DpResume(c) \/ GetResume(c) \/ DelResume(c) \/ PostResume(c)
    <2>1. \/ Finish(c)
          \/ \E call : /\ Step(c, call) /\ call.op \in {"set", "delete"}
                       /\ call.pc \in {"get", "del", "post"}
      BY <1>0, <1>2, WriterResumes DEF TypeOK, CallShapes
    <2>2. ASSUME NEW call, Step(c, call), call.op \in {"set", "delete"} PROVE AllConvict'
      <3>1. Convicts(call)
        BY <2>2 DEF Convicts
      <3> QED BY <1>0, <2>2, <3>1, ConvictMoves
    <2> QED BY <1>1, <2>1, <2>2
  <1>3. CASE SweepResume(c)
    BY <1>1, <1>3 DEF SweepResume
  <1>4. ASSUME NEW orphans, Judged(calls[c], orphans), ClearFirst(c, orphans)
        PROVE  AllConvict'
    <2>1. ASSUME NEW call, Step(c, call), call.slot \in orphans,
                 call.orphans \subseteq orphans, call.snap = calls[c].snap,
                 call.list = calls[c].list
          PROVE  AllConvict'
      <3>1. Convicts(call)
        BY <1>4, <2>1 DEF Convicts, Judged
      <3> QED BY <1>0, <2>1, <3>1, ConvictMoves
    <2> QED BY <1>1, <1>4, <2>1, ClearFirstCall
  <1>5. CASE ResyncResume(c)
    <2> DEFINE list == calls[c].list
               orphans == Orphans(calls[c].snap, list)
    <2>1. CASE ~Finish(c)
      <3>1. MayClear(list) /\ ClearFirst(c, orphans)
        BY <1>5, <2>1 DEF ResyncResume
      <3>2. Judged(calls[c], orphans)
        BY <3>1 DEF MayClear, Judged, Orphans, ActiveSlots, KeysOf
      <3> HIDE DEF orphans
      <3> QED BY <1>4, <3>1, <3>2
    <2> QED BY <1>1, <2>1
  <1>6. CASE ClearResume(c)
    <2>1. ClearFirst(c, calls[c].orphans) /\ calls[c].pc = "clr"
      BY <1>6 DEF ClearResume, Resumes
    <2>2. calls[c].op = "resync"
      BY <1>0, <2>1 DEF Shaped
    <2>3. Judged(calls[c], calls[c].orphans)
      BY <1>0, <2>1, <2>2 DEF Convicts, Judged
    <2> QED BY <1>4, <2>1, <2>3
  <1> QED BY <1>2, <1>3, <1>5, <1>6 DEF Resume

LEMMA NextConvicts ==
    ASSUME TypeOK, AllShaped, AllConvict, [Next]_vars
    PROVE  AllConvict'
  <1>1. ASSUME NEW c \in Calls, Start(c) PROVE AllConvict'
    <2>1. PICK call : Step(c, call) /\ (call.op = "resync" => call.pc = "get")
      BY <1>1, StartCall
    <2>2. Convicts(call)
      BY <2>1 DEF Convicts
    <2> QED BY <2>1, <2>2, ConvictMoves DEF TypeOK
  <1>2. CASE UNCHANGED calls
    BY <1>2 DEF AllConvict
  <1>3. CASE Registry
    <2>1. ASSUME NEW graceful \in BOOLEAN, Stop(graceful) PROVE AllConvict'
      BY <2>1 DEF Stop, AllConvict, Convicts, Idle
    <2> QED BY <1>2, <1>3, <2>1 DEF Registry, Arrive, Lose, Read, Dump, Load
  <1>4. CASE App \/ BreakerCloses \/ UNCHANGED vars
    BY <1>2, <1>4 DEF App, AppSet, AppDelete, AppDisable, BreakerCloses, vars
  <1> QED BY <1>1, <1>3, <1>4, ServeConvicts, ResumeConvicts DEF Next

(* A resync that starts settled, and that no set, delete or edit overlaps, *)
(* clears no slot of the valve the registry lists, for any number of slots *)
(* and entries, though it judges a snapshot it took before the listing.    *)
(* Whatever overlaps it, any number of calls, edits, reports and failures, *)
(* a slot that still holds what the snapshot read is cleared only when it  *)
(* is enabled, and only on a listing that is not empty and has nothing at  *)
(* its time and days (resync_from_cloud).                                  *)
THEOREM ResyncSpares == Spec => ResyncSparesListed
  <1> DEFINE Spared ==
        \A c \in Calls : \A i \in Slots : ResyncClears(c, i) =>
           /\ clean => \A e \in Entries : e.key # dev[i].key
           /\ calls[c].snap[i] = dev[i] =>
                /\ dev[i].on /\ calls[c].list # {}
                /\ \A e \in calls[c].list : e.key # dev[i].key
  <1>1. Init => AllShaped /\ Sparing /\ AllConvict
    BY DEF Init, AllShaped, Shaped, Sparing, AllConvict, Convicts, Idle
  <1>2. /\ TypeOK /\ AllShaped /\ Sparing /\ [Next]_vars => AllShaped' /\ Sparing'
        /\ TypeOK /\ AllShaped /\ AllConvict /\ [Next]_vars => AllConvict'
    BY NextSpares, NextConvicts
  <1>3. ASSUME Sparing, AllConvict, NEW c \in Calls, NEW i \in Slots, ResyncClears(c, i)
        PROVE  /\ clean => \A e \in Entries : e.key # dev[i].key
               /\ calls[c].snap[i] = dev[i] =>
                     /\ dev[i].on /\ calls[c].list # {}
                     /\ \A e \in calls[c].list : e.key # dev[i].key
    <2>1. clean => \A e \in Entries : e.key # dev[i].key
      BY <1>3 DEF Sparing, Spares, ResyncClears
    <2>2. Judged(calls[c], {i})
      BY <1>3 DEF AllConvict, Convicts, Judged, ResyncClears
    <2> QED BY <2>1, <2>2 DEF Judged, Enabled
  <1>4. Sparing /\ AllConvict => [Spared]_vars
    BY <1>3
  <1> HIDE DEF Spared
  <1>5. Spec => [][Spared]_vars
    BY <1>1, <1>2, <1>4, TypeCorrect, PTL DEF Spec
  <1> QED BY <1>5 DEF Spared, ResyncSparesListed

-----------------------------------------------------------------------------
(* What a writer has done so far, while nothing failed                     *)

Writing(call) == call.op \in {"set", "delete"}

(* the times and days a writer concerns                                    *)
Mine(call) == KeyOf(call.timer) \cup KeyOf(call.prior)

Listed(k, entries) == \E e \in entries : e.key = k

Watered(k, held) == \E i \in Slots : Enabled(held[i]) /\ held[i].key = k

(* What the cloud lists of a writer's keys at each of its awaits.          *)
Phase(call, entries) ==
    /\ call.pc \in {"dp", "get"} =>
          \A k \in Mine(call) :
             Listed(k, entries) <=> (Enabled(call.prior) /\ k = call.prior.key)
    /\ call.pc \in {"get", "del"} => call.prior # None
    /\ call.pc = "get" /\ call.reply = "ok" =>
          {e \in call.list : e.key = call.prior.key} = {e \in entries : e.key = call.prior.key}
    /\ call.pc = "del" =>
          /\ call.list = {e \in entries : e.key = call.prior.key}
          /\ \A k \in Mine(call) : Listed(k, entries) => k = call.prior.key
    /\ call.pc = "post" =>
          /\ call.op = "set" /\ call.timer.on
          /\ \A k \in Mine(call) :
                Listed(k, entries) <=> (call.reply = "ok" /\ k = call.timer.key)

(* The valve holds what the call read until it takes the write, and no     *)
(* other slot has the times and days of the call.                          *)
HalfDone(call, held, entries) ==
    /\ call.reply \in {"pending", "ok"}
    /\ call.op = "delete" => call.timer = None
    /\ held[call.slot] = IF call.pc = "dp" /\ call.reply = "pending" THEN call.prior
                         ELSE call.timer
    /\ \A j \in Slots \ {call.slot} : KeyOf(held[j]) \cap Mine(call) = {}
    /\ Phase(call, entries)

OncePerKey(entries) == \A e, f \in entries : e.key = f.key => e = f

Separate(cs) ==
    \A c, d \in Calls : Writing(cs[c]) /\ Writing(cs[d]) /\ c # d =>
        cs[c].slot # cs[d].slot /\ Mine(cs[c]) \cap Mine(cs[d]) = {}

(* Outside the keys of the writers the cloud lists what waters.            *)
ElsewhereEqual(held, entries, cs) ==
    \A k \in Keys : (\A c \in Calls : Writing(cs[c]) => k \notin Mine(cs[c])) =>
        (Listed(k, entries) <=> Watered(k, held))

Agree(held, entries, cs) ==
    /\ OncePerKey(entries) /\ DistinctKeys(held)
    /\ Separate(cs) /\ ElsewhereEqual(held, entries, cs)
    /\ \A c \in Calls : Writing(cs[c]) => HalfDone(cs[c], held, entries)
    /\ \A c \in Calls : cs[c].op = "resync" => cs[c].pc = "get"

OwnGids == \A g \in Gids : cloud[g] # None => cloud[g].gid = g

CloudAgrees == clean /\ hub = "mirror" => Agree(dev, Entries, calls)

LEMMA MineKeys ==
    ASSUME NEW call \in Call PROVE Mine(call) \in SUBSET Keys
  BY NoneAssumption DEF Mine, KeyOf, Call, Held, Timer

(* A writer goes on: only its slot, its keys and its record change.        *)
LEMMA WriterMoves ==
    ASSUME NEW held \in [Slots -> Held], NEW heldAfter \in [Slots -> Held],
           NEW entries, NEW entriesAfter,
           NEW cs \in [Calls -> Call], NEW c \in Calls, NEW call \in Call,
           Agree(held, entries, cs), Writing(cs[c]),
           call.op = cs[c].op, call.slot = cs[c].slot, call.timer = cs[c].timer,
           call.prior = cs[c].prior,
           \A j \in Slots \ {call.slot} : heldAfter[j] = held[j],
           \A e : e.key \notin Mine(call) => (e \in entries <=> e \in entriesAfter),
           OncePerKey(entriesAfter),
           KeyOf(heldAfter[call.slot]) \subseteq Mine(call),
           HalfDone(call, heldAfter, entriesAfter)
    PROVE  Agree(heldAfter, entriesAfter, [cs EXCEPT ![c] = call])
  <1> DEFINE after == [cs EXCEPT ![c] = call]
  <1>1. /\ after[c] = call /\ \A d \in Calls : d # c => after[d] = cs[d]
        /\ Mine(call) = Mine(cs[c]) /\ Writing(call)
    BY DEF Mine, Writing
  <1>2. call.slot \in Slots /\ KeyOf(held[call.slot]) \subseteq Mine(call)
    <2>1. held[cs[c].slot] \in {cs[c].prior, cs[c].timer}
      BY DEF Agree, HalfDone
    <2> QED BY <1>1, <2>1 DEF Call, Mine
  <1> HIDE DEF after
  <1>3. \A k : k \notin Mine(call) => (Listed(k, entriesAfter) <=> Listed(k, entries))
    BY DEF Listed
  <1>4. \A j \in Slots \ {call.slot} : KeyOf(held[j]) \cap Mine(call) = {}
    BY <1>1 DEF Agree, HalfDone
  <1>5. \A k \in Keys : k \notin Mine(call) => (Watered(k, heldAfter) <=> Watered(k, held))
    <2> SUFFICES ASSUME NEW k \in Keys, k \notin Mine(call)
                 PROVE  Watered(k, heldAfter) <=> Watered(k, held)
      OBVIOUS
    <2>1. ASSUME NEW i \in Slots, Enabled(heldAfter[i]), heldAfter[i].key = k PROVE Watered(k, held)
      <3>1. i # call.slot
        BY <2>1 DEF KeyOf, Enabled
      <3>2. heldAfter[i] = held[i]
        BY <3>1
      <3> QED BY <2>1, <3>2 DEF Watered
    <2>2. ASSUME NEW i \in Slots, Enabled(held[i]), held[i].key = k PROVE Watered(k, heldAfter)
      <3>1. i # call.slot
        BY <2>2, <1>2 DEF KeyOf, Enabled
      <3>2. heldAfter[i] = held[i]
        BY <3>1
      <3> QED BY <2>2, <3>2 DEF Watered
    <2> QED BY <2>1, <2>2 DEF Watered
  <1>6. DistinctKeys(heldAfter)
    <2> SUFFICES ASSUME NEW i \in Slots, NEW j \in Slots, i # j, heldAfter[i] # None,
                        heldAfter[j] # None
                 PROVE  heldAfter[i].key # heldAfter[j].key
      BY DEF DistinctKeys
    <2>1. ASSUME NEW m \in Slots, NEW n \in Slots, m = call.slot, n # m,
                 heldAfter[m] # None, heldAfter[n] # None
          PROVE  heldAfter[m].key # heldAfter[n].key
      <3>1. heldAfter[m].key \in Mine(call)
        BY <2>1 DEF KeyOf
      <3>2. heldAfter[n].key \notin Mine(call)
        BY <2>1, <1>4 DEF KeyOf
      <3> QED BY <3>1, <3>2
    <2>2. CASE i = call.slot
      BY <2>1, <2>2
    <2>3. CASE j = call.slot
      BY <2>1, <2>3
    <2>4. CASE i # call.slot /\ j # call.slot
      <3>1. DistinctKeys(held)
        BY DEF Agree
      <3> QED BY <2>4, <3>1 DEF DistinctKeys
    <2> QED BY <2>2, <2>3, <2>4
  <1>7. Separate(after)
    <2>1. Separate(cs)
      BY DEF Agree
    <2>2. ASSUME NEW a \in Calls
          PROVE  after[a].slot = cs[a].slot /\ Mine(after[a]) = Mine(cs[a])
                 /\ (Writing(after[a]) <=> Writing(cs[a]))
      BY <1>1 DEF Writing
    <2> QED BY <2>1, <2>2 DEF Separate
  <1>8. ElsewhereEqual(heldAfter, entriesAfter, after)
    <2> SUFFICES ASSUME NEW k \in Keys,
                        \A d \in Calls : Writing(after[d]) => k \notin Mine(after[d])
                 PROVE  Listed(k, entriesAfter) <=> Watered(k, heldAfter)
      BY DEF ElsewhereEqual
    <2>1. k \notin Mine(call)
      BY <1>1
    <2>2. \A d \in Calls : Writing(cs[d]) => k \notin Mine(cs[d])
      BY <1>1
    <2>3. Listed(k, entries) <=> Watered(k, held)
      BY <2>2 DEF Agree, ElsewhereEqual
    <2> QED BY <1>3, <1>5, <2>1, <2>3
  <1>9. ASSUME NEW d \in Calls, Writing(after[d])
        PROVE  HalfDone(after[d], heldAfter, entriesAfter)
    <2>1. CASE d = c
      BY <1>1, <2>1
    <2>2. CASE d # c
      <3> DEFINE other == cs[d]
      <3>1. after[d] = other /\ Writing(other) /\ HalfDone(other, held, entries)
        BY <1>1, <1>9, <2>2 DEF Agree
      <3>2. other.slot # call.slot /\ Mine(other) \cap Mine(call) = {}
        BY <1>1, <2>2, <3>1 DEF Agree, Separate
      <3>3. other \in Call
        OBVIOUS
      <3> HIDE DEF other
      <3>4. other.slot \in Slots /\ heldAfter[other.slot] = held[other.slot]
        BY <3>2, <3>3 DEF Call
      <3>5. \A j \in Slots \ {other.slot} : KeyOf(heldAfter[j]) \cap Mine(other) = {}
        <4> SUFFICES ASSUME NEW j \in Slots \ {other.slot}
                     PROVE  KeyOf(heldAfter[j]) \cap Mine(other) = {}
          OBVIOUS
        <4>1. CASE j = call.slot
          BY <3>2, <4>1
        <4>2. CASE j # call.slot
          BY <3>1, <4>2 DEF HalfDone
        <4> QED BY <4>1, <4>2
      <3>6. \A k \in Mine(other) : Listed(k, entriesAfter) <=> Listed(k, entries)
        BY <1>3, <3>2
      <3>7. other.prior # None => other.prior.key \in Mine(other)
        BY DEF Mine, KeyOf
      <3>8. other.prior # None =>
              {e \in entriesAfter : e.key = other.prior.key} = {e \in entries : e.key = other.prior.key}
        BY <3>2, <3>7
      <3>9. Phase(other, entriesAfter)
        <4>1. Phase(other, entries)
          BY <3>1 DEF HalfDone
        <4>2. other.pc \in {"dp", "get"} =>
                \A k \in Mine(other) :
                  Listed(k, entriesAfter) <=> (Enabled(other.prior) /\ k = other.prior.key)
          BY <3>6, <4>1 DEF Phase
        <4>3. other.pc = "get" /\ other.reply = "ok" =>
                {e \in other.list : e.key = other.prior.key}
                    = {e \in entriesAfter : e.key = other.prior.key}
          BY <3>8, <4>1 DEF Phase
        <4>4. other.pc = "del" =>
                /\ other.list = {e \in entriesAfter : e.key = other.prior.key}
                /\ \A k \in Mine(other) : Listed(k, entriesAfter) => k = other.prior.key
          BY <3>6, <3>8, <4>1 DEF Phase
        <4>5. other.pc = "post" =>
                /\ other.op = "set" /\ other.timer.on
                /\ \A k \in Mine(other) :
                      Listed(k, entriesAfter) <=> (other.reply = "ok" /\ k = other.timer.key)
          BY <3>6, <4>1 DEF Phase
        <4>6. other.pc \in {"get", "del"} => other.prior # None
          BY <4>1 DEF Phase
        <4> QED BY <4>2, <4>3, <4>4, <4>5, <4>6 DEF Phase
      <3>10. HalfDone(other, heldAfter, entriesAfter)
        BY <3>1, <3>4, <3>5, <3>9 DEF HalfDone
      <3> QED BY <3>1, <3>10
    <2> QED BY <2>1, <2>2
  <1>10. ASSUME NEW d \in Calls, after[d].op = "resync" PROVE after[d].pc = "get"
    BY <1>1, <1>10 DEF Agree, Writing
  <1>11. Agree(heldAfter, entriesAfter, after)
    BY <1>6, <1>7, <1>8, <1>9, <1>10 DEF Agree
  <1> QED BY <1>11 DEF after

(* A writer ends when the cloud lists of its keys what waters.             *)
LEMMA WriterLeaves ==
    ASSUME NEW held, NEW entries, NEW cs \in [Calls -> Call], NEW c \in Calls,
           Agree(held, entries, cs), Writing(cs[c]),
           \A k \in Mine(cs[c]) : Listed(k, entries) <=> Watered(k, held)
    PROVE  Agree(held, entries, [cs EXCEPT ![c] = Idle])
  <1> DEFINE after == [cs EXCEPT ![c] = Idle]
  <1>1. after[c] = Idle /\ ~Writing(Idle) /\ Idle.op = "idle"
        /\ \A d \in Calls : d # c => after[d] = cs[d]
    BY DEF Writing, Idle
  <1> HIDE DEF after
  <1>2. \A d \in Calls : Writing(after[d]) => d # c /\ after[d] = cs[d]
    BY <1>1
  <1>3. Separate(after)
    BY <1>2 DEF Agree, Separate
  <1>4. ElsewhereEqual(held, entries, after)
    <2> SUFFICES ASSUME NEW k \in Keys,
                        \A d \in Calls : Writing(after[d]) => k \notin Mine(after[d])
                 PROVE  Listed(k, entries) <=> Watered(k, held)
      BY DEF ElsewhereEqual
    <2>1. CASE k \in Mine(cs[c])
      BY <2>1
    <2>2. CASE k \notin Mine(cs[c])
      <3>1. \A d \in Calls : Writing(cs[d]) => k \notin Mine(cs[d])
        BY <1>1, <2>2
      <3> QED BY <3>1 DEF Agree, ElsewhereEqual
    <2> QED BY <2>1, <2>2
  <1>5. \A d \in Calls : Writing(after[d]) => HalfDone(after[d], held, entries)
    BY <1>2 DEF Agree
  <1>6. \A d \in Calls : after[d].op = "resync" => after[d].pc = "get"
    BY <1>1 DEF Agree
  <1>7. Agree(held, entries, after)
    BY <1>3, <1>4, <1>5, <1>6 DEF Agree
  <1> QED BY <1>7 DEF after

(* A call that writes nothing moves.                                       *)
LEMMA ReaderMoves ==
    ASSUME NEW held, NEW entries, NEW cs \in [Calls -> Call], NEW c \in Calls, NEW call,
           Agree(held, entries, cs), ~Writing(cs[c]), ~Writing(call),
           call.op = "resync" => call.pc = "get"
    PROVE  Agree(held, entries, [cs EXCEPT ![c] = call])
  <1> DEFINE after == [cs EXCEPT ![c] = call]
  <1>1. after[c] = call /\ \A d \in Calls : d # c => after[d] = cs[d]
    OBVIOUS
  <1> HIDE DEF after
  <1>2. \A d \in Calls : /\ Writing(after[d]) <=> Writing(cs[d])
                         /\ Writing(cs[d]) => after[d] = cs[d]
    BY <1>1
  <1>3. Separate(after)
    BY <1>2 DEF Agree, Separate
  <1>4. ElsewhereEqual(held, entries, after)
    BY <1>2 DEF Agree, ElsewhereEqual
  <1>5. \A d \in Calls : Writing(after[d]) => HalfDone(after[d], held, entries)
    BY <1>2 DEF Agree
  <1>6. \A d \in Calls : after[d].op = "resync" => after[d].pc = "get"
    BY <1>1 DEF Agree
  <1>7. Agree(held, entries, after)
    BY <1>3, <1>4, <1>5, <1>6 DEF Agree
  <1> QED BY <1>7 DEF after

(* A writer starts apart from the others, knowing what its slot holds.     *)
LEMMA WriterStarts ==
    ASSUME NEW held \in [Slots -> Held], NEW entries,
           NEW cs \in [Calls -> Call], NEW c \in Calls, NEW call \in Call,
           Agree(held, entries, cs), ~Writing(cs[c]), Writing(call),
           call.pc = "dp", call.reply = "pending", call.prior = held[call.slot],
           call.op = "delete" => call.timer = None,
           \A j \in Slots \ {call.slot} : KeyOf(call.timer) \cap KeyOf(held[j]) = {},
           \A d \in Calls : Writing(cs[d]) =>
               cs[d].slot # call.slot /\ Mine(cs[d]) \cap Mine(call) = {}
    PROVE  Agree(held, entries, [cs EXCEPT ![c] = call])
  <1> DEFINE after == [cs EXCEPT ![c] = call]
  <1>1. after[c] = call /\ \A d \in Calls : d # c => after[d] = cs[d]
    OBVIOUS
  <1> HIDE DEF after
  <1>2. \A j \in Slots \ {call.slot} : KeyOf(held[j]) \cap Mine(call) = {}
    <2> SUFFICES ASSUME NEW j \in Slots \ {call.slot}
                 PROVE  KeyOf(held[j]) \cap KeyOf(call.prior) = {}
      BY DEF Mine
    <2>1. DistinctKeys(held) /\ call.slot \in Slots
      BY DEF Agree, Call
    <2> QED BY <2>1 DEF DistinctKeys, KeyOf
  <1>3. \A k \in Mine(call) :
           Listed(k, entries) <=> (Enabled(call.prior) /\ k = call.prior.key)
    <2> SUFFICES ASSUME NEW k \in Mine(call)
                 PROVE  Listed(k, entries) <=> (Enabled(call.prior) /\ k = call.prior.key)
      OBVIOUS
    <2>1. k \in Keys
      BY MineKeys
    <2>2. \A d \in Calls : Writing(cs[d]) => k \notin Mine(cs[d])
      OBVIOUS
    <2>3. Listed(k, entries) <=> Watered(k, held)
      BY <2>1, <2>2 DEF Agree, ElsewhereEqual
    <2>4. ASSUME NEW i \in Slots, Enabled(held[i]), held[i].key = k PROVE i = call.slot
      BY <2>4, <1>2 DEF KeyOf, Enabled
    <2>5. call.slot \in Slots
      BY DEF Call
    <2> QED BY <2>3, <2>4, <2>5 DEF Watered
  <1>4. HalfDone(call, held, entries)
    BY <1>2, <1>3 DEF HalfDone, Phase
  <1>5. Separate(after)
    <2> SUFFICES ASSUME NEW a \in Calls, NEW b \in Calls, Writing(after[a]), Writing(after[b]),
                        a # b
                 PROVE  after[a].slot # after[b].slot /\ Mine(after[a]) \cap Mine(after[b]) = {}
      BY DEF Separate
    <2>1. CASE a = c
      <3>1. after[b] = cs[b]
        BY <1>1, <2>1
      <3> QED BY <1>1, <2>1, <3>1
    <2>2. CASE b = c
      <3>1. after[a] = cs[a]
        BY <1>1, <2>2
      <3> QED BY <1>1, <2>2, <3>1
    <2>3. CASE a # c /\ b # c
      BY <1>1, <2>3 DEF Agree, Separate
    <2> QED BY <2>1, <2>2, <2>3
  <1>6. ElsewhereEqual(held, entries, after)
    <2> SUFFICES ASSUME NEW k \in Keys,
                        \A d \in Calls : Writing(after[d]) => k \notin Mine(after[d])
                 PROVE  Listed(k, entries) <=> Watered(k, held)
      BY DEF ElsewhereEqual
    <2>1. \A d \in Calls : Writing(cs[d]) => k \notin Mine(cs[d])
      BY <1>1
    <2> QED BY <2>1 DEF Agree, ElsewhereEqual
  <1>7. \A d \in Calls : Writing(after[d]) => HalfDone(after[d], held, entries)
    BY <1>1, <1>4 DEF Agree
  <1>8. \A d \in Calls : after[d].op = "resync" => after[d].pc = "get"
    BY <1>1 DEF Agree, Writing
  <1>9. Agree(held, entries, after)
    BY <1>5, <1>6, <1>7, <1>8 DEF Agree
  <1> QED BY <1>9 DEF after

(* Nothing is written in the meantime: the slot and the registry change    *)
(* together, as the app does it.                                           *)
LEMMA AloneAgree ==
    ASSUME NEW held, NEW entries, NEW cs, \A c \in Calls : cs[c].op = "idle",
           OncePerKey(entries), DistinctKeys(held),
           \A k \in Keys : Listed(k, entries) <=> Watered(k, held)
    PROVE  Agree(held, entries, cs)
  BY DEF Agree, Separate, ElsewhereEqual, Writing

(* What is left of the keys of a writer that has deleted its prior entry   *)
(* or had none.                                                            *)
Unlisted(call, entries) == \A k \in Mine(call) : ~Listed(k, entries)

(* Then it posts an enabled timer, or there is nothing to post.            *)
LEMMA PostOrFinishAgrees ==
    ASSUME TypeOK, Agree(dev, Entries, calls), NEW c \in Calls, Writing(calls[c]),
           calls[c].pc # "dp" \/ calls[c].reply # "pending",
           Unlisted(calls[c], Entries), PostOrFinish(c, FALSE)
    PROVE  Agree(dev, Entries, calls')
  <1>0. calls \in [Calls -> Call] /\ calls[c] \in Call /\ dev \in [Slots -> Held]
    BY DEF TypeOK, CallTypes, WorldTypes
  <1>1. HalfDone(calls[c], dev, Entries)
    BY DEF Agree
  <1>2. dev[calls[c].slot] = calls[c].timer /\ calls[c].slot \in Slots
    BY <1>0, <1>1 DEF HalfDone, Call
  <1>3. CASE calls[c].op = "set" /\ calls[c].timer.on
    <2> DEFINE call == [calls[c] EXCEPT !.pc = "post", !.reply = "pending", !.list = {}]
    <2>1. /\ call \in Call /\ call.op = calls[c].op /\ call.slot = calls[c].slot
          /\ call.timer = calls[c].timer /\ call.prior = calls[c].prior
          /\ call.pc = "post" /\ call.reply = "pending"
      BY <1>0 DEF Call, Reply
    <2>2. calls' = [calls EXCEPT ![c] = call]
      BY <1>3 DEF PostOrFinish, Step
    <2> HIDE DEF call
    <2>3. Phase(call, Entries)
      BY <1>3, <2>1 DEF Phase, Unlisted, Mine
    <2>4. HalfDone(call, dev, Entries)
      BY <1>1, <1>2, <2>1, <2>3 DEF HalfDone, Mine
    <2>5. KeyOf(dev[call.slot]) \subseteq Mine(call)
      BY <1>2, <2>1 DEF Mine
    <2>6. OncePerKey(Entries)
      BY DEF Agree
    <2> QED BY <1>0, <2>1, <2>2, <2>4, <2>5, <2>6, WriterMoves
  <1>4. CASE ~(calls[c].op = "set" /\ calls[c].timer.on)
    <2>1. calls' = [calls EXCEPT ![c] = Idle]
      BY <1>4 DEF PostOrFinish, Finish, Step
    <2>2. ASSUME NEW k \in Mine(calls[c]) PROVE ~Watered(k, dev)
      <3> SUFFICES ASSUME NEW i \in Slots, Enabled(dev[i]), dev[i].key = k PROVE FALSE
        BY DEF Watered
      <3>1. i = calls[c].slot
        BY <1>1, <2>2 DEF HalfDone, KeyOf, Enabled
      <3>2. Enabled(calls[c].timer)
        BY <1>2, <3>1
      <3> QED BY <1>1, <1>4, <3>2 DEF HalfDone, Enabled, Writing
    <2> QED BY <1>0, <2>1, <2>2, WriterLeaves DEF Unlisted
  <1> QED BY <1>3, <1>4

(* A writer waits for its next answer, nothing else changes.               *)
LEMMA AwaitAgrees ==
    ASSUME TypeOK, Agree(dev, Entries, calls), NEW c \in Calls, Writing(calls[c]),
           calls[c].pc # "dp" \/ calls[c].reply # "pending",
           NEW call \in Call, Step(c, call), call.op = calls[c].op,
           call.slot = calls[c].slot, call.timer = calls[c].timer,
           call.prior = calls[c].prior, call.pc # "dp", call.reply \in {"pending", "ok"},
           Phase(call, Entries)
    PROVE  Agree(dev, Entries, calls')
  <1>0. calls \in [Calls -> Call] /\ calls[c] \in Call /\ dev \in [Slots -> Held]
    BY DEF TypeOK, CallTypes, WorldTypes
  <1>1. HalfDone(calls[c], dev, Entries)
    BY DEF Agree
  <1>2. dev[calls[c].slot] = calls[c].timer
    BY <1>1 DEF HalfDone
  <1>4. HalfDone(call, dev, Entries)
    BY <1>1, <1>2 DEF HalfDone, Mine
  <1>5. KeyOf(dev[call.slot]) \subseteq Mine(call)
    BY <1>2 DEF Mine
  <1>6. OncePerKey(Entries) /\ calls' = [calls EXCEPT ![c] = call]
    BY DEF Agree, Step
  <1> QED BY <1>0, <1>4, <1>5, <1>6, WriterMoves

LEMMA DpResumeAgrees ==
    ASSUME TypeOK, Agree(dev, Entries, calls), NEW c \in Calls, Writing(calls[c]),
           DpResume(c), clean'
    PROVE  Agree(dev, Entries, calls')
  <1>0. calls[c] \in Call /\ calls[c].pc = "dp" /\ calls[c].reply # "pending"
        /\ hub = "mirror" /\ ~breaker
    BY DEF TypeOK, CallTypes, DpResume, Resumes
  <1>1. HalfDone(calls[c], dev, Entries)
    BY DEF Agree
  <1>2. calls[c].reply = "ok"
    BY <1>0, <1>1 DEF HalfDone
  <1>3. CASE calls[c].prior # None
    <2> DEFINE call == [calls[c] EXCEPT !.pc = "get", !.reply = "pending"]
    <2>1. /\ call \in Call /\ call.op = calls[c].op /\ call.slot = calls[c].slot
          /\ call.timer = calls[c].timer /\ call.prior = calls[c].prior
          /\ call.pc = "get" /\ call.reply = "pending"
      BY <1>0 DEF Call, Reply
    <2>2. Step(c, call)
      BY <1>0, <1>2, <1>3 DEF DpResume, Await
    <2> HIDE DEF call
    <2>3. Phase(call, Entries)
      BY <1>0, <1>1, <1>3, <2>1 DEF HalfDone, Phase, Mine
    <2> QED BY <1>0, <2>1, <2>2, <2>3, AwaitAgrees
  <1>4. CASE calls[c].prior = None
    <2>1. PostOrFinish(c, FALSE)
      BY <1>0, <1>2, <1>4 DEF DpResume, PostOrFinish
    <2>2. Unlisted(calls[c], Entries)
      BY <1>0, <1>1, <1>4 DEF HalfDone, Phase, Unlisted, Enabled
    <2> QED BY <1>0, <2>1, <2>2, PostOrFinishAgrees
  <1> QED BY <1>3, <1>4

LEMMA GetResumeAgrees ==
    ASSUME TypeOK, Agree(dev, Entries, calls), NEW c \in Calls, Writing(calls[c]),
           GetResume(c), clean'
    PROVE  Agree(dev, Entries, calls')
  <1>0. calls[c] \in Call /\ calls[c].pc = "get" /\ calls[c].reply # "pending" /\ ~breaker
    BY DEF TypeOK, CallTypes, GetResume, Resumes, BreakerAfter
  <1>1. HalfDone(calls[c], dev, Entries)
    BY DEF Agree
  <1>2. calls[c].reply = "ok"
    BY <1>0, <1>1 DEF HalfDone
  <1>3. CloudMatch(c) = {e \in Entries : e.key = calls[c].prior.key}
    BY <1>0, <1>1, <1>2 DEF CloudMatch, HalfDone, Phase
  <1>4. CASE CloudMatch(c) # {}
    <2> DEFINE call == [calls[c] EXCEPT !.pc = "del", !.reply = "pending",
                                        !.list = CloudMatch(c)]
    <2>1. /\ call \in Call /\ call.op = calls[c].op /\ call.slot = calls[c].slot
          /\ call.timer = calls[c].timer /\ call.prior = calls[c].prior
          /\ call.pc = "del" /\ call.reply = "pending" /\ call.list = CloudMatch(c)
      <3>1. CloudMatch(c) \in SUBSET Entry
        BY <1>0 DEF CloudMatch, Call
      <3> QED BY <1>0, <3>1 DEF Call, Reply
    <2>2. Step(c, call)
      BY <1>0, <1>2, <1>4 DEF GetResume
    <2> HIDE DEF call
    <2>3. Phase(call, Entries)
      BY <1>0, <1>1, <1>3, <2>1 DEF HalfDone, Phase, Mine
    <2> QED BY <1>0, <2>1, <2>2, <2>3, AwaitAgrees
  <1>5. CASE CloudMatch(c) = {}
    <2>1. PostOrFinish(c, FALSE)
      BY <1>0, <1>2, <1>5 DEF GetResume, PostOrFinish
    <2>2. Unlisted(calls[c], Entries)
      BY <1>0, <1>1, <1>3, <1>5 DEF HalfDone, Phase, Unlisted, Listed
    <2> QED BY <1>0, <2>1, <2>2, PostOrFinishAgrees
  <1> QED BY <1>4, <1>5

LEMMA DelResumeAgrees ==
    ASSUME TypeOK, Agree(dev, Entries, calls), NEW c \in Calls, Writing(calls[c]),
           DelResume(c), clean'
    PROVE  Agree(dev, Entries, calls')
  <1>0. calls[c] \in Call /\ calls[c].pc = "del" /\ calls[c].reply # "pending"
        /\ ~BreakerAfter(c)
    BY DEF TypeOK, CallTypes, DelResume, Resumes
  <1>1. HalfDone(calls[c], dev, Entries)
    BY DEF Agree
  <1>4. CASE calls[c].list # {}
    <2> DEFINE call == [calls[c] EXCEPT !.pc = "del", !.reply = "pending"]
    <2>1. /\ call \in Call /\ call.op = calls[c].op /\ call.slot = calls[c].slot
          /\ call.timer = calls[c].timer /\ call.prior = calls[c].prior
          /\ call.pc = "del" /\ call.reply = "pending" /\ call.list = calls[c].list
      BY <1>0 DEF Call, Reply
    <2>2. Step(c, call)
      BY <1>0, <1>4 DEF DelResume, Await
    <2> HIDE DEF call
    <2>3. Phase(call, Entries)
      BY <1>0, <1>1, <2>1 DEF HalfDone, Phase, Mine
    <2> QED BY <1>0, <2>1, <2>2, <2>3, AwaitAgrees
  <1>5. CASE calls[c].list = {}
    <2>1. PostOrFinish(c, FALSE)
      BY <1>0, <1>5 DEF DelResume, PostOrFinish
    <2>2. Unlisted(calls[c], Entries)
      BY <1>0, <1>1, <1>5 DEF HalfDone, Phase, Unlisted, Listed
    <2> QED BY <1>0, <2>1, <2>2, PostOrFinishAgrees
  <1> QED BY <1>4, <1>5

LEMMA PostResumeAgrees ==
    ASSUME TypeOK, Agree(dev, Entries, calls), NEW c \in Calls, Writing(calls[c]),
           PostResume(c)
    PROVE  Agree(dev, Entries, calls')
  <1>0. calls[c] \in Call /\ calls[c].pc = "post" /\ calls[c].reply # "pending"
        /\ calls' = [calls EXCEPT ![c] = Idle] /\ calls \in [Calls -> Call]
    BY DEF TypeOK, CallTypes, PostResume, Resumes, Finish, Step
  <1>1. HalfDone(calls[c], dev, Entries)
    BY DEF Agree
  <1>2. calls[c].reply = "ok" /\ dev[calls[c].slot] = calls[c].timer /\ calls[c].timer.on
        /\ calls[c].timer # None /\ calls[c].slot \in Slots
    BY <1>0, <1>1 DEF HalfDone, Phase, TypeOK, CallShapes, CallShape, Call
  <1>3. ASSUME NEW k \in Mine(calls[c]) PROVE Listed(k, Entries) <=> Watered(k, dev)
    <2>1. Listed(k, Entries) <=> k = calls[c].timer.key
      BY <1>0, <1>1, <1>2 DEF HalfDone, Phase
    <2>2. ASSUME NEW i \in Slots, Enabled(dev[i]), dev[i].key = k PROVE i = calls[c].slot
      BY <1>1, <2>2 DEF HalfDone, KeyOf, Enabled
    <2> QED BY <1>2, <2>1, <2>2 DEF Watered, Enabled
  <1> QED BY <1>0, <1>3, WriterLeaves

(* The registry with an entry more, or one less.                           *)
LEMMA EntryAdded ==
    ASSUME WorldTypes, OwnGids, NEW g \in FreshGids, NEW e \in Entry, e.gid = g,
           cloud' = [cloud EXCEPT ![g] = e]
    PROVE  Entries' = Entries \cup {e} /\ OwnGids'
  <1>1. g \in Gids /\ cloud[g] = None /\ e # None
    BY NoneAssumption DEF FreshGids
  <1>2. cloud'[g] = e /\ \A h \in Gids : h # g => cloud'[h] = cloud[h]
    BY <1>1 DEF WorldTypes
  <1>3. ASSUME NEW x \in Entries' PROVE x \in Entries \cup {e}
    <2>1. PICK h \in Gids : cloud'[h] # None /\ x = cloud'[h]
      BY <1>3 DEF Entries
    <2> QED BY <1>2, <2>1 DEF Entries
  <1>4. ASSUME NEW x \in Entries \cup {e} PROVE x \in Entries'
    <2>1. CASE x = e
      BY <1>1, <1>2, <2>1 DEF Entries
    <2>2. CASE x \in Entries
      <3>1. PICK h \in Gids : cloud[h] # None /\ x = cloud[h]
        BY <2>2 DEF Entries
      <3>2. h # g
        BY <1>1, <3>1
      <3> QED BY <1>2, <3>1, <3>2 DEF Entries
    <2> QED BY <1>4, <2>1, <2>2
  <1> QED BY <1>2, <1>3, <1>4 DEF OwnGids

LEMMA EntryDropped ==
    ASSUME WorldTypes, OwnGids, NEW e \in Entries, cloud' = [cloud EXCEPT ![e.gid] = None]
    PROVE  Entries' = Entries \ {e}
  <1>1. e.gid \in Gids /\ cloud[e.gid] = e /\ e # None
    BY DEF Entries, OwnGids
  <1>2. cloud'[e.gid] = None /\ \A h \in Gids : h # e.gid => cloud'[h] = cloud[h]
    BY <1>1 DEF WorldTypes
  <1>3. ASSUME NEW x \in Entries' PROVE x \in Entries \ {e}
    <2>1. PICK h \in Gids : cloud'[h] # None /\ x = cloud'[h]
      BY <1>3 DEF Entries
    <2>2. h # e.gid /\ x = cloud[h]
      BY <1>2, <2>1
    <2>3. x.gid = h
      BY <2>1, <2>2 DEF OwnGids
    <2> QED BY <2>1, <2>2, <2>3 DEF Entries
  <1>4. ASSUME NEW x \in Entries \ {e} PROVE x \in Entries'
    <2>1. PICK h \in Gids : cloud[h] # None /\ x = cloud[h]
      BY <1>4 DEF Entries
    <2>2. h # e.gid
      BY <1>1, <1>4, <2>1
    <2> QED BY <1>2, <2>1, <2>2 DEF Entries
  <1> QED BY <1>3, <1>4

LEMMA NextOwnGids == ASSUME TypeOK, OwnGids, [Next]_vars PROVE OwnGids'
  <1>0. WorldTypes /\ CallTypes /\ CallShapes
    BY DEF TypeOK
  <1>1. ASSUME UNCHANGED cloud PROVE OwnGids'
    BY <1>1 DEF OwnGids
  <1>2. ASSUME NEW g \in FreshGids, NEW e \in Entry, e.gid = g, cloud' = [cloud EXCEPT ![g] = e]
        PROVE  OwnGids'
    BY <1>0, <1>2, EntryAdded
  <1>3. ASSUME NEW g, cloud' = [cloud EXCEPT ![g] = None] PROVE OwnGids'
    BY <1>0, <1>3 DEF OwnGids, WorldTypes
  <1>4. ASSUME NEW c \in Calls, Serve(c) PROVE OwnGids'
    <2>1. ASSUME NEW reply, NEW taken, ServePost(c, reply, taken) PROVE OwnGids'
      <3>1. CASE taken
        <4>1. calls[c].timer.key \in Keys
          BY <1>0, <2>1 DEF ServePost, CallTypes, CallShapes, CallShape, Call, Held, Timer
        <4>2. PICK g \in FreshGids :
                 cloud' = [cloud EXCEPT ![g] = [gid |-> g, key |-> calls[c].timer.key,
                                                alias |-> None, on |-> TRUE]]
          BY <2>1, <3>1 DEF ServePost
        <4> DEFINE e == [gid |-> g, key |-> calls[c].timer.key, alias |-> None, on |-> TRUE]
        <4>3. e \in Entry /\ e.gid = g
          BY <4>1 DEF Entry, FreshGids
        <4> HIDE DEF e
        <4> QED BY <1>2, <4>2, <4>3 DEF e
      <3> QED BY <1>1, <2>1, <3>1 DEF ServePost
    <2>2. ASSUME NEW reply, NEW taken, ServeDel(c, reply, taken) PROVE OwnGids'
      BY <1>1, <1>3, <2>2 DEF ServeDel
    <2>3. ASSUME ~(\E reply, taken : ServePost(c, reply, taken) \/ ServeDel(c, reply, taken))
          PROVE  UNCHANGED cloud
      BY <1>4, <2>3 DEF Serve, ServeDp, ServeGet, KeepWorld
    <2> QED BY <1>1, <2>1, <2>2, <2>3
  <1>5. CASE App
    <2>1. ASSUME NEW i \in Slots, NEW k \in Keys, NEW aliased, AppSet(i, k, aliased)
          PROVE  OwnGids'
      <3>1. PICK g \in FreshGids :
               cloud' = [cloud EXCEPT ![g] = [gid |-> g, key |-> k, on |-> TRUE,
                                              alias |-> IF aliased THEN i ELSE None]]
        BY <2>1 DEF AppSet
      <3> DEFINE e == [gid |-> g, key |-> k, on |-> TRUE, alias |-> IF aliased THEN i ELSE None]
      <3>2. e \in Entry /\ e.gid = g
        BY DEF Entry, FreshGids
      <3> HIDE DEF e
      <3> QED BY <1>2, <3>1, <3>2 DEF e
    <2>2. ASSUME NEW g \in Gids, NEW i, NEW reached, AppDelete(g, i, reached) PROVE OwnGids'
      BY <1>3, <2>2 DEF AppDelete
    <2>3. ASSUME NEW g \in Gids, AppDisable(g) PROVE OwnGids'
      <3>1. cloud[g] # None /\ cloud[g] \in Entry /\ cloud' = [cloud EXCEPT ![g].on = FALSE]
        BY <1>0, <2>3 DEF AppDisable, WorldTypes
      <3>2. cloud'[g].gid = cloud[g].gid /\ \A h \in Gids : h # g => cloud'[h] = cloud[h]
        BY <1>0, <3>1 DEF WorldTypes, Entry
      <3> QED BY <3>1, <3>2 DEF OwnGids
    <2> QED BY <1>5, <2>1, <2>2, <2>3 DEF App
  <1>6. CASE Registry \/ BreakerCloses \/ UNCHANGED vars
    BY <1>1, <1>6 DEF Registry, Arrive, Lose, Read, Dump, Load, Stop, BreakerCloses, vars
  <1>7. ASSUME NEW c \in Calls, Start(c) \/ Resume(c) PROVE OwnGids'
    BY <1>1, <1>7 DEF Start, SetTimer, DeleteTimer, Resync, Sweep, Resume, DpResume, GetResume,
       DelResume, PostResume, SweepResume, ResyncResume, ClearResume, KeepWorld
  <1> QED BY <1>4, <1>5, <1>6, <1>7 DEF Next

(* The valve takes the write of a writer.                                  *)
LEMMA ServeDpAgrees ==
    ASSUME TypeOK, Agree(dev, Entries, calls), NEW c \in Calls, Writing(calls[c]),
           calls[c].pc = "dp", ServeDp(c, "ok", TRUE)
    PROVE  Agree(dev', Entries', calls')
  <1>0. /\ calls[c] \in Call /\ calls \in [Calls -> Call] /\ dev \in [Slots -> Held]
        /\ calls[c].reply = "pending"
    BY DEF TypeOK, CallTypes, WorldTypes, ServeDp, Answer
  <1> DEFINE call == [calls[c] EXCEPT !.reply = "ok"]
  <1>1. /\ call \in Call /\ call.op = calls[c].op /\ call.slot = calls[c].slot
        /\ call.timer = calls[c].timer /\ call.prior = calls[c].prior
        /\ call.pc = "dp" /\ call.reply = "ok"
    BY <1>0 DEF Call, Reply
  <1>2. calls' = [calls EXCEPT ![c] = call]
    BY DEF ServeDp, Replied, Step
  <1> HIDE DEF call
  <1>3. dev' = [dev EXCEPT ![call.slot] = call.timer] /\ cloud' = cloud
    BY <1>1 DEF ServeDp, DeviceTakes, FrameOf
  <1>4. Entries' = Entries
    BY <1>3 DEF Entries
  <1>5. call.slot \in Slots /\ call.timer \in Held
    BY <1>1 DEF Call
  <1>6. dev' \in [Slots -> Held] /\ dev'[call.slot] = call.timer
        /\ \A j \in Slots \ {call.slot} : dev'[j] = dev[j]
    BY <1>0, <1>3, <1>5
  <1>7. HalfDone(calls[c], dev, Entries)
    BY DEF Agree
  <1>8. Phase(call, Entries)
    BY <1>0, <1>1, <1>7 DEF HalfDone, Phase, Mine
  <1>9. \A j \in Slots \ {call.slot} : KeyOf(dev'[j]) \cap Mine(call) = {}
    BY <1>1, <1>6, <1>7 DEF HalfDone, Mine
  <1>10. HalfDone(call, dev', Entries)
    BY <1>1, <1>6, <1>7, <1>8, <1>9 DEF HalfDone
  <1>11. KeyOf(dev'[call.slot]) \subseteq Mine(call)
    BY <1>6 DEF Mine
  <1>12. OncePerKey(Entries)
    BY DEF Agree
  <1>13. Agree(dev', Entries, [calls EXCEPT ![c] = call])
    <2> DEFINE after == dev'
    <2>1. /\ after \in [Slots -> Held]
          /\ \A j \in Slots \ {call.slot} : after[j] = dev[j]
          /\ KeyOf(after[call.slot]) \subseteq Mine(call)
          /\ HalfDone(call, after, Entries)
      BY <1>6, <1>10, <1>11
    <2> HIDE DEF after
    <2>2. Agree(after, Entries, [calls EXCEPT ![c] = call])
      BY <1>0, <1>1, <1>12, <2>1, WriterMoves
    <2> QED BY <2>2 DEF after
  <1> QED BY <1>2, <1>4, <1>13

(* The registry answers a writer with what it lists.                       *)
LEMMA ServeGetAgrees ==
    ASSUME TypeOK, Agree(dev, Entries, calls), NEW c \in Calls, Writing(calls[c]),
           NEW reply \in Reply, NEW list \in SUBSET Entry, ServeGet(c, reply, list), clean'
    PROVE  Agree(dev, Entries, calls')
  <1>0. calls[c] \in Call /\ calls[c].pc = "get" /\ reply = "ok" /\ list = Entries
    BY DEF TypeOK, CallTypes, ServeGet, Writing
  <1> DEFINE call == [calls[c] EXCEPT !.reply = "ok", !.list = Entries]
  <1>1. /\ call \in Call /\ call.op = calls[c].op /\ call.slot = calls[c].slot
        /\ call.timer = calls[c].timer /\ call.prior = calls[c].prior
        /\ call.pc = "get" /\ call.reply = "ok" /\ call.list = Entries
    BY <1>0 DEF Call, Reply
  <1>2. Step(c, call)
    BY <1>0 DEF ServeGet
  <1> HIDE DEF call
  <1>3. HalfDone(calls[c], dev, Entries)
    BY DEF Agree
  <1>4. Phase(call, Entries)
    BY <1>0, <1>1, <1>3 DEF HalfDone, Phase, Mine
  <1> QED BY <1>0, <1>1, <1>2, <1>4, AwaitAgrees

(* A POST adds the timer of a writer.                                      *)
LEMMA ServePostAgrees ==
    ASSUME TypeOK, OwnGids, Agree(dev, Entries, calls), NEW c \in Calls, Writing(calls[c]),
           ServePost(c, "ok", TRUE)
    PROVE  Agree(dev, Entries', calls')
  <1>0. /\ calls[c] \in Call /\ calls \in [Calls -> Call] /\ dev \in [Slots -> Held]
        /\ calls[c].pc = "post" /\ calls[c].reply = "pending"
    BY DEF TypeOK, CallTypes, WorldTypes, ServePost, Answer
  <1>h. HalfDone(calls[c], dev, Entries)
    BY DEF Agree
  <1>t. calls[c].timer \in Timer /\ calls[c].timer # None /\ calls[c].timer.key \in Keys
    BY <1>0 DEF TypeOK, CallShapes, CallShape, Call, Held, Timer
  <1> DEFINE call == [calls[c] EXCEPT !.reply = "ok"]
  <1>1. /\ call \in Call /\ call.op = calls[c].op /\ call.slot = calls[c].slot
        /\ call.timer = calls[c].timer /\ call.prior = calls[c].prior
        /\ call.pc = "post" /\ call.reply = "ok"
    BY <1>0 DEF Call, Reply
  <1>2. calls' = [calls EXCEPT ![c] = call]
    BY DEF ServePost, Replied, Step
  <1> HIDE DEF call
  <1>3. PICK g \in FreshGids :
           cloud' = [cloud EXCEPT ![g] = [gid |-> g, key |-> calls[c].timer.key,
                                          alias |-> None, on |-> TRUE]]
    BY DEF ServePost
  <1> DEFINE e == [gid |-> g, key |-> calls[c].timer.key, alias |-> None, on |-> TRUE]
  <1>4. e \in Entry /\ e.gid = g /\ e.key = call.timer.key /\ cloud' = [cloud EXCEPT ![g] = e]
    BY <1>1, <1>3, <1>t DEF Entry, FreshGids
  <1> HIDE DEF e
  <1>5. Entries' = Entries \cup {e}
    BY <1>4, EntryAdded DEF TypeOK
  <1>6. e.key \in Mine(call)
    BY <1>1, <1>4, <1>t DEF Mine, KeyOf
  <1>7. \A k \in Mine(call) : ~Listed(k, Entries)
    BY <1>0, <1>1, <1>h DEF HalfDone, Phase, Mine
  <1> DEFINE entries == Entries \cup {e}
  <1>8. OncePerKey(entries)
    <2>1. OncePerKey(Entries)
      BY DEF Agree
    <2> QED BY <1>6, <1>7, <2>1 DEF OncePerKey, Listed
  <1>9. \A x : x.key \notin Mine(call) => (x \in Entries <=> x \in entries)
    BY <1>6
  <1>10. \A k \in Mine(call) : Listed(k, entries) <=> k = call.timer.key
    BY <1>4, <1>7 DEF Listed
  <1> HIDE DEF entries
  <1>11. dev[call.slot] = call.timer
    BY <1>0, <1>1, <1>h DEF HalfDone
  <1>12. Phase(call, entries)
    <2>1. call.op = "set" /\ call.timer.on
      BY <1>0, <1>1, <1>h DEF HalfDone, Phase
    <2> QED BY <1>1, <1>10, <2>1 DEF Phase
  <1>13. HalfDone(call, dev, entries)
    BY <1>1, <1>11, <1>12, <1>h DEF HalfDone, Mine
  <1>14. KeyOf(dev[call.slot]) \subseteq Mine(call)
    BY <1>11 DEF Mine
  <1>15. Agree(dev, entries, [calls EXCEPT ![c] = call])
    BY <1>0, <1>1, <1>8, <1>9, <1>13, <1>14, WriterMoves
  <1> QED BY <1>2, <1>5, <1>15 DEF entries

(* A DELETE drops an entry of a writer's prior key.                        *)
LEMMA ServeDelAgrees ==
    ASSUME TypeOK, OwnGids, Agree(dev, Entries, calls), NEW c \in Calls, Writing(calls[c]),
           ServeDel(c, "ok", TRUE)
    PROVE  Agree(dev, Entries', calls')
  <1>0. /\ calls[c] \in Call /\ calls \in [Calls -> Call] /\ dev \in [Slots -> Held]
        /\ calls[c].pc = "del" /\ calls[c].reply = "pending"
    BY DEF TypeOK, CallTypes, WorldTypes, ServeDel, Answer
  <1>h. HalfDone(calls[c], dev, Entries)
    BY DEF Agree
  <1>p. calls[c].list = {x \in Entries : x.key = calls[c].prior.key} /\ calls[c].prior # None
        /\ \A k \in Mine(calls[c]) : Listed(k, Entries) => k = calls[c].prior.key
    BY <1>0, <1>h DEF HalfDone, Phase
  <1>3. PICK e \in calls[c].list :
           /\ Step(c, [calls[c] EXCEPT !.reply = "ok", !.list = @ \ {e}])
           /\ cloud' = [cloud EXCEPT ![e.gid] = None]
    BY DEF ServeDel
  <1> DEFINE call == [calls[c] EXCEPT !.reply = "ok", !.list = @ \ {e}]
  <1>1. /\ call \in Call /\ call.op = calls[c].op /\ call.slot = calls[c].slot
        /\ call.timer = calls[c].timer /\ call.prior = calls[c].prior
        /\ call.pc = "del" /\ call.reply = "ok" /\ call.list = calls[c].list \ {e}
    BY <1>0 DEF Call, Reply
  <1>2. calls' = [calls EXCEPT ![c] = call]
    BY <1>3 DEF Step
  <1> HIDE DEF call
  <1>4. e \in Entries /\ e.key = call.prior.key
    BY <1>1, <1>p
  <1>5. Entries' = Entries \ {e}
    BY <1>3, <1>4, EntryDropped DEF TypeOK
  <1>6. e.key \in Mine(call)
    BY <1>1, <1>4, <1>p DEF Mine, KeyOf
  <1> DEFINE entries == Entries \ {e}
  <1>8. OncePerKey(entries)
    BY DEF Agree, OncePerKey
  <1>9. \A x : x.key \notin Mine(call) => (x \in Entries <=> x \in entries)
    BY <1>6
  <1>10. call.list = {x \in entries : x.key = call.prior.key}
    BY <1>1, <1>p
  <1>b. \A k : Listed(k, entries) => Listed(k, Entries)
    BY DEF Listed
  <1> HIDE DEF entries
  <1>11. dev[call.slot] = call.timer
    BY <1>0, <1>1, <1>h DEF HalfDone
  <1>12. Phase(call, entries)
    <2>1. \A k \in Mine(call) : Listed(k, entries) => k = call.prior.key
      BY <1>1, <1>b, <1>p DEF Mine
    <2> QED BY <1>1, <1>10, <1>p, <2>1 DEF Phase
  <1>13. HalfDone(call, dev, entries)
    BY <1>1, <1>11, <1>12, <1>h DEF HalfDone, Mine
  <1>14. KeyOf(dev[call.slot]) \subseteq Mine(call)
    BY <1>11 DEF Mine
  <1>15. Agree(dev, entries, [calls EXCEPT ![c] = call])
    BY <1>0, <1>1, <1>8, <1>9, <1>13, <1>14, WriterMoves
  <1> QED BY <1>2, <1>5, <1>15 DEF entries

LEMMA StartAgrees ==
    ASSUME TypeOK, AllShaped, Agree(dev, Entries, calls), NEW c \in Calls, Start(c), clean'
    PROVE  Agree(dev, Entries, calls')
  <1>0. calls \in [Calls -> Call] /\ dev \in [Slots -> Held] /\ slots \in [Slots -> Held]
        /\ calls[c].op = "idle" /\ Idle \in Call
    BY IdleType DEF TypeOK, CallTypes, WorldTypes, RegistryTypes, Start, SetTimer, DeleteTimer,
                    Resync, Sweep, MayStart
  <1>1. ~Writing(calls[c])
    BY <1>0 DEF Writing
  <1>2. ASSUME NEW i \in Slots, NEW t \in Held, Undisturbed(i, t),
               NEW call \in Call, Step(c, call), Writing(call),
               call.pc = "dp", call.reply = "pending", call.slot = i, call.timer = t,
               call.prior = IF live THEN slots[i] ELSE None,
               call.op = "delete" => t = None,
               \A j \in Slots \ {i} : KeyOf(t) \cap KeyOf(dev[j]) = {}
        PROVE  Agree(dev, Entries, calls')
    <2>1. call.prior = dev[i] /\ Mine(call) = KeyOf(t) \cup KeyOf(dev[i])
      BY <1>2 DEF Undisturbed, Mine
    <2>2. \A d \in Calls : Writing(calls[d]) =>
             calls[d].slot # call.slot /\ Mine(calls[d]) \cap Mine(call) = {}
      BY <1>2, <2>1 DEF Undisturbed, Writing, Mine
    <2>3. Agree(dev, Entries, [calls EXCEPT ![c] = call])
      BY <1>0, <1>1, <1>2, <2>1, <2>2, WriterStarts
    <2> QED BY <1>2, <2>3 DEF Step
  <1>3. ASSUME NEW call, Step(c, call), ~Writing(call), call.op = "resync" => call.pc = "get"
        PROVE  Agree(dev, Entries, calls')
    <2>1. Agree(dev, Entries, [calls EXCEPT ![c] = call])
      BY <1>0, <1>1, <1>3, ReaderMoves
    <2> QED BY <1>3, <2>1 DEF Step
  <1> DEFINE prior(i) == IF live THEN slots[i] ELSE None
  <1>4. \A i \in Slots : prior(i) \in Held
    BY <1>0 DEF Held
  <1>5. ASSUME NEW i \in Slots, NEW t \in Timer, SetTimer(c, i, t)
        PROVE  Agree(dev, Entries, calls')
    <2> DEFINE call == [Idle EXCEPT !.op = "set", !.pc = "dp", !.slot = i,
                                    !.timer = t, !.prior = prior(i)]
    <2>1. /\ call.op = "set" /\ call.pc = "dp" /\ call.reply = "pending" /\ call.slot = i
          /\ call.timer = t /\ call.prior = prior(i) /\ Step(c, call)
      <3> HIDE DEF prior
      <3>1. /\ call.op = "set" /\ call.pc = "dp" /\ call.reply = "pending" /\ call.slot = i
            /\ call.timer = t /\ call.prior = prior(i)
        BY DEF Idle
      <3>2. Step(c, call)
        BY <1>5 DEF SetTimer, prior
      <3> QED BY <3>1, <3>2
    <2>2. call \in Call
      <3> HIDE DEF prior
      <3> QED BY <1>0, <1>4 DEF Call, Held
    <2> HIDE DEF call
    <2>3. Undisturbed(i, t) /\ \A j \in Slots \ {i} : t.key \notin KeyOf(dev[j])
      BY <1>5 DEF SetTimer
    <2>4. \A j \in Slots \ {i} : KeyOf(t) \cap KeyOf(dev[j]) = {}
      BY <2>3 DEF KeyOf
    <2>5. t \in Held /\ Writing(call) /\ call.op # "delete"
      BY <2>1 DEF Held, Writing
    <2> QED BY <1>2, <2>1, <2>2, <2>3, <2>4, <2>5
  <1>6. ASSUME NEW i \in Slots, DeleteTimer(c, i)
        PROVE  Agree(dev, Entries, calls')
    <2> DEFINE call == [Idle EXCEPT !.op = "delete", !.pc = "dp", !.slot = i,
                                    !.prior = prior(i)]
    <2>1. /\ call.op = "delete" /\ call.pc = "dp" /\ call.reply = "pending" /\ call.slot = i
          /\ call.timer = None /\ call.prior = prior(i) /\ Step(c, call)
      <3> HIDE DEF prior
      <3>1. /\ call.op = "delete" /\ call.pc = "dp" /\ call.reply = "pending" /\ call.slot = i
            /\ call.timer = None /\ call.prior = prior(i)
        BY DEF Idle
      <3>2. Step(c, call)
        BY <1>6 DEF DeleteTimer, prior
      <3> QED BY <3>1, <3>2
    <2>2. call \in Call
      <3> HIDE DEF prior
      <3> QED BY <1>0, <1>4 DEF Call, Held
    <2> HIDE DEF call
    <2>3. Undisturbed(i, None)
      BY <1>6 DEF DeleteTimer
    <2>4. \A j \in Slots \ {i} : KeyOf(None) \cap KeyOf(dev[j]) = {}
      BY DEF KeyOf
    <2>5. None \in Held /\ Writing(call)
      BY <2>1 DEF Held, Writing
    <2> QED BY <1>2, <2>1, <2>2, <2>3, <2>4, <2>5
  <1>7. CASE Resync(c)
    <2> DEFINE call == [Idle EXCEPT !.op = "resync", !.pc = "get", !.snap = slots]
    <2>1. Step(c, call) /\ call.op = "resync" /\ call.pc = "get"
      BY <1>7 DEF Resync, Idle
    <2> HIDE DEF call
    <2> QED BY <1>3, <2>1 DEF Writing
  <1>8. CASE Sweep(c)
    <2> DEFINE call == [Idle EXCEPT !.op = "sweep", !.pc = "get"]
    <2>1. Step(c, call) /\ call.op = "sweep" /\ call.pc = "get"
      BY <1>8 DEF Sweep, Idle
    <2> HIDE DEF call
    <2> QED BY <1>3, <2>1 DEF Writing
  <1> QED BY <1>5, <1>6, <1>7, <1>8 DEF Start

LEMMA ServeAgrees ==
    ASSUME TypeOK, AllShaped, OwnGids, Agree(dev, Entries, calls), NEW c \in Calls, Serve(c),
           clean'
    PROVE  Agree(dev', Entries', calls')
  <1>0. /\ calls \in [Calls -> Call] /\ calls[c] \in Call /\ Shaped(calls[c])
        /\ CallShape(calls[c])
    BY DEF TypeOK, CallTypes, AllShaped, CallShapes
  <1>1. ASSUME NEW reply \in {"ok", "failed"}, NEW taken \in BOOLEAN, reply = "ok" => taken,
               ServeDp(c, reply, taken)
        PROVE  Agree(dev', Entries', calls')
    <2>1. reply = "ok" /\ taken
      BY <1>1 DEF ServeDp, Answer
    <2>2. calls[c].pc = "dp" /\ Writing(calls[c])
      <3>1. calls[c].pc \in {"dp", "clr"}
        BY <1>1 DEF ServeDp, WritesDp
      <3>2. calls[c].pc # "clr"
        BY <1>0 DEF Agree, Shaped
      <3> QED BY <1>0, <3>1, <3>2 DEF Shaped, Writing
    <2> QED BY <1>1, <2>1, <2>2, ServeDpAgrees
  <1>2. ASSUME NEW reply \in {"ok", "failed", "quota"}, NEW list \in {Entries, {}},
               ServeGet(c, reply, list)
        PROVE  Agree(dev', Entries', calls')
    <2>1. dev' = dev /\ cloud' = cloud
      BY <1>2 DEF ServeGet, KeepWorld, device
    <2>2. Entries' = Entries
      BY <2>1 DEF Entries
    <2>3. CASE Writing(calls[c])
      <3>1. reply \in Reply /\ list \in SUBSET Entry
        BY EntriesType DEF Reply, TypeOK, WorldTypes
      <3>2. Agree(dev, Entries, calls')
        BY <1>2, <2>3, <3>1, ServeGetAgrees
      <3> QED BY <2>1, <2>2, <3>2
    <2>4. CASE ~Writing(calls[c])
      <3> DEFINE call == [calls[c] EXCEPT !.reply = reply, !.list = list]
      <3>1. Step(c, call) /\ call.op = calls[c].op /\ call.pc = "get"
        BY <1>0, <1>2 DEF ServeGet, Call
      <3> HIDE DEF call
      <3>2. ~Writing(call)
        BY <2>4, <3>1 DEF Writing
      <3>3. Agree(dev, Entries, [calls EXCEPT ![c] = call])
        BY <1>0, <2>4, <3>1, <3>2, ReaderMoves
      <3> QED BY <2>1, <2>2, <3>1, <3>3 DEF Step
    <2> QED BY <2>3, <2>4
  <1>3. ASSUME NEW reply, NEW taken, reply = "ok" => taken, ServePost(c, reply, taken)
        PROVE  Agree(dev', Entries', calls')
    <2>1. reply = "ok" /\ taken /\ dev' = dev
      BY <1>3 DEF ServePost, Answer, device
    <2>2. Writing(calls[c])
      BY <1>0, <1>3 DEF ServePost, CallShape, Writing
    <2>3. ServePost(c, "ok", TRUE)
      BY <1>3, <2>1 DEF ServePost
    <2>4. Agree(dev, Entries', calls')
      BY <2>2, <2>3, ServePostAgrees
    <2> QED BY <2>1, <2>4
  <1>4. ASSUME NEW reply, NEW taken, reply = "ok" => taken, ServeDel(c, reply, taken)
        PROVE  Agree(dev', Entries', calls')
    <2>1. reply = "ok" /\ taken /\ dev' = dev
      BY <1>4 DEF ServeDel, Answer, device
    <2>2. Writing(calls[c])
      BY <1>0, <1>4 DEF ServeDel, Shaped, Writing
    <2>3. ServeDel(c, "ok", TRUE)
      BY <1>4, <2>1 DEF ServeDel
    <2>4. Agree(dev, Entries', calls')
      BY <2>2, <2>3, ServeDelAgrees
    <2> QED BY <2>1, <2>4
  <1> QED BY <1>1, <1>2, <1>3, <1>4 DEF Serve

LEMMA ResumeAgrees ==
    ASSUME TypeOK, AllShaped, Sparing, clean, Agree(dev, Entries, calls),
           NEW c \in Calls, Resume(c), clean'
    PROVE  Agree(dev', Entries', calls')
  <1>0. calls \in [Calls -> Call] /\ calls[c] \in Call /\ Shaped(calls[c]) /\ CallShape(calls[c])
    BY DEF TypeOK, CallTypes, AllShaped, CallShapes
  <1>1. dev' = dev /\ cloud' = cloud
    BY DEF Resume, DpResume, GetResume, DelResume, PostResume, SweepResume, ResyncResume,
           ClearResume, KeepWorld, device
  <1>2. Entries' = Entries
    BY <1>1 DEF Entries
  <1>3. CASE DpResume(c)
    <2>1. Writing(calls[c])
      BY <1>0, <1>3 DEF DpResume, Resumes, Shaped, Writing
    <2>2. Agree(dev, Entries, calls')
      BY <1>3, <2>1, DpResumeAgrees
    <2> QED BY <1>1, <1>2, <2>2
  <1>4. CASE GetResume(c)
    <2>1. Writing(calls[c])
      BY <1>4 DEF GetResume, Writing
    <2>2. Agree(dev, Entries, calls')
      BY <1>4, <2>1, GetResumeAgrees
    <2> QED BY <1>1, <1>2, <2>2
  <1>5. CASE DelResume(c)
    <2>1. Writing(calls[c])
      BY <1>0, <1>5 DEF DelResume, Resumes, Shaped, Writing
    <2>2. Agree(dev, Entries, calls')
      BY <1>5, <2>1, DelResumeAgrees
    <2> QED BY <1>1, <1>2, <2>2
  <1>6. CASE PostResume(c)
    <2>1. Writing(calls[c])
      BY <1>0, <1>6 DEF PostResume, Resumes, CallShape, Writing
    <2>2. Agree(dev, Entries, calls')
      BY <1>6, <2>1, PostResumeAgrees
    <2> QED BY <1>1, <1>2, <2>2
  <1>7. ASSUME Finish(c), ~Writing(calls[c]) PROVE Agree(dev', Entries', calls')
    <2>1. ~Writing(Idle) /\ Idle.op # "resync"
      BY DEF Writing, Idle
    <2> HIDE DEF Idle
    <2>2. Agree(dev, Entries, [calls EXCEPT ![c] = Idle])
      BY <1>0, <1>7, <2>1, ReaderMoves
    <2> QED BY <1>1, <1>2, <1>7, <2>2 DEF Finish, Step
  <1>8. CASE SweepResume(c)
    BY <1>7, <1>8 DEF SweepResume, Writing
  <1>9. CASE ResyncResume(c)
    <2>1. ~Writing(calls[c]) /\ calls[c].op = "resync" /\ calls[c].pc = "get"
      BY <1>9 DEF ResyncResume, Resumes, Writing
    <2>2. CASE ~Finish(c)
      <3> DEFINE list == calls[c].list
                 orphans == Orphans(calls[c].snap, list)
      <3>1. calls[c].reply = "ok" /\ MayClear(list) /\ ClearFirst(c, orphans)
        BY <1>9, <2>2 DEF ResyncResume
      <3>2. calls[c].snap = dev /\ list = Entries
        BY <2>1, <3>1 DEF Sparing, Spares, MayClear
      <3>3. \A d \in Calls : ~Writing(calls[d])
        BY <2>1 DEF Sparing, Writing
      <3>4. ASSUME NEW i \in Slots, Enabled(dev[i]) PROVE dev[i].key \in KeysOf(Entries)
        <4>1. dev[i].key \in Keys
          <5>1. dev[i] \in Held
            BY DEF TypeOK, WorldTypes
          <5> QED BY <3>4, <5>1, EnabledIsHeld
        <4>2. Watered(dev[i].key, dev)
          BY <3>4 DEF Watered
        <4>3. Listed(dev[i].key, Entries)
          BY <3>3, <4>1, <4>2 DEF Agree, ElsewhereEqual
        <4> QED BY <4>3 DEF Listed, KeysOf
      <3>5. orphans = {}
        BY <3>2, <3>4 DEF Orphans, ActiveSlots
      <3> QED BY <2>2, <3>1, <3>5 DEF ClearFirst
    <2> QED BY <1>7, <2>1, <2>2
  <1>10. CASE ClearResume(c)
    BY <1>0, <1>10 DEF ClearResume, Resumes, Shaped, Agree
  <1> QED BY <1>3, <1>4, <1>5, <1>6, <1>8, <1>9, <1>10 DEF Resume

(* The app adds a timer to an empty slot, or drops one, with its entry.    *)
LEMMA AppAgrees ==
    ASSUME TypeOK, OwnGids, Agree(dev, Entries, calls), App, clean'
    PROVE  Agree(dev', Entries', calls')
  <1>0. NoCalls /\ calls' = calls /\ dev \in [Slots -> Held]
    BY DEF App, AppSet, AppDelete, AppDisable, TypeOK, WorldTypes
  <1>1. \A c \in Calls : calls'[c].op = "idle"
    BY <1>0 DEF NoCalls
  <1>2. /\ OncePerKey(Entries) /\ DistinctKeys(dev)
        /\ \A k \in Keys : Listed(k, Entries) <=> Watered(k, dev)
    BY <1>0 DEF Agree, ElsewhereEqual, NoCalls, Writing
  <1>3. ASSUME NEW i \in Slots, NEW k \in Keys, NEW aliased, AppSet(i, k, aliased)
        PROVE  Agree(dev', Entries', calls')
    <2>1. PICK g \in FreshGids :
             cloud' = [cloud EXCEPT ![g] = [gid |-> g, key |-> k, on |-> TRUE,
                                            alias |-> IF aliased THEN i ELSE None]]
      BY <1>3 DEF AppSet
    <2> DEFINE e == [gid |-> g, key |-> k, on |-> TRUE, alias |-> IF aliased THEN i ELSE None]
               t == [key |-> k, on |-> TRUE]
    <2>2. e \in Entry /\ e.gid = g /\ e.key = k
      BY DEF Entry, FreshGids
    <2>3. t # None /\ t.key = k /\ Enabled(t)
      <3>1. t \in Timer
        BY DEF Timer
      <3>2. t # None
        BY <3>1, NoneAssumption
      <3> QED BY <3>2 DEF Enabled
    <2>4. dev' = [dev EXCEPT ![i] = t]
      BY <1>3 DEF AppSet, DeviceTakes
    <2> HIDE DEF e, t
    <2>5. Entries' = Entries \cup {e}
      BY <2>1, <2>2, EntryAdded DEF e, TypeOK
    <2>6. dev'[i] = t /\ \A j \in Slots : j # i => dev'[j] = dev[j]
      BY <1>0, <2>4
    <2>7. dev[i] = None /\ \A j \in Slots \ {i} : k \notin KeyOf(dev[j])
      BY <1>3 DEF AppSet
    <2>8. \A j \in Slots : dev[j] # None => dev[j].key # k
      BY <2>7 DEF KeyOf
    <2>9. ~Watered(k, dev)
      BY <2>8 DEF Watered, Enabled
    <2>10. OncePerKey(Entries')
      BY <1>2, <2>2, <2>5, <2>9 DEF OncePerKey, Listed
    <2>11. DistinctKeys(dev')
      BY <1>2, <2>3, <2>6, <2>8 DEF DistinctKeys
    <2>12. ASSUME NEW l \in Keys PROVE Listed(l, Entries') <=> Watered(l, dev')
      <3>1. CASE l = k
        BY <2>2, <2>3, <2>5, <2>6, <3>1 DEF Listed, Watered
      <3>2. CASE l # k
        <4>1. Listed(l, Entries') <=> Listed(l, Entries)
          BY <2>2, <2>5, <3>2 DEF Listed
        <4>2. Watered(l, dev') <=> Watered(l, dev)
          BY <2>3, <2>6, <2>7, <3>2 DEF Watered, Enabled
        <4> QED BY <1>2, <4>1, <4>2
      <3> QED BY <3>1, <3>2
    <2> QED BY <1>1, <2>10, <2>11, <2>12, AloneAgree
  <1>4. ASSUME NEW g \in Gids, NEW i \in Slots, NEW reached, AppDelete(g, i, reached)
        PROVE  Agree(dev', Entries', calls')
    <2> DEFINE e == cloud[g]
    <2>1. /\ cloud[g] # None /\ dev[i] # None /\ dev[i].key = e.key /\ reached
          /\ cloud' = [cloud EXCEPT ![g] = None]
      BY <1>4 DEF AppDelete
    <2>2. e \in Entries /\ e.gid = g
      BY <2>1 DEF Entries, OwnGids
    <2>3. dev' = [dev EXCEPT ![i] = None]
      BY <1>4, <2>1 DEF AppDelete, DeviceTakes
    <2>4. e.key \in Keys
      BY <2>1 DEF TypeOK, WorldTypes, Entry
    <2> HIDE DEF e
    <2>5. Entries' = Entries \ {e}
      BY <2>1, <2>2, EntryDropped DEF TypeOK
    <2>6. dev'[i] = None /\ \A j \in Slots : j # i => dev'[j] = dev[j]
      BY <1>0, <2>3
    <2>7. \A j \in Slots : j # i /\ dev[j] # None => dev[j].key # e.key
      BY <1>2, <2>1 DEF DistinctKeys
    <2>8. OncePerKey(Entries')
      BY <1>2, <2>5 DEF OncePerKey
    <2>9. DistinctKeys(dev')
      BY <1>2, <2>6 DEF DistinctKeys
    <2>10. ASSUME NEW l \in Keys PROVE Listed(l, Entries') <=> Watered(l, dev')
      <3>1. CASE l = e.key
        <4>1. ~Listed(l, Entries')
          BY <1>2, <2>2, <2>5, <3>1 DEF OncePerKey, Listed
        <4>2. ~Watered(l, dev')
          BY <2>6, <2>7, <3>1 DEF Watered, Enabled
        <4> QED BY <4>1, <4>2
      <3>2. CASE l # e.key
        <4>1. Listed(l, Entries') <=> Listed(l, Entries)
          BY <2>5, <3>2 DEF Listed
        <4>2. Watered(l, dev') <=> Watered(l, dev)
          BY <2>1, <2>6, <3>2 DEF Watered, Enabled
        <4> QED BY <1>2, <4>1, <4>2
      <3> QED BY <3>1, <3>2
    <2> QED BY <1>1, <2>8, <2>9, <2>10, AloneAgree
  <1>5. ASSUME NEW g \in Gids, AppDisable(g) PROVE FALSE
    BY <1>5 DEF AppDisable
  <1> QED BY <1>3, <1>4, <1>5 DEF App

LEMMA NextAgrees ==
    ASSUME TypeOK, AllShaped, Sparing, OwnGids, CloudAgrees, [Next]_vars
    PROVE  CloudAgrees'
  <1> SUFFICES ASSUME clean', hub' = "mirror" PROVE Agree(dev', Entries', calls')
    BY DEF CloudAgrees
  <1>0. hub' = hub
    BY DEF Next, Registry, Arrive, Lose, Read, Dump, Load, Stop, BreakerCloses, vars, App, AppSet,
       AppDelete, AppDisable, Start, SetTimer, DeleteTimer, Resync, Sweep, Serve, ServeDp, ServeGet,
       ServePost, ServeDel, Resume, DpResume, GetResume, DelResume, PostResume, SweepResume,
       ResyncResume, ClearResume
  <1>1. clean
    BY CleanOnlyFalls
  <1>2. Agree(dev, Entries, calls)
    BY <1>0, <1>1 DEF CloudAgrees
  <1>3. ASSUME UNCHANGED <<dev, cloud, calls>> PROVE Agree(dev', Entries', calls')
    <2>1. Entries' = Entries
      BY <1>3 DEF Entries
    <2> QED BY <1>2, <1>3, <2>1
  <1>4. ASSUME NEW c \in Calls, Start(c) PROVE Agree(dev', Entries', calls')
    <2>1. dev' = dev /\ cloud' = cloud
      BY <1>4 DEF Start, SetTimer, DeleteTimer, Resync, Sweep, KeepWorld, device
    <2>2. Entries' = Entries
      BY <2>1 DEF Entries
    <2>3. Agree(dev, Entries, calls')
      BY <1>2, <1>4, StartAgrees
    <2> QED BY <2>1, <2>2, <2>3
  <1>5. ASSUME NEW c \in Calls, Serve(c) \/ Resume(c) PROVE Agree(dev', Entries', calls')
    BY <1>1, <1>2, <1>5, ServeAgrees, ResumeAgrees
  <1>6. ASSUME NEW graceful \in BOOLEAN, Stop(graceful) PROVE Agree(dev', Entries', calls')
    <2>1. NoCalls /\ dev' = dev /\ cloud' = cloud /\ calls' = [c \in Calls |-> Idle]
      BY <1>6 DEF Stop
    <2>2. Entries' = Entries
      BY <2>1 DEF Entries
    <2>3. \A c \in Calls : calls'[c].op = "idle"
      BY <2>1 DEF Idle
    <2>4. /\ OncePerKey(Entries) /\ DistinctKeys(dev)
          /\ \A k \in Keys : Listed(k, Entries) <=> Watered(k, dev)
      BY <1>2, <2>1 DEF Agree, ElsewhereEqual, NoCalls, Writing
    <2>5. Agree(dev, Entries, calls')
      BY <2>3, <2>4, AloneAgree
    <2> QED BY <2>1, <2>2, <2>5
  <1>7. CASE Registry
    BY <1>3, <1>6, <1>7 DEF Registry, Arrive, Lose, Read, Dump, Load, device
  <1>8. CASE App
    BY <1>2, <1>8, AppAgrees
  <1>9. CASE BreakerCloses \/ UNCHANGED vars
    BY <1>3, <1>9 DEF BreakerCloses, vars, device
  <1> QED BY <1>4, <1>5, <1>7, <1>8, <1>9 DEF Next

LEMMA CountOfOne ==
    ASSUME NEW S, \A x, y \in S : x = y
    PROVE  Cardinality(S) = IF S = {} THEN 0 ELSE 1
  <1>1. CASE S = {}
    BY <1>1, FS_EmptySet
  <1>2. CASE S # {}
    <2>1. PICK x \in S : TRUE
      BY <1>2
    <2>2. S = {x}
      BY <2>1
    <2>3. Cardinality({x}) = 1
      BY FS_Singleton
    <2> QED BY <1>2, <2>2, <2>3
  <1> QED BY <1>1, <1>2

LEMMA AgreeCounts == ASSUME TypeOK, OwnGids, CloudAgrees PROVE CloudMirrors
  <1> SUFFICES ASSUME clean, hub = "mirror", NoCalls, NEW k \in Keys
               PROVE  Count(k, cloud) = Count(k, [i \in ActiveSlots(dev) |-> dev[i]])
    BY DEF CloudMirrors
  <1> DEFINE watering == [i \in ActiveSlots(dev) |-> dev[i]]
             inCloud == {g \in Gids : cloud[g] # None /\ cloud[g].key = k}
             inValve == {i \in ActiveSlots(dev) : dev[i].key = k}
  <1>1. Agree(dev, Entries, calls)
    BY DEF CloudAgrees
  <1>2. Listed(k, Entries) <=> Watered(k, dev)
    BY <1>1 DEF Agree, ElsewhereEqual, NoCalls, Writing
  <1>3. Count(k, cloud) = Cardinality(inCloud)
    <2>1. DOMAIN cloud = Gids
      BY DEF TypeOK, WorldTypes
    <2> QED BY <2>1 DEF Count
  <1>4. Count(k, watering) = Cardinality(inValve)
    <2>1. DOMAIN watering = ActiveSlots(dev)
      OBVIOUS
    <2>2. \A i \in ActiveSlots(dev) : watering[i] = dev[i] /\ dev[i] # None
      BY DEF ActiveSlots, Enabled
    <2> HIDE DEF watering
    <2>3. {i \in DOMAIN watering : watering[i] # None /\ watering[i].key = k} = inValve
      BY <2>1, <2>2
    <2> QED BY <2>3 DEF Count
  <1>5. ASSUME NEW g \in inCloud, NEW h \in inCloud PROVE g = h
    <2>1. cloud[g] \in Entries /\ cloud[h] \in Entries
      BY DEF Entries
    <2>2. cloud[g] = cloud[h]
      BY <1>1, <2>1 DEF Agree, OncePerKey
    <2>3. cloud[g].gid = g /\ cloud[h].gid = h
      BY DEF OwnGids
    <2> QED BY <2>2, <2>3
  <1>6. ASSUME NEW i \in inValve, NEW j \in inValve PROVE i = j
    <2>1. DistinctKeys(dev)
      BY <1>1 DEF Agree
    <2> QED BY <2>1 DEF DistinctKeys, ActiveSlots, Enabled
  <1>7. inCloud = {} <=> inValve = {}
    <2>1. inCloud # {} <=> Listed(k, Entries)
      BY DEF Listed, Entries
    <2>2. inValve # {} <=> Watered(k, dev)
      BY DEF Watered, ActiveSlots
    <2> QED BY <1>2, <2>1, <2>2
  <1> HIDE DEF inCloud, inValve
  <1>8. Cardinality(inCloud) = IF inCloud = {} THEN 0 ELSE 1
    BY <1>5, CountOfOne
  <1>9. Cardinality(inValve) = IF inValve = {} THEN 0 ELSE 1
    BY <1>6, CountOfOne
  <1> QED BY <1>3, <1>4, <1>7, <1>8, <1>9

(* The cloud mirror is exact for any number of slots, keys, group ids and  *)
(* calls in flight: with no call running, and none so far that failed or   *)
(* met another one on its slot or its times and days, SmartLife lists each *)
(* enabled timer of the valve exactly once and nothing else (set_timer,    *)
(* delete_timer, resync_from_cloud).                                       *)
THEOREM CloudStaysMirrored == Spec => []CloudMirrors
  <1>1. Init => AllShaped /\ Sparing
    BY DEF Init, AllShaped, Shaped, Sparing, Idle
  <1>2. Init => OwnGids /\ CloudAgrees
    <2> SUFFICES ASSUME Init PROVE OwnGids /\ CloudAgrees
      OBVIOUS
    <2>1. Entries = {} /\ OwnGids
      BY DEF Init, Entries, OwnGids
    <2>2. \A i \in Slots : dev[i] = None
      BY DEF Init, NoSlots
    <2>3. OncePerKey(Entries) /\ DistinctKeys(dev)
          /\ \A k \in Keys : Listed(k, Entries) <=> Watered(k, dev)
      BY <2>1, <2>2 DEF OncePerKey, DistinctKeys, Listed, Watered, Enabled
    <2>4. \A c \in Calls : calls[c].op = "idle"
      BY DEF Init, Idle
    <2>5. Agree(dev, Entries, calls)
      BY <2>3, <2>4, AloneAgree
    <2> QED BY <2>1, <2>5 DEF CloudAgrees
  <1>3. /\ TypeOK /\ AllShaped /\ Sparing /\ OwnGids /\ CloudAgrees /\ [Next]_vars
        => /\ AllShaped' /\ Sparing' /\ OwnGids' /\ CloudAgrees'
    BY NextSpares, NextOwnGids, NextAgrees
  <1>4. TypeOK /\ OwnGids /\ CloudAgrees => CloudMirrors
    BY AgreeCounts
  <1> QED BY <1>1, <1>2, <1>3, <1>4, TypeCorrect, PTL DEF Spec

=============================================================================
