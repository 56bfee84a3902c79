--------------------------- MODULE MCComponents ---------------------------
(* The components of a hub other than its entries, its valves and its runs, *)
(* one behaviour for each: they share no state that their properties are    *)
(* about, so a behaviour picks the component that runs in it and the others *)
(* stay as they start.                                                      *)
EXTENDS Messages, Commands, MqSupervisor, OpenApiToken, Quota, ConfigFlow, IrRemotes, WebRtc,
        DeviceCopies, DpRepair, Locations, Covers, WaterFeed, Discovery, TimeTaskCodec, TLC

VARIABLE part       \* the component that runs

vars == <<part, msgVars, cmdVars, mqVars, tokenVars, quotaVars, flowVars, irVars, rtcVars, copyVars, dpVars,
          farmVars, coverVars, feedVars, foundVars, taskVars>>

Parts == {"messages", "commands", "stream", "token", "quota", "flow", "ir", "camera", "copies", "repair",
          "farm", "cover", "feed", "discovery", "frames"}

(* The descriptors of a platform, of official Tuya and of a parser: a code   *)
(* two of them know, one with two readings, one of any category.  A lamp is  *)
(* paired while the hub runs, the valve has an alias of a code.             *)
Desc(key, dpcode, named, alone) == [key |-> key, dpcode |-> dpcode, named |-> named, alone |-> alone]
PlainDesc(key) == Desc(key, NoCode, FALSE, FALSE)
CatalogueOf(alone, compound, overridden) ==
  [own |-> "valve" :> <<PlainDesc("a"), Desc("b1", "b", FALSE, FALSE)>> @@ CrossCategory :> <<PlainDesc("c")>>,
   accounts |-> <<"valve" :> <<Desc("a", NoCode, TRUE, FALSE), PlainDesc("d")>> @@ "lamp" :> <<PlainDesc("a")>>>>,
   parsers |-> <<"valve" :> <<Desc("b2", "b", FALSE, alone)>>>>,
   compound |-> compound, overridden |-> overridden]
SomeCatalogues == {CatalogueOf(alone, compound, overridden) : alone, compound, overridden \in BOOLEAN}
IdleCatalogue == CatalogueOf(TRUE, TRUE, TRUE)
SomeAppliances ==
  "valve 1" :> [category |-> "valve", status |-> {"a", "b", "c", "g"}, aliases |-> "d" :> "g",
                described |-> {"a", "b", "c", "d", "g"}, suited |-> {"a", "b", "g"}, official |-> {"a"}]
  @@ "lamp 1" :> [category |-> "lamp", status |-> {"a", "c", "x"}, aliases |-> <<>>,
                  described |-> {"a", "x"}, suited |-> {"c", "x"}, official |-> {"x"}]

Init ==
    /\ part \in Parts
    /\ MsgInit /\ CmdInit /\ MqInit /\ TokenInit /\ QuotaInit /\ FlowInit /\ IrInit /\ RtcInit
    /\ CopyInit /\ DpInit /\ LocInit /\ CoverInit /\ FeedInit /\ FoundInit /\ TaskInit
    /\ vars = vars          \* evaluates the functions of the components that stay idle
    /\ part # "token" => credentials
    /\ part # "quota" => limit = TrialLimit
    /\ part # "commands" => ~custom
    /\ part # "cover" => precise /\ ~inverted
    /\ part # "farm" => farm = EmptyFarm
    /\ part # "feed" => registry.fresh
    /\ part # "discovery" => catalogue = IdleCatalogue
    /\ part # "frames" => valve = "QT-08W" /\ task = Empty(0)

(* Bounds of a behaviour, beside those of the modules. *)
MaxEventsAndResets == 2
MaxDialogsAndSessions == 3
MaxValuesAndLogins == 4

MessagesTurn ==
    /\ part = "messages" /\ MsgNext /\ events' + resets' <= MaxEventsAndResets
    /\ UNCHANGED <<part, cmdVars, mqVars, tokenVars, quotaVars, flowVars, irVars, rtcVars, copyVars, dpVars, farmVars, coverVars, feedVars, foundVars, taskVars>>
CommandsTurn ==
    /\ part = "commands" /\ CmdNext
    /\ UNCHANGED <<part, msgVars, mqVars, tokenVars, quotaVars, flowVars, irVars, rtcVars, copyVars, dpVars, farmVars, coverVars, feedVars, foundVars, taskVars>>
StreamTurn ==
    /\ part = "stream" /\ MqNext
    /\ UNCHANGED <<part, msgVars, cmdVars, tokenVars, quotaVars, flowVars, irVars, rtcVars, copyVars, dpVars, farmVars, coverVars, feedVars, foundVars, taskVars>>
TokenTurn ==
    /\ part = "token" /\ TokenNext
    /\ UNCHANGED <<part, msgVars, cmdVars, mqVars, quotaVars, flowVars, irVars, rtcVars, copyVars, dpVars, farmVars, coverVars, feedVars, foundVars, taskVars>>
QuotaTurn ==
    /\ part = "quota" /\ QuotaNext
    /\ UNCHANGED <<part, msgVars, cmdVars, mqVars, tokenVars, flowVars, irVars, rtcVars, copyVars, dpVars, farmVars, coverVars, feedVars, foundVars, taskVars>>
FlowTurn ==
    /\ part = "flow" /\ FlowNext /\ writes'.values + writes'.logins <= MaxValuesAndLogins
    /\ UNCHANGED <<part, msgVars, cmdVars, mqVars, tokenVars, quotaVars, irVars, rtcVars, copyVars, dpVars, farmVars, coverVars, feedVars, foundVars, taskVars>>
IrTurn ==
    /\ part = "ir" /\ IrNext /\ asked' + sessions' <= MaxDialogsAndSessions
    /\ UNCHANGED <<part, msgVars, cmdVars, mqVars, tokenVars, quotaVars, flowVars, rtcVars, copyVars, dpVars, farmVars, coverVars, feedVars, foundVars, taskVars>>
CameraTurn ==
    /\ part = "camera" /\ RtcNext
    /\ UNCHANGED <<part, msgVars, cmdVars, mqVars, tokenVars, quotaVars, flowVars, irVars, copyVars, dpVars, farmVars, coverVars, feedVars, foundVars, taskVars>>
CopiesTurn ==
    /\ part = "copies" /\ CopyNext
    /\ UNCHANGED <<part, msgVars, cmdVars, mqVars, tokenVars, quotaVars, flowVars, irVars, rtcVars, dpVars, farmVars, coverVars, feedVars, foundVars, taskVars>>
RepairTurn ==
    /\ part = "repair" /\ DpNext
    /\ UNCHANGED <<part, msgVars, cmdVars, mqVars, tokenVars, quotaVars, flowVars, irVars, rtcVars, copyVars, farmVars, coverVars, feedVars, foundVars, taskVars>>
FarmTurn ==
    /\ part = "farm" /\ LocNext
    /\ UNCHANGED <<part, msgVars, cmdVars, mqVars, tokenVars, quotaVars, flowVars, irVars, rtcVars, copyVars, dpVars, coverVars, feedVars, foundVars, taskVars>>
CoverTurn ==         \* up to the first command that comes before the last one is over
    /\ part = "cover" /\ ~superseded /\ CoverNext
    /\ UNCHANGED <<part, msgVars, cmdVars, mqVars, tokenVars, quotaVars, flowVars, irVars, rtcVars, copyVars, dpVars, farmVars, feedVars, foundVars, taskVars>>
FeedTurn ==
    /\ part = "feed" /\ FeedNext
    /\ UNCHANGED <<part, msgVars, cmdVars, mqVars, tokenVars, quotaVars, flowVars, irVars, rtcVars, copyVars, dpVars, farmVars, coverVars, foundVars, taskVars>>

DiscoveryTurn ==
    /\ part = "discovery" /\ FoundNext
    /\ UNCHANGED <<part, msgVars, cmdVars, mqVars, tokenVars, quotaVars, flowVars, irVars, rtcVars, copyVars, dpVars, farmVars, coverVars, feedVars, taskVars>>
FramesTurn ==
    /\ part = "frames" /\ TaskNext
    /\ UNCHANGED <<part, msgVars, cmdVars, mqVars, tokenVars, quotaVars, flowVars, irVars, rtcVars, copyVars, dpVars, farmVars, coverVars, feedVars, foundVars>>

Next ==
    \/ MessagesTurn \/ CommandsTurn \/ StreamTurn \/ TokenTurn \/ QuotaTurn \/ FlowTurn \/ IrTurn
    \/ CameraTurn \/ CopiesTurn \/ RepairTurn \/ FarmTurn \/ CoverTurn \/ FeedTurn
    \/ DiscoveryTurn \/ FramesTurn

Spec == Init /\ [][Next]_vars

-----------------------------------------------------------------------------
(* The instance. *)

(* How often each value occurs in a function: dialogs, learners and         *)
(* recorders are interchangeable.                                           *)
Occurrences(f) == {<<f[x], Cardinality({y \in DOMAIN f : f[y] = f[x]})>> : x \in DOMAIN f}

(* A handler that has ended does nothing any more. *)
LiveHandlers == {<<i, handlers[i]>> : i \in {j \in DOMAIN handlers : handlers[j].live \/ j = handling}}

(* What tells the states of a behaviour apart: the component that runs.     *)
View == <<part, CASE part = "messages" -> msgVars
                  [] part = "commands" -> cmdVars
                  [] part = "stream" -> mqVars
                  [] part = "token" -> tokenVars
                  [] part = "quota" -> <<month, quota, stored, saves, Occurrences(user), user[Reader],
                                 limit, spent, commanded, overlapped>>
                  [] part = "flow" -> <<login, entry, settings, Occurrences(dialog), writes, kept, crossed>>
                  [] part = "ir" -> <<dataVars, learning, sessions, captured, Occurrences(learner), keyVars,
                              shownVars, irFailed, irCrossed>>
                  [] part = "camera" -> rtcVars
                  [] part = "copies" -> copyVars
                  [] part = "repair" -> dpVars
                  [] part = "farm" -> farmVars
                  [] part = "cover" -> <<motorVars, virtual, storedPosition, Len(handlers), LiveHandlers,
                                 handling, stops, driftVars, coverStarts>>
                  [] part = "feed" -> feedVars
                  [] part = "discovery" -> foundVars
                  [] part = "frames" -> taskVars>>

(* A code with an alias, one only the OpenAPI project takes, the alias, the *)
(* reset of a summed state, and one no descriptor knows.                    *)
CodeTable == [c \in {"plain", "open", "aka", "reset", "unknown"} |->
    [found |-> c # "unknown", openApi |-> c = "open", property |-> c = "open",
     virtual |-> c = "reset", aliases |-> IF c = "plain" THEN <<"aka">> ELSE <<>>]]
TwoAccounts == <<"sharing", "iot">>
ManualUnlock == <<"plain", "open">>
CopyPriority == [regular |-> 1, sharing |-> 2, iot |-> 3]

(* The ways an account may describe the data point, with the value it        *)
(* reports; a bare copy has no strategy, a rich one has, and may name its    *)
(* items differently or bring the options of the cloud's data model.         *)
Descriptions ==
  {[type |-> "Integer", values |-> [unit |-> "%", min |-> 0, max |-> 100, scale |-> 0]],
   [type |-> "Integer", values |-> [unit |-> "wide %", min |-> 0, max |-> 1000, scale |-> 0]],
   [type |-> "Integer", values |-> [raw |-> "bad"]],
   [type |-> "Enum", values |-> [range |-> {"a", "b"}]],
   [type |-> "Enum", values |-> [range |-> {"a", "b", "c"}]],
   [type |-> "Raw", values |-> <<>>],
   [type |-> "Boolean", values |-> <<>>],
   [type |-> "Bitmap", values |-> [label |-> {"x"}, max |-> 3]]}
ReadingOf == [Integer |-> "number", Enum |-> "text", Raw |-> "coded", Boolean |-> "flag", Bitmap |-> "number"]
ItemAs(kind) == [type |-> kind.type, values |-> kind.values, dp |-> NoDp]
BareCopy(kind, code, forced) ==
  [status |-> code :> ReadingOf[kind.type], range |-> code :> ItemAs(kind), function |-> code :> ItemAs(kind),
   strategy |-> NoStrategy, model |-> NoModel, forced |-> forced]
RichCopy(kind, other, code, format, conv, model, forced) ==
  [BareCopy(kind, code, forced) EXCEPT
     !.function = code :> ItemAs(other), !.model = model,
     !.strategy = [code |-> "code", alias |-> {}, format |-> format, type |-> other.type, values |-> other.values,
                   conv |-> conv, mode |-> "read write", open |-> FALSE, property |-> FALSE]]
FirstCopies ==
  {BareCopy(kind, code, forced) : kind \in Descriptions, code \in {"code", "alias"}, forced \in BOOLEAN}
    \cup {RichCopy(kind, other, code, {"code", "alias"}, "custom", NoModel, kind = other) :
             kind \in Descriptions, other \in Descriptions, code \in {"code", "alias"}}
SecondCopies ==
  {NoCopy} \cup {RichCopy(kind, kind, "code", format, "default", model, FALSE) :
                    kind \in Descriptions, format \in {{"code"}, {"code", "alias"}}, model \in {NoModel, {"b", "d"}}}
FreshCopies == {BareCopy(kind, code, FALSE) : kind \in Descriptions, code \in {"code", "alias"}}

(* A farm nothing is known of yet, whose valves are named alike in part, and *)
(* one with a place, two sites and two pumps.                               *)
SomeFarms ==
  {EmptyFarm,
   [EmptyFarm EXCEPT
      !.seeded = TRUE, !.pumps = {"u1", "u2"},
      !.places = "p1" :> [name |-> "north", aliases |-> {"north"}, site |-> "s1"],
      !.sites = "s1" :> [name |-> "north", parent |-> NoSite] @@ "s2" :> [name |-> "south", parent |-> "s1"],
      !.held = {[place |-> "p1", device |-> "v1", begin |-> Forever, end |-> Ongoing, auto |-> TRUE]}]}
SomeNames == {"v1" :> "north" @@ "v2" :> "south"}
SomeRooms == {"v1" :> "south" @@ "v2" :> NoName}

(* A timer that opens the valve, one the cloud says is off, one by volume   *)
(* and one only the cloud knows; the cloud's word may be stale.             *)
Timer(slot, at, mode, value) ==
  [slot |-> slot, minute |-> at, today |-> TRUE, mode |-> mode, value |-> value, enabled |-> TRUE]
SomeRegistries ==
  {[slots |-> {Timer("t1", 0, "duration", 4), Timer("t2", 4, "duration", 2), Timer("t3", 5, "volume", 20)},
    overlay |-> {<<"t2", "off">>}, cloudOnly |-> {Timer("c0", 4, "duration", 1)}, fresh |-> fresh] : fresh \in BOOLEAN}

(* The component that runs keeps the types of its state. *)
TypeOK ==
    CASE part = "messages" -> MsgTypeOK
      [] part = "commands" -> CmdTypeOK
      [] part = "stream" -> MqTypeOK
      [] part = "token" -> TokenTypeOK
      [] part = "quota" -> QuotaTypeOK
      [] part = "flow" -> FlowTypeOK
      [] part = "ir" -> IrTypeOK
      [] part = "camera" -> RtcTypeOK
      [] part = "copies" -> CopyTypeOK
      [] part = "repair" -> DpTypeOK
      [] part = "farm" -> LocTypeOK
      [] part = "cover" -> CoverTypeOK
      [] part = "feed" -> FeedTypeOK
      [] part = "discovery" -> FoundTypeOK
      [] part = "frames" -> TaskTypeOK
=============================================================================
