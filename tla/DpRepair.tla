------------------------------ MODULE DpRepair ------------------------------
(* How a hub settles what a data point is (cloud_fix.py, merging_manager.py).   *)
(* A device describes a data point three times: in status_range, in function    *)
(* and in local_strategy, and two accounts may each bring their own three.      *)
(* The descriptions disagree on the type, on the limits, on the scale and the   *)
(* unit, on the options of an enumeration, and on the name: one account says    *)
(* "code", the other calls it "alias".  When the hub loads, the two copies are  *)
(* merged and the result is repaired twice; a device that is bound again later  *)
(* is merged into the one the entities use.                                     *)
(*                                                                              *)
(* Modelled for one data point (dp 1).  Options are sets (their order is left   *)
(* out); the fields maxlen and step, which follow max and min, and the mapping  *)
(* of a Boolean's spellings are left out.                                       *)
EXTENDS Naturals, SequencesExt

CONSTANTS Firsts,     \* what the account with the higher priority may say of the device
          Seconds,    \* what the other account may say, or NoCopy
          Fresh,      \* what an account may say when the device is bound again
          ReadOnlyCodes  \* the codes that count energy and are never written

VARIABLES dpStage,    \* none, fetched, merged, prepared, rebound
          dpDevice,   \* the copy with the higher priority, later the merged device
          dpOther,    \* the copy that is merged into it, or NoCopy
          dpForced    \* the status codes that force_compatibility keeps

dpVars == <<dpStage, dpDevice, dpOther, dpForced>>

NoCopy == [status |-> <<>>]
Dp == 1
NoDp == 0
NoType == "no type"
NoStrategy == [code |-> "none"]
NoModel == {}
UomMapping == [u \in {"%", "wide %"} |-> "%"]

Largest == {"max", "scale"}
Smallest == {"min"}

HasStrategy(d) == d.strategy # NoStrategy
(* The codes in the order of the dictionaries. *)
CodeOrder == <<"code", "alias">>
BothCodes == {"code", "alias"}

CopyFields == {"status", "range", "function", "strategy", "model", "forced"}
StrategyFields == {"code", "alias", "format", "type", "values", "conv", "mode", "open", "property"}
IsCopy(d) ==
  /\ DOMAIN d = CopyFields /\ d.forced \in BOOLEAN /\ DOMAIN d.status \subseteq BothCodes
  /\ HasStrategy(d) => /\ DOMAIN d.strategy = StrategyFields /\ d.strategy.code \in BothCodes
                       /\ d.strategy.alias \subseteq BothCodes /\ d.strategy.format \subseteq BothCodes

(* The official integration's copy reports the data point under one code.       *)
ASSUME DescriptionsAssumption ==
  /\ \A d \in Firsts \cup Fresh \cup (Seconds \ {NoCopy}) : IsCopy(d)
  /\ \A d \in Firsts : d.forced => \A c, other \in DOMAIN d.status : c = other

-----------------------------------------------------------------------------
(* Value descriptors: a function of its fields; a text that is no JSON has the  *)
(* field "raw", a repaired one "ErrorValue1" and maybe "ErrorValue2".           *)

(* get_value_descr_dict *)
IsGood(v) == DOMAIN v \cap {"raw", "ErrorValue1"} = {}
RawOf(v) == IF "raw" \in DOMAIN v THEN v.raw ELSE v.ErrorValue1
(* get_fixed_value_descr, of one text or of the first two *)
FixedDescr(errors) ==
  IF Len(errors) = 1 THEN [ErrorValue1 |-> errors[1]]
                     ELSE [ErrorValue1 |-> errors[1], ErrorValue2 |-> errors[2]]

FieldOf(values, field) == {v[field] : v \in {w \in values : field \in DOMAIN w}}
ExtremeOf(S, largest) == CHOOSE x \in S : \A y \in S : IF largest THEN y <= x ELSE x <= y

(* The options of the first description, extended by those of the others that   *)
(* share at least two with it.                                                  *)
Extended(first, others) ==
  FoldLeft(LAMBDA known, more : IF Cardinality(more \cap known) > 1 THEN known \cup more ELSE known, first, others)

(* compute_aligned_valuedescr of the descriptors, in order. *)
Aligned(descriptors) ==
  LET values == Range(descriptors)
      ranges == SelectSeq(descriptors, LAMBDA v : "range" \in DOMAIN v)
      numbers == {f \in Largest \cup Smallest : FieldOf(values, f) # {}}
  IN [f \in numbers |-> ExtremeOf(FieldOf(values, f), f \in Largest)]
       @@ (IF Cardinality(FieldOf(values, "range")) > 1
           THEN [range |-> Extended(ranges[1].range, [i \in DOMAIN ranges |-> ranges[i].range])]
           ELSE <<>>)

(* The scale of a percentage: divisions by ten until it is at most a hundred. *)
PercentScale[max \in Nat] == IF max <= 100 THEN 0 ELSE 1 + PercentScale[max \div 10]
PercentFixed(v) ==
  IF {"unit", "min", "max", "scale"} \subseteq DOMAIN v /\ v.unit = "%" /\ v.max % 100 = 0
  THEN [v EXCEPT !.scale = PercentScale[v.max]] ELSE v

-----------------------------------------------------------------------------
(* CloudFixes.apply_fixes, one operator per repair. *)

(* What Op makes of the values, of one described thing and of the item of a code. *)
Revalued(described, Op(_)) == [described EXCEPT !.values = Op(described.values)]
OnItem(items, c, Op(_)) == [i \in DOMAIN items |-> IF i = c THEN Op(items[i]) ELSE items[i]]
MapItems(d, Op(_)) ==
  LET Each(items) == [c \in DOMAIN items |-> Op(items[c])]
  IN [d EXCEPT !.range = Each(d.range), !.function = Each(d.function)]

(* determine_most_plausible *)
MostPlausible(first, second, value) ==
  IF first = second THEN 0
  ELSE IF first = NoType THEN 2 ELSE IF second = NoType THEN 1
  ELSE IF first = "Raw" THEN 2 ELSE IF second = "Raw" THEN 1
  ELSE IF first = "String" /\ second = "Json" THEN 2
  ELSE IF second = "String" /\ first = "Json" THEN 1
  ELSE IF first = "Boolean" /\ value = "flag" THEN 1
  ELSE IF second = "Boolean" /\ value = "flag" THEN 2
  ELSE 0

ValueOf(status, c) == IF c \in DOMAIN status THEN status[c] ELSE "none"

(* The type of the strategy against the one of the item, in _unify_data_types. *)
UnifyWith(d, item) ==
  LET c == d.strategy.code
      verdict == MostPlausible(d.strategy.type, d[item][c].type, ValueOf(d.status, c))
  IN IF c \notin DOMAIN d[item] THEN d
     ELSE IF verdict = 1
     THEN [d EXCEPT ![item] = OnItem(d[item], c, LAMBDA i : [i EXCEPT !.type = d.strategy.type, !.values = d.strategy.values])]
     ELSE IF verdict = 2
     THEN [d EXCEPT !.strategy.type = d[item][c].type, !.strategy.values = d[item][c].values]
     ELSE d
UnifyDataTypes(d) ==
  IF ~HasStrategy(d) THEN d
  ELSE LET ranged == UnifyWith(d, "range")
           both == UnifyWith(ranged, "function")
       IN IF both.strategy = ranged.strategy THEN both ELSE UnifyWith(both, "range")

(* The data points that the items of a code name. *)
DpsOf(d, c) == UNION {IF c \in DOMAIN items THEN {items[c].dp} ELSE {} : items \in {d.range, d.function}}
(* The codes of the strategy. *)
CodesOf(d) == IF HasStrategy(d) THEN {d.strategy.code} \cup d.strategy.alias ELSE {}
MapDpIds(d) ==
  LET Mapped(items) == [c \in DOMAIN items |-> IF c \in CodesOf(d) THEN [items[c] EXCEPT !.dp = Dp] ELSE items[c]]
  IN [d EXCEPT !.range = Mapped(d.range), !.function = Mapped(d.function)]

(* _fix_incorrect_valuedescr, for one code: a bad descriptor takes the good one *)
(* of the same code, or keeps its text as an error value.                       *)
FixValueDescr(d, c) ==
  LET inRange == c \in DOMAIN d.range
      inFunction == c \in DOMAIN d.function
      inStrategy == HasStrategy(d) /\ (Dp \in DpsOf(d, c) \/ c \in CodesOf(d))
      texts == (IF inStrategy THEN <<d.strategy.values>> ELSE <<>>)
                     \o (IF inRange THEN <<d.range[c].values>> ELSE <<>>)
                     \o (IF inFunction THEN <<d.function[c].values>> ELSE <<>>)
      good == (IF inStrategy /\ IsGood(d.strategy.values) THEN <<d.strategy.values>> ELSE <<>>)
                \o (IF inFunction /\ IsGood(d.function[c].values) THEN <<d.function[c].values>> ELSE <<>>)
                \o (IF inRange /\ IsGood(d.range[c].values) THEN <<d.range[c].values>> ELSE <<>>)
      errors == [i \in DOMAIN texts |-> RawOf(texts[i])]
      correct == IF good # <<>> THEN good[1] ELSE FixedDescr(errors)
      Fix(described) == Revalued(described, LAMBDA v : IF IsGood(v) THEN v ELSE correct)
  IN [d EXCEPT !.range = OnItem(d.range, c, Fix), !.function = OnItem(d.function, c, Fix),
               !.strategy = IF inStrategy THEN Fix(d.strategy) ELSE d.strategy]

FixIncorrectValuedescr(d) == FixValueDescr(FixValueDescr(d, CodeOrder[1]), CodeOrder[2])

FixPercentageScale(d) ==
  LET Fix(described) == Revalued(described, PercentFixed)
      fixed == MapItems(d, Fix)
  IN IF HasStrategy(d) THEN [fixed EXCEPT !.strategy = Fix(d.strategy)] ELSE fixed

(* The descriptors of a code that two descriptions name: strategy, range, function. *)
NamedTwice(d, c) ==
  Cardinality({i \in 1..3 : \/ i = 1 /\ c \in DOMAIN d.range
                            \/ i = 2 /\ c \in DOMAIN d.function
                            \/ i = 3 /\ HasStrategy(d) /\ d.strategy.code = c}) > 1
DpOf(d, c) == IF c \in DOMAIN d.function THEN d.function[c].dp
              ELSE IF c \in DOMAIN d.range THEN d.range[c].dp ELSE NoDp
Described(d, c) ==
  (IF HasStrategy(d) /\ DpOf(d, c) = Dp THEN <<d.strategy.values>> ELSE <<>>)
    \o (IF c \in DOMAIN d.range THEN <<d.range[c].values>> ELSE <<>>)
    \o (IF c \in DOMAIN d.function THEN <<d.function[c].values>> ELSE <<>>)
(* What Op makes of each of them. *)
EachDescriptor(d, c, Op(_)) ==
  IF ~NamedTwice(d, c) THEN d
  ELSE LET Revalue(described) == Revalued(described, Op)
       IN [d EXCEPT !.strategy = IF HasStrategy(d) /\ DpOf(d, c) = Dp THEN Revalue(d.strategy) ELSE d.strategy,
                    !.range = OnItem(d.range, c, Revalue), !.function = OnItem(d.function, c, Revalue)]

(* _align_valuedescr *)
AlignCode(d, c) ==
  LET fix == Aligned(Described(d, c)) IN EachDescriptor(d, c, LAMBDA v : fix @@ v)
AlignValuedescr(d) == AlignCode(AlignCode(d, CodeOrder[1]), CodeOrder[2])

IsEnum(d) == HasStrategy(d) /\ d.strategy.type = "Enum"
WithOptions(v, options) ==
  [range |-> options \cup (IF "range" \in DOMAIN v THEN v.range ELSE {})] @@ v
RangesFromDataModel(d) ==
  IF IsEnum(d) /\ d.model # NoModel
  THEN [d EXCEPT !.strategy = Revalued(d.strategy, LAMBDA v : WithOptions(v, d.model))] ELSE d
RangesFromLocalStrategy(d) ==
  LET options == d.strategy.values.range
      Extend(described) == Revalued(described, LAMBDA v : IF DOMAIN v = {} THEN v ELSE WithOptions(v, options))
  IN IF IsEnum(d) /\ "range" \in DOMAIN d.strategy.values /\ options # {}
     THEN [d EXCEPT !.range = OnItem(d.range, d.strategy.code, Extend),
                    !.function = OnItem(d.function, d.strategy.code, Extend)] ELSE d

AliasesFromStatusFormat(d) ==
  IF HasStrategy(d) /\ d.strategy.format # {}
  THEN [d EXCEPT !.strategy.alias = @ \cup (d.strategy.format \ {d.strategy.code}),
                 !.strategy.format = {d.strategy.code}]
  ELSE d

(* An item moves to the code of the strategy, unless that has one. *)
Moved(items, alias, c) ==
  IF alias \in DOMAIN items /\ c \notin DOMAIN items
  THEN Restrict(items, DOMAIN items \ {alias}) @@ (c :> items[alias]) ELSE items
RemoveAliasStatus(d) ==
  LET c == d.strategy.code
      WithoutAlias(alias) ==
        [d EXCEPT !.status = Restrict(d.status @@ (c :> d.status[alias]), (DOMAIN d.status \cup {c}) \ {alias}),
                  !.range = Moved(d.range, alias, c), !.function = Moved(d.function, alias, c)]
      present == IF HasStrategy(d) THEN (d.strategy.alias \ {c}) \cap DOMAIN d.status ELSE {}
  IN IF present = {} THEN d ELSE WithoutAlias(CHOOSE a \in present : TRUE)

(* _fix_unaligned_function_or_status_range: items of the data point under        *)
(* another code are merged into the strategy and dropped, or renamed when the    *)
(* code has no item at all.                                                      *)
Unaligned(d, item) == {c \in DOMAIN d[item] : HasStrategy(d) /\ d[item][c].dp = Dp /\ c # d.strategy.code}
MergeUnaligned(d, item, c) ==
  LET own == d.strategy.code
      values == Aligned(<<d.strategy.values>> \o (IF IsGood(d[item][c].values) THEN <<d[item][c].values>> ELSE <<>>))
                  @@ d.strategy.values
      Set(described) == Revalued(described, LAMBDA v : values)
      merged == IF ~IsGood(d.strategy.values) THEN d
                ELSE [d EXCEPT !.strategy = Set(d.strategy), !.range = OnItem(d.range, own, Set),
                               !.function = OnItem(d.function, own, Set)]
      kept == Restrict(merged[item], DOMAIN d[item] \ {c})
  IN [merged EXCEPT ![item] = IF own \in DOMAIN d.range \cup DOMAIN d.function THEN kept
                              ELSE kept @@ (own :> d[item][c])]
FixUnalignedItem(d, item) ==
  IF Unaligned(d, item) = {} THEN d ELSE MergeUnaligned(d, item, CHOOSE c \in Unaligned(d, item) : TRUE)
FixUnaligned(d) == FixUnalignedItem(FixUnalignedItem(d, "range"), "function")

StripBitmap(described) ==
  IF described.type = "Bitmap" THEN [described EXCEPT !.values = Restrict(described.values, DOMAIN described.values \cap {"label"})]
                               ELSE described
StripBitmaps(d) ==
  LET stripped == MapItems(d, StripBitmap)
  IN IF HasStrategy(d) THEN [stripped EXCEPT !.strategy = StripBitmap(d.strategy)] ELSE stripped

RemoveIsolated(d) ==
  LET Kept(items) == Restrict(items, {c \in DOMAIN items : \/ items[c].dp = Dp /\ HasStrategy(d)
                                                           \/ c \in DOMAIN d.status})
  IN [d EXCEPT !.range = Kept(d.range), !.function = Kept(d.function)]

MapUnit(v) == IF "unit" \in DOMAIN v /\ v.unit \in DOMAIN UomMapping
              THEN [v EXCEPT !.unit = UomMapping[v.unit]] ELSE v
AlignUom(d) == EachDescriptor(EachDescriptor(d, CodeOrder[1], MapUnit), CodeOrder[2], MapUnit)

FixAccessMode(d) ==
  IF HasStrategy(d) /\ \E c \in DOMAIN d.status \cap ReadOnlyCodes : Dp \in DpsOf(d, c)
  THEN [d EXCEPT !.strategy.mode = "read only"] ELSE d

Fixed(d, fix) ==
  CASE fix = "unify data types" -> UnifyDataTypes(d)
    [] fix = "map dp ids" -> MapDpIds(d)
    [] fix = "fix descriptors" -> FixIncorrectValuedescr(d)
    [] fix = "fix percentage scale" -> FixPercentageScale(d)
    [] fix = "align descriptors" -> AlignValuedescr(d)
    [] fix = "ranges of the data model" -> RangesFromDataModel(d)
    [] fix = "ranges of the strategy" -> RangesFromLocalStrategy(d)
    [] fix = "aliases of the format" -> AliasesFromStatusFormat(d)
    [] fix = "remove alias status" -> RemoveAliasStatus(d)
    [] fix = "fix unaligned" -> FixUnaligned(d)
    [] fix = "strip bitmaps" -> StripBitmaps(d)
    [] fix = "remove isolated" -> RemoveIsolated(d)
    [] fix = "align units" -> AlignUom(d)
    [] fix = "fix access mode" -> FixAccessMode(d)
Fixes ==
  <<"unify data types", "map dp ids", "fix descriptors", "fix percentage scale", "align descriptors",
    "ranges of the data model", "ranges of the strategy", "aliases of the format", "remove alias status",
    "fix unaligned", "strip bitmaps", "remove isolated", "align units", "fix access mode">>
ApplyFixes(d) == FoldLeft(Fixed, d, Fixes)

(* _redetermine_dptype: a raw value that reads as text or as JSON has that type. *)
TypeFromValue(conv, value) ==
  IF conv = "custom" /\ value = "coded" THEN "Json"
  ELSE CASE value = "json" -> "Json" [] value \in {"coded", "text"} -> "String" [] OTHER -> "Raw"
Retype(d, c) ==
  LET known == HasStrategy(d) /\ Dp \in DpsOf(d, c)
      types == SelectSeq((IF c \in DOMAIN d.function THEN <<d.function[c].type>> ELSE <<>>)
                           \o (IF c \in DOMAIN d.range THEN <<d.range[c].type>> ELSE <<>>)
                           \o (IF known THEN <<d.strategy.type>> ELSE <<>>), LAMBDA t : t # NoType)
      new == TypeFromValue(IF known THEN d.strategy.conv ELSE "none", d.status[c])
  IN IF c \notin DOMAIN d.status \/ types = <<>> \/ types[1] # "Raw" THEN d
     ELSE LET Set(described) == [described EXCEPT !.type = new]
          IN [d EXCEPT !.range = OnItem(d.range, c, Set), !.function = OnItem(d.function, c, Set),
                       !.strategy = IF known THEN Set(d.strategy) ELSE d.strategy]
PostInitFixes(d) == Retype(Retype(d, CodeOrder[1]), CodeOrder[2])

-----------------------------------------------------------------------------
(* XTMergingManager.merge_devices of a copy into the one with the priority. *)
(* A pair holds the two as they are repaired side by side.                  *)

Both(pair) == HasStrategy(pair[1]) /\ HasStrategy(pair[2])
Shared(pair, item) == DOMAIN pair[1][item] \cap DOMAIN pair[2][item]
(* Op, of two descriptions of the same thing, wherever both copies have one. *)
ItemsAcross(pair, item, Op(_, _, _)) ==
  LET Side(i) == [c \in DOMAIN pair[i][item] |->
                    IF c \in Shared(pair, item) THEN Op(c, pair[1][item][c], pair[2][item][c])[i]
                                                ELSE pair[i][item][c]]
  IN [i \in 1..2 |-> [pair[i] EXCEPT ![item] = Side(i)]]
StrategiesAcross(pair, Op(_, _)) ==
  IF Both(pair) THEN [i \in 1..2 |-> [pair[i] EXCEPT !.strategy = Op(pair[1].strategy, pair[2].strategy)[i]]]
                ELSE pair
EverywhereAcross(pair, Op(_, _)) ==
  StrategiesAcross(ItemsAcross(ItemsAcross(pair, "function", LAMBDA c, a, b : Op(a, b)),
                               "range", LAMBDA c, a, b : Op(a, b)), Op)
WithValues(a, b, one, two) == <<[a EXCEPT !.values = one], [b EXCEPT !.values = two]>>

(* _fix_incorrect_valuedescr of the two *)
FixPair(a, b) ==
  LET fixed == FixedDescr(<<RawOf(a.values), RawOf(b.values)>>)
  IN CASE IsGood(a.values) /\ IsGood(b.values) -> <<a, b>>
       [] IsGood(a.values) /\ ~IsGood(b.values) -> WithValues(a, b, a.values, a.values)
       [] ~IsGood(a.values) /\ IsGood(b.values) -> WithValues(a, b, b.values, b.values)
       [] OTHER -> WithValues(a, b, fixed, fixed)
FixAcross(pair) == EverywhereAcross(pair, FixPair)

(* _align_DPTypes *)
TypePair(a, b, value) ==
  LET verdict == MostPlausible(a.type, b.type, value)
  IN CASE verdict = 1 -> <<a, [b EXCEPT !.type = a.type, !.values = a.values]>>
       [] verdict = 2 -> <<[a EXCEPT !.type = b.type, !.values = b.values], b>>
       [] OTHER -> <<a, b>>
AlignTypes(pair) ==
  LET Value(c) == ValueOf(pair[1].status @@ pair[2].status, c)
      Item(c, a, b) == TypePair(a, b, Value(c))
      Strategies(a, b) == TypePair(a, b, IF Value(a.code) # "none" THEN Value(a.code) ELSE Value(b.code))
  IN StrategiesAcross(ItemsAcross(ItemsAcross(pair, "range", Item), "function", Item), Strategies)

(* _align_api_usage: the copy that needs the OpenAPI less decides. *)
AlignApiUsage(pair) ==
  StrategiesAcross(pair, LAMBDA a, b :
    LET from == IF ~a.open THEN a ELSE IF ~b.open THEN b ELSE IF ~a.property THEN a ELSE IF ~b.property THEN b
                ELSE [open |-> TRUE, property |-> TRUE]
    IN <<[a EXCEPT !.open = from.open, !.property = from.property],
         [b EXCEPT !.open = from.open, !.property = from.property]>>)
(* _prefer_non_default_value_convert *)
PreferConvert(pair) ==
  StrategiesAcross(pair, LAMBDA a, b :
    LET conv == IF a.conv = "default" THEN b.conv ELSE a.conv
    IN <<[a EXCEPT !.conv = conv], [b EXCEPT !.conv = conv]>>)
(* _align_valuedescr of the two *)
AlignAcross(pair) ==
  EverywhereAcross(pair, LAMBDA a, b :
    LET fix == Aligned(<<a.values, b.values>>)
    IN WithValues(a, b, fix @@ a.values, fix @@ b.values))

(* smart_merge: the left one wins, dictionaries and lists are united. *)
MergeValues(left, right) ==
  [f \in DOMAIN left \cup DOMAIN right |->
     IF f \in DOMAIN left \cap DOMAIN right
     THEN IF f \in {"range", "label"} THEN left[f] \cup right[f] ELSE left[f]
     ELSE (left @@ right)[f]]
MergeStatus(left, right) ==
  [c \in DOMAIN left \cup DOMAIN right |-> IF c \in DOMAIN left THEN left[c] ELSE right[c]]
MergeType(left, right) == IF left = NoType THEN right ELSE left
MergeItems(left, right) ==
  [c \in DOMAIN left \cup DOMAIN right |->
     IF c \in DOMAIN left \cap DOMAIN right
     THEN [left[c] EXCEPT !.type = MergeType(@, right[c].type),
                            !.values = MergeValues(left[c].values, right[c].values)]
     ELSE (left @@ right)[c]]
MergeStrategies(a, b) ==
  [a EXCEPT !.alias = @ \cup b.alias, !.format = @ \cup b.format,
            !.type = MergeType(@, b.type), !.values = MergeValues(a.values, b.values)]
Merged(pair) ==
  LET left == pair[1]
      right == pair[2]
  IN [left EXCEPT !.status = MergeStatus(@, right.status),
                  !.range = MergeItems(left.range, right.range),
                  !.function = MergeItems(left.function, right.function),
                  !.strategy = IF ~HasStrategy(left) THEN right.strategy
                               ELSE IF ~HasStrategy(right) THEN @
                               ELSE MergeStrategies(left.strategy, right.strategy),
                  !.model = @ \cup right.model]

(* replace_status_code_with_another, forced *)
Renamed(f, from, to) ==
  IF from \in DOMAIN f THEN Restrict((to :> f[from]) @@ f, (DOMAIN f \cup {to}) \ {from}) ELSE f
ReplaceStrategyCode(s, to) ==
  [s EXCEPT !.code = to, !.alias = (@ \ {to}) \cup {s.code},
            !.format = IF @ = {} THEN @ ELSE (@ \ {s.code}) \cup {to}]
ReplaceCode(d, to) ==
  LET from == d.strategy.code
  IN [d EXCEPT !.status = Renamed(d.status, from, to), !.range = Renamed(d.range, from, to),
               !.function = Renamed(d.function, from, to), !.strategy = ReplaceStrategyCode(@, to)]
(* _enforce_compatibility: a code the reference reports gets its name back. *)
EnforceNothing(d, codes) == d
Enforce(d, codes) ==
  LET masked == IF HasStrategy(d) THEN (codes \ DOMAIN d.status) \cap d.strategy.alias ELSE {}
  IN IF masked = {} THEN d ELSE ReplaceCode(d, CHOOSE c \in masked : TRUE)

Swapped(pair) == <<pair[2], pair[1]>>
Agreed(pair, step) ==
  CASE step = "fix descriptors" -> FixAcross(pair)
    [] step = "the other way" -> Swapped(FixAcross(Swapped(pair)))
    [] step = "fix each" -> <<ApplyFixes(pair[1]), ApplyFixes(pair[2])>>
    [] step = "align types" -> AlignTypes(pair)
    [] step = "align API usage" -> AlignApiUsage(pair)
    [] step = "prefer conversions" -> PreferConvert(pair)
    [] step = "align descriptors" -> AlignAcross(pair)
Agreements ==
  <<"fix descriptors", "the other way", "fix each", "align types", "align API usage",
    "prefer conversions", "align descriptors">>
AgreedPair(higher, lower) == FoldLeft(Agreed, <<higher, lower>>, Agreements)
MergeAgreed(higher, lower) == Merged(AgreedPair(higher, lower))
Compatible(d, copy) == IF copy.forced THEN [Enforce(d, DOMAIN copy.status) EXCEPT !.forced = TRUE] ELSE d
MergeRepaired(higher, lower) == FoldLeft(Compatible, MergeAgreed(higher, lower), <<lower, higher>>)

-----------------------------------------------------------------------------
(* The device, from its fetch to a re-bind. *)

DpInit == dpStage = "none" /\ dpDevice = NoCopy /\ dpOther = NoCopy /\ dpForced = {}

FetchCopies ==
  /\ dpStage = "none"
  /\ dpStage' = "fetched"
  /\ dpDevice' \in Firsts
  /\ dpOther' \in Seconds
  /\ dpForced' = IF dpDevice'.forced THEN DOMAIN dpDevice'.status ELSE {}

(* _merge_device_sources *)
MergeCopies ==
  /\ dpStage = "fetched"
  /\ dpStage' = "merged"
  /\ dpDevice' = IF dpOther = NoCopy THEN dpDevice ELSE MergeRepaired(dpDevice, dpOther)
  /\ dpOther' = NoCopy
  /\ UNCHANGED dpForced

(* _prepare_device: the fixes are applied twice, then the device is forced to   *)
(* keep its codes.                                                              *)
PreparedOnce(d) == [PostInitFixes(ApplyFixes(d)) EXCEPT !.forced = TRUE]
Prepared(d) == [PostInitFixes(ApplyFixes(ApplyFixes(d))) EXCEPT !.forced = TRUE]
Prepare ==
  /\ dpStage = "merged"
  /\ dpStage' = "prepared"
  /\ dpDevice' = Prepared(dpDevice)
  /\ dpForced' = DOMAIN dpDevice'.status
  /\ UNCHANGED dpOther

(* put_device_keeping_object, when the device is bound again *)
Rebind ==
  /\ dpStage = "prepared"
  /\ dpStage' = "rebound"
  /\ \E fresh \in Fresh : dpDevice' = MergeRepaired(dpDevice, fresh)
  /\ UNCHANGED <<dpOther, dpForced>>

DpNext == FetchCopies \/ MergeCopies \/ Prepare \/ Rebind
DpSpec == DpInit /\ [][DpNext]_dpVars

-----------------------------------------------------------------------------
DpTypeOK ==
  /\ dpStage \in {"none", "fetched", "merged", "prepared", "rebound"}
  /\ dpStage \in {"merged", "prepared", "rebound"} => dpOther = NoCopy
  /\ dpStage \in {"prepared", "rebound"} => dpDevice.forced
  /\ dpForced \subseteq {CodeOrder[1], CodeOrder[2]}

(* Two passes settle the device: one more changes nothing (_prepare_device,     *)
(* "Applied twice because some parts at the end of apply_fix would change       *)
(* values of previous calls"), or a re-bind would shift a scale or a type       *)
(* under the entities.                                                          *)
FixesSettle == dpStage = "prepared" => ApplyFixes(dpDevice) = dpDevice

(* Once it is prepared, whatever still describes the data point says the same   *)
(* of it: one type where a raw, a text or a Boolean one was in doubt, and the    *)
(* same limits and scale.                                                       *)
OneDescription ==
  dpStage = "prepared" /\ HasStrategy(dpDevice) =>
    LET c == dpDevice.strategy.code
        described == {dpDevice.strategy} \cup {items[c] : items \in {f \in {dpDevice.range, dpDevice.function} : c \in DOMAIN f}}
    IN \A a, b \in described :
         /\ MostPlausible(a.type, b.type, ValueOf(dpDevice.status, c)) = 0
         /\ \A f \in {"min", "max", "scale"} : f \in DOMAIN a.values /\ f \in DOMAIN b.values
                                                   => a.values[f] = b.values[f]

(* The repairs of a device end where another pass would leave it, with one      *)
(* description of the data point.                                               *)
RepairSettles == FixesSettle /\ OneDescription

(* A code that the official integration's copy reports, or that the prepared    *)
(* device has, keeps its name when another copy that names it differently is    *)
(* merged in (force_compatibility).                                             *)
KeepsCodes == dpStage \in {"merged", "prepared", "rebound"} => dpForced \subseteq DOMAIN dpDevice.status

(* The prepared device reports the data point under no alias besides its code.  *)
NoAliasLeft ==
  dpStage = "prepared" /\ HasStrategy(dpDevice) =>
    dpDevice.strategy.alias \cap DOMAIN dpDevice.status \subseteq {dpDevice.strategy.code}

(* Merging and repairing leave the data point one name, and it is the one that  *)
(* the entities know.                                                           *)
NamedOnce == KeepsCodes /\ NoAliasLeft
=============================================================================
