--------------------------- MODULE WaterFeedProofs ---------------------------
(***************************************************************************)
(* Proofs about WaterFeed, for any timers, clock, number of waterings and  *)
(* of lost reports: the calendars are true of the valve.  The state of the *)
(* sensors and of the recorder is tied to the waterings (FeedInv); then    *)
(* come the operators, the table first, then the pairing of the recorded   *)
(* values and the sum of the counter, then the steps.                      *)
(***************************************************************************)
EXTENDS WaterFeed, FiniteSetTheorems, WellFoundedInduction, TLAPS

-----------------------------------------------------------------------------
(* Induction on a natural number, as a set closed under the next.          *)
LEMMA NatInduct ==
    ASSUME NEW S, 0 \in S, \A n \in Nat : n \in S => n + 1 \in S
    PROVE  Nat \subseteq S
<1> DEFINE T == Nat \ S
<1> SUFFICES ASSUME T # {} PROVE FALSE
  OBVIOUS
<1>0. PICK R : R = OpToRel(<, Nat)
  OBVIOUS
<1>1. \A x, y \in Nat : x < y => <<x, y>> \in R
  BY <1>0 DEF OpToRel
<1>2. IsWellFoundedOn(R, Nat)
  BY <1>0, NatLessThanWellFounded
<1>3. T \subseteq Nat
  OBVIOUS
<1>4. PICK m \in T : \A k \in T : ~(<<k, m>> \in R)
  <2> HIDE DEF T
  <2> QED
    BY <1>2, <1>3, WFMin
<1>5. m \in Nat /\ m # 0
  BY <1>4
<1>6. m - 1 \in Nat /\ m - 1 < m /\ (m - 1) + 1 = m
  BY <1>5
<1>7. m - 1 \in T
  BY <1>4, <1>6
<1> QED
  BY <1>1, <1>4, <1>5, <1>6, <1>7

(* A set of naturals has a least one, which is its Min.                    *)
LEMMA LeastIn ==
    ASSUME NEW S, S \subseteq Nat, S # {}
    PROVE  Min(S) \in S /\ \A y \in S : Min(S) <= y
<1>0. PICK R : R = OpToRel(<, Nat)
  OBVIOUS
<1>1. \A x, y \in Nat : x < y => <<x, y>> \in R
  BY <1>0 DEF OpToRel
<1>2. IsWellFoundedOn(R, Nat)
  BY <1>0, NatLessThanWellFounded
<1>3. PICK m \in S : \A k \in S : ~(<<k, m>> \in R)
  BY <1>2, WFMin
<1>4. ASSUME NEW y \in S PROVE m <= y
  <2>1. m \in Nat /\ y \in Nat
    OBVIOUS
  <2>2. ~(y < m)
    BY <1>1, <1>3, <2>1
  <2> QED
    BY <2>1, <2>2
<1>5. \E x \in S : \A y \in S : x <= y
  BY <1>4
<1> QED
  BY <1>5 DEF Min

-----------------------------------------------------------------------------
(* The invariant.                                                          *)

Open == watering # Closed

(* A valve waters one watering at a time, and never longer than it may.    *)
FeedShape ==
    /\ minute \in Minutes /\ registry \in Registries
    /\ watering = Closed \/ watering \in [start : Minutes, until : Nat \cup {Never}]
    /\ Open => /\ watering.start <= minute /\ minute <= watering.start + MaxRunMinutes
               /\ watering.until # Never => minute <= watering.until
    /\ waterings \subseteq [start : Minutes, end : Minutes]
    /\ \A w \in waterings : /\ w.start < w.end /\ w.end <= minute /\ w.end <= w.start + MaxRunMinutes
                            /\ Open => w.end < watering.start
    /\ \A w, x \in waterings : w = x \/ w.end < x.start \/ x.end < w.start

(* What the recorder holds was reported: a start was a watering's.         *)
Recorded ==
    /\ \A s \in recStarts : \E w \in Begun : w.start = s
    /\ recEnds \subseteq Nat
    /\ startShown \in Minutes \cup {Never} /\ endShown \in recEnds \cup {Never}
    /\ lostReports \in Nat /\ reopened \in BOOLEAN
    /\ import = [phase |-> import.phase, at |-> import.at, runs |-> import.runs]
    /\ import.phase \in {"no", "read", "done"} /\ import.at \in Minutes \cup {Never} /\ import.at <= minute
    /\ import.phase # "read" => import.runs = {}

(* The counter starts at 0 with each watering, and reports each minute.    *)
CounterTrue ==
    /\ recVolumes = [t \in DOMAIN recVolumes |-> recVolumes[t]]
    /\ \A w \in Begun : \A t \in w.start..w.end :
          t \in DOMAIN recVolumes /\ recVolumes[t] = LitersPerMinute * (t - w.start)
    /\ \A t \in DOMAIN recVolumes : \E w \in Begun : t \in w.start..w.end

(* No reported close lies within a watering, except the scheduled one of   *)
(* the watering that runs, unless a valve was opened under a schedule.     *)
ClosesPlaced ==
    ~reopened =>
        \A e \in recEnds : /\ \A w \in waterings : e <= w.start \/ w.end <= e
                           /\ Open => e <= watering.start \/ e = watering.until

(* One lost report leaves a start or a close of any two waterings, so that *)
(* no close is taken for an earlier one's; with none lost the sensors show *)
(* the last watering.                                                      *)
Losses ==
    /\ lostReports <= 1 => \A w \in Begun, x \in waterings : w.start \in recStarts \/ x.end \in recEnds
    /\ lostReports = 0 =>
          /\ \A w \in Begun : w.start \in recStarts
          /\ \A w \in waterings : w.end \in recEnds
          /\ Open => /\ startShown = watering.start
                     /\ watering.until # Never => endShown = watering.until
                     /\ watering.until = Never /\ ~reopened => endShown <= startShown
          /\ ~Open => startShown = Never \/ (startShown < endShown /\ endShown <= minute)

IsRow(r) == r = [start |-> r.start, end |-> r.end, liters |-> r.liters] /\ r.start \in Nat /\ r.end \in Nat

(* The row r is of the watering w: it begins with it, or within a minute,  *)
(* ends with it or later, at a reported close, and before the next begins. *)
RowOf(r, w, begun, ends, now) ==
    /\ IsRow(r)
    /\ w.start <= r.start /\ r.start <= w.start + 1
    /\ r.start < w.end /\ w.end <= r.end /\ r.end <= now /\ r.end \in ends
    /\ \A x \in begun : x = w \/ x.end <= w.start \/ r.end <= x.start

Rows(table, begun, ends, now) == \A r \in table : \E w \in begun : RowOf(r, w, begun, ends, now)
Apart(table) == \A r, q \in table : Overlap(r, q) => r = q
Runs(runs, begun, ends, now) ==
    \A r \in runs : \E w \in begun : RowOf(r, w, begun, ends, now) /\ r.start = w.start

(* The table and what the import has read hold rows of waterings.          *)
Paired ==
    lostReports <= 1 /\ ~reopened =>
        /\ Rows(feedRows, Begun, recEnds, minute) /\ Apart(feedRows)
        /\ Runs(import.runs, Begun, recEnds, minute)
        /\ \A r, q \in import.runs : r.start = q.start => r = q
        /\ IsFiniteSet(import.runs)

(* A row whose bounds are a watering's has its liters, or none, or the one *)
(* the integration counted, and a row of an ended watering has its end.    *)
Through(w) == LitersPerMinute * (w.end - w.start)
Metered(table, begun) ==
    \A r \in table, w \in begun :
        r.start = w.start /\ r.end = w.end => r.liters \in {Through(w), Through(w) + LitersPerMinute, Never}
Exact(table, ended) == \A r \in table, w \in ended : Overlap(r, w) => r.end = w.end

(* With nothing lost the import has read every watering that was over, and *)
(* has brought it back when it is done.                                    *)
Imported ==
    Undisturbed =>
        /\ Metered(feedRows, Begun) /\ Exact(feedRows, waterings)
        /\ \A r \in import.runs : r.liters = Through(r)
        /\ Exact(import.runs, waterings)
        /\ import.phase = "read" =>
              \A w \in waterings : w.end < import.at => \E r \in import.runs : r.start = w.start /\ r.end = w.end
        /\ ImportComplete

(* A watering with a schedule was begun by a timer, which is still known.  *)
Timed ==
    watering.until # Never =>
        \E x \in registry.slots : /\ x.slot = opener
                                  /\ x.enabled /\ x.today /\ x.minute = watering.start
                                  /\ x.mode = "duration" /\ x.value \in 1..MaxRunMinutes
                                  /\ watering.until = watering.start + x.value

FeedInv == FeedShape /\ Recorded /\ CounterTrue /\ ClosesPlaced /\ Losses /\ Paired /\ Imported /\ Timed

-----------------------------------------------------------------------------
(* The waterings that have begun lie apart, and a row lies in one of them. *)

Spaced(begun) ==
    /\ begun \subseteq [start : Nat, end : Nat]
    /\ \A w \in begun : w.start <= w.end
    /\ \A w, x \in begun : w = x \/ w.end < x.start \/ x.end < w.start

(* Of what has begun only the watering that runs is not over.              *)
LEMMA BegunSpaced ==
    ASSUME FeedShape
    PROVE  /\ Spaced(Begun)
           /\ \A w \in Begun : w.end <= minute /\ w.end <= w.start + MaxRunMinutes
           /\ \A w \in Begun : w \in waterings \/ (Open /\ w.start = watering.start /\ w.end = minute)
           /\ \A w \in waterings : w \in Begun /\ w.start < w.end /\ (Open => w.end < watering.start)
<1>0. LastMinute \in Nat /\ MaxRunMinutes \in Nat
  BY FeedAssumption
<1>1. minute \in Nat /\ waterings \subseteq [start : Nat, end : Nat]
  BY <1>0 DEF FeedShape, Minutes
<1>2. \A w \in waterings : w.start < w.end /\ w.end <= minute /\ w.end <= w.start + MaxRunMinutes
  BY DEF FeedShape
<1>3. \A w, x \in waterings : w = x \/ w.end < x.start \/ x.end < w.start
  BY DEF FeedShape
<1>4. CASE ~Open
  <2>1. Begun = waterings
    BY <1>4 DEF Begun, Open
  <2> QED
    BY <1>0, <1>1, <1>2, <1>3, <1>4, <2>1 DEF Spaced
<1>5. CASE Open
  <2>1. PICK r : r = [start |-> watering.start, end |-> minute]
    OBVIOUS
  <2>2. Begun = waterings \cup {r}
    BY <1>5, <2>1 DEF Begun, Open
  <2>3. watering.start \in Nat /\ watering.start <= minute /\ minute <= watering.start + MaxRunMinutes
    BY <1>0, <1>5 DEF FeedShape, Open, Minutes
  <2>4. r \in [start : Nat, end : Nat] /\ r.start = watering.start /\ r.end = minute
    BY <1>1, <2>1, <2>3
  <2>5. \A w \in waterings : w.end < watering.start
    BY <1>5 DEF FeedShape
  <2>6. \A w, x \in Begun : w = x \/ w.end < x.start \/ x.end < w.start
    BY <1>3, <2>2, <2>4, <2>5
  <2>7. \A w \in Begun : w.start <= w.end
    BY <1>1, <1>2, <2>2, <2>3, <2>4
  <2>8. Spaced(Begun)
    BY <1>1, <2>2, <2>4, <2>6, <2>7 DEF Spaced
  <2> QED
    BY <1>2, <1>5, <2>2, <2>3, <2>4, <2>5, <2>8
<1> QED
  BY <1>4, <1>5

LEMMA RowFacts ==
    ASSUME NEW begun, Spaced(begun), NEW w \in begun, NEW ends, NEW now, NEW r, RowOf(r, w, begun, ends, now)
    PROVE  /\ r.start \in Nat /\ r.end \in Nat /\ w.start \in Nat /\ w.end \in Nat
           /\ w.start <= r.start /\ r.start <= w.start + 1 /\ r.start < w.end /\ w.end <= r.end
           /\ r.start < r.end
           /\ \A x \in begun : x.start \in Nat /\ x.end \in Nat /\ x.start <= x.end
           /\ \A x \in begun : x = w \/ x.end <= w.start \/ r.end <= x.start
  BY DEF RowOf, Spaced, IsRow

(* Rows overlap just if they are of one watering.                          *)
LEMMA OneWatering ==
    ASSUME NEW begun, Spaced(begun), NEW w \in begun, NEW x \in begun, NEW ends, NEW now,
           NEW r, RowOf(r, w, begun, ends, now), NEW q, RowOf(q, x, begun, ends, now)
    PROVE  Overlap(r, q) <=> w = x
<1>1. /\ r.start \in Nat /\ r.end \in Nat /\ w.start \in Nat /\ w.end \in Nat
      /\ w.start <= r.start /\ r.start < w.end /\ w.end <= r.end
      /\ x = w \/ x.end <= w.start \/ r.end <= x.start
  BY RowFacts
<1>2. /\ q.start \in Nat /\ q.end \in Nat /\ x.start \in Nat /\ x.end \in Nat
      /\ x.start <= q.start /\ q.start < x.end /\ x.end <= q.end
      /\ w = x \/ w.end <= x.start \/ q.end <= w.start
  BY RowFacts
<1> QED
  BY <1>1, <1>2 DEF Overlap

(* And a row overlaps no other watering.                                   *)
LEMMA OwnWatering ==
    ASSUME NEW begun, Spaced(begun), NEW w \in begun, NEW x \in begun, NEW ends, NEW now,
           NEW r, RowOf(r, w, begun, ends, now)
    PROVE  Overlap(r, x) <=> x = w
<1>1. /\ r.start \in Nat /\ r.end \in Nat /\ w.start \in Nat /\ w.end \in Nat
      /\ w.start <= r.start /\ r.start < w.end /\ w.end <= r.end
      /\ x = w \/ x.end <= w.start \/ r.end <= x.start
      /\ x.start \in Nat /\ x.end \in Nat /\ x.start <= x.end
  BY RowFacts
<1> QED
  BY <1>1 DEF Overlap

(* Rows that change no more than their liters, or that end earlier, stay   *)
(* rows that lie apart.                                                    *)
LEMMA Reshaped ==
    ASSUME NEW begun, NEW ends, NEW now, NEW table, NEW g,
           Rows(table, begun, ends, now), Apart(table),
           \A q \in table : /\ g[q].start = q.start /\ g[q].end \in Nat /\ g[q].end <= q.end
                            /\ \A w \in begun : RowOf(q, w, begun, ends, now) => RowOf(g[q], w, begun, ends, now)
    PROVE  LET t == {g[q] : q \in table} IN Rows(t, begun, ends, now) /\ Apart(t)
<1>1. ASSUME NEW q \in table PROVE \E w \in begun : RowOf(g[q], w, begun, ends, now)
  BY DEF Rows
<1>2. ASSUME NEW q \in table, NEW p \in table, Overlap(g[q], g[p]) PROVE q = p
  <2>1. q.start \in Nat /\ q.end \in Nat /\ p.start \in Nat /\ p.end \in Nat
    BY DEF Rows, RowOf, IsRow
  <2>2. Overlap(q, p)
    BY <1>2, <2>1 DEF Overlap
  <2> QED
    BY <2>2 DEF Apart
<1> QED
  BY <1>1, <1>2 DEF Rows, Apart

(* Watering a row leaves its bounds.                                       *)
LEMMA WateredRow ==
    ASSUME NEW r, IsRow(r), NEW l
    PROVE  LET x == Watered(r, l)
           IN  IsRow(x) /\ x.start = r.start /\ x.end = r.end /\ x.liters \in {r.liters, l}
<1>1. CASE l > 0 /\ ~HasWater(r)
  <2>1. PICK x : x = Watered(r, l)
    OBVIOUS
  <2>2. x = [r EXCEPT !.liters = l]
    BY <1>1, <2>1 DEF Watered
  <2>3. x = [start |-> r.start, end |-> r.end, liters |-> l]
    BY <2>2 DEF IsRow
  <2> QED
    BY <2>1, <2>3 DEF IsRow
<1>2. CASE ~(l > 0 /\ ~HasWater(r))
  BY <1>2 DEF Watered
<1> QED
  BY <1>1, <1>2

LEMMA WateredOf ==
    ASSUME NEW begun, NEW ends, NEW now, NEW r, NEW w, RowOf(r, w, begun, ends, now), NEW l
    PROVE  RowOf(Watered(r, l), w, begun, ends, now)
<1>1. PICK x : x = Watered(r, l)
  OBVIOUS
<1>2. IsRow(x) /\ x.start = r.start /\ x.end = r.end
  BY <1>1, WateredRow DEF RowOf
<1> QED
  BY <1>1, <1>2 DEF RowOf

(* A row that overlaps none but those it is added to keeps the table good. *)
LEMMA AddShape ==
    ASSUME NEW begun, Spaced(begun), NEW ends, NEW now, NEW table, NEW new, NEW w \in begun,
           Rows(table, begun, ends, now), Apart(table), RowOf(new, w, begun, ends, now),
           \A q \in table : Overlap(q, new) => q.start = new.start \/ q.end = new.end
    PROVE  LET t == AddRow(table, new)
           IN  /\ Rows(t, begun, ends, now) /\ Apart(t)
               /\ \A x \in t : x = new \/ \E q \in table : q.start = x.start /\ x.end <= q.end
<1> DEFINE sameEnd == {r \in table : r.end = new.end}
           sameStart == {r \in table : r.start = new.start}
           Earliest(r) == IF new.end < r.end THEN [r EXCEPT !.end = new.end] ELSE r
<1>0. PICK t : t = AddRow(table, new)
  OBVIOUS
<1>1. new.start \in Nat /\ new.end \in Nat /\ new.start < w.end /\ w.end <= new.end /\ w.end \in Nat /\ ~(new.end <= new.start)
  BY RowFacts
<1>2. \A q \in table : IsRow(q) /\ q.start \in Nat /\ q.end \in Nat
  BY DEF Rows, RowOf, IsRow
<1>3. CASE sameEnd # {}
  <2>1. t = (table \ sameEnd) \cup {Watered(r, new.liters) : r \in sameEnd}
    BY <1>0, <1>1, <1>3 DEF AddRow
  <2>2. PICK g : g = [q \in table |-> IF q.end = new.end THEN Watered(q, new.liters) ELSE q]
    OBVIOUS
  <2>3. t = {g[q] : q \in table}
    BY <2>1, <2>2
  <2>4. ASSUME NEW q \in table
        PROVE  /\ g[q].start = q.start /\ g[q].end \in Nat /\ g[q].end <= q.end
               /\ \A x \in begun : RowOf(q, x, begun, ends, now) => RowOf(g[q], x, begun, ends, now)
    <3>1. CASE q.end = new.end
      <4>1. g[q] = Watered(q, new.liters)
        BY <2>2, <3>1
      <4> QED
        BY <1>2, <4>1, WateredRow, WateredOf
    <3>2. CASE q.end # new.end
      BY <1>2, <2>2, <3>2
    <3> QED
      BY <3>1, <3>2
  <2> QED
    BY <1>0, <2>3, <2>4, Reshaped
<1>4. CASE sameEnd = {} /\ sameStart # {}
  <2>1. t = (table \ sameStart) \cup {Watered(Earliest(r), new.liters) : r \in sameStart}
    BY <1>0, <1>1, <1>4 DEF AddRow
  <2>2. PICK g : g = [q \in table |-> IF q.start = new.start THEN Watered(Earliest(q), new.liters) ELSE q]
    OBVIOUS
  <2>3. t = {g[q] : q \in table}
    BY <2>1, <2>2
  <2>4. ASSUME NEW q \in table
        PROVE  /\ g[q].start = q.start /\ g[q].end \in Nat /\ g[q].end <= q.end
               /\ \A x \in begun : RowOf(q, x, begun, ends, now) => RowOf(g[q], x, begun, ends, now)
    <3>1. CASE q.start = new.start
      <4>1. PICK e : e = Earliest(q)
        OBVIOUS
      <4>2. IsRow(e) /\ e.start = q.start /\ e.end \in Nat /\ e.end <= q.end /\ e.end \in {q.end, new.end}
        <5>1. CASE new.end < q.end
          <6>1. e = [q EXCEPT !.end = new.end]
            BY <4>1, <5>1
          <6>2. e = [start |-> q.start, end |-> new.end, liters |-> q.liters]
            BY <1>2, <6>1 DEF IsRow
          <6> QED
            BY <1>1, <1>2, <5>1, <6>2 DEF IsRow
        <5>2. CASE ~(new.end < q.end)
          BY <1>2, <4>1, <5>2
        <5> QED
          BY <5>1, <5>2
      <4>3. ASSUME NEW x \in begun, RowOf(q, x, begun, ends, now) PROVE RowOf(e, x, begun, ends, now)
        <5>1. Overlap(q, new)
          <6>1. q.start < q.end /\ q.start \in Nat /\ q.end \in Nat
            BY <4>3, RowFacts
          <6> QED
            BY <1>1, <3>1, <6>1 DEF Overlap
        <5>2. x = w
          BY <4>3, <5>1, OneWatering
        <5>3. CASE e.end = q.end
          BY <4>2, <4>3, <5>3 DEF RowOf
        <5>4. CASE e.end = new.end
          <6>1. /\ w.end <= new.end /\ new.end <= now /\ new.end \in ends
                /\ \A y \in begun : y = w \/ y.end <= w.start \/ new.end <= y.start
            BY DEF RowOf
          <6>2. w.start <= q.start /\ q.start <= w.start + 1 /\ q.start < w.end
            BY <4>3, <5>2 DEF RowOf
          <6> QED
            BY <4>2, <5>2, <5>4, <6>1, <6>2 DEF RowOf
        <5> QED
          BY <4>2, <5>3, <5>4
      <4>4. g[q] = Watered(e, new.liters)
        BY <2>2, <3>1, <4>1
      <4> QED
        BY <4>2, <4>3, <4>4, WateredRow, WateredOf
    <3>2. CASE q.start # new.start
      BY <1>2, <2>2, <3>2
    <3> QED
      BY <3>1, <3>2
  <2> QED
    BY <1>0, <2>3, <2>4, Reshaped
<1>5. CASE sameEnd = {} /\ sameStart = {}
  <2>1. t = table \cup {new}
    BY <1>0, <1>1, <1>5 DEF AddRow
  <2>2. \A q \in table : ~Overlap(q, new) /\ ~Overlap(new, q)
    BY <1>5 DEF Overlap
  <2> QED
    BY <1>0, <1>2, <2>1, <2>2 DEF Rows, Apart
<1> QED
  BY <1>3, <1>4, <1>5

-----------------------------------------------------------------------------
(* The merge: a row is one of the table's, cut at most, or begins with its *)
(* watering, as all that the recorder shows do.                            *)
FromBoth(t, have, begun) ==
    \A q \in t : \/ \E h \in have : h.start = q.start /\ q.end <= h.end
                 \/ \E w \in begun : w.start = q.start

(* A run that the store knew no overlap of meets none that was merged since. *)
LEMMA NoneElse ==
    ASSUME NEW begun, Spaced(begun), NEW ends, NEW now, NEW t, NEW have, NEW r, NEW w \in begun,
           Rows(t, begun, ends, now), FromBoth(t, have, begun), \A h \in have : h.start \in Nat /\ h.end \in Nat,
           RowOf(r, w, begun, ends, now), r.start = w.start, ~OverlapsOther(r, have)
    PROVE  \A q \in t : Overlap(q, r) => q.start = r.start
<1> SUFFICES ASSUME NEW q \in t, Overlap(q, r) PROVE q.start = r.start
  OBVIOUS
<1>1. PICK x \in begun : RowOf(q, x, begun, ends, now)
  BY DEF Rows
<1>2. x = w
  BY <1>1, OneWatering
<1>3. /\ q.start \in Nat /\ q.end \in Nat /\ w.start <= q.start /\ q.start < w.end
      /\ w.start \in Nat /\ w.end \in Nat
  BY <1>1, <1>2, RowFacts
<1>4. r.start \in Nat /\ r.end \in Nat
  BY RowFacts
<1>5. CASE \E h \in have : h.start = q.start /\ q.end <= h.end
  <2>1. PICK h \in have : h.start = q.start /\ q.end <= h.end
    BY <1>5
  <2>2. h.start < r.end /\ r.start < h.end
    BY <1>3, <1>4, <2>1 DEF Overlap
  <2>3. h.start = r.start
    BY <2>2 DEF OverlapsOther
  <2> QED
    BY <2>1, <2>3
<1>6. CASE \E y \in begun : y.start = q.start
  <2>1. PICK y \in begun : y.start = q.start
    BY <1>6
  <2>2. y.start <= y.end /\ y.start \in Nat /\ y.end \in Nat
    BY DEF Spaced
  <2>3. y = w \/ y.end < w.start \/ w.end < y.start
    BY DEF Spaced
  <2>4. y = w
    BY <1>3, <2>1, <2>2, <2>3
  <2> QED
    BY <2>1, <2>4
<1> QED
  BY <1>5, <1>6 DEF FromBoth

(* A repair of liters, and so a merge, keeps rows apart and in their       *)
(* waterings, and adds none but the import's.                              *)
LEMMA RepairedShape ==
    ASSUME NEW begun, Spaced(begun), NEW ends, NEW now, NEW t, NEW have, NEW r,
           Rows(t, begun, ends, now), Apart(t), FromBoth(t, have, begun)
    PROVE  LET u == Repaired(t, r)
           IN  Rows(u, begun, ends, now) /\ Apart(u) /\ FromBoth(u, have, begun)
<1> DEFINE G(x) == IF x.start = r.start /\ r.liters # Never
                      /\ (x.liters = Never \/ x.liters - r.liters > 1 \/ r.liters - x.liters > 1)
                   THEN [x EXCEPT !.liters = r.liters] ELSE x
<1>1. PICK g : g = [x \in t |-> G(x)]
  OBVIOUS
<1>2. Repaired(t, r) = {g[x] : x \in t}
  <2>1. Repaired(t, r) = {G(x) : x \in t}
    BY DEF Repaired
  <2> HIDE DEF G
  <2> QED
    BY <1>1, <2>1
<1>3. ASSUME NEW q \in t
      PROVE  /\ g[q].start = q.start /\ g[q].end = q.end /\ g[q].end \in Nat
             /\ \A x \in begun : RowOf(q, x, begun, ends, now) => RowOf(g[q], x, begun, ends, now)
  <2>1. IsRow(q) /\ q.start \in Nat /\ q.end \in Nat
    BY DEF Rows, RowOf, IsRow
  <2>2. PICK e : e = [q EXCEPT !.liters = r.liters]
    OBVIOUS
  <2>3. e = [start |-> q.start, end |-> q.end, liters |-> r.liters]
    BY <2>1, <2>2 DEF IsRow
  <2>4. g[q] = q \/ g[q] = e
    BY <1>1, <2>2
  <2>5. IsRow(g[q]) /\ g[q].start = q.start /\ g[q].end = q.end
    BY <2>1, <2>3, <2>4 DEF IsRow
  <2> QED
    BY <2>1, <2>5 DEF RowOf
<1>4. \A q \in t : q.end \in Nat
  BY DEF Rows, RowOf, IsRow
<1>5. PICK u : u = {g[x] : x \in t}
  OBVIOUS
<1>6. Rows(u, begun, ends, now) /\ Apart(u)
  <2>1. \A q \in t : /\ g[q].start = q.start /\ g[q].end \in Nat /\ g[q].end <= q.end
                     /\ \A x \in begun : RowOf(q, x, begun, ends, now) => RowOf(g[q], x, begun, ends, now)
    BY <1>3, <1>4
  <2> QED
    BY <1>5, <2>1, Reshaped
<1>7. FromBoth(u, have, begun)
  BY <1>3, <1>5 DEF FromBoth
<1> QED
  BY <1>2, <1>5, <1>6, <1>7

LEMMA MergeShape ==
    ASSUME NEW begun, Spaced(begun), NEW ends, NEW now, NEW t, NEW have, NEW r, NEW w \in begun,
           Rows(t, begun, ends, now), Apart(t), FromBoth(t, have, begun),
           \A h \in have : h.start \in Nat /\ h.end \in Nat,
           RowOf(r, w, begun, ends, now), r.start = w.start
    PROVE  LET u == MergeRun(t, r, have)
           IN  Rows(u, begun, ends, now) /\ Apart(u) /\ FromBoth(u, have, begun)
<1>1. CASE OverlapsOther(r, have)
  BY <1>1 DEF MergeRun
<1>2. CASE ~OverlapsOther(r, have)
  <2>1. \A q \in t : Overlap(q, r) => q.start = r.start
    BY <1>2, NoneElse
  <2>2. PICK u : u = AddRow(t, r)
    OBVIOUS
  <2>3. /\ Rows(u, begun, ends, now) /\ Apart(u)
        /\ \A x \in u : x = r \/ \E q \in t : q.start = x.start /\ x.end <= q.end
    <3>1. \A q \in t : Overlap(q, r) => q.start = r.start \/ q.end = r.end
      BY <2>1
    <3> QED
      BY <2>2, <3>1, AddShape
  <2>4. FromBoth(u, have, begun)
    <3> SUFFICES ASSUME NEW x \in u
                 PROVE  \/ \E h \in have : h.start = x.start /\ x.end <= h.end
                        \/ \E y \in begun : y.start = x.start
      BY DEF FromBoth
    <3>1. CASE x = r
      BY <3>1
    <3>2. CASE \E q \in t : q.start = x.start /\ x.end <= q.end
      <4>1. PICK q \in t : q.start = x.start /\ x.end <= q.end
        BY <3>2
      <4>2. q.end \in Nat /\ x.end \in Nat
        BY <2>3 DEF Rows, RowOf, IsRow
      <4>3. CASE \E h \in have : h.start = q.start /\ q.end <= h.end
        <5>1. PICK h \in have : h.start = q.start /\ q.end <= h.end
          BY <4>3
        <5> QED
          BY <4>1, <4>2, <5>1
      <4>4. CASE \E y \in begun : y.start = q.start
        BY <4>1, <4>4
      <4> QED
        BY <4>3, <4>4 DEF FromBoth
    <3> QED
      BY <2>3, <3>1, <3>2
  <2>5. MergeRun(t, r, have) = u \/ MergeRun(t, r, have) = Repaired(t, r)
    BY <1>2, <2>2 DEF MergeRun
  <2> QED
    BY <2>3, <2>4, <2>5, RepairedShape
<1> QED
  BY <1>1, <1>2

-----------------------------------------------------------------------------
(* With every report received a row ends as its watering did, and the      *)
(* merge puts a recorded one in the place of what was counted.             *)
Stays(have, t) == \A h \in have : \E q \in t : q.start = h.start /\ q.end = h.end
Recovered(t, r) ==
    \E q \in t : /\ q.end = r.end /\ q.start \in {r.start, r.start + 1}
                 /\ q.start = r.start => q.liters = r.liters

LEMMA ThroughFacts ==
    ASSUME NEW r, r.start \in Nat, r.end \in Nat, r.start < r.end
    PROVE  Through(r) \in Nat /\ Through(r) > 0 /\ LitersPerMinute = 10 /\ Never = -1
  BY DEF Through, LitersPerMinute, Never

(* A run with the bounds of a watering takes the place of the row with its *)
(* end, if that began with it.                                             *)
LEMMA MergeEffect ==
    ASSUME NEW begun, Spaced(begun), NEW ends, NEW now, NEW t, NEW have, NEW r, NEW w \in begun,
           Rows(t, begun, ends, now), Apart(t), FromBoth(t, have, begun), Exact(t, begun), Metered(t, begun),
           \A h \in have : h.start \in Nat /\ h.end \in Nat,
           RowOf(r, w, begun, ends, now), r.start = w.start, r.end = w.end, r.liters = Through(r),
           ~OverlapsOther(r, have)
    PROVE  LET same == {q \in t : q.end = r.end}
           IN  /\ MergeRun(t, r, have) = (t \ same) \cup {r}
               /\ \A q \in same : q.start = r.start
<1> DEFINE same == {q \in t : q.end = r.end}
           sameStart == {q \in t : q.start = r.start}
<1>1. \A q \in t : Overlap(q, r) => q.start = r.start
  BY NoneElse
<1>2. r.start \in Nat /\ r.end \in Nat /\ r.start < r.end
  BY RowFacts
<1>3. IsRow(r) /\ r.start # r.end /\ ~(r.end <= r.start)
  BY <1>2 DEF RowOf
<1>4. ASSUME NEW q \in t PROVE IsRow(q) /\ q.start \in Nat /\ q.end \in Nat /\ q.start < q.end
  <2>1. PICK x \in begun : RowOf(q, x, begun, ends, now)
    BY DEF Rows
  <2>2. IsRow(q)
    BY <2>1 DEF RowOf
  <2>3. q.start \in Nat /\ q.end \in Nat /\ q.start < q.end
    BY <2>1, RowFacts
  <2> QED
    BY <2>2, <2>3
<1>5. \A q \in same : q.start = r.start
  <2>1. \A q \in same : Overlap(q, r)
    BY <1>2, <1>4 DEF Overlap
  <2> QED
    BY <1>1, <2>1
<1>6. \A q \in sameStart : q.end = r.end
  <2> SUFFICES ASSUME NEW q \in t, q.start = r.start PROVE q.end = r.end
    OBVIOUS
  <2>1. PICK x \in begun : RowOf(q, x, begun, ends, now)
    BY DEF Rows
  <2>2. Overlap(q, r)
    BY <1>2, <1>4 DEF Overlap
  <2>3. x = w
    BY <2>1, <2>2, OneWatering
  <2>4. Overlap(q, w)
    BY <2>1, <2>3, OwnWatering
  <2> QED
    BY <2>4 DEF Exact
<1>7. CASE same = {}
  <2>1. sameStart = {}
    BY <1>6, <1>7
  <2>2. AddRow(t, r) = t \cup {r}
    BY <1>3, <1>7, <2>1 DEF AddRow
  <2>3. r \notin t
    BY <1>7
  <2>4. AddRow(t, r) # t
    BY <2>2, <2>3
  <2>5. MergeRun(t, r, have) = t \cup {r}
    BY <2>2, <2>4 DEF MergeRun
  <2> QED
    BY <1>7, <2>5
<1>8. CASE same # {}
  <2>1. PICK q \in t : q.end = r.end
    BY <1>8
  <2>2. q.start = r.start
    BY <1>5, <2>1
  <2>3. \A p \in t : p.start = r.start \/ p.end = r.end => p = q
    <3> SUFFICES ASSUME NEW p \in t, p.start = r.start \/ p.end = r.end PROVE p = q
      OBVIOUS
    <3>1. p.start = r.start
      BY <1>5
    <3>2. Overlap(p, q)
      BY <1>4, <2>2, <3>1 DEF Overlap
    <3> QED
      BY <3>2 DEF Apart
  <2>4. same = {q}
    BY <2>1, <2>3
  <2>5. PICK a : a = Watered(q, r.liters)
    OBVIOUS
  <2>6. AddRow(t, r) = (t \ {q}) \cup {a}
    <3>1. AddRow(t, r) = (t \ same) \cup {Watered(p, r.liters) : p \in same}
      BY <1>3, <1>8 DEF AddRow
    <3> QED
      BY <2>4, <2>5, <3>1
  <2>7. [q EXCEPT !.liters = r.liters] = r
    <3>1. PICK e : e = [q EXCEPT !.liters = r.liters]
      OBVIOUS
    <3>2. e = [start |-> q.start, end |-> q.end, liters |-> r.liters]
      BY <1>4, <3>1 DEF IsRow
    <3> QED
      BY <1>3, <2>1, <2>2, <3>1, <3>2 DEF IsRow
  <2>8. r.liters \in Nat /\ r.liters > 0 /\ LitersPerMinute = 10 /\ Never = -1
    BY <1>2, ThroughFacts
  <2>9. q.liters \in {r.liters, r.liters + LitersPerMinute, Never}
    <3>1. Through(r) = Through(w)
      BY DEF Through
    <3> QED
      BY <2>1, <2>2, <3>1 DEF Metered
  <2>10. MergeRun(t, r, have) = (t \ {q}) \cup {r}
    <3>1. CASE q.liters = Never
      <4>1. a = r
        BY <2>5, <2>7, <2>8, <3>1 DEF Watered, HasWater
      <4>2. r # q
        BY <2>8, <3>1
      <4>3. r \notin t
        BY <2>3, <4>2
      <4>4. AddRow(t, r) # t
        BY <2>6, <4>1, <4>3
      <4> QED
        BY <2>6, <4>1, <4>4 DEF MergeRun
    <3>2. CASE q.liters # Never
      <4>1. a = q
        <5>1. q.liters > 0
          BY <2>8, <2>9, <3>2
        <5> QED
          BY <2>5, <5>1 DEF Watered, HasWater
      <4>2. AddRow(t, r) = t
        BY <2>6, <4>1
      <4>3. MergeRun(t, r, have) = Repaired(t, r)
        BY <4>2 DEF MergeRun
      <4> DEFINE G(x) == IF x.start = r.start /\ r.liters # Never
                            /\ (x.liters = Never \/ x.liters - r.liters > 1 \/ r.liters - x.liters > 1)
                         THEN [x EXCEPT !.liters = r.liters] ELSE x
      <4>4. Repaired(t, r) = {G(x) : x \in t}
        BY DEF Repaired
      <4>5. G(q) = r
        <5>1. CASE q.liters = r.liters
          <6>1. ~(q.liters = Never \/ q.liters - r.liters > 1 \/ r.liters - q.liters > 1)
            BY <2>8, <3>2, <5>1
          <6>2. q = r
            BY <1>3, <1>4, <2>1, <2>2, <5>1 DEF IsRow
          <6> QED
            BY <6>1, <6>2
        <5>2. CASE q.liters = r.liters + LitersPerMinute
          <6>1. q.liters - r.liters > 1 /\ r.liters # Never
            BY <2>8, <5>2
          <6> QED
            BY <2>2, <2>7, <6>1
        <5> QED
          BY <2>9, <3>2, <5>1, <5>2
      <4>6. \A x \in t : x # q => G(x) = x
        BY <2>3
      <4> HIDE DEF G
      <4>7. {G(x) : x \in t} = (t \ {q}) \cup {r}
        BY <2>1, <4>5, <4>6
      <4> QED
        BY <4>3, <4>4, <4>7
    <3> QED
      BY <3>1, <3>2
  <2> QED
    BY <1>5, <2>4, <2>10
<1> QED
  BY <1>7, <1>8

(* A merge keeps bounds and liters true, keeps what was there and what was *)
(* brought back before, and brings back its run.                           *)
LEMMA MergeExact ==
    ASSUME NEW begun, Spaced(begun), NEW ends, NEW now, NEW t, NEW have, NEW r, NEW w \in begun,
           Rows(t, begun, ends, now), Apart(t), FromBoth(t, have, begun), Exact(t, begun), Metered(t, begun),
           Rows(have, begun, ends, now), Exact(have, begun), Stays(have, t),
           RowOf(r, w, begun, ends, now), r.start = w.start, r.end = w.end, r.liters = Through(r)
    PROVE  LET u == MergeRun(t, r, have)
           IN  /\ Exact(u, begun) /\ Metered(u, begun) /\ Stays(have, u) /\ Recovered(u, r)
               /\ \A p : \A x \in begun : x # w /\ RowOf(p, x, begun, ends, now) /\ Recovered(t, p) => Recovered(u, p)
<1>1. \A h \in have : h.start \in Nat /\ h.end \in Nat
  BY DEF Rows, RowOf, IsRow
<1>2. CASE OverlapsOther(r, have)
  <2>1. PICK h \in have : h.start < r.end /\ r.start < h.end /\ h.start # r.start
    BY <1>2 DEF OverlapsOther
  <2>2. PICK x \in begun : RowOf(h, x, begun, ends, now)
    BY DEF Rows
  <2>3. x = w
    <3>1. Overlap(r, h)
      BY <2>1 DEF Overlap
    <3> QED
      BY <2>2, <3>1, OneWatering
  <2>4. h.end = r.end
    <3>1. Overlap(h, w)
      BY <2>2, <2>3, OwnWatering
    <3> QED
      BY <3>1 DEF Exact
  <2>5. h.start = r.start + 1
    BY <2>1, <2>2, <2>3, RowFacts
  <2>6. PICK q \in t : q.start = h.start /\ q.end = h.end
    BY DEF Stays
  <2>7. Recovered(t, r)
    <3>1. r.start \in Nat
      BY RowFacts
    <3>2. q.start # r.start
      BY <2>5, <2>6, <3>1
    <3> QED
      BY <2>4, <2>5, <2>6, <3>2 DEF Recovered
  <2>8. MergeRun(t, r, have) = t
    BY <1>2 DEF MergeRun
  <2> QED
    BY <2>7, <2>8
<1>3. CASE ~OverlapsOther(r, have)
  <2>1. PICK same : same = {q \in t : q.end = r.end}
    OBVIOUS
  <2>2. PICK u : u = MergeRun(t, r, have)
    OBVIOUS
  <2>3. u = (t \ same) \cup {r} /\ \A q \in same : q.start = r.start
    BY <1>1, <1>3, <2>1, <2>2, MergeEffect
  <2>4. Exact(u, begun)
    <3>1. \A x \in begun : Overlap(r, x) => r.end = x.end
      BY OwnWatering
    <3> QED
      BY <2>3, <3>1 DEF Exact
  <2>5. Metered(u, begun)
    <3>1. \A x \in begun : r.start = x.start /\ r.end = x.end => r.liters = Through(x)
      BY DEF Through
    <3> QED
      BY <2>3, <3>1 DEF Metered
  <2>6. Stays(have, u)
    <3> SUFFICES ASSUME NEW h \in have PROVE \E q \in u : q.start = h.start /\ q.end = h.end
      BY DEF Stays
    <3>1. PICK q \in t : q.start = h.start /\ q.end = h.end
      BY DEF Stays
    <3>2. CASE q \in same
      BY <2>1, <2>3, <3>1, <3>2
    <3>3. CASE q \notin same
      BY <2>3, <3>1, <3>3
    <3> QED
      BY <3>2, <3>3
  <2>7. Recovered(u, r)
    BY <2>3 DEF Recovered
  <2>8. ASSUME NEW x \in begun, NEW p, x # w, RowOf(p, x, begun, ends, now), Recovered(t, p) PROVE Recovered(u, p)
    <3>1. PICK q \in t : /\ q.end = p.end /\ q.start \in {p.start, p.start + 1}
                         /\ q.start = p.start => q.liters = p.liters
      BY <2>8 DEF Recovered
    <3>2. p.end # r.end
      <4>1. ~Overlap(p, r)
        BY <2>8, OneWatering
      <4>2. p.start < p.end /\ r.start < r.end /\ p.start \in Nat /\ p.end \in Nat /\ r.start \in Nat /\ r.end \in Nat
        BY <2>8, RowFacts
      <4> QED
        BY <4>1, <4>2 DEF Overlap
    <3>3. q \in u
      BY <2>1, <2>3, <3>1, <3>2
    <3> QED
      BY <3>1, <3>3 DEF Recovered
  <2> QED
    BY <2>2, <2>4, <2>5, <2>6, <2>7, <2>8
<1> QED
  BY <1>2, <1>3

-----------------------------------------------------------------------------
(* The rows of the recorder are merged one by one, in order of their       *)
(* starts: the last one into what the others have become.                  *)
Latest(s) == CHOOSE r \in s : \A q \in s : q.start <= r.start
MergesTaken(table, runs, g) ==
    \A s \in SUBSET runs :
        g[s] = IF s = {} THEN table ELSE MergeRun(g[s \ {Latest(s)}], Latest(s), table)

(* The merge takes one run after the other, the latest start last.         *)
LEMMA MergeSteps ==
    ASSUME NEW table, NEW runs, IsFiniteSet(runs), \A s \in SUBSET runs : s # {} => Latest(s) \in s
    PROVE  \E g : MergesTaken(table, runs, g) /\ MergeBackfill(table, runs) = g[runs]
<1> DEFINE G(g, s) == IF s = {} THEN table ELSE MergeRun(g[s \ {Latest(s)}], Latest(s), table)
           Small(k) == {s \in SUBSET runs : Cardinality(s) <= k}
           F(g, k) == [s \in Small(k) |-> G(g, s)]
           T == {k \in Nat : \E g : g = F(g, k)}
<1>0. ASSUME NEW s \in SUBSET runs
      PROVE  IsFiniteSet(s) /\ Cardinality(s) \in Nat /\ (Cardinality(s) = 0 <=> s = {})
  BY FS_Subset, FS_CardinalityType, FS_EmptySet
<1>1. ASSUME NEW s \in SUBSET runs, s # {}
      PROVE  LET e == Latest(s)
             IN  e \in s /\ s \ {e} \in SUBSET runs /\ Cardinality(s \ {e}) = Cardinality(s) - 1
  <2>1. (Latest(s)) \in s
    BY <1>1
  <2> QED
    BY <1>0, <2>1, FS_RemoveElement
<1>2. 0 \in T
  <2>1. PICK g : g = [s \in Small(0) |-> table]
    OBVIOUS
  <2>2. \A s \in Small(0) : s = {}
    BY <1>0
  <2>3. \A s \in Small(0) : G(g, s) = table
    BY <2>2
  <2>4. g = F(g, 0)
    <3> HIDE DEF G
    <3> QED
      BY <2>1, <2>3
  <2> QED
    BY <2>4
<1>3. ASSUME NEW k \in Nat, k \in T PROVE k + 1 \in T
  <2>1. PICK g : g = F(g, k)
    BY <1>3
  <2>2. PICK h : h = [s \in Small(k + 1) |-> G(g, s)]
    OBVIOUS
  <2>3. ASSUME NEW s \in Small(k) PROVE s \in Small(k + 1) /\ h[s] = g[s]
    <3>1. s \in Small(k + 1)
      BY <1>0
    <3>2. g[s] = G(g, s)
      BY <2>1
    <3> QED
      BY <2>2, <3>1, <3>2
  <2>4. ASSUME NEW s \in Small(k + 1) PROVE h[s] = G(h, s)
    <3>1. CASE s = {}
      BY <2>2, <3>1
    <3>2. CASE s # {}
      <4>1. PICK x : x = Latest(s)
        OBVIOUS
      <4>2. s \ {x} \in SUBSET runs /\ Cardinality(s \ {x}) = Cardinality(s) - 1
        BY <1>1, <3>2, <4>1
      <4>3. s \ {x} \in Small(k)
        BY <1>0, <4>2
      <4>4. h[s \ {x}] = g[s \ {x}]
        BY <2>3, <4>3
      <4> QED
        BY <2>2, <3>2, <4>1, <4>4
    <3> QED
      BY <3>1, <3>2
  <2>5. h = F(h, k + 1)
    <3> HIDE DEF G
    <3> QED
      BY <2>2, <2>4
  <2>6. k + 1 \in Nat
    OBVIOUS
  <2> HIDE DEF F
  <2> QED
    BY <2>5, <2>6
<1>4. PICK n : n \in Nat /\ n = Cardinality(runs)
  <2>1. Cardinality(runs) \in Nat
    BY <1>0
  <2> QED
    BY <2>1
<1>5. n \in T
  <2> HIDE DEF T
  <2> QED
    BY <1>2, <1>3, <1>4, NatInduct
<1>6. Small(n) = SUBSET runs
  BY <1>0, <1>4, FS_Subset
<1> DEFINE H(g) == [s \in SUBSET runs |-> G(g, s)]
           iter == CHOOSE g : g = H(g)
<1>7. iter = H(iter)
  <2>1. \E g : g = H(g)
    BY <1>5, <1>6
  <2> QED
    BY <2>1
<1>8. MergeBackfill(table, runs) = iter[runs]
  BY DEF MergeBackfill, Latest
<1>9. \A s \in SUBSET runs : iter[s] = G(iter, s)
  <2> HIDE DEF G, iter
  <2> QED
    BY <1>7
<1> QED
  BY <1>8, <1>9 DEF MergesTaken

(* What holds of no rows, and of rows with one more, holds of all.         *)
LEMMA SubsetInduct ==
    ASSUME NEW S, IsFiniteSet(S), NEW X, {} \in X,
           \A s \in SUBSET S : s # {} => \E x \in s : s \ {x} \in X => s \in X
    PROVE  S \in X
<1> DEFINE T == {k \in Nat : \A s \in SUBSET S : Cardinality(s) = k => s \in X}
<1>0. ASSUME NEW s \in SUBSET S
      PROVE  IsFiniteSet(s) /\ Cardinality(s) \in Nat /\ (Cardinality(s) = 0 <=> s = {})
  BY FS_Subset, FS_CardinalityType, FS_EmptySet
<1>1. 0 \in T
  BY <1>0
<1>2. ASSUME NEW k \in Nat, k \in T PROVE k + 1 \in T
  <2>1. ASSUME NEW s \in SUBSET S, Cardinality(s) = k + 1 PROVE s \in X
    <3>1. s # {}
      BY <1>0, <2>1
    <3>2. PICK x \in s : s \ {x} \in X => s \in X
      BY <3>1
    <3>3. Cardinality(s \ {x}) = Cardinality(s) - 1
      BY <1>0, <3>2, FS_RemoveElement
    <3>4. s \ {x} \in SUBSET S /\ Cardinality(s \ {x}) = k
      BY <2>1, <3>3
    <3> QED
      BY <1>2, <3>2, <3>4
  <2>2. k + 1 \in Nat
    OBVIOUS
  <2> QED
    BY <2>1, <2>2
<1>3. Cardinality(S) \in T
  <2>1. Cardinality(S) \in Nat
    BY <1>0
  <2> HIDE DEF T
  <2> QED
    BY <1>1, <1>2, <2>1, NatInduct
<1> QED
  BY <1>3

(* A bounded set of naturals has a greatest one, which is its Max.         *)
LEMMA GreatestIn ==
    ASSUME NEW S, S \subseteq Nat, S # {}, NEW n \in Nat, \A y \in S : y <= n
    PROVE  Max(S) \in S /\ \A y \in S : y <= Max(S)
<1>1. PICK D : D = {n - y : y \in S}
  OBVIOUS
<1>2. D \subseteq Nat /\ D # {}
  <2>1. \A y \in S : y \in Nat /\ y <= n
    OBVIOUS
  <2>2. \A y \in S : n - y \in Nat
    BY <2>1
  <2> QED
    BY <1>1, <2>2
<1>3. Min(D) \in D /\ \A d \in D : Min(D) <= d
  BY <1>2, LeastIn
<1>4. PICK x \in S : Min(D) = n - x
  BY <1>1, <1>3
<1>5. \A y \in S : x >= y
  <2> SUFFICES ASSUME NEW y \in S PROVE x >= y
    OBVIOUS
  <2>1. n - x <= n - y
    BY <1>1, <1>3, <1>4
  <2> QED
    BY <2>1
<1>6. Max(S) \in S /\ \A y \in S : Max(S) >= y
  BY <1>5 DEF Max
<1> QED
  BY <1>6

LEMMA LatestIn ==
    ASSUME NEW begun, Spaced(begun), NEW ends, NEW now \in Nat, NEW runs, Runs(runs, begun, ends, now)
    PROVE  \A s \in SUBSET runs : s # {} => Latest(s) \in s
<1> SUFFICES ASSUME NEW s \in SUBSET runs, s # {} PROVE Latest(s) \in s
  OBVIOUS
<1>1. ASSUME NEW r \in s PROVE r.start \in Nat /\ r.start <= now
  <2>1. PICK w \in begun : RowOf(r, w, begun, ends, now)
    BY DEF Runs
  <2>2. r.start \in Nat /\ r.end \in Nat /\ r.start < r.end
    BY <2>1, RowFacts
  <2>3. r.end <= now
    BY <2>1 DEF RowOf
  <2> QED
    BY <2>2, <2>3
<1>2. PICK D : D = {r.start : r \in s}
  OBVIOUS
<1>3. D \subseteq Nat /\ D # {} /\ \A d \in D : d <= now
  BY <1>1, <1>2
<1>4. Max(D) \in D /\ \A d \in D : d <= Max(D)
  BY <1>3, GreatestIn
<1>5. PICK r \in s : r.start = Max(D)
  BY <1>2, <1>4
<1>6. \A q \in s : q.start <= r.start
  BY <1>2, <1>4, <1>5
<1> QED
  BY <1>6 DEF Latest

(* Hence the merge of all.                                                 *)
LEMMA MergedShape ==
    ASSUME NEW begun, Spaced(begun), NEW ends, NEW now \in Nat, NEW table, NEW runs, IsFiniteSet(runs),
           Rows(table, begun, ends, now), Apart(table), Runs(runs, begun, ends, now)
    PROVE  \E g : /\ MergesTaken(table, runs, g) /\ MergeBackfill(table, runs) = g[runs]
                  /\ \A s \in SUBSET runs : Rows(g[s], begun, ends, now) /\ Apart(g[s]) /\ FromBoth(g[s], table, begun)
<1>0. \A s \in SUBSET runs : s # {} => Latest(s) \in s
  BY LatestIn
<1>1. PICK g : MergesTaken(table, runs, g) /\ MergeBackfill(table, runs) = g[runs]
  BY <1>0, MergeSteps
<1>2. \A h \in table : h.start \in Nat /\ h.end \in Nat
  BY DEF Rows, RowOf, IsRow
<1> DEFINE P(s) == Rows(g[s], begun, ends, now) /\ Apart(g[s]) /\ FromBoth(g[s], table, begun)
<1>3. P({})
  <2>1. g[{}] = table
    BY <1>1 DEF MergesTaken
  <2>2. FromBoth(table, table, begun)
    BY <1>2 DEF FromBoth
  <2> QED
    BY <2>1, <2>2
<1>4. ASSUME NEW s \in SUBSET runs, s # {}, P(s \ {Latest(s)}) PROVE P(s)
  <2>1. PICK r \in s : r = Latest(s)
    BY <1>0, <1>4
  <2>2. PICK t : t = g[s \ {r}]
    OBVIOUS
  <2>3. g[s] = MergeRun(t, r, table)
    BY <1>1, <1>4, <2>1, <2>2 DEF MergesTaken
  <2>4. Rows(t, begun, ends, now) /\ Apart(t) /\ FromBoth(t, table, begun)
    BY <1>4, <2>1, <2>2
  <2>5. PICK w \in begun : RowOf(r, w, begun, ends, now) /\ r.start = w.start
    BY DEF Runs
  <2>6. PICK u : u = MergeRun(t, r, table)
    OBVIOUS
  <2>7. Rows(u, begun, ends, now) /\ Apart(u) /\ FromBoth(u, table, begun)
    BY <1>2, <2>4, <2>5, <2>6, MergeShape
  <2> QED
    BY <2>3, <2>6, <2>7
<1>5. ASSUME NEW all \in SUBSET runs PROVE P(all)
  <2> DEFINE X == {s \in SUBSET runs : P(s)}
  <2>1. {} \in X
    BY <1>3
  <2>2. \A s \in SUBSET all : s # {} => \E x \in s : s \ {x} \in X => s \in X
    <3> SUFFICES ASSUME NEW s \in SUBSET all, s # {} PROVE \E x \in s : s \ {x} \in X => s \in X
      OBVIOUS
    <3>1. s \in SUBSET runs
      OBVIOUS
    <3>2. Latest(s) \in s
      BY <1>0, <3>1
    <3> HIDE DEF P
    <3> QED
      BY <1>4, <3>1, <3>2
  <2>3. IsFiniteSet(all)
    BY FS_Subset
  <2>4. all \in X
    <3> HIDE DEF X
    <3> QED
      BY <2>1, <2>2, <2>3, SubsetInduct
  <2> QED
    BY <2>4
<1> QED
  BY <1>1, <1>5

LEMMA MergedExact ==
    ASSUME NEW begun, Spaced(begun), NEW ends, NEW now \in Nat, NEW table, NEW runs, IsFiniteSet(runs),
           Rows(table, begun, ends, now), Apart(table), Runs(runs, begun, ends, now),
           Exact(table, begun), Metered(table, begun), Exact(runs, begun),
           \A r \in runs : r.liters = Through(r), \A r, q \in runs : r.start = q.start => r = q
    PROVE  LET t == MergeBackfill(table, runs)
           IN  Exact(t, begun) /\ Metered(t, begun) /\ \A r \in runs : Recovered(t, r)
<1>0. \A s \in SUBSET runs : s # {} => Latest(s) \in s
  BY LatestIn
<1>1. PICK g : /\ MergesTaken(table, runs, g) /\ MergeBackfill(table, runs) = g[runs]
               /\ \A s \in SUBSET runs :
                     Rows(g[s], begun, ends, now) /\ Apart(g[s]) /\ FromBoth(g[s], table, begun)
  BY MergedShape
<1> DEFINE P(s) == /\ Exact(g[s], begun) /\ Metered(g[s], begun) /\ Stays(table, g[s])
                   /\ \A r \in s : Recovered(g[s], r)
           X == {s \in SUBSET runs : P(s)}
<1>2. P({})
  <2>1. g[{}] = table
    BY <1>1 DEF MergesTaken
  <2>2. Stays(table, table)
    BY DEF Stays
  <2> QED
    BY <2>1, <2>2
<1>3. ASSUME NEW s \in SUBSET runs, s # {}, P(s \ {Latest(s)}) PROVE P(s)
  <2>1. PICK r \in s : r = Latest(s)
    BY <1>0, <1>3
  <2>2. PICK rest : rest = s \ {r}
    OBVIOUS
  <2>3. PICK t : t = g[rest]
    OBVIOUS
  <2>4. PICK u : u = MergeRun(t, r, table)
    OBVIOUS
  <2>5. g[s] = u
    BY <1>1, <1>3, <2>1, <2>2, <2>3, <2>4 DEF MergesTaken
  <2>6. Rows(t, begun, ends, now) /\ Apart(t) /\ FromBoth(t, table, begun)
    BY <1>1, <2>2, <2>3
  <2>7. Exact(t, begun) /\ Metered(t, begun) /\ Stays(table, t) /\ \A p \in rest : Recovered(t, p)
    BY <1>3, <2>1, <2>2, <2>3
  <2>8. PICK w \in begun : RowOf(r, w, begun, ends, now) /\ r.start = w.start
    BY DEF Runs
  <2>9. r.end = w.end
    <3>1. Overlap(r, w)
      BY <2>8, OwnWatering
    <3> QED
      BY <3>1 DEF Exact
  <2>10. /\ Exact(u, begun) /\ Metered(u, begun) /\ Stays(table, u) /\ Recovered(u, r)
         /\ \A p : \A x \in begun : x # w /\ RowOf(p, x, begun, ends, now) /\ Recovered(t, p) => Recovered(u, p)
    <3>1. r.liters = Through(r)
      OBVIOUS
    <3> QED
      BY <2>4, <2>6, <2>7, <2>8, <2>9, <3>1, MergeExact
  <2>11. ASSUME NEW p \in s PROVE Recovered(u, p)
    <3>1. CASE p = r
      BY <2>10, <3>1
    <3>2. CASE p # r
      <4>1. p \in rest
        BY <2>2, <3>2
      <4>2. PICK x \in begun : RowOf(p, x, begun, ends, now) /\ p.start = x.start
        BY DEF Runs
      <4>3. x # w
        BY <2>8, <3>2, <4>2
      <4> QED
        BY <2>7, <2>10, <4>1, <4>2, <4>3
    <3> QED
      BY <3>1, <3>2
  <2> QED
    BY <2>5, <2>10, <2>11
<1>4. {} \in X
  BY <1>2
<1>5. \A s \in SUBSET runs : s # {} => \E x \in s : s \ {x} \in X => s \in X
  <2> SUFFICES ASSUME NEW s \in SUBSET runs, s # {} PROVE \E x \in s : s \ {x} \in X => s \in X
    OBVIOUS
  <2>1. Latest(s) \in s
    BY <1>0
  <2> HIDE DEF P
  <2> QED
    BY <1>3, <2>1
<1>6. runs \in X
  <2> HIDE DEF X
  <2> QED
    BY <1>4, <1>5, SubsetInduct
<1>7. P(runs)
  BY <1>6
<1> QED
  BY <1>1, <1>7

-----------------------------------------------------------------------------
(* What the recorder holds, and the rows it is read as.                    *)
Signals(begun, ended, starts, ends, now) ==
    /\ Spaced(begun) /\ ended \subseteq begun
    /\ \A w \in begun : w.end <= now /\ w.end <= w.start + MaxRunMinutes
    /\ \A w \in ended : w.start < w.end
    /\ \A w \in begun : w \in ended \/ w.end = now
    /\ \A s \in starts : \E w \in begun : w.start = s
    /\ ends \subseteq Nat
    /\ \A e \in ends, w \in begun : e <= w.start \/ w.end <= e
    /\ \A w \in begun, x \in ended : w.start \in starts \/ x.end \in ends

(* The limit and the close, by what they are and not by Min.               *)
LEMMA LimitIs ==
    ASSUME NEW starts, starts \subseteq Nat, NEW s \in Nat
    PROVE  /\ CloseLimit(s, starts) \in Nat
           /\ \A t \in starts : t > s => CloseLimit(s, starts) <= t
           /\ \A e \in Nat : e <= s + MaxRunMinutes /\ (\A t \in starts : t > s => e <= t) => e <= CloseLimit(s, starts)
<1>1. PICK S : S = {s + MaxRunMinutes} \cup {t \in starts : t > s}
  OBVIOUS
<1>2. S \subseteq Nat /\ S # {}
  <2>1. s + MaxRunMinutes \in Nat
    BY FeedAssumption
  <2> QED
    BY <1>1, <2>1
<1>3. Min(S) \in S /\ \A y \in S : Min(S) <= y
  BY <1>2, LeastIn
<1>4. CloseLimit(s, starts) = Min(S)
  BY <1>1 DEF CloseLimit
<1> QED
  BY <1>1, <1>2, <1>3, <1>4

LEMMA CloseIs ==
    ASSUME NEW starts, NEW ends, ends \subseteq Nat, NEW s
    PROVE  LET c == CloseOf(s, starts, ends)
           IN  /\ c # Never => c \in ends /\ s < c /\ c <= CloseLimit(s, starts)
               /\ \A e \in ends : s < e /\ e <= CloseLimit(s, starts) => c # Never /\ c <= e
<1>1. PICK S : S = {e \in ends : s < e /\ e <= CloseLimit(s, starts)}
  OBVIOUS
<1>2. CloseOf(s, starts, ends) = IF S = {} THEN Never ELSE Min(S)
  BY <1>1 DEF CloseOf, Least
<1>3. CASE S = {}
  BY <1>1, <1>2, <1>3
<1>4. CASE S # {}
  <2>1. S \subseteq Nat
    BY <1>1
  <2>2. Min(S) \in S /\ \A y \in S : Min(S) <= y
    BY <1>4, <2>1, LeastIn
  <2>3. Min(S) # Never
    BY <2>1, <2>2 DEF Never
  <2> QED
    BY <1>1, <1>2, <1>4, <2>2, <2>3
<1> QED
  BY <1>3, <1>4

(* The close of a watering is what its start is paired with, if it was     *)
(* reported.                                                               *)
LEMMA OwnClose ==
    ASSUME NEW begun, NEW ended, NEW starts, NEW ends, NEW now \in Nat, Signals(begun, ended, starts, ends, now),
           NEW w \in begun, w.start < w.end
    PROVE  LET c == CloseOf(w.start, starts, ends)
           IN  /\ c # Never => c \in Nat /\ c \in ends /\ w.start < c /\ w.end <= c
               /\ w.end \in ends => c = w.end
<1>1. w.start \in Nat /\ w.end \in Nat /\ w.end <= w.start + MaxRunMinutes
  BY DEF Signals, Spaced
<1>2. starts \subseteq Nat /\ ends \subseteq Nat
  BY DEF Signals, Spaced
<1>3. PICK c : c = CloseOf(w.start, starts, ends)
  OBVIOUS
<1>4. PICK l : l = CloseLimit(w.start, starts)
  OBVIOUS
<1>5. /\ l \in Nat
      /\ \A e \in Nat : e <= w.start + MaxRunMinutes /\ (\A t \in starts : t > w.start => e <= t) => e <= l
  BY <1>1, <1>2, <1>4, LimitIs
<1>6. /\ c # Never => c \in ends /\ w.start < c
      /\ \A e \in ends : w.start < e /\ e <= l => c # Never /\ c <= e
  BY <1>2, <1>3, <1>4, CloseIs
<1>7. w.end <= l
  <2>1. ASSUME NEW t \in starts, t > w.start PROVE w.end <= t
    <3>1. PICK x \in begun : x.start = t
      BY DEF Signals
    <3>2. x = w \/ x.end < w.start \/ w.end < x.start
      BY DEF Signals, Spaced
    <3>3. x.start \in Nat /\ x.end \in Nat /\ x.start <= x.end
      BY DEF Signals, Spaced
    <3> QED
      BY <1>1, <2>1, <3>1, <3>2, <3>3
  <2> QED
    BY <1>1, <1>5, <2>1
<1>8. c # Never => w.end <= c
  <2> SUFFICES ASSUME c # Never PROVE w.end <= c
    OBVIOUS
  <2>1. c \in ends /\ w.start < c
    BY <1>6
  <2>2. c <= w.start \/ w.end <= c
    BY <2>1 DEF Signals
  <2> QED
    BY <1>1, <1>2, <2>1, <2>2
<1>9. w.end \in ends => c = w.end
  <2> SUFFICES ASSUME w.end \in ends PROVE c = w.end
    OBVIOUS
  <2>1. c # Never /\ c <= w.end
    BY <1>6, <1>7
  <2>2. c \in Nat /\ w.end <= c
    BY <1>2, <1>6, <1>8, <2>1
  <2> QED
    BY <1>1, <2>1, <2>2
<1> QED
  BY <1>2, <1>3, <1>6, <1>8, <1>9

(* What a start is paired with is a run of its watering, though a report   *)
(* may be lost.                                                            *)
LEMMA PairsAreRuns ==
    ASSUME NEW begun, NEW ended, NEW starts, NEW ends, NEW now \in Nat, Signals(begun, ended, starts, ends, now),
           NEW volumes
    PROVE  Runs({r \in PairByValue(starts, ends, volumes) : r.end <= now}, begun, ends, now)
<1> SUFFICES ASSUME NEW r \in PairByValue(starts, ends, volumes), r.end <= now
             PROVE  \E w \in begun : RowOf(r, w, begun, ends, now) /\ r.start = w.start
  BY DEF Runs
<1>1. PICK s \in starts : /\ CloseOf(s, starts, ends) # Never
                          /\ r = [start |-> s, end |-> CloseOf(s, starts, ends),
                                  liters |-> LitersOf(s, CloseOf(s, starts, ends), starts, volumes)]
  BY DEF PairByValue
<1>2. PICK w \in begun : w.start = s
  BY DEF Signals
<1>3. r.start = s /\ r.end = CloseOf(s, starts, ends) /\ r = [start |-> r.start, end |-> r.end, liters |-> r.liters]
  BY <1>1
<1>4. w.start \in Nat /\ w.end \in Nat /\ starts \subseteq Nat /\ ends \subseteq Nat /\ w.start <= w.end
  BY DEF Signals, Spaced
<1>5. r.end \in ends /\ s < r.end /\ r.end <= CloseLimit(s, starts) /\ s \in Nat /\ r.end \in Nat
  <2>1. r.end \in ends /\ s < r.end /\ r.end <= CloseLimit(s, starts)
    BY <1>1, <1>3, <1>4, CloseIs
  <2> QED
    BY <1>4, <2>1
<1>6. w.start < w.end
  <2>1. CASE w \in ended
    BY <2>1 DEF Signals
  <2>2. CASE w.end = now
    BY <1>2, <1>4, <1>5, <2>2
  <2> QED
    BY <2>1, <2>2 DEF Signals
<1>7. w.end <= r.end /\ (w.end \in ends => r.end = w.end)
  BY <1>1, <1>2, <1>3, <1>6, OwnClose
<1>8. ASSUME NEW x \in begun, x # w PROVE x.end <= w.start \/ r.end <= x.start
  <2>1. x.start \in Nat /\ x.end \in Nat /\ x.start <= x.end /\ x.end <= now
    BY DEF Signals, Spaced
  <2>2. w.end < x.start \/ x.end < w.start
    BY <1>8 DEF Signals, Spaced
  <2>3. CASE w.end < x.start
    <3>1. CASE x.start \in starts
      <4>1. CloseLimit(s, starts) \in Nat /\ CloseLimit(s, starts) <= x.start
        <5>1. x.start > s
          BY <1>2, <1>4, <1>5, <2>1, <2>3
        <5> QED
          BY <1>4, <1>5, <3>1, <5>1, LimitIs
      <4> QED
        BY <1>4, <1>5, <2>1, <4>1
    <3>2. CASE x.start \notin starts
      <4>1. w \in ended
        <5>1. w.end # now
          BY <1>4, <2>1, <2>3
        <5> QED
          BY <5>1 DEF Signals
      <4>2. w.end \in ends
        BY <3>2, <4>1 DEF Signals
      <4> QED
        BY <1>4, <1>7, <2>1, <2>3, <4>2
    <3> QED
      BY <3>1, <3>2
  <2>4. CASE x.end < w.start
    BY <1>4, <2>1, <2>4
  <2> QED
    BY <2>2, <2>3, <2>4
<1>9. IsRow(r)
  BY <1>2, <1>3, <1>4, <1>5 DEF IsRow
<1>10. RowOf(r, w, begun, ends, now)
  <2>1. w.start <= r.start /\ r.start <= w.start + 1 /\ r.start < w.end
    BY <1>2, <1>3, <1>4, <1>6
  <2> QED
    BY <1>5, <1>7, <1>8, <1>9, <2>1 DEF RowOf
<1> QED
  BY <1>2, <1>3, <1>10

LEMMA PairsByStart ==
    ASSUME NEW starts, NEW ends, NEW volumes
    PROVE  /\ \A r, q \in PairByValue(starts, ends, volumes) : r.start = q.start => r = q
           /\ IsFiniteSet(starts) => IsFiniteSet(PairByValue(starts, ends, volumes))
<1> DEFINE F(s) == [start |-> s, end |-> CloseOf(s, starts, ends),
                    liters |-> LitersOf(s, CloseOf(s, starts, ends), starts, volumes)]
<1>1. PICK S \in SUBSET starts : S = {t \in starts : CloseOf(t, starts, ends) # Never}
  OBVIOUS
<1>2. PairByValue(starts, ends, volumes) = {F(s) : s \in S}
  BY <1>1 DEF PairByValue
<1>3. \A s \in S : F(s).start = s
  OBVIOUS
<1> HIDE DEF F
<1>4. IsFiniteSet(starts) => IsFiniteSet({F(s) : s \in S})
  <2> SUFFICES ASSUME IsFiniteSet(starts) PROVE IsFiniteSet({F(s) : s \in S})
    OBVIOUS
  <2>1. IsFiniteSet(S)
    BY FS_Subset
  <2>2. PICK f : f = [s \in S |-> F(s)]
    OBVIOUS
  <2>3. f \in Surjection(S, {F(s) : s \in S})
    BY <2>2 DEF Surjection
  <2> QED
    BY <2>1, <2>3, FS_Surjection
<1> QED
  BY <1>2, <1>3, <1>4

-----------------------------------------------------------------------------
(* The counter climbs by the water of a minute in each minute of a         *)
(* watering, and falls to 0 as the next one begins.                        *)
SeenIn(volumes, from, until) == {t \in DOMAIN volumes : from <= t /\ t <= until}
SumsTaken(volumes, from, until, g) ==
    \A s \in SUBSET SeenIn(volumes, from, until) :
        g[s] = IF s = {} THEN 0 ELSE g[s \ {CHOOSE x \in s : TRUE}] + Climb(volumes, CHOOSE x \in s : TRUE)

(* The sum adds one climb after the other, in whatever order.              *)
LEMMA SumSteps ==
    ASSUME NEW volumes, NEW from, NEW until, IsFiniteSet(SeenIn(volumes, from, until))
    PROVE  \E g : /\ SumsTaken(volumes, from, until, g)
                  /\ SumPlausible(volumes, from, until) =
                        IF SeenIn(volumes, from, until) = {} THEN Never ELSE g[SeenIn(volumes, from, until)]
<1> DEFINE G(g, s) == IF s = {} THEN 0 ELSE g[s \ {CHOOSE x \in s : TRUE}] + Climb(volumes, CHOOSE x \in s : TRUE)
           Small(k) == {s \in SUBSET SeenIn(volumes, from, until) : Cardinality(s) <= k}
           F(g, k) == [s \in Small(k) |-> G(g, s)]
           T == {k \in Nat : \E g : g = F(g, k)}
<1>0. ASSUME NEW s \in SUBSET SeenIn(volumes, from, until)
      PROVE  IsFiniteSet(s) /\ Cardinality(s) \in Nat /\ (Cardinality(s) = 0 <=> s = {})
  BY FS_Subset, FS_CardinalityType, FS_EmptySet
<1>1. ASSUME NEW s \in SUBSET SeenIn(volumes, from, until), s # {}
      PROVE  LET e == CHOOSE x \in s : TRUE
             IN  e \in s /\ s \ {e} \in SUBSET SeenIn(volumes, from, until) /\ Cardinality(s \ {e}) = Cardinality(s) - 1
  <2>1. (CHOOSE x \in s : TRUE) \in s
    BY <1>1
  <2> QED
    BY <1>0, <2>1, FS_RemoveElement
<1>2. 0 \in T
  <2>1. PICK g : g = [s \in Small(0) |-> 0]
    OBVIOUS
  <2>2. \A s \in Small(0) : s = {}
    BY <1>0
  <2>3. \A s \in Small(0) : G(g, s) = 0
    BY <2>2
  <2>4. g = F(g, 0)
    <3> HIDE DEF G
    <3> QED
      BY <2>1, <2>3
  <2> QED
    BY <2>4
<1>3. ASSUME NEW k \in Nat, k \in T PROVE k + 1 \in T
  <2>1. PICK g : g = F(g, k)
    BY <1>3
  <2>2. PICK h : h = [s \in Small(k + 1) |-> G(g, s)]
    OBVIOUS
  <2>3. ASSUME NEW s \in Small(k) PROVE s \in Small(k + 1) /\ h[s] = g[s]
    <3>1. s \in Small(k + 1)
      BY <1>0
    <3>2. g[s] = G(g, s)
      BY <2>1
    <3> QED
      BY <2>2, <3>1, <3>2
  <2>4. ASSUME NEW s \in Small(k + 1) PROVE h[s] = G(h, s)
    <3>1. CASE s = {}
      BY <2>2, <3>1
    <3>2. CASE s # {}
      <4>1. PICK x : x = CHOOSE y \in s : TRUE
        OBVIOUS
      <4>2. s \ {x} \in SUBSET SeenIn(volumes, from, until) /\ Cardinality(s \ {x}) = Cardinality(s) - 1
        BY <1>1, <3>2, <4>1
      <4>3. s \ {x} \in Small(k)
        BY <1>0, <4>2
      <4>4. h[s \ {x}] = g[s \ {x}]
        BY <2>3, <4>3
      <4> QED
        BY <2>2, <3>2, <4>1, <4>4
    <3> QED
      BY <3>1, <3>2
  <2>5. h = F(h, k + 1)
    <3> HIDE DEF G
    <3> QED
      BY <2>2, <2>4
  <2>6. k + 1 \in Nat
    OBVIOUS
  <2> HIDE DEF F
  <2> QED
    BY <2>5, <2>6
<1>4. PICK n : n \in Nat /\ n = Cardinality(SeenIn(volumes, from, until))
  <2>1. Cardinality(SeenIn(volumes, from, until)) \in Nat
    BY <1>0
  <2> QED
    BY <2>1
<1>5. n \in T
  <2> HIDE DEF T
  <2> QED
    BY <1>2, <1>3, <1>4, NatInduct
<1>6. Small(n) = SUBSET SeenIn(volumes, from, until)
  BY <1>0, <1>4, FS_Subset
<1> DEFINE H(g) == [s \in SUBSET SeenIn(volumes, from, until) |-> G(g, s)]
           iter == CHOOSE g : g = H(g)
<1>7. iter = H(iter)
  <2>1. \E g : g = H(g)
    BY <1>5, <1>6
  <2> QED
    BY <2>1
<1>8. SumPlausible(volumes, from, until) =
        IF SeenIn(volumes, from, until) = {} THEN Never ELSE iter[SeenIn(volumes, from, until)]
  BY DEF SumPlausible, SeenIn, FoldSet, MapThenFoldSet
<1>9. \A s \in SUBSET SeenIn(volumes, from, until) : iter[s] = G(iter, s)
  <2> HIDE DEF G, iter
  <2> QED
    BY <1>7
<1> QED
  BY <1>8, <1>9 DEF SumsTaken

Counter(volumes, begun) ==
    /\ \A w \in begun : \A t \in w.start..w.end :
          t \in DOMAIN volumes /\ volumes[t] = LitersPerMinute * (t - w.start)
    /\ \A t \in DOMAIN volumes : \E w \in begun : t \in w.start..w.end

(* What the counter climbed: nothing at a start, a minute's water inside,  *)
(* and so all of a watering's between its bounds.                          *)
LEMMA CountedAt ==
    ASSUME NEW begun, Spaced(begun), NEW volumes, Counter(volumes, begun), NEW t \in DOMAIN volumes
    PROVE  t \in Nat /\ volumes[t] \in Nat
<1>1. PICK w \in begun : t \in w.start..w.end
  BY DEF Counter
<1>2. w.start \in Nat /\ w.end \in Nat
  BY DEF Spaced
<1>3. volumes[t] = LitersPerMinute * (t - w.start)
  BY <1>1 DEF Counter
<1>4. t \in Nat /\ t - w.start \in Nat
  BY <1>1, <1>2
<1> QED
  BY <1>3, <1>4 DEF LitersPerMinute

LEMMA ClimbStart ==
    ASSUME NEW begun, Spaced(begun), NEW volumes, Counter(volumes, begun), NEW w \in begun
    PROVE  Climb(volumes, w.start) = 0
<1>1. w.start \in Nat /\ w.end \in Nat /\ w.start <= w.end
  BY DEF Spaced
<1>2. w.start \in w.start..w.end
  BY <1>1
<1>3. w.start \in DOMAIN volumes /\ volumes[w.start] = 0
  BY <1>1, <1>2 DEF Counter, LitersPerMinute
<1>4. PICK S : S = {u \in DOMAIN volumes : u < w.start}
  OBVIOUS
<1>5. CASE S = {}
  BY <1>4, <1>5 DEF Climb
<1>6. CASE S # {}
  <2>1. S \subseteq Nat /\ \A y \in S : y <= w.start
    BY <1>1, <1>4, CountedAt
  <2>2. Max(S) \in S
    BY <1>1, <1>6, <2>1, GreatestIn
  <2>3. PICK last : last = volumes[Max(S)]
    OBVIOUS
  <2>4. last \in Nat
    BY <1>4, <2>2, <2>3, CountedAt
  <2>5. Climb(volumes, w.start) =
          IF volumes[w.start] >= last THEN volumes[w.start] - last ELSE volumes[w.start]
    BY <1>4, <1>6, <2>3 DEF Climb
  <2> QED
    BY <1>3, <2>4, <2>5
<1> QED
  BY <1>5, <1>6

LEMMA ClimbInside ==
    ASSUME NEW begun, Spaced(begun), NEW volumes, Counter(volumes, begun), NEW w \in begun,
           NEW t \in Nat, w.start < t, t <= w.end
    PROVE  Climb(volumes, t) = LitersPerMinute
<1>1. w.start \in Nat /\ w.end \in Nat /\ w.start <= w.end
  BY DEF Spaced
<1>2. t \in w.start..w.end /\ t - 1 \in w.start..w.end /\ t - 1 \in Nat
  BY <1>1
<1>3. /\ volumes[t] = LitersPerMinute * (t - w.start)
      /\ t - 1 \in DOMAIN volumes /\ volumes[t - 1] = LitersPerMinute * ((t - 1) - w.start)
  BY <1>2 DEF Counter
<1>4. PICK S : S = {u \in DOMAIN volumes : u < t}
  OBVIOUS
<1>5. t - 1 \in S /\ S # {}
  BY <1>3, <1>4
<1>6. S \subseteq Nat /\ \A y \in S : y <= t - 1
  BY <1>4, CountedAt
<1>7. Max(S) \in S /\ \A y \in S : y <= Max(S)
  BY <1>2, <1>5, <1>6, GreatestIn
<1>8. Max(S) = t - 1
  <2>1. PICK m : m = Max(S)
    OBVIOUS
  <2>2. m \in S /\ m \in Nat /\ m <= t - 1 /\ t - 1 <= m
    BY <1>5, <1>6, <1>7, <2>1
  <2> QED
    BY <1>2, <2>1, <2>2
<1>9. PICK last : last = volumes[t - 1]
  OBVIOUS
<1>10. Climb(volumes, t) = IF volumes[t] >= last THEN volumes[t] - last ELSE volumes[t]
  BY <1>4, <1>5, <1>8, <1>9 DEF Climb
<1>11. volumes[t] - last = LitersPerMinute /\ volumes[t] >= last
  BY <1>1, <1>3, <1>9 DEF LitersPerMinute
<1> QED
  BY <1>10, <1>11

LEMMA SumIs ==
    ASSUME NEW begun, Spaced(begun), NEW volumes, Counter(volumes, begun), NEW w \in begun, w.start < w.end
    PROVE  SumPlausible(volumes, w.start, w.end + 1) = Through(w)
<1>1. w.start \in Nat /\ w.end \in Nat
  BY DEF Spaced
<1>2. PICK seen : seen = SeenIn(volumes, w.start, w.end + 1)
  OBVIOUS
<1>3. ASSUME NEW t \in seen
      PROVE  /\ t \in Nat /\ w.start <= t /\ t <= w.end + 1
             /\ Climb(volumes, t) = IF w.start < t /\ t <= w.end THEN LitersPerMinute ELSE 0
  <2>1. t \in DOMAIN volumes /\ w.start <= t /\ t <= w.end + 1
    BY <1>2 DEF SeenIn
  <2>2. t \in Nat
    BY <2>1, CountedAt
  <2>3. CASE w.start < t /\ t <= w.end
    BY <2>1, <2>2, <2>3, ClimbInside
  <2>4. CASE t = w.start
    <3>1. Climb(volumes, t) = 0
      BY <2>4, ClimbStart
    <3> QED
      BY <1>1, <2>1, <2>2, <2>4, <3>1
  <2>5. CASE t = w.end + 1
    <3>1. PICK x \in begun : t \in x.start..x.end
      BY <2>1 DEF Counter
    <3>2. x.start \in Nat /\ x.end \in Nat /\ (x = w \/ x.end < w.start \/ w.end < x.start)
      BY DEF Spaced
    <3>3. x.start <= t /\ t <= x.end
      BY <2>2, <3>1, <3>2
    <3>4. x.start = t
      BY <1>1, <2>5, <3>2, <3>3
    <3>5. Climb(volumes, t) = 0
      BY <3>4, ClimbStart
    <3> QED
      BY <1>1, <2>1, <2>2, <2>5, <3>5
  <2> QED
    BY <1>1, <2>1, <2>2, <2>3, <2>4, <2>5
<1>4. IsFiniteSet(seen)
  <2>1. seen \subseteq w.start..(w.end + 1)
    BY <1>1, <1>3
  <2>2. IsFiniteSet(w.start..(w.end + 1))
    BY <1>1, FS_Interval
  <2> QED
    BY <2>1, <2>2, FS_Subset
<1>5. PICK g : /\ SumsTaken(volumes, w.start, w.end + 1, g)
               /\ SumPlausible(volumes, w.start, w.end + 1) = IF seen = {} THEN Never ELSE g[seen]
  BY <1>2, <1>4, SumSteps
<1> DEFINE Inner(s) == s \cap ((w.start + 1)..w.end)
           P(s) == g[s] = LitersPerMinute * Cardinality(Inner(s))
           X == {s \in SUBSET seen : P(s)}
<1>6. ASSUME NEW s \in SUBSET seen PROVE IsFiniteSet(Inner(s)) /\ Cardinality(Inner(s)) \in Nat
  <2>1. IsFiniteSet(s)
    BY <1>4, FS_Subset
  <2>2. IsFiniteSet(Inner(s))
    BY <2>1, FS_Subset
  <2> QED
    BY <2>2, FS_CardinalityType
<1>7. {} \in X
  <2>1. g[{}] = 0
    BY <1>5 DEF SumsTaken
  <2>2. Cardinality(Inner({})) = 0
    BY FS_EmptySet
  <2> QED
    BY <2>1, <2>2 DEF LitersPerMinute
<1>8. \A s \in SUBSET seen : s # {} => \E x \in s : s \ {x} \in X => s \in X
  <2> SUFFICES ASSUME NEW s \in SUBSET seen, s # {} PROVE \E x \in s : s \ {x} \in X => s \in X
    OBVIOUS
  <2>1. PICK x : x = CHOOSE y \in s : TRUE
    OBVIOUS
  <2>2. x \in s /\ x \in seen
    BY <2>1
  <2>3. PICK r : r = s \ {x}
    OBVIOUS
  <2>4. g[s] = g[r] + Climb(volumes, x)
    BY <1>2, <1>5, <2>1, <2>3 DEF SumsTaken
  <2>5. ASSUME P(r) PROVE P(s)
    <3>1. r \in SUBSET seen
      BY <2>3
    <3>2. Cardinality(Inner(r)) \in Nat /\ IsFiniteSet(Inner(s)) /\ Cardinality(Inner(s)) \in Nat
      BY <1>6, <3>1
    <3>3. CASE w.start < x /\ x <= w.end
      <4>1. x \in Inner(s) /\ Inner(r) = Inner(s) \ {x}
        BY <1>1, <1>3, <2>2, <2>3, <3>3
      <4>2. Cardinality(Inner(r)) = Cardinality(Inner(s)) - 1
        <5>1. Cardinality(Inner(s) \ {x}) = Cardinality(Inner(s)) - 1
          <6> HIDE DEF Inner
          <6> QED
            BY <3>2, <4>1, FS_RemoveElement
        <5> QED
          BY <4>1, <5>1
      <4>3. Climb(volumes, x) = LitersPerMinute
        BY <1>3, <2>2, <3>3
      <4> HIDE DEF Inner
      <4> QED
        BY <2>4, <2>5, <3>2, <4>2, <4>3 DEF LitersPerMinute
    <3>4. CASE ~(w.start < x /\ x <= w.end)
      <4>1. Inner(r) = Inner(s)
        BY <1>1, <1>3, <2>2, <2>3, <3>4
      <4>2. Climb(volumes, x) = 0
        BY <1>3, <2>2, <3>4
      <4>3. g[r] = LitersPerMinute * Cardinality(Inner(r))
        BY <2>5
      <4> HIDE DEF Inner
      <4> QED
        BY <2>4, <3>2, <4>1, <4>2, <4>3 DEF LitersPerMinute
    <3> QED
      BY <3>3, <3>4
  <2> HIDE DEF P
  <2> QED
    BY <2>2, <2>3, <2>5
<1>9. P(seen)
  <2>1. seen \in X
    <3> HIDE DEF X
    <3> QED
      BY <1>4, <1>7, <1>8, SubsetInduct
  <2> QED
    BY <2>1
<1>10. Inner(seen) = (w.start + 1)..w.end
  <2>1. ASSUME NEW t \in (w.start + 1)..w.end PROVE t \in seen
    <3>1. t \in Nat /\ w.start < t /\ t <= w.end /\ t \in w.start..w.end
      BY <1>1, <2>1
    <3>2. t \in DOMAIN volumes
      BY <3>1 DEF Counter
    <3> QED
      BY <1>1, <1>2, <3>1, <3>2 DEF SeenIn
  <2> QED
    BY <2>1
<1>11. Cardinality((w.start + 1)..w.end) = w.end - w.start
  <2>1. w.start + 1 \in Int /\ w.end \in Int /\ w.start + 1 <= w.end
    BY <1>1
  <2>2. Cardinality((w.start + 1)..w.end) = w.end - (w.start + 1) + 1
    BY <2>1, FS_Interval
  <2> QED
    BY <1>1, <2>2
<1>12. seen # {}
  <2>1. w.end \in (w.start + 1)..w.end
    BY <1>1
  <2> QED
    BY <1>10, <2>1
<1> QED
  BY <1>5, <1>9, <1>10, <1>11, <1>12 DEF Through

(* The liters of a paired row are those of the watering.                   *)
LEMMA LitersIs ==
    ASSUME NEW begun, NEW ended, NEW starts, NEW ends, NEW now \in Nat, Signals(begun, ended, starts, ends, now),
           NEW volumes, Counter(volumes, begun), NEW w \in begun, w.start < w.end
    PROVE  LitersOf(w.start, w.end, starts, volumes) = Through(w)
<1>0. Spaced(begun)
  BY DEF Signals
<1>1. w.start \in Nat /\ w.end \in Nat
  BY <1>0 DEF Spaced
<1> DEFINE resets == {t \in DOMAIN volumes : w.start <= t /\ t <= w.start + 2 /\ volumes[t] = 0}
           limits == {w.end + 1} \cup {t \in starts : t > w.start}
<1>2. Min(resets) = w.start /\ resets # {}
  <2>1. w.start \in w.start..w.end
    BY <1>1
  <2>2. w.start \in DOMAIN volumes /\ volumes[w.start] = 0
    BY <1>1, <2>1 DEF Counter, LitersPerMinute
  <2>3. w.start \in resets
    BY <1>1, <2>2
  <2>4. resets \subseteq Nat /\ \A t \in resets : w.start <= t
    BY <1>0, CountedAt
  <2>5. Min(resets) \in resets /\ Min(resets) <= w.start
    <3> HIDE DEF resets
    <3> QED
      BY <2>3, <2>4, LeastIn
  <2>6. PICK m : m = Min(resets)
    OBVIOUS
  <2>7. m \in Nat /\ w.start <= m /\ m <= w.start
    BY <2>4, <2>5, <2>6
  <2> QED
    BY <1>1, <2>3, <2>6, <2>7
<1>3. Min(limits) = w.end + 1
  <2>1. ASSUME NEW t \in starts, t > w.start PROVE t \in Nat /\ w.end + 1 <= t
    <3>1. PICK x \in begun : x.start = t
      BY DEF Signals
    <3>2. x = w \/ x.end < w.start \/ w.end < x.start
      BY <1>0 DEF Spaced
    <3>3. x.start \in Nat /\ x.end \in Nat /\ x.start <= x.end
      BY <1>0 DEF Spaced
    <3> QED
      BY <1>1, <2>1, <3>1, <3>2, <3>3
  <2>2. limits \subseteq Nat /\ w.end + 1 \in limits /\ \A t \in limits : w.end + 1 <= t
    BY <1>1, <2>1
  <2>3. PICK m : m = Min(limits)
    OBVIOUS
  <2>4. m \in limits /\ m <= w.end + 1
    <3> HIDE DEF limits
    <3> QED
      BY <2>2, <2>3, LeastIn
  <2>5. m \in Nat /\ w.end + 1 <= m
    BY <2>2, <2>4
  <2> QED
    BY <1>1, <2>3, <2>4, <2>5
<1>4. SumPlausible(volumes, w.start, w.end + 1) = Through(w)
  BY <1>0, SumIs
<1>5. Through(w) # Never
  BY <1>1, ThroughFacts
<1>6. LitersOf(w.start, w.end, starts, volumes) =
        LET climbed == SumPlausible(volumes, IF resets = {} THEN w.start ELSE Min(resets), Min(limits))
            before == {t \in DOMAIN volumes : t <= w.start}
        IN  IF climbed # Never THEN climbed
            ELSE IF before # {} /\ volumes[Max(before)] = 0 THEN 0 ELSE Never
  BY DEF LitersOf
<1> HIDE DEF resets, limits
<1> QED
  BY <1>2, <1>3, <1>4, <1>5, <1>6

(* With every report received, the recorder's rows are the waterings.      *)
LEMMA PairsExact ==
    ASSUME NEW begun, NEW ended, NEW starts, NEW ends, NEW now \in Nat, Signals(begun, ended, starts, ends, now),
           NEW volumes, Counter(volumes, begun), \A w \in ended : w.start \in starts /\ w.end \in ends
    PROVE  LET runs == {r \in PairByValue(starts, ends, volumes) : r.end <= now}
           IN  /\ Exact(runs, begun) /\ \A r \in runs : r.liters = Through(r)
               /\ \A w \in ended : \E r \in runs : r.start = w.start /\ r.end = w.end
<1>0. Spaced(begun) /\ ended \subseteq begun
  BY DEF Signals
<1>1. PICK runs : runs = {r \in PairByValue(starts, ends, volumes) : r.end <= now}
  OBVIOUS
<1>2. Runs(runs, begun, ends, now)
  BY <1>1, PairsAreRuns
<1>3. ASSUME NEW r \in runs, NEW w \in begun, RowOf(r, w, begun, ends, now), r.start = w.start
      PROVE  r.end = w.end /\ r.liters = Through(r)
  <2>1. w.start \in Nat /\ w.end \in Nat /\ w.start < w.end /\ w.end <= r.end /\ r.end \in Nat
    BY <1>0, <1>3, RowFacts
  <2>2. PICK s \in starts : /\ CloseOf(s, starts, ends) # Never
                            /\ r = [start |-> s, end |-> CloseOf(s, starts, ends),
                                    liters |-> LitersOf(s, CloseOf(s, starts, ends), starts, volumes)]
    BY <1>1 DEF PairByValue
  <2>3. r.end = CloseOf(w.start, starts, ends) /\ r.liters = LitersOf(w.start, r.end, starts, volumes)
    BY <1>3, <2>2
  <2>4. r.end = w.end
    <3>1. CASE w \in ended
      BY <2>1, <2>3, <3>1, OwnClose
    <3>2. CASE w.end = now
      BY <1>1, <2>1, <3>2
    <3> QED
      BY <3>1, <3>2 DEF Signals
  <2>5. r.liters = Through(w)
    <3>1. LitersOf(w.start, w.end, starts, volumes) = Through(w)
      BY <2>1, LitersIs
    <3> QED
      BY <2>3, <2>4, <3>1
  <2> QED
    BY <1>3, <2>4, <2>5 DEF Through
<1>4. Exact(runs, begun)
  <2> SUFFICES ASSUME NEW r \in runs, NEW w \in begun, Overlap(r, w) PROVE r.end = w.end
    BY DEF Exact
  <2>1. PICK x \in begun : RowOf(r, x, begun, ends, now) /\ r.start = x.start
    BY <1>2 DEF Runs
  <2>2. x = w
    BY <1>0, <2>1, OwnWatering
  <2> QED
    BY <1>3, <2>1, <2>2
<1>5. \A r \in runs : r.liters = Through(r)
  BY <1>2, <1>3 DEF Runs
<1>6. ASSUME NEW w \in ended PROVE \E r \in runs : r.start = w.start /\ r.end = w.end
  <2>1. w \in begun /\ w.start < w.end /\ w.end <= now /\ w.start \in starts /\ w.end \in ends
    BY <1>0 DEF Signals
  <2>2. CloseOf(w.start, starts, ends) = w.end
    BY <2>1, OwnClose
  <2>3. w.end # Never
    BY <1>0, <2>1 DEF Spaced, Never
  <2>4. PICK r : r = [start |-> w.start, end |-> CloseOf(w.start, starts, ends),
                      liters |-> LitersOf(w.start, CloseOf(w.start, starts, ends), starts, volumes)]
    OBVIOUS
  <2>5. r \in PairByValue(starts, ends, volumes)
    BY <2>1, <2>2, <2>3, <2>4 DEF PairByValue
  <2>6. r.start = w.start /\ r.end = w.end
    BY <2>2, <2>4
  <2> QED
    BY <1>1, <2>1, <2>5, <2>6
<1> QED
  BY <1>1, <1>4, <1>5, <1>6

-----------------------------------------------------------------------------
(* The steps.  What the recorder holds, as the lemmas above have it.       *)
LEMMA CalmSignals ==
    ASSUME FeedInv, lostReports <= 1, ~reopened
    PROVE  Signals(Begun, waterings, recStarts, recEnds, minute)
<1>1. /\ Spaced(Begun)
      /\ \A w \in Begun : w.end <= minute /\ w.end <= w.start + MaxRunMinutes
      /\ \A w \in Begun : w \in waterings \/ (Open /\ w.start = watering.start /\ w.end = minute)
      /\ \A w \in waterings : w \in Begun /\ w.start < w.end /\ (Open => w.end < watering.start)
  BY BegunSpaced DEF FeedInv
<1>2. minute \in Nat
  BY FeedAssumption DEF FeedInv, FeedShape, Minutes
<1>3. recEnds \subseteq Nat /\ \A s \in recStarts : \E w \in Begun : w.start = s
  BY DEF FeedInv, Recorded
<1>4. ASSUME NEW e \in recEnds, NEW w \in Begun PROVE e <= w.start \/ w.end <= e
  <2>1. /\ \A x \in waterings : e <= x.start \/ x.end <= e
        /\ Open => e <= watering.start \/ e = watering.until
    BY DEF FeedInv, ClosesPlaced
  <2>2. CASE w \in waterings
    BY <2>1, <2>2
  <2>3. CASE Open /\ w.start = watering.start /\ w.end = minute
    <3>1. CASE e <= watering.start
      BY <2>3, <3>1
    <3>2. CASE e = watering.until
      <4>1. watering.until # Never
        BY <1>3, <3>2 DEF Never
      <4>2. minute <= watering.until
        BY <2>3, <4>1 DEF FeedInv, FeedShape
      <4> QED
        BY <2>3, <3>2, <4>2
    <3> QED
      BY <2>1, <2>3, <3>1, <3>2
  <2> QED
    BY <1>1, <2>2, <2>3
<1>5. \A w \in Begun, x \in waterings : w.start \in recStarts \/ x.end \in recEnds
  BY DEF FeedInv, Losses
<1>6. waterings \subseteq Begun /\ \A w \in Begun : w \in waterings \/ w.end = minute
  BY <1>1
<1> QED
  BY <1>1, <1>3, <1>4, <1>5, <1>6 DEF Signals

LEMMA CalmCounter ==
    ASSUME FeedInv
    PROVE  Counter(recVolumes, Begun)
  BY DEF FeedInv, CounterTrue, Counter

LEMMA MinuteFacts ==
    ASSUME FeedInv
    PROVE  minute \in Nat /\ minute \in Minutes /\ minute <= LastMinute /\ LastMinute \in Nat /\ Minutes \subseteq Nat
  BY FeedAssumption DEF FeedInv, FeedShape, Minutes

LEMMA StartsFinite ==
    ASSUME FeedInv
    PROVE  IsFiniteSet(recStarts)
<1>1. minute \in Nat
  BY MinuteFacts
<1>2. Spaced(Begun) /\ \A w \in Begun : w.end <= minute
  BY BegunSpaced DEF FeedInv
<1>3. recStarts \subseteq 0..minute
  <2> SUFFICES ASSUME NEW s \in recStarts PROVE s \in 0..minute
    OBVIOUS
  <2>1. PICK w \in Begun : w.start = s
    BY DEF FeedInv, Recorded
  <2>2. w.start \in Nat /\ w.end \in Nat /\ w.start <= w.end /\ w.end <= minute
    BY <1>2 DEF Spaced
  <2> QED
    BY <1>1, <2>1, <2>2
<1>4. IsFiniteSet(0..minute)
  BY <1>1, FS_Interval
<1> QED
  BY <1>3, <1>4, FS_Subset

(* A row of the watering that is open ends now.                            *)
LEMMA ExactBegun ==
    ASSUME FeedInv, NEW table, Rows(table, Begun, recEnds, minute), Exact(table, waterings)
    PROVE  Exact(table, Begun)
<1>1. /\ Spaced(Begun)
      /\ \A w \in Begun : w \in waterings \/ (Open /\ w.start = watering.start /\ w.end = minute)
  BY BegunSpaced DEF FeedInv
<1>2. minute \in Nat
  BY MinuteFacts
<1> SUFFICES ASSUME NEW r \in table, NEW w \in Begun, Overlap(r, w) PROVE r.end = w.end
  BY DEF Exact
<1>3. PICK x \in Begun : RowOf(r, x, Begun, recEnds, minute)
  BY DEF Rows
<1>4. x = w
  BY <1>1, <1>3, OwnWatering
<1>5. CASE w \in waterings
  BY <1>5 DEF Exact
<1>6. CASE w.end = minute
  <2>1. r.end \in Nat /\ w.end <= r.end
    BY <1>1, <1>3, <1>4, RowFacts
  <2>2. r.end <= minute
    BY <1>3 DEF RowOf
  <2> QED
    BY <1>2, <1>6, <2>1, <2>2
<1> QED
  BY <1>1, <1>5, <1>6

(* An ended watering is part of what has begun.                            *)
LEMMA ExactEnded ==
    ASSUME NEW table, Exact(table, Begun)
    PROVE  Exact(table, waterings)
  BY DEF Exact, Begun

FeedRest == FeedShape /\ CounterTrue /\ ClosesPlaced /\ Losses /\ Timed

LEMMA RestKept ==
    ASSUME FeedInv, UNCHANGED <<minute, registry, watering, waterings, sensorVars, lostReports, reopened, opener>>
    PROVE  FeedRest' /\ Begun' = Begun
  BY DEF FeedInv, FeedRest, FeedShape, CounterTrue, ClosesPlaced, Losses, Timed, Begun, Open, sensorVars

(* The import.                                                             *)
LEMMA ReadsKept ==
    ASSUME FeedInv, ImportReads
    PROVE  FeedInv'
<1>0. UNCHANGED <<minute, registry, watering, waterings, sensorVars, feedRows, lostReports, reopened, opener>>
  BY DEF ImportReads
<1>1. FeedRest' /\ Begun' = Begun
  BY <1>0, RestKept
<1>2. PICK runs : runs = {r \in PairByValue(recStarts, recEnds, recVolumes) : r.end <= minute}
  OBVIOUS
<1>3. import' = [phase |-> "read", at |-> minute, runs |-> runs]
  BY <1>2 DEF ImportReads
<1>4. minute \in Minutes /\ minute \in Nat
  BY MinuteFacts
<1>5. Recorded'
  BY <1>0, <1>1, <1>3, <1>4 DEF FeedInv, Recorded, sensorVars
<1>6. Paired'
  <2> SUFFICES ASSUME lostReports <= 1, ~reopened
               PROVE  /\ Rows(feedRows, Begun, recEnds, minute) /\ Apart(feedRows)
                      /\ Runs(runs, Begun, recEnds, minute)
                      /\ \A r, q \in runs : r.start = q.start => r = q
                      /\ IsFiniteSet(runs)
    BY <1>0, <1>1, <1>3 DEF Paired, sensorVars
  <2>1. Rows(feedRows, Begun, recEnds, minute) /\ Apart(feedRows)
    BY DEF FeedInv, Paired
  <2>2. Signals(Begun, waterings, recStarts, recEnds, minute)
    BY CalmSignals
  <2>3. Runs(runs, Begun, recEnds, minute)
    BY <1>2, <1>4, <2>2, PairsAreRuns
  <2>4. \A r, q \in runs : r.start = q.start => r = q
    BY <1>2, PairsByStart
  <2>5. IsFiniteSet(PairByValue(recStarts, recEnds, recVolumes))
    BY StartsFinite, PairsByStart
  <2>6. runs \subseteq PairByValue(recStarts, recEnds, recVolumes)
    BY <1>2
  <2>7. IsFiniteSet(runs)
    BY <2>5, <2>6, FS_Subset
  <2> QED
    BY <2>1, <2>3, <2>4, <2>7
<1>7. Imported'
  <2> SUFFICES ASSUME lostReports = 0, ~reopened
               PROVE  /\ Metered(feedRows, Begun) /\ Exact(feedRows, waterings)
                      /\ \A r \in runs : r.liters = Through(r)
                      /\ Exact(runs, waterings)
                      /\ \A w \in waterings : \E r \in runs : r.start = w.start /\ r.end = w.end
    BY <1>0, <1>1, <1>3 DEF Imported, Undisturbed, ImportComplete
  <2>1. Metered(feedRows, Begun) /\ Exact(feedRows, waterings)
    BY DEF FeedInv, Imported, Undisturbed
  <2>2. Signals(Begun, waterings, recStarts, recEnds, minute)
    BY CalmSignals
  <2>3. \A w \in waterings : w.start \in recStarts /\ w.end \in recEnds
    <3>1. waterings \subseteq Begun
      BY <2>2 DEF Signals
    <3> QED
      BY <3>1 DEF FeedInv, Losses
  <2>4. Counter(recVolumes, Begun)
    BY CalmCounter
  <2>5. /\ Exact(runs, Begun) /\ \A r \in runs : r.liters = Through(r)
        /\ \A w \in waterings : \E r \in runs : r.start = w.start /\ r.end = w.end
    BY <1>2, <1>4, <2>2, <2>3, <2>4, PairsExact
  <2>6. Exact(runs, waterings)
    BY <2>5, ExactEnded
  <2> QED
    BY <2>1, <2>5, <2>6
<1> QED
  BY <1>1, <1>5, <1>6, <1>7 DEF FeedInv, FeedRest

LEMMA AgainKept ==
    ASSUME FeedInv, ImportAgain
    PROVE  FeedInv'
<1>0. UNCHANGED <<minute, registry, watering, waterings, sensorVars, feedRows, lostReports, reopened, opener>>
  BY DEF ImportAgain
<1>1. FeedRest' /\ Begun' = Begun
  BY <1>0, RestKept
<1>2. import' = [phase |-> "no", at |-> Never, runs |-> {}]
  BY DEF ImportAgain, NotImported
<1>3. minute \in Nat
  BY MinuteFacts
<1>4. Recorded'
  BY <1>0, <1>1, <1>2, <1>3 DEF FeedInv, Recorded, sensorVars, Never
<1>5. Paired'
  <2>1. IsFiniteSet({})
    BY FS_EmptySet
  <2> QED
    BY <1>0, <1>1, <1>2, <2>1 DEF FeedInv, Paired, sensorVars, Runs
<1>6. Imported'
  BY <1>0, <1>1, <1>2 DEF FeedInv, Imported, Undisturbed, ImportComplete, Exact
<1> QED
  BY <1>1, <1>4, <1>5, <1>6 DEF FeedInv, FeedRest

LEMMA MergesKept ==
    ASSUME FeedInv, ImportMerges
    PROVE  FeedInv'
<1>0. UNCHANGED <<minute, registry, watering, waterings, sensorVars, lostReports, reopened, opener>>
  BY DEF ImportMerges
<1>1. FeedRest' /\ Begun' = Begun
  BY <1>0, RestKept
<1>2. PICK runs : runs = import.runs
  OBVIOUS
<1>3. PICK t : t = MergeBackfill(feedRows, runs)
  OBVIOUS
<1>4. feedRows' = t
  BY <1>2, <1>3 DEF ImportMerges
<1>5. import' = [phase |-> "done", at |-> import.at, runs |-> {}] /\ import.phase = "read"
  <2>1. import = [phase |-> import.phase, at |-> import.at, runs |-> import.runs]
    BY DEF FeedInv, Recorded
  <2>2. import' = [import EXCEPT !.phase = "done", !.runs = {}] /\ import.phase = "read"
    BY DEF ImportMerges
  <2> QED
    BY <2>1, <2>2
<1>6. minute \in Nat
  BY MinuteFacts
<1>7. Recorded'
  BY <1>0, <1>1, <1>5 DEF FeedInv, Recorded, sensorVars
<1>8. Spaced(Begun) /\ waterings \subseteq Begun
  BY BegunSpaced DEF FeedInv
<1>9. Paired'
  <2> SUFFICES ASSUME lostReports <= 1, ~reopened
               PROVE  Rows(t, Begun, recEnds, minute) /\ Apart(t)
    <3>1. IsFiniteSet({})
      BY FS_EmptySet
    <3> QED
      BY <1>0, <1>1, <1>4, <1>5, <3>1 DEF Paired, sensorVars, Runs
  <2>1. /\ Rows(feedRows, Begun, recEnds, minute) /\ Apart(feedRows)
        /\ Runs(runs, Begun, recEnds, minute) /\ IsFiniteSet(runs)
    BY <1>2 DEF FeedInv, Paired
  <2>2. PICK g : /\ MergesTaken(feedRows, runs, g) /\ MergeBackfill(feedRows, runs) = g[runs]
                 /\ \A s \in SUBSET runs :
                       Rows(g[s], Begun, recEnds, minute) /\ Apart(g[s]) /\ FromBoth(g[s], feedRows, Begun)
    BY <1>6, <1>8, <2>1, MergedShape
  <2> QED
    BY <1>3, <2>2
<1>10. Imported'
  <2> SUFFICES ASSUME lostReports = 0, ~reopened
               PROVE  /\ Metered(t, Begun) /\ Exact(t, waterings)
                      /\ \A w \in waterings : w.end < import.at =>
                            \E r \in t : /\ r.end = w.end /\ r.start \in {w.start, w.start + 1}
                                         /\ r.start = w.start => r.liters = Through(w)
    BY <1>0, <1>1, <1>4, <1>5 DEF Imported, Undisturbed, ImportComplete, Exact, Through
  <2>1. /\ Rows(feedRows, Begun, recEnds, minute) /\ Apart(feedRows)
        /\ Runs(runs, Begun, recEnds, minute) /\ IsFiniteSet(runs)
        /\ \A r, q \in runs : r.start = q.start => r = q
    BY <1>2 DEF FeedInv, Paired
  <2>2. /\ Metered(feedRows, Begun) /\ Exact(feedRows, waterings)
        /\ \A r \in runs : r.liters = Through(r)
        /\ Exact(runs, waterings)
        /\ \A w \in waterings : w.end < import.at => \E r \in runs : r.start = w.start /\ r.end = w.end
    BY <1>2, <1>5 DEF FeedInv, Imported, Undisturbed
  <2>3. Rows(runs, Begun, recEnds, minute)
    BY <2>1 DEF Rows, Runs
  <2>4. Exact(feedRows, Begun) /\ Exact(runs, Begun)
    BY <2>1, <2>2, <2>3, ExactBegun
  <2>5. Exact(t, Begun) /\ Metered(t, Begun) /\ \A r \in runs : Recovered(t, r)
    BY <1>3, <1>6, <1>8, <2>1, <2>2, <2>4, MergedExact
  <2>6. Exact(t, waterings)
    BY <2>5, ExactEnded
  <2>7. ASSUME NEW w \in waterings, w.end < import.at
        PROVE  \E r \in t : /\ r.end = w.end /\ r.start \in {w.start, w.start + 1}
                            /\ r.start = w.start => r.liters = Through(w)
    <3>1. PICK r \in runs : r.start = w.start /\ r.end = w.end
      BY <2>2, <2>7
    <3>2. Recovered(t, r) /\ r.liters = Through(r)
      BY <2>2, <2>5
    <3>3. Through(r) = Through(w)
      BY <3>1 DEF Through
    <3> QED
      BY <3>1, <3>2, <3>3 DEF Recovered
  <2> QED
    BY <2>5, <2>6, <2>7
<1> QED
  BY <1>1, <1>7, <1>9, <1>10 DEF FeedInv, FeedRest

(* The rows of what has begun are still that when more has.                *)
Later(begun, ends, now, begun2, ends2, now2) ==
    \A r : \A w \in begun : RowOf(r, w, begun, ends, now) => w \in begun2 /\ RowOf(r, w, begun2, ends2, now2)

LEMMA RowsLater ==
    ASSUME NEW begun, NEW ends, NEW now, NEW begun2, NEW ends2, NEW now2,
           Later(begun, ends, now, begun2, ends2, now2), NEW table, NEW runs
    PROVE  /\ Rows(table, begun, ends, now) => Rows(table, begun2, ends2, now2)
           /\ Runs(runs, begun, ends, now) => Runs(runs, begun2, ends2, now2)
  BY DEF Later, Rows, Runs

(* The rows stay as they are while time goes, or a watering begins.        *)
LEMMA PairedLater ==
    ASSUME FeedInv, UNCHANGED <<feedRows, import>>, (lostReports <= 1 /\ ~reopened)' => lostReports <= 1 /\ ~reopened,
           (lostReports <= 1 /\ ~reopened)' => Later(Begun, recEnds, minute, Begun', recEnds', minute')
    PROVE  Paired'
<1> SUFFICES ASSUME (lostReports <= 1 /\ ~reopened)'
             PROVE  /\ Rows(feedRows, Begun', recEnds', minute') /\ Apart(feedRows)
                    /\ Runs(import.runs, Begun', recEnds', minute')
                    /\ \A r, q \in import.runs : r.start = q.start => r = q
                    /\ IsFiniteSet(import.runs)
  BY DEF Paired
<1>1. /\ Rows(feedRows, Begun, recEnds, minute) /\ Apart(feedRows)
      /\ Runs(import.runs, Begun, recEnds, minute)
      /\ \A r, q \in import.runs : r.start = q.start => r = q
      /\ IsFiniteSet(import.runs)
  BY DEF FeedInv, Paired
<1>2. Rows(feedRows, Begun', recEnds', minute') /\ Runs(import.runs, Begun', recEnds', minute')
  BY <1>1, RowsLater
<1> QED
  BY <1>1, <1>2

LEMMA ImportedLater ==
    ASSUME FeedInv, UNCHANGED <<feedRows, import, waterings>>, Undisturbed' => Undisturbed,
           Undisturbed' => \A w \in Begun' : w \in Begun \/ \A r \in feedRows : r.start = w.start => r.end # w.end
    PROVE  Imported'
<1> SUFFICES ASSUME Undisturbed'
             PROVE  /\ Metered(feedRows, Begun') /\ Exact(feedRows, waterings)
                    /\ \A r \in import.runs : r.liters = Through(r)
                    /\ Exact(import.runs, waterings)
                    /\ import.phase = "read" =>
                          \A w \in waterings : w.end < import.at => \E r \in import.runs : r.start = w.start /\ r.end = w.end
                    /\ ImportComplete'
  BY DEF Imported
<1>1. Undisturbed
  OBVIOUS
<1>2. /\ Metered(feedRows, Begun) /\ Exact(feedRows, waterings)
      /\ \A r \in import.runs : r.liters = Through(r)
      /\ Exact(import.runs, waterings)
      /\ import.phase = "read" =>
            \A w \in waterings : w.end < import.at => \E r \in import.runs : r.start = w.start /\ r.end = w.end
      /\ ImportComplete
  BY <1>1 DEF FeedInv, Imported
<1>3. ImportComplete'
  BY <1>1, <1>2 DEF ImportComplete
<1>4. Metered(feedRows, Begun')
  BY <1>2 DEF Metered
<1> QED
  BY <1>2, <1>3, <1>4

(* A minute: the watering that runs ends later, and its counter climbs.    *)
LEMMA MinuteKept ==
    ASSUME FeedInv, MinuteGoes
    PROVE  FeedInv'
<1>0. /\ minute < LastMinute /\ minute' = minute + 1
      /\ Open => watering.until # minute /\ minute < watering.start + MaxRunMinutes
      /\ UNCHANGED <<registry, watering, waterings, startShown, endShown, recStarts, recEnds,
                     feedRows, import, lostReports, reopened, opener>>
  BY DEF MinuteGoes, Open
<1>1. /\ minute \in Nat /\ LastMinute \in Nat /\ MaxRunMinutes \in Nat /\ minute' \in Nat /\ minute' \in Minutes
      /\ Minutes \subseteq Nat /\ \A m \in Minutes : m \in Nat
  BY <1>0, MinuteFacts, FeedAssumption DEF Minutes
<1>2. /\ Spaced(Begun)
      /\ \A w \in Begun : w.end <= minute /\ w.end <= w.start + MaxRunMinutes
      /\ \A w \in Begun : w \in waterings \/ (Open /\ w.start = watering.start /\ w.end = minute)
      /\ \A w \in waterings : w \in Begun /\ w.start < w.end /\ (Open => w.end < watering.start)
  BY BegunSpaced DEF FeedInv
<1>9. import.at <= minute'
  <2>1. PICK at : at = import.at
    OBVIOUS
  <2>2. at \in Minutes \/ at = Never
    BY <2>1 DEF FeedInv, Recorded
  <2>3. at <= minute
    BY <2>1 DEF FeedInv, Recorded
  <2>4. at \in Int
    BY <1>1, <2>2 DEF Minutes, Never
  <2>5. at <= minute'
    BY <1>0, <1>1, <2>3, <2>4
  <2> QED
    BY <2>1, <2>5
<1>3. FeedShape'
  <2>1. waterings \subseteq [start : Nat, end : Nat]
    BY <1>1 DEF FeedInv, FeedShape
  <2>2. \A w \in waterings : w.start < w.end /\ w.end <= minute' /\ w.end <= w.start + MaxRunMinutes
                             /\ (Open => w.end < watering.start)
    BY <1>0, <1>1, <2>1 DEF FeedInv, FeedShape
  <2>3. Open' <=> Open
    BY <1>0 DEF Open
  <2>4. Open => /\ watering.start \in Nat /\ watering.start <= minute' /\ minute' <= watering.start + MaxRunMinutes
                /\ watering.until # Never => minute' <= watering.until
    <3> SUFFICES ASSUME Open
                 PROVE  /\ watering.start \in Nat /\ watering.start <= minute' /\ minute' <= watering.start + MaxRunMinutes
                        /\ watering.until # Never => minute' <= watering.until
      OBVIOUS
    <3>1. watering.start \in Nat /\ watering.until \in Nat \cup {Never} /\ watering.start <= minute
      BY <1>1 DEF FeedInv, FeedShape, Open
    <3>2. watering.until # Never => minute <= watering.until
      BY DEF FeedInv, FeedShape
    <3> QED
      BY <1>0, <1>1, <3>1, <3>2
  <2> QED
    BY <1>0, <1>1, <2>2, <2>3, <2>4 DEF FeedInv, FeedShape
<1>4. CASE ~Open
  <2>1. Begun' = Begun /\ Begun = waterings
    BY <1>0, <1>4 DEF Begun, Open
  <2>2. Recorded'
    BY <1>0, <1>9, <2>1 DEF FeedInv, Recorded
  <2>3. recVolumes' = recVolumes
    BY <1>4 DEF MinuteGoes, Open
  <2>4. CounterTrue' /\ ClosesPlaced' /\ Timed'
    BY <1>0, <1>4, <2>1, <2>3 DEF FeedInv, CounterTrue, ClosesPlaced, Timed, Open
  <2>5. Losses'
    <3>1. lostReports = 0 => startShown = Never \/ (startShown < endShown /\ endShown <= minute')
      <4>1. endShown \in recEnds \cup {Never} /\ recEnds \subseteq Nat
        BY DEF FeedInv, Recorded
      <4>2. endShown <= minute => endShown <= minute'
        BY <1>0, <1>1, <4>1 DEF Never
      <4> QED
        BY <1>4, <4>2 DEF FeedInv, Losses
    <3> QED
      BY <1>0, <1>4, <2>1, <3>1 DEF FeedInv, Losses, Open
  <2>6. Later(Begun, recEnds, minute, Begun', recEnds', minute')
    <3> SUFFICES ASSUME NEW r, NEW w \in Begun, RowOf(r, w, Begun, recEnds, minute)
                 PROVE  RowOf(r, w, Begun, recEnds, minute')
      BY <1>0, <2>1 DEF Later
    <3>1. r.end \in Nat /\ r.end <= minute
      BY DEF RowOf, IsRow
    <3>2. r.end <= minute'
      BY <1>0, <1>1, <3>1
    <3> QED
      BY <3>2 DEF RowOf
  <2>7. Paired'
    BY <1>0, <2>6, PairedLater
  <2>8. Imported'
    BY <1>0, <2>1, ImportedLater DEF Undisturbed
  <2> QED
    BY <1>3, <2>2, <2>4, <2>5, <2>7, <2>8 DEF FeedInv
<1>5. CASE Open
  <2>1. PICK o : o = [start |-> watering.start, end |-> minute]
    OBVIOUS
  <2>2. PICK p : p = [start |-> watering.start, end |-> minute']
    OBVIOUS
  <2>3. Begun = waterings \cup {o} /\ Begun' = waterings \cup {p} /\ Open'
    BY <1>0, <1>5, <2>1, <2>2 DEF Begun, Open
  <2>4. /\ watering.start \in Nat /\ watering.start <= minute
        /\ watering.until \in Nat \cup {Never} /\ watering.until # minute
        /\ o.start = watering.start /\ o.end = minute /\ p.start = watering.start /\ p.end = minute'
    BY <1>0, <1>1, <1>5, <2>1, <2>2 DEF FeedInv, FeedShape, Open
  <2>5. Recorded'
    <3>1. \A s \in recStarts : \E w \in Begun' : w.start = s
      <4> SUFFICES ASSUME NEW s \in recStarts PROVE \E w \in Begun' : w.start = s
        OBVIOUS
      <4>1. PICK w \in Begun : w.start = s
        BY DEF FeedInv, Recorded
      <4>2. w \in waterings \/ w = o
        BY <2>3
      <4> QED
        BY <2>3, <2>4, <4>1, <4>2
    <3> QED
      BY <1>0, <1>9, <3>1 DEF FeedInv, Recorded
  <2>6. CounterTrue'
    <3>1. recVolumes' = [u \in DOMAIN recVolumes \cup {minute'} |->
                            IF u = minute' THEN LitersPerMinute * (minute' - watering.start) ELSE recVolumes[u]]
      BY <1>5 DEF MinuteGoes, Open, Counted
    <3>2. ASSUME NEW w \in Begun', NEW t \in w.start..w.end
          PROVE  t \in DOMAIN recVolumes' /\ recVolumes'[t] = LitersPerMinute * (t - w.start)
      <4>1. CASE w \in waterings
        <5>1. w.start \in Nat /\ w.end \in Nat /\ w.end <= minute /\ w \in Begun
          BY <1>2, <4>1 DEF Spaced
        <5>2. t # minute'
          BY <1>0, <1>1, <3>2, <5>1
        <5>3. t \in DOMAIN recVolumes /\ recVolumes[t] = LitersPerMinute * (t - w.start)
          BY <3>2, <5>1 DEF FeedInv, CounterTrue
        <5> QED
          BY <3>1, <5>2, <5>3
      <4>2. CASE w = p
        <5>1. CASE t = minute'
          BY <2>4, <3>1, <4>2, <5>1
        <5>2. CASE t # minute'
          <6>1. t \in o.start..o.end /\ o \in Begun
            BY <1>0, <1>1, <2>3, <2>4, <3>2, <4>2, <5>2
          <6>2. t \in DOMAIN recVolumes /\ recVolumes[t] = LitersPerMinute * (t - o.start)
            BY <6>1 DEF FeedInv, CounterTrue
          <6> QED
            BY <2>4, <3>1, <4>2, <5>2, <6>2
        <5> QED
          BY <5>1, <5>2
      <4> QED
        BY <2>3, <4>1, <4>2
    <3>3. ASSUME NEW t \in DOMAIN recVolumes' PROVE \E w \in Begun' : t \in w.start..w.end
      <4>1. CASE t = minute'
        <5>1. t \in p.start..p.end
          BY <1>0, <1>1, <2>4, <4>1
        <5> QED
          BY <2>3, <5>1
      <4>2. CASE t \in DOMAIN recVolumes
        <5>1. PICK w \in Begun : t \in w.start..w.end
          BY <4>2 DEF FeedInv, CounterTrue
        <5>2. CASE w = o
          <6>1. t \in p.start..p.end
            BY <1>0, <1>1, <2>4, <5>1, <5>2
          <6> QED
            BY <2>3, <6>1
        <5>3. CASE w \in waterings
          BY <2>3, <5>1, <5>3
        <5> QED
          BY <2>3, <5>2, <5>3
      <4> QED
        BY <3>1, <3>3, <4>1, <4>2
    <3>4. recVolumes' = [t \in DOMAIN recVolumes' |-> recVolumes'[t]]
      BY <3>1
    <3> QED
      BY <3>2, <3>3, <3>4 DEF CounterTrue
  <2>7. ClosesPlaced' /\ Timed'
    BY <1>0, <2>3 DEF FeedInv, ClosesPlaced, Timed, Open
  <2>8. Losses'
    <3>1. \A w \in Begun' : \E x \in Begun : x.start = w.start
      <4> SUFFICES ASSUME NEW w \in Begun' PROVE \E x \in Begun : x.start = w.start
        OBVIOUS
      <4>1. w \in waterings \/ w = p
        BY <2>3
      <4>2. o \in Begun
        BY <2>3
      <4> QED
        BY <2>3, <2>4, <4>1, <4>2
    <3>2. lostReports <= 1 => \A w \in Begun', x \in waterings : w.start \in recStarts \/ x.end \in recEnds
      <4>1. lostReports <= 1 => \A w \in Begun, x \in waterings : w.start \in recStarts \/ x.end \in recEnds
        BY DEF FeedInv, Losses
      <4> QED
        BY <3>1, <4>1
    <3>3. lostReports = 0 => \A w \in Begun' : w.start \in recStarts
      <4>1. lostReports = 0 => \A w \in Begun : w.start \in recStarts
        BY DEF FeedInv, Losses
      <4> QED
        BY <3>1, <4>1
    <3> QED
      BY <1>0, <1>5, <2>3, <3>2, <3>3 DEF FeedInv, Losses, Open
  <2>9. ~reopened => Later(Begun, recEnds, minute, Begun', recEnds', minute')
    <3> SUFFICES ASSUME ~reopened, NEW r, NEW w \in Begun, RowOf(r, w, Begun, recEnds, minute)
                 PROVE  w \in Begun' /\ RowOf(r, w, Begun', recEnds, minute')
      BY <1>0 DEF Later
    <3>1. /\ r.start \in Nat /\ r.end \in Nat /\ w.start \in Nat /\ w.end \in Nat
          /\ w.start <= r.start /\ r.start < w.end /\ w.end <= r.end /\ r.start < r.end
      BY <1>2, RowFacts
    <3>2. r.end <= minute /\ r.end \in recEnds
      BY DEF RowOf
    <3>3. w # o
      <4> SUFFICES ASSUME w = o PROVE FALSE
        OBVIOUS
      <4>1. r.end = minute /\ r.end > watering.start
        BY <1>1, <2>4, <3>1, <3>2
      <4>2. r.end <= watering.start \/ r.end = watering.until
        BY <1>5, <3>2 DEF FeedInv, ClosesPlaced
      <4> QED
        BY <1>1, <2>4, <4>1, <4>2
    <3>4. w \in waterings
      BY <2>3, <3>3
    <3>5. o.end <= w.start \/ r.end <= o.start
      BY <2>3, <3>3 DEF RowOf
    <3>6. r.end <= p.start
      <4>1. w.end < watering.start
        BY <1>2, <1>5, <3>4
      <4> QED
        BY <1>1, <2>4, <3>1, <3>5, <4>1
    <3>7. \A x \in Begun' : x = w \/ x.end <= w.start \/ r.end <= x.start
      <4>1. \A x \in waterings : x = w \/ x.end <= w.start \/ r.end <= x.start
        BY <1>2 DEF RowOf
      <4> QED
        BY <2>3, <3>6, <4>1
    <3>8. r.end <= minute'
      BY <1>0, <1>1, <3>1, <3>2
    <3>9. RowOf(r, w, Begun', recEnds, minute')
      BY <3>7, <3>8 DEF RowOf
    <3> QED
      BY <2>3, <3>4, <3>9
  <2>10. Paired'
    BY <1>0, <2>9, PairedLater
  <2>11. Imported'
    <3>1. ASSUME Undisturbed, NEW w \in Begun', w \notin Begun, NEW r \in feedRows, r.start = w.start PROVE r.end # w.end
      <4>1. w = p
        BY <2>3, <3>1
      <4>2. Rows(feedRows, Begun, recEnds, minute)
        BY <3>1 DEF FeedInv, Paired, Undisturbed
      <4>3. r.end \in Nat /\ r.end <= minute
        BY <4>2 DEF Rows, RowOf, IsRow
      <4> QED
        BY <1>0, <1>1, <2>4, <4>1, <4>3
    <3>2. UNCHANGED <<feedRows, import, waterings>> /\ (Undisturbed' => Undisturbed)
      BY <1>0 DEF Undisturbed
    <3> QED
      BY <3>1, <3>2, ImportedLater
  <2> QED
    BY <1>3, <2>5, <2>6, <2>7, <2>8, <2>10, <2>11 DEF FeedInv
<1> QED
  BY <1>4, <1>5

(* An opening: the rows stay, and no close is ahead but its own.           *)
LEMMA OpenKept ==
    ASSUME FeedInv, NEW slot, NEW until \in Nat \cup {Never}, until # Never => minute <= until,
           NEW startLost \in BOOLEAN, NEW endLost \in BOOLEAN, until = Never => ~endLost,
           OpenValve(slot, until, startLost, endLost), Timed'
    PROVE  FeedInv'
<1>0. /\ ~Open /\ \A r \in waterings : r.end < minute
      /\ watering' = [start |-> minute, until |-> until]
      /\ recVolumes' = [u \in DOMAIN recVolumes \cup {minute} |-> IF u = minute THEN 0 ELSE recVolumes[u]]
      /\ IF startLost THEN UNCHANGED <<startShown, recStarts>>
         ELSE startShown' = minute /\ recStarts' = recStarts \cup {minute}
      /\ IF endLost \/ until = Never THEN UNCHANGED <<endShown, recEnds>>
         ELSE endShown' = until /\ recEnds' = recEnds \cup {until}
      /\ lostReports' = lostReports + ((IF startLost THEN 1 ELSE 0) + (IF endLost THEN 1 ELSE 0))
      /\ reopened' = (reopened \/ \E e \in recEnds : e > minute)
      /\ UNCHANGED <<minute, registry, waterings, feedRows, import>>
  BY DEF OpenValve, Open, Counted, Reports
<1>1. /\ minute \in Nat /\ minute \in Minutes /\ Minutes \subseteq Nat
      /\ lostReports \in Nat /\ recEnds \subseteq Nat /\ MaxRunMinutes \in Nat
  BY MinuteFacts, FeedAssumption DEF FeedInv, Recorded
<1>2. PICK o : o = [start |-> minute, end |-> minute]
  OBVIOUS
<1>3. o.start = minute /\ o.end = minute /\ watering'.start = minute /\ watering'.until = until
  BY <1>0, <1>2
<1>4. watering' # Closed
  <2>1. Closed.start = Never /\ Never \notin Nat
    BY DEF Closed, Never
  <2> QED
    BY <1>1, <1>3, <2>1
<1>5. Begun = waterings /\ Begun' = waterings \cup {o} /\ Open'
  BY <1>0, <1>2, <1>3, <1>4 DEF Begun, Open
<1>6. /\ Spaced(waterings)
      /\ \A w \in waterings : w.start \in Nat /\ w.end \in Nat /\ w.start < w.end /\ w.end < minute
  <2>1. Spaced(Begun) /\ \A w \in waterings : w.start < w.end
    BY BegunSpaced DEF FeedInv
  <2> QED
    BY <1>0, <1>5, <2>1 DEF Spaced
<1>7. recStarts \subseteq recStarts' /\ recEnds \subseteq recEnds' /\ recEnds' \subseteq recEnds \cup {until}
  BY <1>0
<1>8. /\ startLost /\ endLost => lostReports' >= 2
      /\ startLost => lostReports' >= lostReports + 1
      /\ endLost => lostReports' >= lostReports + 1
      /\ lostReports' >= lostReports /\ lostReports' \in Nat
  BY <1>0, <1>1
<1>9. ~reopened' => ~reopened /\ \A e \in recEnds : e <= minute
  <2> SUFFICES ASSUME ~reopened' PROVE ~reopened /\ \A e \in recEnds : e <= minute
    OBVIOUS
  <2>1. ~(reopened \/ \E e \in recEnds : e > minute)
    BY <1>0
  <2>2. ~reopened /\ \A e \in recEnds : ~(e > minute)
    BY <2>1
  <2> QED
    BY <1>1, <2>2
<1>10. FeedShape'
  <2>1. \A w \in waterings : w.start < w.end /\ w.end <= minute /\ w.end <= w.start + MaxRunMinutes /\ w.end < minute
    BY <1>1, <1>6 DEF FeedInv, FeedShape
  <2>2. watering' \in [start : Minutes, until : Nat \cup {Never}]
    BY <1>0, <1>1
  <2>3. minute <= minute /\ minute <= minute + MaxRunMinutes
    BY <1>1
  <2> QED
    BY <1>0, <1>3, <2>1, <2>2, <2>3 DEF FeedInv, FeedShape
<1>11. Recorded'
  <2>1. \A s \in recStarts' : \E w \in Begun' : w.start = s
    <3>1. \A s \in recStarts : \E w \in waterings : w.start = s
      BY <1>5 DEF FeedInv, Recorded
    <3>2. \A s \in recStarts' : s \in recStarts \/ s = minute
      BY <1>0
    <3> QED
      BY <1>3, <1>5, <3>1, <3>2
  <2>2. recEnds' \subseteq Nat
    <3>1. CASE endLost \/ until = Never
      BY <1>0, <1>1, <3>1
    <3>2. CASE ~(endLost \/ until = Never)
      BY <1>0, <1>1, <3>2
    <3> QED
      BY <3>1, <3>2
  <2>3. startShown' \in Minutes \cup {Never}
    BY <1>0, <1>1 DEF FeedInv, Recorded
  <2>4. endShown' \in recEnds' \cup {Never}
    BY <1>0 DEF FeedInv, Recorded
  <2>5. reopened' \in BOOLEAN
    BY <1>0 DEF FeedInv, Recorded
  <2> QED
    BY <1>0, <1>8, <2>1, <2>2, <2>3, <2>4, <2>5 DEF FeedInv, Recorded
<1>12. CounterTrue'
  <2>1. ASSUME NEW w \in Begun', NEW t \in w.start..w.end
        PROVE  t \in DOMAIN recVolumes' /\ recVolumes'[t] = LitersPerMinute * (t - w.start)
    <3>1. CASE w \in waterings
      <4>1. t # minute
        BY <1>1, <1>6, <2>1, <3>1
      <4>2. t \in DOMAIN recVolumes /\ recVolumes[t] = LitersPerMinute * (t - w.start)
        BY <1>5, <2>1, <3>1 DEF FeedInv, CounterTrue
      <4> QED
        BY <1>0, <4>1, <4>2
    <3>2. CASE w = o
      <4>1. t = minute
        BY <1>1, <1>3, <2>1, <3>2
      <4>2. LitersPerMinute * (t - w.start) = 0
        BY <1>1, <1>3, <3>2, <4>1 DEF LitersPerMinute
      <4> QED
        BY <1>0, <4>1, <4>2
    <3> QED
      BY <1>5, <3>1, <3>2
  <2>2. ASSUME NEW t \in DOMAIN recVolumes' PROVE \E w \in Begun' : t \in w.start..w.end
    <3>1. CASE t = minute
      <4>1. t \in o.start..o.end
        BY <1>1, <1>3, <3>1
      <4> QED
        BY <1>5, <4>1
    <3>2. CASE t \in DOMAIN recVolumes
      BY <1>5, <3>2 DEF FeedInv, CounterTrue
    <3> QED
      BY <1>0, <2>2, <3>1, <3>2
  <2>3. recVolumes' = [t \in DOMAIN recVolumes' |-> recVolumes'[t]]
    BY <1>0
  <2> QED
    BY <2>1, <2>2, <2>3 DEF CounterTrue
<1>13. ClosesPlaced'
  <2> SUFFICES ASSUME ~reopened', NEW e \in recEnds'
               PROVE  /\ \A w \in waterings : e <= w.start \/ w.end <= e
                      /\ e <= minute \/ e = until
    BY <1>0, <1>3 DEF ClosesPlaced
  <2>1. CASE e \in recEnds
    BY <1>9, <2>1 DEF FeedInv, ClosesPlaced
  <2>2. CASE e = until /\ until # Never
    <3>1. \A w \in waterings : w.end <= until
      BY <1>1, <1>6, <2>2
    <3> QED
      BY <2>2, <3>1
  <2> QED
    BY <1>0, <2>1, <2>2
<1>14. Losses'
  <2>1. ASSUME lostReports' <= 1
        PROVE  \A w \in Begun', x \in waterings : w.start \in recStarts' \/ x.end \in recEnds'
    <3> SUFFICES ASSUME NEW w \in Begun', NEW x \in waterings PROVE w.start \in recStarts' \/ x.end \in recEnds'
      OBVIOUS
    <3>1. CASE w \in waterings
      <4>1. lostReports <= 1
        BY <1>1, <1>8, <2>1
      <4> QED
        BY <1>5, <1>7, <3>1, <4>1 DEF FeedInv, Losses
    <3>2. CASE w = o
      <4>1. CASE startLost
        <5>1. lostReports = 0
          BY <1>1, <1>8, <2>1, <4>1
        <5> QED
          BY <1>7, <5>1 DEF FeedInv, Losses
      <4>2. CASE ~startLost
        BY <1>0, <1>3, <3>2, <4>2
      <4> QED
        BY <4>1, <4>2
    <3> QED
      BY <1>5, <3>1, <3>2
  <2>2. ASSUME lostReports' = 0
        PROVE  /\ \A w \in Begun' : w.start \in recStarts'
               /\ \A w \in waterings : w.end \in recEnds'
               /\ startShown' = minute
               /\ until # Never => endShown' = until
               /\ until = Never /\ ~reopened' => endShown' <= startShown'
    <3>1. lostReports = 0 /\ ~startLost /\ ~endLost
      BY <1>1, <1>8, <2>2
    <3>2. startShown' = minute /\ minute \in recStarts'
      BY <1>0, <3>1
    <3>3. (\A w \in waterings : w.start \in recStarts) /\ (\A w \in waterings : w.end \in recEnds)
      BY <1>5, <3>1 DEF FeedInv, Losses
    <3>4. \A w \in Begun' : w.start \in recStarts'
      BY <1>3, <1>5, <1>7, <3>2, <3>3
    <3>5. until # Never => endShown' = until
      BY <1>0, <3>1
    <3>6. ASSUME until = Never, ~reopened' PROVE endShown' <= minute
      <4>1. endShown' = endShown
        BY <1>0, <3>6
      <4>2. endShown \in recEnds \/ endShown = Never
        BY DEF FeedInv, Recorded
      <4>3. Never <= minute
        BY <1>1 DEF Never
      <4> QED
        BY <1>9, <3>6, <4>1, <4>2, <4>3
    <3> QED
      BY <1>7, <3>2, <3>3, <3>4, <3>5, <3>6
  <2> QED
    BY <1>0, <1>3, <1>5, <2>1, <2>2 DEF Losses
<1>15. (lostReports <= 1 /\ ~reopened)' => lostReports <= 1 /\ ~reopened
  BY <1>1, <1>8, <1>9
<1>16. Later(Begun, recEnds, minute, Begun', recEnds', minute)
  <2> SUFFICES ASSUME NEW r, NEW w \in Begun, RowOf(r, w, Begun, recEnds, minute)
               PROVE  w \in Begun' /\ RowOf(r, w, Begun', recEnds', minute)
    BY DEF Later
  <2>1. r.end <= o.start
    BY <1>3 DEF RowOf
  <2> QED
    BY <1>5, <1>7, <2>1 DEF RowOf
<1>17. Paired'
  BY <1>0, <1>15, <1>16, PairedLater
<1>18. Imported'
  <2>1. Undisturbed' => Undisturbed
    BY <1>1, <1>8, <1>9 DEF Undisturbed
  <2>2. ASSUME Undisturbed', NEW r \in feedRows, r.start = minute PROVE r.end # minute
    <3>1. Rows(feedRows, Begun, recEnds, minute)
      BY <2>1, <2>2 DEF FeedInv, Paired, Undisturbed
    <3>2. PICK w \in Begun : RowOf(r, w, Begun, recEnds, minute)
      BY <3>1 DEF Rows
    <3>3. r.start < r.end /\ r.start \in Nat /\ r.end \in Nat
      BY <1>5, <1>6, <3>2, RowFacts
    <3> QED
      BY <2>2, <3>3
  <2>3. \A w \in Begun' : w \in Begun \/ (w.start = minute /\ w.end = minute)
    BY <1>3, <1>5
  <2> QED
    BY <1>0, <2>1, <2>2, <2>3, ImportedLater
<1> QED
  BY <1>10, <1>11, <1>12, <1>13, <1>14, <1>17, <1>18 DEF FeedInv

(* Whoever opens it.                                                       *)
LEMMA OpeningsKept ==
    ASSUME FeedInv, OpenByTimer \/ OpenByHand
    PROVE  FeedInv'
<1>1. minute \in Nat /\ registry \in Registries
  BY MinuteFacts DEF FeedInv, FeedShape
<1>2. CASE OpenByTimer
  <2>1. PICK x \in registry.slots :
            /\ x.enabled /\ x.today /\ x.minute = minute
            /\ x.mode = "duration" /\ x.value \in 1..MaxRunMinutes
            /\ \E startLost, endLost \in BOOLEAN :
                  OpenValve(x.slot, minute + x.value, startLost, endLost)
    BY <1>2 DEF OpenByTimer
  <2>2. PICK startLost \in BOOLEAN, endLost \in BOOLEAN :
              OpenValve(x.slot, minute + x.value, startLost, endLost)
    BY <2>1
  <2>3. x.value \in Nat
    BY <1>1, FeedAssumption
  <2>4. PICK until : until = minute + x.value
    OBVIOUS
  <2>5. until \in Nat \cup {Never} /\ until # Never /\ minute <= until
    BY <1>1, <2>3, <2>4 DEF Never
  <2>6. watering' = [start |-> minute, until |-> until] /\ registry' = registry /\ opener' = x.slot
    BY <2>2, <2>4 DEF OpenValve
  <2>7. Timed'
    BY <2>1, <2>4, <2>6 DEF Timed
  <2> QED
    BY <2>2, <2>4, <2>5, <2>7, OpenKept
<1>3. CASE OpenByHand
  <2>1. PICK startLost \in BOOLEAN : OpenValve(ByHand, Never, startLost, FALSE)
    BY <1>3 DEF OpenByHand
  <2>2. watering' = [start |-> minute, until |-> Never]
    BY <2>1 DEF OpenValve
  <2>3. Timed'
    BY <2>2 DEF Timed
  <2> QED
    BY <2>1, <2>3, OpenKept
<1> QED
  BY <1>2, <1>3

(* The row of a watering that ends now is added, or rewaters one of them.  *)
LEMMA Added ==
    ASSUME NEW table, \A q \in table : IsRow(q), NEW new, new.start < new.end,
           \A q \in table : q.start = new.start => q.end = new.end
    PROVE  LET t == AddRow(table, new)
           IN  /\ \A x \in t : \/ x \in table \/ x = new
                               \/ \E q \in table : /\ x.start = q.start /\ x.end = q.end /\ q.end = new.end
                                                   /\ x.liters \in {q.liters, new.liters}
               /\ \A q \in table : q.end = new.end \/ q \in t
<1> DEFINE sameEnd == {r \in table : r.end = new.end}
           sameStart == {r \in table : r.start = new.start}
<1>0. PICK t : t = AddRow(table, new)
  OBVIOUS
<1>1. CASE new.end <= new.start
  BY <1>0, <1>1 DEF AddRow
<1>2. CASE ~(new.end <= new.start) /\ sameEnd # {}
  <2>1. t = (table \ sameEnd) \cup {Watered(r, new.liters) : r \in sameEnd}
    BY <1>0, <1>2 DEF AddRow
  <2>2. ASSUME NEW q \in sameEnd
        PROVE  LET x == Watered(q, new.liters) IN x.start = q.start /\ x.end = q.end /\ x.liters \in {q.liters, new.liters}
    BY WateredRow
  <2>3. ASSUME NEW x \in t
        PROVE  \/ x \in table
               \/ \E q \in table : /\ x.start = q.start /\ x.end = q.end /\ q.end = new.end
                                   /\ x.liters \in {q.liters, new.liters}
    BY <2>1, <2>2, <2>3
  <2>4. \A q \in table : q.end = new.end \/ q \in t
    BY <2>1
  <2> QED
    BY <1>0, <2>3, <2>4
<1>3. CASE ~(new.end <= new.start) /\ sameEnd = {}
  <2>1. sameStart = {}
    BY <1>3
  <2>2. t = table \cup {new}
    BY <1>0, <1>3, <2>1 DEF AddRow
  <2> QED
    BY <1>0, <2>2
<1> QED
  BY <1>1, <1>2, <1>3

(* What the recorder holds of a watering that ends now.                    *)
LEMMA CloseRecorded ==
    ASSUME FeedInv, NEW lost \in BOOLEAN, CloseValve(lost)
    PROVE  /\ recEnds \subseteq recEnds' /\ recEnds' \subseteq recEnds \cup {minute} /\ recEnds' \subseteq Nat
           /\ endShown' \in recEnds' \cup {Never}
           /\ ~lost => minute \in recEnds' /\ endShown' = minute
<1>1. minute \in Nat
  BY MinuteFacts
<1>2. recEnds \subseteq Nat /\ endShown \in recEnds \cup {Never}
  BY DEF FeedInv, Recorded
<1>3. IF lost \/ endShown = minute THEN UNCHANGED <<endShown, recEnds>>
      ELSE endShown' = minute /\ recEnds' = recEnds \cup {minute}
  BY DEF CloseValve
<1>4. CASE lost \/ endShown = minute
  <2>1. endShown' = endShown /\ recEnds' = recEnds
    BY <1>3, <1>4
  <2>2. endShown = minute => minute \in recEnds
    BY <1>1, <1>2 DEF Never
  <2> QED
    BY <1>2, <1>4, <2>1, <2>2
<1>5. CASE ~(lost \/ endShown = minute)
  <2>1. endShown' = minute /\ recEnds' = recEnds \cup {minute}
    BY <1>3, <1>5
  <2> QED
    BY <1>1, <1>2, <2>1
<1> QED
  BY <1>4, <1>5

(* Only the open watering reaches up to now.                               *)
LEMMA EndsNow ==
    ASSUME FeedInv, Open
    PROVE  /\ [start |-> watering.start, end |-> minute] \in Begun
           /\ \A w \in Begun : w.end = minute => w = [start |-> watering.start, end |-> minute]
<1>1. PICK o : o = [start |-> watering.start, end |-> minute]
  OBVIOUS
<1>2. Begun = waterings \cup {o} /\ o.end = minute
  BY <1>1 DEF Begun, Open
<1>3. Spaced(Begun)
  BY BegunSpaced DEF FeedInv
<1>4. ASSUME NEW w \in Begun, w.end = minute PROVE w = o
  <2>1. w.start \in Nat /\ w.end \in Nat /\ w.start <= w.end /\ o.start \in Nat /\ o.end \in Nat /\ o.start <= o.end
    BY <1>2, <1>3 DEF Spaced
  <2>2. w = o \/ w.end < o.start \/ o.end < w.start
    BY <1>2, <1>3 DEF Spaced
  <2> QED
    BY <1>2, <1>4, <2>1, <2>2
<1> QED
  BY <1>1, <1>2, <1>4

(* The row the store adds, as the valve closes.                            *)
LEMMA RowAdded ==
    ASSUME FeedInv, Open, minute > watering.start, NEW ends, recEnds \subseteq ends, minute \in ends,
           lostReports <= 1, ~reopened,
           NEW s \in {watering.start, watering.start + 1}, NEW liters,
           NEW new, new = [start |-> s, end |-> minute, liters |-> liters], new.start < new.end
    PROVE  /\ RowOf(new, [start |-> watering.start, end |-> minute], Begun, ends, minute)
           /\ Rows(feedRows, Begun, ends, minute)
           /\ \A q \in feedRows : Overlap(q, new) => q.end = new.end
           /\ \A q \in feedRows : q.start = new.start => q.end = new.end
<1>1. minute \in Nat
  BY MinuteFacts
<1>2. PICK o : o = [start |-> watering.start, end |-> minute]
  OBVIOUS
<1>3. Spaced(Begun) /\ o \in Begun /\ o.start = watering.start /\ o.end = minute
  BY <1>2, EndsNow, BegunSpaced DEF FeedInv
<1>4. o.start \in Nat
  BY <1>3 DEF Spaced
<1>5. new.start = s /\ new.end = minute /\ s \in Nat /\ s < minute /\ o.start <= s /\ s <= o.start + 1
  BY <1>1, <1>3, <1>4
<1>6. IsRow(new)
  BY <1>1, <1>5 DEF IsRow
<1>7. \A x \in Begun : x = o \/ x.end <= o.start \/ minute <= x.start
  BY <1>3 DEF Spaced
<1>8. RowOf(new, o, Begun, ends, minute)
  BY <1>1, <1>3, <1>5, <1>6, <1>7 DEF RowOf
<1>9. Rows(feedRows, Begun, ends, minute)
  <2>1. Rows(feedRows, Begun, recEnds, minute)
    BY DEF FeedInv, Paired
  <2> QED
    BY <2>1 DEF Rows, RowOf
<1>10. ASSUME NEW q \in feedRows, Overlap(q, new) PROVE q.end = new.end
  <2>1. PICK w \in Begun : RowOf(q, w, Begun, ends, minute)
    BY <1>9 DEF Rows
  <2>2. w = o
    BY <1>3, <1>8, <1>10, <2>1, OneWatering
  <2>3. q.end \in Nat /\ o.end <= q.end
    BY <1>3, <2>1, <2>2, RowFacts
  <2>4. q.end <= minute
    BY <2>1 DEF RowOf
  <2> QED
    BY <1>1, <1>3, <1>5, <2>3, <2>4
<1>11. ASSUME NEW q \in feedRows, q.start = new.start PROVE q.end = new.end
  <2>1. PICK w \in Begun : RowOf(q, w, Begun, ends, minute)
    BY <1>9 DEF Rows
  <2>2. q.start < q.end /\ q.end \in Nat /\ q.start \in Nat
    BY <1>3, <2>1, RowFacts
  <2>3. Overlap(q, new)
    BY <1>1, <1>5, <1>11, <2>2 DEF Overlap
  <2> QED
    BY <1>10, <2>3
<1> QED
  BY <1>2, <1>8, <1>9, <1>10, <1>11

(* A close: of the three parts about rows only the open watering's change. *)
LEMMA CloseKept ==
    ASSUME FeedInv, NEW lost \in BOOLEAN, CloseValve(lost)
    PROVE  FeedInv'
<1>0. /\ Open /\ minute > watering.start
      /\ watering' = Closed /\ waterings' = waterings \cup {[start |-> watering.start, end |-> minute]}
      /\ lostReports' = lostReports + (IF lost THEN 1 ELSE 0)
      /\ UNCHANGED <<minute, registry, startShown, recStarts, recVolumes, import, reopened, opener>>
  BY DEF CloseValve, Open, Reports
<1>1. /\ minute \in Nat /\ minute \in Minutes /\ Minutes \subseteq Nat
      /\ lostReports \in Nat /\ recEnds \subseteq Nat
  BY MinuteFacts DEF FeedInv, Recorded
<1>2. PICK o : o = [start |-> watering.start, end |-> minute]
  OBVIOUS
<1>3. o.start = watering.start /\ o.end = minute
  BY <1>2
<1>4. /\ Begun = waterings \cup {o} /\ waterings' = waterings \cup {o} /\ Begun' = Begun /\ ~Open'
      /\ watering'.until = Never
  BY <1>0, <1>2 DEF Begun, Open, Closed
<1>5. /\ Spaced(Begun)
      /\ \A w \in waterings : w.start \in Nat /\ w.end \in Nat /\ w.start < w.end /\ w.end < watering.start
      /\ watering.start \in Nat /\ watering.start \in Minutes
      /\ minute <= watering.start + MaxRunMinutes /\ (watering.until # Never => minute <= watering.until)
  <2>1. Spaced(Begun) /\ \A w \in waterings : w.start < w.end
    BY BegunSpaced DEF FeedInv
  <2>2. watering.start \in Minutes
    BY <1>0 DEF FeedInv, FeedShape, Open
  <2> QED
    BY <1>0, <1>1, <1>4, <2>1, <2>2 DEF Spaced, FeedInv, FeedShape
<1>6. /\ recEnds \subseteq recEnds' /\ recEnds' \subseteq recEnds \cup {minute} /\ recEnds' \subseteq Nat
      /\ endShown' \in recEnds' \cup {Never}
      /\ ~lost => minute \in recEnds' /\ endShown' = minute
  BY CloseRecorded
<1>7. /\ lost => lostReports' = lostReports + 1
      /\ ~lost => lostReports' = lostReports
      /\ lostReports' \in Nat
  BY <1>0, <1>1
<1>8. FeedShape'
  <2>1. \A w \in waterings' : /\ w.start < w.end /\ w.end <= minute /\ w.end <= w.start + MaxRunMinutes
    BY <1>0, <1>1, <1>3, <1>4, <1>5 DEF FeedInv, FeedShape
  <2>2. waterings' \subseteq [start : Minutes, end : Minutes]
    BY <1>1, <1>2, <1>4, <1>5 DEF FeedInv, FeedShape
  <2>3. \A w, x \in waterings' : w = x \/ w.end < x.start \/ x.end < w.start
    BY <1>4, <1>5 DEF Spaced
  <2> QED
    BY <1>0, <1>1, <1>4, <2>1, <2>2, <2>3 DEF FeedInv, FeedShape
<1>9. Recorded'
  BY <1>0, <1>4, <1>6, <1>7 DEF FeedInv, Recorded
<1>10. CounterTrue' /\ Timed'
  BY <1>0, <1>4 DEF FeedInv, CounterTrue, Timed
<1>11. ClosesPlaced'
  <2> SUFFICES ASSUME ~reopened, NEW e \in recEnds', NEW w \in waterings' PROVE e <= w.start \/ w.end <= e
    BY <1>0, <1>4 DEF ClosesPlaced
  <2>1. CASE e = minute
    <3>1. \A x \in waterings : x.end <= minute
      BY DEF FeedInv, FeedShape
    <3> QED
      BY <1>1, <1>3, <1>4, <2>1, <3>1
  <2>2. CASE e \in recEnds
    <3>1. /\ \A x \in waterings : e <= x.start \/ x.end <= e
          /\ e <= watering.start \/ e = watering.until
      BY <1>0, <2>2 DEF FeedInv, ClosesPlaced
    <3>2. CASE w \in waterings
      BY <3>1, <3>2
    <3>3. CASE w = o
      <4>1. e # Never
        BY <1>1, <2>2 DEF Never
      <4> QED
        BY <1>3, <1>5, <3>1, <3>3, <4>1
    <3> QED
      BY <1>4, <3>2, <3>3
  <2> QED
    BY <1>6, <2>1, <2>2
<1>12. Losses'
  <2>1. ASSUME lostReports' <= 1, NEW w \in Begun, NEW x \in waterings' PROVE w.start \in recStarts \/ x.end \in recEnds'
    <3>1. lostReports <= 1
      BY <1>1, <1>7, <2>1
    <3>2. CASE x \in waterings
      BY <1>6, <3>1, <3>2 DEF FeedInv, Losses
    <3>3. CASE x = o
      <4>1. CASE lost
        <5>1. lostReports = 0
          BY <1>1, <1>7, <2>1, <4>1
        <5> QED
          BY <5>1 DEF FeedInv, Losses
      <4>2. CASE ~lost
        BY <1>3, <1>6, <3>3, <4>2
      <4> QED
        BY <4>1, <4>2
    <3> QED
      BY <1>4, <2>1, <3>2, <3>3
  <2>2. ASSUME lostReports' = 0
        PROVE  /\ \A w \in Begun : w.start \in recStarts
               /\ \A w \in waterings' : w.end \in recEnds'
               /\ startShown = Never \/ (startShown < endShown' /\ endShown' <= minute)
    <3>1. lostReports = 0 /\ ~lost
      BY <1>1, <1>7, <2>2
    <3>2. /\ \A w \in Begun : w.start \in recStarts
          /\ \A w \in waterings : w.end \in recEnds
          /\ startShown = watering.start
      BY <1>0, <3>1 DEF FeedInv, Losses
    <3>3. minute \in recEnds' /\ endShown' = minute
      BY <1>6, <3>1
    <3> QED
      BY <1>0, <1>1, <1>3, <1>4, <1>5, <1>6, <3>2, <3>3
  <2> QED
    BY <1>0, <1>4, <2>1, <2>2 DEF Losses
<1>13. \/ feedRows' = feedRows
       \/ /\ ~lost
          /\ \E s \in {watering.start, watering.start + 1},
                liters \in {Through(o), Through(o) + LitersPerMinute, Never} :
                   feedRows' = AddRow(feedRows, [start |-> s, end |-> minute, liters |-> liters])
  <2>1. \/ UNCHANGED feedRows
        \/ \E s \in {watering.start} \cup (IF watering.until = Never THEN {watering.start + 1} ELSE {}),
              liters \in {LitersPerMinute * (minute - watering.start),
                          LitersPerMinute * (minute - watering.start) + LitersPerMinute, Never} :
             ~lost /\ feedRows' = AddRow(feedRows, [start |-> s, end |-> minute, liters |-> liters])
    BY DEF CloseValve
  <2>2. Through(o) = LitersPerMinute * (minute - watering.start)
    BY <1>3 DEF Through
  <2>3. PICK l : l = Through(o)
    OBVIOUS
  <2>4. CASE UNCHANGED feedRows
    BY <2>4
  <2>5. CASE \E s \in {watering.start} \cup (IF watering.until = Never THEN {watering.start + 1} ELSE {}),
                liters \in {l, l + LitersPerMinute, Never} :
             ~lost /\ feedRows' = AddRow(feedRows, [start |-> s, end |-> minute, liters |-> liters])
    <3>1. PICK s \in {watering.start} \cup (IF watering.until = Never THEN {watering.start + 1} ELSE {}),
               liters \in {l, l + LitersPerMinute, Never} :
             ~lost /\ feedRows' = AddRow(feedRows, [start |-> s, end |-> minute, liters |-> liters])
      BY <2>5
    <3>2. s \in {watering.start, watering.start + 1}
      BY <3>1
    <3> QED
      BY <2>3, <3>1, <3>2
  <2> QED
    BY <2>1, <2>2, <2>3, <2>4, <2>5
<1>14. ASSUME ~reopened, lostReports <= 1
       PROVE  /\ Rows(feedRows', Begun, recEnds', minute) /\ Apart(feedRows')
              /\ Runs(import.runs, Begun, recEnds', minute)
              /\ Undisturbed' => /\ Metered(feedRows', Begun) /\ Exact(feedRows', Begun)
                                 /\ \A q \in feedRows : q.end = minute \/ q \in feedRows'
  <2>1. /\ Rows(feedRows, Begun, recEnds, minute) /\ Apart(feedRows)
        /\ Runs(import.runs, Begun, recEnds, minute)
    BY <1>14 DEF FeedInv, Paired
  <2>2. Rows(feedRows, Begun, recEnds', minute) /\ Runs(import.runs, Begun, recEnds', minute)
    BY <1>6, <2>1 DEF Rows, Runs, RowOf
  <2>3. ASSUME Undisturbed' PROVE Metered(feedRows, Begun) /\ Exact(feedRows, Begun)
    <3>1. Undisturbed
      BY <1>0, <1>1, <1>7, <2>3 DEF Undisturbed
    <3>2. Metered(feedRows, Begun) /\ Exact(feedRows, waterings)
      BY <3>1 DEF FeedInv, Imported
    <3> QED
      BY <2>1, <3>2, ExactBegun
  <2>4. CASE feedRows' = feedRows
    BY <2>1, <2>2, <2>3, <2>4
  <2>5. CASE feedRows' # feedRows
    <3>1. PICK s \in {watering.start, watering.start + 1},
               liters \in {Through(o), Through(o) + LitersPerMinute, Never} :
             feedRows' = AddRow(feedRows, [start |-> s, end |-> minute, liters |-> liters])
      BY <1>13, <2>5
    <3>2. PICK new : new = [start |-> s, end |-> minute, liters |-> liters]
      OBVIOUS
    <3>3. new.start = s /\ new.end = minute /\ new.liters = liters /\ ~lost
      BY <1>13, <2>5, <3>2
    <3>4. new.start < new.end
      <4>1. ~(new.end <= new.start)
        BY <2>5, <3>1, <3>2 DEF AddRow
      <4>2. s \in Nat
        BY <1>5
      <4> QED
        BY <1>1, <3>3, <4>1, <4>2
    <3>5. minute \in recEnds'
      BY <1>6, <3>3
    <3>6. /\ RowOf(new, [start |-> watering.start, end |-> minute], Begun, recEnds', minute)
          /\ Rows(feedRows, Begun, recEnds', minute)
          /\ \A q \in feedRows : Overlap(q, new) => q.end = new.end
          /\ \A q \in feedRows : q.start = new.start => q.end = new.end
      BY <1>0, <1>6, <1>14, <3>2, <3>4, <3>5, RowAdded
    <3>7. RowOf(new, o, Begun, recEnds', minute) /\ o \in Begun
      BY <1>2, <1>4, <3>6
    <3>8. PICK t : t = AddRow(feedRows, new)
      OBVIOUS
    <3>9. Rows(t, Begun, recEnds', minute) /\ Apart(t)
      BY <1>5, <2>1, <3>6, <3>7, <3>8, AddShape
    <3>10. \A q \in feedRows : IsRow(q)
      BY <2>1 DEF Rows, RowOf
    <3>11. /\ \A x \in t : \/ x \in feedRows \/ x = new
                           \/ \E q \in feedRows : /\ x.start = q.start /\ x.end = q.end /\ q.end = new.end
                                                  /\ x.liters \in {q.liters, new.liters}
           /\ \A q \in feedRows : q.end = new.end \/ q \in t
      BY <3>4, <3>6, <3>8, <3>10, Added
    <3>12. ASSUME Undisturbed' PROVE Exact(t, Begun)
      <4> SUFFICES ASSUME NEW x \in t, NEW w \in Begun, Overlap(x, w) PROVE x.end = w.end
        BY DEF Exact
      <4>1. CASE x = new
        <5>1. w = o
          BY <1>5, <3>7, <4>1, OwnWatering
        <5> QED
          BY <1>3, <3>3, <4>1, <5>1
      <4>2. CASE x # new
        <5>1. PICK q \in feedRows : x.start = q.start /\ x.end = q.end
          BY <3>11, <4>2
        <5>2. Overlap(q, w)
          BY <5>1 DEF Overlap
        <5> QED
          BY <2>3, <3>12, <5>1, <5>2 DEF Exact
      <4> QED
        BY <4>1, <4>2
    <3>13. ASSUME Undisturbed' PROVE Metered(t, Begun)
      <4> SUFFICES ASSUME NEW x \in t, NEW w \in Begun, x.start = w.start, x.end = w.end
                   PROVE  x.liters \in {Through(w), Through(w) + LitersPerMinute, Never}
        BY DEF Metered
      <4>1. ASSUME w.end = minute PROVE liters \in {Through(w), Through(w) + LitersPerMinute, Never}
        <5>1. w = o
          BY <1>0, <1>2, <4>1, EndsNow
        <5> QED
          BY <3>1, <5>1
      <4>2. CASE x = new
        BY <3>3, <4>1, <4>2
      <4>3. CASE x \in feedRows
        BY <2>3, <3>13, <4>3 DEF Metered
      <4>4. CASE \E q \in feedRows : /\ x.start = q.start /\ x.end = q.end /\ q.end = new.end
                                     /\ x.liters \in {q.liters, new.liters}
        <5>1. PICK q \in feedRows : /\ x.start = q.start /\ x.end = q.end /\ q.end = new.end
                                    /\ x.liters \in {q.liters, new.liters}
          BY <4>4
        <5>2. q.liters \in {Through(w), Through(w) + LitersPerMinute, Never}
          BY <2>3, <3>13, <5>1 DEF Metered
        <5>3. w.end = minute
          BY <3>3, <5>1
        <5> QED
          BY <3>3, <4>1, <5>1, <5>2, <5>3
      <4> QED
        BY <3>11, <4>2, <4>3, <4>4
    <3> QED
      BY <2>2, <3>1, <3>2, <3>3, <3>8, <3>9, <3>11, <3>12, <3>13
  <2> QED
    BY <2>4, <2>5
<1>15. Paired'
  <2> SUFFICES ASSUME lostReports' <= 1, ~reopened
               PROVE  /\ Rows(feedRows', Begun, recEnds', minute) /\ Apart(feedRows')
                      /\ Runs(import.runs, Begun, recEnds', minute)
                      /\ \A r, q \in import.runs : r.start = q.start => r = q
                      /\ IsFiniteSet(import.runs)
    BY <1>0, <1>4 DEF Paired
  <2>1. lostReports <= 1
    BY <1>1, <1>7
  <2>2. (\A r, q \in import.runs : r.start = q.start => r = q) /\ IsFiniteSet(import.runs)
    BY <2>1 DEF FeedInv, Paired
  <2> QED
    BY <1>14, <2>1, <2>2
<1>16. Imported'
  <2> SUFFICES ASSUME Undisturbed'
               PROVE  /\ Metered(feedRows', Begun) /\ Exact(feedRows', waterings')
                      /\ \A r \in import.runs : r.liters = Through(r)
                      /\ Exact(import.runs, waterings')
                      /\ import.phase = "read" =>
                            \A w \in waterings' : w.end < import.at => \E r \in import.runs : r.start = w.start /\ r.end = w.end
                      /\ ImportComplete'
    BY <1>0, <1>4 DEF Imported
  <2>1. Undisturbed /\ lostReports <= 1 /\ ~reopened
    BY <1>0, <1>1, <1>7 DEF Undisturbed
  <2>2. /\ Metered(feedRows', Begun) /\ Exact(feedRows', Begun)
        /\ \A q \in feedRows : q.end = minute \/ q \in feedRows'
    BY <1>14, <2>1
  <2>3. /\ \A r \in import.runs : r.liters = Through(r)
        /\ Exact(import.runs, waterings)
        /\ import.phase = "read" =>
              \A w \in waterings : w.end < import.at => \E r \in import.runs : r.start = w.start /\ r.end = w.end
        /\ ImportComplete
    BY <2>1 DEF FeedInv, Imported
  <2>4. Rows(import.runs, Begun, recEnds, minute)
    BY <2>1 DEF FeedInv, Paired, Rows, Runs
  <2>5. Exact(import.runs, Begun)
    BY <2>3, <2>4, ExactBegun
  <2>6. waterings' = Begun
    BY <1>4
  <2>7. ASSUME NEW w \in waterings', w.end < import.at PROVE w \in waterings /\ w.end < minute
    <3>1. PICK at : at = import.at
      OBVIOUS
    <3>2. (at \in Minutes \/ at = Never) /\ at <= minute
      BY <3>1 DEF FeedInv, Recorded
    <3>3. at \in Int
      BY <1>1, <3>2 DEF Minutes, Never
    <3>4. w.end \in Nat
      BY <1>5, <2>6 DEF Spaced
    <3>5. w.end < minute
      BY <1>1, <2>7, <3>1, <3>2, <3>3, <3>4
    <3>6. w # o
      BY <1>1, <1>3, <3>5
    <3> QED
      BY <1>4, <3>5, <3>6
  <2>8. import.phase = "read" =>
            \A w \in waterings' : w.end < import.at => \E r \in import.runs : r.start = w.start /\ r.end = w.end
    BY <2>3, <2>7
  <2>9. ImportComplete'
    <3> SUFFICES ASSUME import.phase = "done", NEW w \in waterings', w.end < import.at
                 PROVE  \E r \in feedRows' :
                            /\ r.end = w.end /\ r.start \in {w.start, w.start + 1}
                            /\ r.start = w.start => r.liters = LitersPerMinute * (w.end - w.start)
      BY <1>0 DEF ImportComplete
    <3>1. w \in waterings /\ w.end < minute
      BY <2>7
    <3>2. PICK r \in feedRows : /\ r.end = w.end /\ r.start \in {w.start, w.start + 1}
                                /\ r.start = w.start => r.liters = LitersPerMinute * (w.end - w.start)
      BY <2>1, <2>3, <3>1 DEF ImportComplete
    <3>3. r \in feedRows'
      BY <1>1, <2>2, <3>1, <3>2
    <3> QED
      BY <3>2, <3>3
  <2> QED
    BY <2>2, <2>3, <2>5, <2>6, <2>8, <2>9
<1> QED
  BY <1>8, <1>9, <1>10, <1>11, <1>12, <1>15, <1>16 DEF FeedInv

-----------------------------------------------------------------------------
LEMMA FeedStart == FeedInit => FeedInv
<1> SUFFICES ASSUME FeedInit PROVE FeedInv
  OBVIOUS
<1>0. /\ minute = 0 /\ registry \in Registries
      /\ watering = Closed /\ waterings = {}
      /\ startShown = Never /\ endShown = Never
      /\ recStarts = {} /\ recEnds = {} /\ recVolumes = <<>>
      /\ feedRows = {} /\ import = NotImported
      /\ lostReports = 0 /\ reopened = FALSE
  BY DEF FeedInit
<1>1. ~Open /\ Begun = {} /\ minute \in Minutes /\ watering.until = Never
  BY <1>0, FeedAssumption DEF Open, Begun, Closed, Minutes
<1>2. import.phase = "no" /\ import.at = Never /\ import.runs = {}
  BY <1>0 DEF NotImported
<1>3. FeedShape
  BY <1>0, <1>1 DEF FeedShape
<1>4. Recorded
  <2>1. import = [phase |-> import.phase, at |-> import.at, runs |-> import.runs]
    BY <1>0 DEF NotImported
  <2>2. Never <= 0
    BY DEF Never
  <2> QED
    BY <1>0, <1>1, <1>2, <2>1, <2>2 DEF Recorded
<1>5. CounterTrue
  BY <1>0, <1>1 DEF CounterTrue
<1>6. ClosesPlaced /\ Losses /\ Timed
  BY <1>0, <1>1 DEF ClosesPlaced, Losses, Timed
<1>7. Paired
  BY <1>0, <1>2, FS_EmptySet DEF Paired, Rows, Runs, Apart
<1>8. Imported
  BY <1>0, <1>2 DEF Imported, Metered, Exact, ImportComplete
<1> QED
  BY <1>3, <1>4, <1>5, <1>6, <1>7, <1>8 DEF FeedInv

LEMMA FeedStep == FeedInv /\ [FeedNext]_feedVars => FeedInv'
<1> SUFFICES ASSUME FeedInv, [FeedNext]_feedVars PROVE FeedInv'
  OBVIOUS
<1>1. CASE OpenByTimer \/ OpenByHand
  BY <1>1, OpeningsKept
<1>2. CASE ImportReads
  BY <1>2, ReadsKept
<1>3. CASE ImportMerges
  BY <1>3, MergesKept
<1>4. CASE ImportAgain
  BY <1>4, AgainKept
<1>5. CASE MinuteGoes
  BY <1>5, MinuteKept
<1>6. CASE \E lost \in BOOLEAN : CloseValve(lost)
  BY <1>6, CloseKept
<1>7. CASE UNCHANGED feedVars
  <2>1. UNCHANGED <<minute, registry, watering, waterings, sensorVars, lostReports, reopened, opener>>
    BY <1>7 DEF feedVars
  <2>2. UNCHANGED <<feedRows, import>>
    BY <1>7 DEF feedVars
  <2>3. FeedRest' /\ Begun' = Begun
    BY <2>1, RestKept
  <2>4. Recorded' /\ Paired' /\ Imported'
    BY <2>1, <2>2, <2>3 DEF sensorVars, FeedInv, Recorded, Paired, Imported, Undisturbed, ImportComplete
  <2> QED
    BY <2>3, <2>4 DEF FeedInv, FeedRest
<1> QED
  BY <1>1, <1>2, <1>3, <1>4, <1>5, <1>6, <1>7 DEF FeedNext

(* What follows from the invariant.                                        *)
LEMMA ApartInFeed == FeedInv => RowsApartInFeed
<1> SUFFICES ASSUME FeedInv, lostReports <= 1, ~reopened
             PROVE  /\ \A r, q \in feedRows : r # q => ~Overlap(r, q)
                    /\ \A r \in feedRows : Cardinality({w \in Begun : Overlap(r, w)}) = 1
  BY DEF RowsApartInFeed
<1>1. Rows(feedRows, Begun, recEnds, minute) /\ Apart(feedRows) /\ Spaced(Begun)
  BY BegunSpaced DEF FeedInv, Paired
<1>2. ASSUME NEW r \in feedRows PROVE Cardinality({w \in Begun : Overlap(r, w)}) = 1
  <2>1. PICK w \in Begun : RowOf(r, w, Begun, recEnds, minute)
    BY <1>1 DEF Rows
  <2>2. \A x \in Begun : Overlap(r, x) <=> x = w
    BY <1>1, <2>1, OwnWatering
  <2>3. {x \in Begun : Overlap(r, x)} = {w}
    BY <2>2
  <2> QED
    BY <2>3, FS_Singleton
<1> QED
  BY <1>1, <1>2 DEF Apart

LEMMA OpenIsShown == FeedInv => OpenShown
<1> SUFFICES ASSUME FeedInv, Undisturbed
             PROVE  /\ LiveOpenRun \subseteq {watering.start} \ {Never}
                    /\ \A r \in feedRows : r.start \notin LiveOpenRun
                    /\ watering # Closed /\ (watering.until = Never \/ watering.until > minute + 2) =>
                         LiveOpenRun = {watering.start}
  BY DEF OpenShown, CompletedFeed, RunsInWindow
<1>1. /\ minute \in Nat /\ Minutes \subseteq Nat /\ recEnds \subseteq Nat /\ MaxRunMinutes \in Nat
      /\ endShown \in recEnds \cup {Never} /\ lostReports = 0 /\ ~reopened
  BY MinuteFacts, FeedAssumption DEF FeedInv, Recorded, Undisturbed
<1>2. endShown \in Int
  BY <1>1 DEF Never
<1>3. /\ Open => /\ startShown = watering.start
                 /\ watering.until # Never => endShown = watering.until
                 /\ watering.until = Never => endShown <= startShown
      /\ ~Open => startShown = Never \/ (startShown < endShown /\ endShown <= minute)
  BY <1>1 DEF FeedInv, Losses
<1>4. CASE ~Open
  <2>1. LiveOpenRun = {}
    BY <1>1, <1>2, <1>3, <1>4 DEF LiveOpenRun
  <2> QED
    BY <1>4, <2>1 DEF Open
<1>5. CASE Open
  <2>1. /\ watering.start \in Nat /\ watering.start <= minute /\ minute <= watering.start + MaxRunMinutes
        /\ watering.until \in Nat \cup {Never} /\ watering.start # Never
    <3>1. watering.start \in Minutes /\ watering.until \in Nat \cup {Never}
      BY <1>5 DEF FeedInv, FeedShape, Open
    <3>2. watering.start \in Nat /\ watering.start # Never
      BY <1>1, <3>1 DEF Minutes, Never
    <3>3. watering.start <= minute /\ minute <= watering.start + MaxRunMinutes
      BY <1>5 DEF FeedInv, FeedShape
    <3> QED
      BY <3>1, <3>2, <3>3
  <2>2. LiveOpenRun \subseteq {watering.start} /\ startShown = watering.start
    BY <1>3, <1>5 DEF LiveOpenRun
  <2>3. ASSUME NEW r \in feedRows, r.start \in LiveOpenRun PROVE FALSE
    <3>1. r.start = watering.start
      BY <2>2, <2>3
    <3>2. Rows(feedRows, Begun, recEnds, minute)
      BY <1>1 DEF FeedInv, Paired
    <3>3. PICK w \in Begun : RowOf(r, w, Begun, recEnds, minute)
      BY <3>2 DEF Rows
    <3>4. /\ Spaced(Begun)
          /\ \A x \in Begun : x \in waterings \/ (Open /\ x.start = watering.start /\ x.end = minute)
          /\ \A x \in waterings : x.end < watering.start
      BY <1>5, BegunSpaced DEF FeedInv
    <3>5. r.end \in Nat /\ w.end \in Nat /\ r.start < w.end /\ w.end <= r.end /\ r.start < r.end
      BY <3>3, <3>4, RowFacts
    <3>6. r.end <= minute /\ r.end \in recEnds
      BY <3>3 DEF RowOf
    <3>7. w \notin waterings
      BY <2>1, <3>1, <3>4, <3>5
    <3>8. r.end = minute
      BY <1>1, <3>4, <3>5, <3>6, <3>7
    <3>9. r.end <= watering.start \/ r.end = watering.until
      BY <1>1, <1>5, <3>6 DEF FeedInv, ClosesPlaced
    <3>10. watering.until = minute /\ watering.start < minute
      BY <1>1, <2>1, <3>1, <3>5, <3>8, <3>9
    <3>11. endShown = minute
      BY <1>1, <1>3, <1>5, <3>10 DEF Never
    <3>12. startShown < endShown /\ endShown <= minute + 2
      BY <1>1, <2>2, <3>10, <3>11
    <3>13. LiveOpenRun = {}
      BY <3>12 DEF LiveOpenRun
    <3> QED
      BY <2>3, <3>13
  <2>4. ASSUME watering.until = Never \/ watering.until > minute + 2 PROVE LiveOpenRun = {watering.start}
    <3>1. ~(startShown < endShown /\ endShown <= minute + 2)
      <4>1. CASE watering.until = Never
        <5>1. endShown <= startShown
          BY <1>3, <1>5, <4>1
        <5> QED
          BY <1>2, <2>1, <2>2, <5>1
      <4>2. CASE watering.until # Never
        <5>1. endShown = watering.until /\ watering.until > minute + 2
          BY <1>3, <1>5, <2>4, <4>2
        <5> QED
          BY <1>1, <1>2, <5>1
      <4> QED
        BY <4>1, <4>2
    <3>2. startShown # Never /\ ~(minute - startShown > MaxRunMinutes)
      BY <1>1, <2>1, <2>2
    <3> QED
      BY <2>2, <3>1, <3>2 DEF LiveOpenRun
  <2> QED
    BY <2>1, <2>2, <2>3, <2>4
<1> QED
  BY <1>4, <1>5

LEMMA PlannedIsShown == FeedInv => PlannedShown
<1> SUFFICES ASSUME FeedInv PROVE PlannedShown
  OBVIOUS
<1>1. /\ \A x \in registry.slots : x.value \in Nat
      /\ \A x, y \in registry.slots \cup registry.cloudOnly : x.slot = y.slot => x = y
  BY FeedAssumption DEF FeedInv, FeedShape
<1>2. PlannedSlots \subseteq registry.slots \cup registry.cloudOnly
  BY DEF PlannedSlots, FreshOnly
<1>3. ASSUME NEW e \in PlannedFeed(0, LastMinute), NEW f \in PlannedFeed(0, LastMinute), e.uid = f.uid
      PROVE  e = f
  <2>1. PICK x \in PlannedSlots : e = [uid |-> x.slot, start |-> x.minute, end |-> x.minute + Length(x)]
    BY DEF PlannedFeed
  <2>2. PICK y \in PlannedSlots : f = [uid |-> y.slot, start |-> y.minute, end |-> y.minute + Length(y)]
    BY DEF PlannedFeed
  <2>3. x.slot = y.slot
    BY <1>3, <2>1, <2>2
  <2>4. x = y
    BY <1>1, <1>2, <2>3
  <2> QED
    BY <2>1, <2>2, <2>4
<1>4. ASSUME watering.until # Never, ~Withheld(opener)
      PROVE  [uid |-> opener, start |-> watering.start, end |-> watering.until]
                 \in PlannedFeed(watering.start, minute)
  <2>1. PICK x \in registry.slots : /\ x.slot = opener
                                    /\ x.enabled /\ x.today /\ x.minute = watering.start
                                    /\ x.mode = "duration" /\ x.value \in 1..MaxRunMinutes
                                    /\ watering.until = watering.start + x.value
    BY <1>4 DEF FeedInv, Timed
  <2>2. x \in PlannedSlots
    BY <1>4, <2>1 DEF PlannedSlots
  <2>3. MaxRunMinutes \in Nat
    BY FeedAssumption
  <2>4. Length(x) = x.value /\ Length(x) # Never
    BY <2>1, <2>3 DEF Length, Never
  <2>5. watering.start <= x.minute /\ x.minute <= minute
    <3>1. watering # Closed
      BY <1>4 DEF Closed
    <3>2. watering.start \in Nat /\ watering.start <= minute
      BY <3>1, MinuteFacts DEF FeedInv, FeedShape, Open
    <3> QED
      BY <2>1, <3>2
  <2>6. [uid |-> x.slot, start |-> x.minute, end |-> x.minute + Length(x)]
            \in PlannedFeed(watering.start, minute)
    BY <2>1, <2>2, <2>4, <2>5 DEF PlannedFeed
  <2> QED
    BY <2>1, <2>4, <2>6
<1> QED
  BY <1>3, <1>4 DEF PlannedShown

LEMMA FeedIsTrue == FeedInv => FeedTrue
<1>1. FeedInv => ImportComplete
  BY DEF FeedInv, Imported, ImportComplete
<1> QED
  BY <1>1, ApartInFeed, OpenIsShown, PlannedIsShown DEF FeedTrue

(* The calendars are true of the valve: rows lie apart and in one watering *)
(* each, the import misses none that was reported, the watering that runs  *)
(* is shown once, and what a timer began is planned under that timer's uid *)
(* with its close unless the cloud says that timer is off or gone,         *)
(* whatever the timers, the clock and the reports that are lost.           *)
THEOREM TheCalendarsAreTrue == FeedSpec => []FeedTrue
  BY FeedStart, FeedStep, FeedIsTrue, PTL DEF FeedSpec
=============================================================================
