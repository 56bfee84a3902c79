--------------------------- MODULE LocationsProofs ---------------------------
(***************************************************************************)
(* The history of the irrigated places (Locations): along every sequence   *)
(* of requests, seeds, saves and restarts, for any valves, places, sites,  *)
(* pumps and names, the table stays unambiguous and attached, and the days *)
(* that are over keep the places and the pumps they had.                   *)
(***************************************************************************)
EXTENDS Locations, FiniteSetTheorems, WellFoundedInduction, SequenceTheorems, TLAPS

-----------------------------------------------------------------------------
(* Induction over the naturals, from the least counterexample.             *)
LEMMA NatInduct ==
    ASSUME NEW S, 0 \in S, \A n \in Nat : n \in S => n + 1 \in S
    PROVE  Nat \subseteq S
<1> DEFINE T == Nat \ S
<1> SUFFICES ASSUME T # {} PROVE FALSE
  OBVIOUS
<1>0. PICK R : R = OpToRel(<, Nat)
  OBVIOUS
<1>1. \A x, y \in Nat : x < y => <<x, y>> \in R
  BY <1>0 DEF OpToRel
<1>2. IsWellFoundedOn(R, Nat)
  BY <1>0, NatLessThanWellFounded
<1>3. T \subseteq Nat
  OBVIOUS
<1>4. PICK m \in T : \A k \in T : ~(<<k, m>> \in R)
  <2> HIDE DEF T
  <2> QED
    BY <1>2, <1>3, WFMin
<1>5. m \in Nat /\ m # 0
  BY <1>4
<1>6. m - 1 \in Nat /\ m - 1 < m /\ (m - 1) + 1 = m
  BY <1>5
<1>7. m - 1 \in T
  BY <1>4, <1>6
<1> QED
  BY <1>1, <1>4, <1>5, <1>6, <1>7

-----------------------------------------------------------------------------
(* The records of a table. *)

Hold == [place : PlaceIds, device : FarmValves, begin : Begins, end : EndDays, auto : BOOLEAN]
Feed == [pump : PumpIds, target : SiteIds \cup PlaceIds, begin : Begins, end : EndDays]
Link == [pump : PumpIds, device : FarmTaps, role : {"consumer", "monitor"}, begin : Begins, end : EndDays]

(* The parts of a table, each with what it refers to.                      *)
HoldAt(held, v, t) == {a \in held : a.device = v /\ InWindow(a, t)}
HeldGood(held, places, now) ==
    /\ held \subseteq Hold /\ IsFiniteSet(held)
    /\ \A a \in held : DatedBy(a, now) /\ a.place \in places
    /\ \A v \in FarmValves, t \in Days : AtMostOne(HoldAt(held, v, t))

PumpsAt(feeds, x, t) == {a.pump : a \in {b \in feeds : b.target = x /\ InWindow(b, t)}}
FeedsGood(feeds, targets, pumps, now) ==
    /\ feeds \subseteq Feed
    /\ \A a \in feeds : DatedBy(a, now) /\ a.target \in targets /\ a.pump \in pumps
    /\ \A x \in targets, t \in Days : AtMostOne(PumpsAt(feeds, x, t))

Consumers(links, d, t) ==
    {i \in DOMAIN links : links[i].device = d /\ links[i].role = "consumer" /\ InWindow(links[i], t)}
LinksGood(links, now) ==
    /\ links \in Seq(Link)
    /\ \A i \in DOMAIN links : DatedBy(links[i], now)
    /\ \A d \in FarmTaps, t \in Days : AtMostOne(Consumers(links, d, t))

PlacesGood(places, sites) ==
    /\ DOMAIN places \subseteq PlaceIds
    /\ \A p \in DOMAIN places :
         places[p] \in [name : FarmNames, aliases : SUBSET FarmNames, site : SiteIds \cup {NoSite}]
    /\ \A p, q \in DOMAIN places : p # q => places[p].aliases \cap places[q].aliases = {}
    /\ \A p \in DOMAIN places : places[p].site \in sites \cup {NoSite}

ForestOf(sites) == \A S \in SUBSET DOMAIN sites : S # {} => \E s \in S : sites[s].parent \notin S
SitesGood(sites) ==
    /\ DOMAIN sites \subseteq SiteIds
    /\ \A s \in DOMAIN sites : /\ sites[s] \in [name : FarmNames, parent : SiteIds \cup {NoSite}]
                               /\ sites[s].parent \in DOMAIN sites \cup {NoSite}
    /\ ForestOf(sites)

Good(f, now) ==
    /\ DOMAIN f = DOMAIN EmptyFarm
    /\ HeldGood(f.held, DOMAIN f.places, now)
    /\ FeedsGood(f.feeds, Targets(f), f.pumps, now)
    /\ LinksGood(f.links, now)
    /\ PlacesGood(f.places, DOMAIN f.sites)
    /\ SitesGood(f.sites)
    /\ f.pumps \subseteq PumpIds

LEMMA DayFacts ==
    /\ LastDay \in Nat /\ Ongoing \in Nat /\ Ongoing = LastDay + 1
    /\ \A t \in Days : t \in Nat /\ t <= LastDay /\ t < Ongoing /\ t \in Int
    /\ \A t \in Begins : t \in Int
    /\ \A t \in EndDays : t \in Nat
    /\ Days \subseteq Begins /\ Days \subseteq EndDays /\ Ongoing \in EndDays /\ Forever \in Begins
    /\ \A t \in Days : Forever < t /\ Forever <= t /\ ~(t < Forever)
BY LocAssumption DEF Days, Ongoing, Begins, EndDays, Forever

(* A window that is cut at a time, if it is open and one of those.         *)
CutAt(a, cut, now) == IF a \in cut /\ IsOpen(a) THEN [a EXCEPT !.end = now] ELSE a
CutAll(as, cut, now) == {CutAt(a, cut, now) : a \in as}

LEMMA CutWindow ==
    ASSUME NEW a, "end" \in DOMAIN a, a.begin \in Int, a.end \in EndDays,
           NEW cut, NEW now \in Days, DatedBy(a, now)
    PROVE  LET b == CutAt(a, cut, now)
           IN  /\ b.end \in EndDays /\ b.begin = a.begin /\ DatedBy(b, now)
               /\ DOMAIN b = DOMAIN a /\ \A x \in DOMAIN a \ {"end"} : b[x] = a[x]
               /\ IsOpen(b) <=> (IsOpen(a) /\ a \notin cut)
               /\ \A t \in Days : InWindow(b, t) <=> (InWindow(a, t) /\ (t < now \/ a \notin cut))
<1>1. CASE a \in cut /\ IsOpen(a)
  <2>1. PICK b : b = [a EXCEPT !.end = now]
    OBVIOUS
  <2>2. /\ b.end = now /\ DOMAIN b = DOMAIN a /\ \A x \in DOMAIN a \ {"end"} : b[x] = a[x]
        /\ CutAt(a, cut, now) = b
    BY <1>1, <2>1 DEF CutAt
  <2>3. b.begin = a.begin
    BY <2>1
  <2>4. now \in Nat /\ now \in EndDays /\ now < Ongoing /\ Ongoing \in Nat
    BY DayFacts
  <2>5. a.end = Ongoing /\ a.begin <= now
    BY <1>1 DEF IsOpen, DatedBy
  <2>6. DatedBy(b, now) /\ ~IsOpen(b)
    BY <2>2, <2>3, <2>4, <2>5 DEF DatedBy, IsOpen
  <2>7. ASSUME NEW t \in Days
        PROVE  InWindow(b, t) <=> (InWindow(a, t) /\ (t < now \/ a \notin cut))
    <3>1. t < Ongoing /\ t \in Nat
      BY DayFacts
    <3> QED
      BY <1>1, <2>2, <2>3, <2>5, <3>1 DEF InWindow
  <2> QED
    BY <1>1, <2>2, <2>3, <2>4, <2>6, <2>7
<1>2. CASE ~(a \in cut /\ IsOpen(a))
  <2>1. CutAt(a, cut, now) = a
    BY <1>2 DEF CutAt
  <2>2. ASSUME NEW t \in Days, InWindow(a, t), a \in cut PROVE t < now
    <3>1. a.end <= now /\ t < a.end
      BY <1>2, <2>2 DEF DatedBy, InWindow
    <3>2. t \in Nat /\ a.end \in Nat /\ now \in Nat
      BY DayFacts
    <3> QED
      BY <3>1, <3>2
  <2> QED
    BY <1>2, <2>1, <2>2
<1> QED
  BY <1>1, <1>2

(* Two records of a valve, before and after.                               *)
Follows(b, a, cut, now) ==
    /\ b.place = a.place /\ b.device = a.device /\ b.begin = a.begin
    /\ IsOpen(b) <=> (IsOpen(a) /\ a \notin cut)
    /\ \A t \in Days : InWindow(b, t) <=> (InWindow(a, t) /\ (t < now \/ a \notin cut))

LEMMA CutHeld ==
    ASSUME NEW held, NEW places, NEW now \in Days, HeldGood(held, places, now), NEW cut
    PROVE  /\ HeldGood(CutAll(held, cut, now), places, now)
           /\ \A b \in CutAll(held, cut, now) : \E a \in held : Follows(b, a, cut, now)
           /\ \A a \in held : \E b \in CutAll(held, cut, now) : Follows(b, a, cut, now)
<1>1. ASSUME NEW a \in held
      PROVE  LET b == CutAt(a, cut, now)
             IN  b \in Hold /\ DatedBy(b, now) /\ b.place \in places /\ Follows(b, a, cut, now)
  <2>1. /\ a \in Hold /\ DatedBy(a, now) /\ a.place \in places
    BY DEF HeldGood
  <2>2. "end" \in DOMAIN a /\ a.begin \in Int /\ a.end \in EndDays
    BY <2>1, DayFacts DEF Hold
  <2>3. PICK b : b = CutAt(a, cut, now)
    OBVIOUS
  <2>4. /\ b.end \in EndDays /\ b.begin = a.begin /\ DatedBy(b, now)
        /\ DOMAIN b = DOMAIN a /\ \A x \in DOMAIN a \ {"end"} : b[x] = a[x]
        /\ IsOpen(b) <=> (IsOpen(a) /\ a \notin cut)
        /\ \A t \in Days : InWindow(b, t) <=> (InWindow(a, t) /\ (t < now \/ a \notin cut))
    BY <2>1, <2>2, <2>3, CutWindow
  <2>5. b.place = a.place /\ b.device = a.device /\ b.auto = a.auto
    BY <2>1, <2>4 DEF Hold
  <2>6. b \in Hold
    <3>1. b = a \/ b = [a EXCEPT !.end = now]
      BY <2>3 DEF CutAt
    <3>2. now \in EndDays
      BY DayFacts
    <3> QED
      BY <2>1, <3>1, <3>2 DEF Hold
  <2> QED
    BY <2>1, <2>3, <2>4, <2>5, <2>6 DEF Follows
<1>2. IsFiniteSet(CutAll(held, cut, now))
  <2>1. [a \in held |-> CutAt(a, cut, now)] \in Surjection(held, CutAll(held, cut, now))
    BY DEF Surjection, CutAll
  <2>2. IsFiniteSet(held)
    BY DEF HeldGood
  <2> QED
    BY <2>1, <2>2, FS_Surjection
<1>3. ASSUME NEW v \in FarmValves, NEW t \in Days, NEW x \in HoldAt(CutAll(held, cut, now), v, t),
             NEW y \in HoldAt(CutAll(held, cut, now), v, t)
      PROVE  x = y
  <2>1. PICK a \in held : x = CutAt(a, cut, now)
    BY DEF HoldAt, CutAll
  <2>2. PICK b \in held : y = CutAt(b, cut, now)
    BY DEF HoldAt, CutAll
  <2>3. a \in HoldAt(held, v, t) /\ b \in HoldAt(held, v, t)
    BY <1>1, <2>1, <2>2 DEF HoldAt, Follows
  <2>4. a = b
    BY <2>3 DEF HeldGood, AtMostOne
  <2> QED
    BY <2>1, <2>2, <2>4
<1>4. HeldGood(CutAll(held, cut, now), places, now)
  BY <1>1, <1>2, <1>3 DEF HeldGood, AtMostOne, CutAll
<1> QED
  BY <1>1, <1>4 DEF CutAll

(* What a step of the table may not change before now: the places the      *)
(* valves served, save those that were never watered, and the pumps.       *)
HeldPlaces(held, v, t) == {a.place : a \in HoldAt(held, v, t)}
HeldKept(held, after, now) ==
    \A v \in FarmValves, t \in Days : t < now => HeldPlaces(after, v, t) = HeldPlaces(held, v, t)
StillOpen(held, after) ==
    \A b \in after : IsOpen(b) => \E a \in held : IsOpen(a) /\ a.place = b.place /\ a.device = b.device

LEMMA CutHeldKept ==
    ASSUME NEW held, NEW places, NEW now \in Days, HeldGood(held, places, now), NEW cut
    PROVE  /\ HeldGood(CutAll(held, cut, now), places, now)
           /\ HeldKept(held, CutAll(held, cut, now), now)
           /\ \A b \in CutAll(held, cut, now) : IsOpen(b) =>
                \E a \in held \ cut : IsOpen(a) /\ a.place = b.place /\ a.device = b.device
           /\ \A b \in CutAll(held, cut, now), t \in Days : InWindow(b, t) /\ ~(t < now) =>
                \E a \in held \ cut : InWindow(a, t) /\ a.place = b.place /\ a.device = b.device
<1> PICK after : after = CutAll(held, cut, now)
  OBVIOUS
<1>1. /\ HeldGood(after, places, now)
      /\ \A b \in after : \E a \in held : Follows(b, a, cut, now)
      /\ \A a \in held : \E b \in after : Follows(b, a, cut, now)
  BY CutHeld
<1>2. ASSUME NEW v \in FarmValves, NEW t \in Days, t < now
      PROVE  HeldPlaces(after, v, t) = HeldPlaces(held, v, t)
  <2>1. ASSUME NEW p \in HeldPlaces(after, v, t) PROVE p \in HeldPlaces(held, v, t)
    <3>1. PICK b \in after : b.device = v /\ InWindow(b, t) /\ p = b.place
      BY <2>1 DEF HeldPlaces, HoldAt
    <3>2. PICK a \in held : Follows(b, a, cut, now)
      BY <1>1, <3>1
    <3> QED
      BY <3>1, <3>2 DEF HeldPlaces, HoldAt, Follows
  <2>2. ASSUME NEW p \in HeldPlaces(held, v, t) PROVE p \in HeldPlaces(after, v, t)
    <3>1. PICK a \in held : a.device = v /\ InWindow(a, t) /\ p = a.place
      BY <2>2 DEF HeldPlaces, HoldAt
    <3>2. PICK b \in after : Follows(b, a, cut, now)
      BY <1>1, <3>1
    <3> QED
      BY <1>2, <3>1, <3>2 DEF HeldPlaces, HoldAt, Follows
  <2> QED
    BY <2>1, <2>2
<1>3. ASSUME NEW b \in after
      PROVE  /\ IsOpen(b) => \E a \in held \ cut : IsOpen(a) /\ a.place = b.place /\ a.device = b.device
             /\ \A t \in Days : InWindow(b, t) /\ ~(t < now) =>
                  \E a \in held \ cut : InWindow(a, t) /\ a.place = b.place /\ a.device = b.device
  <2>1. PICK a \in held : Follows(b, a, cut, now)
    BY <1>1
  <2> QED
    BY <2>1 DEF Follows
<1> QED
  BY <1>1, <1>2, <1>3 DEF HeldKept

LEMMA AddHeld ==
    ASSUME NEW held, NEW places, NEW now \in Days, HeldGood(held, places, now),
           NEW p \in places \cap PlaceIds, NEW v \in FarmValves, NEW b \in Days, b <= now,
           NEW auto \in BOOLEAN,
           \A t \in Days : b <= t => HoldAt(held, v, t) = {}
    PROVE  /\ HeldGood(held \cup {Assignment(p, v, b, auto)}, places, now)
           /\ b = now => HeldKept(held, held \cup {Assignment(p, v, b, auto)}, now)
<1> PICK new : new = Assignment(p, v, b, auto)
  OBVIOUS
<1>1. new.place = p /\ new.device = v /\ new.begin = b /\ new.end = Ongoing /\ new.auto = auto
  BY DEF Assignment
<1>2. new \in Hold
  <2>1. b \in Begins /\ Ongoing \in EndDays
    BY DayFacts
  <2> QED
    BY <2>1 DEF Assignment, Hold
<1>3. IsOpen(new) /\ DatedBy(new, now)
  BY <1>1 DEF IsOpen, DatedBy
<1>4. IsFiniteSet(held \cup {new})
  BY FS_AddElement DEF HeldGood
<1>5. \A t \in Days : InWindow(new, t) <=> b <= t
  BY <1>1, DayFacts DEF InWindow
<1>6. ASSUME NEW w \in FarmValves, NEW t \in Days
      PROVE  AtMostOne(HoldAt(held \cup {new}, w, t))
  <2>1. AtMostOne(HoldAt(held, w, t))
    BY DEF HeldGood
  <2>2. CASE w = v /\ b <= t
    <3>1. HoldAt(held, w, t) = {}
      BY <2>2
    <3>2. HoldAt(held \cup {new}, w, t) \subseteq {new}
      BY <3>1 DEF HoldAt
    <3> QED
      BY <3>2 DEF AtMostOne
  <2>3. CASE ~(w = v /\ b <= t)
    <3>1. HoldAt(held \cup {new}, w, t) = HoldAt(held, w, t)
      BY <1>1, <1>5, <2>3 DEF HoldAt
    <3> QED
      BY <2>1, <3>1
  <2> QED
    BY <2>2, <2>3
<1>7. HeldGood(held \cup {new}, places, now)
  BY <1>1, <1>2, <1>3, <1>4, <1>6 DEF HeldGood
<1>8. ASSUME b = now, NEW w \in FarmValves, NEW t \in Days, t < now
      PROVE  HeldPlaces(held \cup {new}, w, t) = HeldPlaces(held, w, t)
  <2>1. ~(b <= t)
    BY <1>8, DayFacts
  <2>2. HoldAt(held \cup {new}, w, t) = HoldAt(held, w, t)
    BY <1>5, <2>1 DEF HoldAt
  <2> QED
    BY <2>2 DEF HeldPlaces
<1> QED
  BY <1>7, <1>8 DEF HeldKept

(* The valves of fewer places, or another mark on some of them.            *)
LEMMA FewerHeld ==
    ASSUME NEW held, NEW places, NEW now \in Days, HeldGood(held, places, now), NEW less, less \subseteq held,
           NEW left, \A a \in less : a.place \in left
    PROVE  HeldGood(less, left, now)
<1>1. IsFiniteSet(less)
  BY FS_Subset DEF HeldGood
<1>2. \A v \in FarmValves, t \in Days : HoldAt(less, v, t) \subseteq HoldAt(held, v, t)
  BY DEF HoldAt
<1> QED
  BY <1>1, <1>2 DEF HeldGood, AtMostOne

Marked(held, some) == {IF a \in some THEN [a EXCEPT !.auto = FALSE] ELSE a : a \in held}

LEMMA MarkedHeld ==
    ASSUME NEW held, NEW places, NEW now \in Days, HeldGood(held, places, now), NEW some
    PROVE  /\ HeldGood(Marked(held, some), places, now) /\ HeldKept(held, Marked(held, some), now)
           /\ StillOpen(held, Marked(held, some))
<1> DEFINE Mark(a) == IF a \in some THEN [a EXCEPT !.auto = FALSE] ELSE a
<1> PICK marked : marked = {Mark(a) : a \in held}
  OBVIOUS
<1>1. ASSUME NEW a \in held
      PROVE  /\ Mark(a) \in Hold /\ Mark(a).place = a.place /\ Mark(a).device = a.device
             /\ Mark(a).begin = a.begin /\ Mark(a).end = a.end
  <2>1. a \in Hold
    BY DEF HeldGood
  <2> QED
    BY <2>1 DEF Hold
<1>2. ASSUME NEW a \in held
      PROVE  /\ IsOpen(Mark(a)) <=> IsOpen(a)
             /\ DatedBy(Mark(a), now)
             /\ \A t : InWindow(Mark(a), t) <=> InWindow(a, t)
  BY <1>1 DEF IsOpen, DatedBy, InWindow, HeldGood
<1>3. IsFiniteSet(marked)
  <2>1. [a \in held |-> Mark(a)] \in Surjection(held, marked)
    BY DEF Surjection
  <2> QED
    BY <2>1, FS_Surjection DEF HeldGood
<1> HIDE DEF Mark
<1>4. ASSUME NEW v \in FarmValves, NEW t \in Days, NEW x \in HoldAt(marked, v, t), NEW y \in HoldAt(marked, v, t)
      PROVE  x = y
  <2>1. PICK a \in held : x = Mark(a)
    BY DEF HoldAt
  <2>2. PICK b \in held : y = Mark(b)
    BY DEF HoldAt
  <2>3. a \in HoldAt(held, v, t) /\ b \in HoldAt(held, v, t)
    BY <1>1, <1>2, <2>1, <2>2 DEF HoldAt
  <2>4. a = b
    BY <2>3 DEF HeldGood, AtMostOne
  <2> QED
    BY <2>1, <2>2, <2>4
<1>5. HeldGood(marked, places, now)
  BY <1>1, <1>2, <1>3, <1>4 DEF HeldGood, AtMostOne
<1>6. HeldKept(held, marked, now)
  <2> SUFFICES ASSUME NEW v \in FarmValves, NEW t \in Days
               PROVE  HeldPlaces(marked, v, t) = HeldPlaces(held, v, t)
    BY DEF HeldKept
  <2>1. ASSUME NEW p \in HeldPlaces(marked, v, t) PROVE p \in HeldPlaces(held, v, t)
    <3>1. PICK b \in marked : b.device = v /\ InWindow(b, t) /\ p = b.place
      BY <2>1 DEF HeldPlaces, HoldAt
    <3>2. PICK a \in held : b = Mark(a)
      BY <3>1
    <3> QED
      BY <1>1, <1>2, <3>1, <3>2 DEF HeldPlaces, HoldAt
  <2>2. ASSUME NEW p \in HeldPlaces(held, v, t) PROVE p \in HeldPlaces(marked, v, t)
    <3>1. PICK a \in held : a.device = v /\ InWindow(a, t) /\ p = a.place
      BY <2>2 DEF HeldPlaces, HoldAt
    <3>2. Mark(a) \in marked
      BY <3>1
    <3> QED
      BY <1>1, <1>2, <3>1, <3>2 DEF HeldPlaces, HoldAt
  <2> QED
    BY <2>1, <2>2
<1>7. StillOpen(held, marked)
  BY <1>1, <1>2 DEF StillOpen
<1>8. marked = Marked(held, some)
  BY DEF Mark, Marked
<1> QED
  BY <1>5, <1>6, <1>7, <1>8

FeedsKept(feeds, after, now) ==
    /\ \A x, t : t \in Days /\ t < now /\ PumpsAt(feeds, x, t) # {} => PumpsAt(after, x, t) = PumpsAt(feeds, x, t)
    /\ (\A a \in after \ feeds : ~(a.begin = Forever /\ IsOpen(a))) =>
         \A x, t : t \in Days /\ t < now => PumpsAt(after, x, t) = PumpsAt(feeds, x, t)
PlacesKept(held, after, now, rows) ==
    \A v \in FarmValves, t \in Days : t < now =>
        /\ HeldPlaces(after, v, t) \subseteq HeldPlaces(held, v, t)
        /\ <<v, t>> \in rows => HeldPlaces(after, v, t) = HeldPlaces(held, v, t)
Kept(f, g, now, rows) ==
    /\ Good(g, now)
    /\ PlacesKept(f.held, g.held, now, rows)
    /\ FeedsKept(f.feeds, g.feeds, now)
    /\ SharedPlaces(g) \subseteq SharedPlaces(f)

LEMMA KeptByHeldKept ==
    ASSUME NEW held, NEW after, NEW now, NEW rows, HeldKept(held, after, now)
    PROVE  PlacesKept(held, after, now, rows)
BY DEF HeldKept, PlacesKept

LEMMA SharedFrom ==
    ASSUME NEW f, NEW g,
           \A a, b \in g.held : IsOpen(a) /\ IsOpen(b) /\ a.place = b.place /\ a.device # b.device =>
              \E c, d \in f.held : /\ IsOpen(c) /\ c.place = a.place /\ c.device = a.device
                                   /\ IsOpen(d) /\ d.place = b.place /\ d.device = b.device
    PROVE  SharedPlaces(g) \subseteq SharedPlaces(f)
<1> SUFFICES ASSUME NEW z \in SharedPlaces(g) PROVE z \in SharedPlaces(f)
  OBVIOUS
<1>1. PICK x \in Sharing(g) : z = <<x[1].place, x[1].device, x[2].device>>
  BY DEF SharedPlaces
<1>2. PICK a \in g.held, b \in g.held : x = <<a, b>>
  BY <1>1 DEF Sharing
<1>3. IsOpen(a) /\ IsOpen(b) /\ a.place = b.place /\ a.device # b.device
  BY <1>1, <1>2 DEF Sharing
<1>4. PICK c \in f.held, d \in f.held : /\ IsOpen(c) /\ c.place = a.place /\ c.device = a.device
                                        /\ IsOpen(d) /\ d.place = b.place /\ d.device = b.device
  BY <1>3
<1>5. <<c, d>> \in Sharing(f)
  BY <1>3, <1>4 DEF Sharing
<1>6. <<c, d>>[1] = c /\ <<c, d>>[2] = d
  OBVIOUS
<1>7. z = <<a.place, a.device, b.device>>
  BY <1>1, <1>2
<1>8. z = <<<<c, d>>[1].place, <<c, d>>[1].device, <<c, d>>[2].device>>
  BY <1>4, <1>6, <1>7
<1> QED
  BY <1>5, <1>8 DEF SharedPlaces

LEMMA SharedStill ==
    ASSUME NEW f, NEW g, StillOpen(f.held, g.held)
    PROVE  SharedPlaces(g) \subseteq SharedPlaces(f)
<1>1. \A a, b \in g.held : IsOpen(a) /\ IsOpen(b) /\ a.place = b.place /\ a.device # b.device =>
        \E c, d \in f.held : /\ IsOpen(c) /\ c.place = a.place /\ c.device = a.device
                             /\ IsOpen(d) /\ d.place = b.place /\ d.device = b.device
  BY DEF StillOpen
<1> QED
  BY <1>1, SharedFrom

LEMMA FeedsKeptSame == \A feeds, now : FeedsKept(feeds, feeds, now)
BY DEF FeedsKept
LEMMA PlacesKeptSame == \A held, now, rows : PlacesKept(held, held, now, rows)
BY DEF PlacesKept

LEMMA KeptSame ==
    ASSUME NEW f, NEW now, NEW rows, NEW g, Good(g, now), g.held = f.held, g.feeds = f.feeds
    PROVE  Kept(f, g, now, rows)
<1>1. SharedPlaces(g) = SharedPlaces(f)
  BY DEF SharedPlaces, Sharing
<1> QED
  BY <1>1, FeedsKeptSame, PlacesKeptSame DEF Kept

(* Each field of a table that is written.                                  *)
LEMMA FarmFields ==
    ASSUME NEW f, NEW now, Good(f, now)
    PROVE  /\ DOMAIN f = DOMAIN EmptyFarm
           /\ {"places", "held", "sites", "seeded", "pumps", "feeds", "links"} = DOMAIN f
BY DEF Good, EmptyFarm

LEMMA WriteHeld ==
    ASSUME NEW f, NEW now, Good(f, now), NEW h, HeldGood(h, DOMAIN f.places, now)
    PROVE  /\ Good([f EXCEPT !.held = h], now)
           /\ [f EXCEPT !.held = h].held = h /\ [f EXCEPT !.held = h].feeds = f.feeds
           /\ [f EXCEPT !.held = h].places = f.places
<1> PICK g : g = [f EXCEPT !.held = h]
  OBVIOUS
<1>1. /\ DOMAIN g = DOMAIN f /\ g.held = h /\ g.feeds = f.feeds /\ g.places = f.places
      /\ g.sites = f.sites /\ g.pumps = f.pumps /\ g.links = f.links
  BY FarmFields
<1>2. Good(g, now)
  BY <1>1 DEF Good, Targets
<1> QED
  BY <1>1, <1>2

LEMMA WriteFeeds ==
    ASSUME NEW f, NEW now, Good(f, now), NEW h, FeedsGood(h, Targets(f), f.pumps, now)
    PROVE  /\ Good([f EXCEPT !.feeds = h], now)
           /\ [f EXCEPT !.feeds = h].held = f.held /\ [f EXCEPT !.feeds = h].feeds = h
<1> PICK g : g = [f EXCEPT !.feeds = h]
  OBVIOUS
<1>1. /\ DOMAIN g = DOMAIN f /\ g.held = f.held /\ g.feeds = h /\ g.places = f.places
      /\ g.sites = f.sites /\ g.pumps = f.pumps /\ g.links = f.links
  BY FarmFields
<1>2. Good(g, now)
  BY <1>1 DEF Good, Targets
<1> QED
  BY <1>1, <1>2

LEMMA WriteLinks ==
    ASSUME NEW f, NEW now, Good(f, now), NEW h, LinksGood(h, now)
    PROVE  /\ Good([f EXCEPT !.links = h], now)
           /\ [f EXCEPT !.links = h].held = f.held /\ [f EXCEPT !.links = h].feeds = f.feeds
<1> PICK g : g = [f EXCEPT !.links = h]
  OBVIOUS
<1>1. /\ DOMAIN g = DOMAIN f /\ g.held = f.held /\ g.feeds = f.feeds /\ g.places = f.places
      /\ g.sites = f.sites /\ g.pumps = f.pumps /\ g.links = h
  BY FarmFields
<1>2. Good(g, now)
  BY <1>1 DEF Good, Targets
<1> QED
  BY <1>1, <1>2

-----------------------------------------------------------------------------
(* The valves' own edits.                                                  *)
LEMMA EndedIsCut == \A as, cut, now : Ended(as, cut, now) = CutAll(as, cut, now)
BY DEF Ended, CutAll, CutAt

LEMMA AssignedKept ==
    ASSUME NEW f, NEW now \in Days, NEW rows, Good(f, now), NEW v \in FarmValves, NEW p \in PlaceIds
    PROVE  Kept(f, AssignedDevice(f, v, p, now).farm, now, rows)
<1> DEFINE marked == Marked(f.held, OpenOf(f, v))
           cut == {a \in f.held : a.device = v \/ a.place = p}
           left == CutAll(f.held, cut, now)
           new == Assignment(p, v, now, FALSE)
<1>0. HeldGood(f.held, DOMAIN f.places, now)
  BY DEF Good
<1>1. CASE p \notin DOMAIN f.places
  <2>1. AssignedDevice(f, v, p, now).farm = f
    BY <1>1 DEF AssignedDevice, Refused
  <2> QED
    BY <2>1, KeptSame
<1>2. CASE p \in DOMAIN f.places /\ \E a \in OpenOf(f, v) : a.place = p
  <2>1. PICK h : h = marked
    OBVIOUS
  <2>2. HeldGood(h, DOMAIN f.places, now) /\ HeldKept(f.held, h, now) /\ StillOpen(f.held, h)
    BY <1>0, <2>1, MarkedHeld
  <2>3. AssignedDevice(f, v, p, now).farm = [f EXCEPT !.held = h]
    BY <1>2, <2>1 DEF AssignedDevice, Accepted, Marked
  <2>4. PICK g : g = [f EXCEPT !.held = h]
    OBVIOUS
  <2>5. Good(g, now) /\ g.held = h /\ g.feeds = f.feeds
    BY <2>2, <2>4, WriteHeld
  <2>6. SharedPlaces(g) \subseteq SharedPlaces(f)
    BY <2>2, <2>5, SharedStill
  <2> QED
    BY <2>2, <2>3, <2>4, <2>5, <2>6, KeptByHeldKept, FeedsKeptSame DEF Kept
<1>3. CASE p \in DOMAIN f.places /\ ~\E a \in OpenOf(f, v) : a.place = p
  <2>1. PICK h : h = left
    OBVIOUS
  <2>2. /\ HeldGood(h, DOMAIN f.places, now) /\ HeldKept(f.held, h, now)
        /\ \A b \in h : IsOpen(b) =>
              \E a \in f.held \ cut : IsOpen(a) /\ a.place = b.place /\ a.device = b.device
        /\ \A b \in h, t \in Days : InWindow(b, t) /\ ~(t < now) =>
              \E a \in f.held \ cut : InWindow(a, t) /\ a.place = b.place /\ a.device = b.device
    <3> HIDE DEF cut
    <3> QED
      BY <1>0, <2>1, CutHeldKept
  <2>3. \A t \in Days : now <= t => HoldAt(h, v, t) = {}
    <3> SUFFICES ASSUME NEW t \in Days, now <= t, NEW b \in HoldAt(h, v, t) PROVE FALSE
      OBVIOUS
    <3>1. ~(t < now)
      BY DayFacts
    <3>2. b \in h /\ b.device = v /\ InWindow(b, t)
      BY DEF HoldAt
    <3>3. PICK a \in f.held \ cut : a.device = b.device
      BY <2>2, <3>1, <3>2
    <3> QED
      BY <3>2, <3>3
  <2>4. p \in DOMAIN f.places \cap PlaceIds /\ now <= now /\ FALSE \in BOOLEAN
    BY <1>3, DayFacts
  <2>5. HeldGood(h \cup {new}, DOMAIN f.places, now) /\ HeldKept(h, h \cup {new}, now)
    BY <2>2, <2>3, <2>4, AddHeld
  <2>6. AssignedDevice(f, v, p, now).farm = [f EXCEPT !.held = h \cup {new}]
    <3>1. AssignedDevice(f, v, p, now).farm = [f EXCEPT !.held = Ended(f.held, cut, now) \cup {new}]
      BY <1>3 DEF AssignedDevice, Accepted
    <3>2. Ended(f.held, cut, now) = h
      BY <2>1, EndedIsCut
    <3> QED
      BY <3>1, <3>2
  <2>7. PICK g : g = [f EXCEPT !.held = h \cup {new}]
    OBVIOUS
  <2>8. Good(g, now) /\ g.held = h \cup {new} /\ g.feeds = f.feeds
    <3>1. PICK k : k = h \cup {new}
      OBVIOUS
    <3>2. HeldGood(k, DOMAIN f.places, now)
      BY <2>5, <3>1
    <3>3. g = [f EXCEPT !.held = k]
      BY <2>7, <3>1
    <3>4. Good(g, now) /\ g.held = k /\ g.feeds = f.feeds
      BY <3>2, <3>3, WriteHeld
    <3> QED
      BY <3>1, <3>4
  <2>9. HeldKept(f.held, g.held, now)
    BY <2>2, <2>5, <2>8 DEF HeldKept
  <2>10. SharedPlaces(g) \subseteq SharedPlaces(f)
    <3>1. new.place = p /\ new.device = v
      BY DEF Assignment
    <3>2. \A b \in h : IsOpen(b) => b.place # p /\ b.device # v
      BY <2>2
    <3>3. ASSUME NEW a \in g.held, NEW b \in g.held, IsOpen(a), IsOpen(b), a.place = b.place, a.device # b.device
          PROVE  a \in h /\ b \in h
      <4> HIDE DEF new
      <4> QED
        BY <2>8, <3>1, <3>2, <3>3
    <3>4. \A a, b \in g.held : IsOpen(a) /\ IsOpen(b) /\ a.place = b.place /\ a.device # b.device =>
            \E c, d \in f.held : /\ IsOpen(c) /\ c.place = a.place /\ c.device = a.device
                                 /\ IsOpen(d) /\ d.place = b.place /\ d.device = b.device
      <4> HIDE DEF cut
      <4> QED
        BY <2>2, <3>3
    <3> QED
      BY <3>4, SharedFrom
  <2> QED
    BY <2>6, <2>7, <2>8, <2>9, <2>10, KeptByHeldKept, FeedsKeptSame DEF Kept
<1> QED
  BY <1>1, <1>2, <1>3

LEMMA EndedKept ==
    ASSUME NEW f, NEW now \in Days, NEW rows, Good(f, now), NEW v \in FarmValves, NEW p \in PlaceIds
    PROVE  Kept(f, EndedAssignment(f, v, p, now).farm, now, rows)
<1>0. HeldGood(f.held, DOMAIN f.places, now)
  BY DEF Good
<1>1. CASE \E a \in OpenOf(f, v) : a.place = p
  <2> DEFINE cut == {a \in f.held : a.device = v}
  <2>1. PICK h : h = CutAll(f.held, cut, now)
    OBVIOUS
  <2>2. HeldGood(h, DOMAIN f.places, now) /\ HeldKept(f.held, h, now) /\ StillOpen(f.held, h)
    <3> HIDE DEF cut
    <3> QED
      BY <1>0, <2>1, CutHeldKept DEF StillOpen
  <2>3. EndedAssignment(f, v, p, now).farm = [f EXCEPT !.held = h]
    BY <1>1, <2>1, EndedIsCut DEF EndedAssignment, Accepted
  <2>4. PICK g : g = [f EXCEPT !.held = h]
    OBVIOUS
  <2>5. Good(g, now) /\ g.held = h /\ g.feeds = f.feeds
    BY <2>2, <2>4, WriteHeld
  <2>6. SharedPlaces(g) \subseteq SharedPlaces(f)
    BY <2>2, <2>5, SharedStill
  <2> QED
    BY <2>2, <2>3, <2>4, <2>5, <2>6, KeptByHeldKept, FeedsKeptSame DEF Kept
<1>2. CASE ~\E a \in OpenOf(f, v) : a.place = p
  <2>1. EndedAssignment(f, v, p, now).farm = f
    BY <1>2 DEF EndedAssignment, Refused
  <2> QED
    BY <2>1, KeptSame
<1> QED
  BY <1>1, <1>2

LEMMA DeletedKept ==
    ASSUME NEW f, NEW now \in Days, NEW rows, Good(f, now), NEW p \in PlaceIds
    PROVE  Kept(f, DeletedLocation(f, p, rows).farm, now, rows)
<1> DEFINE refused == \/ p \notin DOMAIN f.places
                      \/ \E a \in f.held : a.place = p /\ IsOpen(a)
                      \/ LocationRuns(f, p, rows) # {}
                      \/ \E a \in f.feeds : a.target = p
<1>1. CASE refused
  <2>1. DeletedLocation(f, p, rows).farm = f
    BY <1>1 DEF DeletedLocation, Refused
  <2> QED
    BY <2>1, KeptSame
<1>2. CASE ~refused
  <2>1. PICK h : h = {a \in f.held : a.place # p}
    OBVIOUS
  <2>2. PICK left : left = Without(f.places, p)
    OBVIOUS
  <2>3. PICK g : g = [f EXCEPT !.held = h, !.places = left]
    OBVIOUS
  <2>4. DeletedLocation(f, p, rows).farm = g
    BY <1>2, <2>1, <2>2, <2>3 DEF DeletedLocation, Accepted
  <2>5. /\ DOMAIN g = DOMAIN f /\ g.held = h /\ g.places = left /\ g.feeds = f.feeds
        /\ g.sites = f.sites /\ g.pumps = f.pumps /\ g.links = f.links
    BY <2>3, FarmFields
  <2>6. DOMAIN left = DOMAIN f.places \ {p} /\ \A q \in DOMAIN left : left[q] = f.places[q]
    BY <2>2 DEF Without
  <2>7. HeldGood(h, DOMAIN left, now)
    <3>1. HeldGood(f.held, DOMAIN f.places, now)
      BY DEF Good
    <3>2. h \subseteq f.held /\ \A a \in h : a.place \in DOMAIN left
      BY <2>1, <2>6, <3>1 DEF HeldGood
    <3> QED
      BY <3>1, <3>2, FewerHeld
  <2>8. FeedsGood(f.feeds, Targets(g), f.pumps, now)
    <3>1. FeedsGood(f.feeds, Targets(f), f.pumps, now)
      BY DEF Good
    <3>2. Targets(g) \subseteq Targets(f)
      BY <2>5, <2>6 DEF Targets
    <3>3. \A a \in f.feeds : a.target \in Targets(g)
      <4>1. \A a \in f.feeds : a.target \in Targets(f) /\ a.target # p
        BY <1>2, <3>1 DEF FeedsGood
      <4> QED
        BY <2>5, <2>6, <4>1 DEF Targets
    <3> QED
      BY <3>1, <3>2, <3>3 DEF FeedsGood
  <2>9. PlacesGood(left, DOMAIN f.sites)
    BY <2>6 DEF Good, PlacesGood
  <2>10. Good(g, now)
    BY <2>5, <2>7, <2>8, <2>9 DEF Good
  <2>11. PlacesKept(f.held, g.held, now, rows)
    <3> SUFFICES ASSUME NEW v \in FarmValves, NEW t \in Days, t < now
                 PROVE  /\ HeldPlaces(h, v, t) \subseteq HeldPlaces(f.held, v, t)
                        /\ <<v, t>> \in rows => HeldPlaces(h, v, t) = HeldPlaces(f.held, v, t)
      BY <2>5 DEF PlacesKept
    <3>1. HeldPlaces(h, v, t) \subseteq HeldPlaces(f.held, v, t)
      BY <2>1 DEF HeldPlaces, HoldAt
    <3>2. ASSUME <<v, t>> \in rows, NEW a \in HoldAt(f.held, v, t) PROVE a.place # p
      <4>1. PICK r : r = <<v, t>>
        OBVIOUS
      <4>2. r[1] = v /\ r[2] = t /\ r \in rows /\ a \in f.held /\ a.device = r[1] /\ InWindow(a, r[2])
        BY <3>2, <4>1 DEF HoldAt
      <4>3. LocationRuns(f, p, rows) = {}
        BY <1>2
      <4> QED
        BY <4>2, <4>3 DEF LocationRuns
    <3>3. ASSUME <<v, t>> \in rows PROVE HoldAt(h, v, t) = HoldAt(f.held, v, t)
      BY <2>1, <3>2, <3>3 DEF HoldAt
    <3> QED
      BY <3>1, <3>3 DEF HeldPlaces
  <2>12. SharedPlaces(g) \subseteq SharedPlaces(f)
    <3>1. StillOpen(f.held, g.held)
      BY <2>1, <2>5 DEF StillOpen
    <3> QED
      BY <3>1, SharedStill
  <2> QED
    BY <2>4, <2>5, <2>10, <2>11, <2>12, FeedsKeptSame DEF Kept
<1> QED
  BY <1>1, <1>2

LEMMA LeastIn ==
    ASSUME NEW S, S \subseteq Nat, S # {}
    PROVE  Min(S) \in S /\ \A y \in S : Min(S) <= y
<1>0. PICK R : R = OpToRel(<, Nat)
  OBVIOUS
<1>1. \A x, y \in Nat : x < y => <<x, y>> \in R
  BY <1>0 DEF OpToRel
<1>2. IsWellFoundedOn(R, Nat)
  BY <1>0, NatLessThanWellFounded
<1>3. PICK m \in S : \A k \in S : ~(<<k, m>> \in R)
  BY <1>2, WFMin
<1>4. ASSUME NEW y \in S PROVE m <= y
  <2>1. m \in Nat /\ y \in Nat
    OBVIOUS
  <2>2. ~(y < m)
    BY <1>1, <1>3, <2>1
  <2> QED
    BY <2>1, <2>2
<1>5. \E x \in S : \A y \in S : x <= y
  BY <1>4
<1> QED
  BY <1>5 DEF Min

(* More to refer to does no harm.                                          *)
LEMMA MorePlaces ==
    ASSUME NEW held, NEW places, NEW more, NEW now, HeldGood(held, places, now), places \subseteq more
    PROVE  HeldGood(held, more, now)
BY DEF HeldGood

LEMMA MoreTargets ==
    ASSUME NEW feeds, NEW targets, NEW more, NEW pumps, NEW others, NEW now,
           FeedsGood(feeds, targets, pumps, now), targets \subseteq more, pumps \subseteq others
    PROVE  FeedsGood(feeds, more, others, now)
<1>1. ASSUME NEW x \in more, NEW t \in Days PROVE AtMostOne(PumpsAt(feeds, x, t))
  <2>1. CASE x \in targets
    BY <2>1 DEF FeedsGood
  <2>2. CASE x \notin targets
    <3>1. PumpsAt(feeds, x, t) = {}
      BY <2>2 DEF FeedsGood, PumpsAt
    <3> QED
      BY <3>1 DEF AtMostOne
  <2> QED
    BY <2>1, <2>2
<1> QED
  BY <1>1 DEF FeedsGood

LEMMA WritePlaces ==
    ASSUME NEW f, NEW now, Good(f, now), NEW h, PlacesGood(h, DOMAIN f.sites), DOMAIN f.places \subseteq DOMAIN h
    PROVE  /\ Good([f EXCEPT !.places = h], now)
           /\ [f EXCEPT !.places = h].held = f.held /\ [f EXCEPT !.places = h].feeds = f.feeds
           /\ [f EXCEPT !.places = h].places = h /\ [f EXCEPT !.places = h].sites = f.sites
<1> PICK g : g = [f EXCEPT !.places = h]
  OBVIOUS
<1>1. /\ DOMAIN g = DOMAIN f /\ g.held = f.held /\ g.feeds = f.feeds /\ g.places = h
      /\ g.sites = f.sites /\ g.pumps = f.pumps /\ g.links = f.links
  BY FarmFields
<1>2. HeldGood(g.held, DOMAIN g.places, now)
  BY <1>1, MorePlaces DEF Good
<1>3. FeedsGood(g.feeds, Targets(g), g.pumps, now)
  <2>1. Targets(f) \subseteq Targets(g) /\ f.pumps \subseteq g.pumps
    BY <1>1 DEF Targets
  <2>2. FeedsGood(f.feeds, Targets(f), f.pumps, now)
    BY DEF Good
  <2> QED
    BY <1>1, <2>1, <2>2, MoreTargets
<1>4. Good(g, now)
  BY <1>1, <1>2, <1>3 DEF Good
<1> QED
  BY <1>1, <1>4

LEMMA WriteSites ==
    ASSUME NEW f, NEW now, Good(f, now), NEW h, SitesGood(h), DOMAIN f.sites \subseteq DOMAIN h
    PROVE  /\ Good([f EXCEPT !.sites = h], now)
           /\ [f EXCEPT !.sites = h].held = f.held /\ [f EXCEPT !.sites = h].feeds = f.feeds
           /\ [f EXCEPT !.sites = h].places = f.places /\ [f EXCEPT !.sites = h].sites = h
<1> PICK g : g = [f EXCEPT !.sites = h]
  OBVIOUS
<1>1. /\ DOMAIN g = DOMAIN f /\ g.held = f.held /\ g.feeds = f.feeds /\ g.places = f.places
      /\ g.sites = h /\ g.pumps = f.pumps /\ g.links = f.links
  BY FarmFields
<1>2. FeedsGood(g.feeds, Targets(g), g.pumps, now)
  <2>1. Targets(f) \subseteq Targets(g) /\ f.pumps \subseteq g.pumps
    BY <1>1 DEF Targets
  <2>2. FeedsGood(f.feeds, Targets(f), f.pumps, now)
    BY DEF Good
  <2> QED
    BY <1>1, <2>1, <2>2, MoreTargets
<1>3. PlacesGood(g.places, DOMAIN g.sites)
  BY <1>1 DEF Good, PlacesGood
<1>4. Good(g, now)
  BY <1>1, <1>2, <1>3 DEF Good
<1> QED
  BY <1>1, <1>4

-----------------------------------------------------------------------------
(* Names of places.  A place's record:                                     *)
PlaceRec == [name : FarmNames, aliases : SUBSET FarmNames, site : SiteIds \cup {NoSite}]

LEMMA NewPlace ==
    ASSUME NEW f, NEW now, Good(f, now), NEW p \in PlaceIds \ DOMAIN f.places, NEW name \in FarmNames,
           FindByAlias(f, name) = {}
    PROVE  LET g == NewLocation(f, p, name)
           IN  /\ Good(g, now) /\ g.held = f.held /\ g.feeds = f.feeds /\ g.sites = f.sites
               /\ DOMAIN g.places = DOMAIN f.places \cup {p}
               /\ \A q \in DOMAIN f.places : g.places[q] = f.places[q]
               /\ g.places[p].aliases = {name}
<1> PICK rec : rec = [name |-> name, aliases |-> {name}, site |-> NoSite]
  OBVIOUS
<1> PICK h : h = With(f.places, p, rec)
  OBVIOUS
<1>1. /\ DOMAIN h = DOMAIN f.places \cup {p} /\ h[p] = rec
      /\ \A q \in DOMAIN f.places : h[q] = f.places[q]
  BY DEF With
<1>2. rec \in PlaceRec /\ rec.aliases = {name} /\ rec.site = NoSite
  BY DEF PlaceRec
<1>3. \A q \in DOMAIN f.places : name \notin f.places[q].aliases
  BY DEF FindByAlias
<1>4. PlacesGood(f.places, DOMAIN f.sites)
  BY DEF Good
<1>5. \A q \in DOMAIN h : h[q] \in PlaceRec /\ h[q].site \in DOMAIN f.sites \cup {NoSite}
  BY <1>1, <1>2, <1>4 DEF PlacesGood, PlaceRec
<1>6. ASSUME NEW q \in DOMAIN h, NEW r \in DOMAIN h, q # r
      PROVE  h[q].aliases \cap h[r].aliases = {}
  <2>1. ASSUME NEW x \in DOMAIN f.places, NEW y \in DOMAIN f.places, x # y
        PROVE  f.places[x].aliases \cap f.places[y].aliases = {}
    BY <1>4, <2>1 DEF PlacesGood
  <2>2. CASE q = p
    <3>1. r \in DOMAIN f.places /\ h[r] = f.places[r] /\ h[q].aliases = {name}
      BY <1>1, <1>2, <1>6, <2>2
    <3> QED
      BY <1>3, <3>1
  <2>3. CASE r = p
    <3>1. q \in DOMAIN f.places /\ h[q] = f.places[q] /\ h[r].aliases = {name}
      BY <1>1, <1>2, <1>6, <2>3
    <3> QED
      BY <1>3, <3>1
  <2>4. CASE q # p /\ r # p
    <3>1. q \in DOMAIN f.places /\ h[q] = f.places[q] /\ r \in DOMAIN f.places /\ h[r] = f.places[r]
      BY <1>1, <2>4
    <3> QED
      BY <1>6, <2>1, <3>1
  <2> QED
    BY <2>2, <2>3, <2>4
<1>7. PlacesGood(h, DOMAIN f.sites)
  BY <1>1, <1>4, <1>5, <1>6 DEF PlacesGood, PlaceRec
<1>8. NewLocation(f, p, name) = [f EXCEPT !.places = h]
  BY DEF NewLocation
<1>9. DOMAIN f.places \subseteq DOMAIN h
  BY <1>1
<1> QED
  BY <1>1, <1>2, <1>7, <1>8, <1>9, WritePlaces

LEMMA CreatedKept ==
    ASSUME NEW f, NEW now, NEW rows, Good(f, now), NEW name \in FarmNames, PlaceIds \ DOMAIN f.places # {}
    PROVE  Kept(f, CreatedLocation(f, name).farm, now, rows)
<1>1. CASE FindByAlias(f, name) # {}
  <2>1. CreatedLocation(f, name).farm = f
    BY <1>1 DEF CreatedLocation, Refused
  <2> QED
    BY <2>1, KeptSame
<1>2. CASE FindByAlias(f, name) = {}
  <2>1. FreshPlace(f) \in PlaceIds \ DOMAIN f.places
    BY DEF FreshPlace
  <2>2. PICK g : g = NewLocation(f, FreshPlace(f), name)
    OBVIOUS
  <2>3. Good(g, now) /\ g.held = f.held /\ g.feeds = f.feeds
    BY <1>2, <2>1, <2>2, NewPlace
  <2>4. CreatedLocation(f, name).farm = g
    BY <1>2, <2>2 DEF CreatedLocation, Accepted
  <2> QED
    BY <2>3, <2>4, KeptSame
<1> QED
  BY <1>1, <1>2

LEMMA UpdatedKept ==
    ASSUME NEW f, NEW now, NEW rows, Good(f, now), NEW p \in PlaceIds, NEW name \in FarmNames
    PROVE  Kept(f, UpdatedLocation(f, p, name).farm, now, rows)
<1>1. CASE p \notin DOMAIN f.places \/ FindByAlias(f, name) \ {p} # {}
  <2>1. UpdatedLocation(f, p, name).farm = f
    BY <1>1 DEF UpdatedLocation, Refused
  <2> QED
    BY <2>1, KeptSame
<1>2. CASE p \in DOMAIN f.places /\ FindByAlias(f, name) \ {p} = {}
  <2>1. PICK rec : rec = [f.places[p] EXCEPT !.name = name, !.aliases = @ \cup {name}]
    OBVIOUS
  <2>2. PICK h : h = [f.places EXCEPT ![p] = rec]
    OBVIOUS
  <2>3. PlacesGood(f.places, DOMAIN f.sites)
    BY DEF Good
  <2>4. f.places[p] \in PlaceRec
    BY <1>2, <2>3 DEF PlacesGood, PlaceRec
  <2>5. rec \in PlaceRec /\ rec.aliases = f.places[p].aliases \cup {name} /\ rec.site = f.places[p].site
    BY <2>1, <2>4 DEF PlaceRec
  <2>6. DOMAIN h = DOMAIN f.places /\ h[p] = rec /\ \A q \in DOMAIN f.places \ {p} : h[q] = f.places[q]
    BY <1>2, <2>2
  <2>7. \A q \in DOMAIN f.places \ {p} : name \notin f.places[q].aliases
    BY <1>2 DEF FindByAlias
  <2>8. \A q \in DOMAIN h : h[q] \in PlaceRec /\ h[q].site \in DOMAIN f.sites \cup {NoSite}
    BY <1>2, <2>3, <2>5, <2>6 DEF PlacesGood, PlaceRec
  <2>9. \A q, r \in DOMAIN h : q # r => h[q].aliases \cap h[r].aliases = {}
    <3>1. \A q, r \in DOMAIN f.places : q # r => f.places[q].aliases \cap f.places[r].aliases = {}
      BY <2>3 DEF PlacesGood
    <3>2. \A q \in DOMAIN f.places \ {p} : rec.aliases \cap f.places[q].aliases = {}
      BY <1>2, <2>5, <2>7, <3>1
    <3> QED
      BY <2>6, <3>1, <3>2
  <2>10. PlacesGood(h, DOMAIN f.sites)
    BY <2>3, <2>6, <2>8, <2>9 DEF PlacesGood, PlaceRec
  <2>11. PICK g : g = [f EXCEPT !.places = h]
    OBVIOUS
  <2>12. Good(g, now) /\ g.held = f.held /\ g.feeds = f.feeds
    BY <2>6, <2>10, <2>11, WritePlaces
  <2>13. UpdatedLocation(f, p, name).farm = g
    <3>1. UpdatedLocation(f, p, name).farm = [f EXCEPT !.places[p].name = name, !.places[p].aliases = @ \cup {name}]
      BY <1>2 DEF UpdatedLocation, Accepted
    <3>2. "places" \in DOMAIN f
      BY FarmFields
    <3>3. [f EXCEPT !.places[p].name = name, !.places[p].aliases = @ \cup {name}] = g
      BY <1>2, <2>1, <2>2, <2>11, <3>2
    <3> QED
      BY <3>1, <3>3
  <2> QED
    BY <2>12, <2>13, KeptSame
<1> QED
  BY <1>1, <1>2

LEMMA PlaceSited ==
    ASSUME NEW f, NEW now, Good(f, now), NEW p \in DOMAIN f.places, NEW s \in DOMAIN f.sites \cup {NoSite}
    PROVE  /\ Good([f EXCEPT !.places[p].site = s], now)
           /\ [f EXCEPT !.places[p].site = s].held = f.held
           /\ [f EXCEPT !.places[p].site = s].feeds = f.feeds
           /\ [f EXCEPT !.places[p].site = s].sites = f.sites
           /\ DOMAIN [f EXCEPT !.places[p].site = s].places = DOMAIN f.places
<1>1. PICK rec : rec = [f.places[p] EXCEPT !.site = s]
  OBVIOUS
<1>2. PICK h : h = [f.places EXCEPT ![p] = rec]
  OBVIOUS
<1>3. PlacesGood(f.places, DOMAIN f.sites) /\ s \in SiteIds \cup {NoSite}
  BY DEF Good, SitesGood
<1>4. f.places[p] \in PlaceRec
  BY <1>3 DEF PlacesGood, PlaceRec
<1>5. rec \in PlaceRec /\ rec.aliases = f.places[p].aliases /\ rec.site = s
  BY <1>1, <1>3, <1>4 DEF PlaceRec
<1>6. DOMAIN h = DOMAIN f.places /\ h[p] = rec /\ \A q \in DOMAIN f.places \ {p} : h[q] = f.places[q]
  BY <1>2
<1>7. \A q \in DOMAIN h : h[q] \in PlaceRec /\ h[q].site \in DOMAIN f.sites \cup {NoSite}
  BY <1>3, <1>5, <1>6 DEF PlacesGood, PlaceRec
<1>8. \A q \in DOMAIN h : h[q].aliases = f.places[q].aliases
  BY <1>5, <1>6
<1>9. PlacesGood(h, DOMAIN f.sites)
  BY <1>3, <1>6, <1>7, <1>8 DEF PlacesGood, PlaceRec
<1>10. "places" \in DOMAIN f
  BY FarmFields
<1>11. [f EXCEPT !.places[p].site = s] = [f EXCEPT !.places = h]
  BY <1>1, <1>2, <1>10
<1> QED
  BY <1>6, <1>9, <1>11, WritePlaces

LEMMA SitedKept ==
    ASSUME NEW f, NEW now, NEW rows, Good(f, now), NEW p \in PlaceIds, NEW s \in SiteIds \cup {NoSite}
    PROVE  Kept(f, SetLocationSite(f, p, s).farm, now, rows)
<1>1. CASE p \notin DOMAIN f.places \/ s \notin DOMAIN f.sites \cup {NoSite}
  <2>1. SetLocationSite(f, p, s).farm = f
    BY <1>1 DEF SetLocationSite, Refused
  <2> QED
    BY <2>1, KeptSame
<1>2. CASE p \in DOMAIN f.places /\ s \in DOMAIN f.sites \cup {NoSite}
  <2>1. SetLocationSite(f, p, s).farm = [f EXCEPT !.places[p].site = s]
    BY <1>2 DEF SetLocationSite, Accepted
  <2>2. Good([f EXCEPT !.places[p].site = s], now) /\ [f EXCEPT !.places[p].site = s].held = f.held
        /\ [f EXCEPT !.places[p].site = s].feeds = f.feeds
    BY <1>2, PlaceSited
  <2> QED
    BY <2>1, <2>2, KeptSame
<1> QED
  BY <1>1, <1>2

-----------------------------------------------------------------------------
(* The pumps.                                                              *)
LEMMA CreatedPumpKept ==
    ASSUME NEW f, NEW now, NEW rows, Good(f, now), PumpIds \ f.pumps # {}
    PROVE  Kept(f, CreatedPump(f).farm, now, rows)
<1>1. FreshPump(f) \in PumpIds
  BY DEF FreshPump
<1>2. PICK h : h = f.pumps \cup {FreshPump(f)}
  OBVIOUS
<1>3. PICK g : g = [f EXCEPT !.pumps = h]
  OBVIOUS
<1>4. /\ DOMAIN g = DOMAIN f /\ g.held = f.held /\ g.feeds = f.feeds /\ g.places = f.places
      /\ g.sites = f.sites /\ g.pumps = h /\ g.links = f.links
  BY <1>3, FarmFields
<1>5. FeedsGood(g.feeds, Targets(g), g.pumps, now)
  <2>1. Targets(f) \subseteq Targets(g) /\ f.pumps \subseteq g.pumps
    BY <1>2, <1>4 DEF Targets
  <2>2. FeedsGood(f.feeds, Targets(f), f.pumps, now)
    BY DEF Good
  <2> QED
    BY <1>4, <2>1, <2>2, MoreTargets
<1>6. h \subseteq PumpIds
  BY <1>1, <1>2 DEF Good
<1>7. Good(g, now)
  BY <1>4, <1>5, <1>6 DEF Good
<1>8. CreatedPump(f).farm = g
  BY <1>2, <1>3 DEF CreatedPump, Accepted
<1> QED
  BY <1>4, <1>7, <1>8, KeptSame

LEMMA CutFeeds ==
    ASSUME NEW feeds, NEW targets, NEW pumps, NEW now \in Days, FeedsGood(feeds, targets, pumps, now), NEW cut
    PROVE  /\ FeedsGood(CutAll(feeds, cut, now), targets, pumps, now)
           /\ \A x, t : t \in Days /\ t < now => PumpsAt(CutAll(feeds, cut, now), x, t) = PumpsAt(feeds, x, t)
           /\ \A b \in CutAll(feeds, cut, now), t \in Days : InWindow(b, t) =>
                \E a \in feeds : a.target = b.target /\ (t < now \/ a \notin cut)
<1> PICK after : after = CutAll(feeds, cut, now)
  OBVIOUS
<1>1. ASSUME NEW a \in feeds
      PROVE  LET b == CutAt(a, cut, now)
             IN  /\ b \in Feed /\ DatedBy(b, now) /\ b.target = a.target /\ b.pump = a.pump
                 /\ \A t \in Days : InWindow(b, t) <=> (InWindow(a, t) /\ (t < now \/ a \notin cut))
  <2>1. a \in Feed /\ DatedBy(a, now)
    BY DEF FeedsGood
  <2>2. "end" \in DOMAIN a /\ a.begin \in Int /\ a.end \in EndDays
    BY <2>1, DayFacts DEF Feed
  <2>3. PICK b : b = CutAt(a, cut, now)
    OBVIOUS
  <2>4. /\ b.end \in EndDays /\ b.begin = a.begin /\ DatedBy(b, now)
        /\ DOMAIN b = DOMAIN a /\ \A x \in DOMAIN a \ {"end"} : b[x] = a[x]
        /\ \A t \in Days : InWindow(b, t) <=> (InWindow(a, t) /\ (t < now \/ a \notin cut))
    BY <2>1, <2>2, <2>3, CutWindow
  <2>5. b.target = a.target /\ b.pump = a.pump
    BY <2>1, <2>4 DEF Feed
  <2>6. b \in Feed
    <3>1. b = a \/ b = [a EXCEPT !.end = now]
      BY <2>3 DEF CutAt
    <3>2. now \in EndDays
      BY DayFacts
    <3> QED
      BY <2>1, <3>1, <3>2 DEF Feed
  <2> QED
    BY <2>3, <2>4, <2>5, <2>6
<1>2. ASSUME NEW x, NEW t \in Days
      PROVE  PumpsAt(after, x, t) \subseteq PumpsAt(feeds, x, t)
  <2> SUFFICES ASSUME NEW u \in PumpsAt(after, x, t) PROVE u \in PumpsAt(feeds, x, t)
    OBVIOUS
  <2>1. PICK b \in after : b.target = x /\ InWindow(b, t) /\ u = b.pump
    BY DEF PumpsAt
  <2>2. PICK a \in feeds : b = CutAt(a, cut, now)
    BY <2>1 DEF CutAll
  <2> QED
    BY <1>1, <2>1, <2>2 DEF PumpsAt
<1>3. ASSUME NEW x, NEW t \in Days, t < now
      PROVE  PumpsAt(feeds, x, t) \subseteq PumpsAt(after, x, t)
  <2> SUFFICES ASSUME NEW u \in PumpsAt(feeds, x, t) PROVE u \in PumpsAt(after, x, t)
    OBVIOUS
  <2>1. PICK a \in feeds : a.target = x /\ InWindow(a, t) /\ u = a.pump
    BY DEF PumpsAt
  <2>2. CutAt(a, cut, now) \in after
    BY DEF CutAll
  <2> QED
    BY <1>1, <1>3, <2>1, <2>2 DEF PumpsAt
<1>4. FeedsGood(after, targets, pumps, now)
  <2>1. ASSUME NEW b \in after PROVE b \in Feed /\ DatedBy(b, now) /\ b.target \in targets /\ b.pump \in pumps
    <3>1. PICK a \in feeds : b = CutAt(a, cut, now)
      BY DEF CutAll
    <3> QED
      BY <1>1, <3>1 DEF FeedsGood
  <2>2. \A x \in targets, t \in Days : AtMostOne(PumpsAt(after, x, t))
    BY <1>2 DEF FeedsGood, AtMostOne
  <2> QED
    BY <2>1, <2>2 DEF FeedsGood
<1>5. ASSUME NEW b \in after, NEW t \in Days, InWindow(b, t)
      PROVE  \E a \in feeds : a.target = b.target /\ (t < now \/ a \notin cut)
  <2>1. PICK a \in feeds : b = CutAt(a, cut, now)
    BY DEF CutAll
  <2> QED
    BY <1>1, <1>5, <2>1
<1>6. \A x, t : t \in Days /\ t < now => PumpsAt(after, x, t) = PumpsAt(feeds, x, t)
  BY <1>2, <1>3
<1> QED
  BY <1>4, <1>5, <1>6

LEMMA EndedPumpKept ==
    ASSUME NEW f, NEW now \in Days, NEW rows, Good(f, now), NEW x
    PROVE  Kept(f, EndedPump(f, x, now).farm, now, rows)
<1>1. CASE \A a \in FeedsOf(f, x) : ~IsOpen(a)
  <2>1. EndedPump(f, x, now).farm = f
    BY <1>1 DEF EndedPump, Refused
  <2> QED
    BY <2>1, KeptSame
<1>2. CASE ~\A a \in FeedsOf(f, x) : ~IsOpen(a)
  <2>1. PICK h : h = CutAll(f.feeds, FeedsOf(f, x), now)
    OBVIOUS
  <2>2. FeedsGood(f.feeds, Targets(f), f.pumps, now)
    BY DEF Good
  <2>3. /\ FeedsGood(h, Targets(f), f.pumps, now)
        /\ \A y, t : t \in Days /\ t < now => PumpsAt(h, y, t) = PumpsAt(f.feeds, y, t)
    BY <2>1, <2>2, CutFeeds
  <2>4. PICK g : g = [f EXCEPT !.feeds = h]
    OBVIOUS
  <2>5. Good(g, now) /\ g.held = f.held /\ g.feeds = h
    BY <2>3, <2>4, WriteFeeds
  <2>6. EndedPump(f, x, now).farm = g
    BY <1>2, <2>1, <2>4, EndedIsCut DEF EndedPump, Accepted
  <2>7. SharedPlaces(g) = SharedPlaces(f)
    BY <2>5 DEF SharedPlaces, Sharing
  <2>8. FeedsKept(f.feeds, g.feeds, now)
    BY <2>3, <2>5 DEF FeedsKept
  <2> QED
    BY <2>5, <2>6, <2>7, <2>8, PlacesKeptSame DEF Kept
<1> QED
  BY <1>1, <1>2

LEMMA AddFeed ==
    ASSUME NEW feeds, NEW targets, NEW pumps, NEW now \in Days, FeedsGood(feeds, targets, pumps, now),
           NEW new, new \in Feed, DatedBy(new, now), new.target \in targets, new.pump \in pumps,
           \A t \in Days : InWindow(new, t) => PumpsAt(feeds, new.target, t) = {}
    PROVE  /\ FeedsGood(feeds \cup {new}, targets, pumps, now)
           /\ \A x, t : t \in Days /\ ~(x = new.target /\ InWindow(new, t)) =>
                PumpsAt(feeds \cup {new}, x, t) = PumpsAt(feeds, x, t)
<1>1. ASSUME NEW x, NEW t \in Days, ~(x = new.target /\ InWindow(new, t))
      PROVE  PumpsAt(feeds \cup {new}, x, t) = PumpsAt(feeds, x, t)
  BY <1>1 DEF PumpsAt
<1>2. ASSUME NEW x \in targets, NEW t \in Days PROVE AtMostOne(PumpsAt(feeds \cup {new}, x, t))
  <2>1. CASE x = new.target /\ InWindow(new, t)
    <3>1. PumpsAt(feeds, x, t) = {}
      BY <2>1
    <3>2. PumpsAt(feeds \cup {new}, x, t) \subseteq {new.pump}
      BY <3>1 DEF PumpsAt
    <3> QED
      BY <3>2 DEF AtMostOne
  <2>2. CASE ~(x = new.target /\ InWindow(new, t))
    <3>1. AtMostOne(PumpsAt(feeds, x, t))
      BY DEF FeedsGood
    <3> QED
      BY <1>1, <2>2, <3>1
  <2> QED
    BY <2>1, <2>2
<1>3. FeedsGood(feeds \cup {new}, targets, pumps, now)
  BY <1>2 DEF FeedsGood
<1> QED
  BY <1>1, <1>3

LEMMA AssignedPumpKept ==
    ASSUME NEW f, NEW now \in Days, NEW rows, Good(f, now), NEW u \in PumpIds, NEW x \in SiteIds \cup PlaceIds
    PROVE  Kept(f, AssignedPump(f, u, x, now).farm, now, rows)
<1>1. CASE u \notin f.pumps \/ x \notin Targets(f) \/ \E a \in FeedsOf(f, x) : IsOpen(a) /\ a.pump = u
  <2>1. AssignedPump(f, u, x, now).farm = f
    BY <1>1 DEF AssignedPump, Refused, Accepted
  <2> QED
    BY <2>1, KeptSame
<1>2. CASE u \in f.pumps /\ x \in Targets(f) /\ ~\E a \in FeedsOf(f, x) : IsOpen(a) /\ a.pump = u
  <2>1. PICK h : h = CutAll(f.feeds, FeedsOf(f, x), now)
    OBVIOUS
  <2>2. FeedsGood(f.feeds, Targets(f), f.pumps, now)
    BY DEF Good
  <2>3. /\ FeedsGood(h, Targets(f), f.pumps, now)
        /\ \A y, t : t \in Days /\ t < now => PumpsAt(h, y, t) = PumpsAt(f.feeds, y, t)
        /\ \A b \in h, t \in Days : InWindow(b, t) =>
             \E a \in f.feeds : a.target = b.target /\ (t < now \/ a \notin FeedsOf(f, x))
    BY <2>1, <2>2, CutFeeds
  <2>4. PICK b : b = IF FeedsOf(f, x) = {} THEN Forever ELSE now
    OBVIOUS
  <2>5. b \in Begins /\ b <= now /\ b \in Int
    BY <2>4, DayFacts DEF Forever
  <2>6. PICK new : new = [pump |-> u, target |-> x, begin |-> b, end |-> Ongoing]
    OBVIOUS
  <2>7. new.pump = u /\ new.target = x /\ new.begin = b /\ new.end = Ongoing
    BY <2>6
  <2>8. new \in Feed
    BY <2>5, <2>6, DayFacts DEF Feed
  <2>9. DatedBy(new, now) /\ IsOpen(new)
    BY <2>5, <2>7 DEF DatedBy, IsOpen
  <2>10. ASSUME NEW t \in Days, InWindow(new, t) PROVE PumpsAt(h, x, t) = {}
    <3> SUFFICES ASSUME NEW c \in h, c.target = x, InWindow(c, t) PROVE FALSE
      BY DEF PumpsAt
    <3>1. PICK a \in f.feeds : a.target = x /\ (t < now \/ a \notin FeedsOf(f, x))
      BY <2>3
    <3>2. a \in FeedsOf(f, x)
      BY <3>1 DEF FeedsOf
    <3>3. b = now
      BY <2>4, <3>2
    <3>4. now <= t
      BY <2>7, <2>10, <3>3 DEF InWindow
    <3> QED
      BY <3>1, <3>2, <3>4, DayFacts
  <2>11. /\ FeedsGood(h \cup {new}, Targets(f), f.pumps, now)
         /\ \A y, t : t \in Days /\ ~(y = new.target /\ InWindow(new, t)) =>
              PumpsAt(h \cup {new}, y, t) = PumpsAt(h, y, t)
    <3>1. \A t \in Days : InWindow(new, t) => PumpsAt(h, new.target, t) = {}
      BY <2>7, <2>10
    <3>2. new.target \in Targets(f) /\ new.pump \in f.pumps
      BY <1>2, <2>7
    <3>3. FeedsGood(h, Targets(f), f.pumps, now)
      BY <2>3
    <3>4. DatedBy(new, now)
      BY <2>9
    <3> HIDE <2>3, <2>10
    <3>5. FeedsGood(h \cup {new}, Targets(f), f.pumps, now)
      BY <2>8, <3>1, <3>2, <3>3, <3>4, AddFeed
    <3>6. \A y, t : t \in Days /\ ~(y = new.target /\ InWindow(new, t)) =>
              PumpsAt(h \cup {new}, y, t) = PumpsAt(h, y, t)
      BY <2>8, <3>1, <3>2, <3>3, <3>4, AddFeed
    <3> QED
      BY <3>5, <3>6
  <2>12. PICK k : k = h \cup {new}
    OBVIOUS
  <2>13. PICK g : g = [f EXCEPT !.feeds = k]
    OBVIOUS
  <2>14. Good(g, now) /\ g.held = f.held /\ g.feeds = k
    BY <2>11, <2>12, <2>13, WriteFeeds
  <2>15. AssignedPump(f, u, x, now).farm = g
    <3>1. AssignedPump(f, u, x, now).farm =
            [f EXCEPT !.feeds = Ended(f.feeds, FeedsOf(f, x), now) \cup
               {[pump |-> u, target |-> x, begin |-> IF FeedsOf(f, x) = {} THEN Forever ELSE now,
                 end |-> Ongoing]}]
      BY <1>2 DEF AssignedPump, Accepted
    <3>2. Ended(f.feeds, FeedsOf(f, x), now) \cup
               {[pump |-> u, target |-> x, begin |-> IF FeedsOf(f, x) = {} THEN Forever ELSE now,
                 end |-> Ongoing]} = k
      BY <2>1, <2>4, <2>6, <2>12, EndedIsCut
    <3> QED
      BY <2>13, <3>1, <3>2
  <2>16. SharedPlaces(g) = SharedPlaces(f)
    BY <2>14 DEF SharedPlaces, Sharing
  <2>17. ASSUME NEW y, NEW t \in Days, t < now, ~(b = Forever /\ y = x)
         PROVE  PumpsAt(k, y, t) = PumpsAt(f.feeds, y, t)
    <3>1. PumpsAt(h, y, t) = PumpsAt(f.feeds, y, t)
      BY <2>3, <2>17
    <3>2. ~(y = new.target /\ InWindow(new, t))
      <4> SUFFICES ASSUME y = x PROVE ~(b <= t)
        BY <2>7 DEF InWindow
      <4>1. b = now
        BY <2>4, <2>17
      <4> QED
        BY <2>17, <4>1, DayFacts
    <3> QED
      BY <2>11, <2>12, <3>1, <3>2
  <2>18. ASSUME b = Forever PROVE FeedsOf(f, x) = {}
    BY <2>4, <2>18, DayFacts
  <2>19. FeedsKept(f.feeds, k, now)
    <3>1. ASSUME NEW y, NEW t \in Days, t < now, PumpsAt(f.feeds, y, t) # {}
          PROVE  PumpsAt(k, y, t) = PumpsAt(f.feeds, y, t)
      <4>1. ~(b = Forever /\ y = x)
        BY <2>18, <3>1 DEF FeedsOf, PumpsAt
      <4> QED
        BY <2>17, <3>1, <4>1
    <3>2. ASSUME \A a \in k \ f.feeds : ~(a.begin = Forever /\ IsOpen(a)), NEW y, NEW t \in Days, t < now
          PROVE  PumpsAt(k, y, t) = PumpsAt(f.feeds, y, t)
      <4>1. b # Forever
        <5> SUFFICES ASSUME b = Forever PROVE FALSE
          OBVIOUS
        <5>1. new \notin f.feeds
          BY <2>7, <2>18 DEF FeedsOf
        <5>2. new \in k
          BY <2>12
        <5> QED
          BY <2>7, <2>9, <3>2, <5>1, <5>2
      <4> QED
        BY <2>17, <3>2, <4>1
    <3> QED
      BY <3>1, <3>2 DEF FeedsKept
  <2> QED
    BY <2>14, <2>15, <2>16, <2>19, PlacesKeptSame DEF Kept
<1> QED
  BY <1>1, <1>2

-----------------------------------------------------------------------------
(* The connections of taps.                                                *)
CutLinks(links, some, now) ==
    [i \in DOMAIN links |-> IF i \in some THEN [links[i] EXCEPT !.end = now] ELSE links[i]]

LEMMA CutLinksGood ==
    ASSUME NEW links, NEW now \in Days, LinksGood(links, now), NEW some,
           \A i \in DOMAIN links : i \in some => IsOpen(links[i])
    PROVE  /\ LinksGood(CutLinks(links, some, now), now)
           /\ \A d, t : t \in Days => \A i \in Consumers(CutLinks(links, some, now), d, t) :
                i \in Consumers(links, d, t) /\ (t < now \/ i \notin some)
<1> PICK after : after = CutLinks(links, some, now)
  OBVIOUS
<1>1. PICK n \in Nat : links \in [1..n -> Link]
  BY SeqDef DEF LinksGood
<1>2. ASSUME NEW i \in DOMAIN links
      PROVE  /\ after[i] \in Link /\ DatedBy(after[i], now)
             /\ after[i].device = links[i].device /\ after[i].role = links[i].role
             /\ \A t \in Days : InWindow(after[i], t) => InWindow(links[i], t) /\ (t < now \/ i \notin some)
  <2>1. links[i] \in Link /\ DatedBy(links[i], now)
    BY <1>1 DEF LinksGood
  <2>2. "end" \in DOMAIN links[i] /\ links[i].begin \in Int /\ links[i].end \in EndDays
    BY <2>1, DayFacts DEF Link
  <2>3. PICK cut : cut = IF i \in some THEN {links[i]} ELSE {}
    OBVIOUS
  <2>4. PICK b : b = CutAt(links[i], cut, now)
    OBVIOUS
  <2>5. links[i] \in cut <=> i \in some
    BY <2>3
  <2>6. after[i] = b
    BY <2>4, <2>5 DEF CutLinks, CutAt
  <2>7. /\ b.end \in EndDays /\ b.begin = links[i].begin /\ DatedBy(b, now)
        /\ \A x \in DOMAIN links[i] \ {"end"} : b[x] = links[i][x]
        /\ \A t \in Days : InWindow(b, t) <=> (InWindow(links[i], t) /\ (t < now \/ links[i] \notin cut))
    BY <2>1, <2>2, <2>4, CutWindow
  <2>8. b.device = links[i].device /\ b.role = links[i].role
    BY <2>1, <2>7 DEF Link
  <2>9. b \in Link
    <3>1. b = links[i] \/ b = [links[i] EXCEPT !.end = now]
      BY <2>4 DEF CutAt
    <3>2. now \in EndDays
      BY DayFacts
    <3> QED
      BY <2>1, <3>1, <3>2 DEF Link
  <2> QED
    BY <2>5, <2>6, <2>7, <2>8, <2>9
<1>3. DOMAIN after = DOMAIN links /\ after \in [1..n -> Link]
  <2>1. DOMAIN after = DOMAIN links
    BY DEF CutLinks
  <2>2. after = [i \in DOMAIN after |-> after[i]]
    BY DEF CutLinks
  <2> QED
    BY <1>1, <1>2, <2>1, <2>2
<1>4. after \in Seq(Link)
  BY <1>3, SeqDef
<1>5. ASSUME NEW d, NEW t \in Days, NEW i \in Consumers(after, d, t)
      PROVE  i \in Consumers(links, d, t) /\ (t < now \/ i \notin some)
  BY <1>2, <1>3 DEF Consumers
<1>6. LinksGood(after, now)
  <2>1. \A d \in FarmTaps, t \in Days : AtMostOne(Consumers(after, d, t))
    BY <1>5 DEF LinksGood, AtMostOne
  <2> QED
    BY <1>2, <1>3, <1>4, <2>1 DEF LinksGood
<1> QED
  BY <1>5, <1>6

LEMMA AddLink ==
    ASSUME NEW links, NEW now \in Days, LinksGood(links, now), NEW new \in Link, DatedBy(new, now),
           \A t \in Days : new.role = "consumer" /\ InWindow(new, t) => Consumers(links, new.device, t) = {}
    PROVE  LinksGood(Append(links, new), now)
<1> PICK after : after = Append(links, new)
  OBVIOUS
<1>1. links \in Seq(Link)
  BY DEF LinksGood
<1>2. /\ after \in Seq(Link) /\ Len(after) = Len(links) + 1
      /\ \A i \in 1..Len(links) : after[i] = links[i]
      /\ after[Len(links) + 1] = new
  BY <1>1, AppendProperties
<1>3. DOMAIN links = 1..Len(links) /\ Len(links) \in Nat /\ DOMAIN after = 1..Len(links) + 1
  BY <1>1, <1>2
<1>4. \A i \in DOMAIN after : i \in DOMAIN links \/ i = Len(links) + 1
  BY <1>3
<1>5. \A i \in DOMAIN after : DatedBy(after[i], now)
  BY <1>2, <1>3, <1>4 DEF LinksGood
<1>6. ASSUME NEW d \in FarmTaps, NEW t \in Days, NEW x \in Consumers(after, d, t), NEW y \in Consumers(after, d, t)
      PROVE  x = y
  <2>1. ASSUME NEW i \in Consumers(after, d, t)
        PROVE  \/ i \in Consumers(links, d, t)
               \/ i = Len(links) + 1 /\ Consumers(links, d, t) = {}
    <3>1. CASE i \in DOMAIN links
      BY <1>2, <1>3, <3>1 DEF Consumers
    <3>2. CASE i = Len(links) + 1
      <4>1. new.device = d /\ new.role = "consumer" /\ InWindow(new, t)
        BY <1>2, <3>2 DEF Consumers
      <4> QED
        BY <3>2, <4>1
    <3> QED
      BY <1>4, <3>1, <3>2 DEF Consumers
  <2>2. AtMostOne(Consumers(links, d, t))
    BY DEF LinksGood
  <2>3. \/ x \in Consumers(links, d, t)
        \/ x = Len(links) + 1 /\ Consumers(links, d, t) = {}
    BY <2>1
  <2>4. \/ y \in Consumers(links, d, t)
        \/ y = Len(links) + 1 /\ Consumers(links, d, t) = {}
    BY <2>1
  <2> QED
    BY <2>2, <2>3, <2>4 DEF AtMostOne
<1> QED
  BY <1>2, <1>5, <1>6 DEF LinksGood, AtMostOne

LEMMA ConnectedKept ==
    ASSUME NEW f, NEW now \in Days, NEW rows, Good(f, now), NEW u \in PumpIds, NEW d \in FarmTaps,
           NEW role \in {"consumer", "monitor"}
    PROVE  Kept(f, ConnectedDevice(f, u, d, role, now).farm, now, rows)
<1> DEFINE mine == {i \in DOMAIN f.links : f.links[i].device = d}
           same == {i \in mine : IsOpen(f.links[i]) /\ f.links[i].pump = u}
           seen == IF same = {} THEN DOMAIN f.links ELSE 1..(Min(same) - 1)
           some == {i \in mine \cap seen : /\ IsOpen(f.links[i])
                                           /\ role = "consumer" /\ f.links[i].role = "consumer"}
           left == [i \in DOMAIN f.links |->
                   IF /\ i \in mine \cap seen /\ IsOpen(f.links[i])
                      /\ role = "consumer" /\ f.links[i].role = "consumer"
                   THEN [f.links[i] EXCEPT !.end = now] ELSE f.links[i]]
           link == [pump |-> u, device |-> d, role |-> role,
                 begin |-> IF mine = {} THEN Forever ELSE now, end |-> Ongoing]
<1>0. LinksGood(f.links, now)
  BY DEF Good
<1>1. CASE u \notin f.pumps
  <2>1. ConnectedDevice(f, u, d, role, now).farm = f
    BY <1>1 DEF ConnectedDevice, Refused
  <2> QED
    BY <2>1, KeptSame
<1>2. PICK h : h = CutLinks(f.links, some, now)
  OBVIOUS
<1>3. left = h
  BY <1>2 DEF CutLinks
<1>4. /\ LinksGood(h, now)
      /\ \A e, t : t \in Days => \A i \in Consumers(h, e, t) :
                i \in Consumers(f.links, e, t) /\ (t < now \/ i \notin some)
  <2>1. PICK s : s = some
    OBVIOUS
  <2>2. \A i \in DOMAIN f.links : i \in s => IsOpen(f.links[i])
    BY <2>1
  <2>3. h = CutLinks(f.links, s, now)
    BY <1>2, <2>1
  <2>4. /\ LinksGood(h, now)
        /\ \A e, t : t \in Days => \A i \in Consumers(h, e, t) :
                i \in Consumers(f.links, e, t) /\ (t < now \/ i \notin s)
    <3> HIDE DEF some, left
    <3> QED
      BY <1>0, <2>2, <2>3, CutLinksGood
  <2> QED
    BY <2>1, <2>4
<1>5. CASE u \in f.pumps /\ same # {}
  <2>1. ConnectedDevice(f, u, d, role, now).farm = [f EXCEPT !.links = left]
    BY <1>5 DEF ConnectedDevice, Refused
  <2>2. PICK g : g = [f EXCEPT !.links = h]
    OBVIOUS
  <2>3. Good(g, now) /\ g.held = f.held /\ g.feeds = f.feeds
    BY <1>4, <2>2, WriteLinks
  <2>4. ConnectedDevice(f, u, d, role, now).farm = g
    BY <1>3, <2>1, <2>2
  <2> QED
    BY <2>3, <2>4, KeptSame
<1>6. CASE u \in f.pumps /\ same = {}
  <2>1. ConnectedDevice(f, u, d, role, now).farm = [f EXCEPT !.links = Append(left, link)]
    BY <1>6 DEF ConnectedDevice, Accepted
  <2>2. PICK b : b = IF mine = {} THEN Forever ELSE now
    OBVIOUS
  <2>3. b \in Begins /\ b <= now
    BY <2>2, DayFacts
  <2>4. PICK new : new = [pump |-> u, device |-> d, role |-> role, begin |-> b, end |-> Ongoing]
    OBVIOUS
  <2>5. link = new /\ new.role = role /\ new.device = d /\ new.begin = b /\ new.end = Ongoing
    BY <2>2, <2>4
  <2>6. new \in Link
    BY <2>3, <2>4, DayFacts DEF Link
  <2>7. DatedBy(new, now)
    BY <2>3, <2>5 DEF DatedBy, IsOpen
  <2>8. ASSUME NEW t \in Days, new.role = "consumer", InWindow(new, t), NEW i \in Consumers(h, d, t)
        PROVE  FALSE
    <3>1. i \in Consumers(f.links, d, t) /\ (t < now \/ i \notin some)
      BY <1>4
    <3>2. i \in mine /\ f.links[i].role = "consumer" /\ InWindow(f.links[i], t)
      BY <3>1 DEF Consumers
    <3>3. b = now
      BY <2>2, <3>2
    <3>4. now <= t
      BY <2>5, <2>8, <3>3 DEF InWindow
    <3>5. ~(t < now)
      BY <3>4, DayFacts
    <3>6. i \notin some
      BY <3>1, <3>5
    <3>7. ~IsOpen(f.links[i])
      BY <1>6, <2>5, <2>8, <3>2, <3>6
    <3>8. f.links[i].end <= now /\ t < f.links[i].end
      BY <1>0, <3>2, <3>7 DEF LinksGood, DatedBy, InWindow
    <3>9. f.links[i].end \in Nat
      <4>1. f.links[i] \in Link
        BY <1>0, <3>2 DEF LinksGood
      <4> QED
        BY <4>1, DayFacts DEF Link
    <3> QED
      BY <3>5, <3>8, <3>9, DayFacts
  <2>9. LinksGood(Append(h, new), now)
    <3>1. \A t \in Days : new.role = "consumer" /\ InWindow(new, t) => Consumers(h, new.device, t) = {}
      BY <2>5, <2>8
    <3> QED
      BY <1>4, <2>6, <2>7, <3>1, AddLink
  <2>10. PICK k : k = Append(h, new)
    OBVIOUS
  <2>11. PICK g : g = [f EXCEPT !.links = k]
    OBVIOUS
  <2>12. Good(g, now) /\ g.held = f.held /\ g.feeds = f.feeds
    BY <2>9, <2>10, <2>11, WriteLinks
  <2>13. ConnectedDevice(f, u, d, role, now).farm = g
    BY <1>3, <2>1, <2>5, <2>10, <2>11
  <2> QED
    BY <2>12, <2>13, KeptSame
<1> QED
  BY <1>1, <1>5, <1>6

LEMMA DisconnectedKept ==
    ASSUME NEW f, NEW now \in Days, NEW rows, Good(f, now), NEW u \in PumpIds, NEW d \in FarmTaps
    PROVE  Kept(f, DisconnectedDevice(f, u, d, now).farm, now, rows)
<1> DEFINE open == {i \in DOMAIN f.links : f.links[i].pump = u /\ f.links[i].device = d /\ IsOpen(f.links[i])}
<1>1. CASE open = {}
  <2>1. DisconnectedDevice(f, u, d, now).farm = f
    BY <1>1 DEF DisconnectedDevice, Refused
  <2> QED
    BY <2>1, KeptSame
<1>2. CASE open # {}
  <2>1. LinksGood(f.links, now)
    BY DEF Good
  <2>2. open \subseteq Nat
    BY <2>1 DEF LinksGood
  <2>3. PICK m : m = Min(open)
    OBVIOUS
  <2>4. m \in open
    <3> HIDE DEF open
    <3> QED
      BY <1>2, <2>2, <2>3, LeastIn
  <2>5. PICK h : h = CutLinks(f.links, {m}, now)
    OBVIOUS
  <2>6. LinksGood(h, now)
    <3>1. \A i \in DOMAIN f.links : i \in {m} => IsOpen(f.links[i])
      BY <2>4
    <3> QED
      BY <2>1, <2>5, <3>1, CutLinksGood
  <2>7. PICK g : g = [f EXCEPT !.links = h]
    OBVIOUS
  <2>8. Good(g, now) /\ g.held = f.held /\ g.feeds = f.feeds
    BY <2>6, <2>7, WriteLinks
  <2>9. DisconnectedDevice(f, u, d, now).farm = [f EXCEPT !.links[m].end = now]
    BY <1>2, <2>3 DEF DisconnectedDevice, Accepted
  <2>10. [f.links EXCEPT ![m].end = now] = h
    BY <2>4, <2>5 DEF CutLinks
  <2>11. [f EXCEPT !.links[m].end = now] = g
    BY <2>7, <2>10
  <2> QED
    BY <2>8, <2>9, <2>11, KeptSame
<1> QED
  BY <1>1, <1>2

-----------------------------------------------------------------------------
(* The chain of the sites above a site, as far as it has come.             *)
Chained(f, s, c) ==
    /\ c \in Seq(DOMAIN f.sites) /\ Len(c) >= 1 /\ c[1] = s
    /\ \A i, j \in DOMAIN c : c[i] = c[j] => i = j
    /\ \A i \in DOMAIN c : i < Len(c) => f.sites[c[i]].parent = c[i + 1]
Ends(f, c) == f.sites[c[Len(c)]].parent = NoSite \/ \E i \in DOMAIN c : c[i] = f.sites[c[Len(c)]].parent

LEMMA UpwardsChained ==
    ASSUME NEW f, SitesGood(f.sites), NEW s \in DOMAIN f.sites, NEW c, Chained(f, s, c)
    PROVE  /\ Chained(f, s, Upwards(f, c))
           /\ Ends(f, c) => Upwards(f, c) = c
           /\ ~Ends(f, c) => Len(Upwards(f, c)) = Len(c) + 1
<1>1. /\ c \in Seq(DOMAIN f.sites) /\ Len(c) \in Nat /\ Len(c) >= 1 /\ DOMAIN c = 1..Len(c)
      /\ Len(c) \in DOMAIN c /\ c # <<>>
  BY DEF Chained
<1>2. PICK up : up = f.sites[c[Len(c)]].parent
  OBVIOUS
<1>3. CASE Ends(f, c)
  <2>1. Upwards(f, c) = c
    BY <1>3 DEF Upwards, Ends
  <2> QED
    BY <1>3, <2>1
<1>4. CASE ~Ends(f, c)
  <2>1. up # NoSite /\ \A i \in DOMAIN c : c[i] # up
    BY <1>2, <1>4 DEF Ends
  <2>2. Upwards(f, c) = Append(c, up)
    BY <1>1, <1>2, <2>1 DEF Upwards
  <2>3. c[Len(c)] \in DOMAIN f.sites
    BY <1>1
  <2>4. up \in DOMAIN f.sites
    BY <1>2, <2>1, <2>3 DEF SitesGood
  <2>5. PICK d : d = Append(c, up)
    OBVIOUS
  <2>6. /\ d \in Seq(DOMAIN f.sites) /\ Len(d) = Len(c) + 1
        /\ \A i \in 1..Len(c) : d[i] = c[i]
        /\ d[Len(c) + 1] = up
    BY <1>1, <2>4, <2>5, AppendProperties
  <2>7. DOMAIN d = 1..(Len(c) + 1)
    BY <2>6
  <2>8. ASSUME NEW i \in DOMAIN d, NEW j \in DOMAIN d, d[i] = d[j] PROVE i = j
    <3>1. (i \in DOMAIN c /\ d[i] = c[i]) \/ (i = Len(c) + 1 /\ d[i] = up)
      BY <1>1, <2>6, <2>7
    <3>2. (j \in DOMAIN c /\ d[j] = c[j]) \/ (j = Len(c) + 1 /\ d[j] = up)
      BY <1>1, <2>6, <2>7
    <3> QED
      BY <2>1, <2>8, <3>1, <3>2 DEF Chained
  <2>9. ASSUME NEW i \in DOMAIN d, i < Len(d) PROVE f.sites[d[i]].parent = d[i + 1]
    <3>1. i \in DOMAIN c /\ d[i] = c[i]
      BY <1>1, <2>6, <2>7, <2>9
    <3>2. CASE i < Len(c)
      <4>1. f.sites[c[i]].parent = c[i + 1]
        BY <3>1, <3>2 DEF Chained
      <4>2. i + 1 \in 1..Len(c)
        BY <1>1, <3>1, <3>2
      <4> QED
        BY <2>6, <3>1, <4>1, <4>2
    <3>3. CASE i = Len(c)
      BY <1>2, <2>6, <3>1, <3>3
    <3> QED
      BY <1>1, <3>1, <3>2, <3>3
  <2>10. d[1] = s
    BY <1>1, <2>6 DEF Chained
  <2>11. Chained(f, s, d)
    BY <1>1, <2>6, <2>8, <2>9, <2>10 DEF Chained
  <2> QED
    BY <1>4, <2>2, <2>5, <2>6, <2>11
<1> QED
  BY <1>3, <1>4

LEMMA ChainSteps ==
    ASSUME NEW f, NEW s, s # NoSite, NEW K, K \in Nat, K = Cardinality(DOMAIN f.sites)
    PROVE  \E g : /\ g = [n \in 0..K |-> IF n = 0 THEN <<s>> ELSE Upwards(f, g[n - 1])]
                  /\ SiteChain(f, s) = g[K]
<1> DEFINE F(g, k) == [n \in 0..k |-> IF n = 0 THEN IF s = NoSite THEN <<>> ELSE <<s>> ELSE Upwards(f, g[n - 1])]
<1> DEFINE S == {k \in Nat : \E g : g = F(g, k)}
<1>1. 0 \in S
  <2>1. PICK g : g = [n \in 0..0 |-> <<s>>]
    OBVIOUS
  <2>2. g = F(g, 0)
    BY <2>1
  <2> QED
    BY <2>2
<1>2. ASSUME NEW k \in Nat, k \in S PROVE k + 1 \in S
  <2>1. PICK g : g = F(g, k)
    BY <1>2
  <2>2. PICK h : h = [n \in 0..(k + 1) |-> IF n = k + 1 THEN Upwards(f, g[k]) ELSE g[n]]
    OBVIOUS
  <2>3. \A n \in 0..k : h[n] = g[n]
    BY <2>2
  <2>4. \A n \in 0..(k + 1) : h[n] = F(h, k + 1)[n]
    BY <2>1, <2>2, <2>3
  <2>5. h = F(h, k + 1)
    BY <2>2, <2>4
  <2> QED
    BY <2>5
<1>3. K \in S
  BY <1>1, <1>2, NatInduct
<1> DEFINE chain == CHOOSE g : g = F(g, K)
<1>4. chain = F(chain, K)
  BY <1>3
<1>5. SiteChain(f, s) = chain[K]
  BY DEF SiteChain
<1>6. chain = [n \in 0..K |-> IF n = 0 THEN <<s>> ELSE Upwards(f, chain[n - 1])]
  BY <1>4
<1> QED
  BY <1>5, <1>6

(* It comes to its end: the sites are too few for a longer one.            *)
LEMMA ChainEnds ==
    ASSUME NEW f, SitesGood(f.sites), NEW s \in DOMAIN f.sites
    PROVE  Chained(f, s, SiteChain(f, s)) /\ Ends(f, SiteChain(f, s))
<1>1. IsFiniteSet(DOMAIN f.sites)
  BY FarmAssumption, FS_Subset DEF SitesGood
<1>2. PICK K : K \in Nat /\ K = Cardinality(DOMAIN f.sites)
  BY <1>1, FS_CardinalityType
<1>3. s # NoSite
  BY FarmAssumption DEF SitesGood
<1>4. PICK g : /\ g = [n \in 0..K |-> IF n = 0 THEN <<s>> ELSE Upwards(f, g[n - 1])]
               /\ SiteChain(f, s) = g[K]
  BY <1>2, <1>3, ChainSteps
<1> DEFINE P(n) == Chained(f, s, g[n]) /\ (Len(g[n]) = n + 1 \/ Ends(f, g[n]))
<1> DEFINE T == {n \in Nat : n \in 0..K => P(n)}
<1>5. 0 \in T
  <2>1. g[0] = <<s>>
    BY <1>2, <1>4
  <2>2. <<s>> \in Seq(DOMAIN f.sites) /\ Len(<<s>>) = 1 /\ <<s>>[1] = s /\ DOMAIN <<s>> = 1..1
    <3>1. PICK D : D = DOMAIN f.sites
      OBVIOUS
    <3>2. PICK c : c = <<s>>
      OBVIOUS
    <3>3. c \in Seq(D) /\ Len(c) = 1 /\ c[1] = s
      <4>0. s \in D
        BY <3>1
      <4>1. c \in Seq(D)
        BY <3>2, <4>0
      <4>2. Len(c) = 1
        BY <3>2
      <4>3. c[1] = s
        BY <3>2
      <4> QED
        BY <4>1, <4>2, <4>3
    <3>4. DOMAIN c = 1..1
      BY <3>3
    <3> QED
      BY <3>1, <3>2, <3>3, <3>4
  <2>3. Chained(f, s, <<s>>)
    BY <2>2 DEF Chained
  <2> QED
    BY <2>1, <2>2, <2>3
<1>6. ASSUME NEW n \in Nat, n \in T PROVE n + 1 \in T
  <2> SUFFICES ASSUME n + 1 \in 0..K PROVE P(n + 1)
    <3>1. n + 1 \in Nat
      OBVIOUS
    <3> HIDE DEF P
    <3> QED
      BY <3>1
  <2>1. n \in 0..K /\ (n + 1) - 1 = n /\ n + 1 # 0
    BY <1>2
  <2>2. g[n + 1] = Upwards(f, g[n])
    BY <1>4, <2>1
  <2>3. PICK c : c = g[n]
    OBVIOUS
  <2>4. Chained(f, s, c) /\ (Len(c) = n + 1 \/ Ends(f, c))
    BY <1>6, <2>1, <2>3
  <2>5. /\ Chained(f, s, Upwards(f, c))
        /\ Ends(f, c) => Upwards(f, c) = c
        /\ ~Ends(f, c) => Len(Upwards(f, c)) = Len(c) + 1
    BY <2>4, UpwardsChained
  <2> QED
    BY <2>2, <2>3, <2>4, <2>5
<1>7. K \in T
  <2> HIDE DEF T
  <2> QED
    BY <1>2, <1>5, <1>6, NatInduct
<1>8. PICK c : c = SiteChain(f, s)
  OBVIOUS
<1>9. Chained(f, s, c) /\ (Len(c) = K + 1 \/ Ends(f, c))
  BY <1>2, <1>4, <1>7, <1>8
<1>10. ASSUME Len(c) = K + 1 PROVE FALSE
  <2>1. c \in [1..(K + 1) -> DOMAIN f.sites]
    <3>1. c \in Seq(DOMAIN f.sites)
      BY <1>9 DEF Chained
    <3> QED
      BY <1>10, <3>1
  <2>2. IsFiniteSet(1..(K + 1)) /\ Cardinality(1..(K + 1)) = K + 1
    <3>1. 1 \in Int /\ K + 1 \in Int /\ ~(1 > K + 1) /\ (K + 1) - 1 + 1 = K + 1
      BY <1>2
    <3> QED
      BY <3>1, FS_Interval
  <2>3. Cardinality(DOMAIN f.sites) < Cardinality(1..(K + 1))
    BY <1>2, <2>2
  <2>4. PICK x \in 1..(K + 1), y \in 1..(K + 1) : x # y /\ c[x] = c[y]
    BY <1>1, <2>1, <2>2, <2>3, FS_PigeonHole
  <2>5. DOMAIN c = 1..(K + 1)
    BY <2>1
  <2> QED
    BY <1>9, <2>4, <2>5 DEF Chained
<1> QED
  BY <1>8, <1>9, <1>10

(* A site is no ancestor of its parent, in a forest.                       *)
LEMMA NoCircle ==
    ASSUME NEW f, SitesGood(f.sites), NEW s \in DOMAIN f.sites, f.sites[s].parent # NoSite
    PROVE  f.sites[s].parent \in DOMAIN f.sites /\ s \notin Ancestors(f, f.sites[s].parent)
<1>1. PICK p : p = f.sites[s].parent /\ p \in DOMAIN f.sites
  BY DEF SitesGood
<1>2. PICK c : c = SiteChain(f, p)
  OBVIOUS
<1>3. Chained(f, p, c)
  BY <1>1, <1>2, ChainEnds
<1>4. c \in Seq(DOMAIN f.sites) /\ Len(c) \in Nat /\ Len(c) >= 1 /\ DOMAIN c = 1..Len(c) /\ c[1] = p
  BY <1>3 DEF Chained
<1>5. ASSUME s \in Ancestors(f, p) PROVE FALSE
  <2>1. PICK k \in DOMAIN c : c[k] = s
    BY <1>2, <1>5 DEF Ancestors
  <2>2. PICK S : S = {c[i] : i \in 1..k}
    OBVIOUS
  <2>3. 1..k \subseteq DOMAIN c /\ 1 \in 1..k /\ k \in 1..k /\ k \in Nat
    BY <1>4, <2>1
  <2>4. S \in SUBSET DOMAIN f.sites /\ S # {}
    BY <1>4, <2>2, <2>3
  <2>5. ASSUME NEW x \in S PROVE f.sites[x].parent \in S
    <3>1. PICK i \in 1..k : x = c[i]
      BY <2>2
    <3>2. CASE i = k
      BY <1>1, <1>4, <2>1, <2>2, <2>3, <3>1, <3>2
    <3>3. CASE i # k
      <4>1. i \in DOMAIN c /\ i < Len(c) /\ i + 1 \in 1..k
        BY <1>4, <2>1, <2>3, <3>3
      <4>2. f.sites[c[i]].parent = c[i + 1]
        BY <1>3, <4>1 DEF Chained
      <4> QED
        BY <2>2, <3>1, <4>1, <4>2
    <3> QED
      BY <3>2, <3>3
  <2> QED
    BY <2>4, <2>5 DEF SitesGood, ForestOf
<1> QED
  BY <1>1, <1>5

(* What is above a site is closed upwards.                                 *)
LEMMA AncestorsUp ==
    ASSUME NEW f, SitesGood(f.sites), NEW p \in DOMAIN f.sites
    PROVE  /\ p \in Ancestors(f, p) /\ Ancestors(f, p) \subseteq DOMAIN f.sites
           /\ \A x \in Ancestors(f, p) : f.sites[x].parent = NoSite \/ f.sites[x].parent \in Ancestors(f, p)
<1>1. PICK c : c = SiteChain(f, p)
  OBVIOUS
<1>2. Chained(f, p, c) /\ Ends(f, c)
  BY <1>1, ChainEnds
<1>3. Ancestors(f, p) = {c[i] : i \in DOMAIN c}
  BY <1>1 DEF Ancestors
<1>4. c \in Seq(DOMAIN f.sites) /\ Len(c) \in Nat /\ Len(c) >= 1 /\ DOMAIN c = 1..Len(c) /\ c[1] = p
  BY <1>2 DEF Chained
<1>5. ASSUME NEW x \in Ancestors(f, p)
      PROVE  f.sites[x].parent = NoSite \/ f.sites[x].parent \in Ancestors(f, p)
  <2>1. PICK i \in DOMAIN c : x = c[i]
    BY <1>3
  <2>2. CASE i < Len(c)
    <3>1. f.sites[c[i]].parent = c[i + 1] /\ i + 1 \in DOMAIN c
      BY <1>2, <1>4, <2>2 DEF Chained
    <3> QED
      BY <1>3, <2>1, <3>1
  <2>3. CASE i = Len(c)
    BY <1>2, <1>3, <2>1, <2>3 DEF Ends
  <2> QED
    BY <1>4, <2>2, <2>3
<1> QED
  BY <1>3, <1>4, <1>5

SiteRec == [name : FarmNames, parent : SiteIds \cup {NoSite}]

LEMMA MovedGood ==
    ASSUME NEW f, NEW now, Good(f, now), NEW s \in DOMAIN f.sites, NEW parent \in SiteIds \cup {NoSite}
    PROVE  LET g == MovedSite(f, s, parent).farm
           IN  Good(g, now) /\ g.held = f.held /\ g.feeds = f.feeds
<1>0. SitesGood(f.sites)
  BY DEF Good
<1>1. CASE parent # NoSite /\ (parent \notin DOMAIN f.sites \/ s \in Ancestors(f, parent))
  <2>1. MovedSite(f, s, parent).farm = f
    BY <1>1 DEF MovedSite, Refused
  <2> QED
    BY <2>1
<1>2. CASE ~(parent # NoSite /\ (parent \notin DOMAIN f.sites \/ s \in Ancestors(f, parent)))
  <2>1. PICK rec : rec = [f.sites[s] EXCEPT !.parent = parent]
    OBVIOUS
  <2>2. PICK h : h = [f.sites EXCEPT ![s] = rec]
    OBVIOUS
  <2>3. f.sites[s] \in SiteRec
    BY <1>0 DEF SitesGood, SiteRec
  <2>4. rec \in SiteRec /\ rec.parent = parent
    BY <2>1, <2>3 DEF SiteRec
  <2>5. DOMAIN h = DOMAIN f.sites /\ h[s] = rec /\ \A x \in DOMAIN f.sites \ {s} : h[x] = f.sites[x]
    BY <2>2
  <2>6. parent \in DOMAIN f.sites \cup {NoSite}
    BY <1>2
  <2>7. \A x \in DOMAIN h : h[x] \in SiteRec /\ h[x].parent \in DOMAIN h \cup {NoSite}
    BY <1>0, <2>4, <2>5, <2>6 DEF SitesGood, SiteRec
  <2>8. ForestOf(h)
    <3> SUFFICES ASSUME NEW S \in SUBSET DOMAIN f.sites, S # {}, \A x \in S : h[x].parent \in S
                 PROVE  FALSE
      BY <2>5 DEF ForestOf
    <3>1. NoSite \notin DOMAIN f.sites
      BY <1>0, FarmAssumption DEF SitesGood
    <3>2. CASE s \notin S
      <4>1. \A x \in S : f.sites[x].parent \in S
        BY <2>5, <3>2
      <4> QED
        BY <1>0, <4>1 DEF SitesGood, ForestOf
    <3>3. CASE s \in S
      <4>1. parent \in S /\ parent \in DOMAIN f.sites /\ parent # NoSite
        BY <2>4, <2>5, <3>1, <3>3
      <4>2. s \notin Ancestors(f, parent)
        BY <1>2, <4>1
      <4>3. /\ parent \in Ancestors(f, parent)
            /\ \A x \in Ancestors(f, parent) : f.sites[x].parent = NoSite \/ f.sites[x].parent \in Ancestors(f, parent)
        BY <1>0, <4>1, AncestorsUp
      <4>4. PICK T : T = S \cap Ancestors(f, parent)
        OBVIOUS
      <4>5. T # {} /\ T \in SUBSET DOMAIN f.sites
        BY <4>1, <4>3, <4>4
      <4>6. ASSUME NEW x \in T PROVE f.sites[x].parent \in T
        <5>1. x \in S /\ x \in Ancestors(f, parent) /\ x # s
          BY <4>2, <4>4
        <5>2. h[x] = f.sites[x] /\ h[x].parent \in S
          BY <2>5, <5>1
        <5>3. f.sites[x].parent # NoSite
          BY <3>1, <5>2
        <5> QED
          BY <4>3, <4>4, <5>1, <5>2, <5>3
      <4> QED
        BY <1>0, <4>5, <4>6 DEF SitesGood, ForestOf
    <3> QED
      BY <3>2, <3>3
  <2>9. SitesGood(h)
    BY <1>0, <2>5, <2>7, <2>8 DEF SitesGood, SiteRec
  <2>10. MovedSite(f, s, parent).farm = [f EXCEPT !.sites[s].parent = parent]
    BY <1>2 DEF MovedSite, Accepted
  <2>11. "sites" \in DOMAIN f
    BY FarmFields
  <2>12. [f EXCEPT !.sites[s].parent = parent] = [f EXCEPT !.sites = h]
    BY <2>1, <2>2, <2>11
  <2> QED
    BY <2>5, <2>9, <2>10, <2>12, WriteSites
<1> QED
  BY <1>1, <1>2

LEMMA UpdatedSiteKept ==
    ASSUME NEW f, NEW now, NEW rows, Good(f, now), NEW s \in SiteIds, NEW name \in FarmNames,
           NEW parent \in SiteIds \cup {NoSite}
    PROVE  Kept(f, UpdatedSite(f, s, name, parent).farm, now, rows)
<1>1. CASE s \notin DOMAIN f.sites \/ NamedSites(f, name) \ {s} # {}
  <2>1. UpdatedSite(f, s, name, parent).farm = f
    BY <1>1 DEF UpdatedSite, Refused
  <2> QED
    BY <2>1, KeptSame
<1>2. CASE ~(s \notin DOMAIN f.sites \/ NamedSites(f, name) \ {s} # {})
  <2>0. SitesGood(f.sites) /\ s \in DOMAIN f.sites
    BY <1>2 DEF Good
  <2>1. PICK rec : rec = [f.sites[s] EXCEPT !.name = name]
    OBVIOUS
  <2>2. PICK h : h = [f.sites EXCEPT ![s] = rec]
    OBVIOUS
  <2>3. f.sites[s] \in SiteRec
    BY <2>0 DEF SitesGood, SiteRec
  <2>4. rec \in SiteRec /\ rec.parent = f.sites[s].parent
    BY <2>1, <2>3 DEF SiteRec
  <2>5. DOMAIN h = DOMAIN f.sites /\ h[s] = rec /\ \A x \in DOMAIN f.sites \ {s} : h[x] = f.sites[x]
    BY <2>0, <2>2
  <2>6. \A x \in DOMAIN f.sites : h[x] \in SiteRec /\ h[x].parent = f.sites[x].parent
    BY <2>0, <2>4, <2>5 DEF SitesGood, SiteRec
  <2>7. ForestOf(h)
    BY <2>0, <2>5, <2>6 DEF SitesGood, ForestOf
  <2>8. SitesGood(h)
    BY <2>0, <2>5, <2>6, <2>7 DEF SitesGood, SiteRec
  <2>9. PICK g : g = [f EXCEPT !.sites[s].name = name]
    OBVIOUS
  <2>10. g = [f EXCEPT !.sites = h]
    BY <2>1, <2>2, <2>9, FarmFields
  <2>11. Good(g, now) /\ g.held = f.held /\ g.feeds = f.feeds /\ g.sites = h
    BY <2>5, <2>8, <2>10, WriteSites
  <2>12. UpdatedSite(f, s, name, parent) = MovedSite(g, s, parent)
    BY <1>2, <2>9 DEF UpdatedSite
  <2>13. PICK k : k = MovedSite(g, s, parent).farm
    OBVIOUS
  <2>14. Good(k, now) /\ k.held = g.held /\ k.feeds = g.feeds
    BY <2>0, <2>5, <2>11, <2>13, MovedGood
  <2> QED
    BY <2>11, <2>12, <2>13, <2>14, KeptSame
<1> QED
  BY <1>1, <1>2

LEMMA SiteAdded ==
    ASSUME NEW f, NEW now, Good(f, now), NEW s \in SiteIds \ DOMAIN f.sites, NEW name \in FarmNames
    PROVE  LET g == NewSite(f, s, name)
           IN  /\ Good(g, now) /\ g.held = f.held /\ g.feeds = f.feeds /\ g.places = f.places
               /\ DOMAIN g.sites = DOMAIN f.sites \cup {s} /\ g.sites[s].name = name
               /\ \A x \in DOMAIN f.sites : g.sites[x] = f.sites[x]
<1>0. SitesGood(f.sites)
  BY DEF Good
<1>1. PICK rec : rec = [name |-> name, parent |-> NoSite]
  OBVIOUS
<1>2. rec \in SiteRec /\ rec.parent = NoSite /\ rec.name = name
  BY <1>1 DEF SiteRec
<1>3. PICK h : h = With(f.sites, s, rec)
  OBVIOUS
<1>4. DOMAIN h = DOMAIN f.sites \cup {s} /\ h[s] = rec /\ \A x \in DOMAIN f.sites : h[x] = f.sites[x]
  BY <1>3 DEF With
<1>5. \A x \in DOMAIN h : h[x] \in SiteRec /\ h[x].parent \in DOMAIN h \cup {NoSite}
  BY <1>0, <1>2, <1>4 DEF SitesGood, SiteRec
<1>6. ForestOf(h)
  <2> SUFFICES ASSUME NEW S \in SUBSET DOMAIN h, S # {}, \A x \in S : h[x].parent \in S
               PROVE  FALSE
    BY DEF ForestOf
  <2>1. s \notin S
    BY <1>0, <1>2, <1>4, FarmAssumption DEF SitesGood
  <2>2. S \in SUBSET DOMAIN f.sites /\ \A x \in S : f.sites[x].parent \in S
    BY <1>4, <2>1
  <2> QED
    BY <1>0, <2>2 DEF SitesGood, ForestOf
<1>7. SitesGood(h)
  BY <1>0, <1>4, <1>5, <1>6 DEF SitesGood, SiteRec
<1>8. DOMAIN f.sites \subseteq DOMAIN h
  BY <1>4
<1> QED
  BY <1>1, <1>2, <1>3, <1>4, <1>7, <1>8, WriteSites DEF NewSite

LEMMA CreatedSiteKept ==
    ASSUME NEW f, NEW now, NEW rows, Good(f, now), NEW name \in FarmNames,
           NEW parent \in SiteIds \cup {NoSite}, SiteIds \ DOMAIN f.sites # {}
    PROVE  Kept(f, CreatedSite(f, name, parent).farm, now, rows)
<1>1. CASE NamedSites(f, name) # {}
  <2>1. CreatedSite(f, name, parent).farm = f
    BY <1>1 DEF CreatedSite, Refused
  <2> QED
    BY <2>1, KeptSame
<1>2. CASE NamedSites(f, name) = {}
  <2>1. PICK s : s = FreshSite(f)
    OBVIOUS
  <2>2. s \in SiteIds \ DOMAIN f.sites
    BY <2>1 DEF FreshSite
  <2>3. PICK g : g = NewSite(f, s, name)
    OBVIOUS
  <2>4. Good(g, now) /\ g.held = f.held /\ g.feeds = f.feeds /\ DOMAIN g.sites = DOMAIN f.sites \cup {s}
    BY <2>2, <2>3, SiteAdded
  <2>5. CreatedSite(f, name, parent) = IF parent = NoSite THEN Accepted(g) ELSE MovedSite(g, s, parent)
    BY <1>2, <2>1, <2>3 DEF CreatedSite
  <2>6. CASE parent = NoSite
    <3>1. CreatedSite(f, name, parent).farm = g
      BY <2>5, <2>6 DEF Accepted
    <3> QED
      BY <2>4, <3>1, KeptSame
  <2>7. CASE parent # NoSite
    <3>1. PICK k : k = MovedSite(g, s, parent).farm
      OBVIOUS
    <3>2. Good(k, now) /\ k.held = g.held /\ k.feeds = g.feeds
      BY <2>4, <3>1, MovedGood
    <3>3. CreatedSite(f, name, parent).farm = k
      BY <2>5, <2>7, <3>1
    <3> QED
      BY <2>4, <3>2, <3>3, KeptSame
  <2> QED
    BY <2>6, <2>7
<1> QED
  BY <1>1, <1>2

LEMMA DeletedSiteKept ==
    ASSUME NEW f, NEW now, NEW rows, Good(f, now), NEW s \in SiteIds
    PROVE  Kept(f, DeletedSite(f, s).farm, now, rows)
<1> DEFINE refused == \/ s \notin DOMAIN f.sites
                      \/ \E t \in DOMAIN f.sites : f.sites[t].parent = s
                      \/ \E p \in DOMAIN f.places : f.places[p].site = s
                      \/ \E a \in f.feeds : a.target = s
<1>1. CASE refused
  <2>1. DeletedSite(f, s).farm = f
    BY <1>1 DEF DeletedSite, Refused
  <2> QED
    BY <2>1, KeptSame
<1>2. CASE ~refused
  <2>1. PICK left : left = Without(f.sites, s)
    OBVIOUS
  <2>2. PICK g : g = [f EXCEPT !.sites = left]
    OBVIOUS
  <2>3. DeletedSite(f, s).farm = g
    BY <1>2, <2>1, <2>2 DEF DeletedSite, Accepted
  <2>4. /\ DOMAIN g = DOMAIN f /\ g.held = f.held /\ g.places = f.places /\ g.feeds = f.feeds
        /\ g.sites = left /\ g.pumps = f.pumps /\ g.links = f.links
    BY <2>2, FarmFields
  <2>5. DOMAIN left = DOMAIN f.sites \ {s} /\ \A x \in DOMAIN left : left[x] = f.sites[x]
    BY <2>1 DEF Without
  <2>6. SitesGood(left)
    <3>1. SitesGood(f.sites)
      BY DEF Good
    <3>2. \A x \in DOMAIN left : left[x].parent \in DOMAIN left \cup {NoSite}
      BY <1>2, <2>5, <3>1 DEF SitesGood
    <3>3. ForestOf(left)
      BY <2>5, <3>1 DEF SitesGood, ForestOf
    <3> QED
      BY <2>5, <3>1, <3>2, <3>3 DEF SitesGood
  <2>7. FeedsGood(f.feeds, Targets(g), f.pumps, now)
    <3>1. FeedsGood(f.feeds, Targets(f), f.pumps, now)
      BY DEF Good
    <3>2. Targets(g) \subseteq Targets(f)
      BY <2>4, <2>5 DEF Targets
    <3>3. \A a \in f.feeds : a.target \in Targets(g)
      <4>1. \A a \in f.feeds : a.target \in Targets(f) /\ a.target # s
        BY <1>2, <3>1 DEF FeedsGood
      <4> QED
        BY <2>4, <2>5, <4>1 DEF Targets
    <3> QED
      BY <3>1, <3>2, <3>3 DEF FeedsGood
  <2>8. PlacesGood(f.places, DOMAIN left)
    <3>1. PlacesGood(f.places, DOMAIN f.sites)
      BY DEF Good
    <3>2. \A p \in DOMAIN f.places : f.places[p].site \in DOMAIN left \cup {NoSite}
      BY <1>2, <2>5, <3>1 DEF PlacesGood
    <3> QED
      BY <3>1, <3>2 DEF PlacesGood
  <2>9. Good(g, now)
    BY <2>4, <2>6, <2>7, <2>8 DEF Good
  <2> QED
    BY <2>3, <2>4, <2>9, KeptSame
<1> QED
  BY <1>1, <1>2

-----------------------------------------------------------------------------
(* A fold over a set, as the function that its elements are taken one by   *)
(* one from: for the seed of the valves' places...                         *)
SeedsTaken(f, now, g) ==
    \A s \in SUBSET FarmValves :
        g[s] = IF s = {} THEN f ELSE SeedValve(g[s \ {CHOOSE x \in s : TRUE}], CHOOSE x \in s : TRUE, now)

LEMMA SeedSteps ==
    ASSUME NEW f, NEW now
    PROVE  \E g : /\ SeedsTaken(f, now, g)
                  /\ SeedFromNames(f, now) = g[FarmValves]
<1> DEFINE G(g, s) == IF s = {} THEN f
                      ELSE SeedValve(g[s \ {CHOOSE x \in s : TRUE}], CHOOSE x \in s : TRUE, now)
           Small(k) == {s \in SUBSET FarmValves : Cardinality(s) <= k}
           F(g, k) == [s \in Small(k) |-> G(g, s)]
           T == {k \in Nat : \E g : g = F(g, k)}
<1>0. ASSUME NEW s \in SUBSET FarmValves
      PROVE  IsFiniteSet(s) /\ Cardinality(s) \in Nat /\ (Cardinality(s) = 0 <=> s = {})
  BY FarmAssumption, FS_Subset, FS_CardinalityType, FS_EmptySet
<1>1. ASSUME NEW s \in SUBSET FarmValves, s # {}
      PROVE  LET e == CHOOSE x \in s : TRUE
             IN  e \in s /\ s \ {e} \in SUBSET FarmValves /\ Cardinality(s \ {e}) = Cardinality(s) - 1
  <2>1. (CHOOSE x \in s : TRUE) \in s
    BY <1>1
  <2> QED
    BY <1>0, <2>1, FS_RemoveElement
<1>2. 0 \in T
  <2>1. PICK g : g = [s \in Small(0) |-> f]
    OBVIOUS
  <2>2. \A s \in Small(0) : s = {}
    BY <1>0
  <2>3. \A s \in Small(0) : G(g, s) = f
    BY <2>2
  <2>4. g = F(g, 0)
    <3> HIDE DEF G
    <3> QED
      BY <2>1, <2>3
  <2> QED
    BY <2>4
<1>3. ASSUME NEW k \in Nat, k \in T PROVE k + 1 \in T
  <2>1. PICK g : g = F(g, k)
    BY <1>3
  <2>2. PICK h : h = [s \in Small(k + 1) |-> G(g, s)]
    OBVIOUS
  <2>3. ASSUME NEW s \in Small(k) PROVE s \in Small(k + 1) /\ h[s] = g[s]
    <3>1. s \in Small(k + 1)
      BY <1>0
    <3>2. g[s] = G(g, s)
      BY <2>1
    <3> QED
      BY <2>2, <3>1, <3>2
  <2>4. ASSUME NEW s \in Small(k + 1) PROVE h[s] = G(h, s)
    <3>1. CASE s = {}
      BY <2>2, <3>1
    <3>2. CASE s # {}
      <4>1. PICK x : x = CHOOSE y \in s : TRUE
        OBVIOUS
      <4>2. s \ {x} \in SUBSET FarmValves /\ Cardinality(s \ {x}) = Cardinality(s) - 1
        BY <1>1, <3>2, <4>1
      <4>3. s \ {x} \in Small(k)
        BY <1>0, <4>2
      <4>4. h[s \ {x}] = g[s \ {x}]
        BY <2>3, <4>3
      <4> QED
        BY <2>2, <3>2, <4>1, <4>4
    <3> QED
      BY <3>1, <3>2
  <2>5. h = F(h, k + 1)
    <3> HIDE DEF G
    <3> QED
      BY <2>2, <2>4
  <2>6. k + 1 \in Nat
    OBVIOUS
  <2> HIDE DEF F
  <2> QED
    BY <2>5, <2>6
<1>4. PICK n : n \in Nat /\ n = Cardinality(FarmValves)
  <2>1. Cardinality(FarmValves) \in Nat
    BY <1>0
  <2> QED
    BY <2>1
<1>5. n \in T
  <2> HIDE DEF T
  <2> QED
    BY <1>2, <1>3, <1>4, NatInduct
<1>6. Small(n) = SUBSET FarmValves
  BY <1>0, <1>4, FarmAssumption, FS_Subset
<1> DEFINE H(g) == [s \in SUBSET FarmValves |-> G(g, s)]
           iter == CHOOSE g : g = H(g)
<1>7. iter = H(iter)
  <2>1. \E g : g = H(g)
    BY <1>5, <1>6
  <2> QED
    BY <2>1
<1>8. SeedFromNames(f, now) = iter[FarmValves]
  BY DEF SeedFromNames, FoldSet, MapThenFoldSet
<1>9. \A s \in SUBSET FarmValves : iter[s] = G(iter, s)
  <2> HIDE DEF G, iter
  <2> QED
    BY <1>7
<1> QED
  BY <1>8, <1>9 DEF SeedsTaken

(* There is an id left for every name that tells no place yet.             *)
Unused(f) == {name \in FarmNames : FindByAlias(f, name) = {}}
RoomLeft(f) == Cardinality(DOMAIN f.places) + Cardinality(Unused(f)) <= Cardinality(PlaceIds)
RunsBy(now) == farmRuns \subseteq FarmValves \X Days /\ \A r \in farmRuns : r[2] <= now

LEMMA Counts ==
    ASSUME NEW f, NEW now, Good(f, now)
    PROVE  /\ IsFiniteSet(DOMAIN f.places) /\ Cardinality(DOMAIN f.places) \in Nat
           /\ IsFiniteSet(Unused(f)) /\ Cardinality(Unused(f)) \in Nat
           /\ IsFiniteSet(PlaceIds) /\ Cardinality(PlaceIds) \in Nat
<1>1. DOMAIN f.places \subseteq PlaceIds /\ Unused(f) \subseteq FarmNames
  BY DEF Good, PlacesGood, Unused
<1>2. IsFiniteSet(PlaceIds) /\ IsFiniteSet(FarmNames)
  BY FarmAssumption
<1>3. IsFiniteSet(DOMAIN f.places) /\ IsFiniteSet(Unused(f))
  BY <1>1, <1>2, FS_Subset
<1> QED
  BY <1>2, <1>3, FS_CardinalityType

LEMMA NamedPlace ==
    ASSUME NEW f, NEW now, Good(f, now), NEW name \in FarmNames, FindByAlias(f, name) = {}, RoomLeft(f)
    PROVE  LET g == NewLocation(f, FreshPlace(f), name)
           IN  /\ Good(g, now) /\ RoomLeft(g) /\ FindByAlias(g, name) # {}
               /\ g.held = f.held /\ g.feeds = f.feeds
<1>0. PICK free : free = Unused(f)
  OBVIOUS
<1>1. name \in free
  BY <1>0 DEF Unused
<1>2. /\ IsFiniteSet(DOMAIN f.places) /\ Cardinality(DOMAIN f.places) \in Nat
      /\ IsFiniteSet(free) /\ Cardinality(free) \in Nat
      /\ IsFiniteSet(PlaceIds) /\ Cardinality(PlaceIds) \in Nat
  BY <1>0, Counts
<1>3. Cardinality(free \ {name}) = Cardinality(free) - 1 /\ Cardinality(free \ {name}) \in Nat
  BY <1>1, <1>2, FS_RemoveElement, FS_CardinalityType
<1>4. Cardinality(DOMAIN f.places) + Cardinality(free) <= Cardinality(PlaceIds)
  BY <1>0 DEF RoomLeft
<1>5. PlaceIds \ DOMAIN f.places # {}
  <2> SUFFICES ASSUME PlaceIds \subseteq DOMAIN f.places PROVE FALSE
    OBVIOUS
  <2>1. DOMAIN f.places = PlaceIds
    BY DEF Good, PlacesGood
  <2> QED
    BY <1>2, <1>3, <1>4, <2>1
<1>6. PICK p : p = FreshPlace(f) /\ p \in PlaceIds \ DOMAIN f.places
  BY <1>5 DEF FreshPlace
<1>7. PICK g : g = NewLocation(f, p, name)
  OBVIOUS
<1>8. /\ Good(g, now) /\ g.held = f.held /\ g.feeds = f.feeds
      /\ DOMAIN g.places = DOMAIN f.places \cup {p}
      /\ \A q \in DOMAIN f.places : g.places[q] = f.places[q]
      /\ g.places[p].aliases = {name}
  BY <1>6, <1>7, NewPlace
<1>9. p \in FindByAlias(g, name)
  BY <1>8 DEF FindByAlias
<1>10. Unused(g) = free \ {name}
  <2>1. ASSUME NEW n \in FarmNames PROVE FindByAlias(g, n) = {} <=> (FindByAlias(f, n) = {} /\ n # name)
    <3>1. CASE n = name
      BY <1>9, <3>1
    <3>2. CASE n # name
      BY <1>6, <1>8, <3>2 DEF FindByAlias
    <3> QED
      BY <3>1, <3>2
  <2> QED
    BY <1>0, <2>1 DEF Unused
<1>11. Cardinality(DOMAIN g.places) = Cardinality(DOMAIN f.places) + 1
  BY <1>2, <1>6, <1>8, FS_AddElement
<1>12. RoomLeft(g)
  BY <1>2, <1>3, <1>4, <1>10, <1>11 DEF RoomLeft
<1> QED
  BY <1>6, <1>7, <1>8, <1>9, <1>12

LEMMA FirstRunDay ==
    ASSUME NEW v, NEW now \in Days, RunsBy(now)
    PROVE  FirstRun(v, now) \in Days /\ FirstRun(v, now) <= now
<1> DEFINE S == {r[2] : r \in {x \in farmRuns : x[1] = v}} \cup {now}
<1>1. \A y \in S : y \in Days /\ y <= now
  BY DayFacts DEF RunsBy
<1>2. S \subseteq Nat /\ S # {}
  BY <1>1, DayFacts
<1>3. FirstRun(v, now) = Min(S)
  BY DEF FirstRun
<1>4. Min(S) \in S
  <2> HIDE DEF S
  <2> QED
    BY <1>2, LeastIn
<1> QED
  BY <1>1, <1>3, <1>4

LEMMA SeedOne ==
    ASSUME NEW f, NEW now \in Days, Good(f, now), RoomLeft(f), NEW v \in FarmValves,
           \A a \in f.held : a.device # v, valveNames \in NamedAs, RunsBy(now)
    PROVE  LET g == SeedValve(f, v, now)
           IN  /\ Good(g, now) /\ RoomLeft(g) /\ g.feeds = f.feeds
               /\ \A a \in g.held : a.device = v \/ a \in f.held
<1>1. CASE valveNames[v] = NoName
  <2>1. SeedValve(f, v, now) = f
    BY <1>1 DEF SeedValve
  <2> QED
    BY <2>1
<1>2. CASE valveNames[v] # NoName
  <2>1. PICK name : name = valveNames[v]
    OBVIOUS
  <2>2. name \in FarmNames
    BY <1>2, <2>1, LocAssumption
  <2>3. PICK g : g = IF FindByAlias(f, name) = {} THEN NewLocation(f, FreshPlace(f), name) ELSE f
    OBVIOUS
  <2>4. Good(g, now) /\ RoomLeft(g) /\ FindByAlias(g, name) # {} /\ g.held = f.held /\ g.feeds = f.feeds
    <3>1. CASE FindByAlias(f, name) = {}
      <4>1. g = NewLocation(f, FreshPlace(f), name)
        BY <2>3, <3>1
      <4> QED
        BY <2>2, <3>1, <4>1, NamedPlace
    <3>2. CASE FindByAlias(f, name) # {}
      BY <2>3, <3>2
    <3> QED
      BY <3>1, <3>2
  <2>5. PICK p : p = CHOOSE q \in FindByAlias(g, name) : TRUE
    OBVIOUS
  <2>6. p \in DOMAIN g.places /\ p \in PlaceIds
    BY <2>4, <2>5 DEF FindByAlias, Good, PlacesGood
  <2>7. PICK b : b = FirstRun(v, now)
    OBVIOUS
  <2>8. b \in Days /\ b <= now
    BY <2>7, FirstRunDay
  <2>9. PICK new : new = Assignment(p, v, b, TRUE)
    OBVIOUS
  <2>10. new.device = v
    BY <2>9 DEF Assignment
  <2>11. HeldGood(g.held \cup {new}, DOMAIN g.places, now)
    <3>1. \A t \in Days : b <= t => HoldAt(g.held, v, t) = {}
      BY <2>4 DEF HoldAt
    <3>2. p \in DOMAIN g.places \cap PlaceIds /\ TRUE \in BOOLEAN
      BY <2>6
    <3>3. HeldGood(g.held, DOMAIN g.places, now)
      BY <2>4 DEF Good
    <3>4. HeldGood(g.held \cup {Assignment(p, v, b, TRUE)}, DOMAIN g.places, now)
      BY <2>8, <3>1, <3>2, <3>3, AddHeld
    <3> QED
      BY <2>9, <3>4
  <2>12. PICK h : h = g.held \cup {new}
    OBVIOUS
  <2>13. PICK k : k = [g EXCEPT !.held = h]
    OBVIOUS
  <2>14. Good(k, now) /\ k.held = h /\ k.feeds = g.feeds /\ k.places = g.places
    <3>1. Good(g, now) /\ HeldGood(h, DOMAIN g.places, now)
      BY <2>4, <2>11, <2>12
    <3> QED
      BY <2>13, <3>1, WriteHeld
  <2>15. RoomLeft(k)
    BY <2>4, <2>14 DEF RoomLeft, Unused, FindByAlias
  <2>16. SeedPlaced(g, v, now) = k
    <3>1. {a \in g.held : a.device = v} = {} /\ OpenOf(g, v) = {}
      BY <2>4 DEF OpenOf
    <3>2. SeedPlaced(g, v, now) = [g EXCEPT !.held = g.held \cup {Assignment(p, v, FirstRun(v, now), TRUE)}]
      BY <2>1, <2>5, <3>1 DEF SeedPlaced
    <3> QED
      BY <2>7, <2>9, <2>12, <2>13, <3>2
  <2>17. SeedValve(f, v, now) = k
    BY <1>2, <2>1, <2>3, <2>16 DEF SeedValve
  <2> QED
    BY <2>4, <2>10, <2>12, <2>14, <2>15, <2>17
<1> QED
  BY <1>1, <1>2

LEMMA SeededGood ==
    ASSUME NEW f, NEW now \in Days, Good(f, now), DOMAIN f.places = {}, f.held = {},
           valveNames \in NamedAs, RunsBy(now)
    PROVE  Good(SeedFromNames(f, now), now) /\ SeedFromNames(f, now).feeds = f.feeds
<1>1. RoomLeft(f)
  <2>1. Cardinality(DOMAIN f.places) = 0
    BY FS_EmptySet
  <2>2. Unused(f) = FarmNames
    BY DEF Unused, FindByAlias
  <2>3. Cardinality(FarmNames) \in Nat
    BY FarmAssumption, FS_CardinalityType
  <2> QED
    BY <2>1, <2>2, <2>3, FarmAssumption DEF RoomLeft
<1>2. PICK g : /\ SeedsTaken(f, now, g)
               /\ SeedFromNames(f, now) = g[FarmValves]
  BY SeedSteps
<1> DEFINE P(s) == /\ Good(g[s], now) /\ RoomLeft(g[s]) /\ g[s].feeds = f.feeds
                   /\ \A a \in g[s].held : a.device \in s
           T == {k \in Nat : \A s \in SUBSET FarmValves : Cardinality(s) = k => P(s)}
<1>3. ASSUME NEW s \in SUBSET FarmValves
      PROVE  IsFiniteSet(s) /\ Cardinality(s) \in Nat /\ (Cardinality(s) = 0 <=> s = {})
  BY FarmAssumption, FS_Subset, FS_CardinalityType, FS_EmptySet
<1>4. 0 \in T
  <2> SUFFICES ASSUME NEW s \in SUBSET FarmValves, Cardinality(s) = 0 PROVE P(s)
    <3> HIDE DEF P
    <3> QED
      OBVIOUS
  <2>1. s = {}
    BY <1>3
  <2>2. g[s] = f
    BY <1>2, <2>1 DEF SeedsTaken
  <2> QED
    BY <1>1, <2>2
<1>5. ASSUME NEW k \in Nat, k \in T PROVE k + 1 \in T
  <2> SUFFICES ASSUME NEW s \in SUBSET FarmValves, Cardinality(s) = k + 1 PROVE P(s)
    <3>1. k + 1 \in Nat
      OBVIOUS
    <3> HIDE DEF P
    <3> QED
      BY <3>1
  <2>1. s # {}
    BY <1>3
  <2>2. PICK v : v = CHOOSE x \in s : TRUE
    OBVIOUS
  <2>3. v \in s /\ v \in FarmValves
    BY <2>1, <2>2
  <2>4. PICK r : r = s \ {v}
    OBVIOUS
  <2>5. r \in SUBSET FarmValves /\ Cardinality(r) = k
    <3>1. Cardinality(s \ {v}) = Cardinality(s) - 1
      BY <1>3, <2>3, FS_RemoveElement
    <3> QED
      BY <2>4, <3>1
  <2>6. P(r)
    <3> HIDE DEF P
    <3> QED
      BY <1>5, <2>5
  <2>7. g[s] = SeedValve(g[r], v, now)
    BY <1>2, <2>1, <2>2, <2>4 DEF SeedsTaken
  <2>8. PICK h : h = g[r]
    OBVIOUS
  <2>9. \A a \in h.held : a.device # v
    BY <2>4, <2>6, <2>8
  <2>10. PICK e : e = SeedValve(h, v, now)
    OBVIOUS
  <2>11. /\ Good(e, now) /\ RoomLeft(e) /\ e.feeds = h.feeds
         /\ \A a \in e.held : a.device = v \/ a \in h.held
    BY <2>3, <2>6, <2>8, <2>9, <2>10, SeedOne
  <2> QED
    BY <2>3, <2>4, <2>6, <2>7, <2>8, <2>10, <2>11
<1>6. Cardinality(FarmValves) \in T
  <2>1. Cardinality(FarmValves) \in Nat
    BY <1>3
  <2> HIDE DEF T
  <2> QED
    BY <1>4, <1>5, <2>1, NatInduct
<1>7. P(FarmValves)
  BY <1>6
<1> QED
  BY <1>2, <1>7

(* ... and for that of the sites.                                          *)
SitesTaken(f, rooms, open, g) ==
    \A s \in SUBSET open :
        g[s] = IF s = {} THEN f ELSE SeedSite(g[s \ {CHOOSE x \in s : TRUE}], CHOOSE x \in s : TRUE, rooms)

LEMMA SiteSteps ==
    ASSUME NEW f, NEW rooms, NEW open, IsFiniteSet(open)
    PROVE  \E g : /\ SitesTaken(f, rooms, open, g)
                  /\ SitedByRooms(f, rooms, open) = g[open]
<1> DEFINE G(g, s) == IF s = {} THEN f
                      ELSE SeedSite(g[s \ {CHOOSE x \in s : TRUE}], CHOOSE x \in s : TRUE, rooms)
           Small(k) == {s \in SUBSET open : Cardinality(s) <= k}
           F(g, k) == [s \in Small(k) |-> G(g, s)]
           T == {k \in Nat : \E g : g = F(g, k)}
<1>0. ASSUME NEW s \in SUBSET open
      PROVE  IsFiniteSet(s) /\ Cardinality(s) \in Nat /\ (Cardinality(s) = 0 <=> s = {})
  BY FS_Subset, FS_CardinalityType, FS_EmptySet
<1>1. ASSUME NEW s \in SUBSET open, s # {}
      PROVE  LET e == CHOOSE x \in s : TRUE
             IN  e \in s /\ s \ {e} \in SUBSET open /\ Cardinality(s \ {e}) = Cardinality(s) - 1
  <2>1. (CHOOSE x \in s : TRUE) \in s
    BY <1>1
  <2> QED
    BY <1>0, <2>1, FS_RemoveElement
<1>2. 0 \in T
  <2>1. PICK g : g = [s \in Small(0) |-> f]
    OBVIOUS
  <2>2. \A s \in Small(0) : s = {}
    BY <1>0
  <2>3. \A s \in Small(0) : G(g, s) = f
    BY <2>2
  <2>4. g = F(g, 0)
    <3> HIDE DEF G
    <3> QED
      BY <2>1, <2>3
  <2> QED
    BY <2>4
<1>3. ASSUME NEW k \in Nat, k \in T PROVE k + 1 \in T
  <2>1. PICK g : g = F(g, k)
    BY <1>3
  <2>2. PICK h : h = [s \in Small(k + 1) |-> G(g, s)]
    OBVIOUS
  <2>3. ASSUME NEW s \in Small(k) PROVE s \in Small(k + 1) /\ h[s] = g[s]
    <3>1. s \in Small(k + 1)
      BY <1>0
    <3>2. g[s] = G(g, s)
      BY <2>1
    <3> QED
      BY <2>2, <3>1, <3>2
  <2>4. ASSUME NEW s \in Small(k + 1) PROVE h[s] = G(h, s)
    <3>1. CASE s = {}
      BY <2>2, <3>1
    <3>2. CASE s # {}
      <4>1. PICK x : x = CHOOSE y \in s : TRUE
        OBVIOUS
      <4>2. s \ {x} \in SUBSET open /\ Cardinality(s \ {x}) = Cardinality(s) - 1
        BY <1>1, <3>2, <4>1
      <4>3. s \ {x} \in Small(k)
        BY <1>0, <4>2
      <4>4. h[s \ {x}] = g[s \ {x}]
        BY <2>3, <4>3
      <4> QED
        BY <2>2, <3>2, <4>1, <4>4
    <3> QED
      BY <3>1, <3>2
  <2>5. h = F(h, k + 1)
    <3> HIDE DEF G
    <3> QED
      BY <2>2, <2>4
  <2>6. k + 1 \in Nat
    OBVIOUS
  <2> HIDE DEF F
  <2> QED
    BY <2>5, <2>6
<1>4. PICK n : n \in Nat /\ n = Cardinality(open)
  <2>1. Cardinality(open) \in Nat
    BY <1>0
  <2> QED
    BY <2>1
<1>5. n \in T
  <2> HIDE DEF T
  <2> QED
    BY <1>2, <1>3, <1>4, NatInduct
<1>6. Small(n) = SUBSET open
  <2>1. ASSUME NEW s \in SUBSET open PROVE Cardinality(s) <= n
    BY <1>4, FS_Subset, IsFiniteSet(open)
  <2> QED
    BY <2>1
<1> DEFINE H(g) == [s \in SUBSET open |-> G(g, s)]
           iter == CHOOSE g : g = H(g)
<1>7. iter = H(iter)
  <2>1. \E g : g = H(g)
    BY <1>5, <1>6
  <2> QED
    BY <2>1
<1>8. SitedByRooms(f, rooms, open) = iter[open]
  BY DEF SitedByRooms, FoldSet, MapThenFoldSet
<1>9. \A s \in SUBSET open : iter[s] = G(iter, s)
  <2> HIDE DEF G, iter
  <2> QED
    BY <1>7
<1> QED
  BY <1>8, <1>9 DEF SitesTaken

UnusedRooms(f) == {name \in FarmNames : NamedSites(f, name) = {}}
SitesLeft(f) == Cardinality(DOMAIN f.sites) + Cardinality(UnusedRooms(f)) <= Cardinality(SiteIds)

LEMMA RoomSited ==
    ASSUME NEW f, NEW now, Good(f, now), NEW name \in FarmNames, NamedSites(f, name) = {}, SitesLeft(f)
    PROVE  /\ FreshSite(f) \in SiteIds \ DOMAIN f.sites
           /\ SitesLeft(NewSite(f, FreshSite(f), name))
<1>0. PICK free : free = UnusedRooms(f)
  OBVIOUS
<1>1. name \in free
  BY <1>0 DEF UnusedRooms
<1>2. /\ IsFiniteSet(DOMAIN f.sites) /\ Cardinality(DOMAIN f.sites) \in Nat
      /\ IsFiniteSet(free) /\ Cardinality(free) \in Nat
      /\ IsFiniteSet(SiteIds) /\ Cardinality(SiteIds) \in Nat
  <2>1. DOMAIN f.sites \subseteq SiteIds /\ free \subseteq FarmNames
    BY <1>0 DEF Good, SitesGood, UnusedRooms
  <2>2. IsFiniteSet(SiteIds) /\ IsFiniteSet(FarmNames)
    BY FarmAssumption
  <2>3. IsFiniteSet(DOMAIN f.sites) /\ IsFiniteSet(free)
    BY <2>1, <2>2, FS_Subset
  <2> QED
    BY <2>2, <2>3, FS_CardinalityType
<1>3. Cardinality(free \ {name}) = Cardinality(free) - 1 /\ Cardinality(free \ {name}) \in Nat
  BY <1>1, <1>2, FS_RemoveElement, FS_CardinalityType
<1>4. Cardinality(DOMAIN f.sites) + Cardinality(free) <= Cardinality(SiteIds)
  BY <1>0 DEF SitesLeft
<1>5. SiteIds \ DOMAIN f.sites # {}
  <2> SUFFICES ASSUME SiteIds \subseteq DOMAIN f.sites PROVE FALSE
    OBVIOUS
  <2>1. DOMAIN f.sites = SiteIds
    BY DEF Good, SitesGood
  <2> QED
    BY <1>2, <1>3, <1>4, <2>1
<1>6. PICK s : s = FreshSite(f) /\ s \in SiteIds \ DOMAIN f.sites
  BY <1>5 DEF FreshSite
<1>7. PICK g : g = NewSite(f, s, name)
  OBVIOUS
<1>8. /\ DOMAIN g.sites = DOMAIN f.sites \cup {s} /\ g.sites[s].name = name
      /\ \A x \in DOMAIN f.sites : g.sites[x] = f.sites[x]
  BY <1>6, <1>7, SiteAdded
<1>9. UnusedRooms(g) = free \ {name}
  <2>1. ASSUME NEW n \in FarmNames PROVE NamedSites(g, n) = {} <=> (NamedSites(f, n) = {} /\ n # name)
    BY <1>6, <1>8 DEF NamedSites
  <2> QED
    BY <1>0, <2>1 DEF UnusedRooms
<1>10. Cardinality(DOMAIN g.sites) = Cardinality(DOMAIN f.sites) + 1
  BY <1>2, <1>6, <1>8, FS_AddElement
<1>11. SitesLeft(g)
  BY <1>2, <1>3, <1>4, <1>9, <1>10 DEF SitesLeft
<1> QED
  BY <1>6, <1>7, <1>11

LEMMA SeedSiteGood ==
    ASSUME NEW f, NEW now, Good(f, now), SitesLeft(f), NEW a, a \in f.held, NEW rooms \in InRooms
    PROVE  LET g == SeedSite(f, a, rooms)
           IN  Good(g, now) /\ SitesLeft(g) /\ g.held = f.held /\ g.feeds = f.feeds
<1>0. a.device \in FarmValves
  BY DEF Good, HeldGood, Hold
<1>1. PICK room, p : room = rooms[a.device] /\ p = a.place
  OBVIOUS
<1>2. room \in FarmNames \cup {NoName}
  BY <1>0, <1>1, LocAssumption
<1>3. CASE room = NoName \/ p \notin DOMAIN f.places \/ f.places[p].site # NoSite
  <2>1. SeedSite(f, a, rooms) = f
    BY <1>1, <1>3 DEF SeedSite
  <2> QED
    BY <2>1
<1>4. CASE /\ ~(room = NoName \/ p \notin DOMAIN f.places \/ f.places[p].site # NoSite)
           /\ NamedSites(f, room) # {}
  <2>1. PICK s : s = CHOOSE x \in NamedSites(f, room) : TRUE
    OBVIOUS
  <2>2. s \in DOMAIN f.sites
    BY <1>4, <2>1 DEF NamedSites
  <2>3. SeedSite(f, a, rooms) = [f EXCEPT !.places[p].site = s]
    BY <1>1, <1>4, <2>1 DEF SeedSite
  <2>4. PICK g : g = [f EXCEPT !.places[p].site = s]
    OBVIOUS
  <2>5. Good(g, now) /\ g.held = f.held /\ g.feeds = f.feeds /\ g.sites = f.sites
    BY <1>4, <2>2, <2>4, PlaceSited
  <2>6. SitesLeft(g)
    BY <2>5 DEF SitesLeft, UnusedRooms, NamedSites
  <2> QED
    BY <2>3, <2>4, <2>5, <2>6
<1>5. CASE /\ ~(room = NoName \/ p \notin DOMAIN f.places \/ f.places[p].site # NoSite)
           /\ NamedSites(f, room) = {}
  <2>1. PICK s : s = FreshSite(f)
    OBVIOUS
  <2>2. PICK h : h = NewSite(f, s, room)
    OBVIOUS
  <2>3. room \in FarmNames
    BY <1>2, <1>5
  <2>4. s \in SiteIds \ DOMAIN f.sites /\ SitesLeft(h)
    BY <1>5, <2>1, <2>2, <2>3, RoomSited
  <2>5. /\ Good(h, now) /\ h.held = f.held /\ h.feeds = f.feeds /\ h.places = f.places
        /\ DOMAIN h.sites = DOMAIN f.sites \cup {s}
    BY <2>2, <2>3, <2>4, SiteAdded
  <2>6. SeedSite(f, a, rooms) = [h EXCEPT !.places[p].site = s]
    BY <1>1, <1>5, <2>1, <2>2 DEF SeedSite, CreatedSite, Accepted
  <2>7. PICK g : g = [h EXCEPT !.places[p].site = s]
    OBVIOUS
  <2>8. p \in DOMAIN h.places /\ s \in DOMAIN h.sites \cup {NoSite}
    BY <1>5, <2>5
  <2>9. Good(g, now) /\ g.held = h.held /\ g.feeds = h.feeds /\ g.sites = h.sites
    BY <2>5, <2>7, <2>8, PlaceSited
  <2>10. SitesLeft(g)
    BY <2>4, <2>9 DEF SitesLeft, UnusedRooms, NamedSites
  <2> QED
    BY <2>5, <2>6, <2>7, <2>9, <2>10
<1> QED
  BY <1>3, <1>4, <1>5

LEMMA SeedSitesKept ==
    ASSUME NEW f, NEW now, Good(f, now), NEW rooms \in InRooms,
           Cardinality(DOMAIN f.sites) + Cardinality(FarmNames) <= Cardinality(SiteIds)
    PROVE  LET g == SeedSites(f, rooms)
           IN  Good(g, now) /\ g.held = f.held /\ g.feeds = f.feeds
<1>1. CASE f.seeded \/ \A a \in f.held : IsOpen(a) => rooms[a.device] = NoName
  <2>1. SeedSites(f, rooms) = f
    BY <1>1 DEF SeedSites
  <2> QED
    BY <2>1
<1>2. CASE ~(f.seeded \/ \A a \in f.held : IsOpen(a) => rooms[a.device] = NoName)
  <2>1. SitesLeft(f)
    <3>1. UnusedRooms(f) \subseteq FarmNames /\ IsFiniteSet(FarmNames)
      BY FarmAssumption DEF UnusedRooms
    <3>2. IsFiniteSet(UnusedRooms(f)) /\ Cardinality(UnusedRooms(f)) <= Cardinality(FarmNames)
      BY <3>1, FS_Subset
    <3>3. IsFiniteSet(DOMAIN f.sites) /\ IsFiniteSet(SiteIds)
      BY FarmAssumption, FS_Subset DEF Good, SitesGood
    <3>4. /\ Cardinality(UnusedRooms(f)) \in Nat /\ Cardinality(FarmNames) \in Nat
          /\ Cardinality(DOMAIN f.sites) \in Nat /\ Cardinality(SiteIds) \in Nat
      BY <3>1, <3>2, <3>3, FS_CardinalityType
    <3> QED
      BY <3>2, <3>4 DEF SitesLeft
  <2>2. PICK open : open = {a \in f.held : IsOpen(a)}
    OBVIOUS
  <2>3. open \subseteq f.held /\ IsFiniteSet(open)
    BY <2>2, FS_Subset DEF Good, HeldGood
  <2>4. PICK g : SitesTaken(f, rooms, open, g) /\ SitedByRooms(f, rooms, open) = g[open]
    BY <2>2, <2>3, SiteSteps
  <2> DEFINE P(s) == Good(g[s], now) /\ SitesLeft(g[s]) /\ g[s].held = f.held /\ g[s].feeds = f.feeds
             T == {k \in Nat : \A s \in SUBSET open : Cardinality(s) = k => P(s)}
  <2>5. ASSUME NEW s \in SUBSET open
        PROVE  IsFiniteSet(s) /\ Cardinality(s) \in Nat /\ (Cardinality(s) = 0 <=> s = {})
    BY <2>3, FS_Subset, FS_CardinalityType, FS_EmptySet
  <2>6. 0 \in T
    <3> SUFFICES ASSUME NEW s \in SUBSET open, Cardinality(s) = 0 PROVE P(s)
      <4> HIDE DEF P
      <4> QED
        OBVIOUS
    <3>1. s = {}
      BY <2>5
    <3>2. g[s] = f
      BY <2>4, <3>1 DEF SitesTaken
    <3> QED
      BY <2>1, <3>2
  <2>7. ASSUME NEW k \in Nat, k \in T PROVE k + 1 \in T
    <3> SUFFICES ASSUME NEW s \in SUBSET open, Cardinality(s) = k + 1 PROVE P(s)
      <4>1. k + 1 \in Nat
        OBVIOUS
      <4> HIDE DEF P
      <4> QED
        BY <4>1
    <3>1. s # {}
      BY <2>5
    <3>2. PICK a : a = CHOOSE x \in s : TRUE
      OBVIOUS
    <3>3. a \in s /\ a \in f.held
      BY <2>3, <3>1, <3>2
    <3>4. PICK r : r = s \ {a}
      OBVIOUS
    <3>5. r \in SUBSET open /\ Cardinality(r) = k
      <4>1. Cardinality(s \ {a}) = Cardinality(s) - 1
        BY <2>5, <3>3, FS_RemoveElement
      <4> QED
        BY <3>4, <4>1
    <3>6. P(r)
      <4> HIDE DEF P
      <4> QED
        BY <2>7, <3>5
    <3>7. g[s] = SeedSite(g[r], a, rooms)
      BY <2>4, <3>1, <3>2, <3>4 DEF SitesTaken
    <3>8. PICK h : h = g[r]
      OBVIOUS
    <3>9. PICK e : e = SeedSite(h, a, rooms)
      OBVIOUS
    <3>10. Good(e, now) /\ SitesLeft(e) /\ e.held = h.held /\ e.feeds = h.feeds
      BY <3>3, <3>6, <3>8, <3>9, SeedSiteGood
    <3> QED
      BY <3>6, <3>7, <3>8, <3>9, <3>10
  <2>8. Cardinality(open) \in T
    <3>1. Cardinality(open) \in Nat
      BY <2>5
    <3> HIDE DEF T
    <3> QED
      BY <2>6, <2>7, <3>1, NatInduct
  <2>9. PICK h : h = SitedByRooms(f, rooms, open)
    OBVIOUS
  <2>10. Good(h, now) /\ h.held = f.held /\ h.feeds = f.feeds
    BY <2>4, <2>8, <2>9
  <2>11. PICK e : e = [h EXCEPT !.seeded = TRUE]
    OBVIOUS
  <2>12. /\ DOMAIN e = DOMAIN h /\ e.held = h.held /\ e.feeds = h.feeds /\ e.places = h.places
         /\ e.sites = h.sites /\ e.pumps = h.pumps /\ e.links = h.links
    BY <2>10, <2>11, FarmFields
  <2>13. Good(e, now)
    BY <2>10, <2>12 DEF Good, Targets
  <2>14. SeedSites(f, rooms) = e
    BY <1>2, <2>2, <2>9, <2>11 DEF SeedSites
  <2> QED
    BY <2>10, <2>12, <2>13, <2>14
<1> QED
  BY <1>1, <1>2

-----------------------------------------------------------------------------
(* What the parts of a good table say of the questions asked of it.        *)
LEMMA GoodIsSound ==
    ASSUME NEW f, NEW now, Good(f, now)
    PROVE  Unambiguous(f) /\ Attached(f)
<1>1. ASSUME NEW v \in FarmValves, NEW t \in Days PROVE AtMostOne(Holding(f, v, t))
  <2>1. Holding(f, v, t) = HoldAt(f.held, v, t)
    BY DEF Holding, HoldAt
  <2> QED
    BY <2>1 DEF Good, HeldGood
<1>2. ASSUME NEW x, NEW t PROVE {a.pump : a \in Feeds(f, x, t)} = PumpsAt(f.feeds, x, t)
  <2>1. Feeds(f, x, t) = {b \in f.feeds : b.target = x /\ InWindow(b, t)}
    BY DEF Feeds, FeedsOf
  <2> QED
    BY <2>1 DEF PumpsAt
<1>3. ASSUME NEW x \in Targets(f), NEW t \in Days PROVE AtMostOne({a.pump : a \in Feeds(f, x, t)})
  <2>1. AtMostOne(PumpsAt(f.feeds, x, t))
    BY DEF Good, FeedsGood
  <2> QED
    BY <1>2, <2>1
<1>4. ASSUME NEW d \in FarmTaps, NEW t \in Days
      PROVE  AtMostOne({i \in DOMAIN f.links : /\ f.links[i].device = d /\ f.links[i].role = "consumer"
                                               /\ InWindow(f.links[i], t)})
  <2>1. AtMostOne(Consumers(f.links, d, t))
    BY DEF Good, LinksGood
  <2> QED
    BY <2>1 DEF Consumers
<1>5. \A p, q \in DOMAIN f.places : p # q => f.places[p].aliases \cap f.places[q].aliases = {}
  BY DEF Good, PlacesGood
<1>6. Unambiguous(f)
  BY <1>1, <1>3, <1>4, <1>5 DEF Unambiguous
<1>7. ASSUME NEW s \in DOMAIN f.sites, f.sites[s].parent # NoSite
      PROVE  f.sites[s].parent \in DOMAIN f.sites /\ s \notin Ancestors(f, f.sites[s].parent)
  BY <1>7, NoCircle DEF Good
<1>8. \A p \in DOMAIN f.places : f.places[p].site \in DOMAIN f.sites \cup {NoSite}
  BY DEF Good, PlacesGood
<1>9. \A a \in f.held : a.place \in DOMAIN f.places
  BY DEF Good, HeldGood
<1>10. \A a \in f.feeds : a.target \in Targets(f) /\ a.pump \in f.pumps
  BY DEF Good, FeedsGood
<1> QED
  BY <1>6, <1>7, <1>8, <1>9, <1>10 DEF Attached

LEMMA FoundGood ==
    ASSUME NEW f \in Farms
    PROVE  Good(f, 0)
<1>0. FarmType(f) /\ Dated(f, 0) /\ Unambiguous(f) /\ Attached(f) /\ Forest(f)
  BY FarmAssumption
<1>1. HeldGood(f.held, DOMAIN f.places, 0)
  <2>1. \A v \in FarmValves, t \in Days : AtMostOne(HoldAt(f.held, v, t))
    BY <1>0 DEF Unambiguous, Holding, HoldAt
  <2>2. \A a \in f.held : DatedBy(a, 0) /\ a.place \in DOMAIN f.places
    BY <1>0 DEF Dated, Attached
  <2> QED
    BY <1>0, <2>1, <2>2 DEF HeldGood, FarmType, Hold
<1>2. FeedsGood(f.feeds, Targets(f), f.pumps, 0)
  <2>1. ASSUME NEW x \in Targets(f), NEW t \in Days PROVE AtMostOne(PumpsAt(f.feeds, x, t))
    <3>1. Feeds(f, x, t) = {b \in f.feeds : b.target = x /\ InWindow(b, t)}
      BY DEF Feeds, FeedsOf
    <3>2. AtMostOne({a.pump : a \in Feeds(f, x, t)})
      BY <1>0 DEF Unambiguous
    <3> QED
      BY <3>1, <3>2 DEF PumpsAt
  <2>2. \A a \in f.feeds : DatedBy(a, 0) /\ a.target \in Targets(f) /\ a.pump \in f.pumps
    BY <1>0 DEF Dated, Attached
  <2> QED
    BY <1>0, <2>1, <2>2 DEF FeedsGood, FarmType, Feed
<1>3. LinksGood(f.links, 0)
  <2>1. \A d \in FarmTaps, t \in Days : AtMostOne(Consumers(f.links, d, t))
    BY <1>0 DEF Unambiguous, Consumers
  <2>2. \A i \in DOMAIN f.links : DatedBy(f.links[i], 0)
    BY <1>0 DEF Dated
  <2>3. f.links \in Seq(Link)
    BY <1>0 DEF FarmType, Link
  <2> QED
    BY <2>1, <2>2, <2>3 DEF LinksGood
<1>4. PlacesGood(f.places, DOMAIN f.sites)
  <2>1. \A p, q \in DOMAIN f.places : p # q => f.places[p].aliases \cap f.places[q].aliases = {}
    BY <1>0 DEF Unambiguous
  <2>2. \A p \in DOMAIN f.places : f.places[p].site \in DOMAIN f.sites \cup {NoSite}
    BY <1>0 DEF Attached
  <2> QED
    BY <1>0, <2>1, <2>2 DEF PlacesGood, FarmType
<1>5. SitesGood(f.sites)
  <2>1. ForestOf(f.sites)
    BY <1>0 DEF Forest, ForestOf
  <2>2. \A s \in DOMAIN f.sites : f.sites[s].parent \in DOMAIN f.sites \cup {NoSite}
    BY <1>0 DEF Attached
  <2> QED
    BY <1>0, <2>1, <2>2 DEF SitesGood, FarmType
<1> QED
  BY <1>0, <1>1, <1>2, <1>3, <1>4, <1>5 DEF Good, FarmType

LEMMA LaterGood ==
    ASSUME NEW f, NEW now \in Days, NEW then \in Days, now <= then, Good(f, now)
    PROVE  Good(f, then)
<1>0. now \in Nat /\ then \in Nat
  BY DayFacts
<1>1. ASSUME NEW a, DatedBy(a, now), a.begin \in Begins, a.end \in EndDays PROVE DatedBy(a, then)
  <2>1. a.begin \in Int /\ a.end \in Nat
    BY <1>1, DayFacts
  <2> QED
    BY <1>0, <1>1, <2>1 DEF DatedBy
<1>2. HeldGood(f.held, DOMAIN f.places, then)
  <2>1. \A a \in f.held : a.begin \in Begins /\ a.end \in EndDays
    BY DEF Good, HeldGood, Hold
  <2> QED
    BY <1>1, <2>1 DEF Good, HeldGood
<1>3. FeedsGood(f.feeds, Targets(f), f.pumps, then)
  <2>1. \A a \in f.feeds : a.begin \in Begins /\ a.end \in EndDays
    BY DEF Good, FeedsGood, Feed
  <2> QED
    BY <1>1, <2>1 DEF Good, FeedsGood
<1>4. LinksGood(f.links, then)
  <2>1. ASSUME NEW i \in DOMAIN f.links PROVE f.links[i].begin \in Begins /\ f.links[i].end \in EndDays
    <3>1. f.links \in Seq(Link)
      BY DEF Good, LinksGood
    <3>2. f.links[i] \in Link
      BY <3>1
    <3> QED
      BY <3>2 DEF Link
  <2> QED
    BY <1>1, <2>1 DEF Good, LinksGood
<1> QED
  BY <1>2, <1>3, <1>4 DEF Good

LEMMA SamePlace ==
    ASSUME NEW f, NEW g, NEW now, NEW v \in FarmValves, NEW t \in Days, Good(f, now), Good(g, now),
           HeldPlaces(f.held, v, t) \subseteq HeldPlaces(g.held, v, t), LocationForRun(f, v, t) # NoPlace
    PROVE  LocationForRun(g, v, t) = LocationForRun(f, v, t)
<1>1. Holding(f, v, t) = HoldAt(f.held, v, t) /\ Holding(g, v, t) = HoldAt(g.held, v, t)
  BY DEF Holding, HoldAt
<1>2. AtMostOne(HoldAt(f.held, v, t)) /\ AtMostOne(HoldAt(g.held, v, t))
  BY DEF Good, HeldGood
<1>3. PICK a : a \in HoldAt(f.held, v, t) /\ LocationForRun(f, v, t) = a.place
  BY <1>1 DEF LocationForRun
<1>4. PICK b \in HoldAt(g.held, v, t) : b.place = a.place
  BY <1>3 DEF HeldPlaces
<1>5. (CHOOSE c \in HoldAt(g.held, v, t) : TRUE) = b
  BY <1>2, <1>4 DEF AtMostOne
<1> QED
  BY <1>1, <1>3, <1>4, <1>5 DEF LocationForRun

-----------------------------------------------------------------------------
(* What the table on the disk and the one in memory agree on: all days     *)
(* that no edit since the last save has touched.                           *)
Mirrors(f, disk, t) ==
    /\ \A v \in FarmValves : HeldPlaces(f.held, v, t) \subseteq HeldPlaces(disk.held, v, t)
    /\ \A x : PumpsAt(f.feeds, x, t) = PumpsAt(disk.feeds, x, t)
FarmInv ==
    /\ today \in Days /\ RunsBy(today) /\ valveNames \in NamedAs /\ farmCrashes \in Nat
    /\ Good(farm, today) /\ Good(farmDisk, today)
    /\ farmDirty \in Days \cup {Forever, Ongoing}
    /\ farmDirty # Ongoing => farmDirty <= today
    /\ farmDirty = Ongoing => farm = farmDisk
    /\ \A t \in Days : t < farmDirty => Mirrors(farm, farmDisk, t)

Stays(f, g, t) ==
    /\ \A v \in FarmValves : LocationForRun(f, v, t) # NoPlace /\ <<v, t>> \in farmRuns =>
         LocationForRun(g, v, t) = LocationForRun(f, v, t)
    /\ \A x \in Targets(f) : Feeds(f, x, t) # {} =>
         {a.pump : a \in Feeds(g, x, t)} = {a.pump : a \in Feeds(f, x, t)}
PastStep == \A t \in Days : Past(t) => Stays(farm, farm', t)
NoneJoinsStep == farmEdits' # farmEdits => SharedPlaces(farm') \subseteq SharedPlaces(farm)

LEMMA StaysByPlaces ==
    ASSUME NEW f, NEW g, NEW now, NEW t \in Days, Good(f, now), Good(g, now),
           \A v \in FarmValves : <<v, t>> \in farmRuns => HeldPlaces(f.held, v, t) \subseteq HeldPlaces(g.held, v, t),
           \A x : PumpsAt(f.feeds, x, t) # {} => PumpsAt(g.feeds, x, t) = PumpsAt(f.feeds, x, t)
    PROVE  Stays(f, g, t)
<1>1. ASSUME NEW v \in FarmValves, LocationForRun(f, v, t) # NoPlace, <<v, t>> \in farmRuns
      PROVE  LocationForRun(g, v, t) = LocationForRun(f, v, t)
  <2>1. HeldPlaces(f.held, v, t) \subseteq HeldPlaces(g.held, v, t)
    BY <1>1
  <2> QED
    BY <1>1, <2>1, SamePlace
<1>2. ASSUME NEW h, NEW x PROVE {a.pump : a \in Feeds(h, x, t)} = PumpsAt(h.feeds, x, t)
  <2>1. Feeds(h, x, t) = {b \in h.feeds : b.target = x /\ InWindow(b, t)}
    BY DEF Feeds, FeedsOf
  <2> QED
    BY <2>1 DEF PumpsAt
<1>3. ASSUME NEW x, Feeds(f, x, t) # {}
      PROVE  {a.pump : a \in Feeds(g, x, t)} = {a.pump : a \in Feeds(f, x, t)}
  <2>1. PumpsAt(f.feeds, x, t) # {}
    <3>1. {a.pump : a \in Feeds(f, x, t)} # {}
      BY <1>3
    <3> QED
      BY <1>2, <3>1
  <2>2. PumpsAt(g.feeds, x, t) = PumpsAt(f.feeds, x, t)
    BY <2>1
  <2>3. {a.pump : a \in Feeds(g, x, t)} = PumpsAt(g.feeds, x, t)
    BY <1>2
  <2>4. {a.pump : a \in Feeds(f, x, t)} = PumpsAt(f.feeds, x, t)
    BY <1>2
  <2> QED
    BY <2>2, <2>3, <2>4
<1> QED
  BY <1>1, <1>3 DEF Stays

LEMMA StaysSame ==
    ASSUME NEW f, NEW g, NEW t, f = g
    PROVE  Stays(f, g, t)
BY DEF Stays

LEMMA KeptStays ==
    ASSUME NEW f, NEW g, NEW now \in Days, NEW t \in Days, t < now, Good(f, now), Kept(f, g, now, farmRuns)
    PROVE  Stays(f, g, t)
<1>1. \A v \in FarmValves : <<v, t>> \in farmRuns => HeldPlaces(f.held, v, t) \subseteq HeldPlaces(g.held, v, t)
  BY DEF Kept, PlacesKept
<1>2. \A x : PumpsAt(f.feeds, x, t) # {} => PumpsAt(g.feeds, x, t) = PumpsAt(f.feeds, x, t)
  BY DEF Kept, FeedsKept
<1>3. Good(g, now)
  BY DEF Kept
<1> QED
  BY <1>1, <1>2, <1>3, StaysByPlaces

LEMMA MinOfDays ==
    ASSUME NEW a \in Days \cup {Forever, Ongoing}, NEW b \in Days \cup {Forever}
    PROVE  /\ Min({a, b}) \in Days \cup {Forever} /\ Min({a, b}) <= b /\ Min({a, b}) <= a
           /\ Min({a, b}) # Ongoing
<1>1. a \in Int /\ b \in Int /\ b < Ongoing /\ Ongoing \in Int
  BY DayFacts DEF Forever
<1>2. PICK m : m = Min({a, b})
  OBVIOUS
<1>3. m \in {a, b} /\ \A y \in {a, b} : m <= y
  <2>1. \E x \in {a, b} : \A y \in {a, b} : x <= y
    BY <1>1
  <2> QED
    BY <1>2, <2>1 DEF Min
<1>4. m # Ongoing
  BY <1>1, <1>3
<1> QED
  BY <1>2, <1>3, <1>4

LEMMA SinceDays ==
    ASSUME NEW g, today \in Days
    PROVE  Since(g) \in Days \cup {Forever} /\ (Since(g) = Forever \/ Since(g) = today) /\ Since(g) <= today
<1>1. Forever <= today /\ today <= today
  BY DayFacts
<1> QED
  BY <1>1 DEF Since

(* A request that keeps what it must.                                      *)
LEMMA PostKeeps ==
    ASSUME NEW answer, FarmInv, Post(answer), Kept(farm, answer.farm, today, farmRuns)
    PROVE  FarmInv' /\ PastStep /\ NoneJoinsStep
<1> PICK g : g = answer.farm
  OBVIOUS
<1>1. /\ farmDisk' = farmDisk /\ today' = today /\ farmRuns' = farmRuns /\ valveNames' = valveNames
      /\ farmCrashes' = farmCrashes /\ farm' = g
      /\ farmDirty' = IF g = farm THEN farmDirty ELSE Min({farmDirty, Since(g)})
  BY DEF Post, Changed
<1>2. Good(g, today) /\ Good(farm, today) /\ today \in Days
  BY DEF Kept, FarmInv
<1>3. RunsBy(today)'
  <2>1. RunsBy(today)
    BY DEF FarmInv
  <2> QED
    BY <1>1, <2>1 DEF RunsBy
<1>4. NoneJoinsStep
  BY <1>1 DEF Kept, NoneJoinsStep
<1>5. PastStep
  <2>1. ASSUME NEW t \in Days, t < today PROVE Stays(farm, g, t)
    BY <1>2, <2>1, KeptStays
  <2> QED
    BY <1>1, <2>1 DEF PastStep, Past
<1>6. /\ farmDirty' \in Days \cup {Forever, Ongoing}
      /\ farmDirty' # Ongoing => farmDirty' <= today
      /\ farmDirty' = Ongoing => g = farmDisk
      /\ \A t \in Days : t < farmDirty' => Mirrors(g, farmDisk, t)
  <2>1. CASE g = farm
    BY <1>1, <2>1 DEF FarmInv
  <2>2. CASE g # farm
    <3>1. PICK since : since = Since(g)
      OBVIOUS
    <3>2. since \in Days \cup {Forever} /\ (since = Forever \/ since = today) /\ since <= today
      BY <1>2, <3>1, SinceDays
    <3>3. farmDirty \in Days \cup {Forever, Ongoing}
      BY DEF FarmInv
    <3>4. PICK m : m = Min({farmDirty, since})
      OBVIOUS
    <3>5. m \in Days \cup {Forever} /\ m <= since /\ m <= farmDirty /\ m # Ongoing
      BY <3>2, <3>3, <3>4, MinOfDays
    <3>6. farmDirty' = m
      BY <1>1, <2>2, <3>1, <3>4
    <3>7. m \in Int /\ since \in Int /\ farmDirty \in Int /\ today \in Int
      BY <1>2, <3>2, <3>3, <3>5, DayFacts DEF Forever
    <3>8. m <= today
      BY <3>2, <3>5, <3>7
    <3>9. ASSUME NEW t \in Days, t < m PROVE Mirrors(g, farmDisk, t)
      <4>1. t < farmDirty /\ t < since /\ t \in Int
        BY <3>5, <3>7, <3>9, DayFacts
      <4>2. since = today /\ t < today
        BY <3>2, <4>1, DayFacts
      <4>3. Mirrors(farm, farmDisk, t)
        BY <4>1 DEF FarmInv
      <4>4. \A v \in FarmValves : HeldPlaces(g.held, v, t) \subseteq HeldPlaces(farm.held, v, t)
        BY <4>2 DEF Kept, PlacesKept
      <4>5. \A a \in g.feeds \ farm.feeds : ~(a.begin = Forever /\ IsOpen(a))
        <5>1. Forever # today
          BY <1>2, DayFacts
        <5> QED
          BY <3>1, <4>2, <5>1 DEF Since
      <4>6. FeedsKept(farm.feeds, g.feeds, today)
        BY DEF Kept
      <4>7. \A x : PumpsAt(g.feeds, x, t) = PumpsAt(farm.feeds, x, t)
        BY <4>2, <4>5, <4>6 DEF FeedsKept
      <4> QED
        BY <4>3, <4>4, <4>7 DEF Mirrors
    <3> QED
      BY <3>5, <3>6, <3>8, <3>9
  <2> QED
    BY <2>1, <2>2
<1>7. FarmInv'
  BY <1>1, <1>2, <1>3, <1>6 DEF FarmInv
<1> QED
  BY <1>4, <1>5, <1>7

LEMMA EditsKept ==
    ASSUME FarmInv, EditPlaces \/ EditSites \/ EditPumps
    PROVE  FarmInv' /\ PastStep /\ NoneJoinsStep
<1> PICK f, now, rows : f = farm /\ now = today /\ rows = farmRuns
  OBVIOUS
<1>0. Good(f, now) /\ now \in Days
  BY DEF FarmInv
<1> DEFINE Sound(answer) == Kept(farm, answer.farm, today, farmRuns)
<1>1. CASE EditPlaces
  <2>1. ASSUME NEW name \in FarmNames, PlaceIds \ DOMAIN f.places # {} PROVE Sound(CreatedLocation(f, name))
    BY <1>0, <2>1, CreatedKept
  <2>2. ASSUME NEW p \in PlaceIds, NEW name \in FarmNames PROVE Sound(UpdatedLocation(f, p, name))
    BY <1>0, UpdatedKept
  <2>3. ASSUME NEW p \in PlaceIds, NEW v \in FarmValves
        PROVE  Sound(AssignedDevice(f, v, p, now)) /\ Sound(EndedAssignment(f, v, p, now))
    BY <1>0, AssignedKept, EndedKept
  <2>4. ASSUME NEW p \in PlaceIds PROVE Sound(DeletedLocation(f, p, rows))
    BY <1>0, DeletedKept
  <2>5. PICK answer : Post(answer) /\ Sound(answer)
    <3> HIDE DEF Sound
    <3> QED
      BY <1>1, <2>1, <2>2, <2>3, <2>4 DEF EditPlaces
  <2> QED
    BY <2>5, PostKeeps
<1>2. CASE EditSites
  <2>1. ASSUME NEW name \in FarmNames, NEW up \in SiteIds \cup {NoSite}, SiteIds \ DOMAIN f.sites # {}
        PROVE  Sound(CreatedSite(f, name, up))
    BY <1>0, <2>1, CreatedSiteKept
  <2>2. ASSUME NEW name \in FarmNames, NEW up \in SiteIds \cup {NoSite}, NEW s \in SiteIds
        PROVE  Sound(UpdatedSite(f, s, name, up))
    BY <1>0, UpdatedSiteKept
  <2>3. ASSUME NEW s \in SiteIds PROVE Sound(DeletedSite(f, s))
    BY <1>0, DeletedSiteKept
  <2>4. ASSUME NEW p \in PlaceIds, NEW s \in SiteIds \cup {NoSite} PROVE Sound(SetLocationSite(f, p, s))
    BY <1>0, SitedKept
  <2>5. PICK answer : Post(answer) /\ Sound(answer)
    <3> HIDE DEF Sound
    <3> QED
      BY <1>2, <2>1, <2>2, <2>3, <2>4 DEF EditSites
  <2> QED
    BY <2>5, PostKeeps
<1>3. CASE EditPumps
  <2>1. ASSUME PumpIds \ f.pumps # {} PROVE Sound(CreatedPump(f))
    BY <1>0, <2>1, CreatedPumpKept
  <2>2. ASSUME NEW x \in SiteIds \cup PlaceIds PROVE Sound(EndedPump(f, x, now))
    BY <1>0, EndedPumpKept
  <2>3. ASSUME NEW x \in SiteIds \cup PlaceIds, NEW u \in PumpIds PROVE Sound(AssignedPump(f, u, x, now))
    BY <1>0, AssignedPumpKept
  <2>4. ASSUME NEW u \in PumpIds, NEW d \in FarmTaps PROVE Sound(DisconnectedDevice(f, u, d, now))
    BY <1>0, DisconnectedKept
  <2>5. ASSUME NEW u \in PumpIds, NEW d \in FarmTaps, NEW role \in {"consumer", "monitor"}
        PROVE  Sound(ConnectedDevice(f, u, d, role, now))
    BY <1>0, ConnectedKept
  <2>6. PICK answer : Post(answer) /\ Sound(answer)
    <3> HIDE DEF Sound
    <3> QED
      BY <1>3, <2>1, <2>2, <2>3, <2>4, <2>5 DEF EditPumps
  <2> QED
    BY <2>6, PostKeeps
<1> QED
  BY <1>1, <1>2, <1>3

LEMMA SeedOnceKept ==
    ASSUME FarmInv, SeedOnce
    PROVE  FarmInv' /\ PastStep /\ NoneJoinsStep
<1> PICK g : g = SeedFromNames(farm, today)
  OBVIOUS
<1>1. /\ farmDisk' = farmDisk /\ today' = today /\ farmRuns' = farmRuns /\ valveNames' = valveNames
      /\ farmCrashes' = farmCrashes /\ farmEdits' = farmEdits /\ farm' = g
      /\ farmDirty' = IF g = farm THEN farmDirty ELSE Min({farmDirty, Forever})
      /\ DOMAIN farm.places = {} /\ farm.held = {}
  BY DEF SeedOnce, Changed
<1>2. /\ Good(farm, today) /\ Good(farmDisk, today) /\ today \in Days /\ RunsBy(today)
      /\ valveNames \in NamedAs /\ farmCrashes \in Nat
  BY DEF FarmInv
<1>3. Good(g, today) /\ g.feeds = farm.feeds
  BY <1>1, <1>2, SeededGood
<1>4. RunsBy(today)'
  BY <1>1, <1>2 DEF RunsBy
<1>5. /\ farmDirty' \in Days \cup {Forever, Ongoing}
      /\ farmDirty' # Ongoing => farmDirty' <= today
      /\ farmDirty' = Ongoing => g = farmDisk
      /\ \A t \in Days : t < farmDirty' => Mirrors(g, farmDisk, t)
  <2>1. CASE g = farm
    BY <1>1, <2>1 DEF FarmInv
  <2>2. CASE g # farm
    <3>1. farmDirty \in Days \cup {Forever, Ongoing}
      BY DEF FarmInv
    <3>2. PICK m : m = Min({farmDirty, Forever})
      OBVIOUS
    <3>3. m \in Days \cup {Forever} /\ m <= Forever /\ m # Ongoing
      BY <3>1, <3>2, MinOfDays
    <3>4. farmDirty' = m
      BY <1>1, <2>2, <3>2
    <3>5. m <= today /\ \A t \in Days : ~(t < m)
      BY <1>2, <3>3, DayFacts DEF Forever
    <3> QED
      BY <3>3, <3>4, <3>5
  <2> QED
    BY <2>1, <2>2
<1>6. ASSUME NEW t \in Days PROVE Stays(farm, g, t)
  <2>1. \A v \in FarmValves : HeldPlaces(farm.held, v, t) \subseteq HeldPlaces(g.held, v, t)
    BY <1>1 DEF HeldPlaces, HoldAt
  <2>2. \A x : PumpsAt(g.feeds, x, t) = PumpsAt(farm.feeds, x, t)
    BY <1>3
  <2> QED
    BY <1>2, <1>3, <2>1, <2>2, StaysByPlaces
<1>7. FarmInv'
  BY <1>1, <1>2, <1>3, <1>4, <1>5 DEF FarmInv
<1> QED
  BY <1>1, <1>6, <1>7 DEF PastStep, NoneJoinsStep

LEMMA SeedSitesOnceKept ==
    ASSUME FarmInv, SeedSitesOnce
    PROVE  FarmInv' /\ PastStep /\ NoneJoinsStep
<1>0. PICK rooms \in InRooms :
        /\ Cardinality(DOMAIN farm.sites) + Cardinality(FarmNames) <= Cardinality(SiteIds)
        /\ SeedSites(farm, rooms) # farm /\ Changed(SeedSites(farm, rooms), today)
  BY DEF SeedSitesOnce
<1> PICK g : g = SeedSites(farm, rooms)
  OBVIOUS
<1>1. /\ farmDisk' = farmDisk /\ today' = today /\ farmRuns' = farmRuns /\ valveNames' = valveNames
      /\ farmCrashes' = farmCrashes /\ farmEdits' = farmEdits /\ farm' = g
      /\ farmDirty' = Min({farmDirty, today})
  BY <1>0 DEF SeedSitesOnce, Changed
<1>2. /\ Good(farm, today) /\ Good(farmDisk, today) /\ today \in Days /\ RunsBy(today)
      /\ valveNames \in NamedAs /\ farmCrashes \in Nat /\ farmDirty \in Days \cup {Forever, Ongoing}
  BY DEF FarmInv
<1>3. Good(g, today) /\ g.held = farm.held /\ g.feeds = farm.feeds
  BY <1>0, <1>2, SeedSitesKept
<1>4. RunsBy(today)'
  BY <1>1, <1>2 DEF RunsBy
<1>5. PICK m : m = Min({farmDirty, today})
  OBVIOUS
<1>6. m \in Days \cup {Forever} /\ m <= today /\ m <= farmDirty /\ m # Ongoing
  BY <1>2, <1>5, MinOfDays
<1>7. ASSUME NEW t \in Days, t < m PROVE Mirrors(g, farmDisk, t)
  <2>1. t < farmDirty
    <3>1. m \in Int /\ farmDirty \in Int /\ t \in Int
      BY <1>2, <1>6, DayFacts DEF Forever
    <3> QED
      BY <1>6, <1>7, <3>1
  <2>2. Mirrors(farm, farmDisk, t)
    BY <2>1 DEF FarmInv
  <2> QED
    BY <1>3, <2>2 DEF Mirrors
<1>8. FarmInv'
  BY <1>1, <1>2, <1>3, <1>4, <1>5, <1>6, <1>7 DEF FarmInv
<1>9. ASSUME NEW t \in Days PROVE Stays(farm, g, t)
  BY <1>2, <1>3, StaysByPlaces
<1> QED
  BY <1>1, <1>8, <1>9 DEF PastStep, NoneJoinsStep

LEMMA SaveKept ==
    ASSUME FarmInv, SaveFarm
    PROVE  FarmInv' /\ PastStep /\ NoneJoinsStep
<1>1. /\ farmDisk' = farm /\ farm' = farm /\ today' = today /\ farmRuns' = farmRuns /\ valveNames' = valveNames
      /\ farmCrashes' = farmCrashes /\ farmEdits' = farmEdits /\ farmDirty' = Ongoing
  BY DEF SaveFarm
<1>2. RunsBy(today)'
  BY <1>1 DEF FarmInv, RunsBy
<1>3. \A t : Mirrors(farm, farm, t)
  BY DEF Mirrors
<1>4. FarmInv'
  BY <1>1, <1>2, <1>3 DEF FarmInv
<1> QED
  BY <1>1, <1>4, StaysSame DEF PastStep, NoneJoinsStep

(* The disk knows all that the memory knew of the days before farmDirty.   *)
LEMMA CrashKept ==
    ASSUME FarmInv, CrashFarm
    PROVE  FarmInv' /\ PastStep /\ NoneJoinsStep
<1>1. /\ farmDisk' = farmDisk /\ farm' = farmDisk /\ today' = today /\ farmRuns' = farmRuns
      /\ valveNames' = valveNames /\ farmCrashes' = farmCrashes + 1 /\ farmEdits' = farmEdits
      /\ farmDirty' = Ongoing
  BY DEF CrashFarm
<1>2. RunsBy(today)'
  BY <1>1 DEF FarmInv, RunsBy
<1>3. \A t : Mirrors(farmDisk, farmDisk, t)
  BY DEF Mirrors
<1>4. farmCrashes' \in Nat /\ farmCrashes' # farmCrashes
  BY <1>1 DEF FarmInv
<1>5. FarmInv'
  BY <1>1, <1>2, <1>3, <1>4 DEF FarmInv
<1>6. ASSUME NEW t \in Days, t < farmDirty PROVE Stays(farm, farmDisk, t)
  <2>1. Mirrors(farm, farmDisk, t) /\ Good(farm, today) /\ Good(farmDisk, today)
    BY <1>6 DEF FarmInv
  <2> QED
    BY <2>1, StaysByPlaces DEF Mirrors
<1>7. PastStep
  BY <1>1, <1>4, <1>6 DEF PastStep, Past
<1> QED
  BY <1>1, <1>5, <1>7 DEF NoneJoinsStep

LEMMA ClockKept ==
    ASSUME FarmInv, Water \/ NextDay \/ UNCHANGED farmVars
    PROVE  FarmInv' /\ PastStep /\ NoneJoinsStep
<1>1. /\ farmDisk' = farmDisk /\ farm' = farm /\ valveNames' = valveNames /\ farmCrashes' = farmCrashes
      /\ farmEdits' = farmEdits /\ farmDirty' = farmDirty
  BY DEF Water, NextDay, farmVars
<1>2. today \in Days /\ today' \in Days /\ today <= today'
  <2>1. today \in Days /\ today \in Nat /\ LastDay \in Nat
    BY DayFacts DEF FarmInv
  <2>2. today' = today \/ (today < LastDay /\ today' = today + 1)
    BY DEF Water, NextDay, farmVars
  <2> QED
    BY <2>1, <2>2 DEF Days
<1>3. RunsBy(today)'
  <2>1. \A r \in farmRuns : r \in FarmValves \X Days /\ r[2] <= today
    BY DEF FarmInv, RunsBy
  <2>2. CASE Water
    <3>1. PICK v \in FarmValves : farmRuns' = farmRuns \cup {<<v, today>>} /\ today' = today
      BY <2>2 DEF Water
    <3>2. today <= today
      BY <1>2, DayFacts
    <3>3. \A r \in farmRuns' : r \in FarmValves \X Days /\ r[2] <= today
      BY <1>2, <2>1, <3>1, <3>2
    <3> QED
      BY <3>1, <3>3 DEF RunsBy
  <2>3. CASE NextDay \/ UNCHANGED farmVars
    <3>1. farmRuns' = farmRuns
      BY <2>3 DEF NextDay, farmVars
    <3>2. ASSUME NEW r \in farmRuns PROVE r[2] <= today'
      <4>1. r[2] \in Days /\ r[2] <= today
        BY <2>1
      <4>2. r[2] \in Nat /\ today \in Nat /\ today' \in Nat
        BY <1>2, <4>1, DayFacts
      <4> QED
        BY <1>2, <4>1, <4>2
    <3>3. \A r \in farmRuns' : r \in FarmValves \X Days /\ r[2] <= today'
      BY <2>1, <3>1, <3>2
    <3> QED
      BY <3>3 DEF RunsBy
  <2> QED
    BY <2>2, <2>3
<1>4. Good(farm, today') /\ Good(farmDisk, today')
  <2>1. Good(farm, today) /\ Good(farmDisk, today)
    BY DEF FarmInv
  <2> QED
    BY <1>2, <2>1, LaterGood
<1>5. farmDirty # Ongoing => farmDirty <= today'
  <2>1. farmDirty \in Days \cup {Forever, Ongoing} /\ (farmDirty # Ongoing => farmDirty <= today)
    BY DEF FarmInv
  <2>2. today \in Int /\ today' \in Int /\ farmDirty \in Int
    BY <1>2, <2>1, DayFacts DEF Forever
  <2> QED
    BY <1>2, <2>1, <2>2
<1>6. FarmInv'
  BY <1>1, <1>2, <1>3, <1>4, <1>5 DEF FarmInv
<1> QED
  BY <1>1, <1>6, StaysSame DEF PastStep, NoneJoinsStep

LEMMA FarmStep == FarmInv /\ [LocNext]_farmVars => FarmInv' /\ PastStep /\ NoneJoinsStep
BY EditsKept, SeedOnceKept, SeedSitesOnceKept, SaveKept, CrashKept, ClockKept DEF LocNext

LEMMA FarmStart == LocInit => FarmInv
<1> SUFFICES ASSUME LocInit PROVE FarmInv
  OBVIOUS
<1>1. Good(farm, 0) /\ farmDisk = farm
  BY FoundGood DEF LocInit
<1>2. today = 0 /\ 0 \in Days
  BY LocAssumption DEF LocInit, Days
<1>3. \A t : Mirrors(farm, farm, t)
  BY DEF Mirrors
<1> QED
  BY <1>1, <1>2, <1>3 DEF LocInit, FarmInv, RunsBy

(* The table of places (location_model.py, irrigation_locations.py):       *)
(* whatever is asked of it, refused requests, seeds and restarts included, *)
(* it stays unambiguous and attached, the place of a watering that is over *)
(* and the pump of a past day stay what they were, save for what a restart *)
(* loses of the edits not yet saved, and no request puts a second valve on *)
(* a place.                                                                *)
THEOREM TheFarmKeepsItsHistory == LocSpec => HistoryStays
<1>1. LocInit => FarmInv
  BY FarmStart
<1>2. FarmInv /\ [LocNext]_farmVars => FarmInv' /\ PastStep /\ NoneJoinsStep
  BY FarmStep
<1>3. FarmInv => OneAtATime /\ NothingDangles
  BY GoodIsSound DEF FarmInv, OneAtATime, NothingDangles
<1>4. LocSpec => [](OneAtATime /\ NothingDangles)
  BY <1>1, <1>2, <1>3, PTL DEF LocSpec
<1>5. PastStep => (\A t \in Days : Past(t) =>
         /\ \A v \in FarmValves : LocationForRun(farm, v, t) # NoPlace /\ <<v, t>> \in farmRuns =>
              LocationForRun(farm', v, t) = LocationForRun(farm, v, t)
         /\ \A x \in Targets(farm) : Feeds(farm, x, t) # {} =>
              {a.pump : a \in Feeds(farm', x, t)} = {a.pump : a \in Feeds(farm, x, t)})
  BY DEF PastStep, Stays
<1>6. LocSpec => PastStays
  BY <1>1, <1>2, <1>5, PTL DEF LocSpec, PastStays
<1>7. LocSpec => NoneJoins
  BY <1>1, <1>2, PTL DEF LocSpec, NoneJoins, NoneJoinsStep
<1> QED
  BY <1>4, <1>6, <1>7 DEF HistoryStays

=============================================================================
