------------------------------ MODULE Locations ------------------------------
(* The irrigated places of a farm: which valve serves a place, the sites    *)
(* the places lie in and the pumps that feed them, each dated, so that a    *)
(* watering is counted for the place its valve served when it ended.  The   *)
(* table lives in memory, an administrator edits it through one request at  *)
(* a time, and it reaches the disk some seconds after an accepted edit.     *)
EXTENDS Naturals, Integers, Sequences, FiniteSets, FiniteSetsExt

CONSTANTS
    FarmValves,     \* Tuya device ids of the valves
    PlaceIds,       \* ids a new place may get
    SiteIds,
    PumpIds,
    FarmTaps,       \* Home Assistant devices that can be connected to a pump
    FarmNames,      \* names of places, of sites and of rooms
    NamedAs,        \* the places SmartLife's names of the valves may tell
    InRooms,        \* the rooms the valves may be in
    NoName,         \* the name of a valve that tells no place, the room of one in no room
    Farms,          \* the tables a behaviour may find on the disk
    LastDay,        \* bound: the clock
    MaxEdits,       \* bound: requests
    MaxFarmRuns,    \* bound: waterings
    MaxFarmCrashes  \* bound: restarts without a save

ASSUME LocAssumption ==
    /\ NamedAs \subseteq [FarmValves -> FarmNames \cup {NoName}]
    /\ InRooms \subseteq [FarmValves -> FarmNames \cup {NoName}]
    /\ LastDay \in Nat

VARIABLES
    farm,           \* IrrigationLocations.data
    farmDisk,       \* what the store holds
    farmDue,        \* a delayed save is scheduled
    today,          \* the clock
    farmRuns,       \* the runs store: <<valve, day the watering ended>>
    valveNames,     \* the place SmartLife's name of each valve tells
    farmDirty,      \* history: no day before it is touched by an edit not on the disk
    farmEdits, farmCrashes

farmVars == <<farm, farmDisk, farmDue, today, farmRuns, valveNames,
              farmDirty, farmEdits, farmCrashes>>

Forever == -1               \* begin None
Ongoing == LastDay + 1         \* end None
Days == 0..LastDay
NoPlace == "no place"
NoSite == "no site"
NoPump == "no pump"

EmptyFarm ==
    [places |-> <<>>, held |-> {}, sites |-> <<>>, seeded |-> FALSE,
     pumps |-> {}, feeds |-> {}, links |-> <<>>]

Without(f, x) == [y \in DOMAIN f \ {x} |-> f[y]]
With(f, x, value) == [y \in DOMAIN f \cup {x} |-> IF y = x THEN value ELSE f[y]]

Accepted(f) == [farm |-> f, ok |-> TRUE]
Refused(f) == [farm |-> f, ok |-> FALSE]    \* f: what the request changed before it failed

-----------------------------------------------------------------------------
(* Windows.  An interval holds its first instant and not its last, so that  *)
(* a watering that ends as a valve is exchanged counts once.                *)

InWindow(a, t) == a.begin <= t /\ t < a.end

IsOpen(a) == a.end = Ongoing
Ended(as, those, now) == {IF a \in those /\ IsOpen(a) THEN [a EXCEPT !.end = now] ELSE a : a \in as}

Holding(f, v, t) == {a \in f.held : a.device = v /\ InWindow(a, t)}
LocationForRun(f, v, t) == IF Holding(f, v, t) = {} THEN NoPlace ELSE (CHOOSE a \in Holding(f, v, t) : TRUE).place
LocationRuns(f, p, rows) == {r \in rows : \E a \in f.held : a.place = p /\ a.device = r[1] /\ InWindow(a, r[2])}

-----------------------------------------------------------------------------
(* Places and valves. *)

FindByAlias(f, name) == {p \in DOMAIN f.places : name \in f.places[p].aliases}
NewLocation(f, p, name) ==
    [f EXCEPT !.places = With(f.places, p, [name |-> name, aliases |-> {name}, site |-> NoSite])]
FreshPlace(f) == CHOOSE p \in PlaceIds : p \notin DOMAIN f.places

CreatedLocation(f, name) ==
    IF FindByAlias(f, name) # {} THEN Refused(f) ELSE Accepted(NewLocation(f, FreshPlace(f), name))

UpdatedLocation(f, p, name) ==
    IF p \notin DOMAIN f.places \/ FindByAlias(f, name) \ {p} # {} THEN Refused(f)
    ELSE Accepted([f EXCEPT !.places[p].name = name, !.places[p].aliases = @ \cup {name}])

Assignment(p, v, begin, auto) == [place |-> p, device |-> v, begin |-> begin, end |-> Ongoing, auto |-> auto]
OpenOf(f, v) == {a \in f.held : a.device = v /\ IsOpen(a)}

(* The valve leaves the place it served, and the place the valve it held. *)
AssignedDevice(f, v, p, now) ==
    IF p \notin DOMAIN f.places THEN Refused(f)
    ELSE IF \E a \in OpenOf(f, v) : a.place = p
    THEN Accepted([f EXCEPT !.held = {IF a \in OpenOf(f, v) THEN [a EXCEPT !.auto = FALSE] ELSE a : a \in @}])
    ELSE Accepted([f EXCEPT !.held = Ended(@, {a \in @ : a.device = v \/ a.place = p}, now)
                                        \cup {Assignment(p, v, now, FALSE)}])

EndedAssignment(f, v, p, now) ==
    IF \E a \in OpenOf(f, v) : a.place = p
    THEN Accepted([f EXCEPT !.held = Ended(@, {a \in @ : a.device = v}, now)]) ELSE Refused(f)

(* Only a place that was a mistake: no valve, no watering, no pump. *)
DeletedUnread(f, p, rows) ==
    IF p \notin DOMAIN f.places \/ (\E a \in f.held : a.place = p /\ IsOpen(a)) THEN Refused(f)
    ELSE Accepted([f EXCEPT !.held = {a \in @ : a.place # p}, !.places = Without(@, p)])
DeletedLocation(f, p, rows) ==
    IF \/ p \notin DOMAIN f.places
       \/ \E a \in f.held : a.place = p /\ IsOpen(a)
       \/ LocationRuns(f, p, rows) # {}
       \/ \E a \in f.feeds : a.target = p
    THEN Refused(f)
    ELSE Accepted([f EXCEPT !.held = {a \in @ : a.place # p}, !.places = Without(@, p)])

-----------------------------------------------------------------------------
(* The seed: a valve goes where its SmartLife name says, unless someone has *)
(* already put it elsewhere or ended it there.                              *)

FirstRun(v, now) == Min({r[2] : r \in {x \in farmRuns : x[1] = v}} \cup {now})

SeedPlaced(f, v, now) ==
    LET p == CHOOSE q \in FindByAlias(f, valveNames[v]) : TRUE
        known == {a \in f.held : a.device = v}
    IN  IF \E a \in OpenOf(f, v) : a.place # p /\ a.auto
        THEN [f EXCEPT !.held = Ended(@, known, now) \cup {Assignment(p, v, now, TRUE)}]
        ELSE IF OpenOf(f, v) # {} \/ \E a \in known : a.place = p THEN f
        ELSE [f EXCEPT !.held = @ \cup {Assignment(p, v, IF known = {} THEN FirstRun(v, now) ELSE now, TRUE)}]

SeedValve(f, v, now) ==
    IF valveNames[v] = NoName THEN f
    ELSE SeedPlaced(IF FindByAlias(f, valveNames[v]) = {} THEN NewLocation(f, FreshPlace(f), valveNames[v]) ELSE f,
                    v, now)
SeedFromNames(f, now) == FoldSet(LAMBDA v, g : SeedValve(g, v, now), f, FarmValves)

-----------------------------------------------------------------------------
(* Sites form a forest. *)

Upwards(f, c) ==        \* the chain goes on to the parent, unless that closes a circle
    LET up == f.sites[c[Len(c)]].parent
    IN  IF c = <<>> \/ up = NoSite \/ \E i \in DOMAIN c : c[i] = up THEN c ELSE Append(c, up)
SiteChain(f, s) ==      \* the site and its ancestors, nearest first
    LET chain[n \in 0..Cardinality(DOMAIN f.sites)] ==
          IF n = 0 THEN IF s = NoSite THEN <<>> ELSE <<s>> ELSE Upwards(f, chain[n - 1])
    IN  chain[Cardinality(DOMAIN f.sites)]
Ancestors(f, s) == LET c == SiteChain(f, s) IN {c[i] : i \in DOMAIN c}

FreshSite(f) == CHOOSE s \in SiteIds : s \notin DOMAIN f.sites
NamedSites(f, name) == {s \in DOMAIN f.sites : f.sites[s].name = name}

MovedSite(f, s, parent) ==
    IF parent # NoSite /\ (parent \notin DOMAIN f.sites \/ s \in Ancestors(f, parent)) THEN Refused(f)
    ELSE Accepted([f EXCEPT !.sites[s].parent = parent])

UpdatedSite(f, s, name, parent) ==
    IF s \notin DOMAIN f.sites \/ NamedSites(f, name) \ {s} # {} THEN Refused(f)
    ELSE MovedSite([f EXCEPT !.sites[s].name = name], s, parent)

NewSite(f, s, name) == [f EXCEPT !.sites = With(f.sites, s, [name |-> name, parent |-> NoSite])]
CreatedSite(f, name, parent) ==
    IF NamedSites(f, name) # {} THEN Refused(f)
    ELSE LET g == NewSite(f, FreshSite(f), name)
         IN  IF parent = NoSite THEN Accepted(g) ELSE MovedSite(g, FreshSite(f), parent)

DeletedSite(f, s) ==
    IF \/ s \notin DOMAIN f.sites
       \/ \E t \in DOMAIN f.sites : f.sites[t].parent = s
       \/ \E p \in DOMAIN f.places : f.places[p].site = s
       \/ \E a \in f.feeds : a.target = s
    THEN Refused(f)
    ELSE Accepted([f EXCEPT !.sites = Without(@, s)])

SetLocationSite(f, p, s) ==
    IF p \notin DOMAIN f.places \/ s \notin DOMAIN f.sites \cup {NoSite} THEN Refused(f)
    ELSE Accepted([f EXCEPT !.places[p].site = s])

(* One site for each room of a place's valve, once the rooms are known. *)
SeedSite(f, a, rooms) ==
    LET room == rooms[a.device] p == a.place
    IN  IF room = NoName \/ p \notin DOMAIN f.places \/ f.places[p].site # NoSite THEN f
        ELSE IF NamedSites(f, room) # {}
        THEN [f EXCEPT !.places[p].site = CHOOSE s \in NamedSites(f, room) : TRUE]
        ELSE [CreatedSite(f, room, NoSite).farm EXCEPT !.places[p].site = FreshSite(f)]
SitedByRooms(f, rooms, those) == FoldSet(LAMBDA a, g : SeedSite(g, a, rooms), f, those)
SeedSites(f, rooms) ==
    IF f.seeded \/ \A a \in f.held : IsOpen(a) => rooms[a.device] = NoName THEN f
    ELSE [SitedByRooms(f, rooms, {a \in f.held : IsOpen(a)}) EXCEPT !.seeded = TRUE]

-----------------------------------------------------------------------------
(* Pumps feed a site or a place from a day on; the first pump of a target   *)
(* has always fed it.                                                       *)

Targets(f) == DOMAIN f.sites \cup DOMAIN f.places
FreshPump(f) == CHOOSE u \in PumpIds : u \notin f.pumps
CreatedPump(f) == Accepted([f EXCEPT !.pumps = @ \cup {FreshPump(f)}])

FeedsOf(f, x) == {a \in f.feeds : a.target = x}
AssignedPump(f, u, x, now) ==
    IF u \notin f.pumps \/ x \notin Targets(f) THEN Refused(f)
    ELSE IF \E a \in FeedsOf(f, x) : IsOpen(a) /\ a.pump = u THEN Accepted(f)
    ELSE Accepted([f EXCEPT !.feeds = Ended(@, FeedsOf(f, x), now) \cup
             {[pump |-> u, target |-> x, begin |-> IF FeedsOf(f, x) = {} THEN Forever ELSE now, end |-> Ongoing]}])
EndedPump(f, x, now) ==
    IF \A a \in FeedsOf(f, x) : ~IsOpen(a) THEN Refused(f)
    ELSE Accepted([f EXCEPT !.feeds = Ended(@, FeedsOf(f, x), now)])

Feeds(f, x, t) == {a \in FeedsOf(f, x) : InWindow(a, t)}
PumpFor(f, p, t) ==     \* of the place, else of its site, else up the sites
    LET up == <<p>> \o SiteChain(f, f.places[p].site)
        fed == {i \in DOMAIN up : Feeds(f, up[i], t) # {}}
    IN  IF fed = {} THEN NoPump ELSE (CHOOSE a \in Feeds(f, up[Min(fed)], t) : TRUE).pump

(* The connections are gone through in order: one that is refused may have  *)
(* ended the consumer of another pump by then.                              *)
ConnectedDevice(f, u, d, role, now) ==
    LET mine == {i \in DOMAIN f.links : f.links[i].device = d}
        same == {i \in mine : IsOpen(f.links[i]) /\ f.links[i].pump = u}
        seen == IF same = {} THEN DOMAIN f.links ELSE 1..(Min(same) - 1)
        left == [i \in DOMAIN f.links |->
                   IF /\ i \in mine \cap seen /\ IsOpen(f.links[i])
                      /\ role = "consumer" /\ f.links[i].role = "consumer"
                   THEN [f.links[i] EXCEPT !.end = now] ELSE f.links[i]]
        link == [pump |-> u, device |-> d, role |-> role,
                 begin |-> IF mine = {} THEN Forever ELSE now, end |-> Ongoing]
    IN  IF u \notin f.pumps THEN Refused(f)
        ELSE IF same # {} THEN Refused([f EXCEPT !.links = left])
        ELSE Accepted([f EXCEPT !.links = Append(left, link)])

DisconnectedDevice(f, u, d, now) ==
    LET open == {i \in DOMAIN f.links : f.links[i].pump = u /\ f.links[i].device = d /\ IsOpen(f.links[i])}
    IN  IF open = {} THEN Refused(f) ELSE Accepted([f EXCEPT !.links[Min(open)].end = now])

-----------------------------------------------------------------------------
(* The table in Home Assistant. *)

LocInit ==
    /\ farmDisk \in Farms /\ farm = farmDisk /\ farmDue = FALSE
    /\ today = 0 /\ farmRuns = {}
    /\ valveNames \in NamedAs
    /\ farmDirty = Ongoing /\ farmEdits = 0 /\ farmCrashes = 0

Changed(f, since) ==
    /\ farm' = f
    /\ farmDirty' = IF f = farm THEN farmDirty ELSE Min({farmDirty, since})

(* The first pump of a target reaches back. *)
Since(f) == IF \E a \in f.feeds \ farm.feeds : a.begin = Forever /\ IsOpen(a) THEN Forever ELSE today

Post(answer) ==
    /\ farmEdits < MaxEdits
    /\ farmEdits' = IF answer.farm = farm THEN farmEdits ELSE farmEdits + 1
    /\ Changed(answer.farm, Since(answer.farm))
    /\ farmDue' = (farmDue \/ answer.ok)
    /\ UNCHANGED <<farmDisk, today, farmRuns, valveNames, farmCrashes>>

EditPlaces ==
    \/ \E name \in FarmNames : PlaceIds \ DOMAIN farm.places # {} /\ Post(CreatedLocation(farm, name))
    \/ \E p \in PlaceIds, name \in FarmNames : Post(UpdatedLocation(farm, p, name))
    \/ \E p \in PlaceIds, v \in FarmValves :
          Post(AssignedDevice(farm, v, p, today)) \/ Post(EndedAssignment(farm, v, p, today))
    \/ \E p \in PlaceIds : Post(DeletedLocation(farm, p, farmRuns))
EditSites ==
    \/ \E name \in FarmNames, up \in SiteIds \cup {NoSite} :
          \/ SiteIds \ DOMAIN farm.sites # {} /\ Post(CreatedSite(farm, name, up))
          \/ \E s \in SiteIds : Post(UpdatedSite(farm, s, name, up))
    \/ \E s \in SiteIds : Post(DeletedSite(farm, s))
    \/ \E p \in PlaceIds, s \in SiteIds \cup {NoSite} : Post(SetLocationSite(farm, p, s))
EditPumps ==
    \/ PumpIds \ farm.pumps # {} /\ Post(CreatedPump(farm))
    \/ \E x \in SiteIds \cup PlaceIds :
          Post(EndedPump(farm, x, today)) \/ \E u \in PumpIds : Post(AssignedPump(farm, u, x, today))
    \/ \E u \in PumpIds, d \in FarmTaps :
          \/ Post(DisconnectedDevice(farm, u, d, today))
          \/ \E role \in {"consumer", "monitor"} : Post(ConnectedDevice(farm, u, d, role, today))

(* async_seed_once: the runs store has been read when a calendar is set up. *)
SeedOnce ==
    /\ DOMAIN farm.places = {} /\ farm.held = {}
    /\ Changed(SeedFromNames(farm, today), Forever)
    /\ farmDue' = (farmDue \/ farm' # farm)
    /\ UNCHANGED <<farmDisk, today, farmRuns, valveNames, farmEdits, farmCrashes>>

SeedSitesOnce ==
    /\ \E rooms \in InRooms :
          Cardinality(DOMAIN farm.sites) + Cardinality(FarmNames) <= Cardinality(SiteIds)
            /\ SeedSites(farm, rooms) # farm /\ Changed(SeedSites(farm, rooms), today)
    /\ farmDue' = TRUE
    /\ UNCHANGED <<farmDisk, today, farmRuns, valveNames, farmEdits, farmCrashes>>

SaveFarm ==     \* _store.async_delay_save
    /\ farmDue
    /\ farmDisk' = farm /\ farmDue' = FALSE /\ farmDirty' = Ongoing
    /\ UNCHANGED <<farm, today, farmRuns, valveNames, farmEdits, farmCrashes>>

CrashFarm ==    \* with an edit not saved
    /\ farmDirty # Ongoing
    /\ farmCrashes < MaxFarmCrashes /\ farmCrashes' = farmCrashes + 1
    /\ farm' = farmDisk /\ farmDue' = FALSE /\ farmDirty' = Ongoing
    /\ UNCHANGED <<farmDisk, today, farmRuns, valveNames, farmEdits>>

(* A valve closes; its watering reaches the runs store at once. *)
Water ==
    /\ Cardinality(farmRuns) < MaxFarmRuns
    /\ \E v \in FarmValves : farmRuns' = farmRuns \cup {<<v, today>>}
    /\ UNCHANGED <<farm, farmDisk, farmDue, today, valveNames, farmDirty, farmEdits, farmCrashes>>
NextDay ==
    /\ today < LastDay /\ today' = today + 1
    /\ UNCHANGED <<farm, farmDisk, farmDue, farmRuns, valveNames, farmDirty, farmEdits, farmCrashes>>

LocNext ==
    \/ EditPlaces \/ EditSites \/ EditPumps \/ SeedOnce \/ SeedSitesOnce
    \/ SaveFarm \/ CrashFarm \/ Water \/ NextDay

LocSpec == LocInit /\ [][LocNext]_farmVars

-----------------------------------------------------------------------------
Begins == Days \cup {Forever}
EndDays == Days \cup {Ongoing}
FarmType(f) ==
    /\ DOMAIN f = DOMAIN EmptyFarm
    /\ DOMAIN f.places \subseteq PlaceIds /\ DOMAIN f.sites \subseteq SiteIds /\ f.pumps \subseteq PumpIds
    /\ \A p \in DOMAIN f.places :
         f.places[p] \in [name : FarmNames, aliases : SUBSET FarmNames, site : SiteIds \cup {NoSite}]
    /\ \A s \in DOMAIN f.sites : f.sites[s] \in [name : FarmNames, parent : SiteIds \cup {NoSite}]
    /\ f.held \subseteq [place : PlaceIds, device : FarmValves, begin : Begins, end : EndDays, auto : BOOLEAN]
    /\ IsFiniteSet(f.held)
    /\ f.feeds \subseteq [pump : PumpIds, target : SiteIds \cup PlaceIds, begin : Begins, end : EndDays]
    /\ f.links \in
         Seq([pump : PumpIds, device : FarmTaps, role : {"consumer", "monitor"}, begin : Begins, end : EndDays])

LocTypeOK ==
    /\ FarmType(farm) /\ FarmType(farmDisk)
    /\ farmDue \in BOOLEAN
    /\ today \in Days /\ farmRuns \subseteq FarmValves \X Days
    /\ farmDirty \in Days \cup {Forever, Ongoing}

AtMostOne(S) == \A x, y \in S : x = y

(* At no time does a valve serve two places, a target have two pumps or a   *)
(* consumer of water two pumps, and a name tells one place.                 *)
Unambiguous(f) ==
    /\ \A v \in FarmValves, t \in Days : AtMostOne(Holding(f, v, t))
    /\ \A x \in Targets(f), t \in Days : AtMostOne({a.pump : a \in Feeds(f, x, t)})
    /\ \A d \in FarmTaps, t \in Days :
         AtMostOne({i \in DOMAIN f.links : /\ f.links[i].device = d /\ f.links[i].role = "consumer"
                                           /\ InWindow(f.links[i], t)})
    /\ \A p, q \in DOMAIN f.places : p # q => f.places[p].aliases \cap f.places[q].aliases = {}
OneAtATime == Unambiguous(farm)

(* Sites form a forest, and nothing refers to what was deleted. *)
Attached(f) ==
    /\ \A s \in DOMAIN f.sites :
         f.sites[s].parent # NoSite =>
           f.sites[s].parent \in DOMAIN f.sites /\ s \notin Ancestors(f, f.sites[s].parent)
    /\ \A p \in DOMAIN f.places : f.places[p].site \in DOMAIN f.sites \cup {NoSite}
    /\ \A a \in f.held : a.place \in DOMAIN f.places
    /\ \A a \in f.feeds : a.target \in Targets(f) /\ a.pump \in f.pumps
NothingDangles == Attached(farm)

(* The table a behaviour finds was written by this code, before the first   *)
(* day, and ids (uuids in the code) do not run out.                         *)
Forest(f) == \A S \in SUBSET DOMAIN f.sites : S # {} => \E s \in S : f.sites[s].parent \notin S
DatedBy(a, now) == a.begin <= now /\ (IsOpen(a) \/ a.end <= now)
Dated(f, now) ==
    /\ \A a \in f.held \cup f.feeds : DatedBy(a, now)
    /\ \A i \in DOMAIN f.links : DatedBy(f.links[i], now)
ASSUME FarmAssumption ==
    /\ NoSite \notin SiteIds
    /\ IsFiniteSet(FarmValves) /\ IsFiniteSet(FarmNames) /\ IsFiniteSet(PlaceIds) /\ IsFiniteSet(SiteIds)
    /\ Cardinality(FarmNames) <= Cardinality(PlaceIds)
    /\ \A f \in Farms : FarmType(f) /\ Dated(f, 0) /\ Unambiguous(f) /\ Attached(f) /\ Forest(f)

(* What an edit may not rewrite: the place of a watering that is over, and  *)
(* the pump that fed a target; a restart may lose only what was edited      *)
(* since the last save.  And only the seed may put a second valve on a      *)
(* place, never an edit.                                                    *)
Sharing(f) ==
    {x \in f.held \X f.held : /\ IsOpen(x[1]) /\ IsOpen(x[2])
                              /\ x[1].place = x[2].place /\ x[1].device # x[2].device}
SharedPlaces(f) == {<<x[1].place, x[1].device, x[2].device>> : x \in Sharing(f)}
Past(t) == IF farmCrashes' = farmCrashes THEN t < today ELSE t < farmDirty
PastStays ==
    [][\A t \in Days : Past(t) =>
         /\ \A v \in FarmValves : LocationForRun(farm, v, t) # NoPlace /\ <<v, t>> \in farmRuns =>
              LocationForRun(farm', v, t) = LocationForRun(farm, v, t)
         /\ \A x \in Targets(farm) : Feeds(farm, x, t) # {} =>
              {a.pump : a \in Feeds(farm', x, t)} = {a.pump : a \in Feeds(farm, x, t)}]_farmVars
NoneJoins == [][farmEdits' # farmEdits => SharedPlaces(farm') \subseteq SharedPlaces(farm)]_farmVars

(* The table of places (location_model.py: an MP "holds at most one valve   *)
(* at a time", "The MP's metering history stays", architecture.md 5.1),     *)
(* over any sequence of edits, refused ones included, seeds and restarts.   *)
HistoryStays == [](OneAtATime /\ NothingDangles) /\ PastStays /\ NoneJoins
=============================================================================
