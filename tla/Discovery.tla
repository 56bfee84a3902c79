----------------------------- MODULE Discovery -----------------------------
(* How a platform finds the entities of a hub's devices: the descriptors of  *)
(* the platform, of the accounts and of the entity parsers are merged; each  *)
(* device gets an entity for every descriptor whose code it reports, then    *)
(* for the aliases of its codes, and when setup is over a generic one for    *)
(* each suitable code that nothing handles.  Devices may be bound from other *)
(* threads while setup still waits.                                          *)
EXTENDS Naturals, Sequences, SequencesExt, FiniteSets

CONSTANTS
    Appliances,         \* the devices
    AtSetup,            \* those of them the accounts list when the hub is set up
    Appliance,          \* device -> its category, the codes it reports (status), their aliases, and the
                        \* codes it has a wrapper for (described), that suit a generic entity (suited)
                        \* and that official Tuya shows (official)
    Catalogues,         \* the descriptors a platform may come with
    NoCode,             \* the dpcode of a descriptor that is named by its key
    Binders             \* the threads that add devices: the MQTT ones and the search for new ones

ASSUME ApplianceAssumption == AtSetup \subseteq Appliances /\ IsFiniteSet(Appliances)

VARIABLES
    setup,              \* where setup is
    catalogue,          \* the descriptors of this platform
    table,              \* the merged ones, once the platform is set up
    inMap,              \* the devices in the master map
    handledBy,          \* device -> the codes and keys marked as handled
    entitiesOf,              \* device -> its entities
    toRun,              \* priority -> the callbacks left for the end of setup
    turn,               \* the next of them
    jobs,               \* what other threads and callbacks have queued on the event loop
    binder,             \* thread -> the device it adds, and how far it is
    unbound             \* the devices removed in Tuya since setup

foundVars == <<setup, catalogue, table, inMap, handledBy, entitiesOf, toRun, turn, jobs, binder, unbound>>

CrossCategory == "any category"
Stages == {"register", "parsers", "platforms", "signals", "callbacks", "waiting", "ready"}
Priorities == {"early", "last"}
NoBinding == [step |-> "none"]

-----------------------------------------------------------------------------
(* Descriptors. *)

CodeOf(desc) == IF desc.dpcode = NoCode THEN desc.key ELSE desc.dpcode

(* What tells two descriptors apart: the key, and where the platform says so *)
(* the data point it reads.                                                 *)
CompoundKey(desc, compound) ==
    IF compound /\ desc.dpcode # NoCode THEN <<desc.key, desc.dpcode>> ELSE <<desc.key>>

(* The platform's descriptor stays, with the other's placeholders if it has  *)
(* none of its own.                                                          *)
MergedDescriptor(base, other) == IF base.named THEN base ELSE [base EXCEPT !.named = other.named]

(* The added ones come first; the last one of the base that has the same key *)
(* takes the place of each ...                                               *)
Placed(base, added, compound) ==
    LET Alike(desc) == {i \in DOMAIN base : CompoundKey(base[i], compound) = CompoundKey(desc, compound)}
    IN  [i \in DOMAIN added |-> IF Alike(added[i]) = {} THEN added[i]
                                ELSE MergedDescriptor(base[Max(Alike(added[i]))], added[i])]

(* ... and the rest of the base follows. *)
Follow(list, desc, added, compound) ==
    IF \E other \in ToSet(added) : CompoundKey(other, compound) = CompoundKey(desc, compound)
    THEN list ELSE Append(list, desc)
MergeLists(base, added, compound) ==
    FoldLeft(LAMBDA list, desc : Follow(list, desc, added, compound), Placed(base, added, compound), base)

(* What goes for any category is merged into every category. *)
Of(descs, category) == IF category \in DOMAIN descs THEN descs[category] ELSE <<>>
MergeTables(base, added, compound) ==
    LET cross == MergeLists(Of(base, CrossCategory), Of(added, CrossCategory), compound)
    IN  [category \in DOMAIN base \cup DOMAIN added |->
            IF category \in DOMAIN base
            THEN MergeLists(MergeLists(base[category], cross, compound), Of(added, category), compound)
            ELSE MergeLists(cross, added[category], compound)]

PlatformTable(cat) ==
    FoldLeft(LAMBDA base, added : MergeTables(base, added, cat.compound), cat.own, cat.accounts \o cat.parsers)

CategoryTable(descs, category) ==
    IF category \in DOMAIN descs THEN descs[category]
    ELSE IF CrossCategory \in DOMAIN descs THEN descs[CrossCategory] ELSE <<>>

(* What the sources of a platform have for a category. *)
SourceTables(cat) == {cat.own} \cup ToSet(cat.accounts) \cup ToSet(cat.parsers)
SourceDescriptors(cat, category) ==
    UNION {UNION {ToSet(descs[c]) : c \in DOMAIN descs \cap {category, CrossCategory}} : descs \in SourceTables(cat)}

Descriptor == [key : STRING, dpcode : STRING \cup {NoCode}, named : BOOLEAN, alone : BOOLEAN]

(* For a category no two codes share a key, and no code that generic         *)
(* entities suit is the key of another; a platform with descriptors for any  *)
(* category also gets those of an account, official Tuya's.                  *)
ASSUME CatalogueAssumption ==
    \A cat \in Catalogues :
        /\ cat.compound \in BOOLEAN /\ cat.overridden \in BOOLEAN
        /\ cat.accounts \in Seq(ToSet(cat.accounts)) /\ cat.parsers \in Seq(ToSet(cat.parsers))
        /\ CrossCategory \in DOMAIN cat.own => cat.accounts # <<>>
        /\ \A descs \in SourceTables(cat) : \A category \in DOMAIN descs : descs[category] \in Seq(Descriptor)
        /\ \A a \in Appliances : \A desc \in SourceDescriptors(cat, Appliance[a].category) :
              /\ desc.key \in Appliance[a].status \cap Appliance[a].suited => CodeOf(desc) = desc.key
              /\ \A other \in SourceDescriptors(cat, Appliance[a].category) :
                    other.key = desc.key => CodeOf(other) = CodeOf(desc)

-----------------------------------------------------------------------------
(* Which descriptors a device supports. *)

Entity(desc) == [key |-> desc.key, code |-> CodeOf(desc), generic |-> FALSE]
GenericEntity(code) == [key |-> code, code |-> code, generic |-> TRUE]

(* Home Assistant refuses an entity whose unique id, which is made of the    *)
(* device and the key, is taken.                                             *)
AddEntity(entities, entity) ==
    IF \E other \in entities : other.key = entity.key THEN entities ELSE entities \cup {entity}

(* A code may be handled already: by official Tuya, by another descriptor.   *)
(* A descriptor may ignore that, or be another reading of the same code.     *)
Blocked(desc, handled, compound) ==
    /\ <<CodeOf(desc)>> \in handled
    /\ ~desc.alone
    /\ ~compound \/ CompoundKey(desc, compound) \in handled

Supports(a, desc, handled, compound, first) ==
    LET code == CodeOf(desc)
        aliases == Appliance[a].aliases
    IN  /\ ~Blocked(desc, handled, compound)
        /\ IF first THEN code \in Appliance[a].status
           ELSE code \in DOMAIN aliases /\ <<aliases[code]>> \notin handled

(* A plausible bug: only what tells the descriptor apart is marked. *)
RegisterHandledKey(desc, handled, compound) == handled \cup {CompoundKey(desc, compound)}
RegisterHandled(desc, handled, compound) ==
    handled \cup {<<CodeOf(desc)>>} \cup (IF compound THEN {CompoundKey(desc, compound)} ELSE {})

(* One pass over the descriptors; a supported one without a wrapper for its  *)
(* code is marked as handled but makes no entity.                            *)
Try(a, desc, compound, first, found) ==
    IF ~Supports(a, desc, found.handled, compound, first) THEN found
    ELSE [handled |-> RegisterHandled(desc, found.handled, compound),
          entities |-> IF CodeOf(desc) \in Appliance[a].described
                       THEN AddEntity(found.entities, Entity(desc)) ELSE found.entities]
Pass(a, descs, compound, first, before) ==
    FoldLeft(LAMBDA found, desc : Try(a, desc, compound, first, found), before, descs)

(* Both passes for a device the master map holds. *)
Found(a, descs) ==
    LET category == CategoryTable(descs, Appliance[a].category)
        compound == catalogue.compound
        before == [handled |-> handledBy[a], entities |-> entitiesOf[a]]
    IN  Pass(a, category, compound, FALSE, Pass(a, category, compound, TRUE, before))

GenericCodes(a) ==
    {code \in Appliance[a].status : <<code>> \notin handledBy[a] /\ code \in Appliance[a].suited}

WithGeneric(a) ==
    LET Free(code) == \A other \in entitiesOf[a] : other.key # code
    IN  entitiesOf[a] \cup {GenericEntity(code) : code \in {c \in GenericCodes(a) \cap Appliance[a].described : Free(c)}}

-----------------------------------------------------------------------------
(* Callbacks: the remotes of infrared hubs early, the generic entities and   *)
(* the cameras last.                                                         *)

Callback(kind, devices) == [kind |-> kind, devices |-> devices]

(* While setup runs a callback waits for its end, later it is a job. *)
AddCallbacks(devices) ==
    IF setup # "ready"
    THEN toRun' = [early |-> Append(toRun["early"], Callback("remotes", devices)),
                   last |-> toRun["last"] \o <<Callback("generic", devices), Callback("cameras", devices)>>]
    ELSE UNCHANGED toRun
GenericJob(devices) == IF setup = "ready" THEN <<Callback("generic", devices)>> ELSE <<>>

Discover(devices, descs) ==
    LET found == [a \in Appliances |-> IF a \in devices \cap inMap THEN Found(a, descs)
                                       ELSE [handled |-> handledBy[a], entities |-> entitiesOf[a]]]
    IN  /\ handledBy' = [a \in Appliances |-> found[a].handled]
        /\ entitiesOf' = [a \in Appliances |-> found[a].entities]
        /\ AddCallbacks(devices)

AddGeneric(devices) ==
    entitiesOf' = [a \in Appliances |-> IF a \in devices \cap inMap THEN WithGeneric(a) ELSE entitiesOf[a]]

-----------------------------------------------------------------------------
(* Setup. *)

FoundInit ==
    /\ setup = "register"
    /\ catalogue \in Catalogues
    /\ table = catalogue.own
    /\ inMap = AtSetup
    /\ handledBy = [a \in Appliances |-> {}]
    /\ entitiesOf = [a \in Appliances |-> {}]
    /\ toRun = [priority \in Priorities |-> <<>>]
    /\ turn = [priority |-> "early", next |-> 1]
    /\ jobs = <<>>
    /\ binder = [b \in Binders |-> NoBinding]
    /\ unbound = {}

(* The entities official Tuya shows handle their codes; on a platform that   *)
(* is overridden as a whole they are disabled first and do not count.        *)
RegisterOfficial ==
    /\ setup = "register"
    /\ setup' = "parsers"
    /\ handledBy' = [a \in Appliances |->
                        IF a \in inMap /\ ~catalogue.overridden
                        THEN {<<code>> : code \in Appliance[a].official} ELSE {}]
    /\ UNCHANGED <<catalogue, table, inMap, entitiesOf, toRun, turn, jobs, binder, unbound>>

(* The entity parsers are loaded before the platforms ask for descriptors.   *)
LoadParsers ==
    /\ setup = "parsers"
    /\ setup' = "platforms"
    /\ table' = PlatformTable(catalogue)
    /\ UNCHANGED <<catalogue, inMap, handledBy, entitiesOf, toRun, turn, jobs, binder, unbound>>

(* The platform discovers what is there, then listens for new devices. *)
SetupPlatform ==
    /\ setup = "platforms"
    /\ setup' = "signals"
    /\ Discover(inMap, table)
    /\ UNCHANGED <<catalogue, table, inMap, turn, jobs, binder, unbound>>

StartCallbacks ==
    /\ setup = "signals"
    /\ setup' = "callbacks"
    /\ UNCHANGED <<catalogue, table, inMap, handledBy, entitiesOf, toRun, turn, jobs, binder, unbound>>

(* Those of a priority in order, the ones added meanwhile included. *)
RunCallback ==
    LET queue == toRun[turn.priority]
    IN  /\ setup = "callbacks"
        /\ turn.next \in DOMAIN queue
        /\ turn' = [turn EXCEPT !.next = @ + 1]
        /\ LET callback == queue[turn.next]
           IN  \/ callback.kind = "generic" /\ AddGeneric(callback.devices) /\ setup' = setup
               \/ callback.kind # "generic" /\ setup' = "waiting" /\ UNCHANGED entitiesOf
        /\ UNCHANGED <<catalogue, table, inMap, handledBy, toRun, jobs, binder, unbound>>

(* The cloud has answered a callback that asked it something. *)
CallbackAnswered ==
    /\ setup = "waiting"
    /\ setup' = "callbacks"
    /\ UNCHANGED <<catalogue, table, inMap, handledBy, entitiesOf, toRun, turn, jobs, binder, unbound>>

PriorityOver == setup = "callbacks" /\ turn.next > Len(toRun[turn.priority])

NextPriority ==
    /\ PriorityOver
    /\ turn.priority = "early"
    /\ turn' = [priority |-> "last", next |-> 1]
    /\ UNCHANGED <<setup, catalogue, table, inMap, handledBy, entitiesOf, toRun, jobs, binder, unbound>>

LoadingFinalized ==
    /\ PriorityOver
    /\ turn.priority = "last"
    /\ setup' = "ready"
    /\ UNCHANGED <<catalogue, table, inMap, handledBy, entitiesOf, toRun, turn, jobs, binder, unbound>>

(* The event loop takes a job when setup waits or is over. *)
RunJob ==
    /\ setup \in {"signals", "waiting", "ready"}
    /\ jobs # <<>>
    /\ LET job == Head(jobs)
       IN  \/ /\ job.kind = "discover"
              /\ Discover(job.devices, table)
              /\ jobs' = Tail(jobs) \o GenericJob(job.devices)
           \/ /\ job.kind = "generic"
              /\ AddGeneric(job.devices)
              /\ jobs' = Tail(jobs)
              /\ UNCHANGED <<handledBy, toRun>>
           \/ /\ job.kind = "remove"
              /\ entitiesOf' = [a \in Appliances |-> IF a \in job.devices THEN {} ELSE entitiesOf[a]]
              /\ jobs' = Tail(jobs)
              /\ UNCHANGED <<handledBy, toRun>>
    /\ UNCHANGED <<setup, catalogue, table, inMap, turn, binder, unbound>>

-----------------------------------------------------------------------------
(* Devices bound and removed while the hub runs. *)

Listening == setup \notin {"register", "parsers", "platforms"}

(* A device the master map holds is only refreshed, whether or not it was    *)
(* removed meanwhile; two threads may find the same one new. Two windows are *)
(* left out: messages are let through some statements before the platforms   *)
(* listen, and the device joins the map just before it is merged and         *)
(* prepared; here it is bound later, and joins already prepared.             *)
Bind(b) ==
    /\ Listening
    /\ binder[b] = NoBinding
    /\ \E a \in Appliances \ inMap : binder' = [binder EXCEPT ![b] = [step |-> "fetch", device |-> a]]
    /\ UNCHANGED <<setup, catalogue, table, inMap, handledBy, entitiesOf, toRun, turn, jobs, unbound>>

Join(b) ==
    /\ binder[b].step = "fetch"
    /\ inMap' = inMap \cup {binder[b].device}
    /\ binder' = [binder EXCEPT ![b].step = "announce"]
    /\ UNCHANGED <<setup, catalogue, table, handledBy, entitiesOf, toRun, turn, jobs, unbound>>

Announce(b) ==
    /\ binder[b].step = "announce"
    /\ jobs' = Append(jobs, Callback("discover", {binder[b].device}))
    /\ binder' = [binder EXCEPT ![b] = NoBinding]
    /\ UNCHANGED <<setup, catalogue, table, inMap, handledBy, entitiesOf, toRun, turn, unbound>>

(* The device leaves its account's map and the device registry, not the      *)
(* master map.                                                               *)
Unbind(a) ==
    /\ Listening
    /\ a \in inMap \ unbound
    /\ unbound' = unbound \cup {a}
    /\ jobs' = Append(jobs, Callback("remove", {a}))
    /\ UNCHANGED <<setup, catalogue, table, inMap, handledBy, entitiesOf, toRun, turn, binder>>

FoundNext ==
    \/ RegisterOfficial \/ LoadParsers \/ SetupPlatform \/ StartCallbacks
    \/ RunCallback \/ CallbackAnswered \/ NextPriority \/ LoadingFinalized \/ RunJob
    \/ \E b \in Binders : Bind(b) \/ Join(b) \/ Announce(b)
    \/ \E a \in Appliances : Unbind(a)

FoundSpec == FoundInit /\ [][FoundNext]_foundVars

-----------------------------------------------------------------------------
(* Properties. *)

FoundTypeOK ==
    /\ setup \in Stages
    /\ inMap \subseteq Appliances /\ unbound \subseteq inMap
    /\ \A a \in Appliances : \A e \in entitiesOf[a] : e.generic \in BOOLEAN
    /\ turn.priority \in Priorities /\ turn.next \in 1..Len(toRun[turn.priority]) + 1
    /\ \A job \in ToSet(jobs) : job.kind \in {"discover", "generic", "remove"}

(* Setup is over and nothing is on its way. *)
Settled == setup = "ready" /\ jobs = <<>> /\ \A b \in Binders : binder[b] = NoBinding

(* Some source has a descriptor for the code of such a device. *)
HasDescriptor(a, code) ==
    \E desc \in SourceDescriptors(catalogue, Appliance[a].category) : CodeOf(desc) = code

(* Once setup is over and nothing is on its way, every code of a device that *)
(* entities can be made for is shown: by the entities of its descriptors,    *)
(* whichever source they come from, or else by one generic entity, never by  *)
(* both and never by none.  It holds for the devices bound while setup       *)
(* waited for its last callbacks, and by two threads at once; not for those  *)
(* removed in Tuya, which a new binding does not discover again.             *)
CodesShown ==
    Settled =>
        \A a \in inMap \ unbound :
            \A code \in Appliance[a].status \cap Appliance[a].described :
                LET ours == {e \in entitiesOf[a] : e.code = code}
                    generic == {e \in ours : e.generic}
                    official == a \in AtSetup /\ ~catalogue.overridden /\ code \in Appliance[a].official
                IN  /\ generic # {} => ours = generic /\ ~official
                    /\ HasDescriptor(a, code) => generic = {} /\ (ours # {} \/ official)
                    /\ code \in Appliance[a].suited => ours # {} \/ official

=============================================================================
