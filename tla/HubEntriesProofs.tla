-------------------------- MODULE HubEntriesProofs --------------------------
(***************************************************************************)
(* Proofs about HubEntries, for every number of hubs, devices and threads: *)
(* type correctness, that a device is served by one hub, that it stays     *)
(* with the hub that has its registry rows, and that the clean-up of one   *)
(* hub leaves alone the devices of the hubs that are loading.              *)
(***************************************************************************)
EXTENDS HubEntries, TLAPS

-----------------------------------------------------------------------------
(* Types                                                                   *)

LEMMA NoneIsNoHub == None \notin Hubs /\ None \notin Devices
  BY NoneAssumption, BoundsAssumption DEF Hubs

LEMMA InitType == Init => TypeOK
  <1> SUFFICES ASSUME Init PROVE TypeOK
    OBVIOUS
  <1>1. RegistryTypes
    BY DEF Init, RegistryTypes, HubOrNone
  <1>2. HubTypes
    BY DEF Init, HubTypes, State, Load
  <1>3. ClaimTypes
    BY DEF Init, ClaimTypes, HubOrNone
  <1>4. ProcessTypes
    BY BoundsAssumption DEF Init, ProcessTypes, HubOrNone, Idle, Work
  <1> QED
    BY <1>1, <1>2, <1>3, <1>4 DEF TypeOK

LEMMA CacheType ==
    ASSUME ClaimTypes, RegistryTypes, NEW d \in Devices
    PROVE  CacheAfter(d) \in [Devices -> HubOrNone] \cup {None}
  BY DEF ClaimTypes, RegistryTypes, CacheAfter

LEMMA SpendType ==
    ASSUME ProcessTypes, NEW what \in {"ops", "trouble"}, Spend(what)
    PROVE  budget' \in [ops: Nat, trouble: Nat]
  BY DEF ProcessTypes, Spend

LEMMA RowsType ==
    ASSUME RegistryTypes
    PROVE  /\ RowsSwept(rows) \in [Devices -> HubOrNone]
           /\ Swept(reg) \in [Hubs -> SUBSET Devices]
           /\ \A h \in Hubs : RowsOf(h) \in [Devices -> HubOrNone]
  BY DEF RegistryTypes, RowsSwept, Swept, RowsOf, HubOrNone

LEMMA RegistersType ==
    ASSUME TypeOK, NEW h \in Hubs, Registers(h)
    PROVE  /\ RegistryTypes' /\ HubTypes' /\ ClaimTypes' /\ work' = work
  <1> USE DEF Registers, TypeOK
  <1>1. RegistryTypes'
    BY RowsType DEF RegistryTypes, HubTypes
  <1>2. HubTypes'
    BY DEF HubTypes, Load
  <1>3. ClaimTypes'
    BY DEF ClaimTypes, claims
  <1> QED
    BY <1>1, <1>2, <1>3

LEMMA UnloadType ==
    ASSUME TypeOK, NEW h \in Hubs, NEW next \in {"setup", "stay", "remove"}, Unload(h, next)
    PROVE  /\ RegistryTypes' /\ ClaimTypes'
           /\ state' \in [Hubs -> State] /\ goal' \in [Hubs -> {"setup", "stay", "remove"}]
           /\ load' \in [Hubs -> Load] /\ map' = map /\ done' \subseteq Hubs
           /\ cleaners' = cleaners /\ busy' = busy /\ todo' = todo /\ passing' = passing
           /\ work' = work
  BY DEF Unload, TypeOK, RegistryTypes, ClaimTypes, HubTypes, State, Load, registries,
         claims, loop

LEMMA ClaimType ==
    ASSUME TypeOK, NEW h \in Hubs, NEW d \in Devices, Claim(h, d)
    PROVE  ClaimTypes'
  BY DEF Claim, TypeOK, ClaimTypes, HubOrNone

LEMMA StaleType ==
    ASSUME NEW r \in Work
    PROVE  LET s == [r EXCEPT !.stale = TRUE]
           IN  s \in Work /\ s.pc = r.pc /\ s.hub = r.hub /\ s.dev = r.dev
  BY DEF Work

LEMMA AdvancedType ==
    ASSUME NEW r \in Work, NEW pc \in {"fetch", "write", "discover"}
    PROVE  LET s == [r EXCEPT !.pc = pc]
           IN  s \in Work /\ s.hub = r.hub /\ s.dev = r.dev
  BY DEF Work

LEMMA BeginsType ==
    ASSUME TypeOK, NEW w \in Workers, NEW h \in Hubs, NEW d \in Devices,
           NEW found \in BOOLEAN, Begins(w, h, d, found), home' \in [Hubs -> SUBSET Devices]
    PROVE  TypeOK'
  <1> USE DEF Begins, TypeOK, registries, hubs, claims, loop
  <1>1. RegistryTypes'
    BY DEF RegistryTypes
  <1>2. HubTypes'
    BY DEF HubTypes
  <1>3. ClaimTypes'
    BY DEF ClaimTypes
  <1>4. ProcessTypes'
    BY SpendType DEF ProcessTypes, Work
  <1> QED
    BY <1>1, <1>2, <1>3, <1>4

LEMMA LoopStepType ==
    ASSUME TypeOK, Claiming
    PROVE  TypeOK'
  <1>1. ASSUME NEW d \in Devices, LoopChecks(d) PROVE TypeOK'
    BY <1>1, CacheType DEF LoopChecks, TypeOK, RegistryTypes, HubTypes, ClaimTypes,
       ProcessTypes, registries, hubs
  <1>2. CASE LoopClaims
    <2>1. busy \in Hubs /\ passing \in Devices /\ passing \in todo
      BY <1>2, NoneIsNoHub DEF LoopClaims, TypeOK, ProcessTypes, HubOrNone
    <2>2. ClaimTypes'
      BY <1>2, <2>1, ClaimType DEF LoopClaims
    <2>3. RegistryTypes' /\ HubTypes' /\ ProcessTypes'
      BY <1>2, <2>1 DEF LoopClaims, TypeOK, RegistryTypes, HubTypes, ProcessTypes, registries
    <2> QED
      BY <2>2, <2>3 DEF TypeOK
  <1>3. CASE MergeEnds
    BY <1>3, RegistersType DEF MergeEnds, TypeOK, ProcessTypes, HubOrNone
  <1> QED
    BY <1>1, <1>2, <1>3 DEF Claiming

LEMMA ProgressType ==
    ASSUME TypeOK, NEW h \in Hubs, Progress(h)
    PROVE  TypeOK'
  <1> USE DEF TypeOK, RegistryTypes, HubTypes, ClaimTypes, ProcessTypes, State, Load,
              registries, hubs, claims, loop
  <1>1. CASE SetupBegins(h)
    BY <1>1 DEF SetupBegins
  <1>2. CASE SetupEnds(h)
    BY <1>2, SpendType DEF SetupEnds
  <1>3. CASE FetchEnds(h)
    BY <1>3 DEF FetchEnds, HubOrNone, LoopFree
  <1>4. CASE LoadEnds(h)
    BY <1>4, RowsType DEF LoadEnds
  <1>5. CASE RetryFires(h)
    BY <1>5, UnloadType DEF RetryFires
  <1>6. ASSUME NEW complete \in BOOLEAN, Teardown(h, complete) PROVE TypeOK'
    BY <1>6, SpendType DEF Teardown, Released, HubOrNone
  <1>7. CASE UnloadEnds(h)
    <2>1. ASSUME NEW w \in Workers
          PROVE  /\ work'[w] \in Work
                 /\ work'[w].pc = work[w].pc
                 /\ work'[w].hub = work[w].hub /\ work'[w].dev = work[w].dev
      BY <1>7, StaleType DEF UnloadEnds
    <2>2. work' \in [Workers -> Work]
      BY <1>7, <2>1 DEF UnloadEnds
    <2>3. ProcessTypes'
      BY <1>7, <2>1, <2>2 DEF UnloadEnds
    <2> QED
      BY <1>7, <2>3 DEF UnloadEnds
  <1>8. CASE Removed(h)
    BY <1>8 DEF Removed, HubOrNone
  <1> QED
    BY <1>1, <1>2, <1>3, <1>4, <1>5, <1>6, <1>7, <1>8 DEF Progress

LEMMA FailType ==
    ASSUME TypeOK, NEW h \in Hubs, Fails(h)
    PROVE  TypeOK'
  <1>1. CASE FetchSwallowed(h)
    BY <1>1, RegistersType, SpendType DEF FetchSwallowed, TypeOK, ProcessTypes, loop
  <1>2. CASE UnloadRefused(h)
    BY <1>2, SpendType DEF UnloadRefused, TypeOK, RegistryTypes, HubTypes, ClaimTypes,
       ProcessTypes, State, registries, claims, loop
  <1>3. ASSUME NEW failure \in {"failed", "auth"}, LoadFails(h, failure) PROVE TypeOK'
    BY <1>3, SpendType, RowsType DEF LoadFails, TypeOK, RegistryTypes, HubTypes, ClaimTypes,
       ProcessTypes, Load, claims, loop
  <1> QED
    BY <1>1, <1>2, <1>3 DEF Fails

LEMMA UserType ==
    ASSUME TypeOK, NEW h \in Hubs, User(h)
    PROVE  TypeOK'
  <1> USE DEF TypeOK, HubTypes, ProcessTypes
  <1>1. CASE Reload(h)
    BY <1>1, UnloadType, SpendType DEF Reload
  <1>2. CASE Disable(h)
    BY <1>2, UnloadType, SpendType DEF Disable
  <1>3. CASE Enable(h)
    BY <1>3, SpendType DEF Enable, RegistryTypes, ClaimTypes, registries, claims, loop
  <1>4. CASE Remove(h)
    BY <1>4, UnloadType, SpendType DEF Remove
  <1> QED
    BY <1>1, <1>2, <1>3, <1>4 DEF User

LEMMA CleanerType ==
    ASSUME TypeOK, NEW m \in Hubs, Cleans(m) \/ GivesUp(m)
    PROVE  TypeOK'
  <1>1. RegistryTypes' /\ ClaimTypes' /\ ProcessTypes'
    BY RowsType DEF Cleans, GivesUp, TypeOK, RegistryTypes, ClaimTypes, ProcessTypes,
       registries, claims, loop
  <1>2. cleaners' \in [Hubs -> Nat]
    BY DEF Cleans, GivesUp, TypeOK, HubTypes
  <1>3. HubTypes'
    BY <1>2 DEF Cleans, GivesUp, TypeOK, HubTypes
  <1> QED
    BY <1>1, <1>3 DEF TypeOK

LEMMA ThreadType ==
    ASSUME TypeOK, Threads
    PROVE  TypeOK'
  <1> PICK w \in Workers :
        \/ \E h \in Hubs : \E d \in Devices : BindUser(w, h, d) \/ FindNew(w, h, d)
        \/ Checks(w) \/ FetchesNothing(w) \/ Writes(w) \/ Discovers(w)
    BY DEF Threads
  <1>1. ASSUME NEW h \in Hubs, NEW d \in Devices, BindUser(w, h, d) PROVE TypeOK'
    BY <1>1, BeginsType DEF BindUser, TypeOK, RegistryTypes
  <1>2. ASSUME NEW h \in Hubs, NEW d \in Devices, FindNew(w, h, d) PROVE TypeOK'
    BY <1>2, BeginsType DEF FindNew, TypeOK, RegistryTypes
  <1>3. work[w].pc # "idle" => work[w].hub \in Hubs /\ work[w].dev \in Devices
    BY DEF TypeOK, ProcessTypes
  <1>4. Idle \in Work
    BY DEF Idle, Work
  <1>5. CASE Checks(w)
    <2>1. cache' \in [Devices -> HubOrNone] \cup {None}
      BY <1>3, <1>5, CacheType DEF Checks, TypeOK, ClaimTypes
    <2>2. ProcessTypes'
      <3>1. work[w] \in Work /\ work \in [Workers -> Work]
        BY DEF TypeOK, ProcessTypes
      <3>2. \/ work' = [work EXCEPT ![w] = Idle]
            \/ work' = [work EXCEPT ![w] = [work[w] EXCEPT !.pc = "write"]]
        BY <1>5 DEF Checks
      <3>3. CASE work' = [work EXCEPT ![w] = Idle]
        BY <1>4, <1>5, <3>1, <3>3 DEF Checks, TypeOK, ProcessTypes, Idle, loop
      <3>4. CASE work' = [work EXCEPT ![w] = [work[w] EXCEPT !.pc = "write"]]
        <4> DEFINE s == [work[w] EXCEPT !.pc = "write"]
        <4>1. s \in Work /\ s.hub \in Hubs /\ s.dev \in Devices
          BY <1>3, <1>5, <3>1, AdvancedType DEF Checks
        <4> HIDE DEF s
        <4>2. work' = [work EXCEPT ![w] = s]
          BY <3>4 DEF s
        <4> QED
          BY <1>5, <3>1, <4>1, <4>2 DEF Checks, TypeOK, ProcessTypes, loop
      <3> QED
        BY <3>2, <3>3, <3>4
    <2> QED
      BY <1>5, <2>1, <2>2 DEF Checks, TypeOK, RegistryTypes, HubTypes, ClaimTypes,
         registries, hubs
  <1>6. CASE FetchesNothing(w)
    BY <1>4, <1>6 DEF FetchesNothing, TypeOK, RegistryTypes, HubTypes, ClaimTypes,
       ProcessTypes, registries, hubs, claims, loop, Idle
  <1>7. CASE Writes(w)
    <2>1. ClaimTypes'
      BY <1>3, <1>7, ClaimType DEF Writes
    <2>2. HubTypes'
      BY <1>3, <1>7 DEF Writes, TypeOK, HubTypes
    <2>3. RegistryTypes' /\ ProcessTypes'
      BY <1>3, <1>7 DEF Writes, TypeOK, RegistryTypes, ProcessTypes, Work, registries, loop
    <2> QED
      BY <2>1, <2>2, <2>3 DEF TypeOK
  <1>8. CASE Discovers(w)
    <2>1. RegistryTypes'
      BY <1>3, <1>8 DEF Discovers, TypeOK, RegistryTypes, HubOrNone, registries
    <2>2. HubTypes' /\ ClaimTypes' /\ ProcessTypes'
      BY <1>4, <1>8 DEF Discovers, TypeOK, HubTypes, ClaimTypes, ProcessTypes, hubs, claims,
         loop, Idle
    <2> QED
      BY <2>1, <2>2 DEF TypeOK
  <1> QED
    BY <1>1, <1>2, <1>5, <1>6, <1>7, <1>8

LEMMA StepType == TypeOK /\ [Next]_vars => TypeOK'
  <1> SUFFICES ASSUME TypeOK, [Next]_vars PROVE TypeOK'
    OBVIOUS
  <1>1. CASE Restart
    <2>1. FreshProcess
      BY <1>1 DEF Restart
    <2>2. Idle \in Work
      BY DEF Idle, Work
    <2> QED
      BY <1>1, <2>1, <2>2, SpendType DEF Restart, FreshProcess, TypeOK, RegistryTypes, HubTypes,
         ClaimTypes, ProcessTypes, State, Load, HubOrNone, registries, Idle
  <1>2. CASE UNCHANGED vars
    BY <1>2 DEF vars, registries, hubs, claims, loop, TypeOK, RegistryTypes, HubTypes,
       ClaimTypes, ProcessTypes
  <1> QED
    BY <1>1, <1>2, LoopStepType, ProgressType, FailType, UserType, CleanerType, ThreadType
       DEF Next

(* Every variable keeps its type.                                          *)
THEOREM TypeCorrect == Spec => []TypeOK
  <1>1. Init => TypeOK
    BY InitType
  <1>2. TypeOK /\ [Next]_vars => TypeOK'
    BY StepType
  <1> QED
    BY <1>1, <1>2, PTL DEF Spec

-----------------------------------------------------------------------------
(* The inductive invariants                                                *)

(* An entry that is set up or loaded is listed; a hub that fetches its     *)
(* devices is loaded for HA and not done.                                  *)
Lifecycle ==
    \A h \in Hubs : /\ state[h] \in {"setup", "loaded"} => entry[h] = "listed"
                    /\ load[h] = "fetch" => state[h] = "loaded" /\ h \notin done

(* What a hub serves it owns, unless claims of the device overlapped.      *)
Owned ==
    \A h \in Hubs : \A d \in Devices \ raced : Serves(h, d) => owner[d] = h

(* The registry lets h claim d, and goes on letting it: entries that are   *)
(* removed do not come back.                                               *)
Justified(h, d) == cache[d] \in {None, h} \/ ~Exists(cache[d])

(* The same of the state a step leads to.                                  *)
NowJustified(h, d) == cache'[d] \in {None, h} \/ entry'[cache'[d]] = "removed"

Justifications ==
    /\ cache = None => /\ \A d \in Devices : owner[d] = None
                       /\ passing = None
                       /\ \A w \in Workers : work[w].pc # "write"
    /\ cache # None =>
          /\ passing # None => Justified(busy, passing)
          /\ \A w \in Workers : work[w].pc = "write" => Justified(work[w].hub, work[w].dev)


LEMMA UnloadLifecycle ==
    ASSUME TypeOK, Lifecycle, NEW h \in Hubs, NEW next, Unload(h, next),
           \A g \in Hubs \ {h} : entry'[g] = entry[g],
           entry'[h] = entry[h] \/ entry'[h] = "disabled"
    PROVE  Lifecycle'
  BY DEF Unload, Lifecycle, TypeOK, HubTypes

LEMMA LifecycleStep == TypeOK /\ Lifecycle /\ [Next]_vars => Lifecycle'
  <1> SUFFICES ASSUME TypeOK, Lifecycle, [Next]_vars PROVE Lifecycle'
    OBVIOUS
  <1> USE DEF Lifecycle, TypeOK, HubTypes
  <1>1. ASSUME NEW h \in Hubs, Progress(h) PROVE Lifecycle'
    <2>1. CASE SetupBegins(h)
      BY <2>1 DEF SetupBegins
    <2>2. CASE SetupEnds(h)
      BY <2>2 DEF SetupEnds
    <2>3. CASE FetchEnds(h)
      BY <2>3 DEF FetchEnds
    <2>4. CASE LoadEnds(h)
      BY <2>4 DEF LoadEnds
    <2>5. CASE RetryFires(h)
      BY <2>5, UnloadLifecycle DEF RetryFires
    <2>6. ASSUME NEW complete \in BOOLEAN, Teardown(h, complete) PROVE Lifecycle'
      BY <2>6 DEF Teardown
    <2>7. CASE UnloadEnds(h)
      BY <2>7 DEF UnloadEnds
    <2>8. CASE Removed(h)
      BY <2>8 DEF Removed
    <2> QED
      BY <1>1, <2>1, <2>2, <2>3, <2>4, <2>5, <2>6, <2>7, <2>8 DEF Progress
  <1>2. ASSUME NEW h \in Hubs, Fails(h) PROVE Lifecycle'
    BY <1>2 DEF Fails, FetchSwallowed, Registers, UnloadRefused, LoadFails
  <1>3. ASSUME NEW h \in Hubs, User(h) PROVE Lifecycle'
    <2>1. CASE Reload(h) \/ Remove(h) \/ Disable(h)
      BY <2>1, UnloadLifecycle DEF Reload, Remove, Disable
    <2>2. CASE Enable(h)
      BY <2>2 DEF Enable
    <2> QED
      BY <1>3, <2>1, <2>2 DEF User
  <1>4. ASSUME NEW h \in Hubs, Cleans(h) \/ GivesUp(h) PROVE Lifecycle'
    BY <1>4 DEF Cleans, GivesUp
  <1>5. CASE Claiming
    BY <1>5 DEF Claiming, LoopChecks, LoopClaims, MergeEnds, Registers, hubs, ProcessTypes,
       HubOrNone
  <1>6. CASE Threads
    BY <1>6 DEF Threads, BindUser, FindNew, Begins, Checks, FetchesNothing, Writes, Discovers,
       hubs
  <1>7. CASE Restart
    BY <1>7 DEF Restart, FreshProcess
  <1>8. CASE UNCHANGED vars
    BY <1>8 DEF vars, hubs
  <1> QED
    BY <1>1, <1>2, <1>3, <1>4, <1>5, <1>6, <1>7, <1>8 DEF Next

-----------------------------------------------------------------------------
(* One hub serves a device                                                 *)

(* A step that claims nothing, releases nothing and lets no hub serve a    *)
(* device it did not serve before.                                         *)
LEMMA OwnedKept ==
    ASSUME Owned, owner' = owner, raced' = raced,
           \A h \in Hubs : \A d \in Devices : Serves(h, d)' => Serves(h, d)
    PROVE  Owned'
  BY DEF Owned

(* A claim overrides the owner of a served device only where it records    *)
(* the race.                                                               *)
LEMMA ClaimOwned ==
    ASSUME TypeOK, Lifecycle, Owned, NEW h \in Hubs, NEW d \in Devices, Claim(h, d),
           NEW g \in Hubs, NEW e \in Devices \ raced', Serves(g, e) \/ (g = h /\ e = d)
    PROVE  owner'[e] = g
  <1>1. owner \in [Devices -> HubOrNone] /\ raced \subseteq raced'
    BY DEF TypeOK, ClaimTypes, Claim
  <1>2. CASE e = d /\ g # h
    <2>1. owner[d] = g /\ Exists(g)
      BY <1>1, <1>2 DEF Owned, Lifecycle, Serves, Exists
    <2>2. g \notin {None, h}
      BY <1>2, NoneIsNoHub
    <2> QED
      BY <1>2, <2>1, <2>2 DEF Claim
  <1>3. CASE e = d /\ g = h
    BY <1>1, <1>3 DEF Claim
  <1>4. CASE e # d
    BY <1>1, <1>4 DEF Claim, Owned
  <1> QED
    BY <1>2, <1>3, <1>4

LEMMA OwnedStep == TypeOK /\ TypeOK' /\ Lifecycle /\ Owned /\ [Next]_vars => Owned'
  <1> SUFFICES ASSUME TypeOK, TypeOK', Lifecycle, Owned, [Next]_vars PROVE Owned'
    OBVIOUS
  <1> USE DEF Serves, claims, hubs, TypeOK, HubTypes
  <1>1. ASSUME NEW h \in Hubs, Progress(h) PROVE Owned'
    <2>1. CASE SetupBegins(h)
      BY <2>1, OwnedKept DEF SetupBegins
    <2>2. CASE SetupEnds(h)
      BY <2>2, OwnedKept DEF SetupEnds
    <2>3. CASE FetchEnds(h)
      BY <2>3, OwnedKept DEF FetchEnds
    <2>4. CASE LoadEnds(h)
      BY <2>4, OwnedKept DEF LoadEnds
    <2>5. CASE RetryFires(h)
      BY <2>5, OwnedKept DEF RetryFires, Unload
    <2>6. ASSUME NEW complete \in BOOLEAN, Teardown(h, complete) PROVE Owned'
      BY <2>6 DEF Owned, Teardown, Released, ClaimTypes
    <2>7. CASE UnloadEnds(h)
      BY <2>7, OwnedKept DEF UnloadEnds
    <2>8. CASE Removed(h)
      BY <2>8, OwnedKept DEF Removed
    <2> QED
      BY <1>1, <2>1, <2>2, <2>3, <2>4, <2>5, <2>6, <2>7, <2>8 DEF Progress
  <1>2. ASSUME NEW h \in Hubs, Fails(h) PROVE Owned'
    BY <1>2, OwnedKept DEF Fails, FetchSwallowed, Registers, UnloadRefused, LoadFails
  <1>3. ASSUME NEW h \in Hubs, User(h) PROVE Owned'
    BY <1>3, OwnedKept DEF User, Reload, Disable, Enable, Remove, Unload
  <1>4. ASSUME NEW h \in Hubs, Cleans(h) \/ GivesUp(h) PROVE Owned'
    BY <1>4, OwnedKept DEF Cleans, GivesUp
  <1>5. CASE Claiming
    <2>1. ASSUME NEW d \in Devices, LoopChecks(d) PROVE Owned'
      BY <2>1, OwnedKept DEF LoopChecks
    <2>2. CASE LoopClaims
      <3>1. busy \in Hubs /\ passing \in Devices
        BY <2>2 DEF LoopClaims, ProcessTypes, HubOrNone
      <3>2. \A g \in Hubs : \A e \in Devices :
               Serves(g, e)' => Serves(g, e) \/ (g = busy /\ e = passing)
        BY <2>2, <3>1 DEF LoopClaims
      <3>3. Claim(busy, passing)
        BY <2>2 DEF LoopClaims
      <3> QED
        BY <3>1, <3>2, <3>3, ClaimOwned DEF Owned
    <2>3. CASE MergeEnds
      BY <2>3, OwnedKept DEF MergeEnds, Registers
    <2> QED
      BY <1>5, <2>1, <2>2, <2>3 DEF Claiming
  <1>6. CASE Threads
    <2> PICK w \in Workers :
          \/ \E h \in Hubs : \E d \in Devices : BindUser(w, h, d) \/ FindNew(w, h, d)
          \/ Checks(w) \/ FetchesNothing(w) \/ Writes(w) \/ Discovers(w)
      BY <1>6 DEF Threads
    <2>1. CASE Writes(w)
      <3> DEFINE h == work[w].hub  d == work[w].dev
      <3>1. h \in Hubs /\ d \in Devices
        BY <2>1 DEF Writes, ProcessTypes
      <3>2. \A g \in Hubs : \A e \in Devices :
               Serves(g, e)' => Serves(g, e) \/ (g = h /\ e = d)
        BY <2>1, <3>1 DEF Writes
      <3>3. Claim(h, d)
        BY <2>1 DEF Writes
      <3> HIDE DEF h, d
      <3> QED
        BY <3>1, <3>2, <3>3, ClaimOwned DEF Owned
    <2>2. CASE ~Writes(w)
      BY <2>2, OwnedKept DEF BindUser, FindNew, Begins, Checks, FetchesNothing, Discovers
    <2> QED
      BY <2>1, <2>2
  <1>7. CASE Restart
    BY <1>7 DEF Restart, FreshProcess, Owned
  <1>8. CASE UNCHANGED vars
    BY <1>8, OwnedKept DEF vars
  <1> QED
    BY <1>1, <1>2, <1>3, <1>4, <1>5, <1>6, <1>7, <1>8 DEF Next

(* Two loaded hubs serve one device only after a race of their claims.     *)
THEOREM OneServer == Spec => []SoleServer
  <1> DEFINE IInv == TypeOK /\ Lifecycle /\ Owned
  <1>1. Init => IInv
    BY InitType DEF Init, Lifecycle, Owned, Serves
  <1>2. IInv /\ [Next]_vars => IInv'
    BY StepType, LifecycleStep, OwnedStep
  <1>3. IInv => SoleServer
    BY DEF Owned, SoleServer
  <1> QED
    BY <1>1, <1>2, <1>3, PTL DEF Spec


-----------------------------------------------------------------------------
(* A device stays with the hub of its registry rows                        *)

KeepsInv == Justifications /\ KeepsHub

(* A step that claims nothing and revives no removed entry.                *)
LEMMA KeepsKept ==
    ASSUME TypeOK, KeepsInv, cache' = cache,
           \/ owner' = owner
           \/ \A d \in Devices : owner'[d] \in {None, owner[d]},
           \A h \in Hubs : Exists(h)' => Exists(h),
           passing' = None \/ (passing' = passing /\ busy' = busy),
           \A w \in Workers : work'[w].pc = "write" =>
               /\ work[w].pc = "write"
               /\ work'[w].hub = work[w].hub /\ work'[w].dev = work[w].dev
    PROVE  KeepsInv'
  <1>1. ASSUME NEW h \in Hubs, NEW d \in Devices, cache # None, Justified(h, d)
        PROVE  NowJustified(h, d)
    BY <1>1 DEF Justified, NowJustified, Exists, TypeOK, ClaimTypes, HubOrNone
  <1>2. Justifications'
    BY <1>1 DEF KeepsInv, Justifications, Justified, NowJustified, Exists, TypeOK,
       ProcessTypes, ClaimTypes, HubOrNone
  <1>3. KeepsHub'
    BY DEF KeepsInv, KeepsHub, TypeOK, ClaimTypes, HubOrNone
  <1> QED
    BY <1>2, <1>3 DEF KeepsInv

(* The checks of claim_device justify the claim.                           *)
LEMMA CheckJustifies ==
    ASSUME TypeOK, KeepsInv, NEW h \in Hubs, NEW d \in Devices, ~Refused(h, d),
           cache' = CacheAfter(d), UNCHANGED <<rows, owner, entry>>
    PROVE  NowJustified(h, d)
  <1> USE DEF Justified, NowJustified, Exists
  <1>1. CASE owner[d] = None
    BY <1>1 DEF Refused, CacheAfter
  <1>2. CASE owner[d] # None
    <2>1. cache # None /\ cache' = cache
      BY <1>2 DEF KeepsInv, Justifications, CacheAfter
    <2>2. cache[d] # None /\ Exists(cache[d]) => owner[d] = cache[d]
      BY <1>2, <2>1 DEF KeepsInv, KeepsHub
    <2> QED
      BY <1>2, <2>1, <2>2 DEF Refused
  <1> QED
    BY <1>1, <1>2

(* The cache, once built, is that of every later check.                    *)
LEMMA CheckKeeps ==
    ASSUME TypeOK, TypeOK', KeepsInv, NEW d \in Devices, cache' = CacheAfter(d),
           UNCHANGED <<owner, entry>>
    PROVE  /\ KeepsHub'
           /\ cache' # None
           /\ \A g \in Hubs : \A e \in Devices :
                 (cache # None /\ Justified(g, e)) => NowJustified(g, e)
  <1>1. CASE cache = None
    <2>1. owner[d] = None /\ cache' = rows
      BY <1>1 DEF CacheAfter, KeepsInv, Justifications
    <2>2. rows # None
      BY NoneAssumption DEF TypeOK, RegistryTypes, HubOrNone
    <2> QED
      BY <1>1, <2>1, <2>2 DEF KeepsInv, Justifications, KeepsHub
  <1>2. CASE cache # None
    BY <1>2 DEF CacheAfter, KeepsInv, KeepsHub, Justified, NowJustified, Exists
  <1> QED
    BY <1>1, <1>2

(* A justified claim leaves the device with the hub of its rows.           *)
LEMMA ClaimKeeps ==
    ASSUME TypeOK, KeepsInv, NEW h \in Hubs, NEW d \in Devices, Claim(h, d),
           cache # None, Justified(h, d), UNCHANGED entry
    PROVE  KeepsHub' /\ \A g \in Hubs : \A e \in Devices : Justified(g, e) => NowJustified(g, e)
  BY DEF Claim, KeepsInv, KeepsHub, Justified, NowJustified, Exists, TypeOK, ClaimTypes

LEMMA KeepsStep == TypeOK /\ TypeOK' /\ KeepsInv /\ [Next]_vars => KeepsInv'
  <1> SUFFICES ASSUME TypeOK, TypeOK', KeepsInv, [Next]_vars PROVE KeepsInv'
    OBVIOUS
  <1>1. ASSUME NEW h \in Hubs, Progress(h) PROVE KeepsInv'
    <2> USE DEF Exists, claims, loop, TypeOK, HubTypes
    <2>1. CASE SetupBegins(h)
      BY <2>1, KeepsKept DEF SetupBegins
    <2>2. CASE SetupEnds(h)
      BY <2>2, KeepsKept DEF SetupEnds
    <2>3. CASE FetchEnds(h)
      <3>1. passing = None
        BY <2>3 DEF FetchEnds, LoopFree, ProcessTypes
      <3> QED
        BY <2>3, <3>1, KeepsKept DEF FetchEnds
    <2>4. CASE LoadEnds(h)
      BY <2>4, KeepsKept DEF LoadEnds
    <2>5. CASE RetryFires(h)
      BY <2>5, KeepsKept DEF RetryFires, Unload
    <2>6. ASSUME NEW complete \in BOOLEAN, Teardown(h, complete) PROVE KeepsInv'
      BY <2>6, KeepsKept DEF Teardown, Released, ClaimTypes
    <2>7. CASE UnloadEnds(h)
      <3>1. \A w \in Workers : /\ work'[w].pc = work[w].pc
                              /\ work'[w].hub = work[w].hub /\ work'[w].dev = work[w].dev
        BY <2>7, StaleType DEF UnloadEnds, ProcessTypes
      <3> QED
        BY <2>7, <3>1, KeepsKept DEF UnloadEnds
    <2>8. CASE Removed(h)
      BY <2>8, KeepsKept DEF Removed
    <2> QED
      BY <1>1, <2>1, <2>2, <2>3, <2>4, <2>5, <2>6, <2>7, <2>8 DEF Progress
  <1>2. ASSUME NEW h \in Hubs, Fails(h) PROVE KeepsInv'
    BY <1>2, KeepsKept DEF Fails, FetchSwallowed, Registers, UnloadRefused, LoadFails, Exists,
       claims, loop
  <1>3. ASSUME NEW h \in Hubs, User(h) PROVE KeepsInv'
    BY <1>3, KeepsKept DEF User, Reload, Disable, Enable, Remove, Unload, Exists, claims, loop,
       TypeOK, HubTypes
  <1>4. ASSUME NEW h \in Hubs, Cleans(h) \/ GivesUp(h) PROVE KeepsInv'
    BY <1>4, KeepsKept DEF Cleans, GivesUp, Exists, claims, loop
  <1>5. CASE Claiming
    <2>1. ASSUME NEW d \in Devices, LoopChecks(d) PROVE KeepsInv'
      <3>1. cache' = CacheAfter(d) /\ UNCHANGED <<rows, owner, entry, work, busy>>
        BY <2>1 DEF LoopChecks, registries, hubs
      <3>2. busy \in Hubs /\ passing = None
        BY <2>1 DEF LoopChecks, TypeOK, ProcessTypes, HubOrNone
      <3>3. passing' # None => passing' = d /\ ~Refused(busy, d)
        BY <2>1, <3>2 DEF LoopChecks
      <3>4. passing' # None => NowJustified(busy, d)
        BY <3>1, <3>2, <3>3, CheckJustifies
      <3>5. \A w \in Workers : work[w].pc = "write" =>
               NowJustified(work[w].hub, work[w].dev)
        BY <3>1, CheckKeeps DEF KeepsInv, Justifications, TypeOK, ProcessTypes
      <3>6. Justifications'
        BY <3>1, <3>3, <3>4, <3>5, CheckKeeps DEF Justifications, Justified, NowJustified, Exists
      <3> QED
        BY <3>1, <3>6, CheckKeeps DEF KeepsInv
    <2>2. CASE LoopClaims
      <3>1. busy \in Hubs /\ passing \in Devices /\ cache # None /\ Justified(busy, passing)
        BY <2>2 DEF LoopClaims, TypeOK, ProcessTypes, HubOrNone, KeepsInv, Justifications
      <3>2. Claim(busy, passing) /\ cache' = cache /\ passing' = None /\ UNCHANGED <<entry, work>>
        BY <2>2 DEF LoopClaims, Claim
      <3>3. \A w \in Workers : work[w].pc = "write" =>
               NowJustified(work[w].hub, work[w].dev)
        BY <3>1, <3>2, ClaimKeeps DEF KeepsInv, Justifications, TypeOK, ProcessTypes
      <3>4. Justifications'
        BY <3>1, <3>2, <3>3 DEF Justifications, Justified, NowJustified, Exists
      <3> QED
        BY <3>1, <3>2, <3>4, ClaimKeeps DEF KeepsInv
    <2>3. CASE MergeEnds
      <3>1. passing = None
        BY <2>3 DEF MergeEnds, TypeOK, ProcessTypes
      <3> QED
        BY <2>3, <3>1, KeepsKept DEF MergeEnds, Registers, Exists, claims
    <2> QED
      BY <1>5, <2>1, <2>2, <2>3 DEF Claiming
  <1>6. CASE Threads
    <2> PICK w \in Workers :
          \/ \E h \in Hubs : \E d \in Devices : BindUser(w, h, d) \/ FindNew(w, h, d)
          \/ Checks(w) \/ FetchesNothing(w) \/ Writes(w) \/ Discovers(w)
      BY <1>6 DEF Threads
    <2> DEFINE h == work[w].hub  d == work[w].dev
    <2>1. work[w].pc # "idle" => h \in Hubs /\ d \in Devices
      BY DEF TypeOK, ProcessTypes
    <2>2. work \in [Workers -> Work]
      BY DEF TypeOK, ProcessTypes
    <2>3. CASE \E g \in Hubs : \E e \in Devices : BindUser(w, g, e) \/ FindNew(w, g, e)
      BY <2>2, <2>3, KeepsKept DEF BindUser, FindNew, Begins, hubs, claims, loop, Exists
    <2>4. CASE FetchesNothing(w) \/ Discovers(w)
      BY <2>2, <2>4, KeepsKept DEF FetchesNothing, Discovers, Idle, hubs, claims, loop, Exists
    <2>5. CASE Checks(w)
      <3>1. h \in Hubs /\ d \in Devices
            /\ UNCHANGED <<rows, owner, entry, passing, busy>>
        BY <2>1, <2>5 DEF Checks, registries, hubs, loop
      <3>2. CASE cache' = CacheAfter(d) /\ ~Refused(h, d)
                 /\ work' = [work EXCEPT ![w].pc = "write"]
        <4>1. NowJustified(h, d)
          BY <3>1, <3>2, CheckJustifies
        <4>2. \A v \in Workers : work'[v].pc = "write" =>
                 \/ v = w /\ work'[v].hub = h /\ work'[v].dev = d
                 \/ v # w /\ work'[v] = work[v]
          BY <2>2, <3>2 DEF Work
        <4>3. \A v \in Workers : work'[v].pc = "write" =>
                 NowJustified(work'[v].hub, work'[v].dev)
          <5> SUFFICES ASSUME NEW v \in Workers, work'[v].pc = "write"
                       PROVE  NowJustified(work'[v].hub, work'[v].dev)
            OBVIOUS
          <5>1. CASE v = w
            BY <4>1, <4>2, <5>1 DEF Justified, NowJustified, Exists
          <5>2. CASE v # w
            <6>1. work'[v] = work[v] /\ work[v].pc = "write"
                  /\ work[v].hub \in Hubs /\ work[v].dev \in Devices
              BY <4>2, <5>2 DEF TypeOK, ProcessTypes
            <6>2. cache # None /\ Justified(work[v].hub, work[v].dev)
              BY <6>1 DEF KeepsInv, Justifications
            <6> QED
              BY <3>1, <3>2, <6>1, <6>2, CheckKeeps DEF Justified, NowJustified, Exists
          <5> QED
            BY <5>1, <5>2
        <4>4. passing' # None => NowJustified(busy', passing')
          BY <3>1, <3>2, CheckKeeps DEF KeepsInv, Justifications, TypeOK, ProcessTypes,
             HubOrNone, Justified, NowJustified, Exists
        <4> QED
          BY <3>1, <3>2, <4>3, <4>4, CheckKeeps DEF KeepsInv, Justifications, Justified,
             NowJustified, Exists
      <3>3. CASE cache' = CacheAfter(d) /\ work' = [work EXCEPT ![w] = Idle]
        <4>1. \A v \in Workers : work'[v].pc = "write" => work'[v] = work[v]
          BY <2>2, <3>3 DEF Idle
        <4>2. \A v \in Workers : work'[v].pc = "write" =>
                 NowJustified(work'[v].hub, work'[v].dev)
          BY <3>1, <3>3, <4>1, CheckKeeps DEF KeepsInv, Justifications, TypeOK, ProcessTypes,
             Justified, NowJustified, Exists
        <4>3. passing' # None => NowJustified(busy', passing')
          BY <3>1, <3>3, CheckKeeps DEF KeepsInv, Justifications, TypeOK, ProcessTypes,
             HubOrNone, Justified, NowJustified, Exists
        <4> QED
          BY <3>1, <3>3, <4>2, <4>3, CheckKeeps DEF KeepsInv, Justifications, Justified,
             NowJustified, Exists
      <3>4. CASE cache' = cache /\ work' = [work EXCEPT ![w] = Idle]
        BY <2>2, <3>1, <3>4, KeepsKept DEF Idle, Exists
      <3> QED
        BY <2>5, <3>2, <3>3, <3>4 DEF Checks
    <2>6. CASE Writes(w)
      <3>1. h \in Hubs /\ d \in Devices /\ cache # None /\ Justified(h, d)
        BY <2>1, <2>6 DEF Writes, KeepsInv, Justifications
      <3>2. Claim(h, d) /\ cache' = cache /\ UNCHANGED <<entry, passing, busy>>
        BY <2>6 DEF Writes, Claim, loop
      <3>3. \A v \in Workers : work'[v].pc = "write" => work'[v] = work[v]
        BY <2>2, <2>6 DEF Writes, Work
      <3>4. \A v \in Workers : work'[v].pc = "write" =>
               NowJustified(work'[v].hub, work'[v].dev)
        BY <3>1, <3>2, <3>3, ClaimKeeps DEF KeepsInv, Justifications, TypeOK, ProcessTypes,
           Justified, NowJustified, Exists
      <3>5. passing' # None => NowJustified(busy', passing')
        BY <3>1, <3>2, ClaimKeeps DEF KeepsInv, Justifications, TypeOK, ProcessTypes,
           HubOrNone, Justified, NowJustified, Exists
      <3> QED
        BY <3>1, <3>2, <3>4, <3>5, ClaimKeeps DEF KeepsInv, Justifications, Justified,
           NowJustified, Exists
    <2> QED
      BY <2>3, <2>4, <2>5, <2>6
  <1>7. CASE Restart
    BY <1>7 DEF Restart, FreshProcess, KeepsInv, Justifications, KeepsHub, Idle
  <1>8. CASE UNCHANGED vars
    BY <1>8, KeepsKept DEF vars, claims, hubs, loop, Exists
  <1> QED
    BY <1>1, <1>2, <1>3, <1>4, <1>5, <1>6, <1>7, <1>8 DEF Next

(* A device is claimed by no hub but the one that had its registry rows    *)
(* when this process first asked, while that one exists.                   *)
THEOREM StaysWithItsHub == Spec => []KeepsHub
  <1> DEFINE IInv == TypeOK /\ KeepsInv
  <1>1. Init => IInv
    BY InitType DEF Init, KeepsInv, Justifications, KeepsHub, Idle
  <1>2. IInv /\ [Next]_vars => IInv'
    BY StepType, KeepsStep
  <1>3. IInv => KeepsHub
    BY DEF KeepsInv
  <1> QED
    BY <1>1, <1>2, <1>3, PTL DEF Spec


-----------------------------------------------------------------------------
(* The clean-up spares the hubs that are loading                           *)

LEMMA SweepSpares ==
    ASSUME Lifecycle, NEW m \in Hubs, OthersLoaded(m), NEW h \in Hubs, load[h] = "fetch"
    PROVE  h = m
  BY DEF Lifecycle, OthersLoaded, Listed, StillLoading

LEMMA RegistersSpares ==
    ASSUME TypeOK, Lifecycle, NEW m \in Hubs, Registers(m),
           NEW h \in Hubs, load[h] = "fetch", load'[h] = "fetch"
    PROVE  ~Loses(h)
  <1>1. h # m
    BY DEF Registers, TypeOK, HubTypes
  <1>2. ~OthersLoaded(m)
    BY <1>1, SweepSpares
  <1> QED
    BY <1>1, <1>2 DEF Registers, Loses, TypeOK, RegistryTypes

LEMMA SparesStep == TypeOK /\ Lifecycle /\ [Next]_vars => [OnlyOwnTaskClears]_vars
  <1> SUFFICES ASSUME TypeOK, Lifecycle, [Next]_vars,
                      NEW h \in Hubs, load[h] = "fetch", load'[h] = "fetch", Loses(h)
               PROVE  cleaners'[h] < cleaners[h]
    BY DEF OnlyOwnTaskClears
  <1>1. reg' # reg
    BY DEF Loses
  <1>2. ASSUME NEW m \in Hubs, Progress(m) PROVE FALSE
    <2>1. Removed(m)
      BY <1>1, <1>2 DEF Progress, SetupBegins, SetupEnds, FetchEnds, LoadEnds, RetryFires, Unload,
         Teardown, UnloadEnds, registries
    <2>2. h # m
      BY <2>1 DEF Removed, Lifecycle
    <2> QED
      BY <2>1, <2>2 DEF Removed, Loses, TypeOK, RegistryTypes
  <1>3. ASSUME NEW m \in Hubs, Fails(m) PROVE FALSE
    BY <1>1, <1>3, RegistersSpares DEF Fails, FetchSwallowed, UnloadRefused, LoadFails, registries
  <1>4. ASSUME NEW m \in Hubs, User(m) PROVE FALSE
    BY <1>1, <1>4 DEF User, Reload, Disable, Enable, Remove, Unload, registries
  <1>5. ASSUME NEW m \in Hubs, Cleans(m) \/ GivesUp(m) PROVE cleaners'[h] < cleaners[h]
    <2>1. Cleans(m)
      BY <1>1, <1>5 DEF GivesUp, registries
    <2>2. h = m
      BY <2>1, SweepSpares DEF Cleans
    <2> QED
      BY <2>1, <2>2 DEF Cleans, TypeOK, HubTypes
  <1>6. CASE Claiming
    BY <1>1, <1>6, RegistersSpares DEF Claiming, LoopChecks, LoopClaims, MergeEnds, registries,
       TypeOK, ProcessTypes, HubOrNone
  <1>7. CASE Threads
    BY <1>1, <1>7 DEF Threads, BindUser, FindNew, Begins, Checks, FetchesNothing, Writes,
       Discovers, Loses, registries, TypeOK, RegistryTypes
  <1>8. CASE Restart
    BY <1>1, <1>8 DEF Restart, registries
  <1>9. CASE UNCHANGED vars
    BY <1>1, <1>9 DEF vars, registries
  <1> QED
    BY <1>2, <1>3, <1>4, <1>5, <1>6, <1>7, <1>8, <1>9 DEF Next

(* The clean-up of a hub removes no device of another that is fetching.    *)
THEOREM LoadingSpared == Spec => SparesOthersLoading
  <1> DEFINE IInv == TypeOK /\ Lifecycle
  <1>1. Init => IInv
    BY InitType DEF Init, Lifecycle
  <1>2. IInv /\ [Next]_vars => IInv'
    BY StepType, LifecycleStep
  <1>3. IInv /\ [Next]_vars => [OnlyOwnTaskClears]_vars
    BY SparesStep
  <1> QED
    BY <1>1, <1>2, <1>3, PTL DEF Spec, SparesOthersLoading


=============================================================================
