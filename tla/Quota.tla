------------------------------- MODULE Quota -------------------------------
(***************************************************************************)
(* The count of devices a hub commanded this month                         *)
(* (ControllableQuotaTracker).  Executor threads record a command while    *)
(* the event loop shows the number used; both roll the month, statement by *)
(* statement and without a lock, and the store is written by jobs that run *)
(* later on the event loop.                                                *)
(***************************************************************************)
EXTENDS Integers, FiniteSets, FiniteSetsExt

CONSTANTS
    Recorders,      \* executor threads
    Reader,         \* the event loop, when it reads the property used
    Devices,        \* devices of the hub
    MaxMonth,       \* bound: months that pass
    MaxRecords,     \* bound: commands noted
    MaxReads,       \* bound: reads of used
    MaxStops        \* bound: restarts

ASSUME QuotaAssumption ==
    /\ IsFiniteSet(Recorders) /\ Reader \notin Recorders /\ IsFiniteSet(Devices)
    /\ MaxMonth \in Nat \ {0} /\ MaxRecords \in Nat /\ MaxReads \in Nat /\ MaxStops \in Nat

TrialLimit == 10
Unlimited == -1

VARIABLES
    month,      \* the calendar month
    quota,      \* the tracker: its month and its devices
    stored,     \* the file
    saves,      \* save jobs waiting on the event loop
    user,       \* user[w]: what worker w is doing with the tracker
    limit,      \* controllable_limit of the settings
    spent,      \* [records, reads, stops] so far
    commanded,  \* history: devices commanded this month
    overlapped  \* history: a roll met another worker, or a restart an unsaved change

quotaVars == <<month, quota, stored, saves, user, limit, spent, commanded, overlapped>>

-----------------------------------------------------------------------------
(* The settings of a hub. *)

Plans == {"trial", "paid", "custom"}
NoNumber == -1
Options == [plan : Plans \cup {"other"}, limit : {NoNumber, 0, 1}]

\* HubSettings.from_options: a custom plan without a usable limit keeps the trial cap.
LimitOf(options) ==
    CASE options.plan = "paid" -> Unlimited
      [] options.plan = "custom" /\ options.limit >= 1 -> options.limit
      [] OTHER -> TrialLimit

\* The property remaining; None is given as Unlimited.
Remaining == IF limit = Unlimited THEN Unlimited ELSE Max({0, limit - Cardinality(quota.devices)})

-----------------------------------------------------------------------------
Users == Recorders \cup {Reader}
Away == [pc |-> "away"]
AllAway == \A w \in Users : user[w] = Away
UGoes(w, pc) == user' = [user EXCEPT ![w].pc = pc]

QuotaInit ==
    /\ month = 1 /\ quota = [month |-> 1, devices |-> {}] /\ stored = quota /\ saves = 0
    /\ user = [w \in Users |-> Away]
    /\ limit \in {LimitOf(o) : o \in Options}
    /\ spent = [records |-> 0, reads |-> 0, stops |-> 0]
    /\ commanded = {} /\ overlapped = FALSE

\* The first of the month.
NextMonth ==
    /\ month < MaxMonth
    /\ month' = month + 1 /\ commanded' = {}
    /\ overlapped' = (overlapped \/ ~AllAway)
    /\ UNCHANGED <<quota, stored, saves, user, limit, spent>>

\* record and used begin with the month key of now.
Record(w) ==
    /\ w \in Recorders /\ user[w] = Away /\ spent.records < MaxRecords
    /\ spent' = [spent EXCEPT !.records = @ + 1]
    /\ \E d \in Devices :
         user' = [user EXCEPT ![w] = [pc |-> "roll", device |-> d, key |-> month, rolled |-> FALSE]]
    /\ UNCHANGED <<month, quota, stored, saves, limit, commanded, overlapped>>

Used ==
    /\ user[Reader] = Away /\ spent.reads < MaxReads
    /\ spent' = [spent EXCEPT !.reads = @ + 1]
    /\ user' = [user EXCEPT ![Reader] = [pc |-> "roll", key |-> month, rolled |-> FALSE]]
    /\ UNCHANGED <<month, quota, stored, saves, limit, commanded, overlapped>>

After(w) == IF w = Reader THEN "read" ELSE "add"

\* _roll_month_if_needed: the month is compared and set ...
Roll(w) ==
    /\ user[w].pc = "roll"
    /\ IF user[w].key = quota.month
         THEN UGoes(w, After(w)) /\ UNCHANGED <<quota, overlapped>>
         ELSE /\ quota' = [quota EXCEPT !.month = user[w].key]
              /\ user' = [user EXCEPT ![w].pc = "empty", ![w].rolled = TRUE]
              /\ overlapped' = (overlapped \/ \E v \in Users \ {w} : user[v] # Away)
    /\ UNCHANGED <<month, stored, saves, limit, spent, commanded>>

\* ... and then the devices are emptied.
EmptyDevices(w) ==
    /\ user[w].pc = "empty"
    /\ quota' = [quota EXCEPT !.devices = {}]
    /\ UGoes(w, After(w))
    /\ overlapped' = (overlapped \/ \E v \in Users \ {w} : user[v] # Away)
    /\ UNCHANGED <<month, stored, saves, limit, spent, commanded>>

\* The device is added, and a save is asked for when something changed.
Add(w) ==
    /\ user[w].pc = "add"
    /\ LET d == user[w].device IN
         /\ quota' = [quota EXCEPT !.devices = @ \cup {d}]
         /\ saves' = IF d \notin quota.devices \/ user[w].rolled THEN saves + 1 ELSE saves
         /\ commanded' = commanded \cup {d}
    /\ user' = [user EXCEPT ![w] = Away]
    /\ overlapped' = (overlapped \/ \E v \in Users : user[v].pc = "empty")
    /\ UNCHANGED <<month, stored, limit, spent>>

\* used returns the number of devices.
ReadUsed ==
    /\ user[Reader].pc = "read"
    /\ user' = [user EXCEPT ![Reader] = Away]
    /\ UNCHANGED <<month, quota, stored, saves, limit, spent, commanded, overlapped>>

\* _async_save on the event loop, which cannot be reading used meanwhile.
SaveQuota ==
    /\ saves > 0 /\ user[Reader] = Away
    /\ saves' = saves - 1 /\ stored' = quota
    /\ UNCHANGED <<month, quota, user, limit, spent, commanded, overlapped>>

\* Mutant: the month of the file is not looked at.
LoadedAnyMonth == [month |-> month, devices |-> stored.devices]

\* async_load: a stale file starts the month afresh, and is written.
Loaded == IF stored.month = month THEN stored ELSE [month |-> month, devices |-> {}]

\* Home Assistant restarts: what no job had saved yet is lost.
RestartQuota ==
    /\ spent.stops < MaxStops
    /\ spent' = [spent EXCEPT !.stops = @ + 1]
    /\ overlapped' = (overlapped \/ saves > 0 \/ ~AllAway)
    /\ quota' = Loaded /\ stored' = quota' /\ saves' = 0
    /\ user' = [w \in Users |-> Away]
    /\ UNCHANGED <<month, limit, commanded>>

-----------------------------------------------------------------------------
QuotaNext ==
    \/ NextMonth \/ Used \/ ReadUsed \/ SaveQuota \/ RestartQuota
    \/ \E w \in Users : Record(w) \/ Roll(w) \/ EmptyDevices(w) \/ Add(w)

QuotaSpec == QuotaInit /\ [][QuotaNext]_quotaVars

-----------------------------------------------------------------------------
(* Properties. *)

QuotaTypeOK ==
    /\ month \in 1..MaxMonth /\ saves \in Nat /\ overlapped \in BOOLEAN
    /\ quota \in [month : 1..MaxMonth, devices : SUBSET Devices]
    /\ stored \in [month : 1..MaxMonth, devices : SUBSET Devices]
    /\ user \in [Users -> {Away}
                   \cup [pc : {"roll", "empty", "read"}, key : 1..MaxMonth, rolled : BOOLEAN]
                   \cup [pc : {"roll", "empty", "add"}, device : Devices, key : 1..MaxMonth,
                         rolled : BOOLEAN]]
    /\ limit \in {LimitOf(o) : o \in Options} /\ commanded \subseteq Devices
    /\ spent \in [records : 0..MaxRecords, reads : 0..MaxReads, stops : 0..MaxStops]

\* The number shown is what the hub used of its allowance: at rest the tracker holds
\* the devices commanded this month, each once, across months, threads and restarts,
\* unless a roll of the month met another thread or a restart an unsaved change; and
\* what remains is never less than nothing.
CountsThisMonth ==
    AllAway /\ ~overlapped =>
        /\ (IF quota.month = month THEN quota.devices ELSE {}) = commanded
        /\ limit # Unlimited /\ quota.month = month =>
             Remaining = (IF Cardinality(commanded) > limit THEN 0
                                                       ELSE limit - Cardinality(commanded))
=============================================================================
