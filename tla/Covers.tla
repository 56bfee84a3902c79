------------------------------- MODULE Covers -------------------------------
(* A cover whose position the integration computes: the device only opens,  *)
(* closes and stops, or does not tell where it is, and the position shown   *)
(* is the time since the last command, out of the time a full move takes.   *)
(* A position is the distance moved in one unit of time, as the device      *)
(* counts it: 0 is where its CLOSE ends.  A cover whose control is inverted *)
(* opens there, and the virtual position is not inverted for the user.      *)
EXTENDS Naturals, Integers, Sequences, FiniteSets

CONSTANTS
    Top,            \* open_time: the fully open position
    Interval,       \* update_interval
    MaxMoves,       \* bound: commands that move the cover
    MaxCoverStarts  \* bound: restarts

ASSUME CoverAssumption == Top \in Nat \ {0} /\ Interval \in Nat \ {0}

VARIABLES
    inverted,       \* invert_control: open sends CLOSE, close sends OPEN
    sets,           \* the device has a data point for the position (_set_position)
    precise,        \* and follows it (not no_precise_position)
    physical, goal, \* the motor: where the cover is and where it runs to
    virtual,        \* configurable_properties.virtual_position
    storedPosition, \* the position the storage holds
    handlers,       \* every XTCoverVirtualPositionHandler made since the start
    handling,       \* virtual_operation_handler: an index of handlers, 0 is None
    stops,          \* calls of async_stop_cover that a handler has scheduled
    aim,            \* history: the position last asked for
    landed,         \* history: the motor ended by itself where it was asked to
    drift,          \* history: how far a timed stop may have left the cover off
    astray,         \* history: since it last landed, the motor was sent where no handler counts
    superseded,     \* history: a command came before the last move was over
    coverStarts

optionVars == <<inverted, sets, precise>>
motorVars == <<optionVars, physical, goal>>
timingVars == <<virtual, storedPosition, handlers, handling, stops>>
driftVars == <<aim, landed, drift, astray, superseded>>
coverVars == <<motorVars, timingVars, driftVars, coverStarts>>

Positions == 0..Top
Off == -1
Smaller(a, b) == IF a < b THEN a ELSE b
Distance(a, b) == IF a < b THEN b - a ELSE a - b

-----------------------------------------------------------------------------
(* The handler of a timed move. *)

Total(h) == Distance(h.from, h.to)      \* 0: no finish time, it never ticks
ReachedUncapped(h) == IF h.from < h.to THEN h.from + h.elapsed ELSE h.from - h.elapsed
Reached(h) ==
    LET gone == Smaller(h.elapsed, Total(h))
    IN  IF h.from < h.to THEN h.from + gone ELSE h.from - gone
NewHandler(from, to, stopsCover) ==
    [from |-> from, to |-> to, elapsed |-> 0, due |-> Interval, live |-> from # to, stopsCover |-> stopsCover]

(* Handler i ends: its position is brought up to date and stored, and the   *)
(* stop it was made with is scheduled.                                      *)
UpdatedAtStop(h) == IF Total(h) = 0 THEN virtual ELSE Reached(h)
NotUpdated(h) == virtual
LastUpdate(h) == UpdatedAtStop(h)
EndHandler(i) ==
    /\ virtual' = LastUpdate(handlers[i])
    /\ storedPosition' = virtual'
    /\ handlers' = [handlers EXCEPT ![i].live = FALSE]
    /\ handling' = IF handling = i THEN 0 ELSE handling
    /\ stops' = IF handlers[i].stopsCover THEN stops + 1 ELSE stops

TimerFires(i) ==    \* update_virtual_position_tick
    /\ handlers[i].live /\ handlers[i].due = 0
    /\ IF handlers[i].elapsed < Total(handlers[i])
       THEN /\ virtual' = Reached(handlers[i])
            /\ handlers' = [handlers EXCEPT ![i].due = Interval]
            /\ UNCHANGED <<storedPosition, handling, stops>>
       ELSE EndHandler(i)
    /\ UNCHANGED <<motorVars, driftVars, coverStarts>>

-----------------------------------------------------------------------------
(* The commands. *)

Moving == \E i \in DOMAIN handlers : handlers[i].live
CoverAtRest == ~Moving /\ goal = Off /\ stops = 0

CoverInit ==
    /\ inverted \in BOOLEAN /\ sets \in BOOLEAN /\ precise \in BOOLEAN /\ (precise => sets)
    /\ physical = Top /\ goal = Off         \* the default position is open
    /\ virtual = Top /\ storedPosition = Top
    /\ handlers = <<>> /\ handling = 0 /\ stops = 0
    /\ aim = Top /\ landed = TRUE /\ drift = 0
    /\ astray = FALSE /\ superseded = FALSE
    /\ coverStarts = 0

(* Where async_open_cover and async_close_cover send the device.            *)
OpenEnd == IF inverted THEN 0 ELSE Top
CloseEnd == IF inverted THEN Top ELSE 0

(* Where a motor must run to for a handler that stops it: past its end.     *)
Far(from, to) == IF from < to THEN Top ELSE 0
Strays(to, target) == target # to /\ (virtual = to \/ target # Far(virtual, to))

(* The handler counts to a position while the motor runs to its target.     *)
BeginMove(to, target, stopsCover) ==
    /\ Len(handlers) < MaxMoves
    /\ handlers' = Append(handlers, NewHandler(virtual, to, stopsCover))
    /\ handling' = Len(handlers')
    /\ virtual' = virtual       \* the first tick: no time has gone by
    /\ goal' = IF physical = target THEN Off ELSE target
    /\ aim' = to
    /\ landed' = (physical = to /\ target = to)
    /\ drift' = IF landed THEN 0 ELSE drift
    /\ astray' = (Strays(to, target) \/ (astray /\ ~landed))
    /\ superseded' = (superseded \/ Moving \/ goal # Off)
    /\ UNCHANGED <<optionVars, physical, storedPosition, stops, coverStarts>>

(* A full move: the motor ends at its stop.                                 *)
OpenCover == BeginMove(OpenEnd, OpenEnd, FALSE)
CloseCover == BeginMove(CloseEnd, CloseEnd, FALSE)

(* A position is turned around for an inverted cover.  A device that takes  *)
(* none, or not precisely, is opened or closed (which turns it around once  *)
(* more) and stopped when the time for the distance has gone by; it may     *)
(* follow the position that is sent all the same.                           *)
Towards(to) == IF virtual < to THEN OpenEnd ELSE CloseEnd
SetPosition(asked) ==
    LET to == IF inverted THEN Top - asked ELSE asked
    IN  IF precise THEN BeginMove(to, to, FALSE)
        ELSE \E target \in {Towards(to)} \cup (IF sets THEN {to} ELSE {}) : BeginMove(to, target, TRUE)

SendStop ==
    /\ goal' = Off
    /\ landed' = (landed /\ goal = Off /\ ~Moving)

StopCover ==        \* async_stop_cover, by the user
    /\ goal # Off \/ Moving
    /\ SendStop
    /\ IF handling = 0 THEN UNCHANGED timingVars ELSE EndHandler(handling)
    /\ UNCHANGED <<optionVars, physical, aim, drift, astray, superseded, coverStarts>>

ScheduledStop ==    \* async_stop_cover, by a handler
    /\ stops > 0
    /\ SendStop
    /\ IF handling = 0 THEN stops' = stops - 1 /\ UNCHANGED <<virtual, storedPosition, handlers, handling>>
       ELSE /\ virtual' = LastUpdate(handlers[handling])
            /\ storedPosition' = virtual'
            /\ handlers' = [handlers EXCEPT ![handling].live = FALSE]
            /\ handling' = 0
            /\ stops' = IF handlers[handling].stopsCover THEN stops ELSE stops - 1
    /\ drift' = Smaller(Top, drift + Interval - 1)
    /\ UNCHANGED <<optionVars, physical, aim, astray, superseded, coverStarts>>

(* Home Assistant restarts: the stored position is all that is left. *)
RestartCover ==
    /\ coverStarts < MaxCoverStarts /\ coverStarts' = coverStarts + 1
    /\ virtual' = storedPosition
    /\ handlers' = [i \in DOMAIN handlers |-> [handlers[i] EXCEPT !.live = FALSE]]
    /\ handling' = 0 /\ stops' = 0
    /\ superseded' = (superseded \/ ~CoverAtRest)
    /\ UNCHANGED <<motorVars, storedPosition, aim, landed, drift, astray>>

(* A unit of time; timers that are due fire and scheduled stops run first.  *)
TimePasses ==
    /\ stops = 0 /\ \A i \in DOMAIN handlers : handlers[i].live => handlers[i].due > 0
    /\ Moving \/ goal # Off
    /\ handlers' = [i \in DOMAIN handlers |->
         IF handlers[i].live THEN [handlers[i] EXCEPT !.elapsed = @ + 1, !.due = @ - 1] ELSE handlers[i]]
    /\ physical' = IF goal = Off THEN physical ELSE IF physical < goal THEN physical + 1 ELSE physical - 1
    /\ goal' = IF physical' = goal THEN Off ELSE goal
    /\ landed' = IF goal # Off /\ goal' = Off THEN goal = aim ELSE landed
    /\ UNCHANGED <<optionVars, virtual, storedPosition, handling, stops, aim, drift, astray, superseded, coverStarts>>

CoverNext ==
    \/ OpenCover \/ CloseCover \/ StopCover \/ ScheduledStop \/ RestartCover \/ TimePasses
    \/ \E asked \in Positions : SetPosition(asked)
    \/ \E i \in DOMAIN handlers : TimerFires(i)

CoverSpec == CoverInit /\ [][CoverNext]_coverVars

-----------------------------------------------------------------------------
Handler == [from : Positions, to : Positions, elapsed : 0..(Top + Interval), due : 0..Interval,
            live : BOOLEAN, stopsCover : BOOLEAN]
CoverTypeOK ==
    /\ physical \in Positions /\ goal \in Positions \cup {Off}
    /\ virtual \in Positions /\ storedPosition \in Positions
    /\ \A i \in DOMAIN handlers : handlers[i] \in Handler
    /\ handling \in 0..Len(handlers) /\ stops \in 0..MaxMoves
    /\ drift \in Positions

(* At rest the position shown is the device's own, but for the overshoot of *)
(* the timed stops since the cover last ran into a position by itself: of   *)
(* each less than an update interval.  Not so once the motor was sent where *)
(* the handler does not count, until the cover runs into a position again:  *)
(* an inverted cover without precise positions runs the wrong way, and one  *)
(* without precise positions that is asked for the position it shows runs   *)
(* to an end unwatched.  Nor where commands came before the last one was    *)
(* over, as nothing in the handler waits for that one.                      *)
PositionTrue ==
    CoverAtRest /\ ~superseded =>
      /\ ~astray => Distance(virtual, physical) <= drift
      /\ landed => virtual = physical
      /\ storedPosition = virtual
=============================================================================
