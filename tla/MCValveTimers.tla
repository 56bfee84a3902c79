--------------------------- MODULE MCValveTimers ---------------------------
(* Instances of ValveTimers for TLC.                                       *)
EXTENDS ValveTimers, TLC

CONSTANTS k1, k2

Symmetry == Permutations(Keys)
CallSymmetry == Permutations(Calls)

(* What the concurrent run tells states apart by: neither its properties   *)
(* nor any guard reads the history variables left out.                     *)
Visible == <<device, cloud, hub, breaker, ha, calls, budget, clean>>

(* A valve in use, as the app or two set_timer calls and their reports     *)
(* leave it: slot 0 at one key and slot 1 at another, enabled and mirrored. *)
InUse(k, l) == [i \in Slots |-> [key |-> IF i = 0 THEN k ELSE l, on |-> TRUE]]

SeededWith(k, l) ==
    /\ dev = InUse(k, l) /\ window = [index |-> 1, timer |-> InUse(k, l)[1]] /\ wire = <<>>
    /\ \E alias \in {None, 0} :
          cloud = [g \in Gids |->
                     CASE g = 1 -> [gid |-> 1, key |-> k, alias |-> alias, on |-> TRUE]
                       [] g = 2 -> [gid |-> 2, key |-> l, alias |-> None, on |-> TRUE]
                       [] OTHER -> None]
    /\ hub = "mirror"
    /\ breaker = FALSE
    /\ live = TRUE
    /\ slots = InUse(k, l) /\ last = window /\ overlay = NoLabels
    /\ cloudOnly = {} /\ stamp = 0 /\ restored = FALSE
    /\ dp = window /\ saved = None
    /\ calls = [c \in Calls |-> Idle]
    /\ budget = [ops |-> MaxOps, trouble |-> MaxTrouble]
    /\ blind = {} /\ clean = TRUE /\ rolledBack = {}

SeededInit == SeededWith(k1, k2)

SeededSpec == SeededInit /\ [][Next]_vars

(* from an empty valve or one in use                                       *)
EitherSpec ==
    /\ Init \/ \E k, l \in Keys : k # l /\ SeededWith(k, l)
    /\ [][Next]_vars

=============================================================================
