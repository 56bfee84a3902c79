---------------------------- MODULE MCHubEntries ----------------------------
(* Instances of HubEntries for TLC.                                        *)
EXTENDS HubEntries

CONSTANTS d1, d2

(* Hub 1 and hub 2 share d1, which the registry gives to nobody or to hub  *)
(* 2; hub 2 has d2 as well.                                                *)
SharedHome == [h \in Hubs |-> IF h = 1 THEN {d1} ELSE {d1, d2}]

SharedInit == /\ Init
              /\ home = SharedHome
              /\ rows \in [Devices -> {None, 2}] /\ rows[d2] = 2
              /\ \A h \in Hubs : entry[h] = "listed"

SharedSpec == SharedInit /\ [][Next]_vars /\ Fairness

(* No device is known yet: one is bound to both hubs while they run.       *)
UnknownInit == /\ Init
               /\ \A h \in Hubs : home[h] = {} /\ entry[h] = "listed"
               /\ \A d \in Devices : rows[d] = None

UnknownSpec == UnknownInit /\ [][Next]_vars

=============================================================================
