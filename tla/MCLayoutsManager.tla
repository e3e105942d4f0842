-------------------------- MODULE MCLayoutsManager --------------------------
(***************************************************************************)
(* Instances of LayoutsManager for TLC.  Layouts 1 and 2 are regular, 3 is *)
(* an overlay, 4 is the default, 5 is only ever asked for by an override;  *)
(* 100 is a media file.                                                    *)
(***************************************************************************)
EXTENDS LayoutsManager

MCLayoutIds == 1..5
MCFiles     == MCLayoutIds \cup {100}

Scheduled(id, priority, startDT, endDT, dependants, conditions) ==
  [id |-> id, priority |-> priority, startDT |-> startDT, endDT |-> endDT,
   dependants |-> dependants, criteria |-> conditions]

Hot == [metric |-> "temperature", accepts |-> {"hot"}]

(* Two layouts take turns, then one is left, then the default layout.      *)
Rotation ==
  [regular |-> <<Scheduled(1, 0, 0, 3, {}, {}), Scheduled(2, 0, 0, 2, {100}, {})>>,
   overlay |-> <<Scheduled(3, 0, 1, 3, {}, {})>>,
   default |-> [id |-> 4, dependants |-> {}],
   globalDependants |-> {}]

(* A layout of a higher priority that depends on a criteria; the overlay   *)
(* of the other schedule is a regular layout here.                         *)
Campaign ==
  [regular |-> <<Scheduled(2, 0, 0, 9, {}, {}), Scheduled(1, 1, 1, 3, {}, {Hot}),
                 Scheduled(3, 0, 2, 9, {}, {})>>,
   overlay |-> <<>>,
   default |-> [id |-> 4, dependants |-> {100}],
   globalDependants |-> {}]

AllLoad == [id \in MCLayoutIds |-> "loads"]
Faulty  == [AllLoad EXCEPT ![1] = "hollow", ![2] = "partial"]
Hollow  == [AllLoad EXCEPT ![1] = "hollow"]

(* A zone whose clock is two behind UTC.                                   *)
MCWest == -2

BothSchedules == {Rotation, Campaign}
OneSchedule   == {Rotation}
=============================================================================
