---------------------------- MODULE MCKnxFanout ----------------------------
(***************************************************************************)
(* A dimmer with its order in one room and its status in another, as a     *)
(* filter by room separates them, and a sensor; the second catalog renames *)
(* the dimmer and lists the sensor elsewhere, the third drops the status.  *)
(***************************************************************************)
EXTENDS KnxFanout

CONSTANTS dimmer, lamp, sensor, kitchen, hall

Entry(device, point, room) == [name |-> [device |-> device, point |-> point], room |-> room]

MCGas == 1..3

First ==
  [g \in MCGas |->
    CASE g = 1 -> Entry(dimmer, <<"Dimmen", "Absolut">>, kitchen)
      [] g = 2 -> Entry(sensor, <<"Temperatur">>, kitchen)
      [] g = 3 -> Entry(dimmer, <<"Dimmen", "Status">>, hall)]

MCCatalogs ==
  {First,
   [First EXCEPT ![1].name.device = lamp, ![2].room = hall, ![3].name.device = lamp],
   [First EXCEPT ![3] = None]}
=============================================================================
