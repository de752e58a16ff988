-------------------------- MODULE MCEpisodeBundle --------------------------
(***************************************************************************)
(* A room with a dimmer, whose channel the episode is about, and a sensor; *)
(* the second catalog moves the dimmer's state to another room, the third  *)
(* does not know the episode's address.                                    *)
(***************************************************************************)
EXTENDS EpisodeBundle

CONSTANTS state, order, reading, spare, kitchen, hall, dimmer, sensor

MCGas == {state, order, reading, spare}

Entry(device, point, room) == [name |-> [device |-> device, point |-> point], room |-> room]

\* The episode is about the dimmer's status, whose order is `Dimmen-Absolut`.
MCRef == state
First ==
  [g \in MCGas |->
    CASE g = state   -> Entry(dimmer, <<"Dimmen", "Status">>, kitchen)
      [] g = order   -> Entry(dimmer, <<"Dimmen", "Absolut">>, kitchen)
      [] g = reading -> Entry(sensor, <<"Temperatur">>, kitchen)
      [] g = spare   -> Entry(dimmer, <<"Schalten", "Status">>, kitchen)]

MCCatalogs ==
  {First,
   [First EXCEPT ![state].room = hall, ![reading].name.point = <<"Dimmen", "Anomalie">>],
   [First EXCEPT ![state] = None]}
=============================================================================
