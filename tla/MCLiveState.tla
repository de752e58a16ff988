---------------------------- MODULE MCLiveState ----------------------------
(***************************************************************************)
(* A domain of one cyclic subject, one of two, one whose subjects are not  *)
(* cyclic, and questions the tool refuses.                                 *)
(***************************************************************************)
EXTENDS LiveState

MCSubjects == {"boiler", "tank", "evse"}

MCSubjectsOf ==
  [q \in {"heating", "dhw", "wallbox"} |->
    CASE q = "heating" -> <<"boiler">>
      [] q = "dhw"     -> <<"tank", "boiler">>
      [] q = "wallbox" -> <<"evse", "tank">>]
=============================================================================
