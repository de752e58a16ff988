----------------------------- MODULE MCNatsTail -----------------------------
(***************************************************************************)
(* Two group addresses of one area, one of another area and a wallbox; a   *)
(* client asks for an address, an area, everything of the bus, everything  *)
(* of a stream the bridge does not offer, and a bare token.                *)
(***************************************************************************)
EXTENDS NatsTail

MCSubjects == {<<"knx", "1", "1">>, <<"knx", "1", "2">>, <<"knx", "2", "1">>, <<"warp", "meter">>}

MCAsked ==
  {<<"knx", "1", "1">>, <<"knx", "1", ">">>, <<"knx", "*", "1">>, <<"knx", ">">>,
   <<"private", "1">>, <<"warp">>}

MCAllowedPrefixes == {"knx", "warp"}
=============================================================================
