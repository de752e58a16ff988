------------------------- MODULE MCBridgeLifecycle -------------------------
(***************************************************************************)
(* A bridge with everything but the object store; two calls and the probe  *)
(* share two connections for reading, one for writing, and one thread.     *)
(***************************************************************************)
EXTENDS BridgeLifecycle

CONSTANTS c1, c2

MCCalls == {c1, c2}
MCUsers == {c1, c2, Probe}
MCPools == {"read pool", "write pool"}
MCPoolMin == [p \in MCPools |-> IF p = "read pool" THEN 1 ELSE 0]
MCPoolMax == [p \in MCPools |-> IF p = "read pool" THEN 2 ELSE 1]

MCEnabled == Resources \ {"s3"}

\* set_verdict, get_current_state with its fallback, get_wiki_page, backtest_fault
MCPrograms ==
  {<<"read pool", "write pool">>, <<"nats", "read pool">>, <<"wiki">>, <<"thread">>}
=============================================================================
