--------------------------- MODULE MCCallPipeline ---------------------------
(***************************************************************************)
(* Two calls on two routes: every tool, with every mistake it can see, a   *)
(* probe, a request without the key and one without a route.  Two names    *)
(* that may come and go: a table, and what is a column of it, a room, a    *)
(* function and another table, which has no time column.                   *)
(***************************************************************************)
EXTENDS CallPipeline, TLC

CONSTANTS c1, c2

MCCalls == {c1, c2}

Symmetry == Permutations(MCCalls)

Call(tool, client) ==
  [path |-> "mcp", key |-> TRUE, client |-> client, tool |-> tool, lines |-> 1,
   bucket |-> 4, window |-> 4, number |-> 1, limit |-> 3, fits |-> TRUE, names |-> <<>>]

Ask(tool) == Call(tool, "chat")

MCRequests ==
  {Call("start_run", client) : client \in Clients}
  \cup {[Ask("append_memory") EXCEPT !.lines = n] : n \in {1, 2}}
  \cup {[Ask("correlate_events") EXCEPT !.bucket = b, !.window = w, !.names = <<"t", "t", "x">>] :
          b \in {None, 0, 2}, w \in {1, 2}}
  \cup {[Ask("correlate_events") EXCEPT !.fits = FALSE, !.names = <<"t", "x", "x">>]}
  \cup {[Ask("query_timeseries") EXCEPT !.bucket = b, !.names = <<"t", "x">>] : b \in {None, 0, 4}}
  \cup {[Ask("query_timeseries") EXCEPT !.names = <<"x">>]}
  \cup {[Ask("query_room_climate") EXCEPT !.bucket = b, !.names = <<"x">>] : b \in {0, 4}}
  \cup {[Ask("query_energy_flow") EXCEPT !.bucket = b] : b \in {0, 2, 4}}
  \cup {[Ask("query_knx_events") EXCEPT !.limit = n, !.names = <<"x">>] : n \in {0, 1}}
  \cup {Ask("query_knx_events"), Ask("backtest_fault"), Ask("get_forecast")}
  \cup {[Ask("query_unifi_events") EXCEPT !.number = n] : n \in {-1, 100, 101}}
  \cup {[Ask("query_heating_cycles") EXCEPT !.number = n] : n \in {-1, 0}}
  \cup {[Ask("list_episodes") EXCEPT !.number = n] : n \in {0, 1}}
  \cup {[Ask(tool) EXCEPT !.fits = FALSE] : tool \in {"list_episodes", "backtest_fault"}}
  \cup {[Ask("backtest_fault") EXCEPT !.limit = 0]}
  \cup {[Ask("start_run") EXCEPT !.path = "probe", !.client = None, !.key = FALSE],
        [Ask("start_run") EXCEPT !.key = FALSE],
        [Ask("start_run") EXCEPT !.client = None]}
=============================================================================
