---------------------------- MODULE MCHydraHash ----------------------------
(* HydraHash as the program uses it. *)
EXTENDS HydraHash

\* The calls of run_server: an update for each PUT, a search for each GET.
\* Once the table is filled, nothing is inserted and nothing is deleted.
ServerNext ==
    \/ \E k \in Keys, v \in Values : Retire(k, v)
    \/ Publish
    \/ \E k \in Keys : SearchMissing(k)

ServerSpec == Init /\ [][ServerNext]_vars
=============================================================================
