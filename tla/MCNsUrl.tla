------------------------------- MODULE MCNsUrl -------------------------------
(* Annotations of one or two URLs, with or without a query.  The          *)
(* interface parts include ones of exactly 15 and 16 characters, either   *)
(* side of parseNsUrl's limit; a key may repeat in a query, and a value   *)
(* may be empty or hold a blank.  The                                      *)
(* client's configuration and the environment each set some options or    *)
(* none.                                                                   *)
EXTENDS NsUrl

MCNames == {<<"a">>}
MCIntfs == {<<>>, <<"b">>, [i \in 1..15 |-> "b"], [i \in 1..16 |-> "b"]}
MCKeys == {<<"a">>, <<"b">>}
MCValues == {<<>>, <<"b">>, <<"a", " ", "b">>}
MCMaxPairs == 2
MCMinPairs == 0
MCMaxUrls == 2

(* A configuration with every option empty, as NewNSMClient makes for nil. *)
MCEmptyConf ==
    [f \in StringOptions |-> <<>>] @@ [TracerEnabled |-> FALSE]

(* The client's own configuration: NSConfigurationFromUrl replaces its    *)
(* name and labels; it also sets a workspace and turns the tracer on.     *)
MCConfs ==
    {MCEmptyConf,
     [MCEmptyConf EXCEPT !.OutgoingNscName = <<"b">>,
                         !.OutgoingNscLabels = <<"b", "=", "b">>,
                         !.Workspace = <<"a">>, !.TracerEnabled = TRUE]}

(* No variable set, or every one set, the outgoing name and labels naming *)
(* another service.                                                       *)
MCEnvs ==
    {[f \in StringOptions |-> <<>>] @@ [TracerEnabled |-> ""],
     [f \in StringOptions |-> <<"b">>]
        @@ [OutgoingNscLabels |-> <<"a", "=", "a">>, TracerEnabled |-> "true"]}
=============================================================================
