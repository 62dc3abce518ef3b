-------------------------- MODULE MCResourceCache --------------------------
(* Model-checking instance of ResourceCache: two NSM names, one Get caller, *)
(* three writes to the API server (enough to create, update and delete one *)
(* record, or create one and delete another) and a channel of two slots,   *)
(* small enough for the informer and the caller to block on a full one.    *)
EXTENDS ResourceCache

CONSTANTS k1, k2, c1

MCKeys == {k1, k2}
MCClients == {c1}
MCMaxWrites == 3
MCMaxGets == 2
MCChanCap == 2
=============================================================================
