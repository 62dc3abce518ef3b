------------------------- MODULE MCConnectionManager -------------------------
(* Two clients, one local endpoint and two on the Worker, two VNIs.        *)
EXTENDS ConnectionManager

CONSTANTS c1, c2, eL, eR1, eR2

MCConns == {c1, c2}
MCEps == {eL, eR1, eR2}
MCLocalEps == {eL}
MCVNIs == {1, 2}
MCMaxDst == 4
MCMaxEnv == 3
=============================================================================
