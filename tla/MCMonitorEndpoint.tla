--------------------------- MODULE MCMonitorEndpoint ---------------------------
(* Three connections of one endpoint, so that the handlers of one can        *)
(* interleave with those of the other.                                      *)
EXTENDS MonitorEndpoint, TLC

CONSTANTS c1, c2, c3

MCConns == {c1, c2, c3}

(* The connections are interchangeable. *)
MCSymmetry == Permutations(MCConns)
=============================================================================
