----------------------- MODULE MCCrossConnectMonitor -----------------------
(* Two NSMs and three changes of the environment: enough for an NSM to be  *)
(* listed, its server to go down and come back, and to be removed.         *)
EXTENDS CrossConnectMonitor

CONSTANTS u1, u2

MCURLs == {u1, u2}
MCMaxChanges == 3
=============================================================================
