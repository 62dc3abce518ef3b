------------------------- MODULE ConnectionLifecycle -------------------------
(***************************************************************************)
(* What the connection manager promises about each ClientConnection        *)
(* (spec.md 4.4, 4.6 and 8), whatever its endpoints, dataplanes, peers and *)
(* allocators do: a connection is requested once; a request either         *)
(* installs it (READY) or fails; a READY connection may heal, and a heal   *)
(* either makes it READY again or ends in the final close; a READY or      *)
(* HEALING connection is closed with exactly one ClientConnectionDeleted   *)
(* event, and nothing leaves CLOSED or a failed request.                   *)
(***************************************************************************)
EXTENDS Naturals

CONSTANT Conns      \* source connection ids

VARIABLES
    life,       \* life[c]: the ClientConnection's lifecycle state
    events      \* events[c]: ClientConnectionDeleted events emitted for c

lcvars == <<life, events>>

Init ==
    /\ life = [c \in Conns |-> "none"]
    /\ events = [c \in Conns |-> 0]

(* Set c's lifecycle state to s; no event.                                 *)
Move(c, from, s) ==
    /\ life[c] \in from
    /\ life' = [life EXCEPT ![c] = s]
    /\ UNCHANGED events

(* The client's Request creates the ClientConnection.                      *)
Request(c) == Move(c, {"none"}, "requesting")

(* Steps 1-5 succeed: the cross-connect is installed.                      *)
Established(c) == Move(c, {"requesting"}, "ready")

(* NoEndpoint, NoDataplane, EndpointRefused, PeerUnreachable or           *)
(* DataplaneProgramFailed surfaces to the caller.                         *)
Failed(c) == Move(c, {"requesting"}, "failed")

(* A heal trigger: READY -> HEALING_WAIT_DST.                              *)
HealStart(c) == Move(c, {"ready"}, "healing")

(* RENEGOTIATE succeeds: HEALING -> READY, same source id.                 *)
Healed(c) == Move(c, {"healing"}, "ready")

(* Close by the client, or a heal's FINAL_CLOSE: one deletion event.      *)
Close(c) ==
    /\ life[c] \in {"ready", "healing"}
    /\ life' = [life EXCEPT ![c] = "closed"]
    /\ events' = [events EXCEPT ![c] = @ + 1]

Next == \E c \in Conns :
    \/ Request(c) \/ Established(c) \/ Failed(c)
    \/ HealStart(c) \/ Healed(c) \/ Close(c)

Spec == Init /\ [][Next]_lcvars
=============================================================================
