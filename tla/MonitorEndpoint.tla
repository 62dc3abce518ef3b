---------------------------- MODULE MonitorEndpoint ----------------------------
(***************************************************************************)
(* The SDK's MonitorEndpoint (sdk/endpoint/monitor.go) in an endpoint's    *)
(* chain, called by its NSM.                                                *)
(*                                                                         *)
(* Request calls next.Request and, when it succeeds, Updates the local    *)
(* connection monitor; Close Deletes the connection from the monitor and  *)
(* then calls next.Close.  Each call runs on its own gRPC handler          *)
(* goroutine.  The NSM handles one connection at a time (spec 5), but when *)
(* its deadline for a Request expires it unwinds by closing the endpoint  *)
(* invocation while the endpoint's Request handler, which never looks at  *)
(* its context, still runs.                                                *)
(*                                                                         *)
(* The next endpoint is abstracted to the set of connections it holds; the *)
(* monitor to the set of connections it reports.                          *)
(***************************************************************************)
EXTENDS Naturals

CONSTANTS
    Conns,      \* connection ids
    HasNext,    \* the chain has an endpoint after the monitor
    Cancel      \* TRUE: the NSM's Request deadline may expire

ASSUME MonitorEndpointAssumption ==
    /\ Conns # {}
    /\ HasNext \in BOOLEAN
    /\ Cancel \in BOOLEAN

VARIABLES
    inner,      \* the connections the next endpoint holds
    monitor,    \* the connections the LocalConnectionMonitor reports
    req,        \* req[c]: the Request handler: "idle", "next", "update"
    cls,        \* cls[c]: the Close handler: "idle", "delete", "next"
    nsm         \* nsm[c]: the NSM's view of c

vars == <<inner, monitor, req, cls, nsm>>

NsmStates == {"none", "requesting", "open", "failed", "closing", "closed"}

TypeOK ==
    /\ inner \subseteq Conns
    /\ monitor \subseteq Conns
    /\ req \in [Conns -> {"idle", "next", "update"}]
    /\ cls \in [Conns -> {"idle", "delete", "next"}]
    /\ nsm \in [Conns -> NsmStates]

Init ==
    /\ inner = {}
    /\ monitor = {}
    /\ req = [c \in Conns |-> "idle"]
    /\ cls = [c \in Conns |-> "idle"]
    /\ nsm = [c \in Conns |-> "none"]

(* The Request handler returns: an NSM still waiting takes the answer.     *)
Reply(c, ok) ==
    nsm' = IF nsm[c] = "requesting"
           THEN [nsm EXCEPT ![c] = IF ok THEN "open" ELSE "failed"]
           ELSE nsm

-----------------------------------------------------------------------------
(* The NSM invokes the endpoint's Request for c.                           *)
NsmRequest(c) ==
    /\ nsm[c] = "none"
    /\ nsm' = [nsm EXCEPT ![c] = "requesting"]
    /\ req' = [req EXCEPT ![c] = "next"]
    /\ UNCHANGED <<inner, monitor, cls>>

(* Mutant: the monitor is Updated before next.Request is called, and not *)
(* undone when next.Request fails.                                          *)
RequestNextUpdateFirst(c) ==
    /\ req[c] = "next"
    /\ monitor' = monitor \cup {c}
    /\ \/ /\ HasNext
          /\ inner' = inner \cup {c}
          /\ req' = [req EXCEPT ![c] = "update"]
          /\ UNCHANGED nsm
       \/ /\ req' = [req EXCEPT ![c] = "idle"]
          /\ Reply(c, FALSE)
          /\ UNCHANGED inner
    /\ UNCHANGED cls

(***************************************************************************)
(* Request up to the monitor update: without a next endpoint it fails     *)
(* ("Monitor needs next"); otherwise next.Request either fails (return    *)
(* nil, err) or establishes the connection.                               *)
(***************************************************************************)
RequestNext(c) ==
    /\ req[c] = "next"
    /\ \/ /\ HasNext
          /\ inner' = inner \cup {c}
          /\ req' = [req EXCEPT ![c] = "update"]
          /\ UNCHANGED nsm
       \/ /\ req' = [req EXCEPT ![c] = "idle"]
          /\ Reply(c, FALSE)
          /\ UNCHANGED inner
    /\ UNCHANGED <<monitor, cls>>

(* monitorConnectionServer.Update(incomingConnection); return it.          *)
RequestUpdate(c) ==
    /\ req[c] = "update"
    /\ monitor' = monitor \cup {c}
    /\ req' = [req EXCEPT ![c] = "idle"]
    /\ Reply(c, TRUE)
    /\ UNCHANGED <<inner, cls>>

(* The NSM's deadline for the Request expires: it unwinds by closing the   *)
(* endpoint invocation; the handler is not interrupted.                    *)
NsmTimeout(c) ==
    /\ Cancel
    /\ nsm[c] = "requesting"
    /\ nsm' = [nsm EXCEPT ![c] = "closing"]
    /\ cls' = [cls EXCEPT ![c] = "delete"]
    /\ UNCHANGED <<inner, monitor, req>>

(* The NSM closes an open connection.                                      *)
NsmClose(c) ==
    /\ nsm[c] = "open"
    /\ nsm' = [nsm EXCEPT ![c] = "closing"]
    /\ cls' = [cls EXCEPT ![c] = "delete"]
    /\ UNCHANGED <<inner, monitor, req>>

(* Close: monitorConnectionServer.Delete(connection); without a next       *)
(* endpoint, return.                                                        *)
CloseDelete(c) ==
    /\ cls[c] = "delete"
    /\ monitor' = monitor \ {c}
    /\ IF HasNext
       THEN cls' = [cls EXCEPT ![c] = "next"] /\ UNCHANGED nsm
       ELSE cls' = [cls EXCEPT ![c] = "idle"] /\ nsm' = [nsm EXCEPT ![c] = "closed"]
    /\ UNCHANGED <<inner, req>>

(* return next.Close(ctx, connection): it may fail and keep the connection. *)
CloseNext(c) ==
    /\ cls[c] = "next"
    /\ \/ inner' = inner \ {c}
       \/ UNCHANGED inner
    /\ cls' = [cls EXCEPT ![c] = "idle"]
    /\ nsm' = [nsm EXCEPT ![c] = "closed"]
    /\ UNCHANGED <<monitor, req>>

Next == \E c \in Conns :
    \/ NsmRequest(c) \/ RequestNext(c) \/ RequestUpdate(c)
    \/ NsmTimeout(c) \/ NsmClose(c) \/ CloseDelete(c) \/ CloseNext(c)

(* The handler goroutines are weakly fair; the NSM's own calls are not.    *)
Spec == Init /\ [][Next]_vars
        /\ \A c \in Conns : WF_vars(RequestNext(c)) /\ WF_vars(RequestUpdate(c))
                           /\ WF_vars(CloseDelete(c)) /\ WF_vars(CloseNext(c))

-----------------------------------------------------------------------------
(***************************************************************************)
(* MonitorShowsOnlyLive: the monitor never reports a connection that the  *)
(* endpoint does not hold: no ghost survives a failed next.Request, a     *)
(* close, or a Request whose NSM gave up.                                  *)
(***************************************************************************)
MonitorShowsOnlyLive == monitor \subseteq inner

(***************************************************************************)
(* GhostOnlyClosed: a connection the monitor reports and the next         *)
(* endpoint does not hold is one its NSM has finished closing.  A ghost   *)
(* needs the NSM's Request deadline to expire while next.Request runs,    *)
(* its Close to Delete and call next.Close, and the late Update to come   *)
(* after; the NSM never sees a ghost of a connection it still uses.       *)
(***************************************************************************)
GhostOnlyClosed == \A c \in monitor \ inner : nsm[c] = "closed"
=============================================================================
