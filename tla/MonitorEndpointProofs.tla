------------------------- MODULE MonitorEndpointProofs -------------------------
(***************************************************************************)
(* Proofs about MonitorEndpoint: without a Request deadline the monitor    *)
(* never reports a connection the next endpoint does not hold.  Together  *)
(* with the monitor_ghost run, which violates the same invariant once the *)
(* deadline may expire, this pins the ghost connection on the deadline.   *)
(* With or without the deadline, every ghost is a connection whose NSM    *)
(* has finished closing it.                                               *)
(***************************************************************************)
EXTENDS MonitorEndpoint, TLAPS

(***************************************************************************)
(* What each connection's two handlers and its NSM agree on when the NSM   *)
(* only closes connections it has seen open: a running Request handler    *)
(* means the NSM still waits for it, a running Close handler means the NSM *)
(* is closing; a Request about to Update holds a connection next still   *)
(* has; a Close about to call next.Close has already Deleted it.          *)
(***************************************************************************)
ConnInv(c) ==
    /\ req[c] # "idle" => nsm[c] = "requesting"
    /\ cls[c] # "idle" => nsm[c] = "closing"
    /\ req[c] = "update" => c \in inner
    /\ cls[c] = "next" => c \notin monitor

IInv ==
    /\ TypeOK
    /\ MonitorShowsOnlyLive
    /\ \A c \in Conns : ConnInv(c)

-----------------------------------------------------------------------------
(* The initial state satisfies the inductive invariant.                   *)
LEMMA InitIInv == Init => IInv
BY DEF Init, IInv, TypeOK, NsmStates, MonitorShowsOnlyLive, ConnInv

(***************************************************************************)
(* Every step preserves IInv when the NSM's deadline never expires: each  *)
(* action touches the handlers of one connection, and the others keep     *)
(* their ConnInv because inner and monitor change only at that one.      *)
(***************************************************************************)
LEMMA NextIInv ==
    ASSUME ~Cancel
    PROVE  IInv /\ [Next]_vars => IInv'
<1> SUFFICES ASSUME IInv, [Next]_vars PROVE IInv'
    OBVIOUS
<1> USE DEF IInv, TypeOK, NsmStates, MonitorShowsOnlyLive, ConnInv
<1>1. ASSUME NEW c \in Conns, NsmRequest(c) PROVE IInv'
    BY <1>1 DEF NsmRequest
<1>2. ASSUME NEW c \in Conns, RequestNext(c) PROVE IInv'
    BY <1>2 DEF RequestNext, Reply
<1>3. ASSUME NEW c \in Conns, RequestUpdate(c) PROVE IInv'
    BY <1>3 DEF RequestUpdate, Reply
<1>4. ASSUME NEW c \in Conns, NsmTimeout(c) PROVE IInv'
    BY <1>4 DEF NsmTimeout
<1>5. ASSUME NEW c \in Conns, NsmClose(c) PROVE IInv'
    BY <1>5 DEF NsmClose
<1>6. ASSUME NEW c \in Conns, CloseDelete(c) PROVE IInv'
    BY <1>6 DEF CloseDelete
<1>7. ASSUME NEW c \in Conns, CloseNext(c) PROVE IInv'
    BY <1>7 DEF CloseNext
<1>8. CASE UNCHANGED vars
    BY <1>8 DEF vars
<1>9. QED
    BY <1>1, <1>2, <1>3, <1>4, <1>5, <1>6, <1>7, <1>8 DEF Next

-----------------------------------------------------------------------------
(***************************************************************************)
(* NoGhostWithoutDeadline: if the NSM never gives up on a Request, the     *)
(* monitor only ever reports connections the next endpoint holds          *)
(* (MonitorShowsOnlyLive): Request's Update after next.Request and        *)
(* Close's Delete before next.Close are then ordered by the NSM.          *)
(***************************************************************************)
THEOREM NoGhostWithoutDeadline ==
    ASSUME ~Cancel
    PROVE  Spec => []MonitorShowsOnlyLive
<1>1. Init => IInv
    BY InitIInv
<1>2. IInv /\ [Next]_vars => IInv'
    BY NextIInv
<1>3. IInv => MonitorShowsOnlyLive
    BY DEF IInv
<1>4. QED
    BY <1>1, <1>2, <1>3, PTL DEF Spec
-----------------------------------------------------------------------------
(***************************************************************************)
(* What holds with the Request deadline: a Request handler about to Update *)
(* the monitor holds a connection next still has, unless the NSM has      *)
(* already finished closing it (next.Close ran while next.Request was     *)
(* still returning).                                                      *)
(***************************************************************************)
GInv ==
    /\ TypeOK
    /\ GhostOnlyClosed
    /\ \A c \in Conns : req[c] = "update" => c \in inner \/ nsm[c] = "closed"

(* The initial state satisfies GInv.                                       *)
LEMMA InitGInv == Init => GInv
BY DEF Init, GInv, TypeOK, NsmStates, GhostOnlyClosed

(***************************************************************************)
(* Every step preserves GInv, with or without a next endpoint and a       *)
(* deadline: a connection joins the monitor only by the Update of a       *)
(* handler whose connection next holds or whose NSM has closed it, it     *)
(* leaves inner only by next.Close, which marks the NSM closed, and no    *)
(* step takes the NSM out of "closed".                                    *)
(***************************************************************************)
LEMMA NextGInv == GInv /\ [Next]_vars => GInv'
<1> SUFFICES ASSUME GInv, [Next]_vars PROVE GInv'
    OBVIOUS
<1> USE DEF GInv, TypeOK, NsmStates, GhostOnlyClosed
<1>1. ASSUME NEW c \in Conns, NsmRequest(c) PROVE GInv'
    BY <1>1 DEF NsmRequest
<1>2. ASSUME NEW c \in Conns, RequestNext(c) PROVE GInv'
    BY <1>2 DEF RequestNext, Reply
<1>3. ASSUME NEW c \in Conns, RequestUpdate(c) PROVE GInv'
    BY <1>3 DEF RequestUpdate, Reply
<1>4. ASSUME NEW c \in Conns, NsmTimeout(c) PROVE GInv'
    BY <1>4 DEF NsmTimeout
<1>5. ASSUME NEW c \in Conns, NsmClose(c) PROVE GInv'
    BY <1>5 DEF NsmClose
<1>6. ASSUME NEW c \in Conns, CloseDelete(c) PROVE GInv'
    BY <1>6 DEF CloseDelete
<1>7. ASSUME NEW c \in Conns, CloseNext(c) PROVE GInv'
    BY <1>7 DEF CloseNext
<1>8. CASE UNCHANGED vars
    BY <1>8 DEF vars
<1>9. QED
    BY <1>1, <1>2, <1>3, <1>4, <1>5, <1>6, <1>7, <1>8 DEF Next

(***************************************************************************)
(* GhostOnlyClosedHolds: for every set of connections, with or without a  *)
(* next endpoint and whether or not the NSM's Request deadline may        *)
(* expire, every connection the monitor reports and next does not hold    *)
(* is one its NSM has finished closing (GhostOnlyClosed).  The ghost that *)
(* the monitor_ghost run shows is thus never seen by the NSM as a live   *)
(* connection.                                                            *)
(***************************************************************************)
THEOREM GhostOnlyClosedHolds == Spec => []GhostOnlyClosed
<1>1. Init => GInv
    BY InitGInv
<1>2. GInv /\ [Next]_vars => GInv'
    BY NextGInv
<1>3. GInv => GhostOnlyClosed
    BY DEF GInv
<1>4. QED
    BY <1>1, <1>2, <1>3, PTL DEF Spec

=============================================================================
