---------------------- MODULE CrossConnectMonitorProofs ----------------------
(***************************************************************************)
(* Proofs about CrossConnectMonitor: the lookup loop never starts a second *)
(* monitor goroutine for a URL, for every set of URLs and every number of *)
(* registrations, removals and server restarts.                            *)
(***************************************************************************)
EXTENDS CrossConnectMonitor, TLAPS

(***************************************************************************)
(* The managers map records exactly the URLs a monitor was started for:    *)
(* Scan starts one only for a URL absent from the map and adds it in the   *)
(* same iteration, and nothing removes a key.                              *)
(***************************************************************************)
UrlInv(u) ==
    /\ u \in managers => starts[u] = 1 /\ mon[u] # "none"
    /\ u \notin managers => starts[u] = 0 /\ mon[u] = "none"

IInv == TypeOK /\ \A u \in URLs : UrlInv(u)

(* The variables other than the Boolean flag closing keep their types.   *)
TypeRest ==
    /\ registry \subseteq URLs
    /\ up \in [URLs -> BOOLEAN]
    /\ changes \in 0..MaxChanges
    /\ managers \subseteq URLs
    /\ mon \in [URLs -> MonPc]
    /\ starts \in [URLs -> Nat]
    /\ signal \in {"waiting", "done"}
    /\ main \in {"loop", "exited"}

(* The initial state satisfies the inductive invariant.                   *)
LEMMA InitIInv == Init => IInv
<1> SUFFICES ASSUME Init PROVE IInv
    OBVIOUS
<1>1. closing \in BOOLEAN
    BY Zenon DEF Init
<1>2. TypeRest /\ \A u \in URLs : UrlInv(u)
    BY CrossConnectMonitorAssumption DEF Init, TypeRest, UrlInv, MonPc
<1>3. QED
    BY Zenon, <1>1, <1>2 DEF IInv, TypeOK, TypeRest

(* Every step preserves IInv.                                              *)
LEMMA NextIInv == IInv /\ [Next]_vars => IInv'
<1> SUFFICES ASSUME IInv, [Next]_vars PROVE IInv'
    OBVIOUS
<1>1. closing' \in BOOLEAN
    BY Zenon DEF IInv, TypeOK, Next, vars, Environment, OpenStream, RecvFails, Scan, Exit, Signal
<1>2. TypeRest /\ \A u \in URLs : UrlInv(u)
    BY DEF IInv, TypeOK, TypeRest
<1> USE CrossConnectMonitorAssumption, <1>2 DEF TypeRest, UrlInv, MonPc
<1>3. (TypeRest /\ \A u \in URLs : UrlInv(u))'
    <2>1. ASSUME NEW u \in URLs, Environment(u) PROVE (TypeRest /\ \A v \in URLs : UrlInv(v))'
        <3>1. up' \in [URLs -> BOOLEAN]
            BY <2>1, Zenon DEF Environment
        <3>2. registry' \subseteq URLs
            BY <2>1 DEF Environment
        <3>3. QED
            BY <2>1, <3>1, <3>2 DEF Environment
    <2>2. ASSUME NEW u \in URLs, OpenStream(u) PROVE (TypeRest /\ \A v \in URLs : UrlInv(v))'
        BY <2>2 DEF OpenStream
    <2>3. ASSUME NEW u \in URLs, RecvFails(u) PROVE (TypeRest /\ \A v \in URLs : UrlInv(v))'
        BY <2>3 DEF RecvFails
    <2>4. CASE Scan
        BY <2>4 DEF Scan
    <2>5. CASE Exit
        BY <2>5 DEF Exit
    <2>6. CASE Signal
        BY <2>6 DEF Signal
    <2>7. CASE UNCHANGED vars
        BY <2>7 DEF vars
    <2>8. QED
        BY <2>1, <2>2, <2>3, <2>4, <2>5, <2>6, <2>7 DEF Next
<1>4. QED
    BY Zenon, <1>1, <1>3 DEF IInv, TypeOK, TypeRest

(***************************************************************************)
(* MonitorStartedOnceHolds: however often an NSM is listed, removed,      *)
(* re-registered or restarted, lookForNSMServers starts at most one       *)
(* monitorCrossConnects goroutine for its URL (MonitorStartedOnce).       *)
(***************************************************************************)
THEOREM MonitorStartedOnceHolds == Spec => []MonitorStartedOnce
<1>1. Init => IInv
    BY InitIInv
<1>2. IInv /\ [Next]_vars => IInv'
    BY NextIInv
<1>3. IInv => MonitorStartedOnce
    <2> SUFFICES ASSUME IInv, NEW u \in URLs PROVE starts[u] <= 1
        BY DEF MonitorStartedOnce
    <2> QED
        BY DEF IInv, UrlInv
<1>4. QED
    BY <1>1, <1>2, <1>3, PTL DEF Spec
=============================================================================
