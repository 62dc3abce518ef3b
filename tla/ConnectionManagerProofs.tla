------------------------ MODULE ConnectionManagerProofs ------------------------
(***************************************************************************)
(* Proofs about ConnectionManager, for every set of connections, endpoints *)
(* and VNIs and every bound: the VNI allocator never gives one VNI to two  *)
(* connections; a READY connection is installed on both NSMs; no remote   *)
(* half outlives the Master connection it belongs to; and the manager     *)
(* implements the connection lifecycle of spec 4.4 and 4.6.               *)
(***************************************************************************)
EXTENDS ConnectionManager, TLAPS

(***************************************************************************)
(* The part of TypeOK the two invariants rest on: the per-connection       *)
(* variables are functions on Conns, and the allocator's values are VNIs.  *)
(***************************************************************************)
PTypeOK ==
    /\ state \in [Conns -> States]
    /\ pc \in [Conns -> Pcs]
    /\ vni \in [Conns -> VNIs \cup {0}]
    /\ vniUsed \subseteq VNIs
    /\ deleted \in [Conns -> Nat]

(* A VNI a connection holds is one the allocator has handed out.           *)
VniAllocated == \A c \in Conns : vni[c] # 0 => vni[c] \in vniUsed

(***************************************************************************)
(* Once c's ClientConnectionDeleted event is out, c is CLOSED and no task  *)
(* runs for it, so neither Close (which needs READY) nor a heal's final    *)
(* close (which needs a task in HEALING_WAIT_DST) can emit another.        *)
(***************************************************************************)
DeletedInv(c) ==
    /\ deleted[c] \in {0, 1}
    /\ deleted[c] = 1 => state[c] = "closed" /\ pc[c] = "idle"
    /\ pc[c] = "heal_wait_dst" => state[c] = "healing"

IInv ==
    /\ PTypeOK
    /\ VniAllocated
    /\ VniUnique
    /\ \A c \in Conns : DeletedInv(c)

-----------------------------------------------------------------------------
(* The initial state satisfies the inductive invariant.                   *)
LEMMA InitIInv == Init => IInv
BY DEF Init, IInv, PTypeOK, States, Pcs, VniAllocated, VniUnique, DeletedInv

(***************************************************************************)
(* Every step preserves IInv.  The allocator's invariants are disturbed   *)
(* only where a VNI is drawn (InvokeRemote, HealRenegotiate) or released  *)
(* (Unwind, CloseConnection, a heal to a local endpoint); DeletedInv only *)
(* where a task moves or a connection changes state.                      *)
(***************************************************************************)
LEMMA NextIInv == IInv /\ [Next]_vars => IInv'
<1> SUFFICES ASSUME IInv, [Next]_vars PROVE IInv'
    OBVIOUS
<1> USE DEF IInv, PTypeOK, States, Pcs, VniAllocated, VniUnique, DeletedInv, Goto
<1>1. ASSUME NEW c \in Conns, Request(c) PROVE IInv'
    BY <1>1 DEF Request
<1>2. ASSUME NEW c \in Conns, SelectEndpoint(c) PROVE IInv'
    BY <1>2 DEF SelectEndpoint
<1>3. ASSUME NEW c \in Conns, WaitDataplane(c) PROVE IInv'
    BY <1>3 DEF WaitDataplane
<1>4. ASSUME NEW c \in Conns, DataplaneTimeout(c) PROVE IInv'
    BY <1>4 DEF DataplaneTimeout, Unwind
<1>5. ASSUME NEW c \in Conns, InvokeLocal(c) PROVE IInv'
    BY <1>5 DEF InvokeLocal, Unwind
<1>6. ASSUME NEW c \in Conns, InvokeRemote(c) PROVE IInv'
    BY <1>6 DEF InvokeRemote, Unwind
<1>7. ASSUME NEW c \in Conns, Install(c) PROVE IInv'
    BY <1>7 DEF Install, Unwind
<1>8. ASSUME NEW c \in Conns, Close(c) PROVE IInv'
    BY <1>8 DEF Close, CloseConnection
<1>9. ASSUME NEW c \in Conns, HealDstDown(c) PROVE IInv'
    BY <1>9 DEF HealDstDown
<1>10. ASSUME NEW c \in Conns, HealRenegotiate(c) PROVE IInv'
    BY <1>10 DEF HealRenegotiate
<1>11. ASSUME NEW c \in Conns, HealTimeout(c) PROVE IInv'
    BY <1>11 DEF HealTimeout, CloseConnection
<1>12. ASSUME NEW e \in Eps, RemoveNSE(e) \/ RegisterNSE(e) PROVE IInv'
    BY <1>12 DEF RemoveNSE, RegisterNSE
<1>13. ASSUME NEW n \in Nsms, MechanismsConfigured(n) PROVE IInv'
    BY <1>13 DEF MechanismsConfigured
<1>14. CASE UNCHANGED vars
    BY <1>14 DEF vars
<1>15. QED
    BY <1>1, <1>2, <1>3, <1>4, <1>5, <1>6, <1>7, <1>8, <1>9, <1>10, <1>11,
       <1>12, <1>13, <1>14 DEF Next, RequestTask, HealTask, Environment

(* The inductive invariant holds in every reachable state.                 *)
LEMMA AlwaysIInv == Spec => []IInv
BY InitIInv, NextIInv, PTL DEF Spec

-----------------------------------------------------------------------------
(***************************************************************************)
(* VniUniqueHolds: no two connections ever hold the same VNI (spec 8),    *)
(* whatever the interleaving of requests, heals, unwinding and closes:    *)
(* InvokeRemote and a heal draw only from the values not in use, a heal   *)
(* keeps its own, and a VNI is released only by the connection holding it.*)
(***************************************************************************)
THEOREM VniUniqueHolds == Spec => []VniUnique
<1>1. IInv => VniUnique
    BY DEF IInv
<1>2. QED
    BY <1>1, AlwaysIInv, PTL

-----------------------------------------------------------------------------
(***************************************************************************)
(* The halves.  The type of the variables that describe them.             *)
(***************************************************************************)
HTypeOK ==
    /\ PTypeOK
    /\ regEps \subseteq Eps
    /\ ep \in [Conns -> Eps \cup {NoEp}]
    /\ dst \in [Conns -> 0..MaxDst]
    /\ nextDst \in 1..MaxDst + 1
    /\ worker \in [DstIds -> {"none", "ready", "closed"}]
    /\ xconM \subseteq Conns
    /\ xconW \subseteq DstIds

Live == {"requesting", "ready", "healing"}

(***************************************************************************)
(* What c's task and the halves agree on.  A remote half c points to is   *)
(* READY and programmed on the Worker, c is live, and the half's id was   *)
(* handed out already; before InvokeRemote c has no half; a READY (or     *)
(* installing) connection to a remote endpoint has one; a READY or        *)
(* HEALING connection is programmed on the Master; a READY connection has *)
(* no task running, and a request task belongs to a REQUESTING one.       *)
(***************************************************************************)
HalfInv(c) ==
    /\ dst[c] # 0 =>
          /\ dst[c] \in xconW /\ worker[dst[c]] = "ready"
          /\ state[c] \in Live /\ dst[c] < nextDst
    /\ pc[c] \in {"select", "wait_dp", "invoke"} => dst[c] = 0
    /\ (state[c] = "ready" \/ pc[c] = "install") /\ Remote(ep[c]) => dst[c] # 0
    /\ state[c] \in {"ready", "healing"} => c \in xconM
    /\ state[c] = "ready" => pc[c] = "idle"
    /\ pc[c] \in {"select", "wait_dp", "invoke", "install"} => state[c] = "requesting"
    /\ pc[c] = "heal_wait_dst" => state[c] = "healing"

(* Every half the Worker holds, READY or programmed, is some connection's. *)
HalvesOwned == \A d \in DstIds :
    (worker[d] = "ready" \/ d \in xconW) => \E c \in Conns : dst[c] = d

(* No two connections point to the same half.                              *)
DstUnique == \A c1, c2 \in Conns : c1 # c2 /\ dst[c1] # 0 => dst[c1] # dst[c2]

HInv ==
    /\ HTypeOK
    /\ \A c \in Conns : HalfInv(c)
    /\ HalvesOwned
    /\ DstUnique

(* The initial state satisfies HInv.                                       *)
LEMMA InitHInv == Init => HInv
BY ConnectionManagerAssumption
   DEF Init, HInv, HTypeOK, PTypeOK, States, Pcs, DstIds, HalfInv, HalvesOwned, DstUnique

(***************************************************************************)
(* Unwinding c's request task preserves HInv: c fails and drops its half, *)
(* which no other connection points to.                                   *)
(***************************************************************************)
LEMMA UnwindHInv ==
    ASSUME HInv, NEW c \in Conns, pc[c] \in {"wait_dp", "invoke", "install"},
           Unwind(c), UNCHANGED <<regEps, ep, nextDst, xconM, deleted>>
    PROVE  HInv'
<1> USE ConnectionManagerAssumption DEF HInv, HTypeOK, PTypeOK, States, Pcs, DstIds, Live
<1>1. HTypeOK'
    <2>1. worker' \in [DstIds -> {"none", "ready", "closed"}]
        BY DEF Unwind
    <2>2. state' \in [Conns -> States] /\ pc' \in [Conns -> Pcs]
        BY DEF Unwind, Goto
    <2>3. vni' \in [Conns -> VNIs \cup {0}] /\ vniUsed' \subseteq VNIs
        BY DEF Unwind
    <2>4. dst' \in [Conns -> 0..MaxDst]
        BY DEF Unwind
    <2>7. xconW' \subseteq DstIds /\ xconM' \subseteq Conns
        <3>1. xconW' \subseteq DstIds
            BY Zenon DEF Unwind
        <3>2. xconM' \subseteq Conns
            BY DEF Unwind
        <3>3. QED
            BY <3>1, <3>2
    <2>5. deleted' \in [Conns -> Nat]
        BY DEF Unwind
    <2>6. QED
        BY <2>1, <2>2, <2>3, <2>4, <2>5, <2>7
<1>2. ASSUME NEW x \in Conns PROVE HalfInv(x)'
    <2>1. CASE x = c
        BY <2>1 DEF Unwind, Goto, HalfInv
    <2>2. CASE x # c
        <3>1. dst[x] # 0 => dst[x] # dst[c]
            BY <2>2 DEF DstUnique
        <3>2. QED
            BY <2>2, <3>1 DEF Unwind, Goto, HalfInv
    <2>3. QED
        BY <2>1, <2>2
<1>3. HalvesOwned'
    <2> SUFFICES ASSUME NEW d \in DstIds, worker'[d] = "ready" \/ d \in xconW'
                 PROVE  \E x \in Conns : dst'[x] = d
        BY DEF HalvesOwned
    <2>1. d # dst[c] /\ (worker[d] = "ready" \/ d \in xconW)
        BY DEF Unwind
    <2>2. PICK x \in Conns : dst[x] = d
        BY <2>1 DEF HalvesOwned
    <2>3. x # c
        BY <2>1, <2>2
    <2>4. QED
        BY <2>2, <2>3 DEF Unwind
<1>4. DstUnique'
    BY DEF Unwind, DstUnique
<1>5. QED
    BY <1>1, <1>2, <1>3, <1>4

(***************************************************************************)
(* CloseConnection of a READY or HEALING c preserves HInv, for the same   *)
(* reason; c's Master cross-connect goes with it.                         *)
(***************************************************************************)
LEMMA CloseHInv ==
    ASSUME HInv, NEW c \in Conns, pc[c] \in {"idle", "heal_wait_dst"},
           CloseConnection(c), UNCHANGED <<regEps, ep, nextDst>>
    PROVE  HInv'
<1> USE ConnectionManagerAssumption DEF HInv, HTypeOK, PTypeOK, States, Pcs, DstIds, Live
<1>1. HTypeOK'
    <2>1. worker' \in [DstIds -> {"none", "ready", "closed"}]
        BY DEF CloseConnection
    <2>2. state' \in [Conns -> States] /\ pc' \in [Conns -> Pcs]
        BY DEF CloseConnection, Goto
    <2>3. vni' \in [Conns -> VNIs \cup {0}] /\ vniUsed' \subseteq VNIs
        BY DEF CloseConnection
    <2>4. dst' \in [Conns -> 0..MaxDst]
        BY DEF CloseConnection
    <2>7. xconW' \subseteq DstIds /\ xconM' \subseteq Conns
        <3>1. xconW' \subseteq DstIds
            BY Zenon DEF CloseConnection
        <3>2. xconM' \subseteq Conns
            BY DEF CloseConnection
        <3>3. QED
            BY <3>1, <3>2
    <2>5. deleted' \in [Conns -> Nat]
        BY DEF CloseConnection
    <2>6. QED
        BY <2>1, <2>2, <2>3, <2>4, <2>5, <2>7
<1>2. ASSUME NEW x \in Conns PROVE HalfInv(x)'
    <2>1. CASE x = c
        BY <2>1 DEF CloseConnection, Goto, HalfInv
    <2>2. CASE x # c
        <3>1. dst[x] # 0 => dst[x] # dst[c]
            BY <2>2 DEF DstUnique
        <3>2. QED
            BY <2>2, <3>1 DEF CloseConnection, Goto, HalfInv
    <2>3. QED
        BY <2>1, <2>2
<1>3. HalvesOwned'
    <2> SUFFICES ASSUME NEW d \in DstIds, worker'[d] = "ready" \/ d \in xconW'
                 PROVE  \E x \in Conns : dst'[x] = d
        BY DEF HalvesOwned
    <2>1. d # dst[c] /\ (worker[d] = "ready" \/ d \in xconW)
        BY DEF CloseConnection
    <2>2. PICK x \in Conns : dst[x] = d
        BY <2>1 DEF HalvesOwned
    <2>3. x # c
        BY <2>1, <2>2
    <2>4. QED
        BY <2>2, <2>3 DEF CloseConnection
<1>4. DstUnique'
    BY DEF CloseConnection, DstUnique
<1>5. QED
    BY <1>1, <1>2, <1>3, <1>4

(***************************************************************************)
(* InvokeRemote's success preserves HInv: the new half gets the id         *)
(* nextDst, which no connection points to yet (every id in use is below   *)
(* it), and c had no half before.                                          *)
(***************************************************************************)
LEMMA InvokeRemoteOkHInv ==
    ASSUME HInv, NEW c \in Conns, pc[c] = "invoke", nextDst <= MaxDst,
           NEW v \in VNIs, vniUsed' = vniUsed \cup {v}, vni' = [vni EXCEPT ![c] = v],
           worker' = [worker EXCEPT ![nextDst] = "ready"],
           xconW' = xconW \cup {nextDst},
           dst' = [dst EXCEPT ![c] = nextDst],
           nextDst' = nextDst + 1,
           pc' = [pc EXCEPT ![c] = "install"],
           UNCHANGED <<state, regEps, ep, xconM, deleted>>
    PROVE  HInv'
<1> USE ConnectionManagerAssumption DEF HInv, HTypeOK, PTypeOK, States, Pcs, DstIds, Live
<1>1. HTypeOK'
    <2>1. worker' \in [DstIds -> {"none", "ready", "closed"}]
        BY DEF HInv
    <2>2. state' \in [Conns -> States] /\ pc' \in [Conns -> Pcs]
        BY DEF HInv
    <2>3. vni' \in [Conns -> VNIs \cup {0}] /\ vniUsed' \subseteq VNIs
        BY DEF HInv
    <2>4. dst' \in [Conns -> 0..MaxDst] /\ nextDst' \in 1..MaxDst + 1
        BY DEF HInv
    <2>5. xconW' \subseteq DstIds
        <3>1. nextDst \in DstIds
            OBVIOUS
        <3>2. QED
            BY <3>1, Zenon
    <2>6. xconM' \subseteq Conns /\ deleted' \in [Conns -> Nat]
              /\ regEps' \subseteq Eps /\ ep' \in [Conns -> Eps \cup {NoEp}]
        BY DEF HInv
    <2>7. QED
        BY <2>1, <2>2, <2>3, <2>4, <2>5, <2>6
<1>2. ASSUME NEW x \in Conns PROVE HalfInv(x)'
    <2>1. CASE x = c
        BY <2>1 DEF HalfInv
    <2>2. CASE x # c
        <3>1. dst[x] # 0 => dst[x] < nextDst
            BY DEF HalfInv
        <3>2. QED
            BY <2>2, <3>1 DEF HalfInv
    <2>3. QED
        BY <2>1, <2>2
<1>3. HalvesOwned'
    <2> SUFFICES ASSUME NEW d \in DstIds, worker'[d] = "ready" \/ d \in xconW'
                 PROVE  \E x \in Conns : dst'[x] = d
        BY DEF HalvesOwned
    <2>1. CASE d = nextDst
        BY <2>1
    <2>2. CASE d # nextDst
        <3>1. worker[d] = "ready" \/ d \in xconW
            BY <2>2
        <3>2. PICK x \in Conns : dst[x] = d
            BY <3>1 DEF HalvesOwned
        <3>3. dst[c] = 0
            BY DEF HalfInv
        <3>4. x # c
            BY <3>2, <3>3
        <3>5. QED
            BY <3>2, <3>4
    <2>3. QED
        BY <2>1, <2>2
<1>4. DstUnique'
    <2>1. \A x \in Conns : dst[x] # 0 => dst[x] < nextDst
        BY DEF HalfInv
    <2>2. QED
        BY <2>1 DEF DstUnique
<1>5. QED
    BY <1>1, <1>2, <1>3, <1>4

(***************************************************************************)
(* Install's success preserves HInv: c becomes READY with its Master       *)
(* cross-connect, and its remote half (if any) is already in place.       *)
(***************************************************************************)
LEMMA InstallOkHInv ==
    ASSUME HInv, NEW c \in Conns, pc[c] = "install",
           xconM' = xconM \cup {c},
           state' = [state EXCEPT ![c] = "ready"],
           pc' = [pc EXCEPT ![c] = "idle"],
           UNCHANGED <<dst, vni, vniUsed, worker, xconW, regEps, ep, nextDst, deleted>>
    PROVE  HInv'
<1> USE ConnectionManagerAssumption DEF HInv, HTypeOK, PTypeOK, States, Pcs, DstIds, Live
<1>1. HTypeOK'
    <2>1. worker' \in [DstIds -> {"none", "ready", "closed"}]
        BY DEF HInv
    <2>2. state' \in [Conns -> States] /\ pc' \in [Conns -> Pcs]
        BY DEF HInv
    <2>3. vni' \in [Conns -> VNIs \cup {0}] /\ vniUsed' \subseteq VNIs
        BY DEF HInv
    <2>4. dst' \in [Conns -> 0..MaxDst] /\ nextDst' \in 1..MaxDst + 1
        BY DEF HInv
    <2>5. xconW' \subseteq DstIds
        BY Zenon DEF HInv
    <2>6. xconM' \subseteq Conns /\ deleted' \in [Conns -> Nat]
              /\ regEps' \subseteq Eps /\ ep' \in [Conns -> Eps \cup {NoEp}]
        BY DEF HInv
    <2>7. QED
        BY <2>1, <2>2, <2>3, <2>4, <2>5, <2>6
<1>2. ASSUME NEW x \in Conns PROVE HalfInv(x)'
    BY DEF HalfInv
<1>3. HalvesOwned'
    BY DEF HalvesOwned
<1>4. DstUnique'
    BY DEF DstUnique
<1>5. QED
    BY <1>1, <1>2, <1>3, <1>4

(***************************************************************************)
(* A heal to a remote endpoint preserves HInv: the old half is closed,    *)
(* the new one gets nextDst, and c is READY again with its Master         *)
(* cross-connect, which it kept while HEALING.                             *)
(***************************************************************************)
LEMMA HealRemoteHInv ==
    ASSUME HInv, NEW c \in Conns, pc[c] = "heal_wait_dst", nextDst <= MaxDst,
           NEW e \in Eps, ep' = [ep EXCEPT ![c] = e],
           NEW v \in VNIs, vniUsed' = vniUsed \cup {v}, vni' = [vni EXCEPT ![c] = v],
           worker' = [d \in DstIds |->
                         IF d = nextDst THEN "ready"
                         ELSE IF d = dst[c] THEN "closed" ELSE worker[d]],
           xconW' = (xconW \ {dst[c]}) \cup {nextDst},
           dst' = [dst EXCEPT ![c] = nextDst],
           nextDst' = nextDst + 1,
           state' = [state EXCEPT ![c] = "ready"],
           pc' = [pc EXCEPT ![c] = "idle"],
           UNCHANGED <<regEps, xconM, deleted>>
    PROVE  HInv'
<1> USE ConnectionManagerAssumption DEF HInv, HTypeOK, PTypeOK, States, Pcs, DstIds, Live
<1>1. HTypeOK'
    <2>1. worker' \in [DstIds -> {"none", "ready", "closed"}]
        BY DEF HInv
    <2>2. state' \in [Conns -> States] /\ pc' \in [Conns -> Pcs]
        BY DEF HInv
    <2>3. vni' \in [Conns -> VNIs \cup {0}] /\ vniUsed' \subseteq VNIs
        BY DEF HInv
    <2>4. dst' \in [Conns -> 0..MaxDst] /\ nextDst' \in 1..MaxDst + 1
        BY DEF HInv
    <2>5. xconW' \subseteq DstIds
        <3>1. nextDst \in DstIds
            OBVIOUS
        <3>2. QED
            BY <3>1, Zenon
    <2>6. xconM' \subseteq Conns /\ deleted' \in [Conns -> Nat]
              /\ regEps' \subseteq Eps /\ ep' \in [Conns -> Eps \cup {NoEp}]
        BY DEF HInv
    <2>7. QED
        BY <2>1, <2>2, <2>3, <2>4, <2>5, <2>6
<1>2. ASSUME NEW x \in Conns PROVE HalfInv(x)'
    <2>1. CASE x = c
        <3>1. c \in xconM
            BY DEF HalfInv
        <3>2. QED
            BY <2>1, <3>1 DEF HalfInv
    <2>2. CASE x # c
        <3>1. dst[x] # 0 => dst[x] < nextDst /\ dst[x] # dst[c]
            BY <2>2 DEF HalfInv, DstUnique
        <3>2. QED
            BY <2>2, <3>1 DEF HalfInv
    <2>3. QED
        BY <2>1, <2>2
<1>3. HalvesOwned'
    <2> SUFFICES ASSUME NEW d \in DstIds, worker'[d] = "ready" \/ d \in xconW'
                 PROVE  \E x \in Conns : dst'[x] = d
        BY DEF HalvesOwned
    <2>1. CASE d = nextDst
        BY <2>1
    <2>2. CASE d # nextDst
        <3>1. d # dst[c] /\ (worker[d] = "ready" \/ d \in xconW)
            BY <2>2
        <3>2. PICK x \in Conns : dst[x] = d
            BY <3>1 DEF HalvesOwned
        <3>3. x # c
            BY <3>1, <3>2
        <3>4. QED
            BY <3>2, <3>3
    <2>3. QED
        BY <2>1, <2>2
<1>4. DstUnique'
    <2>1. \A x \in Conns : dst[x] # 0 => dst[x] < nextDst
        BY DEF HalfInv
    <2>2. QED
        BY <2>1 DEF DstUnique
<1>5. QED
    BY <1>1, <1>2, <1>3, <1>4

(***************************************************************************)
(* A heal to a local endpoint preserves HInv: the old half is closed and  *)
(* c is READY again without one.                                           *)
(***************************************************************************)
LEMMA HealLocalHInv ==
    ASSUME HInv, NEW c \in Conns, pc[c] = "heal_wait_dst",
           NEW e \in Eps, ~Remote(e), ep' = [ep EXCEPT ![c] = e],
           worker' = IF dst[c] # 0 THEN [worker EXCEPT ![dst[c]] = "closed"] ELSE worker,
           xconW' = xconW \ {dst[c]},
           vniUsed' = vniUsed \ {vni[c]},
           vni' = [vni EXCEPT ![c] = 0],
           dst' = [dst EXCEPT ![c] = 0],
           state' = [state EXCEPT ![c] = "ready"],
           pc' = [pc EXCEPT ![c] = "idle"],
           UNCHANGED <<nextDst, regEps, xconM, deleted>>
    PROVE  HInv'
<1> USE ConnectionManagerAssumption DEF HInv, HTypeOK, PTypeOK, States, Pcs, DstIds, Live
<1>1. HTypeOK'
    <2>1. worker' \in [DstIds -> {"none", "ready", "closed"}]
        BY DEF HInv
    <2>2. state' \in [Conns -> States] /\ pc' \in [Conns -> Pcs]
        BY DEF HInv
    <2>3. vni' \in [Conns -> VNIs \cup {0}] /\ vniUsed' \subseteq VNIs
        BY DEF HInv
    <2>4. dst' \in [Conns -> 0..MaxDst] /\ nextDst' \in 1..MaxDst + 1
        BY DEF HInv
    <2>5. xconW' \subseteq DstIds
        BY Zenon DEF HInv
    <2>6. xconM' \subseteq Conns /\ deleted' \in [Conns -> Nat]
              /\ regEps' \subseteq Eps /\ ep' \in [Conns -> Eps \cup {NoEp}]
        BY DEF HInv
    <2>7. QED
        BY <2>1, <2>2, <2>3, <2>4, <2>5, <2>6
<1>2. ASSUME NEW x \in Conns PROVE HalfInv(x)'
    <2>1. CASE x = c
        <3>1. c \in xconM
            BY DEF HalfInv
        <3>2. QED
            BY <2>1, <3>1 DEF HalfInv
    <2>2. CASE x # c
        <3>1. dst[x] # 0 => dst[x] # dst[c]
            BY <2>2 DEF DstUnique
        <3>2. QED
            BY <2>2, <3>1 DEF HalfInv
    <2>3. QED
        BY <2>1, <2>2
<1>3. HalvesOwned'
    <2> SUFFICES ASSUME NEW d \in DstIds, worker'[d] = "ready" \/ d \in xconW'
                 PROVE  \E x \in Conns : dst'[x] = d
        BY DEF HalvesOwned
    <2>1. d # dst[c] /\ (worker[d] = "ready" \/ d \in xconW)
        OBVIOUS
    <2>2. PICK x \in Conns : dst[x] = d
        BY <2>1 DEF HalvesOwned
    <2>3. x # c
        BY <2>1, <2>2
    <2>4. QED
        BY <2>2, <2>3
<1>4. DstUnique'
    BY DEF DstUnique
<1>5. QED
    BY <1>1, <1>2, <1>3, <1>4

(***************************************************************************)
(* Every step preserves HInv.  Halves are built only at nextDst, which no  *)
(* connection points to yet, and closed only through the one connection   *)
(* that points to them.                                                    *)
(***************************************************************************)
LEMMA NextHInv == HInv /\ [Next]_vars => HInv'
<1> SUFFICES ASSUME HInv, [Next]_vars PROVE HInv'
    OBVIOUS
<1> USE ConnectionManagerAssumption DEF HInv, HTypeOK, PTypeOK, States, Pcs, DstIds, Live, Goto
<1>1. ASSUME NEW c \in Conns, Request(c) PROVE HInv'
    <2>1. HTypeOK'
        BY <1>1 DEF Request
    <2>2. \A x \in Conns : HalfInv(x)'
        BY <1>1 DEF Request, HalfInv
    <2>3. HalvesOwned'
        BY <1>1 DEF Request, HalvesOwned
    <2>4. DstUnique'
        BY <1>1 DEF Request, DstUnique
    <2>5. QED
        BY <2>1, <2>2, <2>3, <2>4
<1>2. ASSUME NEW c \in Conns, SelectEndpoint(c) PROVE HInv'
    <2>1. HTypeOK'
        <3>1. FindNetworkService \subseteq Eps /\ FindNetworkService \cap LocalEps \subseteq Eps
            BY DEF FindNetworkService
        <3>2. ep' \in [Conns -> Eps \cup {NoEp}]
            BY <1>2, <3>1 DEF SelectEndpoint
        <3>3. QED
            BY <1>2, <3>2 DEF SelectEndpoint
    <2>2. \A x \in Conns : HalfInv(x)'
        BY <1>2 DEF SelectEndpoint, FindNetworkService, HalfInv
    <2>3. HalvesOwned'
        BY <1>2 DEF SelectEndpoint, FindNetworkService, HalvesOwned
    <2>4. DstUnique'
        BY <1>2 DEF SelectEndpoint, FindNetworkService, DstUnique
    <2>5. QED
        BY <2>1, <2>2, <2>3, <2>4
<1>3. ASSUME NEW c \in Conns, WaitDataplane(c) PROVE HInv'
    <2>1. HTypeOK'
        BY <1>3 DEF WaitDataplane
    <2>2. \A x \in Conns : HalfInv(x)'
        BY <1>3 DEF WaitDataplane, HalfInv
    <2>3. HalvesOwned'
        BY <1>3 DEF WaitDataplane, HalvesOwned
    <2>4. DstUnique'
        BY <1>3 DEF WaitDataplane, DstUnique
    <2>5. QED
        BY <2>1, <2>2, <2>3, <2>4
<1>4. ASSUME NEW c \in Conns, DataplaneTimeout(c) PROVE HInv'
    BY <1>4, UnwindHInv DEF DataplaneTimeout
<1>5. ASSUME NEW c \in Conns, InvokeLocal(c) PROVE HInv'
    <2>1. CASE Goto(c, "install") /\ UNCHANGED <<state, dst, vni, vniUsed, worker, xconW>>
        <3>1. ~Remote(ep[c])
            BY <1>5 DEF InvokeLocal
        <3>2. QED
            BY <1>5, <2>1, <3>1 DEF InvokeLocal, HalfInv, HalvesOwned, DstUnique
    <2>2. CASE Unwind(c)
        BY <1>5, <2>2, UnwindHInv DEF InvokeLocal
    <2>3. QED
        BY <1>5, <2>1, <2>2 DEF InvokeLocal
<1>6. ASSUME NEW c \in Conns, InvokeRemote(c) PROVE HInv'
    <2>1. CASE /\ ep[c] \in regEps
               /\ dpReady["worker"]
               /\ nextDst <= MaxDst
               /\ \E v \in VNIs \ vniUsed :
                     /\ vniUsed' = vniUsed \cup {v}
                     /\ vni' = [vni EXCEPT ![c] = v]
               /\ worker' = [worker EXCEPT ![nextDst] = "ready"]
               /\ xconW' = xconW \cup {nextDst}
               /\ dst' = [dst EXCEPT ![c] = nextDst]
               /\ nextDst' = nextDst + 1
               /\ Goto(c, "install")
               /\ UNCHANGED state
        <3>1. PICK v \in VNIs \ vniUsed : vniUsed' = vniUsed \cup {v} /\ vni' = [vni EXCEPT ![c] = v]
            BY <2>1, Zenon
        <3>2. pc[c] = "invoke" /\ UNCHANGED <<state, regEps, ep, xconM, deleted>>
            BY <1>6, <2>1 DEF InvokeRemote
        <3>3. QED
            BY <2>1, <3>1, <3>2, InvokeRemoteOkHInv
    <2>2. CASE Unwind(c) /\ UNCHANGED nextDst
        BY <1>6, <2>2, UnwindHInv DEF InvokeRemote
    <2>3. QED
        BY <1>6, <2>1, <2>2 DEF InvokeRemote
<1>7. ASSUME NEW c \in Conns, Install(c) PROVE HInv'
    <2>1. CASE /\ xconM' = xconM \cup {c}
               /\ state' = [state EXCEPT ![c] = "ready"]
               /\ Goto(c, "idle")
               /\ UNCHANGED <<dst, vni, vniUsed, worker, xconW>>
        <3>1. pc[c] = "install" /\ UNCHANGED <<regEps, ep, nextDst, deleted>>
            BY <1>7 DEF Install
        <3>2. UNCHANGED <<dst, vni, vniUsed, worker, xconW, regEps, ep, nextDst, deleted>>
            BY <2>1, <3>1
        <3>3. QED
            BY <2>1, <3>1, <3>2, InstallOkHInv
    <2>2. CASE Unwind(c) /\ UNCHANGED xconM
        BY <1>7, <2>2, UnwindHInv DEF Install
    <2>3. QED
        BY <1>7, <2>1, <2>2 DEF Install
<1>8. ASSUME NEW c \in Conns, Close(c) PROVE HInv'
    BY <1>8, CloseHInv DEF Close
<1>9. ASSUME NEW c \in Conns, HealDstDown(c) PROVE HInv'
    <2>1. HTypeOK'
        BY <1>9 DEF HealDstDown
    <2>2. \A x \in Conns : HalfInv(x)'
        BY <1>9 DEF HealDstDown, HalfInv
    <2>3. HalvesOwned'
        BY <1>9 DEF HealDstDown, HalvesOwned
    <2>4. DstUnique'
        BY <1>9 DEF HealDstDown, DstUnique
    <2>5. QED
        BY <2>1, <2>2, <2>3, <2>4
<1>10. ASSUME NEW c \in Conns, HealRenegotiate(c) PROVE HInv'
    <2> DEFINE others == regEps \ {ep[c]}
               cands == IF others # {} THEN others ELSE regEps
    <2>1. PICK e \in cands :
             /\ ep' = [ep EXCEPT ![c] = e]
             /\ IF Remote(e)
                THEN /\ dpReady["worker"]
                     /\ nextDst <= MaxDst
                     /\ \E v \in IF vni[c] # 0 THEN {vni[c]} ELSE VNIs \ vniUsed :
                           /\ vniUsed' = vniUsed \cup {v}
                           /\ vni' = [vni EXCEPT ![c] = v]
                     /\ worker' = [d \in DstIds |->
                                      IF d = nextDst THEN "ready"
                                      ELSE IF d = dst[c] THEN "closed" ELSE worker[d]]
                     /\ xconW' = (xconW \ {dst[c]}) \cup {nextDst}
                     /\ dst' = [dst EXCEPT ![c] = nextDst]
                     /\ nextDst' = nextDst + 1
                ELSE /\ worker' = IF dst[c] # 0 THEN [worker EXCEPT ![dst[c]] = "closed"] ELSE worker
                     /\ xconW' = xconW \ {dst[c]}
                     /\ vniUsed' = vniUsed \ {vni[c]}
                     /\ vni' = [vni EXCEPT ![c] = 0]
                     /\ dst' = [dst EXCEPT ![c] = 0]
                     /\ UNCHANGED nextDst
        BY <1>10 DEF HealRenegotiate
    <2>2. e \in Eps
        OBVIOUS
    <2>3. pc[c] = "heal_wait_dst" /\ state' = [state EXCEPT ![c] = "ready"]
          /\ pc' = [pc EXCEPT ![c] = "idle"] /\ UNCHANGED <<regEps, xconM, deleted>>
        BY <1>10 DEF HealRenegotiate
    <2>4. CASE Remote(e)
        <3>1. PICK v \in IF vni[c] # 0 THEN {vni[c]} ELSE VNIs \ vniUsed :
                 /\ vniUsed' = vniUsed \cup {v}
                 /\ vni' = [vni EXCEPT ![c] = v]
            BY <2>1, <2>4
        <3>2. v \in VNIs
            BY <3>1
        <3>3. QED
            BY <2>1, <2>2, <2>3, <2>4, <3>1, <3>2, HealRemoteHInv
    <2>5. CASE ~Remote(e)
        BY <2>1, <2>2, <2>3, <2>5, HealLocalHInv
    <2>6. QED
        BY <2>4, <2>5
<1>11. ASSUME NEW c \in Conns, HealTimeout(c) PROVE HInv'
    BY <1>11, CloseHInv DEF HealTimeout
<1>12. ASSUME NEW e \in Eps, RemoveNSE(e) \/ RegisterNSE(e) PROVE HInv'
    <2>1. CASE RemoveNSE(e)
        <3>1. HTypeOK'
            BY <2>1 DEF RemoveNSE
        <3>2. \A x \in Conns : HalfInv(x)'
            BY <2>1 DEF RemoveNSE, HalfInv
        <3>3. HalvesOwned'
            BY <2>1 DEF RemoveNSE, HalvesOwned
        <3>4. DstUnique'
            BY <2>1 DEF RemoveNSE, DstUnique
        <3>5. QED
            BY <3>1, <3>2, <3>3, <3>4
    <2>2. CASE RegisterNSE(e)
        <3>1. HTypeOK'
            BY <2>2 DEF RegisterNSE
        <3>2. \A x \in Conns : HalfInv(x)'
            BY <2>2 DEF RegisterNSE, HalfInv
        <3>3. HalvesOwned'
            BY <2>2 DEF RegisterNSE, HalvesOwned
        <3>4. DstUnique'
            BY <2>2 DEF RegisterNSE, DstUnique
        <3>5. QED
            BY <3>1, <3>2, <3>3, <3>4
    <2>3. QED
        BY <1>12, <2>1, <2>2
<1>13. ASSUME NEW n \in Nsms, MechanismsConfigured(n) PROVE HInv'
    <2>1. HTypeOK'
        BY <1>13 DEF MechanismsConfigured
    <2>2. \A x \in Conns : HalfInv(x)'
        BY <1>13 DEF MechanismsConfigured, HalfInv
    <2>3. HalvesOwned'
        BY <1>13 DEF MechanismsConfigured, HalvesOwned
    <2>4. DstUnique'
        BY <1>13 DEF MechanismsConfigured, DstUnique
    <2>5. QED
        BY <2>1, <2>2, <2>3, <2>4
<1>14. CASE UNCHANGED vars
    BY <1>14 DEF vars, HalfInv, HalvesOwned, DstUnique
<1>15. QED
    BY <1>1, <1>2, <1>3, <1>4, <1>5, <1>6, <1>7, <1>8, <1>9, <1>10, <1>11,
       <1>12, <1>13, <1>14 DEF Next, RequestTask, HealTask, Environment

(* HInv holds in every reachable state.                                    *)
LEMMA AlwaysHInv == Spec => []HInv
BY InitHInv, NextHInv, PTL DEF Spec

(***************************************************************************)
(* ReadyConnectionInstalledHolds (spec 8, first invariant): a READY        *)
(* connection always has its Master cross-connect and, to a remote        *)
(* endpoint, a READY and programmed remote half on the Worker, through     *)
(* requests, unwinding, heals to either kind of endpoint and closes.      *)
(***************************************************************************)
THEOREM ReadyConnectionInstalledHolds == Spec => []ReadyConnectionInstalled
<1>1. HInv => ReadyConnectionInstalled
    BY DEF HInv, HalfInv, ReadyConnectionInstalled
<1>2. QED
    BY <1>1, AlwaysHInv, PTL

(***************************************************************************)
(* NoOrphanRemoteHalfHolds: every remote half that is READY or programmed *)
(* on the Worker is the current half of a live Master connection: the     *)
(* Master never loses track of a half the Worker keeps.                    *)
(***************************************************************************)
THEOREM NoOrphanRemoteHalfHolds == Spec => []NoOrphanRemoteHalf
<1>1. HInv => NoOrphanRemoteHalf
    <2> SUFFICES ASSUME HInv, NEW d \in DstIds, worker[d] = "ready" \/ d \in xconW
                 PROVE  \E c \in Conns : dst[c] = d /\ state[c] \in {"requesting", "ready", "healing"}
        BY DEF NoOrphanRemoteHalf
    <2>1. PICK c \in Conns : dst[c] = d
        BY DEF HInv, HalvesOwned
    <2>2. dst[c] # 0
        BY <2>1 DEF DstIds
    <2>3. QED
        BY <2>1, <2>2 DEF HInv, HalfInv, Live
<1>2. QED
    BY <1>1, AlwaysHInv, PTL

-----------------------------------------------------------------------------
(***************************************************************************)
(* The refinement.  Each step of the connection manager is a step of the  *)
(* lifecycle on (state, deleted) or leaves both unchanged; HInv supplies   *)
(* the state each task runs in: a request task's connection is           *)
(* REQUESTING, a heal task's HEALING.                                      *)
(***************************************************************************)
LEMMA StepRefines == HInv /\ [Next]_vars => [LC!Next]_LC!lcvars
<1> SUFFICES ASSUME HInv, [Next]_vars PROVE [LC!Next]_LC!lcvars
    OBVIOUS
<1> USE DEF HInv, HTypeOK, PTypeOK, States, Pcs, Goto
<1> DEFINE Stutter == UNCHANGED LC!lcvars
<1>0. Stutter => [LC!Next]_LC!lcvars
    OBVIOUS
<1>1. ASSUME NEW c \in Conns, Request(c) PROVE [LC!Next]_LC!lcvars
    <2>1. LC!Request(c)
        BY <1>1 DEF Request, LC!Request, LC!Move
    <2>2. QED
        BY <2>1 DEF LC!Next
<1>2. ASSUME NEW c \in Conns, SelectEndpoint(c) PROVE [LC!Next]_LC!lcvars
    <2>1. state[c] = "requesting"
        BY <1>2 DEF SelectEndpoint, HalfInv
    <2>2. LC!Failed(c) \/ Stutter
        BY <1>2, <2>1 DEF SelectEndpoint, LC!Failed, LC!Move, LC!lcvars
    <2>3. QED
        BY <2>2, <1>0 DEF LC!Next
<1>3. ASSUME NEW c \in Conns, WaitDataplane(c) PROVE [LC!Next]_LC!lcvars
    BY <1>3, <1>0 DEF WaitDataplane, LC!lcvars
<1> HIDE DEF Goto
<1>4. ASSUME NEW c \in Conns, pc[c] \in {"wait_dp", "invoke", "install"}, Unwind(c),
             UNCHANGED deleted
      PROVE  LC!Failed(c)
    <2>1. state[c] = "requesting"
        BY <1>4 DEF HalfInv
    <2>2. QED
        BY <1>4, <2>1 DEF Unwind, LC!Failed, LC!Move
<1> USE DEF Goto
<1>5. ASSUME NEW c \in Conns, DataplaneTimeout(c) \/ InvokeLocal(c) \/ InvokeRemote(c)
      PROVE  [LC!Next]_LC!lcvars
    <2>1. CASE UNCHANGED state
        BY <1>5, <2>1, <1>0 DEF DataplaneTimeout, InvokeLocal, InvokeRemote, Unwind, LC!lcvars
    <2>2. CASE Unwind(c)
        <3>1. pc[c] \in {"wait_dp", "invoke", "install"} /\ UNCHANGED deleted
            BY <1>5 DEF DataplaneTimeout, InvokeLocal, InvokeRemote
        <3>2. QED
            BY <2>2, <3>1, <1>4 DEF LC!Next
    <2>3. QED
        BY <1>5, <2>1, <2>2 DEF DataplaneTimeout, InvokeLocal, InvokeRemote
<1>6. ASSUME NEW c \in Conns, Install(c) PROVE [LC!Next]_LC!lcvars
    <2>1. state[c] = "requesting"
        BY <1>6 DEF Install, HalfInv
    <2>2. CASE Unwind(c)
        <3>1. pc[c] \in {"wait_dp", "invoke", "install"} /\ UNCHANGED deleted
            BY <1>6 DEF Install
        <3>2. QED
            BY <2>2, <3>1, <1>4 DEF LC!Next
    <2>3. CASE ~Unwind(c)
        <3>1. LC!Established(c)
            BY <1>6, <2>1, <2>3 DEF Install, LC!Established, LC!Move
        <3>2. QED
            BY <3>1 DEF LC!Next
    <2>4. QED
        BY <2>2, <2>3
<1>7. ASSUME NEW c \in Conns, Close(c) PROVE [LC!Next]_LC!lcvars
    <2>1. LC!Close(c)
        BY <1>7 DEF Close, CloseConnection, LC!Close
    <2>2. QED
        BY <2>1 DEF LC!Next
<1>8. ASSUME NEW c \in Conns, HealDstDown(c) PROVE [LC!Next]_LC!lcvars
    <2>1. LC!HealStart(c)
        BY <1>8 DEF HealDstDown, LC!HealStart, LC!Move
    <2>2. QED
        BY <2>1 DEF LC!Next
<1>9. ASSUME NEW c \in Conns, HealRenegotiate(c) PROVE [LC!Next]_LC!lcvars
    <2>1. state[c] = "healing"
        BY <1>9 DEF HealRenegotiate, HalfInv
    <2>2. LC!Healed(c)
        BY <1>9, <2>1 DEF HealRenegotiate, LC!Healed, LC!Move
    <2>3. QED
        BY <2>2 DEF LC!Next
<1>10. ASSUME NEW c \in Conns, HealTimeout(c) PROVE [LC!Next]_LC!lcvars
    <2>1. state[c] = "healing"
        BY <1>10 DEF HealTimeout, HalfInv
    <2>2. LC!Close(c)
        BY <1>10, <2>1 DEF HealTimeout, CloseConnection, LC!Close
    <2>3. QED
        BY <2>2 DEF LC!Next
<1>11. ASSUME Environment PROVE [LC!Next]_LC!lcvars
    BY <1>11, <1>0 DEF Environment, RemoveNSE, RegisterNSE, MechanismsConfigured, LC!lcvars
<1>12. CASE UNCHANGED vars
    BY <1>12, <1>0 DEF vars, LC!lcvars
<1>13. QED
    BY <1>1, <1>2, <1>3, <1>5, <1>6, <1>7, <1>8, <1>9, <1>10, <1>11, <1>12
       DEF Next, RequestTask, HealTask

(***************************************************************************)
(* LifecycleRefinedHolds: the connection manager implements the lifecycle *)
(* of spec 4.4 and 4.6 (LifecycleRefined), for every set of connections,  *)
(* endpoints and VNIs and every bound.                                     *)
(***************************************************************************)
THEOREM LifecycleRefinedHolds == Spec => LifecycleRefined
<1>1. Init => LC!Init
    BY DEF Init, LC!Init
<1>2. QED
    BY <1>1, StepRefines, AlwaysHInv, PTL DEF Spec, LifecycleRefined, LC!Spec
=============================================================================
