-------------------------- MODULE ConnectionManager --------------------------
(***************************************************************************)
(* The connection manager of one NSM (spec.md 4.4, 4.6, 5) with its peer,  *)
(* as the controlplane tests run them: a Master NSM whose clients request  *)
(* a network service whose endpoints live on a Worker NSM, or on the      *)
(* Master itself.  The registry is the tests' shared storage               *)
(* (nsmd_test_utils.go), the local endpoint is the tests' local NSE.       *)
(*                                                                         *)
(* The manager's own code is not under src/: its steps are modelled from  *)
(* the spec.  Each client connection c (its source id, kept across heals)  *)
(* is handled by one task at a time: Request, Close and Heal of the same  *)
(* connection exclude one another (spec 5, per-connection lock).  Tasks   *)
(* of different connections interleave freely and share the VNI           *)
(* allocator and the Worker's connection ids.                             *)
(***************************************************************************)
EXTENDS Naturals, FiniteSets

CONSTANTS
    Conns,      \* source connection ids of the Master's clients
    Eps,        \* endpoints of the one network service
    LocalEps,   \* those hosted by the Master; the others are on the Worker
    VNIs,       \* the VNI allocator's values
    MaxDst,     \* bound on the Worker's connection ids
    MaxEnv      \* bound on endpoint registrations/removals and dataplane changes

ASSUME ConnectionManagerAssumption ==
    /\ LocalEps \subseteq Eps
    /\ MaxDst \in Nat /\ MaxEnv \in Nat
    /\ IsFiniteSet(VNIs)

NoEp == "none"
DstIds == 1..MaxDst

VARIABLES
    regEps,     \* the registry's endpoints (shared storage)
    dpReady,    \* dpReady[n]: n's dataplane has MechanismsConfigured
    env,        \* environment changes so far
    state,      \* state[c]: the ClientConnection's state in the Master's Model
    pc,         \* pc[c]: the step of the task handling c
    ep,         \* ep[c]: the endpoint c is connected to (or being connected to)
    dst,        \* dst[c]: the Worker's connection id of c's remote half, 0 if none
    vni,        \* vni[c]: the VNI of c's tunnel, 0 if none
    vniUsed,    \* the allocator's values in use
    nextDst,    \* the Worker's next connection id
    worker,     \* worker[d]: the Worker's ClientConnection d
    xconM,      \* cross-connects programmed in the Master's dataplane (by c)
    xconW,      \* cross-connects programmed in the Worker's dataplane (by d)
    deleted     \* deleted[c]: ClientConnectionDeleted events emitted for c

vars == <<regEps, dpReady, env, state, pc, ep, dst, vni, vniUsed, nextDst,
          worker, xconM, xconW, deleted>>

Nsms == {"master", "worker"}
States == {"none", "requesting", "ready", "healing", "closed", "failed"}
Pcs == {"idle", "select", "wait_dp", "invoke", "install", "heal_wait_dst"}

Remote(e) == e \notin LocalEps

TypeOK ==
    /\ regEps \subseteq Eps
    /\ dpReady \in [Nsms -> BOOLEAN]
    /\ env \in 0..MaxEnv
    /\ state \in [Conns -> States]
    /\ pc \in [Conns -> Pcs]
    /\ ep \in [Conns -> Eps \cup {NoEp}]
    /\ dst \in [Conns -> 0..MaxDst]
    /\ vni \in [Conns -> VNIs \cup {0}]
    /\ vniUsed \subseteq VNIs
    /\ nextDst \in 1..MaxDst + 1
    /\ worker \in [DstIds -> {"none", "ready", "closed"}]
    /\ xconM \subseteq Conns
    /\ xconW \subseteq DstIds
    /\ deleted \in [Conns -> 0..2]

-----------------------------------------------------------------------------
(* FindNetworkService of the tests' registry: the registered endpoints of *)
(* the service (the shared storage's map, in any order).                  *)
FindNetworkService == regEps

(* Set the step of c's task.                                               *)
Goto(c, p) == pc' = [pc EXCEPT ![c] = p]
(* Mutant: unwinding forgets to close the remote half.                    *)
UnwindKeepsRemote(c) ==
    /\ state' = [state EXCEPT ![c] = "failed"]
    /\ Goto(c, "idle")
    /\ UNCHANGED <<worker, xconW>>
    /\ vniUsed' = vniUsed \ {vni[c]}
    /\ dst' = [dst EXCEPT ![c] = 0]
    /\ vni' = [vni EXCEPT ![c] = 0]


(***************************************************************************)
(* Unwinding of c's task (spec 5 and 4.4 failure modes): the remote half   *)
(* the peer already built is closed, the VNI released, the connection     *)
(* fails and the task ends.                                               *)
(***************************************************************************)
Unwind(c) ==
    /\ state' = [state EXCEPT ![c] = "failed"]
    /\ Goto(c, "idle")
    /\ worker' = IF dst[c] # 0 THEN [worker EXCEPT ![dst[c]] = "closed"] ELSE worker
    /\ xconW' = xconW \ {dst[c]}
    /\ vniUsed' = vniUsed \ {vni[c]}
    /\ dst' = [dst EXCEPT ![c] = 0]
    /\ vni' = [vni EXCEPT ![c] = 0]

(***************************************************************************)
(* Close of c (spec 4.4), by its client or as a heal's final close:       *)
(* unprogram the Master's cross-connect, close the remote half on the     *)
(* Worker (which unprograms its own), close the endpoint, remove the      *)
(* ClientConnection from the Model with a ClientConnectionDeleted event,  *)
(* release the VNI.                                                        *)
(***************************************************************************)
CloseConnection(c) ==
    /\ state' = [state EXCEPT ![c] = "closed"]
    /\ Goto(c, "idle")
    /\ xconM' = xconM \ {c}
    /\ worker' = IF dst[c] # 0 THEN [worker EXCEPT ![dst[c]] = "closed"] ELSE worker
    /\ xconW' = xconW \ {dst[c]}
    /\ vniUsed' = vniUsed \ {vni[c]}
    /\ dst' = [dst EXCEPT ![c] = 0]
    /\ vni' = [vni EXCEPT ![c] = 0]
    /\ deleted' = [deleted EXCEPT ![c] = @ + 1]

Init ==
    /\ regEps = Eps
    /\ dpReady \in [Nsms -> BOOLEAN]
    /\ env = 0
    /\ state = [c \in Conns |-> "none"]
    /\ pc = [c \in Conns |-> "idle"]
    /\ ep = [c \in Conns |-> NoEp]
    /\ dst = [c \in Conns |-> 0]
    /\ vni = [c \in Conns |-> 0]
    /\ vniUsed = {}
    /\ nextDst = 1
    /\ worker = [d \in DstIds |-> "none"]
    /\ xconM = {}
    /\ xconW = {}
    /\ deleted = [c \in Conns |-> 0]

-----------------------------------------------------------------------------
(* Mutant: a request reuses the id of a connection whose request failed.  *)
RequestReuseFailed(c) ==
    /\ state[c] \in {"none", "failed"}
    /\ pc[c] = "idle"
    /\ state' = [state EXCEPT ![c] = "requesting"]
    /\ Goto(c, "select")
    /\ UNCHANGED <<regEps, dpReady, env, ep, dst, vni, vniUsed, nextDst, worker, xconM, xconW, deleted>>

(* The client calls Request on its workspace socket for connection c.     *)
Request(c) ==
    /\ state[c] = "none"
    /\ pc[c] = "idle"
    /\ state' = [state EXCEPT ![c] = "requesting"]
    /\ Goto(c, "select")
    /\ UNCHANGED <<regEps, dpReady, env, ep, dst, vni, vniUsed, nextDst, worker, xconM, xconW, deleted>>

(***************************************************************************)
(* Step 1, endpoint selection: query the registry; prefer an endpoint on  *)
(* this NSM; fail with NoEndpoint when there is none.                     *)
(***************************************************************************)
SelectEndpoint(c) ==
    /\ pc[c] = "select"
    /\ LET found == FindNetworkService
           local == found \cap LocalEps
       IN IF found = {}
          THEN /\ state' = [state EXCEPT ![c] = "failed"]
               /\ Goto(c, "idle")
               /\ UNCHANGED ep
          ELSE /\ \E e \in IF local # {} THEN local ELSE found :
                    ep' = [ep EXCEPT ![c] = e]
               /\ Goto(c, "wait_dp")
               /\ UNCHANGED state
    /\ UNCHANGED <<regEps, dpReady, env, dst, vni, vniUsed, nextDst, worker, xconM, xconW, deleted>>

(* Step 2: a dataplane with MechanismsConfigured is there.                 *)
WaitDataplane(c) ==
    /\ pc[c] = "wait_dp"
    /\ dpReady["master"]
    /\ Goto(c, "invoke")
    /\ UNCHANGED <<regEps, dpReady, env, state, ep, dst, vni, vniUsed, nextDst, worker, xconM, xconW, deleted>>

(* Step 2: the dataplane wait times out: NoDataplane.                      *)
DataplaneTimeout(c) ==
    /\ pc[c] = "wait_dp"
    /\ ~dpReady["master"]
    /\ Unwind(c)
    /\ UNCHANGED <<regEps, dpReady, env, ep, nextDst, worker, xconM, xconW, deleted>>

(***************************************************************************)
(* Steps 3 and 4 for a local endpoint: the local NSE's Request (the tests' *)
(* localTestNSENetworkServiceClient) either returns a complete connection *)
(* or fails (prefix pool exhausted, incomplete connection): the error     *)
(* surfaces as EndpointRefused.                                           *)
(***************************************************************************)
InvokeLocal(c) ==
    /\ pc[c] = "invoke"
    /\ ~Remote(ep[c])
    /\ \/ Goto(c, "install") /\ UNCHANGED <<state, dst, vni, vniUsed, worker, xconW>>
       \/ Unwind(c)
    /\ UNCHANGED <<regEps, dpReady, env, ep, nextDst, xconM, deleted>>
(* Mutant: the VNI is drawn without looking at the values in use.          *)
InvokeRemoteAnyVni(c) ==
    /\ pc[c] = "invoke"
    /\ Remote(ep[c])
    /\ \/ /\ ep[c] \in regEps
          /\ dpReady["worker"]
          /\ nextDst <= MaxDst
          /\ \E v \in VNIs :
                /\ vniUsed' = vniUsed \cup {v}
                /\ vni' = [vni EXCEPT ![c] = v]
          /\ worker' = [worker EXCEPT ![nextDst] = "ready"]
          /\ xconW' = xconW \cup {nextDst}
          /\ dst' = [dst EXCEPT ![c] = nextDst]
          /\ nextDst' = nextDst + 1
          /\ Goto(c, "install")
          /\ UNCHANGED state
       \/ /\ Unwind(c)
          /\ UNCHANGED nextDst
    /\ UNCHANGED <<regEps, dpReady, env, ep, xconM, deleted>>


(***************************************************************************)
(* Steps 3 and 4 for a remote endpoint: draw a VNI, then the peer NSM runs *)
(* its own half: it needs the endpoint still in its Model, a configured   *)
(* dataplane and a connection id; it programs its cross-connect and       *)
(* returns its destination connection.  A failure of the peer surfaces as *)
(* PeerUnreachable or EndpointRefused and the task unwinds.               *)
(***************************************************************************)
InvokeRemote(c) ==
    /\ pc[c] = "invoke"
    /\ Remote(ep[c])
    /\ \/ /\ ep[c] \in regEps
          /\ dpReady["worker"]
          /\ nextDst <= MaxDst
          /\ \E v \in VNIs \ vniUsed :
                /\ vniUsed' = vniUsed \cup {v}
                /\ vni' = [vni EXCEPT ![c] = v]
          /\ worker' = [worker EXCEPT ![nextDst] = "ready"]
          /\ xconW' = xconW \cup {nextDst}
          /\ dst' = [dst EXCEPT ![c] = nextDst]
          /\ nextDst' = nextDst + 1
          /\ Goto(c, "install")
          /\ UNCHANGED state
       \/ /\ Unwind(c)
          /\ UNCHANGED nextDst
    /\ UNCHANGED <<regEps, dpReady, env, ep, xconM, deleted>>

(***************************************************************************)
(* Step 5: program the cross-connect in the Master's dataplane and record *)
(* the connection READY; DataplaneProgramFailed unwinds the remote half.  *)
(***************************************************************************)
Install(c) ==
    /\ pc[c] = "install"
    /\ \/ /\ xconM' = xconM \cup {c}
          /\ state' = [state EXCEPT ![c] = "ready"]
          /\ Goto(c, "idle")
          /\ UNCHANGED <<dst, vni, vniUsed, worker, xconW>>
       \/ /\ Unwind(c)
          /\ UNCHANGED xconM
    /\ UNCHANGED <<regEps, dpReady, env, ep, nextDst, deleted>>
(* The client calls Close: a READY connection is closed; Close of a closed *)
(* one succeeds and changes nothing.                                       *)
Close(c) ==
    /\ pc[c] = "idle"
    /\ state[c] = "ready"
    /\ CloseConnection(c)
    /\ UNCHANGED <<regEps, dpReady, env, ep, nextDst>>

-----------------------------------------------------------------------------
(* The healer sees c's endpoint gone from the registry (DstDown): READY ->  *)
(* HEALING_WAIT_DST; the client sees the DOWN update.                      *)
HealDstDown(c) ==
    /\ pc[c] = "idle"
    /\ state[c] = "ready"
    /\ ep[c] \notin regEps
    /\ state' = [state EXCEPT ![c] = "healing"]
    /\ Goto(c, "heal_wait_dst")
    /\ UNCHANGED <<regEps, dpReady, env, ep, dst, vni, vniUsed, nextDst, worker, xconM, xconW, deleted>>
(* Mutant: the heal to a remote endpoint reuses the old half's programming *)
(* instead of programming the new half's cross-connect.                   *)
HealRenegotiateNoProgram(c) ==
    /\ pc[c] = "heal_wait_dst"
    /\ regEps # {}
    /\ dpReady["master"]
    /\ LET others == regEps \ {ep[c]}
           cands  == IF others # {} THEN others ELSE regEps
           old    == dst[c]
       IN \E e \in cands :
          /\ ep' = [ep EXCEPT ![c] = e]
          /\ IF Remote(e)
             THEN /\ dpReady["worker"]
                  /\ nextDst <= MaxDst
                  /\ \E v \in IF vni[c] # 0 THEN {vni[c]} ELSE VNIs \ vniUsed :
                        /\ vniUsed' = vniUsed \cup {v}
                        /\ vni' = [vni EXCEPT ![c] = v]
                  /\ worker' = [d \in DstIds |->
                                   IF d = nextDst THEN "ready"
                                   ELSE IF d = old THEN "closed" ELSE worker[d]]
                  /\ xconW' = xconW \ {old}
                  /\ dst' = [dst EXCEPT ![c] = nextDst]
                  /\ nextDst' = nextDst + 1
             ELSE /\ worker' = IF old # 0 THEN [worker EXCEPT ![old] = "closed"] ELSE worker
                  /\ xconW' = xconW \ {old}
                  /\ vniUsed' = vniUsed \ {vni[c]}
                  /\ vni' = [vni EXCEPT ![c] = 0]
                  /\ dst' = [dst EXCEPT ![c] = 0]
                  /\ UNCHANGED nextDst
    /\ state' = [state EXCEPT ![c] = "ready"]
    /\ Goto(c, "idle")
    /\ UNCHANGED <<regEps, dpReady, env, xconM, deleted>>


(***************************************************************************)
(* A new endpoint is found before HealDSTNSEWaitTimeout: RENEGOTIATE re-  *)
(* runs steps 1-5, preferring another endpoint than the failed one, keeps *)
(* the source id and swaps the cross-connect's destination: the old       *)
(* remote half is closed, a new one is built for a remote endpoint, and   *)
(* the Master's cross-connect is reprogrammed.  A failure of the new      *)
(* request is the final close.                                            *)
(***************************************************************************)
HealRenegotiate(c) ==
    /\ pc[c] = "heal_wait_dst"
    /\ regEps # {}
    /\ dpReady["master"]
    /\ LET others == regEps \ {ep[c]}
           cands  == IF others # {} THEN others ELSE regEps
           old    == dst[c]
       IN \E e \in cands :
          /\ ep' = [ep EXCEPT ![c] = e]
          /\ IF Remote(e)
             THEN /\ dpReady["worker"]
                  /\ nextDst <= MaxDst
                  /\ \E v \in IF vni[c] # 0 THEN {vni[c]} ELSE VNIs \ vniUsed :
                        /\ vniUsed' = vniUsed \cup {v}
                        /\ vni' = [vni EXCEPT ![c] = v]
                  /\ worker' = [d \in DstIds |->
                                   IF d = nextDst THEN "ready"
                                   ELSE IF d = old THEN "closed" ELSE worker[d]]
                  /\ xconW' = (xconW \ {old}) \cup {nextDst}
                  /\ dst' = [dst EXCEPT ![c] = nextDst]
                  /\ nextDst' = nextDst + 1
             ELSE /\ worker' = IF old # 0 THEN [worker EXCEPT ![old] = "closed"] ELSE worker
                  /\ xconW' = xconW \ {old}
                  /\ vniUsed' = vniUsed \ {vni[c]}
                  /\ vni' = [vni EXCEPT ![c] = 0]
                  /\ dst' = [dst EXCEPT ![c] = 0]
                  /\ UNCHANGED nextDst
    /\ state' = [state EXCEPT ![c] = "ready"]
    /\ Goto(c, "idle")
    /\ UNCHANGED <<regEps, dpReady, env, xconM, deleted>>
(* Mutant: the final close of a heal forgets the ClientConnectionDeleted  *)
(* event.                                                                 *)
HealTimeoutNoEvent(c) ==
    /\ pc[c] = "heal_wait_dst"
    /\ state' = [state EXCEPT ![c] = "closed"]
    /\ Goto(c, "idle")
    /\ xconM' = xconM \ {c}
    /\ worker' = IF dst[c] # 0 THEN [worker EXCEPT ![dst[c]] = "closed"] ELSE worker
    /\ xconW' = xconW \ {dst[c]}
    /\ vniUsed' = vniUsed \ {vni[c]}
    /\ dst' = [dst EXCEPT ![c] = 0]
    /\ vni' = [vni EXCEPT ![c] = 0]
    /\ UNCHANGED <<regEps, dpReady, env, ep, nextDst, deleted>>


(* HEALING_WAIT_DST --timeout--> FINAL_CLOSE --> CLOSED.                   *)
HealTimeout(c) ==
    /\ pc[c] = "heal_wait_dst"
    /\ CloseConnection(c)
    /\ UNCHANGED <<regEps, dpReady, env, ep, nextDst>>

-----------------------------------------------------------------------------
(* An endpoint is removed from the registry and its NSM's Model (the heal  *)
(* test: RemoveNSE, DeleteEndpoint, destination DOWN).                     *)
RemoveNSE(e) ==
    /\ env < MaxEnv
    /\ e \in regEps
    /\ regEps' = regEps \ {e}
    /\ env' = env + 1
    /\ UNCHANGED <<dpReady, state, pc, ep, dst, vni, vniUsed, nextDst, worker, xconM, xconW, deleted>>

(* An endpoint registers (RegisterNSE of the tests' registry).             *)
RegisterNSE(e) ==
    /\ env < MaxEnv
    /\ e \notin regEps
    /\ regEps' = regEps \cup {e}
    /\ env' = env + 1
    /\ UNCHANGED <<dpReady, state, pc, ep, dst, vni, vniUsed, nextDst, worker, xconM, xconW, deleted>>

(* A dataplane's mechanisms arrive: MechanismsConfigured becomes true.      *)
MechanismsConfigured(n) ==
    /\ env < MaxEnv
    /\ ~dpReady[n]
    /\ dpReady' = [dpReady EXCEPT ![n] = TRUE]
    /\ env' = env + 1
    /\ UNCHANGED <<regEps, state, pc, ep, dst, vni, vniUsed, nextDst, worker, xconM, xconW, deleted>>

RequestTask(c) ==
    SelectEndpoint(c) \/ WaitDataplane(c) \/ DataplaneTimeout(c)
    \/ InvokeLocal(c) \/ InvokeRemote(c) \/ Install(c)

HealTask(c) == HealDstDown(c) \/ HealRenegotiate(c) \/ HealTimeout(c)

Environment ==
    \/ \E e \in Eps : RemoveNSE(e) \/ RegisterNSE(e)
    \/ \E n \in Nsms : MechanismsConfigured(n)

Next ==
    \/ \E c \in Conns : Request(c) \/ RequestTask(c) \/ Close(c) \/ HealTask(c)
    \/ Environment

(* The NSM's request and heal tasks and the heal timer are weakly fair;    *)
(* clients and the environment are not.                                    *)
Spec == Init /\ [][Next]_vars
        /\ \A c \in Conns : WF_vars(RequestTask(c)) /\ WF_vars(HealTask(c))

-----------------------------------------------------------------------------
(***************************************************************************)
(* ReadyConnectionInstalled (spec 8, first invariant, both NSMs): a READY *)
(* connection has its cross-connect in the Master's dataplane and, when   *)
(* its endpoint is remote, a READY remote half on the Worker whose cross- *)
(* connect is in the Worker's dataplane.                                   *)
(***************************************************************************)
ReadyConnectionInstalled == \A c \in Conns :
    state[c] = "ready" =>
        /\ c \in xconM
        /\ Remote(ep[c]) => dst[c] \in xconW /\ worker[dst[c]] = "ready"

(***************************************************************************)
(* NoOrphanRemoteHalf (the close test: Close removes both halves): every  *)
(* remote half that is READY or programmed on the Worker is the current   *)
(* destination of a live Master connection, through request, heal, close, *)
(* unwinding and final close.                                              *)
(***************************************************************************)
NoOrphanRemoteHalf == \A d \in DstIds :
    (worker[d] = "ready" \/ d \in xconW) =>
        \E c \in Conns : dst[c] = d /\ state[c] \in {"requesting", "ready", "healing"}

(***************************************************************************)
(* VniUnique (spec 8): no two connections hold the same VNI, whatever the *)
(* interleaving of requests, heals, unwinding and closes.                 *)
(***************************************************************************)
VniUnique == \A c1, c2 \in Conns :
    c1 # c2 /\ vni[c1] # 0 => vni[c1] # vni[c2]

(***************************************************************************)
(* HealEnds (spec 4.6): a connection in HEALING_WAIT_DST is eventually    *)
(* READY again or CLOSED, with its ClientConnectionDeleted event.         *)
(***************************************************************************)
HealEnds == \A c \in Conns :
    state[c] = "healing" ~> (state[c] = "ready" \/ (state[c] = "closed" /\ deleted[c] = 1))
(***************************************************************************)
(* LifecycleRefined: the connection manager implements the lifecycle the  *)
(* spec promises (ConnectionLifecycle): every change of a connection's    *)
(* state in the Model is a lifecycle step (requested once; installed or   *)
(* failed; healed or finally closed; one ClientConnectionDeleted event    *)
(* per close) and every other step leaves both unchanged.                 *)
(***************************************************************************)
LC == INSTANCE ConnectionLifecycle WITH life <- state, events <- deleted

LifecycleRefined == LC!Spec

=============================================================================
