--------------------------- MODULE WorkspaceProofs ---------------------------
(***************************************************************************)
(* Proofs about the workspace lifecycle of Workspace.tla, for every number *)
(* of incarnations and every bound on the owner's Close calls.             *)
(***************************************************************************)
EXTENDS Workspace, TLAPS

(***************************************************************************)
(* The inductive invariant.  WorkspaceConsistent alone is not inductive:   *)
(* it says nothing of a workspace under construction, so a step of the    *)
(* constructor (NewCustomListener opening the listener, StartServing       *)
(* setting RUNNING) could break it from a state that no run reaches.  The *)
(* strengthening ties each stage of NewWorkSpace to the resources it has   *)
(* built, and states the resources of each value of w.state: a RUNNING    *)
(* workspace loses its listener only when its Serve returns.              *)
(***************************************************************************)
Early == {"idle", "clear", "mkdir", "listen", "build"}

WsInv(i) ==
    /\ ctor[i] \in Early =>
          state[i] = "NEW" /\ srv[i] = "idle" /\ grpc[i] = "none" /\ result[i] = "none"
    /\ ctor[i] \in {"idle", "clear", "mkdir", "listen"} => listener[i] = "none"
    /\ ctor[i] = "build" => listener[i] \in {"open", "failed"}
    /\ state[i] = "NEW" => grpc[i] = "none"
    /\ state[i] = "RUNNING" =>
          grpc[i] = "created" /\ (listener[i] \in {"open", "failed"} \/ srv[i] = "closing")
    /\ state[i] = "CLOSED" => grpc[i] # "created" /\ listener[i] \notin {"open", "failed"}

IInv == TypeOK /\ \A i \in Inc : WsInv(i)

-----------------------------------------------------------------------------
(* The initial states satisfy the inductive invariant.                    *)
LEMMA InitIInv == Init => IInv
BY WorkspaceAssumption DEF Init, IInv, WsInv, TypeOK, Inc, Early, CtorPc, SrvPc

(***************************************************************************)
(* What cleanup() of workspace i does to the resources: nothing when it   *)
(* reads RUNNING; otherwise it releases the server and the listener of i, *)
(* leaves a resource that was never built unbuilt, and touches no other   *)
(* workspace.                                                              *)
(***************************************************************************)
LEMMA CleanupEffect ==
    ASSUME TypeOK, NEW i \in Inc, NEW st, Cleanup(i, st)
    PROVE  /\ dir' \in BOOLEAN
           /\ grpc' \in [Inc -> {"none", "created", "stopped"}]
           /\ listener' \in [Inc -> {"none", "open", "failed", "closed"}]
           /\ \A j \in Inc \ {i} : grpc'[j] = grpc[j] /\ listener'[j] = listener[j]
           /\ st = "RUNNING" => grpc'[i] = grpc[i] /\ listener'[i] = listener[i]
           /\ st # "RUNNING" =>
                 /\ grpc'[i] # "created" /\ listener'[i] \notin {"open", "failed"}
                 /\ grpc[i] = "none" => grpc'[i] = "none"
<1>1. CASE st = "RUNNING"
  BY <1>1 DEF Cleanup, TypeOK
<1>2. CASE st # "RUNNING"
  BY <1>2 DEF Cleanup, TypeOK
<1>3. QED
  BY <1>1, <1>2

(***************************************************************************)
(* NewWorkSpace returning (its deferred cleanup included) keeps the        *)
(* invariant, whatever it returns and whatever w.state it reads.           *)
(***************************************************************************)
LEMMA ReturnIInv ==
    ASSUME IInv, NEW i \in Inc, NEW res \in {"ok", "err"}, Return(i, res)
    PROVE  IInv'
<1> USE DEF IInv, TypeOK
<1>1. /\ dir' \in BOOLEAN
      /\ grpc' \in [Inc -> {"none", "created", "stopped"}]
      /\ listener' \in [Inc -> {"none", "open", "failed", "closed"}]
      /\ \A j \in Inc \ {i} : grpc'[j] = grpc[j] /\ listener'[j] = listener[j]
      /\ state[i] = "RUNNING" => grpc'[i] = grpc[i] /\ listener'[i] = listener[i]
      /\ state[i] # "RUNNING" =>
            /\ grpc'[i] # "created" /\ listener'[i] \notin {"open", "failed"}
            /\ grpc[i] = "none" => grpc'[i] = "none"
  BY CleanupEffect DEF Return
<1>2. /\ result' = [result EXCEPT ![i] = res]
      /\ ctor' = [ctor EXCEPT ![i] = "returned"]
      /\ UNCHANGED <<state, srv, err, closes>>
  BY DEF Return
<1>3. TypeOK'
  BY <1>1, <1>2 DEF CtorPc
<1>4. ASSUME NEW j \in Inc PROVE WsInv(j)'
  <2>1. CASE j = i
    BY <1>1, <1>2, <2>1 DEF WsInv, Early
  <2>2. CASE j # i
    BY <1>1, <1>2, <2>2 DEF WsInv
  <2>3. QED
    BY <2>1, <2>2
<1>5. QED
  BY <1>3, <1>4

(***************************************************************************)
(* The body of Close (state := CLOSED, then cleanup) keeps the invariant   *)
(* for a workspace whose constructor is past building.                     *)
(***************************************************************************)
LEMMA CloseBodyIInv ==
    ASSUME IInv, NEW i \in Inc, CloseBody(i), ctor[i] \notin Early,
           ctor' = ctor, result' = result, err' \in [Inc -> {"nil", "err"}],
           srv' \in [Inc -> SrvPc], \A j \in Inc \ {i} : srv'[j] = srv[j],
           closes' \in [Inc -> 0..MaxClose]
    PROVE  IInv'
<1> USE DEF IInv, TypeOK
<1>1. /\ dir' \in BOOLEAN
      /\ grpc' \in [Inc -> {"none", "created", "stopped"}]
      /\ listener' \in [Inc -> {"none", "open", "failed", "closed"}]
      /\ \A j \in Inc \ {i} : grpc'[j] = grpc[j] /\ listener'[j] = listener[j]
      /\ grpc'[i] # "created" /\ listener'[i] \notin {"open", "failed"}
  BY CleanupEffect DEF CloseBody
<1>2. state' = [state EXCEPT ![i] = "CLOSED"]
  BY DEF CloseBody
<1>3. TypeOK'
  BY <1>1, <1>2
<1>4. ASSUME NEW j \in Inc PROVE WsInv(j)'
  <2>1. CASE j = i
    BY <1>1, <1>2, <2>1 DEF WsInv, Early
  <2>2. CASE j # i
    BY <1>1, <1>2, <2>2 DEF WsInv
  <2>3. QED
    BY <2>1, <2>2
<1>5. QED
  BY <1>3, <1>4

(* Every step of Next, and every stutter, preserves it.  One step per     *)
(* action of a workspace i; the others' components are left alone.        *)
LEMMA NextIInv == IInv /\ [Next]_vars => IInv'
<1> SUFFICES ASSUME IInv, [Next]_vars PROVE IInv'
  OBVIOUS
<1> USE DEF IInv, WsInv, TypeOK, Early, CtorPc, SrvPc
<1>1. ASSUME NEW i \in Inc, RequestWorkspace(i) PROVE IInv'
  BY <1>1 DEF RequestWorkspace, Goto
<1>2. ASSUME NEW i \in Inc, ClearContents(i) PROVE IInv'
  <2>1. CASE dir' = FALSE /\ Goto(i, "mkdir")
                /\ UNCHANGED <<state, listener, grpc, srv, err, result, closes>>
    BY <1>2, <2>1 DEF ClearContents, Goto
  <2>2. CASE Return(i, "err")
    BY <2>2, ReturnIInv
  <2>3. QED
    BY <1>2, <2>1, <2>2 DEF ClearContents
<1>3. ASSUME NEW i \in Inc, MkdirAll(i) PROVE IInv'
  <2>1. CASE dir' = TRUE /\ Goto(i, "listen")
                /\ UNCHANGED <<state, listener, grpc, srv, err, result, closes>>
    BY <1>3, <2>1 DEF MkdirAll, Goto
  <2>2. CASE Return(i, "err")
    BY <2>2, ReturnIInv
  <2>3. QED
    BY <1>3, <2>1, <2>2 DEF MkdirAll
<1>4. ASSUME NEW i \in Inc, NewCustomListener(i) PROVE IInv'
  <2>1. CASE listener' = [listener EXCEPT ![i] = "open"] /\ Goto(i, "build")
                /\ UNCHANGED <<dir, state, grpc, srv, err, result, closes>>
    BY <1>4, <2>1 DEF NewCustomListener, Goto
  <2>2. CASE Return(i, "err")
    BY <2>2, ReturnIInv
  <2>3. QED
    BY <1>4, <2>1, <2>2 DEF NewCustomListener
<1>5. ASSUME NEW i \in Inc, StartServing(i) PROVE IInv'
  BY <1>5 DEF StartServing, Goto
<1>6. ASSUME NEW i \in Inc, SocketOperationCheck(i) PROVE IInv'
  BY <1>6 DEF SocketOperationCheck, Goto
<1>7. ASSUME NEW i \in Inc, Decide(i) PROVE IInv'
  BY <1>7, ReturnIInv DEF Decide
<1>8. ASSUME NEW i \in Inc, ServeStart(i) PROVE IInv'
  BY <1>8 DEF ServeStart
<1>9. ASSUME NEW i \in Inc, ServeReturns(i) PROVE IInv'
  BY <1>9 DEF ServeReturns
<1>10. ASSUME NEW i \in Inc, GoroutineClose(i) PROVE IInv'
  BY <1>10, CloseBodyIInv DEF GoroutineClose
<1>11. ASSUME NEW i \in Inc, Close(i) PROVE IInv'
  BY <1>11, CloseBodyIInv, WorkspaceAssumption DEF Close
<1>12. ASSUME NEW i \in Inc, ListenerFails(i) PROVE IInv'
  BY <1>12 DEF ListenerFails
<1>13. CASE UNCHANGED vars
  BY <1>13 DEF vars
<1>14. QED
  BY <1>1, <1>2, <1>3, <1>4, <1>5, <1>6, <1>7, <1>8, <1>9, <1>10, <1>11,
     <1>12, <1>13 DEF Next, Ctor, Goroutine

(***************************************************************************)
(* TypeCorrect: in every reachable state each variable has its type.      *)
(***************************************************************************)
THEOREM TypeCorrect == Spec => []TypeOK
<1>1. Spec => []IInv
  BY InitIInv, NextIInv, PTL DEF Spec
<1>2. IInv => TypeOK
  BY DEF IInv
<1>3. QED
  BY <1>1, <1>2, PTL

(***************************************************************************)
(* Consistent: for every number of workspaces built under one name, a     *)
(* CLOSED workspace (closed by its owner or by its serve goroutine's      *)
(* deferred Close) holds no gRPC server or open listener, and a built,    *)
(* RUNNING workspace holds both until its Serve returns: NewWorkSpace's    *)
(* deferred cleanup, reading w.state without the lock, never tears down a  *)
(* RUNNING workspace.                                                      *)
(***************************************************************************)
THEOREM Consistent == Spec => []WorkspaceConsistent
<1>1. Spec => []IInv
  BY InitIInv, NextIInv, PTL DEF Spec
<1>2. IInv => WorkspaceConsistent
  BY DEF IInv, WsInv, WorkspaceConsistent, Built
<1>3. QED
  BY <1>1, <1>2, PTL
=============================================================================
