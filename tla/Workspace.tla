------------------------------ MODULE Workspace ------------------------------
(***************************************************************************)
(* The per-client workspace of the Network Service Manager daemon          *)
(* (controlplane/pkg/nsmd/workspace.go).                                   *)
(*                                                                         *)
(* Three actors touch one Workspace value:                                 *)
(*   - the constructor NewWorkSpace, which builds the directory, the unix  *)
(*     socket listener and the gRPC server, sets state RUNNING, starts the *)
(*     serve goroutine, checks the socket and returns; its deferred        *)
(*     cleanup() runs on every return path, without the lock;              *)
(*   - the serve goroutine, which runs grpcServer.Serve and, when Serve    *)
(*     returns, calls w.Close() (deferred);                                *)
(*   - the owner of the returned workspace (the daemon), which calls       *)
(*     w.Close() when the client goes away or the daemon stops.            *)
(* The constructor's local err is captured by the goroutine's closure and  *)
(* written by both.                                                        *)
(*                                                                         *)
(* A workspace is named by its client, and its directory NsmBaseDir()+name *)
(* is shared by every workspace built under that name.  The model follows  *)
(* the successive incarnations 1..Incarnations of one name: incarnation i+1 *)
(* is requested once incarnation i failed or was closed by its owner.      *)
(*                                                                         *)
(* Data is abstracted to what the properties tell apart: the directory is  *)
(* present or not, the listener and the gRPC server are in a lifecycle     *)
(* state, err is nil or an error.                                          *)
(***************************************************************************)
EXTENDS Naturals

CONSTANTS
    Incarnations,   \* number of workspaces successively built under one name
    MaxClose        \* bound on the owner's calls of w.Close() per workspace

ASSUME WorkspaceAssumption ==
    /\ Incarnations \in Nat \ {0}
    /\ MaxClose \in Nat

Inc == 1..Incarnations

VARIABLES
    dir,        \* the directory NsmDirectory() of the name exists on disk
    state,      \* state[i]: w.state, "NEW", "RUNNING" or "CLOSED"
    listener,   \* listener[i]: "none", "open", "failed" (fatal Accept error), "closed"
    grpc,       \* grpc[i]: w.grpcServer, "none", "created" or "stopped"
    ctor,       \* ctor[i]: where NewWorkSpace is ("idle" before it is called)
    srv,        \* srv[i]: where the serve goroutine is
    err,        \* err[i]: the constructor's err, shared with the goroutine
    result,     \* result[i]: "none", "ok" (w, nil) or "err" (nil, err)
    closes      \* closes[i]: the owner's calls of w.Close()

vars == <<dir, state, listener, grpc, ctor, srv, err, result, closes>>

CtorPc == {"idle", "clear", "mkdir", "listen", "build", "check", "decide", "returned"}
SrvPc  == {"idle", "started", "serving", "closing", "done"}

TypeOK ==
    /\ dir \in BOOLEAN
    /\ state \in [Inc -> {"NEW", "RUNNING", "CLOSED"}]
    /\ listener \in [Inc -> {"none", "open", "failed", "closed"}]
    /\ grpc \in [Inc -> {"none", "created", "stopped"}]
    /\ ctor \in [Inc -> CtorPc]
    /\ srv \in [Inc -> SrvPc]
    /\ err \in [Inc -> {"nil", "err"}]
    /\ result \in [Inc -> {"none", "ok", "err"}]
    /\ closes \in [Inc -> 0..MaxClose]

-----------------------------------------------------------------------------
(* Mutant: cleanup() tears down only a workspace still NEW.                *)
CleanupOnlyWhenNew(i, st) ==
    IF st = "NEW"
    THEN /\ dir' = FALSE
         /\ grpc' = [grpc EXCEPT ![i] = IF @ = "none" THEN "none" ELSE "stopped"]
         /\ listener' = [listener EXCEPT ![i] = IF @ = "none" THEN "none" ELSE "closed"]
    ELSE UNCHANGED <<dir, grpc, listener>>

(* Mutant: cleanup() removes the directory but neither stops the server   *)
(* nor closes the listener.                                                *)
CleanupDirectoryOnly(i, st) ==
    IF st # "RUNNING"
    THEN /\ dir' = FALSE
         /\ UNCHANGED <<grpc, listener>>
    ELSE UNCHANGED <<dir, grpc, listener>>

(***************************************************************************)
(* cleanup() of workspace i with the value st of w.state it reads: when st *)
(* is not RUNNING it removes the directory (clearContents), stops the gRPC *)
(* server when there is one and closes the listener when there is one      *)
(* (grpc Stop closes the listeners it serves as well).  Errors are ignored. *)
(***************************************************************************)
Cleanup(i, st) ==
    IF st # "RUNNING"
    THEN /\ dir' = FALSE
         /\ grpc' = [grpc EXCEPT ![i] = IF @ = "none" THEN "none" ELSE "stopped"]
         /\ listener' = [listener EXCEPT ![i] = IF @ = "none" THEN "none" ELSE "closed"]
    ELSE UNCHANGED <<dir, grpc, listener>>

(* NewWorkSpace returns res; the deferred w.cleanup() runs, unlocked.      *)
Return(i, res) ==
    /\ result' = [result EXCEPT ![i] = res]
    /\ ctor' = [ctor EXCEPT ![i] = "returned"]
    /\ Cleanup(i, state[i])
    /\ UNCHANGED <<state, srv, err, closes>>

(* Set the constructor of i to step pc.                                    *)
Goto(i, pc) == ctor' = [ctor EXCEPT ![i] = pc]

(* No workspace is built yet; a directory may be left by an earlier daemon. *)
Init ==
    /\ dir \in BOOLEAN
    /\ state = [i \in Inc |-> "NEW"]
    /\ listener = [i \in Inc |-> "none"]
    /\ grpc = [i \in Inc |-> "none"]
    /\ ctor = [i \in Inc |-> "idle"]
    /\ srv = [i \in Inc |-> "idle"]
    /\ err = [i \in Inc |-> "nil"]
    /\ result = [i \in Inc |-> "none"]
    /\ closes = [i \in Inc |-> 0]

(* The daemon calls NewWorkSpace(nsm, name, restore) for incarnation i     *)
(* once the previous one failed or its owner closed it.  The first may be  *)
(* a restore of a workspace from before a restart (restore = TRUE skips    *)
(* clearContents); a client's request passes restore = FALSE.              *)
RequestWorkspace(i) ==
    /\ ctor[i] = "idle"
    /\ i > 1 => result[i - 1] = "err" \/ closes[i - 1] > 0
    /\ \/ Goto(i, "clear")
       \/ i = 1 /\ Goto(i, "mkdir")
    /\ UNCHANGED <<dir, state, listener, grpc, srv, err, result, closes>>

(* if !restore { if err := w.clearContents(); err != nil { return nil, err } } *)
ClearContents(i) ==
    /\ ctor[i] = "clear"
    /\ \/ /\ dir' = FALSE
          /\ Goto(i, "mkdir")
          /\ UNCHANGED <<state, listener, grpc, srv, err, result, closes>>
       \/ /\ dir                \* Stat or RemoveAll failed on a present directory
          /\ Return(i, "err")

(* os.MkdirAll(w.NsmDirectory(), folderMask); return nil, err on failure.  *)
MkdirAll(i) ==
    /\ ctor[i] = "mkdir"
    /\ \/ /\ dir' = TRUE
          /\ Goto(i, "listen")
          /\ UNCHANGED <<state, listener, grpc, srv, err, result, closes>>
       \/ Return(i, "err")

(* listener, err := NewCustomListener(socket); return nil, err on failure. *)
NewCustomListener(i) ==
    /\ ctor[i] = "listen"
    /\ \/ /\ listener' = [listener EXCEPT ![i] = "open"]
          /\ Goto(i, "build")
          /\ UNCHANGED <<dir, state, grpc, srv, err, result, closes>>
       \/ Return(i, "err")

(* The servers are created and registered on a new grpc.Server, w.state is *)
(* set to RUNNING (without the lock) and the serve goroutine is started.   *)
StartServing(i) ==
    /\ ctor[i] = "build"
    /\ grpc' = [grpc EXCEPT ![i] = "created"]
    /\ state' = [state EXCEPT ![i] = "RUNNING"]
    /\ srv' = [srv EXCEPT ![i] = "started"]
    /\ Goto(i, "check")
    /\ UNCHANGED <<dir, listener, err, result, closes>>

(* conn, err := tools.SocketOperationCheck(...): a blocking dial with a    *)
(* 5 s timeout.  It can succeed only while the server accepts on the open  *)
(* listener; it can always time out.  It assigns the shared err.           *)
SocketOperationCheck(i) ==
    /\ ctor[i] = "check"
    /\ \E e \in {"nil", "err"} :
          /\ e = "nil" => srv[i] = "serving" /\ listener[i] = "open"
          /\ err' = [err EXCEPT ![i] = e]
    /\ Goto(i, "decide")
    /\ UNCHANGED <<dir, state, listener, grpc, srv, result, closes>>

(* if err != nil { return nil, err }; conn.Close(); return w, nil.  err is *)
(* read here, after the goroutine may have overwritten it.                 *)
Decide(i) ==
    /\ ctor[i] = "decide"
    /\ Return(i, IF err[i] = "nil" THEN "ok" ELSE "err")

(* The goroutine enters grpcServer.Serve(w.listener).  Serve on a stopped  *)
(* server returns ErrServerStopped at once, and Accept on a listener that *)
(* is closed or broken fails at once; either way Serve closes the listener *)
(* before it returns.                                                      *)
ServeStart(i) ==
    /\ srv[i] = "started"
    /\ IF grpc[i] = "created" /\ listener[i] = "open"
       THEN /\ srv' = [srv EXCEPT ![i] = "serving"]
            /\ UNCHANGED <<err, listener>>
       ELSE /\ srv' = [srv EXCEPT ![i] = "closing"]
            /\ err' = [err EXCEPT ![i] = "err"]
            /\ listener' = [listener EXCEPT ![i] = "closed"]
    /\ UNCHANGED <<dir, state, grpc, ctor, result, closes>>

(* err = w.grpcServer.Serve(w.listener) returns: nil after Stop, an error  *)
(* when Accept fails for good or the listener is closed under it.  Serve's *)
(* deferred code closes the listener.  err is the shared one.              *)
ServeReturns(i) ==
    /\ srv[i] = "serving"
    /\ grpc[i] = "stopped" \/ listener[i] \in {"failed", "closed"}
    /\ err' = [err EXCEPT ![i] = IF grpc[i] = "stopped" THEN "nil" ELSE "err"]
    /\ srv' = [srv EXCEPT ![i] = "closing"]
    /\ listener' = [listener EXCEPT ![i] = "closed"]
    /\ UNCHANGED <<dir, state, grpc, ctor, result, closes>>

(* w.Close(): under the lock, state = CLOSED and cleanup().                *)
CloseBody(i) ==
    /\ state' = [state EXCEPT ![i] = "CLOSED"]
    /\ Cleanup(i, "CLOSED")

(* The goroutine's deferred w.Close().                                     *)
GoroutineClose(i) ==
    /\ srv[i] = "closing"
    /\ srv' = [srv EXCEPT ![i] = "done"]
    /\ CloseBody(i)
    /\ UNCHANGED <<ctor, err, result, closes>>

(* The owner of a returned workspace calls w.Close().                      *)
Close(i) ==
    /\ result[i] = "ok"
    /\ closes[i] < MaxClose
    /\ closes' = [closes EXCEPT ![i] = @ + 1]
    /\ CloseBody(i)
    /\ UNCHANGED <<ctor, srv, err, result>>

(* Accept on the unix socket fails with an error that is not temporary    *)
(* (grpc's Serve retries temporary ones with a backoff), for instance the *)
(* descriptor closed by another owner of the socket path.                  *)
ListenerFails(i) ==
    /\ listener[i] = "open"
    /\ listener' = [listener EXCEPT ![i] = "failed"]
    /\ UNCHANGED <<dir, state, grpc, ctor, srv, err, result, closes>>

Ctor(i) == ClearContents(i) \/ MkdirAll(i) \/ NewCustomListener(i)
           \/ StartServing(i) \/ SocketOperationCheck(i) \/ Decide(i)

Goroutine(i) == ServeStart(i) \/ ServeReturns(i) \/ GoroutineClose(i)

Next == \E i \in Inc :
           \/ RequestWorkspace(i) \/ Ctor(i) \/ Goroutine(i)
           \/ Close(i) \/ ListenerFails(i)

(* Go runs every runnable goroutine eventually: each constructor and each  *)
(* serve goroutine is weakly fair.  The owner and the environment are not. *)
Spec == Init /\ [][Next]_vars
        /\ \A i \in Inc : WF_vars(Ctor(i)) /\ WF_vars(Goroutine(i))

-----------------------------------------------------------------------------
(* Whether the constructor of i has built the server (and not failed).     *)
Built(i) == ctor[i] \in {"check", "decide", "returned"} /\ result[i] # "err"

(***************************************************************************)
(* WorkspaceConsistent: a CLOSED workspace holds no gRPC server or open    *)
(* listener (Close and the deferred cleanup in NewWorkSpace), and a        *)
(* workspace that is RUNNING once its constructor has built it holds both *)
(* until its Serve returns (no cleanup tears down a RUNNING workspace; only *)
(* Serve's own exit closes the listener before the deferred Close).       *)
(***************************************************************************)
WorkspaceConsistent == \A i \in Inc :
    /\ state[i] = "CLOSED" => grpc[i] # "created" /\ listener[i] \notin {"open", "failed"}
    /\ state[i] = "RUNNING" /\ Built(i) /\ srv[i] # "closing" =>
          grpc[i] = "created" /\ listener[i] # "closed"

(***************************************************************************)
(* ServeEndsAfterClose: once a workspace is CLOSED its serve goroutine     *)
(* eventually finishes (cleanup stops the gRPC server, so Serve returns).  *)
(***************************************************************************)
ServeEndsAfterClose ==
    \A i \in Inc : (state[i] = "CLOSED") ~> (srv[i] \in {"idle", "done"})

(***************************************************************************)
(* RunningWorkspaceKeepsDirectory (spec 4.3: cleanup runs exactly once;    *)
(* the directory holds the workspace's server socket): while a workspace   *)
(* that NewWorkSpace returned is RUNNING, its directory exists.  A second  *)
(* cleanup of an earlier workspace of the same name would remove it.       *)
(***************************************************************************)
RunningWorkspaceKeepsDirectory == \A i \in Inc :
    state[i] = "RUNNING" /\ result[i] = "ok" => dir
=============================================================================
