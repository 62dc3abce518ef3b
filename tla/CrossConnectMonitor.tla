------------------------- MODULE CrossConnectMonitor -------------------------
(***************************************************************************)
(* The cross-connect monitor (k8s/cmd/crossconnect-monitor).               *)
(*                                                                         *)
(* main starts a signal goroutine and runs lookForNSMServers: every second *)
(* it lists the NetworkServiceManager CRDs and, for each URL not yet in    *)
(* the package-level map managers, records it and starts                   *)
(* monitorCrossConnects(url, true) in a goroutine.  That goroutine dials   *)
(* the NSM, opens the MonitorCrossConnects stream and prints events until  *)
(* Recv fails.  The signal goroutine sets the package-level flag closing   *)
(* and releases the WaitGroup; the loop ends at its next test of closing   *)
(* and main returns, ending every goroutine.                               *)
(*                                                                         *)
(* The environment registers and removes NSMs and takes their servers up   *)
(* and down; MaxChanges bounds how often.                                     *)
(***************************************************************************)
EXTENDS Naturals

CONSTANTS
    URLs,       \* the NSMs' Status.URL values
    MaxChanges  \* bound on registrations, removals and server restarts

ASSUME CrossConnectMonitorAssumption ==
    /\ URLs # {}
    /\ MaxChanges \in Nat

VARIABLES
    registry,   \* the URLs of the NSM CRDs the List call returns
    up,         \* up[u]: the NSM at u serves MonitorCrossConnects
    changes,    \* environment changes so far
    managers,   \* the managers map, as the set of its keys
    mon,        \* mon[u]: the monitor goroutine for u
    starts,     \* starts[u]: monitor goroutines started for u (history)
    closing,    \* the closing flag
    signal,     \* the signal goroutine: "waiting" or "done" (wg.Done called)
    main        \* "loop" (lookForNSMServers), "exited"

vars == <<registry, up, changes, managers, mon, starts, closing, signal, main>>

MonPc == {"none", "started", "streaming", "returned"}

TypeOK ==
    /\ registry \subseteq URLs
    /\ up \in [URLs -> BOOLEAN]
    /\ changes \in 0..MaxChanges
    /\ managers \subseteq URLs
    /\ mon \in [URLs -> MonPc]
    /\ starts \in [URLs -> Nat]
    /\ closing \in BOOLEAN
    /\ signal \in {"waiting", "done"}
    /\ main \in {"loop", "exited"}

-----------------------------------------------------------------------------
Init ==
    /\ registry = {}
    /\ up \in [URLs -> BOOLEAN]
    /\ changes = 0
    /\ managers = {}
    /\ mon = [u \in URLs |-> "none"]
    /\ starts = [u \in URLs |-> 0]
    /\ closing = FALSE
    /\ signal = "waiting"
    /\ main = "loop"

(* An NSM is registered or its CRD deleted, or its server goes up or down. *)
Environment(u) ==
    /\ changes < MaxChanges
    /\ changes' = changes + 1
    /\ \/ registry' = registry \cup {u} /\ UNCHANGED up
       \/ registry' = registry \ {u} /\ UNCHANGED up
       \/ up' = [up EXCEPT ![u] = ~@] /\ UNCHANGED registry
    /\ UNCHANGED <<managers, mon, starts, closing, signal, main>>

(* Mutant: the loop starts a monitor for a listed URL even when the map    *)
(* has it.                                                                  *)
ScanNoLookup ==
    /\ main = "loop"
    /\ ~closing
    /\ managers' = managers \cup registry
    /\ mon' = [u \in URLs |-> IF u \in registry THEN "started" ELSE mon[u]]
    /\ starts' = [u \in URLs |-> IF u \in registry THEN starts[u] + 1 ELSE starts[u]]
    /\ UNCHANGED <<registry, up, changes, closing, signal, main>>

(* Mutant: the map test is inverted (if ok instead of if !ok).           *)
ScanInverted ==
    /\ main = "loop"
    /\ ~closing
    /\ LET known == registry \cap managers IN
         /\ mon' = [u \in URLs |-> IF u \in known THEN "started" ELSE mon[u]]
         /\ starts' = [u \in URLs |-> IF u \in known THEN starts[u] + 1 ELSE starts[u]]
    /\ UNCHANGED <<registry, up, changes, managers, closing, signal, main>>

(***************************************************************************)
(* One iteration of the for !closing loop: List, then for every listed URL *)
(* absent from managers, managers[url] = "true" and go                     *)
(* monitorCrossConnects(url, true).  A URL that stays in the map is never  *)
(* looked at again.                                                         *)
(***************************************************************************)
Scan ==
    /\ main = "loop"
    /\ ~closing
    /\ LET new == registry \ managers IN
         /\ managers' = managers \cup new
         /\ mon' = [u \in URLs |-> IF u \in new THEN "started" ELSE mon[u]]
         /\ starts' = [u \in URLs |-> IF u \in new THEN starts[u] + 1 ELSE starts[u]]
    /\ UNCHANGED <<registry, up, changes, closing, signal, main>>

(* The loop sees closing, lookForNSMServers returns, wg.Wait() returns     *)
(* (the signal goroutine called wg.Done before the loop could see the      *)
(* flag) and main returns: the process and all its goroutines end.         *)
Exit ==
    /\ main = "loop"
    /\ closing
    /\ signal = "done"
    /\ main' = "exited"
    /\ UNCHANGED <<registry, up, changes, managers, mon, starts, closing, signal>>

(***************************************************************************)
(* monitorCrossConnects: grpc.Dial does not block, so the call that fails  *)
(* on a server that is down is MonitorCrossConnects; then the goroutine    *)
(* returns, leaving url in managers.                                       *)
(***************************************************************************)
OpenStream(u) ==
    /\ main = "loop"
    /\ mon[u] = "started"
    /\ mon' = [mon EXCEPT ![u] = IF up[u] THEN "streaming" ELSE "returned"]
    /\ UNCHANGED <<registry, up, changes, managers, starts, closing, signal, main>>

(* stream.Recv() fails once the server is gone: log and return.            *)
RecvFails(u) ==
    /\ main = "loop"
    /\ mon[u] = "streaming"
    /\ ~up[u]
    /\ mon' = [mon EXCEPT ![u] = "returned"]
    /\ UNCHANGED <<registry, up, changes, managers, starts, closing, signal, main>>

(* Mutant: the signal goroutine forgets wg.Done().                         *)
SignalWithoutDone ==
    /\ main = "loop"
    /\ signal = "waiting"
    /\ ~closing
    /\ closing' = TRUE
    /\ UNCHANGED <<registry, up, changes, managers, mon, starts, signal, main>>

(* The signal goroutine: <-c; closing = true; wg.Done().                   *)
Signal ==
    /\ main = "loop"
    /\ signal = "waiting"
    /\ closing' = TRUE
    /\ signal' = "done"
    /\ UNCHANGED <<registry, up, changes, managers, mon, starts, main>>

Next ==
    \/ \E u \in URLs : Environment(u) \/ OpenStream(u) \/ RecvFails(u)
    \/ Scan
    \/ Exit
    \/ Signal

(* The loop, main and the monitor goroutines are weakly fair; the          *)
(* environment and the signal are not.                                     *)
Spec == Init /\ [][Next]_vars
        /\ WF_vars(Scan) /\ WF_vars(Exit)
        /\ \A u \in URLs : WF_vars(OpenStream(u)) /\ WF_vars(RecvFails(u))

-----------------------------------------------------------------------------
(***************************************************************************)
(* MonitorStartedOnce: the lookup loop starts at most one monitor          *)
(* goroutine per URL over the life of the process, however often the NSM  *)
(* is listed, removed, re-registered or restarted: the managers map is     *)
(* never cleared for a continuous monitor.  It is also why an NSM whose   *)
(* monitor returned on an error is never monitored again.                  *)
(***************************************************************************)
MonitorStartedOnce == \A u \in URLs : starts[u] <= 1

(***************************************************************************)
(* RegisteredGetsMonitor: an NSM that is listed while the process is not   *)
(* closing eventually has had a monitor goroutine started, unless it is    *)
(* removed or the process starts closing first.                            *)
(***************************************************************************)
RegisteredGetsMonitor ==
    \A u \in URLs : (u \in registry /\ ~closing)
                        ~> (starts[u] > 0 \/ u \notin registry \/ closing)

(***************************************************************************)
(* ExitsAfterSignal: once the signal sets closing, the lookup loop ends    *)
(* and the process exits.                                                   *)
(***************************************************************************)
ExitsAfterSignal == closing ~> main = "exited"
=============================================================================
