---------------------------- MODULE ResourceCache ----------------------------
(***************************************************************************)
(* The registry's Kubernetes resource cache                                *)
(* (k8s/pkg/registryserver/resource_cache/resource_cache.go) specialised   *)
(* to NetworkServiceManager records (nsm_cache.go).                        *)
(*                                                                         *)
(* Every operation on the cache's map is an event sent on one buffered     *)
(* channel eventCh and applied by a single goroutine, run(), which selects *)
(* between eventCh and the stop channel.  Two kinds of producer send:      *)
(*   - the shared informer's handlers (AddFunc, UpdateFunc, DeleteFunc),   *)
(*     called from the informer goroutine for each change it observes in   *)
(*     the API server;                                                     *)
(*   - callers of Get, which send a get event and block on its reply.      *)
(* StartWithResync first lists the API server and fills the map directly   *)
(* (replace), then starts the informer and run().                          *)
(*                                                                         *)
(* A record is abstracted to its resource version: store[k] = 0 when the   *)
(* NSM named k does not exist, otherwise the version of its last write.    *)
(* Versions come from one counter, so two writes never share a version.   *)
(***************************************************************************)
EXTENDS Naturals, Sequences

CONSTANTS
    Keys,       \* NSM names
    Clients,    \* goroutines calling Get
    MaxWrites,  \* bound on the writes to the API server
    MaxGets,    \* bound on each client's Get calls
    ChanCap,    \* capacity of eventCh (defaultChannelSize, 40 in the code)
    Resync      \* TRUE: StartWithResync (list, replace); FALSE: Start(f)

ASSUME ResourceCacheAssumption ==
    /\ Keys # {} /\ Clients # {}
    /\ MaxWrites \in Nat /\ MaxGets \in Nat
    /\ ChanCap \in Nat \ {0}
    /\ Resync \in BOOLEAN

Versions == 0..MaxWrites          \* 0 stands for "no such record"

Event == [op : {"add", "update", "delete", "get"}, key : Keys,
          val : Versions, from : Clients \cup {"informer"}]

VARIABLES
    store,      \* the API server: store[k] is the version of NSM k, 0 if absent
    writes,     \* number of writes to the API server so far
    phase,      \* "new" before Start, "started" after
    informer,   \* "off", "on" (handlers being called), "stopped"
    seen,       \* the informer's own view: what it last reported for each key
    eventCh,    \* the buffered channel, oldest event first
    cache,      \* networkServiceManagers: cache[k] is a version, 0 if absent
    run,        \* the run() goroutine: "idle", "running", "exited"
    stopped,    \* stopFunc was called: both stop channels are closed
    client,     \* client[c]: "idle" or "waiting" (blocked in get on getCh)
    reply,      \* reply[c]: the value the last completed Get returned
    gets        \* gets[c]: number of Get calls by c

vars == <<store, writes, phase, informer, seen, eventCh, cache, run, stopped,
          client, reply, gets>>

TypeOK ==
    /\ store \in [Keys -> Versions]
    /\ writes \in 0..MaxWrites
    /\ phase \in {"new", "started"}
    /\ informer \in {"off", "on", "stopped"}
    /\ seen \in [Keys -> Versions]
    /\ eventCh \in Seq(Event)
    /\ Len(eventCh) <= ChanCap
    /\ cache \in [Keys -> Versions]
    /\ run \in {"idle", "running", "exited"}
    /\ stopped \in BOOLEAN
    /\ client \in [Clients -> {"idle", "waiting"}]
    /\ reply \in [Clients -> Versions]
    /\ gets \in [Clients -> 0..MaxGets]

-----------------------------------------------------------------------------
(* A send on eventCh; it blocks (the step is not enabled) while full.      *)
Send(e) ==
    /\ Len(eventCh) < ChanCap
    /\ eventCh' = Append(eventCh, e)

(***************************************************************************)
(* e.accept(config) in run(): the resourceAdded/Updated/Deleted/Get funcs *)
(* of NetworkServiceManagerCache applied to the map; a get event answers   *)
(* on its reply channel.                                                   *)
(***************************************************************************)
Accept(e) ==
    CASE e.op \in {"add", "update"} -> cache' = [cache EXCEPT ![e.key] = e.val]
      [] e.op = "delete" -> cache' = [cache EXCEPT ![e.key] = 0]
      [] e.op = "get" -> UNCHANGED cache

Init ==
    /\ store \in [Keys -> {0}]
    /\ writes = 0
    /\ phase = "new"
    /\ informer = "off"
    /\ seen = [k \in Keys |-> 0]
    /\ eventCh = <<>>
    /\ cache = [k \in Keys |-> 0]
    /\ run = "idle"
    /\ stopped = FALSE
    /\ client = [c \in Clients |-> "idle"]
    /\ reply = [c \in Clients |-> 0]
    /\ gets = [c \in Clients |-> 0]

(* Another component creates, updates or deletes NSM k in the API server. *)
WriteStore(k) ==
    /\ writes < MaxWrites
    /\ writes' = writes + 1
    /\ store' \in {[store EXCEPT ![k] = v] : v \in {0, writes + 1}}
    /\ store'[k] # store[k]
    /\ UNCHANGED <<phase, informer, seen, eventCh, cache, run, stopped, client, reply, gets>>

(***************************************************************************)
(* replace(resources): a fresh map, then resourceAdded(&r) for each listed *)
(* record r.  &r is the address of the loop's one variable r (Go before   *)
(* 1.22), so every listed name ends up mapped to the same record: the one *)
(* listed last, in the API server's list order (any order here).  The     *)
(* possible maps for the listing init (init[k] = 0: k not listed).         *)
(***************************************************************************)
Replace(init) ==
    LET listed == {k \in Keys : init[k] # 0}
    IN IF listed = {} THEN {[k \in Keys |-> 0]}
       ELSE {[k \in Keys |-> IF k \in listed THEN init[last] ELSE 0] : last \in listed}

(***************************************************************************)
(* Start / StartWithResync: replace(init) resets the map to the listed     *)
(* records (none for Start(f)), then cache.start starts the informer and  *)
(* the run() goroutine.  The informer's own list happens later, in its    *)
(* goroutine, and knows nothing of what replace put in the map.            *)
(***************************************************************************)
Start ==
    /\ phase = "new"
    /\ phase' = "started"
    /\ cache' \in Replace(IF Resync THEN store ELSE [k \in Keys |-> 0])
    /\ informer' = "on"
    /\ run' = "running"
    /\ UNCHANGED <<store, writes, seen, eventCh, stopped, client, reply, gets>>

(* Mutant: UpdateFunc drops updates (a wrong type check on old).           *)
InformerDeliverNoUpdate(k) ==
    /\ informer = "on"
    /\ seen[k] # store[k]
    /\ IF seen[k] # 0 /\ store[k] # 0
       THEN UNCHANGED eventCh
       ELSE Send([op |-> IF seen[k] = 0 THEN "add" ELSE "delete", key |-> k,
                  val |-> store[k], from |-> "informer"])
    /\ seen' = [seen EXCEPT ![k] = store[k]]
    /\ UNCHANGED <<store, writes, phase, informer, cache, run, stopped, client, reply, gets>>

(* Mutant: no DeleteFunc is registered, so deletions are never reported.  *)
InformerDeliverNoDelete(k) ==
    /\ informer = "on"
    /\ seen[k] # store[k]
    /\ store[k] # 0
    /\ Send([op |-> IF seen[k] = 0 THEN "add" ELSE "update", key |-> k,
              val |-> store[k], from |-> "informer"])
    /\ seen' = [seen EXCEPT ![k] = store[k]]
    /\ UNCHANGED <<store, writes, phase, informer, cache, run, stopped, client, reply, gets>>

(***************************************************************************)
(* The informer reports a difference between its view and the API server  *)
(* for key k through the handler registered in addEventHandlers: OnAdd for *)
(* a record it has not seen, OnUpdate for a changed one (forwarded since   *)
(* old is a *NetworkServiceManager), OnDelete for a removed one (keyFunc   *)
(* gives the name).  The handler's send blocks while eventCh is full.      *)
(***************************************************************************)
InformerDeliver(k) ==
    /\ informer = "on"
    /\ seen[k] # store[k]
    /\ LET op == IF seen[k] = 0 THEN "add"
                 ELSE IF store[k] = 0 THEN "delete" ELSE "update"
       IN Send([op |-> op, key |-> k, val |-> store[k], from |-> "informer"])
    /\ seen' = [seen EXCEPT ![k] = store[k]]
    /\ UNCHANGED <<store, writes, phase, informer, cache, run, stopped, client, reply, gets>>

(* c calls Get(k): get sends a resourceGetEvent and blocks on getCh.       *)
Get(c, k) ==
    /\ client[c] = "idle"
    /\ gets[c] < MaxGets
    /\ Send([op |-> "get", key |-> k, val |-> 0, from |-> c])
    /\ client' = [client EXCEPT ![c] = "waiting"]
    /\ gets' = [gets EXCEPT ![c] = @ + 1]
    /\ UNCHANGED <<store, writes, phase, informer, seen, cache, run, stopped, reply>>

(* Mutant: two goroutines read eventCh, so the event accepted next may be *)
(* any queued one, not the oldest.                                          *)
RunReceiveAny ==
    /\ run = "running"
    /\ \E i \in 1..Len(eventCh) :
         LET e == eventCh[i] IN
         /\ eventCh' = SubSeq(eventCh, 1, i - 1) \o SubSeq(eventCh, i + 1, Len(eventCh))
         /\ Accept(e)
         /\ IF e.op = "get"
            THEN /\ client' = [client EXCEPT ![e.from] = "idle"]
                 /\ reply' = [reply EXCEPT ![e.from] = cache[e.key]]
            ELSE UNCHANGED <<client, reply>>
    /\ UNCHANGED <<store, writes, phase, informer, seen, run, stopped, gets>>

(* run() receives the oldest event and accepts it; for a get it sends the  *)
(* map's value on getCh, which its caller is waiting on.                   *)
RunReceive ==
    /\ run = "running"
    /\ eventCh # <<>>
    /\ LET e == Head(eventCh) IN
         /\ eventCh' = Tail(eventCh)
         /\ Accept(e)
         /\ IF e.op = "get"
            THEN /\ client' = [client EXCEPT ![e.from] = "idle"]
                 /\ reply' = [reply EXCEPT ![e.from] = cache[e.key]]
            ELSE UNCHANGED <<client, reply>>
    /\ UNCHANGED <<store, writes, phase, informer, seen, run, stopped, gets>>

(* run() selects the closed stop channel and returns; select picks at      *)
(* random when an event is also ready.                                     *)
RunExit ==
    /\ run = "running"
    /\ stopped
    /\ run' = "exited"
    /\ UNCHANGED <<store, writes, phase, informer, seen, eventCh, cache, stopped, client, reply, gets>>

(* stopFunc: close(informerStopCh); close(cacheStopCh).                     *)
Stop ==
    /\ phase = "started"
    /\ ~stopped
    /\ stopped' = TRUE
    /\ informer' = "stopped"
    /\ UNCHANGED <<store, writes, phase, seen, eventCh, cache, run, client, reply, gets>>

Next ==
    \/ \E k \in Keys : WriteStore(k) \/ InformerDeliver(k)
    \/ Start
    \/ \E c \in Clients, k \in Keys : Get(c, k)
    \/ RunReceive
    \/ RunExit
    \/ Stop

(* The daemon starts the cache; the informer and run() goroutines are      *)
(* weakly fair.  Writers, callers and the owner of stopFunc are not.       *)
Spec == Init /\ [][Next]_vars /\ WF_vars(Start)
        /\ \A k \in Keys : WF_vars(InformerDeliver(k))
        /\ WF_vars(RunReceive) /\ WF_vars(RunExit)

-----------------------------------------------------------------------------
(* The events for key k still in the channel.                              *)
PendingFor(k) == {i \in 1..Len(eventCh) : eventCh[i].key = k /\ eventCh[i].op # "get"}

(***************************************************************************)
(* CacheTracksInformer: once the informer's events for a key have all been *)
(* applied by run(), the map holds what the informer last reported.  The  *)
(* channel is FIFO and run() is its only reader, so events of the informer *)
(* goroutine apply in the order it saw them.                               *)
(***************************************************************************)
CacheTracksInformer ==
    phase = "started" => \A k \in Keys : PendingFor(k) = {} => cache[k] = seen[k]

(***************************************************************************)
(* CacheRefinesCopy: the cache implements NsmCacheCopy, with the API      *)
(* server, the map and the Get replies as they are.  Every change run()   *)
(* makes to the map moves one NSM's record towards the API server's and   *)
(* never back, and every Get answers with the map as run() holds it; the  *)
(* informer's and the callers' sends are invisible to a Get caller.  It   *)
(* rests on one FIFO channel with a single reader and an informer that    *)
(* reports each key's changes in order.                                    *)
(***************************************************************************)
Copy == INSTANCE NsmCacheCopy

CacheRefinesCopy == Copy!Spec
(***************************************************************************)
(* CacheConverges (spec 4.2: "The registry is eventually consistent"):     *)
(* unless the cache is stopped, once the writes to the API server are over *)
(* the cache eventually holds exactly the API server's records.            *)
(***************************************************************************)
CacheConverges == <>[](stopped \/ cache = store)

(***************************************************************************)
(* GetEventuallyReturns: a Get call eventually returns a value.            *)
(***************************************************************************)
GetEventuallyReturns == \A c \in Clients : client[c] = "waiting" ~> client[c] = "idle"
=============================================================================
