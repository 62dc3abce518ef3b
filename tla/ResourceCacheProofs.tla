-------------------------- MODULE ResourceCacheProofs --------------------------
(***************************************************************************)
(* Proofs about ResourceCache: with Start(f) (no resync), after run() has  *)
(* applied the informer's events for a key the map holds what the informer *)
(* last reported for it, for every number of keys, callers, writes and     *)
(* every channel capacity; and the cache implements the abstract copy of  *)
(* NsmCacheCopy, whose catch-up steps never go back to an older record.   *)
(***************************************************************************)
EXTENDS ResourceCache, TLAPS

(* Event i of the channel is an informer event for key k.                  *)
IsPending(i, k) == eventCh[i].key = k /\ eventCh[i].op # "get"

(* Event i is the newest informer event for k still in the channel.        *)
Latest(i, k) ==
    /\ IsPending(i, k)
    /\ \A j \in (i + 1)..Len(eventCh) : ~IsPending(j, k)

(***************************************************************************)
(* What the informer goroutine, the channel and run() agree on for key k:  *)
(* the newest queued informer event for k carries the informer's current  *)
(* view of k, and with none queued the map already holds that view.       *)
(***************************************************************************)
KeyInv(k) ==
    /\ \A i \in 1..Len(eventCh) : Latest(i, k) => eventCh[i].val = seen[k]
    /\ phase = "started" /\ PendingFor(k) = {} => cache[k] = seen[k]

(***************************************************************************)
(* Before Start the informer is off and has reported nothing, so only get  *)
(* events can be queued; the informer only runs once the cache started;   *)
(* a delete event carries no record.                                      *)
(***************************************************************************)
IInv ==
    /\ TypeOK
    /\ phase = "new" => /\ informer = "off"
                        /\ seen = [k \in Keys |-> 0]
                        /\ \A i \in 1..Len(eventCh) : eventCh[i].op = "get"
    /\ informer = "on" => phase = "started"
    /\ \A i \in 1..Len(eventCh) : eventCh[i].op = "delete" => eventCh[i].val = 0
    /\ \A k \in Keys : KeyInv(k)

-----------------------------------------------------------------------------
(* The initial state satisfies the inductive invariant.                   *)
LEMMA InitIInv == Init => IInv
<1> SUFFICES ASSUME Init PROVE IInv
    OBVIOUS
<1>1. TypeOK
    <2>1. store \in [Keys -> Versions]
        BY ResourceCacheAssumption DEF Init, Versions
    <2>2. eventCh \in Seq(Event) /\ Len(eventCh) <= ChanCap
        BY ResourceCacheAssumption DEF Init
    <2>3. cache \in [Keys -> Versions] /\ seen \in [Keys -> Versions]
        BY ResourceCacheAssumption DEF Init, Versions
    <2>4. reply \in [Clients -> Versions] /\ gets \in [Clients -> 0..MaxGets]
        BY ResourceCacheAssumption DEF Init, Versions
    <2>5. writes \in 0..MaxWrites
        BY ResourceCacheAssumption DEF Init
    <2>6. QED
        BY <2>1, <2>2, <2>3, <2>4, <2>5 DEF Init, TypeOK
<1>2. QED
    BY <1>1 DEF Init, IInv, KeyInv, Latest, IsPending, PendingFor

(* replace(init) maps every name to a version when init does.             *)
LEMMA ReplaceType ==
    ASSUME NEW init \in [Keys -> Versions]
    PROVE  Replace(init) \subseteq [Keys -> Versions]
BY DEF Replace

(***************************************************************************)
(* Every step keeps the variables in their types.                          *)
(***************************************************************************)
LEMMA NextTypeOK == TypeOK /\ [Next]_vars => TypeOK'
<1> SUFFICES ASSUME TypeOK, [Next]_vars PROVE TypeOK'
    OBVIOUS
<1> USE ResourceCacheAssumption DEF TypeOK, Versions
<1>1. ASSUME NEW k0 \in Keys, WriteStore(k0) PROVE TypeOK'
    <2>1. PICK v \in {0, writes + 1} : store' = [store EXCEPT ![k0] = v]
        BY <1>1 DEF WriteStore
    <2>2. QED
        BY <1>1, <2>1 DEF WriteStore
<1>2. ASSUME NEW k0 \in Keys, InformerDeliver(k0) PROVE TypeOK'
    BY <1>2 DEF InformerDeliver, Send, Event
<1>3. CASE Start
    <2>1. (IF Resync THEN store ELSE [k \in Keys |-> 0]) \in [Keys -> Versions]
        OBVIOUS
    <2>2. cache' \in [Keys -> Versions]
        BY <1>3, <2>1, ReplaceType DEF Start
    <2>3. QED
        BY <1>3, <2>2 DEF Start
<1>4. ASSUME NEW c \in Clients, NEW k0 \in Keys, Get(c, k0) PROVE TypeOK'
    <2>1. eventCh' \in Seq(Event) /\ Len(eventCh') <= ChanCap
        BY <1>4 DEF Get, Send, Event
    <2>2. gets' \in [Clients -> 0..MaxGets] /\ client' \in [Clients -> {"idle", "waiting"}]
        BY <1>4 DEF Get
    <2>3. QED
        BY <1>4, <2>1, <2>2 DEF Get
<1>5. CASE RunReceive
    <2> DEFINE e == Head(eventCh)
    <2>1. e \in Event
        BY <1>5 DEF RunReceive
    <2>2. eventCh' \in Seq(Event) /\ Len(eventCh') <= ChanCap
        BY <1>5 DEF RunReceive
    <2>3. cache' \in [Keys -> Versions]
        <3>1. CASE e.op \in {"add", "update"}
            BY <1>5, <2>1, <3>1 DEF RunReceive, Accept, Event
        <3>2. CASE e.op = "delete"
            <4>1. cache' = [cache EXCEPT ![e.key] = 0]
                BY <1>5, <3>2 DEF RunReceive, Accept
            <4>2. QED
                BY <2>1, <4>1 DEF Event
        <3>3. CASE e.op = "get"
            BY <1>5, <2>1, <3>3 DEF RunReceive, Accept, Event
        <3>4. QED
            BY <2>1, <3>1, <3>2, <3>3 DEF Event
    <2>4. client' \in [Clients -> {"idle", "waiting"}] /\ reply' \in [Clients -> Versions]
        BY <1>5, <2>1 DEF RunReceive, Event
    <2>5. QED
        BY <1>5, <2>2, <2>3, <2>4 DEF RunReceive
<1>6. CASE RunExit
    BY <1>6 DEF RunExit
<1>7. CASE Stop
    BY <1>7 DEF Stop
<1>8. CASE UNCHANGED vars
    BY <1>8 DEF vars
<1>9. QED
    BY <1>1, <1>2, <1>3, <1>4, <1>5, <1>6, <1>7, <1>8 DEF Next

(***************************************************************************)
(* Every step preserves IInv under Start(f): the informer's send appends  *)
(* its new view of one key as that key's newest event, run() takes the    *)
(* oldest event off, and Start empties the map while the informer has     *)
(* reported nothing.                                                      *)
(***************************************************************************)
LEMMA NextIInv ==
    ASSUME ~Resync
    PROVE  IInv /\ [Next]_vars => IInv'
<1> SUFFICES ASSUME IInv, [Next]_vars PROVE IInv'
    OBVIOUS
<1> USE ResourceCacheAssumption
<1>0. TypeOK'
    BY NextTypeOK DEF IInv
<1>1. ASSUME NEW k0 \in Keys, WriteStore(k0) PROVE IInv'
    BY <1>0, <1>1 DEF WriteStore, IInv, KeyInv, Latest, IsPending, PendingFor
<1>2. ASSUME NEW k0 \in Keys, InformerDeliver(k0) PROVE IInv'
    <2> DEFINE op == IF seen[k0] = 0 THEN "add"
                     ELSE IF store[k0] = 0 THEN "delete" ELSE "update"
               e == [op |-> op, key |-> k0, val |-> store[k0], from |-> "informer"]
               n == Len(eventCh)
    <2>1. /\ eventCh' = Append(eventCh, e)
          /\ seen' = [seen EXCEPT ![k0] = store[k0]]
          /\ phase = "started" /\ phase' = phase /\ informer' = informer /\ cache' = cache
        BY <1>2 DEF InformerDeliver, Send, IInv
    <2>2. /\ eventCh \in Seq(Event) /\ seen \in [Keys -> Versions]
          /\ store \in [Keys -> Versions]
        BY DEF IInv, TypeOK
    <2>3. /\ Len(eventCh') = n + 1
          /\ eventCh'[n + 1] = e
          /\ \A i \in 1..n : eventCh'[i] = eventCh[i]
        BY <2>1, <2>2
    <2>4. \A i \in 1..Len(eventCh') : eventCh'[i].op = "delete" => eventCh'[i].val = 0
        BY <2>2, <2>3 DEF IInv
    <2>5. KeyInv(k0)'
        <3>1. ASSUME NEW i \in 1..Len(eventCh'), Latest(i, k0)' PROVE i = n + 1
            BY <3>1, <2>2, <2>3 DEF Latest, IsPending
        <3>2. (n + 1) \in PendingFor(k0)'
            BY <2>2, <2>3 DEF PendingFor
        <3>3. QED
            BY <3>1, <3>2, <2>1, <2>2, <2>3 DEF KeyInv
    <2>6. ASSUME NEW k \in Keys, k # k0 PROVE KeyInv(k)'
        <3>1. ASSUME NEW i \in 1..Len(eventCh'), Latest(i, k)' PROVE i \in 1..n /\ Latest(i, k)
            BY <3>1, <2>2, <2>3, <2>6 DEF Latest, IsPending
        <3>2. PendingFor(k)' = PendingFor(k)
            BY <2>2, <2>3, <2>6 DEF PendingFor
        <3>3. seen'[k] = seen[k]
            BY <2>1, <2>2, <2>6
        <3>4. QED
            BY <3>1, <3>2, <3>3, <2>1, <2>3 DEF IInv, KeyInv
    <2>7. QED
        BY <1>0, <2>1, <2>4, <2>5, <2>6 DEF IInv
<1>3. CASE Start
    <2>1. cache' = [k \in Keys |-> 0]
        BY <1>3 DEF Start, Replace
    <2>2. QED
        BY <1>0, <1>3, <2>1 DEF Start, IInv, TypeOK, KeyInv, Latest, IsPending, PendingFor
<1>4. ASSUME NEW c \in Clients, NEW k0 \in Keys, Get(c, k0) PROVE IInv'
    BY <1>0, <1>4 DEF Get, Send, IInv, TypeOK, Event, KeyInv, Latest, IsPending, PendingFor
<1>5. CASE RunReceive
    <2> DEFINE e == Head(eventCh)
               n == Len(eventCh)
    <2>1. /\ eventCh' = Tail(eventCh) /\ eventCh # <<>>
          /\ Accept(e)
          /\ UNCHANGED <<phase, informer, seen>>
        BY <1>5 DEF RunReceive
    <2>2. /\ eventCh \in Seq(Event) /\ seen \in [Keys -> Versions]
          /\ cache \in [Keys -> Versions]
        BY DEF IInv, TypeOK
    <2>3. /\ n \in Nat \ {0} /\ e = eventCh[1]
          /\ Len(eventCh') = n - 1
          /\ \A i \in 1..(n - 1) : eventCh'[i] = eventCh[i + 1]
        BY <2>1, <2>2
    <2>4. e.op = "delete" => e.val = 0
        BY <2>3 DEF IInv
    <2>5. \A k \in Keys : cache'[k] = IF IsPending(1, k) THEN e.val ELSE cache[k]
        <3>1. e \in Event
            BY <2>2, <2>3
        <3>2. CASE e.op \in {"add", "update"}
            BY <2>1, <2>2, <2>3, <3>1, <3>2 DEF Accept, IsPending, Event
        <3>3. CASE e.op = "delete"
            <4>1. cache' = [cache EXCEPT ![e.key] = 0]
                BY <2>1, <3>3 DEF Accept
            <4>2. QED
                BY <2>2, <2>3, <2>4, <3>1, <3>3, <4>1 DEF IsPending, Event
        <3>4. CASE e.op = "get"
            BY <2>1, <2>3, <3>4 DEF Accept, IsPending
        <3>5. QED
            BY <3>1, <3>2, <3>3, <3>4 DEF Event
    <2>6. \A i \in 1..Len(eventCh') : eventCh'[i].op = "delete" => eventCh'[i].val = 0
        BY <2>3 DEF IInv
    <2>7. (phase = "new" => \A i \in 1..Len(eventCh') : eventCh'[i].op = "get")
        BY <2>3 DEF IInv
    <2>8. ASSUME NEW k \in Keys PROVE KeyInv(k)'
        <3>1. ASSUME NEW i \in 1..Len(eventCh'), Latest(i, k)'
              PROVE  eventCh'[i].val = seen'[k]
            <4>1. Latest(i + 1, k)
                <5>1. IsPending(i + 1, k)
                    BY <3>1, <2>3 DEF Latest, IsPending
                <5>2. ASSUME NEW j \in (i + 2)..n, IsPending(j, k) PROVE FALSE
                    <6>1. (j - 1) \in (i + 1)..Len(eventCh') /\ eventCh'[j - 1] = eventCh[j]
                        BY <2>3
                    <6>2. QED
                        BY <6>1, <5>2, <3>1 DEF Latest, IsPending
                <5>3. QED
                    BY <5>1, <5>2 DEF Latest
            <4>2. QED
                BY <4>1, <2>1, <2>3 DEF IInv, KeyInv
        <3>2. ASSUME phase' = "started", PendingFor(k)' = {} PROVE cache'[k] = seen'[k]
            <4>1. \A j \in 2..n : ~IsPending(j, k)
                <5>1. SUFFICES ASSUME NEW j \in 2..n, IsPending(j, k) PROVE FALSE
                    OBVIOUS
                <5>2. (j - 1) \in 1..Len(eventCh') /\ eventCh'[j - 1] = eventCh[j]
                    BY <2>3
                <5>3. (j - 1) \in PendingFor(k)'
                    BY <5>1, <5>2 DEF PendingFor, IsPending
                <5>4. QED
                    BY <5>3, <3>2
            <4>2. CASE IsPending(1, k)
                <5>1. Latest(1, k)
                    BY <4>1, <4>2 DEF Latest
                <5>2. e.val = seen[k]
                    BY <5>1, <2>3 DEF IInv, KeyInv
                <5>3. QED
                    BY <5>2, <4>2, <2>1, <2>5
            <4>3. CASE ~IsPending(1, k)
                <5>1. PendingFor(k) = {}
                    BY <4>1, <4>3 DEF PendingFor, IsPending
                <5>2. QED
                    BY <5>1, <4>3, <3>2, <2>1, <2>5 DEF IInv, KeyInv
            <4>4. QED
                BY <4>2, <4>3
        <3>3. QED
            BY <3>1, <3>2 DEF KeyInv
    <2>9. QED
        BY <1>0, <2>1, <2>6, <2>7, <2>8 DEF IInv
<1>6. CASE RunExit
    BY <1>0, <1>6 DEF RunExit, IInv, KeyInv, Latest, IsPending, PendingFor
<1>7. CASE Stop
    BY <1>0, <1>7 DEF Stop, IInv, KeyInv, Latest, IsPending, PendingFor
<1>8. CASE UNCHANGED vars
    BY <1>8 DEF vars, IInv, TypeOK, KeyInv, Latest, IsPending, PendingFor
<1>9. QED
    BY <1>1, <1>2, <1>3, <1>4, <1>5, <1>6, <1>7, <1>8 DEF Next

-----------------------------------------------------------------------------
(***************************************************************************)
(* CacheTracksInformerHolds: with Start(f), whatever the number of NSM     *)
(* names, Get callers and writes and whatever the capacity of eventCh,     *)
(* run() leaves the map equal to the informer's view of every key whose   *)
(* events it has all applied (CacheTracksInformer).  It rests on eventCh   *)
(* being FIFO with run() its only reader, and on each informer event      *)
(* carrying the whole new view of its key.                                *)
(***************************************************************************)
THEOREM CacheTracksInformerHolds ==
    ASSUME ~Resync
    PROVE  Spec => []CacheTracksInformer
<1>1. Init => IInv
    BY InitIInv
<1>2. IInv /\ [Next]_vars => IInv'
    BY NextIInv
<1>3. IInv => CacheTracksInformer
    BY DEF IInv, KeyInv, CacheTracksInformer
<1>4. QED
    BY <1>1, <1>2, <1>3, PTL DEF Spec

(***************************************************************************)
(* TypeOKHolds: with Start(f) or StartWithResync, for any NSM names,       *)
(* callers, writes and channel capacity, every variable keeps its type.   *)
(***************************************************************************)
THEOREM TypeOKHolds == Spec => []TypeOK
<1>1. Init => TypeOK
    BY InitIInv DEF IInv
<1>2. TypeOK /\ [Next]_vars => TypeOK'
    BY NextTypeOK
<1>3. QED
    BY <1>1, <1>2, PTL DEF Spec

-----------------------------------------------------------------------------
(* Version x is no more recent than version y, or one of them is "absent". *)
Before(x, y) == x = 0 \/ y = 0 \/ x <= y

(***************************************************************************)
(* The order the versions of one key travel in: what the map holds, then  *)
(* the informer's queued events for the key, oldest first, then the API   *)
(* server's record; every version is at most the number of writes.  A     *)
(* delete event carries no record.                                        *)
(***************************************************************************)
OInv ==
    /\ \A k \in Keys : store[k] <= writes /\ cache[k] <= writes
    /\ \A i \in 1..Len(eventCh) : eventCh[i].val <= writes
    /\ \A i \in 1..Len(eventCh) : eventCh[i].op = "delete" => eventCh[i].val = 0
    /\ \A k \in Keys : Before(cache[k], store[k])
    /\ \A k \in Keys : \A i \in 1..Len(eventCh) :
          IsPending(i, k) => Before(cache[k], eventCh[i].val) /\ Before(eventCh[i].val, store[k])
    /\ \A k \in Keys : \A i, j \in 1..Len(eventCh) :
          i < j /\ IsPending(i, k) /\ IsPending(j, k) => Before(eventCh[i].val, eventCh[j].val)

(***************************************************************************)
(* run() applying the oldest event sets the record of its key to the      *)
(* event's version (none for a delete) and leaves every other key.        *)
(***************************************************************************)
LEMMA AcceptHead ==
    ASSUME TypeOK, RunReceive,
           \A i \in 1..Len(eventCh) : eventCh[i].op = "delete" => eventCh[i].val = 0
    PROVE  \A k \in Keys : cache'[k] = IF IsPending(1, k) THEN Head(eventCh).val ELSE cache[k]
<1> DEFINE e == Head(eventCh)
<1>1. eventCh # <<>> /\ Accept(e)
    BY DEF RunReceive
<1>2. eventCh \in Seq(Event) /\ cache \in [Keys -> Versions]
    BY DEF TypeOK
<1>3. e = eventCh[1] /\ 1 \in 1..Len(eventCh) /\ e \in Event
    BY <1>1, <1>2
<1>4. CASE e.op \in {"add", "update"}
    BY <1>1, <1>2, <1>3, <1>4 DEF Accept, IsPending, Event
<1>5. CASE e.op = "delete"
    <2>1. cache' = [cache EXCEPT ![e.key] = 0] /\ e.val = 0
        BY <1>1, <1>3, <1>5 DEF Accept
    <2>2. QED
        BY <1>2, <1>3, <1>5, <2>1 DEF IsPending, Event
<1>6. CASE e.op = "get"
    BY <1>1, <1>3, <1>6 DEF Accept, IsPending
<1>7. QED
    BY <1>3, <1>4, <1>5, <1>6 DEF Event

(* The initial state satisfies OInv.                                       *)
LEMMA InitOInv == Init => OInv
BY DEF Init, OInv, Before, IsPending
(***************************************************************************)
(* Every step keeps OInv when Start does not resync: a write gives its key *)
(* a version above every other, the informer queues the API server's      *)
(* record behind the older events, run() hands the oldest event's version *)
(* to the map, and Start empties the map.                                 *)
(***************************************************************************)
LEMMA NextOInv ==
    ASSUME ~Resync
    PROVE  TypeOK /\ OInv /\ [Next]_vars => OInv'
<1> SUFFICES ASSUME TypeOK, OInv, [Next]_vars PROVE OInv'
    OBVIOUS
<1> USE ResourceCacheAssumption
<1>0. /\ eventCh \in Seq(Event) /\ store \in [Keys -> Versions]
      /\ cache \in [Keys -> Versions] /\ writes \in 0..MaxWrites
    BY DEF TypeOK
<1>00. \A i \in 1..Len(eventCh) : eventCh[i].val \in Nat
    <2>1. \A i \in 1..Len(eventCh) : eventCh[i] \in Event
        BY <1>0
    <2>2. \A i \in 1..Len(eventCh) : eventCh[i].val \in Versions
        BY <2>1, Zenon DEF Event
    <2>3. QED
        BY <2>2, ResourceCacheAssumption DEF Versions
<1>1. ASSUME NEW k0 \in Keys, WriteStore(k0) PROVE OInv'
    <2>1. PICK v \in {0, writes + 1} : store' = [store EXCEPT ![k0] = v]
        BY <1>1 DEF WriteStore
    <2>2. /\ writes' = writes + 1
          /\ UNCHANGED <<eventCh, cache>>
        BY <1>1 DEF WriteStore
    <2>3. \A k \in Keys : store'[k] = store[k] \/ store'[k] = 0 \/ store'[k] = writes + 1
        BY <2>1, <1>0
    <2>4. \A k \in Keys, x \in 0..writes : Before(x, store[k]) => Before(x, store'[k])
        BY <2>3, <1>0 DEF Before, Versions
    <2>5. \A i \in 1..Len(eventCh) : eventCh[i].val \in 0..writes
        BY <1>0, <1>00 DEF OInv
    <2>6. \A k \in Keys : cache[k] \in 0..writes /\ store'[k] <= writes'
        BY <2>2, <2>3, <1>0 DEF OInv, Versions
    <2>7. \A k \in Keys : Before(cache'[k], store'[k])
        BY <2>2, <2>4, <2>6 DEF OInv
    <2>8. \A k \in Keys : \A i \in 1..Len(eventCh') :
            IsPending(i, k)' => Before(cache'[k], eventCh'[i].val) /\ Before(eventCh'[i].val, store'[k])
        BY <2>2, <2>4, <2>5 DEF OInv, IsPending
    <2>9. \A k \in Keys : \A i, j \in 1..Len(eventCh') :
            i < j /\ IsPending(i, k)' /\ IsPending(j, k)' => Before(eventCh'[i].val, eventCh'[j].val)
        BY <2>2 DEF OInv, IsPending
    <2>10. /\ \A k \in Keys : store'[k] <= writes' /\ cache'[k] <= writes'
           /\ \A i \in 1..Len(eventCh') : eventCh'[i].val <= writes'
           /\ \A i \in 1..Len(eventCh') : eventCh'[i].op = "delete" => eventCh'[i].val = 0
        BY <1>0, <2>2, <2>3, <2>5, <2>6 DEF OInv
    <2>11. QED
        BY <2>7, <2>8, <2>9, <2>10 DEF OInv
<1>2. ASSUME NEW k0 \in Keys, InformerDeliver(k0) PROVE OInv'
    <2> DEFINE op == IF seen[k0] = 0 THEN "add"
                     ELSE IF store[k0] = 0 THEN "delete" ELSE "update"
               e == [op |-> op, key |-> k0, val |-> store[k0], from |-> "informer"]
               n == Len(eventCh)
    <2>1. /\ eventCh' = Append(eventCh, e)
          /\ UNCHANGED <<store, writes, cache>>
        BY <1>2 DEF InformerDeliver, Send
    <2>2. /\ Len(eventCh') = n + 1
          /\ eventCh'[n + 1] = e
          /\ \A i \in 1..n : eventCh'[i] = eventCh[i]
        BY <2>1, <1>0
    <2>3. \A k \in Keys : \A i \in 1..Len(eventCh') : i = n + 1 => (IsPending(i, k)' => k = k0)
        BY <2>2 DEF IsPending
    <2>4. \A k \in Keys, i \in 1..n : IsPending(i, k)' = IsPending(i, k)
        BY <2>2 DEF IsPending
    <2>5. /\ e.val <= writes
          /\ e.op = "delete" => e.val = 0
          /\ Before(cache[k0], e.val) /\ Before(e.val, store[k0])
        BY <1>0 DEF OInv, Before, Versions
    <2>6. \A i \in 1..n : IsPending(i, k0) => Before(eventCh[i].val, e.val)
        BY DEF OInv
    <2>7. ASSUME NEW k \in Keys, NEW i \in 1..Len(eventCh'), NEW j \in 1..Len(eventCh'),
                 i < j, IsPending(i, k)', IsPending(j, k)'
          PROVE  Before(eventCh'[i].val, eventCh'[j].val)
        <3>1. CASE j = n + 1
            BY <3>1, <2>7, <2>2, <2>3, <2>4, <2>6 DEF IsPending
        <3>2. CASE j # n + 1
            BY <3>2, <2>7, <2>2, <2>4 DEF OInv
        <3>3. QED
            BY <3>1, <3>2
    <2>8. ASSUME NEW k \in Keys, NEW i \in 1..Len(eventCh'), IsPending(i, k)'
          PROVE  Before(cache'[k], eventCh'[i].val) /\ Before(eventCh'[i].val, store'[k])
        <3>1. CASE i = n + 1
            BY <3>1, <2>8, <2>1, <2>2, <2>3, <2>5 DEF IsPending
        <3>2. CASE i # n + 1
            BY <3>2, <2>8, <2>1, <2>2, <2>4 DEF OInv
        <3>3. QED
            BY <3>1, <3>2
    <2>9. \A i \in 1..Len(eventCh') : /\ eventCh'[i].val <= writes'
                                      /\ eventCh'[i].op = "delete" => eventCh'[i].val = 0
        BY <2>1, <2>2, <2>5 DEF OInv
    <2>10. QED
        BY <2>1, <2>7, <2>8, <2>9 DEF OInv
<1>3. CASE Start
    <2>1. cache' = [k \in Keys |-> 0] /\ UNCHANGED <<store, writes, eventCh>>
        BY <1>3 DEF Start, Replace
    <2>2. QED
        BY <2>1, <1>0, <1>00 DEF OInv, Before, IsPending, Versions
<1>4. ASSUME NEW c \in Clients, NEW k0 \in Keys, Get(c, k0) PROVE OInv'
    <2> DEFINE e == [op |-> "get", key |-> k0, val |-> 0, from |-> c]
               n == Len(eventCh)
    <2>1. /\ eventCh' = Append(eventCh, e)
          /\ UNCHANGED <<store, writes, cache>>
        BY <1>4 DEF Get, Send
    <2>2. /\ Len(eventCh') = n + 1
          /\ eventCh'[n + 1] = e
          /\ \A i \in 1..n : eventCh'[i] = eventCh[i]
        BY <2>1, <1>0
    <2>3. \A k \in Keys, i \in 1..Len(eventCh') : IsPending(i, k)' => i \in 1..n /\ IsPending(i, k)
        BY <2>2 DEF IsPending
    <2>4. QED
        BY <2>1, <2>2, <2>3, <1>0 DEF OInv, Before
<1>5. CASE RunReceive
    <2> DEFINE e == Head(eventCh)
               n == Len(eventCh)
    <2>1. /\ eventCh' = Tail(eventCh) /\ eventCh # <<>>
          /\ UNCHANGED <<store, writes>>
        BY <1>5 DEF RunReceive
    <2>2. /\ n \in Nat \ {0} /\ e = eventCh[1]
          /\ Len(eventCh') = n - 1
          /\ \A i \in 1..(n - 1) : eventCh'[i] = eventCh[i + 1]
        BY <2>1, <1>0
    <2>3. \A k \in Keys : cache'[k] = IF IsPending(1, k) THEN e.val ELSE cache[k]
        BY <1>5, AcceptHead DEF OInv
    <2>4. \A k \in Keys, i \in 1..(n - 1) : IsPending(i, k)' = IsPending(i + 1, k)
        BY <2>2 DEF IsPending
    <2>5. ASSUME NEW k \in Keys PROVE cache'[k] <= writes' /\ Before(cache'[k], store'[k])
        BY <2>1, <2>2, <2>3 DEF OInv
    <2>6. ASSUME NEW k \in Keys, NEW i \in 1..Len(eventCh'), IsPending(i, k)'
          PROVE  Before(cache'[k], eventCh'[i].val) /\ Before(eventCh'[i].val, store'[k])
        <3>1. IsPending(i + 1, k) /\ eventCh'[i] = eventCh[i + 1] /\ i + 1 \in 1..n
            BY <2>6, <2>2, <2>4
        <3>2. CASE IsPending(1, k)
            BY <3>1, <3>2, <2>1, <2>2, <2>3 DEF OInv
        <3>3. CASE ~IsPending(1, k)
            BY <3>1, <3>3, <2>1, <2>3 DEF OInv
        <3>4. QED
            BY <3>2, <3>3
    <2>7. ASSUME NEW k \in Keys, NEW i \in 1..Len(eventCh'), NEW j \in 1..Len(eventCh'),
                 i < j, IsPending(i, k)', IsPending(j, k)'
          PROVE  Before(eventCh'[i].val, eventCh'[j].val)
        BY <2>7, <2>2, <2>4 DEF OInv
    <2>8. \A i \in 1..Len(eventCh') : /\ eventCh'[i].val <= writes'
                                      /\ eventCh'[i].op = "delete" => eventCh'[i].val = 0
        BY <2>1, <2>2 DEF OInv
    <2>9. QED
        BY <2>1, <2>5, <2>6, <2>7, <2>8 DEF OInv
<1>6. CASE RunExit
    BY <1>6 DEF RunExit, OInv, Before, IsPending
<1>7. CASE Stop
    BY <1>7 DEF Stop, OInv, Before, IsPending
<1>8. CASE UNCHANGED vars
    BY <1>8 DEF vars, OInv, Before, IsPending
<1>9. QED
    BY <1>1, <1>2, <1>3, <1>4, <1>5, <1>6, <1>7, <1>8 DEF Next

-----------------------------------------------------------------------------
(***************************************************************************)
(* Before Start the map is empty and run() has not started; a get event   *)
(* was sent by a Get caller, an informer event by the informer.           *)
(***************************************************************************)
RInv ==
    /\ phase = "new" => cache = [k \in Keys |-> 0] /\ run = "idle"
    /\ \A i \in 1..Len(eventCh) : eventCh[i].op = "get" => eventCh[i].from \in Clients

(* The initial state satisfies RInv.                                       *)
LEMMA InitRInv == Init => RInv
BY DEF Init, RInv

(* Every step keeps RInv: only Start and run() change the map, and Start  *)
(* leaves the "new" phase; a Get sends its caller's id.                   *)
LEMMA NextRInv == TypeOK /\ RInv /\ [Next]_vars => RInv'
<1> SUFFICES ASSUME TypeOK, RInv, [Next]_vars PROVE RInv'
    OBVIOUS
<1>0. eventCh \in Seq(Event)
    BY DEF TypeOK
<1>1. ASSUME NEW k0 \in Keys, WriteStore(k0) PROVE RInv'
    BY <1>1 DEF WriteStore, RInv
<1>2. ASSUME NEW k0 \in Keys, InformerDeliver(k0) PROVE RInv'
    <2> DEFINE op == IF seen[k0] = 0 THEN "add"
                     ELSE IF store[k0] = 0 THEN "delete" ELSE "update"
               e == [op |-> op, key |-> k0, val |-> store[k0], from |-> "informer"]
    <2>1. eventCh' = Append(eventCh, e) /\ UNCHANGED <<phase, cache, run>>
        BY <1>2 DEF InformerDeliver, Send
    <2>2. QED
        BY <2>1, <1>0 DEF RInv
<1>3. CASE Start
    BY <1>3 DEF Start, RInv
<1>4. ASSUME NEW c \in Clients, NEW k0 \in Keys, Get(c, k0) PROVE RInv'
    <2>1. /\ eventCh' = Append(eventCh, [op |-> "get", key |-> k0, val |-> 0, from |-> c])
          /\ UNCHANGED <<phase, cache, run>>
        BY <1>4 DEF Get, Send
    <2>2. QED
        BY <2>1, <1>0 DEF RInv
<1>5. CASE RunReceive
    <2>1. eventCh' = Tail(eventCh) /\ eventCh # <<>> /\ run = "running" /\ phase' = phase
        BY <1>5 DEF RunReceive
    <2>2. \A i \in 1..(Len(eventCh) - 1) : eventCh'[i] = eventCh[i + 1]
        BY <2>1, <1>0
    <2>3. Len(eventCh') = Len(eventCh) - 1
        BY <2>1, <1>0
    <2>4. QED
        BY <2>1, <2>2, <2>3 DEF RInv
<1>6. CASE RunExit
    BY <1>6 DEF RunExit, RInv
<1>7. CASE Stop
    BY <1>7 DEF Stop, RInv
<1>8. CASE UNCHANGED vars
    BY <1>8 DEF vars, RInv
<1>9. QED
    BY <1>1, <1>2, <1>3, <1>4, <1>5, <1>6, <1>7, <1>8 DEF Next

(***************************************************************************)
(* Every step of the cache is a step of NsmCacheCopy or leaves the API    *)
(* server, the map and the replies alone: a write is Write, run() taking  *)
(* an informer event is CatchUp of its key, run() taking a get event is   *)
(* Answer, and Start(f) empties a map that is empty already.              *)
(***************************************************************************)
LEMMA StepRefinesCopy ==
    ASSUME ~Resync
    PROVE  TypeOK /\ OInv /\ RInv /\ [Next]_vars => [Copy!Next]_Copy!copyvars
<1> SUFFICES ASSUME TypeOK, OInv, RInv, [Next]_vars PROVE [Copy!Next]_Copy!copyvars
    OBVIOUS
<1> USE ResourceCacheAssumption
<1>1. ASSUME NEW k0 \in Keys, WriteStore(k0) PROVE Copy!Write(k0)
    BY <1>1 DEF WriteStore, Copy!Write
<1>2. ASSUME NEW k0 \in Keys, InformerDeliver(k0) PROVE UNCHANGED Copy!copyvars
    BY <1>2 DEF InformerDeliver, Copy!copyvars
<1>3. CASE Start
    <2>1. cache' = [k \in Keys |-> 0] /\ phase = "new"
        BY <1>3 DEF Start, Replace
    <2>2. QED
        BY <1>3, <2>1 DEF Start, RInv, Copy!copyvars
<1>4. ASSUME NEW c \in Clients, NEW k0 \in Keys, Get(c, k0) PROVE UNCHANGED Copy!copyvars
    BY <1>4 DEF Get, Copy!copyvars
<1>5. CASE RunReceive
    <2> DEFINE e == Head(eventCh)
    <2>1. /\ eventCh # <<>> /\ eventCh \in Seq(Event) /\ cache \in [Keys -> Versions]
          /\ e = eventCh[1] /\ 1 \in 1..Len(eventCh)
        BY <1>5 DEF RunReceive, TypeOK
    <2>2. e.key \in Keys /\ e.val \in Versions /\ e.op \in {"add", "update", "delete", "get"}
        <3>1. e \in Event
            BY <2>1
        <3>2. QED
            BY <3>1, Zenon DEF Event
    <2>3. \A k \in Keys : cache'[k] = IF IsPending(1, k) THEN e.val ELSE cache[k]
        BY <1>5, AcceptHead DEF OInv
    <2>4. cache' \in [Keys -> Versions]
        BY NextTypeOK DEF TypeOK
    <2>5. UNCHANGED <<store, writes>>
        BY <1>5 DEF RunReceive
    <2>6. CASE e.op = "get"
        <3>1. cache' = cache
            BY <2>1, <2>3, <2>4, <2>6 DEF IsPending
        <3>2. reply' = [reply EXCEPT ![e.from] = cache[e.key]] /\ e.from \in Clients
            BY <1>5, <2>1, <2>6 DEF RunReceive, RInv
        <3>3. QED
            BY <2>2, <2>5, <3>1, <3>2 DEF Copy!Next, Copy!Answer
    <2>7. CASE e.op # "get"
        <3>1. IsPending(1, e.key)
            BY <2>1, <2>7 DEF IsPending
        <3>2. cache' = [cache EXCEPT ![e.key] = e.val]
            BY <2>1, <2>2, <2>3, <2>4, <3>1 DEF IsPending
        <3>3. Before(cache[e.key], e.val) /\ Before(e.val, store[e.key])
            BY <2>1, <2>2, <3>1 DEF OInv
        <3>4. reply' = reply
            BY <1>5, <2>7 DEF RunReceive
        <3>5. Copy!CatchUp(e.key)
            BY <2>2, <2>5, <3>2, <3>3, <3>4 DEF Copy!CatchUp, Copy!NoNewer, Before, Copy!Versions, Versions
        <3>6. QED
            BY <2>2, <3>5 DEF Copy!Next
    <2>8. QED
        BY <2>6, <2>7
<1>6. CASE RunExit \/ Stop \/ UNCHANGED vars
    BY <1>6 DEF RunExit, Stop, vars, Copy!copyvars
<1>7. QED
    BY <1>1, <1>2, <1>3, <1>4, <1>5, <1>6 DEF Next, Copy!Next

(***************************************************************************)
(* CacheRefinesCopyHolds: with Start(f), for any NSM names, Get callers,   *)
(* number of writes and channel capacity, the cache implements           *)
(* NsmCacheCopy (CacheRefinesCopy): its map is a copy of the API server   *)
(* that only ever catches up, and each Get answers with that copy.  With  *)
(* StartWithResync it fails: replace can give a name another NSM's newer  *)
(* record, ahead of what the API server holds for it.                    *)
(***************************************************************************)
THEOREM CacheRefinesCopyHolds ==
    ASSUME ~Resync
    PROVE  Spec => CacheRefinesCopy
<1>1. Init => Copy!Init
    BY DEF Init, Copy!Init
<1>2. Init => TypeOK /\ OInv /\ RInv
    BY InitIInv, InitOInv, InitRInv DEF IInv
<1>3. TypeOK /\ OInv /\ RInv /\ [Next]_vars => TypeOK' /\ OInv' /\ RInv'
    BY NextTypeOK, NextOInv, NextRInv
<1>4. TypeOK /\ OInv /\ RInv /\ [Next]_vars => [Copy!Next]_Copy!copyvars
    BY StepRefinesCopy
<1>5. QED
    BY <1>1, <1>2, <1>3, <1>4, PTL DEF Spec, CacheRefinesCopy, Copy!Spec

=============================================================================
