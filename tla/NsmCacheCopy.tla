---------------------------- MODULE NsmCacheCopy ----------------------------
(***************************************************************************)
(* What the registry's NSM cache promises the callers of Get (spec 4.2:   *)
(* "The registry is eventually consistent"), whatever its channel, its    *)
(* informer and its goroutines do: the map is a copy of the API server's  *)
(* NetworkServiceManager records that lags behind it.  A step of the copy *)
(* moves one NSM's record forward, to a version no older than the one it  *)
(* holds and no newer than the API server's, or drops it; it never brings *)
(* back an older record.  A Get answers with the copy's record at the     *)
(* moment it is served.                                                   *)
(*                                                                         *)
(* As in ResourceCache a record is its resource version, 0 for "absent".  *)
(***************************************************************************)
EXTENDS Naturals

CONSTANTS
    Keys,       \* NSM names
    Clients,    \* goroutines calling Get
    MaxWrites   \* bound on the writes to the API server

VARIABLES
    store,      \* the API server's record of each NSM
    writes,     \* number of writes to the API server so far
    cache,      \* the copy's record of each NSM
    reply       \* reply[c]: what c's last Get returned

copyvars == <<store, writes, cache, reply>>

Versions == 0..MaxWrites

(* Version x is no more recent than version y, or one of them is absent.   *)
NoNewer(x, y) == x = 0 \/ y = 0 \/ x <= y

Init ==
    /\ store = [k \in Keys |-> 0]
    /\ writes = 0
    /\ cache = [k \in Keys |-> 0]
    /\ reply = [c \in Clients |-> 0]

(* A client of the API server creates, updates or deletes NSM k.           *)
Write(k) ==
    /\ writes < MaxWrites
    /\ writes' = writes + 1
    /\ store' \in {[store EXCEPT ![k] = v] : v \in {0, writes + 1}}
    /\ store'[k] # store[k]
    /\ UNCHANGED <<cache, reply>>

(* The copy of NSM k catches up, possibly part of the way, or drops it.    *)
CatchUp(k) ==
    /\ \E v \in Versions :
          /\ NoNewer(cache[k], v)
          /\ NoNewer(v, store[k])
          /\ cache' = [cache EXCEPT ![k] = v]
    /\ UNCHANGED <<store, writes, reply>>

(* A Get of NSM k by c returns the copy's record.                          *)
Answer(c, k) ==
    /\ reply' = [reply EXCEPT ![c] = cache[k]]
    /\ UNCHANGED <<store, writes, cache>>

Next ==
    \E k \in Keys : Write(k) \/ CatchUp(k) \/ \E c \in Clients : Answer(c, k)

Spec == Init /\ [][Next]_copyvars
=============================================================================
