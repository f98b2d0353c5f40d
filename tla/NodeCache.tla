------------------------------ MODULE NodeCache ------------------------------
(***************************************************************************)
(* proto_opcua/parse_project/node_cache.cpp: a bounded map from node keys  *)
(* to values, shared by threads.  put() takes a version number and reads   *)
(* the clock before it locks mtx_, so a writer has three steps; the        *)
(* critical section itself, with the change callback inside it, is one.    *)
(* Values are told apart by their versions, which are unique.              *)
(***************************************************************************)
EXTENDS Naturals, FiniteSets

CONSTANTS Keys, Writers,
          Sizes,     \* what the constructor and setMaxSize() may be given
          MaxPuts,   \* bound: calls of put()
          MaxClock   \* bound: readings of steady_clock are in 0..MaxClock

ASSUME CacheAssumption ==
    /\ Sizes \subseteq Nat \ {0} /\ Sizes # {}
    /\ Keys # {} /\ MaxPuts \in Nat /\ MaxClock \in Nat

NoEntry == [version |-> 0, time |-> 0]   \* the default CachedValue

VARIABLES
    data,     \* data_: a function from some of the Keys
    maxSize,  \* max_size_
    seq,      \* seq_
    clock,    \* the time now
    pc, arg,  \* each writer's place in put(), and its key and stamped value
    told      \* history: by key, what the callback was told was replaced, and by what

vars == <<data, maxSize, seq, clock, pc, arg, told>>

Entry == [version : 0..MaxPuts, time : 0..MaxClock]

TypeOK ==
    /\ DOMAIN data \subseteq Keys /\ data \in [DOMAIN data -> Entry]
    /\ maxSize \in Sizes /\ seq \in 0..MaxPuts /\ clock \in 0..MaxClock
    /\ pc \in [Writers -> {"idle", "versioned", "stamped"}]
    /\ arg \in [Writers -> [key : Keys, val : Entry]]
    /\ told \in [Keys -> [old : Entry, new : Entry]]

Init ==
    /\ data = [k \in {} |-> NoEntry]
    /\ maxSize \in Sizes
    /\ seq = 0 /\ clock = 0
    /\ pc = [w \in Writers |-> "idle"]
    /\ arg = [w \in Writers |-> [key |-> CHOOSE k \in Keys : TRUE, val |-> NoEntry]]
    /\ told = [k \in Keys |-> [old |-> NoEntry, new |-> NoEntry]]

-----------------------------------------------------------------------------
(* put(). *)

TakeVersion_PostIncrement(w, k) ==
    /\ pc[w] = "idle" /\ seq < MaxPuts
    /\ seq' = seq + 1
    /\ arg' = [arg EXCEPT ![w] = [key |-> k, val |-> [version |-> seq, time |-> 0]]]
    /\ pc' = [pc EXCEPT ![w] = "versioned"]
    /\ UNCHANGED <<data, maxSize, clock, told>>

(* val.version = ++seq_ *)
TakeVersion(w, k) ==
    /\ pc[w] = "idle" /\ seq < MaxPuts
    /\ seq' = seq + 1
    /\ arg' = [arg EXCEPT ![w] = [key |-> k, val |-> [version |-> seq + 1, time |-> 0]]]
    /\ pc' = [pc EXCEPT ![w] = "versioned"]
    /\ UNCHANGED <<data, maxSize, clock, told>>

(* val.update_time = now(): time may or may not have passed. *)
ReadClock(w) ==
    /\ pc[w] = "versioned"
    /\ clock' \in {clock, clock + 1} \cap 0..MaxClock
    /\ arg' = [arg EXCEPT ![w].val.time = clock']
    /\ pc' = [pc EXCEPT ![w] = "stamped"]
    /\ UNCHANGED <<data, maxSize, seq, told>>

Full_OffByOne == Cardinality(DOMAIN data) > maxSize

Full == Cardinality(DOMAIN data) >= maxSize

Oldest_Newest == {k \in DOMAIN data : \A j \in DOMAIN data : data[k].time >= data[j].time}

(* Among equally old entries the first in the hash table's order. *)
Oldest == {k \in DOMAIN data : \A j \in DOMAIN data : data[k].time <= data[j].time}

Put(d, k, v) == [j \in DOMAIN d \cup {k} |-> IF j = k THEN v ELSE d[j]]
Erase(d, k)  == [j \in DOMAIN d \ {k} |-> d[j]]

Tell_OnlyNew(k, old, new) ==
    told' = IF old = NoEntry THEN [told EXCEPT ![k] = [old |-> old, new |-> new]] ELSE told

(* on_change_(key, old, new), called with mtx_ held. *)
Tell(k, old, new) == told' = [told EXCEPT ![k] = [old |-> old, new |-> new]]

Store(w) ==
    /\ pc[w] = "stamped"
    /\ LET k == arg[w].key
           v == arg[w].val
       IN  \/ /\ k \in DOMAIN data
              /\ Tell(k, data[k], v)
              /\ data' = Put(data, k, v)
           \/ /\ k \notin DOMAIN data
              /\ Tell(k, NoEntry, v)
              /\ \/ ~Full /\ data' = Put(data, k, v)
                 \/ Full /\ \E o \in Oldest : data' = Put(Erase(data, o), k, v)
    /\ pc' = [pc EXCEPT ![w] = "idle"]
    /\ UNCHANGED <<maxSize, seq, clock, arg>>

-----------------------------------------------------------------------------
remove(k) ==
    /\ k \in DOMAIN data
    /\ data' = Erase(data, k)
    /\ UNCHANGED <<maxSize, seq, clock, pc, arg, told>>

clear ==
    /\ data' = [k \in {} |-> NoEntry]
    /\ UNCHANGED <<maxSize, seq, clock, pc, arg, told>>

setMaxSize_OffByOne(n) ==
    /\ maxSize' = n - 1
    /\ UNCHANGED <<data, seq, clock, pc, arg, told>>

(* Nothing is evicted when the bound is lowered. *)
setMaxSize(n) ==
    /\ maxSize' = n
    /\ UNCHANGED <<data, seq, clock, pc, arg, told>>

Next ==
    \/ \E w \in Writers :
        (\E k \in Keys : TakeVersion(w, k)) \/ ReadClock(w) \/ Store(w)
    \/ \E k \in Keys : remove(k)
    \/ clear
    \/ \E n \in Sizes : setMaxSize(n)

Spec == Init /\ [][Next]_vars

-----------------------------------------------------------------------------
(* Properties. *)

(* No two values in the cache or on their way into it share a version, and *)
(* no version is ahead of seq_: getVersion() identifies a value.           *)
VersionsIdentify ==
    /\ \A k \in DOMAIN data : data[k].version \in 1..seq
    /\ \A j, k \in DOMAIN data : data[j].version = data[k].version => j = k
    /\ \A w \in Writers : pc[w] # "idle" =>
          /\ arg[w].val.version \in 1..seq
          /\ \A k \in DOMAIN data : data[k].version # arg[w].val.version
          /\ \A u \in Writers :
                pc[u] # "idle" /\ arg[u].val.version = arg[w].val.version => u = w

(* What the callback last heard of a key is what readers find under it,    *)
(* unless the entry has gone: notifications and contents never disagree.   *)
CallbackAgrees ==
    \A k \in DOMAIN data : told[k].new = data[k]

(* The cache grows only below its bound, also after setMaxSize() has       *)
(* lowered it beneath the present size.                                    *)
GrowsBelowBound ==
    [][Cardinality(DOMAIN data') > Cardinality(DOMAIN data)
        => Cardinality(DOMAIN data') <= maxSize]_vars

(* A put that has to make room drops one entry, and no entry it keeps is   *)
(* older than that one.                                                    *)
EvictsOldest ==
    [][told' # told =>
        \A k \in DOMAIN data \ DOMAIN data' :
            /\ DOMAIN data \ DOMAIN data' = {k}
            /\ \A j \in DOMAIN data \cap DOMAIN data' : data[k].time <= data[j].time]_vars

(* "thread-safe cache": under concurrent writers a value is never replaced *)
(* by one with an older version or time stamp.                             *)
NeverOlder ==
    [][\A k \in DOMAIN data \cap DOMAIN data' :
        /\ data'[k].version >= data[k].version
        /\ data'[k].time >= data[k].time]_vars
=============================================================================
