--------------------------- MODULE NodeCacheProofs ---------------------------
(***************************************************************************)
(* Proofs about NodeCache for any keys, any number of writers and any      *)
(* bound on the size.  The invariant needs the writers between their       *)
(* version and the lock: their versions differ from each other's and from  *)
(* every version already stored.                                           *)
(***************************************************************************)
EXTENDS NodeCache, FiniteSetTheorems, TLAPS

IInv == TypeOK /\ VersionsIdentify /\ CallbackAgrees

USE CacheAssumption

(* The critical section of put(), whatever it evicts: the key gets the     *)
(* stamped value, every other entry stays as it was or goes.               *)
LEMMA StoreEffect ==
    ASSUME TypeOK, NEW w \in Writers, Store(w)
    PROVE  /\ DOMAIN data' \subseteq DOMAIN data \cup {arg[w].key}
           /\ data'[arg[w].key] = arg[w].val
           /\ \A k \in DOMAIN data' : k # arg[w].key => data'[k] = data[k]
           /\ data' = [k \in DOMAIN data' |-> data'[k]]
           /\ \E old \in {NoEntry} \cup {data[k] : k \in DOMAIN data} :
                 told' = [told EXCEPT ![arg[w].key] = [old |-> old, new |-> arg[w].val]]
<1> DEFINE k == arg[w].key
           v == arg[w].val
<1>1. CASE k \in DOMAIN data
  <2>1. data' = Put(data, k, v) /\ Tell(k, data[k], v)
    BY <1>1 DEF Store
  <2> QED BY <1>1, <2>1 DEF Put, Tell
<1>2. CASE k \notin DOMAIN data
  <2>1. Tell(k, NoEntry, v)
    BY <1>2 DEF Store
  <2>2. \E d : d \in {data} \cup {Erase(data, o) : o \in Oldest} /\ data' = Put(d, k, v)
    BY <1>2 DEF Store
  <2>3. PICK d : d \in {data} \cup {Erase(data, o) : o \in Oldest} /\ data' = Put(d, k, v)
    BY <2>2
  <2>4. DOMAIN d \subseteq DOMAIN data /\ \A j \in DOMAIN d : d[j] = data[j]
    BY <2>3 DEF Erase
  <2> QED BY <1>2, <2>1, <2>3, <2>4 DEF Put, Tell
<1> QED BY <1>1, <1>2

(* Every step of the cache keeps the types. *)
LEMMA TypePreserved == TypeOK /\ [Next]_vars => TypeOK'
<1> SUFFICES ASSUME TypeOK, [Next]_vars PROVE TypeOK'
  OBVIOUS
<1>1. ASSUME NEW w \in Writers, NEW k \in Keys, TakeVersion(w, k)
      PROVE  TypeOK'
  BY <1>1 DEF TakeVersion, TypeOK, Entry
<1>2. ASSUME NEW w \in Writers, ReadClock(w)
      PROVE  TypeOK'
  <2>1. clock' \in 0..MaxClock
    BY <1>2 DEF ReadClock
  <2>2. arg[w] \in [key : Keys, val : Entry]
    BY DEF TypeOK
  <2>3. [arg[w] EXCEPT !.val.time = clock'] \in [key : Keys, val : Entry]
    BY <2>1, <2>2 DEF Entry
  <2>4. arg' \in [Writers -> [key : Keys, val : Entry]]
    BY <1>2, <2>3 DEF ReadClock, TypeOK
  <2> QED BY <1>2, <2>1, <2>4 DEF ReadClock, TypeOK
<1>3. ASSUME NEW w \in Writers, Store(w)
      PROVE  TypeOK'
  <2>1. arg[w].key \in Keys /\ arg[w].val \in Entry
    BY DEF TypeOK
  <2>2. NoEntry \in Entry
    BY DEF NoEntry, Entry
  <2>3. DOMAIN data' \subseteq Keys /\ data' \in [DOMAIN data' -> Entry]
    <3>1. /\ DOMAIN data' \subseteq DOMAIN data \cup {arg[w].key}
          /\ data'[arg[w].key] = arg[w].val
          /\ \A k \in DOMAIN data' : k # arg[w].key => data'[k] = data[k]
          /\ data' = [k \in DOMAIN data' |-> data'[k]]
      BY <1>3, StoreEffect
    <3>2. DOMAIN data \subseteq Keys /\ \A k \in DOMAIN data : data[k] \in Entry
      BY DEF TypeOK
    <3>3. \A k \in DOMAIN data' : data'[k] \in Entry
      BY <2>1, <3>1, <3>2
    <3> QED BY <2>1, <3>1, <3>2, <3>3
  <2>4. told' \in [Keys -> [old : Entry, new : Entry]]
    <3>1. PICK old \in {NoEntry} \cup {data[k] : k \in DOMAIN data} :
              told' = [told EXCEPT ![arg[w].key] = [old |-> old, new |-> arg[w].val]]
      BY <1>3, StoreEffect
    <3>2. old \in Entry
      BY <2>2 DEF TypeOK
    <3>3. told \in [Keys -> [old : Entry, new : Entry]]
      BY DEF TypeOK
    <3> QED BY <2>1, <3>1, <3>2, <3>3
  <2> QED BY <1>3, <2>3, <2>4 DEF Store, TypeOK
<1>4. ASSUME NEW k \in Keys, remove(k) PROVE TypeOK'
  BY <1>4 DEF remove, Erase, TypeOK
<1>5. CASE clear
  BY <1>5 DEF clear, TypeOK
<1>6. ASSUME NEW n \in Sizes, setMaxSize(n) PROVE TypeOK'
  BY <1>6 DEF setMaxSize, TypeOK
<1>7. CASE UNCHANGED vars
  BY <1>7 DEF vars, TypeOK
<1> QED BY <1>1, <1>2, <1>3, <1>4, <1>5, <1>6, <1>7 DEF Next

(* Every step of the cache keeps the invariant. *)
LEMMA Inductive == IInv /\ [Next]_vars => IInv'
<1> SUFFICES ASSUME IInv, [Next]_vars PROVE IInv'
  OBVIOUS
<1>0. TypeOK /\ TypeOK'
  BY TypePreserved DEF IInv
<1>1. ASSUME NEW w \in Writers, NEW k \in Keys, TakeVersion(w, k)
      PROVE  VersionsIdentify' /\ CallbackAgrees'
  <2>1. /\ seq \in Nat /\ seq' = seq + 1 /\ data' = data /\ told' = told
        /\ arg'[w].val.version = seq + 1 /\ pc[w] = "idle"
        /\ \A u \in Writers \ {w} : arg'[u] = arg[u] /\ pc'[u] = pc[u]
    BY <1>0, <1>1 DEF TakeVersion, TypeOK
  <2>2. \A u \in Writers : pc[u] # "idle" => arg[u].val.version \in 1..seq
    BY DEF IInv, VersionsIdentify
  <2>3. \A j \in DOMAIN data : data[j].version \in 1..seq
    BY DEF IInv, VersionsIdentify
  <2>4. VersionsIdentify'
    BY <2>1, <2>2, <2>3 DEF IInv, VersionsIdentify
  <2> QED BY <2>1, <2>4 DEF IInv, CallbackAgrees
<1>2. ASSUME NEW w \in Writers, ReadClock(w)
      PROVE  VersionsIdentify' /\ CallbackAgrees'
  <2>1. /\ seq' = seq /\ data' = data /\ told' = told /\ pc[w] # "idle"
        /\ \A u \in Writers : pc'[u] # "idle" => pc[u] # "idle"
        /\ \A u \in Writers : arg'[u].val.version = arg[u].val.version
    BY <1>0, <1>2 DEF ReadClock, TypeOK, Entry
  <2> QED BY <2>1 DEF IInv, VersionsIdentify, CallbackAgrees
<1>3. ASSUME NEW w \in Writers, Store(w)
      PROVE  VersionsIdentify' /\ CallbackAgrees'
  <2>1. /\ seq' = seq /\ arg' = arg /\ pc[w] # "idle" /\ pc'[w] = "idle"
        /\ \A u \in Writers \ {w} : pc'[u] = pc[u]
    BY <1>0, <1>3 DEF Store, TypeOK
  <2>2. /\ DOMAIN data' \subseteq DOMAIN data \cup {arg[w].key}
        /\ data'[arg[w].key] = arg[w].val
        /\ \A j \in DOMAIN data' : j # arg[w].key => j \in DOMAIN data /\ data'[j] = data[j]
    BY <1>0, <1>3, StoreEffect
  <2>3. VersionsIdentify'
    BY <2>1, <2>2 DEF IInv, VersionsIdentify
  <2>4. /\ told'[arg[w].key].new = arg[w].val
        /\ \A j \in Keys : j # arg[w].key => told'[j] = told[j]
    <3>1. PICK old \in {NoEntry} \cup {data[k] : k \in DOMAIN data} :
              told' = [told EXCEPT ![arg[w].key] = [old |-> old, new |-> arg[w].val]]
      BY <1>0, <1>3, StoreEffect
    <3>2. told \in [Keys -> [old : Entry, new : Entry]] /\ arg[w].key \in Keys
      BY <1>0 DEF TypeOK
    <3> QED BY <3>1, <3>2
  <2>5. CallbackAgrees'
    BY <1>0, <2>2, <2>4 DEF IInv, CallbackAgrees, TypeOK
  <2> QED BY <2>3, <2>5
<1>4. ASSUME NEW k \in Keys, remove(k) PROVE VersionsIdentify' /\ CallbackAgrees'
  BY <1>4 DEF remove, Erase, IInv, VersionsIdentify, CallbackAgrees
<1>5. ASSUME clear PROVE VersionsIdentify' /\ CallbackAgrees'
  <2>1. /\ DOMAIN data' = {} /\ seq' = seq /\ pc' = pc /\ arg' = arg /\ told' = told
    BY <1>5 DEF clear
  <2>2. VersionsIdentify'
    BY <2>1 DEF IInv, VersionsIdentify
  <2> QED BY <2>1, <2>2 DEF CallbackAgrees
<1>6. ASSUME NEW n \in Sizes, setMaxSize(n) PROVE VersionsIdentify' /\ CallbackAgrees'
  BY <1>6 DEF setMaxSize, IInv, VersionsIdentify, CallbackAgrees
<1>7. ASSUME UNCHANGED vars PROVE VersionsIdentify' /\ CallbackAgrees'
  <2>1. data' = data /\ seq' = seq /\ pc' = pc /\ arg' = arg /\ told' = told
    BY <1>7 DEF vars
  <2>2. VersionsIdentify'
    BY <2>1 DEF IInv, VersionsIdentify
  <2> QED BY <2>1, <2>2 DEF IInv, CallbackAgrees
<1> QED BY <1>0, <1>1, <1>2, <1>3, <1>4, <1>5, <1>6, <1>7 DEF Next, IInv

(* An empty cache satisfies the invariant. *)
LEMMA Initially == Init => IInv
<1> SUFFICES ASSUME Init PROVE IInv
  OBVIOUS
<1>1. NoEntry \in Entry
  BY DEF NoEntry, Entry
<1>2. (CHOOSE k \in Keys : TRUE) \in Keys
  OBVIOUS
<1>3. TypeOK
  BY <1>1, <1>2 DEF Init, TypeOK
<1> QED BY <1>3 DEF Init, IInv, VersionsIdentify, CallbackAgrees

(* The cache always satisfies the invariant. *)
LEMMA Invariance == Spec => []IInv
BY Initially, Inductive, PTL DEF Spec

(* Type correctness. *)
THEOREM TypeCorrect == Spec => []TypeOK
<1>1. IInv => TypeOK
  BY DEF IInv
<1> QED BY <1>1, Invariance, PTL

(* Versions identify values although they are taken outside the lock. *)
THEOREM VersionsAreUnique == Spec => []VersionsIdentify
<1>1. IInv => VersionsIdentify
  BY DEF IInv
<1> QED BY <1>1, Invariance, PTL

(* The change callback and the contents agree. *)
THEOREM CallbackIsTrue == Spec => []CallbackAgrees
<1>1. IInv => CallbackAgrees
  BY DEF IInv
<1> QED BY <1>1, Invariance, PTL

(* Eviction takes one entry, and the oldest. *)
THEOREM EvictionIsByAge == Spec => EvictsOldest
<1> DEFINE A == told' # told =>
              \A k \in DOMAIN data \ DOMAIN data' :
                  /\ DOMAIN data \ DOMAIN data' = {k}
                  /\ \A j \in DOMAIN data \cap DOMAIN data' : data[k].time <= data[j].time
<1>1. ASSUME Next PROVE A
  <2>1. ASSUME NEW w \in Writers, Store(w) PROVE A
    <3> DEFINE k == arg[w].key
               v == arg[w].val
    <3>1. CASE data' = Put(data, k, v)
      BY <3>1 DEF Put
    <3>2. ASSUME NEW o \in Oldest, data' = Put(Erase(data, o), k, v)
          PROVE  A
      <4>1. DOMAIN data \ DOMAIN data' \subseteq {o}
        BY <3>2 DEF Put, Erase
      <4>2. \A j \in DOMAIN data : data[o].time <= data[j].time
        BY <3>2 DEF Oldest
      <4> QED BY <4>1, <4>2
    <3> QED BY <2>1, <3>1, <3>2 DEF Store
  <2>2. ASSUME told' = told PROVE A
    BY <2>2
  <2> HIDE DEF A
  <2> QED BY <1>1, <2>1, <2>2 DEF Next, TakeVersion, ReadClock, remove, clear, setMaxSize
<1>2. [Next]_vars => [A]_vars
  BY <1>1
<1> QED BY <1>2, PTL DEF Spec, EvictsOldest

-----------------------------------------------------------------------------
(* The size.  Only finitely many entries are ever stored. *)
Finite == IsFiniteSet(DOMAIN data)

(* The critical section of put() by what it does to the keys: a new key    *)
(* joins them below the bound, or takes the place of another one.          *)
LEMMA StoreKeys ==
    ASSUME NEW w \in Writers, Store(w)
    PROVE  \/ DOMAIN data' = DOMAIN data
           \/ /\ ~Full /\ arg[w].key \notin DOMAIN data
              /\ DOMAIN data' = DOMAIN data \cup {arg[w].key}
           \/ \E o \in DOMAIN data :
                 /\ arg[w].key \notin DOMAIN data
                 /\ DOMAIN data' = (DOMAIN data \ {o}) \cup {arg[w].key}
<1> DEFINE k == arg[w].key
           v == arg[w].val
<1>1. \A d : DOMAIN Put(d, k, v) = DOMAIN d \cup {k}
  BY DEF Put
<1>2. \A o : DOMAIN Erase(data, o) = DOMAIN data \ {o}
  BY DEF Erase
<1>3. CASE k \in DOMAIN data /\ data' = Put(data, k, v)
  BY <1>1, <1>3
<1>4. CASE k \notin DOMAIN data /\ ~Full /\ data' = Put(data, k, v)
  BY <1>1, <1>4
<1>5. CASE k \notin DOMAIN data /\ \E o \in Oldest : data' = Put(Erase(data, o), k, v)
  <2>1. PICK o \in Oldest : data' = Put(Erase(data, o), k, v)
    BY <1>5
  <2>2. o \in DOMAIN data
    BY <2>1 DEF Oldest
  <2>3. DOMAIN data' = (DOMAIN data \ {o}) \cup {k}
    BY <2>1, <1>1, <1>2
  <2> QED BY <1>5, <2>2, <2>3
<1> QED BY <1>3, <1>4, <1>5 DEF Store

(* How the number of entries changes with each of them. *)
LEMMA StoreSize ==
    ASSUME TypeOK, Finite, NEW w \in Writers, Store(w)
    PROVE  /\ Finite'
           /\ \/ Cardinality(DOMAIN data') = Cardinality(DOMAIN data)
              \/ ~Full /\ Cardinality(DOMAIN data') = Cardinality(DOMAIN data) + 1
<1> DEFINE k == arg[w].key
           D == DOMAIN data
           n == Cardinality(DOMAIN data)
<1>1. IsFiniteSet(D) /\ n \in Nat
  BY FS_CardinalityType DEF Finite
<1>2. CASE DOMAIN data' = D
  BY <1>2 DEF Finite
<1>3. CASE ~Full /\ k \notin D /\ DOMAIN data' = D \cup {k}
  <2>1. IsFiniteSet(D \cup {k}) /\ Cardinality(D \cup {k}) = n + 1
    BY <1>1, <1>3, FS_AddElement
  <2> QED BY <1>3, <2>1 DEF Finite
<1>4. ASSUME NEW o \in D, k \notin D, DOMAIN data' = (D \ {o}) \cup {k}
      PROVE  Finite' /\ Cardinality(DOMAIN data') = n
  <2>1. IsFiniteSet(D \ {o}) /\ Cardinality(D \ {o}) = n - 1
    BY <1>1, FS_RemoveElement
  <2>2. k \notin D \ {o}
    BY <1>4
  <2>3. /\ IsFiniteSet((D \ {o}) \cup {k})
        /\ Cardinality((D \ {o}) \cup {k}) = (n - 1) + 1
    BY <2>1, <2>2, FS_AddElement
  <2> QED BY <1>1, <1>4, <2>3 DEF Finite
<1> QED BY StoreKeys, <1>2, <1>3, <1>4

(* No other step adds an entry. *)
LEMMA OtherSize ==
    ASSUME [Next]_vars, \A w \in Writers : ~Store(w)
    PROVE  DOMAIN data' \subseteq DOMAIN data
<1>1. ASSUME NEW k \in Keys, remove(k) PROVE DOMAIN data' \subseteq DOMAIN data
  BY <1>1 DEF remove, Erase
<1>2. CASE clear
  BY <1>2 DEF clear
<1>3. CASE UNCHANGED data
  BY <1>3
<1> QED BY <1>1, <1>2, <1>3 DEF Next, TakeVersion, ReadClock, setMaxSize, vars

(* No step makes the cache infinite. *)
LEMMA FiniteStep == TypeOK /\ Finite /\ [Next]_vars => Finite'
<1> SUFFICES ASSUME TypeOK, Finite, [Next]_vars PROVE Finite'
  OBVIOUS
<1>1. CASE \E w \in Writers : Store(w)
  BY <1>1, StoreSize
<1>2. CASE \A w \in Writers : ~Store(w)
  BY <1>2, OtherSize, FS_Subset DEF Finite
<1> QED BY <1>1, <1>2

(* put() adds an entry only below the bound, also when setMaxSize() has    *)
(* been called with less than there is.                                    *)
THEOREM GrowthStopsAtBound == Spec => GrowsBelowBound
<1> DEFINE A == Cardinality(DOMAIN data') > Cardinality(DOMAIN data)
                    => Cardinality(DOMAIN data') <= maxSize
           Inv == TypeOK /\ Finite
<1>1. Init => Inv
  <2>1. Init => TypeOK
    BY Initially DEF IInv
  <2>2. Init => DOMAIN data = {}
    BY DEF Init
  <2> QED BY <2>1, <2>2, FS_EmptySet DEF Finite
<1>2. Inv /\ [Next]_vars => Inv'
  BY TypePreserved, FiniteStep
<1>3. ASSUME Inv, Next PROVE A
  <2>1. Cardinality(DOMAIN data) \in Nat /\ maxSize \in Nat
    BY <1>3, FS_CardinalityType DEF Finite, TypeOK
  <2>2. CASE \E w \in Writers : Store(w)
    <3>1. \/ Cardinality(DOMAIN data') = Cardinality(DOMAIN data)
          \/ ~Full /\ Cardinality(DOMAIN data') = Cardinality(DOMAIN data) + 1
      BY <1>3, <2>2, StoreSize
    <3> QED BY <2>1, <3>1 DEF Full
  <2>3. CASE \A w \in Writers : ~Store(w)
    <3>1. DOMAIN data' \subseteq DOMAIN data
      BY <1>3, <2>3, OtherSize
    <3>2. /\ Cardinality(DOMAIN data') \in Nat
          /\ Cardinality(DOMAIN data') <= Cardinality(DOMAIN data)
      BY <1>3, <3>1, FS_Subset, FS_CardinalityType DEF Finite
    <3> QED BY <2>1, <3>2
  <2> QED BY <2>2, <2>3
<1>4. Inv /\ [Next]_vars => [A]_vars
  BY <1>3
<1> QED BY <1>1, <1>2, <1>4, PTL DEF Spec, GrowsBelowBound
=============================================================================
