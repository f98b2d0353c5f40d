----------------------------- MODULE OrderProofs -----------------------------
(***************************************************************************)
(* Proofs about OrderService for any number of orders and items, any       *)
(* prices and quantities and any width of Money.  Nothing is assumed of    *)
(* total() but that it is a function of the items: what matters is that    *)
(* the items stay as they were when the total was announced.               *)
(***************************************************************************)
EXTENDS OrderService, TLAPS

Event == [type : {"OrderSubmitted"}, id : OrderId, total : {total(s) : s \in Seq(Item)}]
            \cup [type : {"OrderCancelled"}, id : OrderId]

IInv == TypeOK /\ log \in Seq(Event) /\ AnnouncedTotalStands /\ EventsTellTheStory

(* What a use case that keeps the order's status does: it may change items *)
(* only outside Confirmed, and publishes nothing.                          *)
ItemChange(id) ==
    /\ id \in DOMAIN store
    /\ store[id].status # "Confirmed"
    /\ \E s \in Seq(Item) : save(id, [store[id] EXCEPT !.items = s])
    /\ UNCHANGED <<seq, log>>

(* A legal status change that publishes nothing. *)
StatusMove(id) ==
    /\ id \in DOMAIN store
    /\ \/ store[id].status = "Confirmed" /\ save(id, [store[id] EXCEPT !.status = "Shipped"])
       \/ store[id].status = "Shipped" /\ save(id, [store[id] EXCEPT !.status = "Completed"])
    /\ UNCHANGED <<seq, log>>

(* The three operations on items, whatever their arguments, are item       *)
(* changes: in particular the items they leave satisfy INV-2.              *)
LEMMA ItemOperations ==
    ASSUME TypeOK, NEW id \in OrderId,
           \/ \E qty \in Quantities, price \in Prices : addItem(id, qty, price)
           \/ \E idx \in 1..MaxItems : removeItem(id, idx)
           \/ \E idx \in 1..MaxItems, qty \in Quantities : setQuantity(id, idx, qty)
    PROVE  ItemChange(id)
<1> DEFINE o == store[id]
<1>1. ASSUME id \in DOMAIN store
      PROVE  o \in Order /\ o.items \in Seq(Item)
  BY <1>1 DEF TypeOK, Order
<1>2. ASSUME NEW qty \in Quantities, NEW price \in Prices, addItem(id, qty, price)
      PROVE  ItemChange(id)
  <2>1. Known(id) /\ ~Locked(o)
    BY <1>2 DEF addItem
  <2>2. [qty |-> qty, price |-> price] \in Item
    BY <1>2 DEF addItem, validItem, validQuantity, Item
  <2>3. Append(o.items, [qty |-> qty, price |-> price]) \in Seq(Item)
    BY <1>1, <2>1, <2>2 DEF Known
  <2> QED BY <1>2, <2>1, <2>3 DEF addItem, ItemChange, Known, Locked
<1>3. ASSUME NEW idx \in 1..MaxItems, removeItem(id, idx)
      PROVE  ItemChange(id)
  <2>1. Known(id) /\ ~Locked(o) /\ idx \in DOMAIN o.items
    BY <1>3 DEF removeItem
  <2>2. RemoveAt(o.items, idx) \in Seq(Item)
    BY <1>1, <2>1 DEF Known, RemoveAt
  <2> QED BY <1>3, <2>1, <2>2 DEF removeItem, ItemChange, Known, Locked
<1>4. ASSUME NEW idx \in 1..MaxItems, NEW qty \in Quantities, setQuantity(id, idx, qty)
      PROVE  ItemChange(id)
  <2>1. Known(id) /\ ~Locked(o) /\ idx \in DOMAIN o.items /\ qty > 0
    BY <1>4 DEF setQuantity, validQuantity
  <2> DEFINE s == [o.items EXCEPT ![idx].qty = qty]
  <2>2. o.items[idx] \in Item
    BY <1>1, <2>1 DEF Known
  <2>3. [o.items[idx] EXCEPT !.qty = qty] \in Item
    BY <2>1, <2>2 DEF Item
  <2>4. s \in Seq(Item)
    BY <1>1, <2>1, <2>3 DEF Known
  <2> QED BY <1>4, <2>1, <2>4 DEF setQuantity, ItemChange, Known, Locked
<1> QED BY <1>2, <1>3, <1>4

(* A change of items keeps the invariant. *)
LEMMA ItemChangePreserves ==
    ASSUME IInv, NEW id \in OrderId, ItemChange(id)
    PROVE  IInv'
<1> PICK s \in Seq(Item) : save(id, [store[id] EXCEPT !.items = s])
  BY DEF ItemChange
<1>1. /\ DOMAIN store' = DOMAIN store /\ seq' = seq /\ log' = log
      /\ store[id].status # "Confirmed"
      /\ \A k \in DOMAIN store : store'[k].status = store[k].status
      /\ \A k \in DOMAIN store : k # id => store'[k] = store[k]
      /\ store' \in [DOMAIN store -> Order]
  BY DEF ItemChange, save, IInv, TypeOK, Order
<1>2. TypeOK'
  BY <1>1 DEF IInv, TypeOK
<1>3. AnnouncedTotalStands'
  BY <1>1 DEF IInv, AnnouncedTotalStands, EventsOf
<1>4. EventsTellTheStory'
  BY <1>1 DEF IInv, EventsTellTheStory, EventsOf
<1> QED BY <1>1, <1>2, <1>3, <1>4 DEF IInv, Event

(* Shipping and completing keep the invariant. *)
LEMMA StatusMovePreserves ==
    ASSUME IInv, NEW id \in OrderId, StatusMove(id)
    PROVE  IInv'
<1>1. /\ DOMAIN store' = DOMAIN store /\ seq' = seq /\ log' = log
      /\ store[id].status \in {"Confirmed", "Shipped"}
      /\ store'[id].status \in {"Shipped", "Completed"}
      /\ \A k \in DOMAIN store : k # id => store'[k] = store[k]
      /\ store' \in [DOMAIN store -> Order]
  <2>1. store \in [DOMAIN store -> Order] /\ id \in DOMAIN store
    BY DEF StatusMove, IInv, TypeOK
  <2>2. PICK s \in {"Shipped", "Completed"} :
          /\ store[id].status \in {"Confirmed", "Shipped"}
          /\ save(id, [store[id] EXCEPT !.status = s])
    BY DEF StatusMove
  <2>3. [store[id] EXCEPT !.status = s] \in Order
    BY <2>1 DEF Order, Status
  <2>4. store' = [k \in DOMAIN store \cup {id} |->
                    IF k = id THEN [store[id] EXCEPT !.status = s] ELSE store[k]]
    BY <2>2 DEF save
  <2>5. [store[id] EXCEPT !.status = s].status = s
    BY <2>1 DEF Order
  <2>6. seq' = seq /\ log' = log
    BY DEF StatusMove
  <2> QED
    BY <2>1, <2>2, <2>3, <2>4, <2>5, <2>6
<1>2. TypeOK'
  BY <1>1 DEF IInv, TypeOK
<1>3. AnnouncedTotalStands'
  BY <1>1 DEF IInv, AnnouncedTotalStands, EventsOf
<1>4. EventsTellTheStory'
  <2> DEFINE s(k) == store[k].status
             t(k) == store'[k].status
  <2>1. \A ty, k : EventsOf(ty, k)' = EventsOf(ty, k)
    BY <1>1 DEF EventsOf
  <2>2. id \in DOMAIN store
    BY DEF StatusMove
  <2>3. ASSUME NEW k \in DOMAIN store
        PROVE  /\ (EventsOf("OrderCancelled", k) # {}) <=> (t(k) = "Cancelled")
               /\ t(k) \in {"Confirmed", "Shipped", "Completed"}
                    => EventsOf("OrderSubmitted", k) # {}
               /\ t(k) = "Created" => EventsOf("OrderSubmitted", k) = {}
    BY <1>1, <2>2 DEF IInv, EventsTellTheStory
  <2> QED BY <1>1, <2>1, <2>3 DEF IInv, EventsTellTheStory
<1> QED BY <1>1, <1>2, <1>3, <1>4 DEF IInv, Event

(* createOrder() keeps the invariant. *)
LEMMA CreatePreserves ==
    ASSUME IInv, createOrder
    PROVE  IInv'
<1> USE OrderAssumption
<1>1. /\ seq' = seq + 1 /\ seq' \in 0..MaxOrders /\ seq \in 0..MaxOrders
      /\ seq' \notin DOMAIN store /\ log' = log
      /\ DOMAIN store' = DOMAIN store \cup {seq'}
      /\ store'[seq'] = [status |-> "Created", items |-> <<>>]
      /\ \A k \in DOMAIN store : store'[k] = store[k]
  BY DEF createOrder, save, IInv, TypeOK
<1>2. store'[seq'] \in Order
  BY <1>1 DEF Order, Status
<1>3. TypeOK'
  <2>1. DOMAIN store' \subseteq 1..seq'
    BY <1>1 DEF IInv, TypeOK
  <2>2. \A k \in DOMAIN store' : store'[k] \in Order
    BY <1>1, <1>2 DEF IInv, TypeOK
  <2>3. store' = [k \in DOMAIN store' |-> store'[k]]
    BY DEF createOrder, save
  <2> QED BY <1>1, <2>1, <2>2, <2>3 DEF TypeOK
<1>4. \A ty, k : EventsOf(ty, k)' = EventsOf(ty, k)
  BY <1>1 DEF EventsOf
<1>5. \A ty : EventsOf(ty, seq') = {}
  BY <1>1 DEF EventsOf, IInv, EventsTellTheStory
<1>6. store'[seq'].status = "Created"
  BY <1>1
<1>7. AnnouncedTotalStands'
  BY <1>1, <1>4, <1>6 DEF IInv, AnnouncedTotalStands
<1>8. EventsTellTheStory'
  <2>1. \A k \in DOMAIN log : log[k].id \in 1..seq'
    BY <1>1 DEF IInv, EventsTellTheStory
  <2>2. ASSUME NEW k \in DOMAIN store'
        PROVE  LET t == store'[k].status IN
               /\ (EventsOf("OrderCancelled", k) # {}) <=> (t = "Cancelled")
               /\ t \in {"Confirmed", "Shipped", "Completed"}
                    => EventsOf("OrderSubmitted", k) # {}
               /\ t = "Created" => EventsOf("OrderSubmitted", k) = {}
    BY <1>1, <1>5, <1>6 DEF IInv, EventsTellTheStory
  <2> QED BY <1>1, <1>4, <2>1, <2>2 DEF IInv, EventsTellTheStory
<1> QED BY <1>1, <1>3, <1>7, <1>8 DEF IInv, Event

(* Removal from the repository keeps the invariant. *)
LEMMA RemovePreserves ==
    ASSUME IInv, NEW id \in OrderId, remove(id)
    PROVE  IInv'
<1>1. /\ DOMAIN store' = DOMAIN store \ {id} /\ seq' = seq /\ log' = log
      /\ \A k \in DOMAIN store' : store'[k] = store[k]
      /\ store' \in [DOMAIN store' -> Order]
  BY DEF remove, IInv, TypeOK
<1>2. TypeOK'
  BY <1>1 DEF IInv, TypeOK
<1>3. AnnouncedTotalStands' /\ EventsTellTheStory'
  BY <1>1 DEF IInv, AnnouncedTotalStands, EventsTellTheStory, EventsOf
<1> QED BY <1>1, <1>2, <1>3 DEF IInv, Event

(* Submission and cancellation: the status changes and one event about the *)
(* order is appended.                                                      *)
LEMMA Announced ==
    ASSUME IInv, NEW id \in DOMAIN store, NEW e \in Event, NEW st \in Status,
           log' = Append(log, e), seq' = seq, e.id = id,
           save(id, [store[id] EXCEPT !.status = st])
    PROVE  /\ log' \in Seq(Event) /\ TypeOK'
           /\ DOMAIN store' = DOMAIN store
           /\ \A k \in DOMAIN store \ {id} : store'[k] = store[k]
           /\ store'[id].status = st /\ store'[id].items = store[id].items
           /\ Len(log) \in Nat /\ DOMAIN log = 1..Len(log)
           /\ DOMAIN log' = 1..(Len(log) + 1) /\ log'[Len(log) + 1] = e
           /\ \A k \in DOMAIN log : log'[k] = log[k]
<1>1. log \in Seq(Event)
  BY DEF IInv
<1>2. /\ log' \in Seq(Event)
      /\ Len(log) \in Nat /\ DOMAIN log = 1..Len(log)
      /\ DOMAIN log' = 1..(Len(log) + 1) /\ log'[Len(log) + 1] = e
      /\ \A k \in DOMAIN log : log'[k] = log[k]
  <2> HIDE DEF Event
  <2> QED BY <1>1
<1>3. store[id] \in Order
  BY DEF IInv, TypeOK
<1>4. /\ DOMAIN store' = DOMAIN store
      /\ \A k \in DOMAIN store \ {id} : store'[k] = store[k]
      /\ store'[id] = [store[id] EXCEPT !.status = st]
      /\ store' = [k \in DOMAIN store' |-> store'[k]]
  BY DEF save
<1>5. store'[id] \in Order /\ store'[id].status = st /\ store'[id].items = store[id].items
  BY <1>3, <1>4 DEF Order
<1>6. store' \in [DOMAIN store' -> Order]
  BY <1>4, <1>5 DEF IInv, TypeOK
<1> QED BY <1>2, <1>4, <1>5, <1>6 DEF IInv, TypeOK

(* submitOrder() keeps the invariant. *)
LEMMA SubmitPreserves ==
    ASSUME IInv, NEW id \in OrderId, submit(id)
    PROVE  IInv'
<1> DEFINE e == Submitted(id, total(store[id].items))
           n == Len(log) + 1
<1>1. /\ id \in DOMAIN store /\ store[id].status = "Created"
      /\ log' = Append(log, e) /\ seq' = seq
      /\ save(id, [store[id] EXCEPT !.status = "Confirmed"])
  BY DEF submit, Known, canTransit
<1>2. store[id].items \in Seq(Item)
  BY <1>1 DEF IInv, TypeOK, Order
<1>3. e \in Event /\ e.id = id /\ e.type = "OrderSubmitted" /\ e.total = total(store[id].items)
  BY <1>2 DEF Event, Submitted
<1>4. "Confirmed" \in Status
  BY DEF Status
<1> HIDE DEF e
<1>5. /\ log' \in Seq(Event) /\ TypeOK'
      /\ DOMAIN store' = DOMAIN store
      /\ \A k \in DOMAIN store \ {id} : store'[k] = store[k]
      /\ store'[id].status = "Confirmed" /\ store'[id].items = store[id].items
      /\ n \in Nat \ {0} /\ DOMAIN log = 1..(n - 1) /\ DOMAIN log' = 1..n
      /\ log'[n] = e /\ \A k \in DOMAIN log : log'[k] = log[k]
  BY <1>1, <1>3, <1>4, Announced
<1> HIDE DEF n
<1>6. \A k \in DOMAIN log : log[k].id # id
  <2>1. EventsOf("OrderSubmitted", id) = {} /\ EventsOf("OrderCancelled", id) = {}
    BY <1>1 DEF IInv, EventsTellTheStory
  <2>2. \A k \in DOMAIN log : log[k].type \in {"OrderSubmitted", "OrderCancelled"}
    BY DEF IInv, Event
  <2> QED BY <2>1, <2>2 DEF EventsOf
<1>7. /\ EventsOf("OrderSubmitted", id)' = {n} /\ EventsOf("OrderCancelled", id)' = {}
      /\ \A ty, k : k # id => EventsOf(ty, k)' = EventsOf(ty, k)
  BY <1>3, <1>5, <1>6 DEF EventsOf
<1>8. AnnouncedTotalStands'
  BY <1>3, <1>5, <1>7 DEF IInv, AnnouncedTotalStands, EventsOf
<1>9. EventsTellTheStory'
  <2>1. \A k \in DOMAIN log' : log'[k].id \in 1..seq'
    BY <1>1, <1>3, <1>5 DEF IInv, EventsTellTheStory, TypeOK
  <2>2. \A j, k \in DOMAIN log' :
           log'[j].type = log'[k].type /\ log'[j].id = log'[k].id => j = k
    BY <1>3, <1>5, <1>6 DEF IInv, EventsTellTheStory
  <2>3. \A j, k \in DOMAIN log' :
           log'[j].type = "OrderCancelled" /\ log'[k].id = log'[j].id => k <= j
    BY <1>3, <1>5, <1>6 DEF IInv, EventsTellTheStory
  <2>4. ASSUME NEW k \in DOMAIN store'
        PROVE  LET t == store'[k].status IN
               /\ (EventsOf("OrderCancelled", k)' # {}) <=> (t = "Cancelled")
               /\ t \in {"Confirmed", "Shipped", "Completed"}
                    => EventsOf("OrderSubmitted", k)' # {}
               /\ t = "Created" => EventsOf("OrderSubmitted", k)' = {}
    BY <1>5, <1>7 DEF IInv, EventsTellTheStory
  <2> QED BY <2>1, <2>2, <2>3, <2>4 DEF EventsTellTheStory
<1> QED BY <1>5, <1>8, <1>9 DEF IInv, Event

(* cancelOrder() keeps the invariant. *)
LEMMA CancelPreserves ==
    ASSUME IInv, NEW id \in OrderId, cancel(id)
    PROVE  IInv'
<1> DEFINE e == Cancelled(id)
           n == Len(log) + 1
<1>1. /\ id \in DOMAIN store /\ store[id].status \in {"Created", "Confirmed"}
      /\ log' = Append(log, e) /\ seq' = seq
      /\ save(id, [store[id] EXCEPT !.status = "Cancelled"])
  BY DEF cancel, Known, canTransit
<1>2. e \in Event /\ e.id = id /\ e.type = "OrderCancelled"
  BY DEF Event, Cancelled
<1>3. "Cancelled" \in Status
  BY DEF Status
<1> HIDE DEF e
<1>4. /\ log' \in Seq(Event) /\ TypeOK'
      /\ DOMAIN store' = DOMAIN store
      /\ \A k \in DOMAIN store \ {id} : store'[k] = store[k]
      /\ store'[id].status = "Cancelled"
      /\ n \in Nat \ {0} /\ DOMAIN log = 1..(n - 1) /\ DOMAIN log' = 1..n
      /\ log'[n] = e /\ \A k \in DOMAIN log : log'[k] = log[k]
  BY <1>1, <1>2, <1>3, Announced
<1> HIDE DEF n
<1>5. \A k \in DOMAIN log : log[k].id = id => log[k].type = "OrderSubmitted"
  <2>1. EventsOf("OrderCancelled", id) = {}
    BY <1>1 DEF IInv, EventsTellTheStory
  <2>2. \A k \in DOMAIN log : log[k].type \in {"OrderSubmitted", "OrderCancelled"}
    BY DEF IInv, Event
  <2> QED BY <2>1, <2>2 DEF EventsOf
<1>6. /\ EventsOf("OrderCancelled", id)' = {n}
      /\ \A ty, k : k # id => EventsOf(ty, k)' = EventsOf(ty, k)
  BY <1>2, <1>4, <1>5 DEF EventsOf
<1>7. AnnouncedTotalStands'
  BY <1>4, <1>6 DEF IInv, AnnouncedTotalStands, EventsOf
<1>8. EventsTellTheStory'
  <2>1. \A k \in DOMAIN log' : log'[k].id \in 1..seq'
    BY <1>1, <1>2, <1>4 DEF IInv, EventsTellTheStory, TypeOK
  <2>2. \A j, k \in DOMAIN log' :
           log'[j].type = log'[k].type /\ log'[j].id = log'[k].id => j = k
    BY <1>2, <1>4, <1>5 DEF IInv, EventsTellTheStory
  <2>3. \A j, k \in DOMAIN log' :
           log'[j].type = "OrderCancelled" /\ log'[k].id = log'[j].id => k <= j
    BY <1>2, <1>4, <1>5 DEF IInv, EventsTellTheStory
  <2>4. ASSUME NEW k \in DOMAIN store'
        PROVE  LET t == store'[k].status IN
               /\ (EventsOf("OrderCancelled", k)' # {}) <=> (t = "Cancelled")
               /\ t \in {"Confirmed", "Shipped", "Completed"}
                    => EventsOf("OrderSubmitted", k)' # {}
               /\ t = "Created" => EventsOf("OrderSubmitted", k)' = {}
    <3>1. CASE k = id
      BY <1>4, <1>6, <3>1
    <3>2. CASE k # id
      BY <1>4, <1>6, <3>2 DEF IInv, EventsTellTheStory
    <3> QED BY <3>1, <3>2
  <2> QED BY <2>1, <2>2, <2>3, <2>4 DEF EventsTellTheStory
<1> QED BY <1>4, <1>7, <1>8 DEF IInv, Event

-----------------------------------------------------------------------------
(* An empty repository satisfies the invariant. *)
LEMMA Initially == Init => IInv
<1> SUFFICES ASSUME Init PROVE IInv
  OBVIOUS
<1>1. seq = 0 /\ DOMAIN store = {} /\ log = <<>> /\ store \in [DOMAIN store -> Order]
  BY DEF Init
<1>2. log \in Seq(Event) /\ DOMAIN log = {}
  BY <1>1
<1> QED BY <1>1, <1>2, OrderAssumption
    DEF IInv, TypeOK, AnnouncedTotalStands, EventsTellTheStory, EventsOf

(* Every use case keeps the invariant. *)
LEMMA Inductive == IInv /\ [Next]_vars => IInv'
<1> SUFFICES ASSUME IInv, [Next]_vars PROVE IInv'
  OBVIOUS
<1>1. CASE createOrder
  BY <1>1, CreatePreserves
<1>2. ASSUME NEW id \in OrderId,
             \/ \E qty \in Quantities, price \in Prices : addItem(id, qty, price)
             \/ \E idx \in 1..MaxItems : removeItem(id, idx)
             \/ \E idx \in 1..MaxItems, qty \in Quantities : setQuantity(id, idx, qty)
      PROVE  IInv'
  <2>1. ItemChange(id)
    BY <1>2, ItemOperations DEF IInv
  <2> QED BY <2>1, ItemChangePreserves
<1>3. ASSUME NEW id \in OrderId, ship(id) \/ complete(id)
      PROVE  IInv'
  <2>1. StatusMove(id)
    BY <1>3 DEF ship, complete, StatusMove, Known, canTransit
  <2> QED BY <2>1, StatusMovePreserves
<1>4. ASSUME NEW id \in OrderId, submit(id) PROVE IInv'
  BY <1>4, SubmitPreserves
<1>5. ASSUME NEW id \in OrderId, cancel(id) PROVE IInv'
  BY <1>5, CancelPreserves
<1>6. ASSUME NEW id \in OrderId, remove(id) PROVE IInv'
  BY <1>6, RemovePreserves
<1>7. CASE UNCHANGED vars
  BY <1>7 DEF IInv, vars, TypeOK, AnnouncedTotalStands, EventsTellTheStory, EventsOf, Event
<1> QED BY <1>1, <1>2, <1>3, <1>4, <1>5, <1>6, <1>7 DEF Next

(* The service always satisfies the invariant. *)
LEMMA Invariance == Spec => []IInv
BY Initially, Inductive, PTL DEF Spec

(* Type correctness, with INV-2 for every item ever stored. *)
THEOREM ItemsAreValid == Spec => []TypeOK
<1>1. IInv => TypeOK
  BY DEF IInv
<1> QED BY <1>1, Invariance, PTL

(* The total OrderSubmitted announced stands as long as the order is       *)
(* confirmed: the lock of addItem, setQuantity and removeItem suffices.    *)
THEOREM AnnouncementStands == Spec => []AnnouncedTotalStands
<1>1. IInv => AnnouncedTotalStands
  BY DEF IInv
<1> QED BY <1>1, Invariance, PTL

(* The published events agree with the stored orders. *)
THEOREM StoryIsTrue == Spec => []EventsTellTheStory
<1>1. IInv => EventsTellTheStory
  BY DEF IInv
<1> QED BY <1>1, Invariance, PTL

(* INV-4 and INV-6 as an action property. *)
THEOREM StatusMovesForward == Spec => OnlyForward
<1> DEFINE A == \A id \in DOMAIN store' :
                  LET s == store[id].status
                      t == store'[id].status
                  IN  IF id \in DOMAIN store
                      THEN \/ s = t
                           \/ s \in {"Created", "Confirmed"} /\ t = "Cancelled"
                           \/ s # "Cancelled" /\ t # "Cancelled" /\ Forward[t] = Forward[s] + 1
                      ELSE id > seq
<1>1. ASSUME IInv, Next PROVE A
  <2>1. store \in [DOMAIN store -> Order] /\ seq \in 0..MaxOrders
    BY <1>1 DEF IInv, TypeOK
  <2>2. ASSUME NEW id \in OrderId, ItemChange(id) PROVE A
    <3>1. /\ DOMAIN store' = DOMAIN store
          /\ \A k \in DOMAIN store : store'[k].status = store[k].status
      BY <2>1, <2>2 DEF ItemChange, save, Order
    <3> QED BY <3>1
  <2>3. ASSUME NEW id \in DOMAIN store, NEW st \in Status,
               save(id, [store[id] EXCEPT !.status = st])
        PROVE  /\ DOMAIN store' = DOMAIN store
               /\ store'[id].status = st
               /\ \A k \in DOMAIN store : k # id => store'[k].status = store[k].status
    BY <2>1, <2>3 DEF save, Order
  <2>4. CASE createOrder
    <3>1. /\ DOMAIN store' = DOMAIN store \cup {seq + 1}
          /\ \A k \in DOMAIN store : k # seq + 1 => store'[k] = store[k]
      BY <2>4 DEF createOrder, save
    <3>2. seq + 1 \notin DOMAIN store /\ seq + 1 > seq
      BY <1>1, <2>1 DEF IInv, TypeOK
    <3> QED BY <3>1, <3>2
  <2>5. ASSUME NEW id \in OrderId, remove(id) PROVE A
    BY <2>5 DEF remove
  <2>6. ASSUME NEW id \in OrderId, submit(id) PROVE A
    <3>1. id \in DOMAIN store /\ store[id].status = "Created"
      BY <2>6 DEF submit, Known, canTransit
    <3>2. save(id, [store[id] EXCEPT !.status = "Confirmed"]) /\ "Confirmed" \in Status
      BY <2>6 DEF submit, Status
    <3> QED BY <2>3, <3>1, <3>2 DEF Forward
  <2>7. ASSUME NEW id \in OrderId, ship(id) PROVE A
    <3>1. id \in DOMAIN store /\ store[id].status = "Confirmed"
      BY <2>7 DEF ship, Known, canTransit
    <3>2. save(id, [store[id] EXCEPT !.status = "Shipped"]) /\ "Shipped" \in Status
      BY <2>7 DEF ship, Status
    <3> QED BY <2>3, <3>1, <3>2 DEF Forward
  <2>8. ASSUME NEW id \in OrderId, complete(id) PROVE A
    <3>1. id \in DOMAIN store /\ store[id].status = "Shipped"
      BY <2>8 DEF complete, Known, canTransit
    <3>2. save(id, [store[id] EXCEPT !.status = "Completed"]) /\ "Completed" \in Status
      BY <2>8 DEF complete, Status
    <3> QED BY <2>3, <3>1, <3>2 DEF Forward
  <2>9. ASSUME NEW id \in OrderId, cancel(id) PROVE A
    <3>1. id \in DOMAIN store /\ store[id].status \in {"Created", "Confirmed"}
      BY <2>9 DEF cancel, Known, canTransit
    <3>2. save(id, [store[id] EXCEPT !.status = "Cancelled"]) /\ "Cancelled" \in Status
      BY <2>9 DEF cancel, Status
    <3> QED BY <2>3, <3>1, <3>2
  <2>10. \A id \in OrderId :
           \/ \E qty \in Quantities, price \in Prices : addItem(id, qty, price)
           \/ \E idx \in 1..MaxItems : removeItem(id, idx)
           \/ \E idx \in 1..MaxItems, qty \in Quantities : setQuantity(id, idx, qty)
           => ItemChange(id)
    BY <1>1, ItemOperations DEF IInv
  <2> HIDE DEF A
  <2> QED BY <1>1, <2>2, <2>4, <2>5, <2>6, <2>7, <2>8, <2>9, <2>10 DEF Next
<1>2. IInv /\ [Next]_vars => [A]_vars
  BY <1>1
<1> QED BY <1>2, Invariance, PTL DEF Spec, OnlyForward
=============================================================================
