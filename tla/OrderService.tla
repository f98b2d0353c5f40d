---------------------------- MODULE OrderService ----------------------------
(***************************************************************************)
(* ddd/src: the Order aggregate (domain/order.h, order_item.h,             *)
(* order_status.h, money.h), its repository and the application service    *)
(* that runs the use cases.  A use case finds a copy of the order, changes *)
(* the copy, publishes, and saves; the program is single-threaded and the  *)
(* publisher only records, so a use case is one step.  A call that is      *)
(* refused returns an error and changes nothing: its action is disabled.   *)
(***************************************************************************)
EXTENDS Integers, Sequences, SequencesExt

CONSTANTS MaxOrders,   \* bound: orders ever created
          MaxItems,    \* bound: items in an order
          Quantities,  \* quantities a caller may pass, legal or not
          Prices,      \* unit prices a caller may pass, legal or not
          Limit        \* amounts are integers in -Limit .. Limit - 1 (2^63 in the code)

ASSUME OrderAssumption ==
    /\ MaxOrders \in Nat /\ MaxItems \in Nat
    /\ Quantities \subseteq Int /\ Prices \subseteq Int
    /\ Limit \in Nat \ {0}

VARIABLES
    seq,    \* seq_: the last order number given out
    store,  \* InMemoryOrderRepository::store_, by order number
    log     \* the domain events the publisher was given

vars == <<seq, store, log>>

OrderId == 1..MaxOrders
Status  == {"Created", "Confirmed", "Shipped", "Completed", "Cancelled"}
Item    == [qty : {q \in Quantities : q > 0}, price : {p \in Prices : p >= 0}]
Order   == [status : Status, items : Seq(Item)]

-----------------------------------------------------------------------------
(* Value objects. *)

(* Signed arithmetic of the width of Money, as compiled code wraps it. *)
Money(n) == ((n + Limit) % (2 * Limit)) - Limit

lineTotal(item) == Money(item.price * item.qty)

total(items) ==
    FoldLeft(LAMBDA t, item : Money(t + lineTotal(item)), 0, items)

canTransit_NoTerminal(from, to) ==
    \/ from = "Created" /\ to \in {"Confirmed", "Cancelled"}
    \/ from = "Confirmed" /\ to \in {"Shipped", "Cancelled"}
    \/ from = "Shipped" /\ to = "Completed"
    \/ from = "Cancelled"

canTransit(from, to) ==
    \/ from = "Created" /\ to \in {"Confirmed", "Cancelled"}
    \/ from = "Confirmed" /\ to \in {"Shipped", "Cancelled"}
    \/ from = "Shipped" /\ to = "Completed"

Locked_Never(order) == FALSE

(* The test at the head of addItem, setQuantity and removeItem. *)
Locked(order) == order.status = "Confirmed"

validQuantity_Zero(qty) == qty >= 0

validQuantity(qty) == qty > 0

validItem(qty, price) == validQuantity(qty) /\ price >= 0

Submitted(id, t) == [type |-> "OrderSubmitted", id |-> id, total |-> t]
Cancelled(id)    == [type |-> "OrderCancelled", id |-> id]

-----------------------------------------------------------------------------
(* The repository. *)

Known(id) == id \in DOMAIN store

save(id, order) ==
    store' = [k \in DOMAIN store \cup {id} |-> IF k = id THEN order ELSE store[k]]

Init == seq = 0 /\ store = [k \in {} |-> 0] /\ log = <<>>

remove(id) ==
    /\ Known(id)
    /\ store' = [k \in DOMAIN store \ {id} |-> store[k]]
    /\ UNCHANGED <<seq, log>>

-----------------------------------------------------------------------------
(* The use cases. *)

createOrder ==
    /\ seq < MaxOrders
    /\ seq' = seq + 1
    /\ save(seq + 1, [status |-> "Created", items |-> <<>>])
    /\ UNCHANGED log

addItem(id, qty, price) ==
    /\ Known(id) /\ ~Locked(store[id])
    /\ validItem(qty, price)
    /\ Len(store[id].items) < MaxItems
    /\ save(id, [store[id] EXCEPT
                    !.items = Append(@, [qty |-> qty, price |-> price])])
    /\ UNCHANGED <<seq, log>>

removeItem(id, idx) ==
    /\ Known(id) /\ ~Locked(store[id])
    /\ idx \in DOMAIN store[id].items
    /\ save(id, [store[id] EXCEPT !.items = RemoveAt(@, idx)])
    /\ UNCHANGED <<seq, log>>

(* No use case: a holder of the aggregate, as in the tests, who saves it. *)
setQuantity(id, idx, qty) ==
    /\ Known(id) /\ ~Locked(store[id])
    /\ idx \in DOMAIN store[id].items
    /\ validQuantity(qty)
    /\ save(id, [store[id] EXCEPT !.items[idx].qty = qty])
    /\ UNCHANGED <<seq, log>>

submit(id) ==
    /\ Known(id)
    /\ store[id].items # <<>>
    /\ canTransit(store[id].status, "Confirmed")
    /\ log' = Append(log, Submitted(id, total(store[id].items)))
    /\ save(id, [store[id] EXCEPT !.status = "Confirmed"])
    /\ UNCHANGED seq

ship(id) ==
    /\ Known(id)
    /\ canTransit(store[id].status, "Shipped")
    /\ save(id, [store[id] EXCEPT !.status = "Shipped"])
    /\ UNCHANGED <<seq, log>>

complete(id) ==
    /\ Known(id)
    /\ canTransit(store[id].status, "Completed")
    /\ save(id, [store[id] EXCEPT !.status = "Completed"])
    /\ UNCHANGED <<seq, log>>

cancel(id) ==
    /\ Known(id)
    /\ store[id].status \notin {"Shipped", "Cancelled"}
    /\ canTransit(store[id].status, "Cancelled")
    /\ log' = Append(log, Cancelled(id))
    /\ save(id, [store[id] EXCEPT !.status = "Cancelled"])
    /\ UNCHANGED seq

Next ==
    \/ createOrder
    \/ \E id \in OrderId :
        \/ \E qty \in Quantities, price \in Prices : addItem(id, qty, price)
        \/ \E idx \in 1..MaxItems : removeItem(id, idx)
        \/ \E idx \in 1..MaxItems, qty \in Quantities : setQuantity(id, idx, qty)
        \/ submit(id) \/ ship(id) \/ complete(id) \/ cancel(id)
        \/ remove(id)

Spec == Init /\ [][Next]_vars

-----------------------------------------------------------------------------
(* Properties. *)

(* Also INV-2: every stored item has a positive quantity and a price that  *)
(* is not negative, however it was created or changed.                     *)
TypeOK ==
    /\ seq \in 0..MaxOrders
    /\ DOMAIN store \subseteq 1..seq
    /\ store \in [DOMAIN store -> Order]

EventsOf(type, id) ==
    {k \in DOMAIN log : log[k].type = type /\ log[k].id = id}

(* What OrderSubmitted announced is what a confirmed order still comes to: *)
(* the lock on its items (INV-5) holds from submission until shipping.     *)
AnnouncedTotalStands ==
    \A id \in DOMAIN store :
        store[id].status = "Confirmed" =>
            \A k \in EventsOf("OrderSubmitted", id) :
                log[k].total = total(store[id].items)

(* The events tell the order's story: a submission announced exactly once  *)
(* for an order that got as far as confirmation, a cancellation exactly    *)
(* once for a cancelled one, nothing after the cancellation and nothing    *)
(* for an order number not given out.                                      *)
EventsTellTheStory ==
    /\ \A j, k \in DOMAIN log :
          log[j].type = log[k].type /\ log[j].id = log[k].id => j = k
    /\ \A j, k \in DOMAIN log :
          log[j].type = "OrderCancelled" /\ log[k].id = log[j].id => k <= j
    /\ \A k \in DOMAIN log : log[k].id \in 1..seq
    /\ \A id \in DOMAIN store :
          LET s == store[id].status IN
          /\ (EventsOf("OrderCancelled", id) # {}) <=> (s = "Cancelled")
          /\ s \in {"Confirmed", "Shipped", "Completed"}
                => EventsOf("OrderSubmitted", id) # {}
          /\ s = "Created" => EventsOf("OrderSubmitted", id) = {}

(* INV-4 and INV-6, also across a removal: no order number is ever given   *)
(* out again, a stored order only moves forward, and never from shipped to *)
(* cancelled.                                                              *)
Forward == [Created |-> 0, Confirmed |-> 1, Shipped |-> 2, Completed |-> 3]
OnlyForward ==
    [][\A id \in DOMAIN store' :
        LET s == store[id].status
            t == store'[id].status
        IN  IF id \in DOMAIN store
            THEN \/ s = t
                 \/ s \in {"Created", "Confirmed"} /\ t = "Cancelled"
                 \/ s # "Cancelled" /\ t # "Cancelled" /\ Forward[t] = Forward[s] + 1
            ELSE id > seq]_vars

(* INV-5 as the requirements state it: once submitted, an order's items    *)
(* never change.                                                           *)
SubmittedIsLocked ==
    [][\A id \in DOMAIN store \cap DOMAIN store' :
        store[id].status # "Created" => store'[id].items = store[id].items]_vars

(* INV-3 as the requirements state it: the total is the sum of price times *)
(* quantity and is never negative.                                         *)
TotalNotNegative == \A id \in DOMAIN store : total(store[id].items) >= 0
=============================================================================
