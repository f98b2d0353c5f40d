------------------------------ MODULE FsmProofs ------------------------------
(***************************************************************************)
(* Theorems about state_machine_2.                                         *)
(*                                                                         *)
(* What EventDrivenFsm promises of posted events, for any number of        *)
(* clients, controllers, events, posts and deferrals.                      *)
(*                                                                         *)
(* What HierarchicalFsm promises of its callbacks, for every forest and    *)
(* every table of transitions.                                             *)
(*                                                                         *)
(* That DeviceControl implements DeviceObjects.                            *)
(***************************************************************************)
EXTENDS EventDrivenFsm, HierarchicalFsm, DeviceControl, WellFoundedInduction, TLAPS

-----------------------------------------------------------------------------
(* EventDrivenFsm. *)

(* Events the processing thread has taken or clear() has discarded. *)
Begun == Ids(current) \cup handled \cup dropped

(* Only posted events are anywhere. *)
PostedOnly ==
    /\ Ids(queue) \subseteq 1..posted
    /\ Begun \subseteq 1..posted

(* Only an event that was taken before can be deferred. *)
DeferredBegun == Ids(deferred) \subseteq Begun

(* Events in the queue that are there for the first time stand in the      *)
(* order of posting, replayed ones anywhere among them.                    *)
FreshOrder ==
    \A i, j \in DOMAIN queue :
        i < j /\ queue[i].id \notin Begun /\ queue[j].id \notin Begun
            => queue[i].id < queue[j].id

(* Whatever was posted before the event in hand is done with. *)
CurrentOrder ==
    \A b \in Ids(current), a \in 1..posted : a < b => a \in handled \cup dropped

(* Whatever was posted before a discarded event was taken or discarded. *)
DroppedOrder == \A b \in dropped, a \in 1..posted : a < b => a \in Begun

(* The thread of a running machine exists and has not left its loop. *)
RunningHasThread == running => wpc \notin {"none", "exited"}

IInv ==
    /\ TypeOK
    /\ stopMark <= posted
    /\ NothingLost /\ PostedOnly /\ DeferredBegun
    /\ FreshOrder /\ CurrentOrder /\ DroppedOrder /\ PostingOrder
    /\ RunningHasThread /\ StopDrains

-----------------------------------------------------------------------------
(* The numbers of the events of a sequence. *)

(* push() at the end adds one number. *)
LEMMA IdsAppend ==
    ASSUME NEW s \in Seq(Item), NEW x \in Item
    PROVE  Ids(Append(s, x)) = Ids(s) \cup {x.id}
<1>1. /\ Append(s, x) \in Seq(Item) /\ Len(Append(s, x)) = Len(s) + 1
      /\ \A k \in 1..Len(s) : Append(s, x)[k] = s[k]
      /\ Append(s, x)[Len(s) + 1] = x
  OBVIOUS
<1>2. /\ DOMAIN s = 1..Len(s) /\ DOMAIN Append(s, x) = 1..(Len(s) + 1)
      /\ Len(s) \in Nat
  BY <1>1
<1>3. 1..(Len(s) + 1) = 1..Len(s) \cup {Len(s) + 1}
  BY <1>2
<1> HIDE DEF Item
<1> QED
  BY <1>1, <1>2, <1>3 DEF Ids

(* Putting one queue behind another joins their numbers. *)
LEMMA IdsConcat ==
    ASSUME NEW s \in Seq(Item), NEW t \in Seq(Item)
    PROVE  Ids(s \o t) = Ids(s) \cup Ids(t)
<1>1. /\ Len(s) \in Nat /\ Len(t) \in Nat /\ Len(s \o t) = Len(s) + Len(t)
      /\ DOMAIN s = 1..Len(s) /\ DOMAIN t = 1..Len(t)
      /\ DOMAIN (s \o t) = 1..(Len(s) + Len(t))
  OBVIOUS
<1>2. \A k \in DOMAIN s : k \in DOMAIN (s \o t) /\ (s \o t)[k] = s[k]
  BY <1>1
<1>3. \A k \in DOMAIN t : Len(s) + k \in DOMAIN (s \o t) /\ (s \o t)[Len(s) + k] = t[k]
  BY <1>1
<1>4. \A k \in DOMAIN (s \o t) :
          \/ k \in DOMAIN s /\ (s \o t)[k] = s[k]
          \/ k - Len(s) \in DOMAIN t /\ (s \o t)[k] = t[k - Len(s)]
  BY <1>1
<1>5. ASSUME NEW n \in Ids(s \o t) PROVE n \in Ids(s) \cup Ids(t)
  <2>1. PICK k \in DOMAIN (s \o t) : n = (s \o t)[k].id
    BY DEF Ids
  <2> QED
    BY <2>1, <1>4, Zenon DEF Ids
<1>6. Ids(s) \subseteq Ids(s \o t)
  BY <1>2, Zenon DEF Ids
<1>7. Ids(t) \subseteq Ids(s \o t)
  BY <1>3, Zenon DEF Ids
<1> QED
  BY <1>5, <1>6, <1>7

(* pop() takes the number of the head. *)
LEMMA IdsPop ==
    ASSUME NEW s \in Seq(Item), s # <<>>
    PROVE  /\ Ids(s) = {Head(s).id} \cup Ids(Tail(s))
           /\ Ids(<<Head(s)>>) = {Head(s).id}
<1>1. /\ Len(s) \in Nat \ {0} /\ Len(Tail(s)) = Len(s) - 1
      /\ DOMAIN s = 1..Len(s) /\ DOMAIN Tail(s) = 1..(Len(s) - 1)
      /\ Head(s) = s[1]
  OBVIOUS
<1>2. \A k \in DOMAIN Tail(s) : k + 1 \in DOMAIN s /\ Tail(s)[k] = s[k + 1]
  BY <1>1
<1>3. \A k \in DOMAIN s : k = 1 \/ (k - 1 \in DOMAIN Tail(s) /\ s[k] = Tail(s)[k - 1])
  BY <1>1
<1>4. 1 \in DOMAIN s
  BY <1>1
<1>5. Ids(s) = {Head(s).id} \cup Ids(Tail(s))
  <2>1. ASSUME NEW n \in Ids(s) PROVE n \in {Head(s).id} \cup Ids(Tail(s))
    <3>1. PICK k \in DOMAIN s : n = s[k].id
      BY DEF Ids
    <3> QED
      BY <3>1, <1>1, <1>3, Zenon DEF Ids
  <2>2. Ids(Tail(s)) \subseteq Ids(s)
    BY <1>2, Zenon DEF Ids
  <2>3. Head(s).id \in Ids(s)
    BY <1>1, <1>4, Zenon DEF Ids
  <2> QED
    BY <2>1, <2>2, <2>3
<1>6. DOMAIN <<Head(s)>> = {1} /\ <<Head(s)>>[1] = Head(s)
  OBVIOUS
<1> QED
  BY <1>5, <1>6 DEF Ids

(* They are numbers of posts. *)
LEMMA IdsType == ASSUME NEW s \in Seq(Item) PROVE Ids(s) \subseteq 1..MaxPosts
<1>1. \A k \in DOMAIN s : s[k].id \in 1..MaxPosts
  <2>1. \A k \in DOMAIN s : s[k] \in Item
    OBVIOUS
  <2>2. \A x \in Item : x.id \in 1..MaxPosts
    BY DEF Item
  <2> QED
    BY <2>1, <2>2
<1> QED
  BY <1>1, Zenon DEF Ids

(* An empty queue has none. *)
LEMMA IdsEmpty == Ids(<<>>) = {}
<1>1. DOMAIN <<>> = {}
  OBVIOUS
<1> QED
  BY <1>1 DEF Ids

-----------------------------------------------------------------------------
(* Types. *)

(* Whatever process_internal_locked() decides, the state is a state. *)
LEMMA StateType ==
    ASSUME NEW e, state \in States, process_internal_locked(e)
    PROVE  state' \in States
BY FsmAssumption DEF FsmAssumption, process_internal_locked

(* Every call of a client keeps the types. *)
LEMMA ClientCallType ==
    ASSUME TypeOK, NEW c \in Clients, ClientCalls(c)
    PROVE  TypeOK'
<1> USE DEF Calls, Goto, history, machine
<1>a. MaxPosts \in Nat /\ MaxDeferrals \in Nat /\ Initial \in States
  BY FsmAssumption DEF FsmAssumption
<1>1. ASSUME NEW e \in Events, process_event(c, e) PROVE TypeOK'
  BY <1>1, StateType DEF TypeOK, process_event
<1>2. ASSUME NEW e \in Events, post_event(c, e) PROVE TypeOK'
  <2>1. posted \in Nat /\ posted + 1 \in 1..MaxPosts /\ posted + 1 \in 0..MaxPosts
    BY <1>2, <1>a DEF TypeOK, post_event
  <2>2. [event |-> e, id |-> posted + 1] \in Item
    BY <2>1 DEF Item
  <2>3. queue' \in Seq(Item)
    BY <1>2, <2>2 DEF TypeOK, post_event, Push
  <2>4. pc' \in [Clients -> {"idle", "notify", "stopping", "joining"}]
    BY <1>2 DEF TypeOK, post_event
  <2> QED
    BY <1>2, <2>1, <2>3, <2>4 DEF TypeOK, post_event
<1>3. ASSUME defer_current_event(c) PROVE TypeOK'
  <2>1. deferred' \in Seq(Item)
    BY <1>3 DEF TypeOK, defer_current_event
  <2>2. deferrals' \in 0..MaxDeferrals
    BY <1>3, <1>a DEF TypeOK, defer_current_event
  <2> QED
    BY <1>3, <2>1, <2>2 DEF TypeOK, defer_current_event
<1>4. ASSUME process_deferred_events(c) PROVE TypeOK'
  <2>1. queue' \in Seq(Item) /\ deferred' \in Seq(Item)
    BY <1>4 DEF TypeOK, process_deferred_events, Replayed
  <2> QED
    BY <1>4, <2>1 DEF TypeOK, process_deferred_events
<1>5. ASSUME reset(c) PROVE TypeOK'
  BY <1>5, <1>a DEF TypeOK, reset
<1>6. ASSUME clear(c) PROVE TypeOK'
  <2>1. Ids(queue) \subseteq 1..MaxPosts
    BY IdsType DEF TypeOK
  <2>2. queue' \in Seq(Item) /\ deferred' \in Seq(Item)
    BY <1>6 DEF clear
  <2> QED
    BY <1>6, <2>1, <2>2 DEF TypeOK, clear
<1>7. ASSUME add_transition(c) PROVE TypeOK'
  BY <1>7 DEF TypeOK, add_transition
<1>8. ASSUME start_async(c) PROVE TypeOK'
  BY <1>8 DEF TypeOK, start_async
<1>9. ASSUME stop_async(c) PROVE TypeOK'
  <2>1. pc' \in [Clients -> {"idle", "notify", "stopping", "joining"}]
    BY <1>9 DEF TypeOK, stop_async
  <2> QED
    BY <1>9, <2>1 DEF TypeOK, stop_async
<1> QED
  BY <1>1, <1>2, <1>3, <1>4, <1>5, <1>6, <1>7, <1>8, <1>9 DEF ClientCalls

(* So does every step of a call under way, of the thread, and no step. *)
LEMMA OtherType ==
    ASSUME TypeOK,
           \/ \E c \in Clients : ClientContinues(c)
           \/ Worker \/ SpuriousWakeup \/ UNCHANGED vars
    PROVE  TypeOK'
<1> USE DEF Goto, history, machine
<1>1. ASSUME NEW c \in Clients, ClientContinues(c) PROVE TypeOK'
  <2>1. /\ wpc' \in {"none", "test", "asleep", "popped", "exited"}
        /\ wpc' = "popped" <=> wpc = "popped"
    BY <1>1 DEF TypeOK, ClientContinues, NotifyOne, NotifyAll, Join, Woken
  <2>2. pc' \in [Clients -> {"idle", "notify", "stopping", "joining"}]
    BY <1>1 DEF TypeOK, ClientContinues, NotifyOne, NotifyAll, Join
  <2>3. UNCHANGED <<machine, history>>
    BY <1>1 DEF ClientContinues, NotifyOne, NotifyAll, Join
  <2> QED
    BY <2>1, <2>2, <2>3 DEF TypeOK
<1>2. ASSUME Sleep \/ Exit \/ SpuriousWakeup PROVE TypeOK'
  BY <1>2 DEF TypeOK, Sleep, Exit, SpuriousWakeup
<1>3. ASSUME Pop PROVE TypeOK'
  <2>1. /\ current' \in Seq(Item) /\ Len(current') = 1
        /\ queue' \in Seq(Item)
    BY <1>3 DEF TypeOK, Pop
  <2> QED
    BY <1>3, <2>1 DEF TypeOK, Pop
<1>4. ASSUME Handle PROVE TypeOK'
  <2>1. state' \in States
    BY <1>4, StateType DEF Handle, TypeOK
  <2>2. Ids(current) \subseteq 1..MaxPosts
    BY IdsType DEF TypeOK
  <2>3. current' \in Seq(Item) /\ Len(current') = 0
    BY <1>4 DEF Handle
  <2>4. handled' \subseteq 1..MaxPosts
    BY <1>4, <2>2 DEF Handle, TypeOK
  <2>5. /\ wpc' = "test" /\ ~(wpc' = "popped")
        /\ UNCHANGED <<installed, queue, deferred, running, crashed, pc, posted,
                       deferrals, dropped, stopMark>>
    BY <1>4 DEF Handle
  <2> QED
    BY <2>1, <2>3, <2>4, <2>5 DEF TypeOK
<1>5. ASSUME UNCHANGED vars PROVE TypeOK'
  BY <1>5 DEF TypeOK, vars
<1> QED
  BY <1>1, <1>2, <1>3, <1>4, <1>5 DEF Worker

-----------------------------------------------------------------------------
(* Events.  The invariants of the queues depend on six variables only. *)

queues == <<queue, deferred, current, posted, handled, dropped>>

QueueInv ==
    /\ NothingLost /\ PostedOnly /\ DeferredBegun
    /\ FreshOrder /\ CurrentOrder /\ DroppedOrder /\ PostingOrder

(* A step that touches none of them. *)
LEMMA QuietKeeps == ASSUME QueueInv, UNCHANGED queues PROVE QueueInv'
BY DEF queues, QueueInv, NothingLost, PostedOnly, DeferredBegun, FreshOrder,
       CurrentOrder, DroppedOrder, PostingOrder, Begun, Ids

(* post_event(): the newest number goes to the end. *)
LEMMA PostKeeps ==
    ASSUME TypeOK, QueueInv, NEW c \in Clients, NEW e \in Events, post_event(c, e)
    PROVE  QueueInv'
<1> DEFINE x == [event |-> e, id |-> posted + 1]
<1>a. /\ posted \in Nat /\ posted' = posted + 1 /\ posted' \in Nat
      /\ 1..posted' = 1..posted \cup {posted + 1}
      /\ posted + 1 \in 1..MaxPosts /\ posted + 1 \notin 1..posted
  BY FsmAssumption DEF FsmAssumption, TypeOK, post_event
<1>b. x \in Item /\ x.id = posted + 1 /\ queue' = Append(queue, x) /\ queue \in Seq(Item)
  BY <1>a DEF Item, post_event, Push, TypeOK
<1>c. UNCHANGED <<deferred, current, handled, dropped>>
  BY DEF post_event
<1>d. Ids(queue') = Ids(queue) \cup {posted + 1}
  BY <1>b, IdsAppend
<1>e. Begun' = Begun /\ Ids(current)' = Ids(current) /\ Ids(deferred)' = Ids(deferred)
  BY <1>c DEF Begun, Ids
<1>1. NothingLost' /\ PostedOnly' /\ DeferredBegun'
  BY <1>a, <1>c, <1>d, <1>e DEF QueueInv, NothingLost, PostedOnly, DeferredBegun
<1>2. FreshOrder'
  <2> SUFFICES ASSUME NEW i \in DOMAIN queue', NEW j \in DOMAIN queue', i < j,
                      queue'[i].id \notin Begun, queue'[j].id \notin Begun
               PROVE  queue'[i].id < queue'[j].id
    BY <1>e DEF FreshOrder
  <2>1. /\ DOMAIN queue' = 1..(Len(queue) + 1) /\ DOMAIN queue = 1..Len(queue)
        /\ Len(queue) \in Nat
        /\ \A k \in DOMAIN queue : queue'[k] = queue[k]
        /\ queue'[Len(queue) + 1] = x
    BY <1>b
  <2>2. i \in DOMAIN queue
    BY <2>1
  <2>3. CASE j \in DOMAIN queue
    BY <2>1, <2>2, <2>3 DEF QueueInv, FreshOrder
  <2>4. CASE j = Len(queue) + 1
    <3>1. queue[i].id \in 1..posted
      BY <2>2 DEF QueueInv, PostedOnly, Ids
    <3> QED
      BY <3>1, <2>1, <2>2, <2>4, <1>a, <1>b
  <2> QED
    BY <2>1, <2>3, <2>4
<1>3. CurrentOrder' /\ DroppedOrder' /\ PostingOrder'
  <2>1. Begun \subseteq 1..posted
    BY DEF QueueInv, PostedOnly
  <2>2. \A a \in 1..posted', b \in Begun : a < b => a \in 1..posted
    BY <1>a, <2>1
  <2> QED
    BY <1>a, <1>c, <1>e, <2>1, <2>2 DEF QueueInv, CurrentOrder, DroppedOrder, PostingOrder, Begun
<1> QED
  BY <1>1, <1>2, <1>3 DEF QueueInv

(* defer_current_event(): the event in hand has been taken. *)
LEMMA DeferKeeps ==
    ASSUME TypeOK, QueueInv, NEW c \in Clients, defer_current_event(c)
    PROVE  QueueInv'
<1>1. UNCHANGED <<queue, current, posted, handled, dropped>>
  BY DEF defer_current_event, history
<1>2. Ids(queue)' = Ids(queue) /\ Ids(current)' = Ids(current) /\ Begun' = Begun
  BY <1>1 DEF Ids, Begun
<1>3. Ids(deferred') = Ids(deferred) \cup Ids(current)
  BY IdsConcat DEF TypeOK, defer_current_event
<1>4. DeferredBegun'
  BY <1>2, <1>3 DEF QueueInv, DeferredBegun, Begun
<1> QED
  BY <1>1, <1>2, <1>4 DEF QueueInv, NothingLost, PostedOnly, FreshOrder, CurrentOrder,
                          DroppedOrder, PostingOrder

(* process_deferred_events(): only events taken before join the queue. *)
LEMMA ReplayKeeps ==
    ASSUME TypeOK, QueueInv, NEW c \in Clients, process_deferred_events(c)
    PROVE  QueueInv'
<1>1. UNCHANGED <<current, posted, handled, dropped>>
  BY DEF process_deferred_events, history
<1>2. Ids(current)' = Ids(current) /\ Begun' = Begun
  BY <1>1 DEF Ids, Begun
<1>3. /\ queue \in Seq(Item) /\ deferred \in Seq(Item)
      /\ queue' = queue \o deferred /\ deferred' = <<>>
  BY DEF TypeOK, process_deferred_events, Replayed
<1>4. Ids(queue') = Ids(queue) \cup Ids(deferred) /\ Ids(deferred') = {}
  BY <1>3, IdsConcat, IdsEmpty
<1>5. NothingLost' /\ PostedOnly' /\ DeferredBegun'
  BY <1>1, <1>2, <1>4 DEF QueueInv, NothingLost, PostedOnly, DeferredBegun, Begun
<1>6. FreshOrder'
  <2> SUFFICES ASSUME NEW i \in DOMAIN queue', NEW j \in DOMAIN queue', i < j,
                      queue'[i].id \notin Begun, queue'[j].id \notin Begun
               PROVE  queue'[i].id < queue'[j].id
    BY <1>2 DEF FreshOrder
  <2>1. ASSUME NEW k \in DOMAIN queue', queue'[k].id \notin Begun
        PROVE  k \in DOMAIN queue /\ queue'[k] = queue[k]
    <3>1. \/ k \in DOMAIN queue /\ queue'[k] = queue[k]
          \/ k - Len(queue) \in DOMAIN deferred /\ queue'[k] = deferred[k - Len(queue)]
      BY <1>3
    <3>2. \A n \in DOMAIN deferred : deferred[n].id \in Begun
      BY DEF QueueInv, DeferredBegun, Ids
    <3> QED
      BY <2>1, <3>1, <3>2
  <2> QED
    BY <2>1 DEF QueueInv, FreshOrder
<1> QED
  BY <1>1, <1>2, <1>5, <1>6 DEF QueueInv, CurrentOrder, DroppedOrder, PostingOrder

(* clear(): all that waits is discarded together, so nothing discarded     *)
(* leaves an older event waiting.                                          *)
LEMMA ClearKeeps ==
    ASSUME TypeOK, QueueInv, NEW c \in Clients, clear(c)
    PROVE  QueueInv'
<1>1. /\ UNCHANGED <<current, posted, handled>> /\ queue' = <<>> /\ deferred' = <<>>
      /\ dropped' = dropped \cup Ids(queue)
  BY DEF clear, history
<1>2. /\ Ids(queue') = {} /\ Ids(deferred') = {} /\ Ids(current)' = Ids(current)
      /\ DOMAIN queue' = {}
  BY <1>1, IdsEmpty DEF Ids
<1>3. Begun' = Begun \cup Ids(queue) /\ Begun' = 1..posted
  BY <1>1, <1>2 DEF Begun, QueueInv, NothingLost
<1>4. NothingLost' /\ PostedOnly' /\ DeferredBegun'
  BY <1>1, <1>2, <1>3 DEF QueueInv, NothingLost, PostedOnly, DeferredBegun, Begun
<1>5. FreshOrder'
  BY <1>2 DEF FreshOrder
<1>6. CurrentOrder' /\ DroppedOrder' /\ PostingOrder'
  BY <1>1, <1>2, <1>3 DEF QueueInv, CurrentOrder, DroppedOrder, PostingOrder
<1> QED
  BY <1>4, <1>5, <1>6 DEF QueueInv

(* Taking the head: if it is there for the first time, everything posted   *)
(* before it is done with, because it would stand before it; if it is      *)
(* replayed, that was so when it was first taken.                          *)
LEMMA PopKeeps ==
    ASSUME TypeOK, QueueInv, ~crashed, Pop
    PROVE  QueueInv'
<1> DEFINE h == Head(queue).id
<1>1. /\ UNCHANGED <<deferred, posted, handled, dropped>>
      /\ queue \in Seq(Item) /\ queue # <<>>
      /\ current' = <<Head(queue)>> /\ queue' = Tail(queue)
  BY DEF Pop, history, TypeOK
<1>2. current = <<>>
  BY DEF Pop, TypeOK
<1>3. Ids(current) = {}
  BY <1>2, IdsEmpty
<1>4. Ids(queue) = {h} \cup Ids(queue') /\ Ids(current') = {h} /\ Ids(deferred)' = Ids(deferred)
  BY <1>1, IdsPop DEF Ids
<1>5. Begun' = Begun \cup {h} /\ Begun = handled \cup dropped
  BY <1>1, <1>3, <1>4 DEF Begun
<1>6. NothingLost' /\ PostedOnly' /\ DeferredBegun'
  BY <1>1, <1>3, <1>4, <1>5 DEF QueueInv, NothingLost, PostedOnly, DeferredBegun
<1>7. /\ Len(queue) \in Nat \ {0} /\ DOMAIN queue = 1..Len(queue)
      /\ h = queue[1].id
      /\ DOMAIN queue' = 1..(Len(queue) - 1)
      /\ \A k \in DOMAIN queue' : k + 1 \in DOMAIN queue /\ queue'[k] = queue[k + 1]
  BY <1>1
<1>8. FreshOrder'
  BY <1>5, <1>7 DEF QueueInv, FreshOrder
<1>9. \A a \in 1..posted : a < h => a \in handled \cup dropped
  <2> SUFFICES ASSUME NEW a \in 1..posted, a < h, a \notin handled \cup dropped
               PROVE  FALSE
    OBVIOUS
  <2>0. h \in 1..posted
    BY <1>4 DEF QueueInv, PostedOnly
  <2>1. h \notin handled
    BY <2>0 DEF QueueInv, PostingOrder
  <2>2. h \notin dropped
    BY <1>5 DEF QueueInv, DroppedOrder
  <2>3. PICK k \in DOMAIN queue : a = queue[k].id
    <3>1. a \in Ids(queue)
      BY <1>3 DEF QueueInv, NothingLost
    <3> QED
      BY <3>1 DEF Ids
  <2>4. k = 1 \/ 1 < k
    BY <1>7, <2>3
  <2>5. CASE k = 1
    BY <2>5, <2>3, <2>0, <1>7
  <2>6. CASE 1 < k
    <3>1. h < a
      BY <1>5, <1>7, <2>1, <2>2, <2>3, <2>6 DEF QueueInv, FreshOrder
    <3> QED
      BY <3>1, <2>0
  <2> QED
    BY <2>4, <2>5, <2>6
<1>10. CurrentOrder' /\ DroppedOrder' /\ PostingOrder'
  BY <1>1, <1>4, <1>5, <1>9 DEF QueueInv, CurrentOrder, DroppedOrder, PostingOrder
<1> QED
  BY <1>6, <1>8, <1>10 DEF QueueInv

(* The event in hand becomes a handled one. *)
LEMMA HandleKeeps ==
    ASSUME TypeOK, QueueInv, Handle
    PROVE  QueueInv'
<1>1. /\ UNCHANGED <<queue, deferred, posted, dropped>> /\ current' = <<>>
      /\ handled' = handled \cup Ids(current)
  BY DEF Handle
<1>2. Ids(current') = {} /\ Ids(queue)' = Ids(queue) /\ Ids(deferred)' = Ids(deferred)
  BY <1>1, IdsEmpty DEF Ids
<1>3. Begun' = Begun
  BY <1>1, <1>2 DEF Begun
<1>4. NothingLost' /\ PostedOnly' /\ DeferredBegun'
  BY <1>1, <1>2, <1>3 DEF QueueInv, NothingLost, PostedOnly, DeferredBegun
<1>5. FreshOrder'
  BY <1>1, <1>3 DEF QueueInv, FreshOrder
<1>6. CurrentOrder' /\ DroppedOrder' /\ PostingOrder'
  BY <1>1, <1>2, <1>3 DEF QueueInv, CurrentOrder, DroppedOrder, PostingOrder
<1> QED
  BY <1>4, <1>5, <1>6 DEF QueueInv

-----------------------------------------------------------------------------
(* The processing thread. *)

ThreadInv == stopMark <= posted /\ RunningHasThread /\ StopDrains

(* A step that neither stops the machine nor ends its thread only adds     *)
(* to what is done with.                                                   *)
LEMMA ThreadKeeps ==
    ASSUME TypeOK, ThreadInv, UNCHANGED stopMark,
           posted \in Nat, posted' \in Nat, posted <= posted',
           handled \subseteq handled', dropped \subseteq dropped',
           running' /\ ~running => wpc' = "test",
           wpc' \in {"none", "exited"} => wpc \in {"none", "exited"}
    PROVE  ThreadInv'
<1>1. stopMark \in Nat
  BY FsmAssumption DEF FsmAssumption, TypeOK
<1>2. stopMark' <= posted'
  BY <1>1 DEF ThreadInv
<1>3. RunningHasThread'
  BY DEF ThreadInv, RunningHasThread, TypeOK
<1>4. StopDrains'
  BY DEF ThreadInv, StopDrains
<1> QED
  BY <1>2, <1>3, <1>4 DEF ThreadInv

(* stop_async() meets a thread that has not ended; the thread ends only    *)
(* when nothing is left of what had been posted by then.                   *)
LEMMA ThreadStep ==
    ASSUME TypeOK, NothingLost, PostedOnly, ThreadInv, [Next]_vars
    PROVE  ThreadInv'
<1> USE DEF history, machine
<1>a. posted \in Nat /\ stopMark \in Nat
  BY FsmAssumption DEF FsmAssumption, TypeOK
<1>1. ASSUME NEW c \in Clients, stop_async(c) PROVE ThreadInv'
  BY <1>1, <1>a DEF stop_async, ThreadInv, RunningHasThread, StopDrains
<1>2. ASSUME ~crashed, Exit PROVE ThreadInv'
  <2>0. current = <<>>
    <3>1. wpc # "popped" /\ ~crashed
      BY <1>2 DEF Exit
    <3>2. current \in Seq(Item) /\ Len(current) <= 1 /\ Len(current) # 1
      BY <3>1 DEF TypeOK
    <3> QED
      BY <3>2
  <2>1. queue = <<>> /\ wpc = "test" /\ wpc' = "exited" /\ ~running
        /\ UNCHANGED <<posted, stopMark, handled, dropped, running>>
    BY <1>2, Zenon DEF Exit, MayExit
  <2>2. 1..posted = handled \cup dropped
    BY <2>0, <2>1, IdsEmpty DEF NothingLost
  <2>3. 1..stopMark \subseteq 1..posted
    BY <1>a DEF ThreadInv
  <2> QED
    BY <2>1, <2>2, <2>3 DEF ThreadInv, RunningHasThread, StopDrains
<1>3. ASSUME NEW c \in Clients, ClientCalls(c), ~stop_async(c) PROVE ThreadInv'
  <2>0. UNCHANGED stopMark /\ (posted' = posted \/ posted' = posted + 1)
    BY <1>3, Zenon DEF ClientCalls, process_event, post_event, defer_current_event,
        process_deferred_events, reset, clear, add_transition, start_async
  <2>1. UNCHANGED stopMark /\ posted' \in Nat /\ posted <= posted'
    BY <2>0, <1>a
  <2>2. handled \subseteq handled' /\ dropped \subseteq dropped'
    BY <1>3 DEF ClientCalls, process_event, post_event, defer_current_event,
        process_deferred_events, reset, clear, add_transition, start_async
  <2>3. (running' = running /\ wpc' = wpc) \/ wpc' = "test"
    BY <1>3 DEF ClientCalls, process_event, post_event, defer_current_event,
        process_deferred_events, reset, clear, add_transition, start_async
  <2> QED
    BY <1>a, <2>1, <2>2, <2>3, ThreadKeeps
<1>4. ASSUME NEW c \in Clients, ClientContinues(c) PROVE ThreadInv'
  <2>1. UNCHANGED <<stopMark, posted, handled, dropped, running>>
    BY <1>4 DEF ClientContinues, NotifyOne, NotifyAll, Join
  <2>2. wpc' \in {"none", "exited"} => wpc \in {"none", "exited"}
    BY <1>4 DEF ClientContinues, NotifyOne, NotifyAll, Join, Woken
  <2> QED
    BY <1>a, <2>1, <2>2, ThreadKeeps
<1>5. ASSUME Sleep \/ Pop \/ Handle \/ SpuriousWakeup \/ UNCHANGED vars PROVE ThreadInv'
  <2>1. UNCHANGED <<stopMark, posted, dropped, running>> /\ handled \subseteq handled'
    BY <1>5 DEF Sleep, Pop, Handle, SpuriousWakeup, vars
  <2>2. wpc' \in {"none", "exited"} => wpc \in {"none", "exited"}
    BY <1>5 DEF Sleep, Pop, Handle, SpuriousWakeup, vars
  <2> QED
    BY <1>a, <2>1, <2>2, ThreadKeeps
<1> QED
  BY <1>1, <1>2, <1>3, <1>4, <1>5 DEF Next, Worker

-----------------------------------------------------------------------------
(* Every step keeps the invariants of the queues. *)
LEMMA QueueStep ==
    ASSUME TypeOK, QueueInv, [Next]_vars
    PROVE  QueueInv'
<1> USE DEF history, machine
<1>1. ASSUME NEW c \in Clients, ClientCalls(c) PROVE QueueInv'
  <2>1. ASSUME NEW e \in Events, process_event(c, e) PROVE QueueInv'
    BY <2>1, QuietKeeps DEF process_event, queues
  <2>2. ASSUME reset(c) \/ add_transition(c) \/ start_async(c) \/ stop_async(c)
        PROVE  QueueInv'
    BY <2>2, QuietKeeps DEF reset, add_transition, start_async, stop_async, queues
  <2> QED
    BY <1>1, <2>1, <2>2, PostKeeps, DeferKeeps, ReplayKeeps, ClearKeeps DEF ClientCalls
<1>2. ASSUME NEW c \in Clients, ClientContinues(c) PROVE QueueInv'
  BY <1>2, QuietKeeps DEF ClientContinues, NotifyOne, NotifyAll, Join, queues
<1>3. ASSUME Sleep \/ Exit \/ SpuriousWakeup \/ UNCHANGED vars PROVE QueueInv'
  BY <1>3, QuietKeeps DEF Sleep, Exit, SpuriousWakeup, vars, queues
<1> QED
  BY <1>1, <1>2, <1>3, PopKeeps, HandleKeeps DEF Next, Worker

(* The inductive invariant: initially, and kept by every step. *)
LEMMA InitIInv == Init => IInv
<1> SUFFICES ASSUME Init PROVE IInv
  OBVIOUS
<1>1. MaxPosts \in Nat /\ MaxDeferrals \in Nat /\ Initial \in States
  BY FsmAssumption DEF FsmAssumption
<1>2. TypeOK
  <2>1. /\ queue \in Seq(Item) /\ deferred \in Seq(Item) /\ current \in Seq(Item)
        /\ Len(current) = 0
    BY DEF Init
  <2>2. pc \in [Clients -> {"idle", "notify", "stopping", "joining"}]
    BY DEF Init
  <2>3. posted \in 0..MaxPosts /\ deferrals \in 0..MaxDeferrals /\ stopMark \in 0..MaxPosts
    BY <1>1 DEF Init
  <2>4. /\ state \in States
        /\ installed \in BOOLEAN /\ running \in BOOLEAN /\ crashed \in BOOLEAN
        /\ wpc = "none" /\ handled = {} /\ dropped = {}
    BY <1>1 DEF Init
  <2> QED
    BY <2>1, <2>2, <2>3, <2>4 DEF TypeOK
<1>3. /\ Ids(queue) = {} /\ Ids(deferred) = {} /\ Ids(current) = {} /\ DOMAIN queue = {}
      /\ 1..posted = {} /\ handled = {} /\ dropped = {}
  BY IdsEmpty DEF Init
<1>4. NothingLost /\ PostedOnly /\ DeferredBegun
  BY <1>3 DEF NothingLost, PostedOnly, DeferredBegun, Begun
<1>5. FreshOrder /\ CurrentOrder /\ DroppedOrder /\ PostingOrder
  BY <1>3 DEF FreshOrder, CurrentOrder, DroppedOrder, PostingOrder
<1>6. stopMark <= posted /\ RunningHasThread /\ StopDrains
  BY DEF Init, RunningHasThread, StopDrains
<1> QED
  BY <1>2, <1>4, <1>5, <1>6 DEF IInv

(* One step of the induction. *)
LEMMA NextIInv == IInv /\ [Next]_vars => IInv'
<1> SUFFICES ASSUME IInv, [Next]_vars PROVE IInv'
  OBVIOUS
<1>1. TypeOK /\ QueueInv /\ ThreadInv /\ NothingLost /\ PostedOnly
  BY DEF IInv, QueueInv, ThreadInv
<1>2. TypeOK'
  BY <1>1, ClientCallType, OtherType DEF Next
<1>3. QueueInv' /\ ThreadInv'
  BY <1>1, QueueStep, ThreadStep
<1> QED
  BY <1>2, <1>3 DEF IInv, QueueInv, ThreadInv

(* Every reachable state of the machine satisfies the invariant. *)
THEOREM Invariance == Spec => []IInv
BY InitIInv, NextIInv, PTL DEF Spec

(* Types: at most one event is in hand, and in a machine that has not      *)
(* terminated exactly between the two critical sections of                 *)
(* processing_loop().                                                      *)
THEOREM TypeCorrect == Spec => []TypeOK
<1>1. IInv => TypeOK
  BY DEF IInv
<1> QED
  BY <1>1, Invariance, PTL

(* No posted event disappears, whatever is deferred, replayed and cleared. *)
THEOREM Conservation == Spec => []NothingLost
<1>1. IInv => NothingLost
  BY DEF IInv
<1> QED
  BY <1>1, Invariance, PTL

(* processing_loop() handles events in the order of posting. *)
THEOREM Order == Spec => []PostingOrder
<1>1. IInv => PostingOrder
  BY DEF IInv
<1> QED
  BY <1>1, Invariance, PTL

(* stop_async() drains the queue, also if several controllers start and    *)
(* stop the machine at the same time.                                      *)
THEOREM Drained == Spec => []StopDrains
<1>1. IInv => StopDrains
  BY DEF IInv
<1> QED
  BY <1>1, Invariance, PTL

-----------------------------------------------------------------------------
(* HierarchicalFsm.  A set of states that holds, with each member, a parent *)
(* of it, is empty in a forest: what is proved of states is proved by       *)
(* looking at the set of the states it fails for.                           *)

Forest ==
    /\ DOMAIN parents \subseteq State /\ Acyclic(parents)
    /\ \A s \in DOMAIN parents : parents[s] \in State

(* p is the way from s to the root above it.                               *)
IsPath(s, p) ==
    /\ p \in Seq(State) /\ p # <<>> /\ p[1] = s
    /\ \A i \in 1..(Len(p) - 1) : p[i] \in DOMAIN parents /\ p[i + 1] = parents[p[i]]
    /\ p[Len(p)] \notin DOMAIN parents

(* Induction over a forest.                                                *)
LEMMA ForestInduction ==
    ASSUME Forest, NEW D \in SUBSET State, \A s \in D : s \in DOMAIN parents /\ parents[s] \in D
    PROVE  D = {}
BY DEF Forest, Acyclic

(* A sequence with one more element in front.                              *)
LEMMA InFront ==
    ASSUME NEW s \in State, NEW p \in Seq(State)
    PROVE  /\ <<s>> \o p \in Seq(State) /\ <<s>> \o p # <<>> /\ Len(<<s>> \o p) = Len(p) + 1
           /\ (<<s>> \o p)[1] = s
           /\ \A i \in 1..Len(p) : (<<s>> \o p)[i + 1] = p[i]
OBVIOUS

(* A root is the way from itself.                                          *)
LEMMA RootPath ==
    ASSUME NEW s \in State \ DOMAIN parents
    PROVE  IsPath(s, <<s>>)
BY DEF IsPath

(* The way from a state goes over its parent.                              *)
LEMMA ParentPath ==
    ASSUME Forest, NEW s \in DOMAIN parents, NEW p, IsPath(parents[s], p)
    PROVE  IsPath(s, <<s>> \o p)
<1> DEFINE q == <<s>> \o p
<1>1. s \in State /\ p \in Seq(State) /\ Len(p) \in Nat \ {0}
  BY DEF Forest, IsPath
<1>2. /\ q \in Seq(State) /\ q # <<>> /\ Len(q) = Len(p) + 1 /\ q[1] = s
      /\ \A i \in 1..Len(p) : q[i + 1] = p[i]
  BY <1>1, InFront
<1> HIDE DEF q
<1>3. ASSUME NEW i \in 1..(Len(q) - 1)  PROVE q[i] \in DOMAIN parents /\ q[i + 1] = parents[q[i]]
  <2>1. i \in 1..Len(p) /\ q[i + 1] = p[i]
    BY <1>1, <1>2
  <2>2. CASE i = 1
    BY <1>2, <2>1, <2>2 DEF IsPath
  <2>3. CASE i # 1
    <3>1. i - 1 \in 1..(Len(p) - 1) /\ i - 1 \in 1..Len(p) /\ (i - 1) + 1 = i
      BY <1>1, <2>1, <2>3
    <3>2. q[i] = p[i - 1] /\ p[i - 1] \in DOMAIN parents /\ p[i] = parents[p[i - 1]]
      BY <1>2, <3>1 DEF IsPath
    <3>3. QED
      BY <2>1, <3>2
  <2>4. QED
    BY <2>2, <2>3
<1>4. q[Len(q)] = p[Len(p)]
  BY <1>1, <1>2
<1>5. QED
  BY <1>2, <1>3, <1>4 DEF IsPath, q

(* What follows a member of a way is the way from that member.             *)
LEMMA RestOfPath ==
    ASSUME NEW s \in State, NEW p, IsPath(s, p), NEW i \in 1..Len(p)
    PROVE  /\ IsPath(p[i], SubSeq(p, i, Len(p))) /\ p[i] \in State
           /\ Len(SubSeq(p, i, Len(p))) = Len(p) - i + 1
           /\ \A j \in 1..(Len(p) - i + 1) : SubSeq(p, i, Len(p))[j] = p[i + j - 1]
<1> DEFINE q == SubSeq(p, i, Len(p))
<1>1. p \in Seq(State) /\ Len(p) \in Nat /\ i \in Nat /\ i >= 1 /\ i <= Len(p)
  BY DEF IsPath
<1>2. /\ q \in Seq(State) /\ Len(q) = Len(p) - i + 1
      /\ \A j \in 1..(Len(p) - i + 1) : q[j] = p[i + j - 1]
  BY <1>1
<1>3. p[i] \in State
  BY <1>1
<1> HIDE DEF q
<1>4. q # <<>> /\ Len(q) \in Nat \ {0}
  BY <1>1, <1>2
<1>5. q[1] = p[i] /\ q[Len(q)] = p[Len(p)]
  <2>1. 1 \in 1..(Len(p) - i + 1) /\ i + 1 - 1 = i /\ Len(q) \in 1..(Len(p) - i + 1) /\ i + Len(q) - 1 = Len(p)
    BY <1>1, <1>2
  <2>2. QED
    BY <1>2, <2>1
<1>6. ASSUME NEW j \in 1..(Len(q) - 1)  PROVE q[j] \in DOMAIN parents /\ q[j + 1] = parents[q[j]]
  <2>1. /\ j \in 1..(Len(p) - i + 1) /\ j + 1 \in 1..(Len(p) - i + 1)
        /\ i + j - 1 \in 1..(Len(p) - 1) /\ i + (j + 1) - 1 = (i + j - 1) + 1
    BY <1>1, <1>2, <1>4
  <2>2. q[j] = p[i + j - 1] /\ q[j + 1] = p[(i + j - 1) + 1]
    <3>1. q[j] = p[i + j - 1]
      BY <1>2, <2>1
    <3>2. q[j + 1] = p[i + (j + 1) - 1]
      BY <1>2, <2>1, Zenon
    <3>3. QED
      BY <2>1, <3>1, <3>2, Zenon
  <2>3. QED
    BY <2>1, <2>2 DEF IsPath
<1>7. IsPath(p[i], q)
  BY <1>2, <1>4, <1>5, <1>6 DEF IsPath
<1>8. QED
  BY <1>2, <1>3, <1>7 DEF q

(* From every state there is a way.                                        *)
LEMMA PathExists ==
    ASSUME Forest
    PROVE  \A s \in State : \E p : IsPath(s, p)
<1> DEFINE D == {s \in State : ~\E p : IsPath(s, p)}
<1>1. ASSUME NEW s \in D  PROVE s \in DOMAIN parents /\ parents[s] \in D
  <2>1. s \in DOMAIN parents
    BY RootPath
  <2>2. parents[s] \in State
    BY <2>1 DEF Forest
  <2>3. QED
    BY <2>1, <2>2, ParentPath
<1>2. D \in SUBSET State
  OBVIOUS
<1>3. D = {}
  <2> HIDE DEF D
  <2> QED  BY <1>1, <1>2, ForestInduction
<1>4. QED
  BY <1>3

(* And there is only one.                                                  *)
LEMMA PathUnique ==
    ASSUME Forest
    PROVE  \A s \in State : \A p, q : IsPath(s, p) /\ IsPath(s, q) => p = q
<1> DEFINE D == {s \in State : \E p, q : IsPath(s, p) /\ IsPath(s, q) /\ p # q}
<1>1. ASSUME NEW s \in D  PROVE s \in DOMAIN parents /\ parents[s] \in D
  <2>1. PICK p, q : IsPath(s, p) /\ IsPath(s, q) /\ p # q
    OBVIOUS
  <2>2. ASSUME NEW r, IsPath(s, r)
        PROVE  /\ s \notin DOMAIN parents => r = <<s>>
               /\ s \in DOMAIN parents => Len(r) > 1 /\ r[2] = parents[s] /\ r = <<s>> \o SubSeq(r, 2, Len(r))
    <3>1. r \in Seq(State) /\ Len(r) \in Nat \ {0} /\ r[1] = s
      BY <2>2 DEF IsPath
    <3>2. ASSUME s \notin DOMAIN parents  PROVE r = <<s>>
      <4>1. ~(1 \in 1..(Len(r) - 1))
        BY <2>2, <3>1, <3>2 DEF IsPath
      <4>2. Len(r) = 1
        BY <3>1, <4>1
      <4>3. QED
        BY <3>1, <4>2
    <3>3. ASSUME s \in DOMAIN parents
          PROVE  Len(r) > 1 /\ r[2] = parents[s] /\ r = <<s>> \o SubSeq(r, 2, Len(r))
      <4>1. Len(r) # 1
        BY <2>2, <3>1, <3>3 DEF IsPath
      <4>2. Len(r) > 1 /\ 1 \in 1..(Len(r) - 1) /\ 1 + 1 = 2
        BY <3>1, <4>1
      <4>3. r[2] = parents[s]
        BY <2>2, <3>1, <4>2 DEF IsPath
      <4>4. r = <<s>> \o SubSeq(r, 2, Len(r))
        BY <3>1, <4>2
      <4>5. QED
        BY <4>2, <4>3, <4>4
    <3>4. QED
      BY <3>2, <3>3
  <2>3. s \in DOMAIN parents
    BY <2>1, <2>2
  <2> DEFINE a == SubSeq(p, 2, Len(p))
             b == SubSeq(q, 2, Len(q))
  <2>4. /\ Len(p) > 1 /\ p[2] = parents[s] /\ p = <<s>> \o a
        /\ Len(q) > 1 /\ q[2] = parents[s] /\ q = <<s>> \o b
    BY <2>1, <2>2, <2>3
  <2>5. 2 \in 1..Len(p) /\ 2 \in 1..Len(q)
    BY <2>1, <2>4 DEF IsPath
  <2>6. IsPath(parents[s], a) /\ IsPath(parents[s], b) /\ parents[s] \in State
    BY <2>1, <2>4, <2>5, RestOfPath
  <2> HIDE DEF a, b
  <2>7. a # b
    BY <2>1, <2>4, Zenon
  <2>8. QED
    BY <2>3, <2>6, <2>7
<1>2. D \in SUBSET State
  OBVIOUS
<1>3. D = {}
  <2> HIDE DEF D
  <2> QED  BY <1>1, <1>2, ForestInduction
<1>4. QED
  BY <1>3

(* What path_to_root() computes is that way.                               *)
LEMMA PathIsPath ==
    ASSUME Forest
    PROVE  \A s \in State : IsPath(s, Path[s])
<1> DEFINE Solves(f) == f = [s \in State |-> IF s \in DOMAIN parents THEN <<s>> \o f[parents[s]] ELSE <<s>>]
           f0 == [s \in State |-> CHOOSE p : IsPath(s, p)]
<1>1. ASSUME NEW s \in State  PROVE IsPath(s, f0[s])
  <2>1. \E p : IsPath(s, p)
    BY PathExists
  <2>2. IsPath(s, CHOOSE p : IsPath(s, p))
    BY <2>1
  <2>3. QED
    BY <2>2
<1>2. ASSUME NEW s \in State
      PROVE  f0[s] = IF s \in DOMAIN parents THEN <<s>> \o f0[parents[s]] ELSE <<s>>
  <2> HIDE DEF f0
  <2>1. CASE s \in DOMAIN parents
    <3>1. parents[s] \in State
      BY <2>1 DEF Forest
    <3>2. IsPath(s, <<s>> \o f0[parents[s]])
      BY <1>1, <2>1, <3>1, ParentPath
    <3>3. QED
      BY <1>1, <2>1, <3>2, PathUnique
  <2>2. CASE s \notin DOMAIN parents
    BY <1>1, <2>2, RootPath, PathUnique
  <2>3. QED
    BY <2>1, <2>2
<1>3. Solves(f0)
  <2> DEFINE g == [s \in State |-> IF s \in DOMAIN parents THEN <<s>> \o f0[parents[s]] ELSE <<s>>]
  <2>1. f0 = [s \in State |-> f0[s]]
    OBVIOUS
  <2> HIDE DEF f0
  <2>2. ASSUME NEW s \in State  PROVE f0[s] = g[s]
    <3>1. g[s] = IF s \in DOMAIN parents THEN <<s>> \o f0[parents[s]] ELSE <<s>>
      OBVIOUS
    <3>2. QED
      BY <1>2, <3>1, Zenon
  <2>3. DOMAIN g = State /\ g = [s \in State |-> g[s]]
    OBVIOUS
  <2> HIDE DEF g
  <2>4. f0 = g
    BY <2>1, <2>2, <2>3
  <2>5. QED
    BY <2>4 DEF g
<1>4. Path = CHOOSE f : Solves(f)
  BY DEF Path
<1> HIDE DEF f0
<1>5. Solves(Path)
  <2> HIDE DEF Solves
  <2> QED  BY <1>3, <1>4
<1>6. \A s \in State : Path[s] = IF s \in DOMAIN parents THEN <<s>> \o Path[parents[s]] ELSE <<s>>
  BY <1>5
<1> DEFINE D == {s \in State : ~IsPath(s, Path[s])}
<1> HIDE DEF Solves
<1>7. ASSUME NEW s \in D  PROVE s \in DOMAIN parents /\ parents[s] \in D
  <2>1. s \in DOMAIN parents
    BY <1>6, RootPath
  <2>2. parents[s] \in State
    BY <2>1 DEF Forest
  <2>3. QED
    BY <1>6, <2>1, <2>2, ParentPath
<1>8. D \in SUBSET State
  OBVIOUS
<1>9. D = {}
  <2> HIDE DEF D
  <2> QED  BY <1>7, <1>8, ForestInduction
<1>10. QED
  BY <1>9

(* path_to_root(), position by position.                                   *)
LEMMA Positions ==
    ASSUME Forest, NEW s \in State
    PROVE  /\ Path[s] \in Seq(State) /\ Len(Path[s]) \in Nat \ {0} /\ DOMAIN Path[s] = 1..Len(Path[s])
           /\ Path[s][1] = s
           /\ \A i \in 1..Len(Path[s]) : Path[s][i] \in State
           /\ \A i \in 1..Len(Path[s]) : Path[s][i] \in DOMAIN parents =>
                 i + 1 \in 1..Len(Path[s]) /\ Path[s][i + 1] = parents[Path[s][i]]
<1> DEFINE p == Path[s]
<1>1. IsPath(s, p)
  BY PathIsPath
<1> HIDE DEF p
<1>2. p \in Seq(State) /\ p[1] = s
  BY <1>1 DEF IsPath
<1> DEFINE n == Len(p)
<1>3. n \in Nat \ {0} /\ DOMAIN p = 1..n
  BY <1>1 DEF IsPath
<1>4. \A i \in 1..n : p[i] \in State
  BY <1>2
<1>5. ASSUME NEW i \in 1..n, p[i] \in DOMAIN parents
      PROVE  i + 1 \in 1..n /\ p[i + 1] = parents[p[i]]
  <2>1. i # n
    BY <1>1, <1>5 DEF IsPath
  <2>2. n \in Nat
    BY <1>3
  <2>3. i \in 1..(n - 1) /\ i + 1 \in 1..n
    <3> HIDE DEF n
    <3> QED  BY <2>1, <2>2
  <2>4. QED
    BY <1>1, <2>3 DEF IsPath
<1>6. QED
  BY <1>2, <1>3, <1>4, <1>5 DEF p

(* The path of an ancestor is the rest of the path.                        *)
LEMMA Above ==
    ASSUME Forest, NEW s \in State, NEW i \in 1..Len(Path[s])
    PROVE  /\ Path[s][i] \in State /\ Len(Path[Path[s][i]]) = Len(Path[s]) - i + 1
           /\ \A j \in 1..(Len(Path[s]) - i + 1) : Path[Path[s][i]][j] = Path[s][i + j - 1]
<1> DEFINE p == Path[s]
           y == p[i]
           q == SubSeq(p, i, Len(p))
<1>1. IsPath(s, p)
  BY PathIsPath
<1>2. /\ IsPath(y, q) /\ y \in State /\ Len(q) = Len(p) - i + 1
      /\ \A j \in 1..(Len(p) - i + 1) : q[j] = p[i + j - 1]
  BY <1>1, RestOfPath
<1> HIDE DEF q, y
<1>3. Path[y] = q
  BY <1>2, PathIsPath, PathUnique
<1>4. QED
  BY <1>2, <1>3 DEF y

(* No state comes twice.                                                   *)
LEMMA Once ==
    ASSUME Forest, NEW s \in State, NEW i \in 1..Len(Path[s]), NEW j \in 1..Len(Path[s]), Path[s][i] = Path[s][j]
    PROVE  i = j
<1>1. Len(Path[Path[s][i]]) = Len(Path[s]) - i + 1
  BY Above
<1>2. Len(Path[Path[s][j]]) = Len(Path[s]) - j + 1
  BY Above
<1>3. Len(Path[s]) \in Nat
  BY Positions
<1>4. QED
  BY <1>1, <1>2, <1>3

(* PathSet(), position by position.                                        *)
LEMMA OnPath ==
    ASSUME Forest, NEW s \in State
    PROVE  /\ PathSet(s) = {Path[s][i] : i \in 1..Len(Path[s])} /\ PathSet(s) \subseteq State
           /\ \A i \in 1..Len(Path[s]) : PathSet(Path[s][i]) \subseteq PathSet(s)
           /\ \A i \in 1..Len(Path[s]) : \A x \in PathSet(Path[s][i]) :
                 \E j \in 1..Len(Path[s]) : i <= j /\ x = Path[s][j]
<1>1. ASSUME NEW t \in State
      PROVE  PathSet(t) = {Path[t][i] : i \in 1..Len(Path[t])} /\ PathSet(t) \subseteq State
  BY Positions DEF PathSet, Range
<1>2. ASSUME NEW i \in 1..Len(Path[s]), NEW x \in PathSet(Path[s][i])
      PROVE  \E j \in 1..Len(Path[s]) : i <= j /\ x = Path[s][j]
  <2> DEFINE y == Path[s][i]
             n == Len(Path[s])
  <2>1. y \in State /\ Len(Path[y]) = n - i + 1 /\ n \in Nat
    BY Above, Positions
  <2>2. \A j \in 1..(n - i + 1) : Path[y][j] = Path[s][i + j - 1]
    BY Above
  <2>3. PICK k \in 1..Len(Path[y]) : x = Path[y][k]
    BY <1>1, <2>1
  <2> HIDE DEF y, n
  <2>4. k \in 1..(n - i + 1) /\ i \in Nat /\ i >= 1
    BY <2>1, <2>3
  <2>5. i + k - 1 \in 1..n /\ i <= i + k - 1
    BY <2>1, <2>4
  <2>6. x = Path[s][i + k - 1]
    BY <2>2, <2>3, <2>4
  <2>7. QED
    BY <2>5, <2>6 DEF n
<1>3. ASSUME NEW i \in 1..Len(Path[s])  PROVE PathSet(Path[s][i]) \subseteq PathSet(s)
  <2>1. ASSUME NEW x \in PathSet(Path[s][i])  PROVE x \in PathSet(s)
    <3>1. PICK j \in 1..Len(Path[s]) : x = Path[s][j]
      BY <1>2
    <3>2. QED
      BY <1>1, <3>1
  <2>2. QED
    BY <2>1
<1>4. QED
  BY <1>1, <1>2, <1>3

(* A set of positions has a first.                                         *)
LEMMA First ==
    ASSUME NEW S \in SUBSET Nat, S # {}
    PROVE  Min(S) \in S /\ \A x \in S : Min(S) <= x
<1> DEFINE R == {ss \in Nat \X Nat : ss[1] < ss[2]}
<1>1. OpToRel(<, Nat) = R
  BY Zenon DEF OpToRel
<1>2. IsWellFoundedOn(R, Nat)
  BY <1>1, NatLessThanWellFounded, Zenon
<1>3. PICK x \in S : \A y \in S : ~(<<y, x>> \in R)
  <2> HIDE DEF R
  <2> QED  BY <1>2, WFMin, Zenon
<1>4. \A y \in S : y < x => <<y, x>> \in R
  OBVIOUS
<1>5. \A y \in S : ~(y < x)
  BY <1>3, <1>4, Zenon
<1>6. \A y \in S : x <= y
  BY <1>5
<1>7. QED
  BY <1>6 DEF Min

(* The loops of execute_transition(): the first n states of the path, up   *)
(* to the one that equals lca or to the end.                               *)
Prefix(s, lca, n) ==
    /\ n \in 0..Len(Path[s]) /\ UpTo(s, lca) \in Seq(State) /\ Len(UpTo(s, lca)) = n
    /\ \A j \in 1..n : UpTo(s, lca)[j] = Path[s][j]
    /\ n < Len(Path[s]) => Path[s][n + 1] = lca
    /\ \A j \in 1..n : Path[s][j] # lca

LEMMA UpToIsPrefix ==
    ASSUME Forest, NEW s \in State, NEW lca
    PROVE  \E n : Prefix(s, lca, n)
<1> DEFINE p == Path[s]
           at == {i \in DOMAIN Path[s] : Path[s][i] = lca}
<1>1. p \in Seq(State) /\ Len(p) \in Nat \ {0} /\ DOMAIN p = 1..Len(p)
  BY Positions
<1>2. UpTo(s, lca) = IF at = {} THEN p ELSE SubSeq(p, 1, Min(at) - 1)
  BY DEF UpTo
<1>3. CASE at = {}
  <2>1. UpTo(s, lca) = p /\ \A j \in 1..Len(p) : p[j] # lca
    BY <1>1, <1>2, <1>3
  <2>2. Prefix(s, lca, Len(p))
    BY <1>1, <2>1 DEF Prefix
  <2>3. QED
    BY <2>2
<1>4. CASE at # {}
  <2> DEFINE m == Min(at)
  <2>1. at \in SUBSET Nat
    BY <1>1
  <2>2. m \in at /\ \A i \in at : m <= i
    <3> HIDE DEF at
    <3> QED  BY <1>4, <2>1, First
  <2>3. UpTo(s, lca) = SubSeq(p, 1, m - 1)
    BY <1>2, <1>4
  <2> HIDE DEF m
  <2>4. m \in 1..Len(p) /\ p[m] = lca /\ \A j \in 1..(m - 1) : p[j] # lca
    BY <1>1, <2>2
  <2> HIDE DEF p, at
  <2>5. /\ SubSeq(p, 1, m - 1) \in Seq(State) /\ Len(SubSeq(p, 1, m - 1)) = m - 1
        /\ \A j \in 1..(m - 1) : SubSeq(p, 1, m - 1)[j] = p[j]
    BY <1>1, <2>4
  <2>6. m - 1 \in 0..Len(p) /\ (m - 1) + 1 = m
    BY <1>1, <2>4
  <2>7. Prefix(s, lca, m - 1)
    BY <2>3, <2>4, <2>5, <2>6 DEF Prefix, p
  <2>8. QED
    BY <2>7
<1>5. QED
  BY <1>3, <1>4

(* find_lca() finds an ancestor of its first argument.                     *)
LEMMA LcaAbove ==
    ASSUME Forest, NEW a \in State, NEW b
    PROVE  \E k \in 1..Len(Path[a]) : find_lca(a, b) = Path[a][k]
<1> DEFINE common == {i \in DOMAIN Path[a] : Path[a][i] \in PathSet(b)}
<1>1. Len(Path[a]) \in Nat \ {0} /\ DOMAIN Path[a] = 1..Len(Path[a]) /\ Path[a][1] = a
  BY Positions
<1>2. find_lca(a, b) = IF common = {} THEN a ELSE Path[a][Min(common)]
  BY DEF find_lca
<1>3. CASE common = {}
  BY <1>1, <1>2, <1>3
<1>4. CASE common # {}
  <2>1. common \in SUBSET Nat /\ common \subseteq 1..Len(Path[a])
    BY <1>1
  <2>2. Min(common) \in common
    <3> HIDE DEF common
    <3> QED  BY <1>4, <2>1, First
  <2>3. QED
    BY <1>2, <1>4, <2>1, <2>2
<1>5. QED
  BY <1>3, <1>4

(* The loop of process_event() finds one of the states that would handle   *)
(* the event.                                                              *)
LEMMA HandlerFound ==
    ASSUME Forest, NEW c \in State, NEW S \in SUBSET PathSet(c), S # {}
    PROVE  Innermost(S) \in S
<1> DEFINE at == {i \in 1..Len(Path[c]) : Path[c][i] \in S}
<1>1. Len(Path[c]) \in Nat \ {0}
  BY Positions
<1>2. \A x \in S : \E i \in at : x = Path[c][i]
  BY OnPath
<1>3. at \in SUBSET Nat /\ at # {}
  BY <1>1, <1>2
<1> DEFINE m == Min(at)
<1>4. m \in at /\ \A i \in at : m <= i
  <2> HIDE DEF at
  <2> QED  BY <1>3, First
<1> HIDE DEF m
<1>5. ASSUME NEW x \in S  PROVE x \in PathSet(Path[c][m])
  <2>1. PICK i \in at : x = Path[c][i]
    BY <1>2
  <2>2. m <= i /\ m \in 1..Len(Path[c]) /\ i \in 1..Len(Path[c])
    BY <1>4, <2>1
  <2> DEFINE y == Path[c][m]
             n == Len(Path[c])
  <2>3. y \in State /\ Len(Path[y]) = n - m + 1
    BY <2>2, Above
  <2>4. \A j \in 1..(n - m + 1) : Path[y][j] = Path[c][m + j - 1]
    BY <2>2, Above
  <2> HIDE DEF y, n
  <2>5. i - m + 1 \in 1..(n - m + 1) /\ m + (i - m + 1) - 1 = i
    BY <1>1, <2>2 DEF n
  <2>6. Path[y][i - m + 1] = Path[c][i]
    BY <2>4, <2>5
  <2>7. x \in PathSet(y)
    BY <2>1, <2>3, <2>5, <2>6, OnPath
  <2>8. QED
    BY <2>7 DEF y
<1>6. Path[c][m] \in S
  BY <1>4
<1>7. QED
  BY <1>5, <1>6 DEF Innermost

(* A concatenation, position by position.                                  *)
LEMMA Concatenated ==
    ASSUME NEW S, NEW a \in Seq(S), NEW b \in Seq(S)
    PROVE  /\ DOMAIN (a \o b) = 1..(Len(a) + Len(b))
           /\ \A i \in 1..Len(a) : (a \o b)[i] = a[i]
           /\ \A i \in 1..Len(b) : (a \o b)[Len(a) + i] = b[i]
<1>1. DOMAIN (a \o b) = 1..(Len(a) + Len(b))
  OBVIOUS
<1>2. \A i \in 1..Len(a) : (a \o b)[i] = a[i]
  OBVIOUS
<1>3. \A i \in 1..Len(b) : (a \o b)[Len(a) + i] = b[i]
  OBVIOUS
<1>4. QED
  BY <1>1, <1>2, <1>3

(* The sequence of the callbacks that Run() makes.                         *)
LEMMA CallbackOrder ==
    ASSUME NEW x \in Seq(State), NEW y \in Seq(State), NEW by, Run(by, x, y)
    PROVE  /\ DOMAIN ran'.calls = 1..(Len(x) + Len(y))
           /\ \A i \in 1..Len(x) : ran'.calls[i] = [op |-> "exit", state |-> x[i]]
           /\ \A i \in 1..Len(y) : ran'.calls[Len(x) + i] = [op |-> "entry", state |-> y[i]]
<1> DEFINE a == Callbacks("exit", x)
           b == Callbacks("entry", y)
           C == [op : {"exit", "entry"}, state : State]
<1>1. ASSUME NEW op \in {"exit", "entry"}, NEW z \in Seq(State)
      PROVE  /\ Callbacks(op, z) \in Seq(C) /\ Len(Callbacks(op, z)) = Len(z)
             /\ \A i \in 1..Len(z) : Callbacks(op, z)[i] = [op |-> op, state |-> z[i]]
  <2>1. Callbacks(op, z) = [i \in 1..Len(z) |-> [op |-> op, state |-> z[i]]]
    BY DEF Callbacks
  <2>2. \A i \in 1..Len(z) : [op |-> op, state |-> z[i]] \in C
    OBVIOUS
  <2>3. QED
    BY <2>1, <2>2
<1>2. /\ a \in Seq(C) /\ Len(a) = Len(x) /\ \A i \in 1..Len(x) : a[i] = [op |-> "exit", state |-> x[i]]
      /\ b \in Seq(C) /\ Len(b) = Len(y) /\ \A i \in 1..Len(y) : b[i] = [op |-> "entry", state |-> y[i]]
  BY <1>1
<1>3. ran'.calls = a \o b
  BY DEF Run
<1> HIDE DEF a, b, C
<1>4. /\ DOMAIN (a \o b) = 1..(Len(a) + Len(b))
      /\ \A i \in 1..Len(a) : (a \o b)[i] = a[i]
      /\ \A i \in 1..Len(b) : (a \o b)[Len(a) + i] = b[i]
  <2>1. a \in Seq(C) /\ b \in Seq(C)
    BY <1>2
  <2>2. QED
    BY <2>1, Concatenated
<1>5. QED
  BY <1>2, <1>3, <1>4

(* The entry callbacks go from the outside in.                             *)
LEMMA OutsideIn ==
    ASSUME NEW z \in Seq(State)
    PROVE  /\ Reverse(z) \in Seq(State) /\ Len(Reverse(z)) = Len(z) /\ Range(Reverse(z)) = Range(z)
           /\ \A i \in 1..Len(z) : Reverse(z)[i] = z[Len(z) - i + 1]
<1>1. Len(z) \in Nat /\ DOMAIN z = 1..Len(z)
  OBVIOUS
<1>2. Reverse(z) = [i \in 1..Len(z) |-> z[Len(z) - i + 1]]
  BY DEF Reverse
<1>3. \A i \in 1..Len(z) : Len(z) - i + 1 \in 1..Len(z) /\ Len(z) - (Len(z) - i + 1) + 1 = i
  BY <1>1
<1>4. Reverse(z) \in Seq(State) /\ Len(Reverse(z)) = Len(z) /\ DOMAIN Reverse(z) = 1..Len(z)
  BY <1>1, <1>2, <1>3
<1>5. \A i \in 1..Len(z) : Reverse(z)[i] = z[Len(z) - i + 1]
  BY <1>2
<1>6. \A i \in 1..Len(z) : z[i] = Reverse(z)[Len(z) - i + 1]
  BY <1>3, <1>5
<1>7. Range(Reverse(z)) = Range(z)
  <2> DEFINE r == Reverse(z)
             n == Len(z)
  <2>1. /\ DOMAIN r = 1..n /\ DOMAIN z = 1..n
        /\ \A i \in 1..n : n - i + 1 \in 1..n /\ r[i] = z[n - i + 1] /\ z[i] = r[n - i + 1]
    BY <1>1, <1>3, <1>4, <1>5, <1>6
  <2> HIDE DEF r, n
  <2>2. (\A i \in DOMAIN r : r[i] \in Range(z)) /\ (\A i \in DOMAIN z : z[i] \in Range(r))
    BY <2>1 DEF Range
  <2>3. Range(r) = Range(z)
    BY <2>2 DEF Range
  <2>4. QED
    BY <2>3 DEF r
<1>8. QED
  BY <1>4, <1>5, <1>7

(* The fields of a callback.                                               *)
LEMMA CallbackFields ==
    ASSUME NEW o, NEW t, NEW c, c = [op |-> o, state |-> t]
    PROVE  c.op = o /\ c.state = t
OBVIOUS

(* The callbacks are exits of the states x[1], ..., x[e] and entries of    *)
(* r[1], ..., r[n]; nothing is exited after its parent, and what is entered*)
(* has its parent entered just before, or inside and not exited.           *)
InOrder(calls, x, e, r, n) ==
    /\ e \in Nat /\ n \in Nat /\ DOMAIN calls = 1..(e + n)
    /\ \A i \in 1..e : calls[i] = [op |-> "exit", state |-> x[i]]
    /\ \A i \in 1..n : calls[e + i] = [op |-> "entry", state |-> r[i]]
    /\ \A i \in 1..e : x[i] \in DOMAIN parents => \A j \in 1..(i - 1) : x[j] # parents[x[i]]
    /\ \A i \in 1..n : r[i] \in DOMAIN parents =>
          \/ i > 1 /\ r[i - 1] = parents[r[i]]
          \/ i = 1 /\ parents[r[i]] \in inside /\ \A j \in 1..e : x[j] # parents[r[i]]

(* Then they nest.                                                         *)
LEMMA NestByPosition ==
    ASSUME NEW x, NEW e, NEW r, NEW n, InOrder(ran'.calls, x, e, r, n)
    PROVE  Nests
<1> DEFINE calls == ran'.calls
<1> HIDE DEF calls
<1> SUFFICES ASSUME NEW i \in DOMAIN calls, calls[i].state \in DOMAIN parents
             PROVE  IF calls[i].op = "exit"
                    THEN [op |-> "exit", state |-> parents[calls[i].state]] \notin {calls[j] : j \in 1..(i - 1)}
                    ELSE \/ [op |-> "entry", state |-> parents[calls[i].state]] \in {calls[j] : j \in 1..(i - 1)}
                         \/ /\ parents[calls[i].state] \in inside
                            /\ [op |-> "exit", state |-> parents[calls[i].state]] \notin {calls[j] : j \in 1..(i - 1)}
  BY DEF Nests, calls
<1>0. InOrder(calls, x, e, r, n)
  BY DEF calls
<1>1. ASSUME NEW j \in 1..e  PROVE calls[j].op = "exit" /\ calls[j].state = x[j]
  <2>1. calls[j] = [op |-> "exit", state |-> x[j]]
    BY <1>0, Zenon DEF InOrder
  <2>2. QED
    BY <2>1, CallbackFields
<1>2. ASSUME NEW j \in 1..n  PROVE calls[e + j].op = "entry" /\ calls[e + j].state = r[j]
  <2>1. calls[e + j] = [op |-> "entry", state |-> r[j]]
    BY <1>0, Zenon DEF InOrder
  <2>2. QED
    BY <2>1, CallbackFields
<1>3. CASE i \in 1..e
  <2>1. calls[i].op = "exit" /\ calls[i].state = x[i]
    BY <1>1, <1>3
  <2>2. ASSUME NEW j \in 1..(i - 1)  PROVE calls[j] # [op |-> "exit", state |-> parents[x[i]]]
    <3>0. e \in Nat
      BY <1>0, Zenon DEF InOrder
    <3>1. j \in 1..e
      BY <1>3, <3>0
    <3>2. x[i] \in DOMAIN parents
      BY <2>1
    <3>3. x[j] # parents[x[i]]
      BY <1>0, <1>3, <3>2, Zenon DEF InOrder
    <3>4. calls[j].state = x[j]
      BY <1>1, <3>1
    <3>5. QED
      BY <3>3, <3>4, CallbackFields
  <2>3. QED
    BY <2>1, <2>2
<1>4. CASE i \notin 1..e
  <2> DEFINE m == i - e
  <2>0. e \in Nat /\ n \in Nat /\ i \in 1..(e + n)
    BY <1>0 DEF InOrder
  <2>1. m \in 1..n /\ i = e + m
    BY <1>4, <2>0
  <2> HIDE DEF m
  <2>2. calls[i].op = "entry" /\ calls[i].state = r[m]
    BY <1>2, <2>1
  <2>3. CASE m > 1 /\ r[m - 1] = parents[r[m]]
    <3>1. m - 1 \in 1..n /\ e + (m - 1) = i - 1 /\ i - 1 \in 1..(i - 1)
      BY <2>0, <2>1, <2>3
    <3>2. calls[e + (m - 1)] = [op |-> "entry", state |-> r[m - 1]]
      BY <1>0, <3>1, Zenon DEF InOrder
    <3>3. QED
      BY <2>2, <2>3, <3>1, <3>2
  <2>4. CASE m = 1 /\ parents[r[m]] \in inside /\ \A j \in 1..e : x[j] # parents[r[m]]
    <3>1. i - 1 = e
      BY <2>0, <2>1, <2>4
    <3>2. \A j \in 1..e : calls[j] # [op |-> "exit", state |-> parents[r[m]]]
      BY <1>1, <2>4
    <3>3. QED
      BY <2>2, <2>4, <3>1, <3>2
  <2>5. r[m] \in DOMAIN parents
    BY <2>2
  <2>6. QED
    BY <1>0, <2>1, <2>3, <2>4, <2>5 DEF InOrder
<1>5. QED
  BY <1>3, <1>4

(* The inductive invariant.                                                *)
FsmInv ==
    /\ Forest /\ \A k \in DOMAIN table : table[k] \in State
    /\ current_state_ \in State \cup {NoState}
    /\ AncestorsEntered

(* After exits of x, which exits nothing after its parent, y enters the    *)
(* first n states of the path of t, and the next one above is inside and   *)
(* not among the exits.                                                    *)
EntersBelow(t, x, y, n) ==
    /\ x \in Seq(State) /\ y \in Seq(State) /\ n \in 0..Len(Path[t]) /\ Len(y) = n
    /\ \A j \in 1..n : y[j] = Path[t][j]
    /\ n < Len(Path[t]) => Path[t][n + 1] \in inside \ Range(x)
    /\ \A i \in 1..Len(x) : x[i] \in DOMAIN parents => \A j \in 1..(i - 1) : x[j] # parents[x[i]]

(* Then, the outermost being entered first, the callbacks nest.            *)
LEMMA EntriesNest ==
    ASSUME Forest, NEW t \in State, NEW x, NEW y, NEW by, NEW n,
           EntersBelow(t, x, y, n), Run(by, x, Reverse(y))
    PROVE  Nests
<1>0. /\ x \in Seq(State) /\ y \in Seq(State) /\ n \in 0..Len(Path[t]) /\ Len(y) = n
      /\ \A j \in 1..n : y[j] = Path[t][j]
      /\ n < Len(Path[t]) => Path[t][n + 1] \in inside \ Range(x)
      /\ \A i \in 1..Len(x) : x[i] \in DOMAIN parents => \A j \in 1..(i - 1) : x[j] # parents[x[i]]
  BY DEF EntersBelow
<1> DEFINE r == Reverse(y)
           calls == ran'.calls
           e == Len(x)
<1>1. r \in Seq(State) /\ Len(r) = n /\ \A i \in 1..n : r[i] = y[n - i + 1]
  BY <1>0, OutsideIn
<1>2. /\ DOMAIN calls = 1..(e + n)
      /\ \A i \in 1..e : calls[i] = [op |-> "exit", state |-> x[i]]
      /\ \A i \in 1..n : calls[e + i] = [op |-> "entry", state |-> r[i]]
  <2>1. Run(by, x, r)
    OBVIOUS
  <2> HIDE DEF r, calls
  <2>2. /\ DOMAIN calls = 1..(Len(x) + Len(r))
        /\ \A i \in 1..Len(x) : calls[i] = [op |-> "exit", state |-> x[i]]
        /\ \A i \in 1..Len(r) : calls[Len(x) + i] = [op |-> "entry", state |-> r[i]]
    BY <1>0, <1>1, <2>1, CallbackOrder, Zenon DEF calls
  <2>3. QED
    BY <1>1, <2>2, Zenon
<1>3. e \in Nat /\ n \in Nat /\ Len(Path[t]) \in Nat
  BY <1>0, Positions
<1>4. \A j \in 1..e : x[j] \in Range(x)
  BY <1>0 DEF Range
<1> HIDE DEF calls, r, e
<1>5. ASSUME NEW i \in 1..n, r[i] \in DOMAIN parents
      PROVE  \/ i > 1 /\ r[i - 1] = parents[r[i]]
             \/ i = 1 /\ parents[r[i]] \in inside /\ \A j \in 1..e : x[j] # parents[r[i]]
  <2> DEFINE k == n - i + 1
  <2>1. k \in 1..n /\ k \in 1..Len(Path[t]) /\ r[i] = Path[t][k]
    BY <1>0, <1>1, <1>3
  <2>2. k + 1 \in 1..Len(Path[t]) /\ Path[t][k + 1] = parents[r[i]]
    <3> HIDE DEF k
    <3> QED  BY <1>5, <2>1, Positions
  <2>3. CASE i = 1
    <3>1. k = n /\ n < Len(Path[t])
      BY <1>3, <2>2, <2>3
    <3>2. parents[r[i]] \in inside \ Range(x)
      BY <1>0, <2>2, <3>1
    <3>3. QED
      BY <1>4, <2>3, <3>2
  <2>4. CASE i # 1
    <3>1. i - 1 \in 1..n /\ n - (i - 1) + 1 = k + 1 /\ k + 1 \in 1..n /\ i > 1
      BY <1>3, <2>4
    <3>2. r[i - 1] = y[k + 1]
      BY <1>1, <3>1
    <3>3. QED
      BY <1>0, <2>2, <3>1, <3>2
  <2>5. QED
    BY <2>3, <2>4
<1>6. \A i \in 1..e : x[i] \in DOMAIN parents => \A j \in 1..(i - 1) : x[j] # parents[x[i]]
  BY <1>0 DEF e
<1>7. \A i \in 1..n : r[i] \in DOMAIN parents =>
         \/ i > 1 /\ r[i - 1] = parents[r[i]]
         \/ i = 1 /\ parents[r[i]] \in inside /\ \A j \in 1..e : x[j] # parents[r[i]]
  BY <1>5
<1>8. InOrder(calls, x, e, r, n)
  BY <1>2, <1>3, <1>6, <1>7 DEF InOrder
<1>9. QED
  BY <1>8, NestByPosition DEF calls

(* What is further up on a path is on the path of what is below it.        *)
LEMMA FurtherUp ==
    ASSUME Forest, NEW s \in State, NEW i \in 1..Len(Path[s]), NEW j \in i..Len(Path[s])
    PROVE  Path[s][j] \in PathSet(Path[s][i])
<1> DEFINE y == Path[s][i]
           n == Len(Path[s])
           k == j - i + 1
<1>1. y \in State /\ Len(Path[y]) = n - i + 1 /\ n \in Nat
  BY Above, Positions
<1>2. \A m \in 1..(n - i + 1) : Path[y][m] = Path[s][i + m - 1]
  BY Above
<1>3. k \in 1..(n - i + 1) /\ i + k - 1 = j
  <2> HIDE DEF y
  <2> QED  BY <1>1
<1> HIDE DEF y, n, k
<1>4. Path[y][k] = Path[s][j]
  BY <1>2, <1>3
<1>5. Path[y][k] \in PathSet(y)
  BY <1>1, <1>3, OnPath
<1>6. QED
  BY <1>4, <1>5 DEF y

(* The exits of execute_transition(): the handler and the states above it, *)
(* below the lca.  What the lca is inside of is not exited.                *)
LEMMA Exits ==
    ASSUME Forest, NEW h \in State, NEW to \in State
    PROVE  LET x == UpTo(h, find_lca(h, to))
           IN  /\ x \in Seq(State) /\ find_lca(h, to) \in State
               /\ PathSet(find_lca(h, to)) \subseteq PathSet(h) \ Range(x)
               /\ \A i \in 1..Len(x) : x[i] \in DOMAIN parents => \A j \in 1..(i - 1) : x[j] # parents[x[i]]
<1> DEFINE lca == find_lca(h, to)
           x == UpTo(h, lca)
<1>1. PICK k \in 1..Len(Path[h]) : lca = Path[h][k]
  BY LcaAbove
<1>2. PICK n : Prefix(h, lca, n)
  BY UpToIsPrefix
<1> HIDE DEF lca
<1>3. n \in 0..Len(Path[h]) /\ x \in Seq(State) /\ Len(x) = n /\ \A j \in 1..n : x[j] = Path[h][j]
  BY <1>2 DEF Prefix
<1>4. Len(Path[h]) \in Nat /\ \A i \in 1..Len(Path[h]) : Path[h][i] \in State
  BY Positions
<1> HIDE DEF x
<1>5. n < Len(Path[h])
  <2>1. k \notin 1..n
    BY <1>1, <1>2 DEF Prefix
  <2>2. QED
    BY <1>3, <1>4, <2>1
<1>6. Path[h][n + 1] = lca /\ n + 1 \in 1..Len(Path[h])
  <2>1. n + 1 \in 1..Len(Path[h])
    BY <1>3, <1>4, <1>5
  <2>2. QED
    BY <1>2, <1>5, <2>1 DEF Prefix
<1>7. Range(x) = {Path[h][j] : j \in 1..n}
  BY <1>3 DEF Range
<1>8. ASSUME NEW z \in PathSet(lca)  PROVE z \in PathSet(h) \ Range(x)
  <2>1. PICK j \in 1..Len(Path[h]) : n + 1 <= j /\ z = Path[h][j]
    BY <1>6, OnPath
  <2>2. ASSUME NEW m \in 1..n  PROVE Path[h][m] # z
    <3>1. m \in 1..Len(Path[h]) /\ m # j
      BY <1>3, <1>4, <2>1
    <3>2. QED
      BY <2>1, <3>1, Once
  <2>3. z \in PathSet(h)
    BY <2>1, OnPath
  <2>4. QED
    BY <1>7, <2>2, <2>3
<1>9. ASSUME NEW i \in 1..Len(x), x[i] \in DOMAIN parents, NEW j \in 1..(i - 1)
      PROVE  x[j] # parents[x[i]]
  <2>1. i \in 1..n /\ j \in 1..n /\ i \in 1..Len(Path[h]) /\ j \in 1..Len(Path[h]) /\ j # i + 1
    BY <1>3, <1>4
  <2>2. x[i] = Path[h][i] /\ x[j] = Path[h][j]
    BY <1>3, <2>1
  <2>3. i + 1 \in 1..Len(Path[h]) /\ Path[h][i + 1] = parents[x[i]]
    BY <1>9, <2>1, <2>2, Positions
  <2>4. Path[h][j] # Path[h][i + 1]
    BY <2>1, <2>3, Once
  <2>5. QED
    BY <2>2, <2>3, <2>4
<1>10. lca \in State
  BY <1>4, <1>6
<1>11. QED
  BY <1>3, <1>8, <1>9, <1>10 DEF x, lca

(* The entries: what of the target's path is not entered is the path of    *)
(* the lca.                                                                *)
LEMMA Entries ==
    ASSUME Forest, NEW to \in State, NEW lca, NEW n, Prefix(to, lca, n)
    PROVE  PathSet(to) \subseteq Range(UpTo(to, lca)) \cup PathSet(lca)
<1> DEFINE y == UpTo(to, lca)
<1>1. n \in 0..Len(Path[to]) /\ y \in Seq(State) /\ Len(y) = n /\ \A j \in 1..n : y[j] = Path[to][j]
  BY DEF Prefix
<1> HIDE DEF y
<1>2. Range(y) = {Path[to][j] : j \in 1..n}
  BY <1>1 DEF Range
<1>3. ASSUME NEW i \in 1..Len(Path[to]), i \notin 1..n  PROVE Path[to][i] \in PathSet(lca)
  <2>1. Len(Path[to]) \in Nat
    BY Positions
  <2>2. n < Len(Path[to]) /\ n + 1 \in 1..Len(Path[to]) /\ i \in (n + 1)..Len(Path[to])
    BY <1>1, <1>3, <2>1
  <2>3. Path[to][n + 1] = lca
    BY <2>2 DEF Prefix
  <2>4. Path[to][i] \in PathSet(Path[to][n + 1])
    BY <2>2, FurtherUp
  <2>5. QED
    BY <2>3, <2>4
<1>4. \A i \in 1..Len(Path[to]) : Path[to][i] \in Range(y) \cup PathSet(lca)
  BY <1>2, <1>3
<1>5. QED
  BY <1>4, OnPath DEF y

(* execute_transition() from an ancestor h of the current state.           *)
LEMMA TransitionStep ==
    ASSUME Forest, NEW h \in State, NEW to \in State, PathSet(h) \subseteq inside, execute_transition(h, to)
    PROVE  Nests /\ PathSet(to) \subseteq inside'
<1> DEFINE lca == find_lca(h, to)
           x == UpTo(h, lca)
           y == UpTo(to, lca)
<1>1. /\ x \in Seq(State) /\ lca \in State /\ PathSet(lca) \subseteq PathSet(h) \ Range(x)
      /\ \A i \in 1..Len(x) : x[i] \in DOMAIN parents => \A j \in 1..(i - 1) : x[j] # parents[x[i]]
  BY Exits
<1>2. PICK n : Prefix(to, lca, n)
  BY UpToIsPrefix
<1>3. PathSet(to) \subseteq Range(y) \cup PathSet(lca)
  BY <1>2, Entries
<1>4. Run("process_event", x, Reverse(y))
  BY DEF execute_transition
<1> HIDE DEF lca, x
<1>5. n \in 0..Len(Path[to]) /\ y \in Seq(State) /\ Len(y) = n /\ \A j \in 1..n : y[j] = Path[to][j]
  BY <1>2 DEF Prefix
<1>6. n < Len(Path[to]) => Path[to][n + 1] \in inside \ Range(x)
  <2>1. lca \in PathSet(lca)
    <3>1. Len(Path[lca]) \in Nat \ {0} /\ Path[lca][1] = lca
      BY <1>1, Positions
    <3>2. 1 \in 1..Len(Path[lca])
      BY <3>1
    <3>3. QED
      BY <1>1, <3>1, <3>2, OnPath
  <2>2. n < Len(Path[to]) => Path[to][n + 1] = lca
    BY <1>2 DEF Prefix
  <2>3. QED
    BY <1>1, <2>1, <2>2
<1> HIDE DEF y
<1>7. EntersBelow(to, x, y, n)
  BY <1>1, <1>5, <1>6, Zenon DEF EntersBelow
<1>8. Nests
  BY <1>4, <1>7, EntriesNest
<1>9. inside' = (inside \ Range(x)) \cup Range(y)
  <2>1. Range(Reverse(y)) = Range(y)
    BY <1>5, OutsideIn
  <2>2. QED
    BY <1>4, <2>1 DEF Run
<1>10. QED
  BY <1>1, <1>3, <1>8, <1>9

(* reset(): every state of the path is entered, the root first.            *)
LEMMA ResetStep ==
    ASSUME Forest, NEW s \in State, fsm_reset(s)
    PROVE  Nests /\ PathSet(s) \subseteq inside'
<1> DEFINE x == << >>
           y == Path[s]
<1>1. y \in Seq(State) /\ Len(y) \in 0..Len(Path[s]) /\ ~(Len(y) < Len(Path[s]))
  BY Positions
<1>2. x \in Seq(State) /\ Len(x) = 0
  OBVIOUS
<1>3. Run("reset", x, Reverse(y))
  BY DEF fsm_reset
<1>4. Range(x) = {}
  BY DEF Range
<1>5. \A j \in 1..Len(y) : y[j] = Path[s][j]
  OBVIOUS
<1>6. Range(y) = PathSet(s)
  BY DEF PathSet
<1> HIDE DEF x, y
<1>7. EntersBelow(s, x, y, Len(y))
  BY <1>1, <1>2, <1>5 DEF EntersBelow
<1>8. Nests
  BY <1>3, <1>7, EntriesNest
<1>9. Range(Reverse(y)) = Range(y)
  BY <1>1, OutsideIn
<1>10. QED
  BY <1>3, <1>6, <1>8, <1>9 DEF Run

(* An event that no state handles runs no callback.                        *)
LEMMA UnhandledStep ==
    ASSUME NEW by, Run(by, <<>>, <<>>)
    PROVE  Nests /\ inside' = inside
<1> DEFINE x == << >>
<1>1. x \in Seq(State) /\ Len(x) = 0 /\ Range(x) = {}
  BY DEF Range
<1>2. Run(by, x, x)
  OBVIOUS
<1> HIDE DEF x
<1>3. DOMAIN ran'.calls = 1..(Len(x) + Len(x))
  BY <1>1, <1>2, CallbackOrder
<1>4. DOMAIN ran'.calls = {}
  BY <1>1, <1>3
<1>5. Nests
  BY <1>4 DEF Nests
<1>6. QED
  BY <1>1, <1>2, <1>5 DEF Run

(* A step keeps the invariant, and its callbacks nest.                     *)
LEMMA FsmStep ==
    ASSUME FsmInv, FsmNext
    PROVE  FsmInv' /\ Nests
<1>0. NoState \notin State
  BY ForestAssumption
<1>1. ASSUME Nests, parents' = parents, table' = table, current_state_' \in State \cup {NoState},
             current_state_' # NoState => PathSet(current_state_') \subseteq inside'
      PROVE  FsmInv' /\ Nests
  <2>1. Forest' /\ PathSet(current_state_)' = PathSet(current_state_')
    BY <1>1 DEF FsmInv, Forest, Acyclic, PathSet, Path
  <2>2. AncestorsEntered'
    BY <1>1, <2>1 DEF AncestorsEntered
  <2>3. QED
    BY <1>1, <2>1, <2>2 DEF FsmInv
<1>2. ASSUME NEW s \in State, fsm_reset(s)  PROVE FsmInv' /\ Nests
  <2>1. Nests /\ PathSet(s) \subseteq inside'
    BY <1>2, ResetStep DEF FsmInv
  <2>2. current_state_' = s /\ parents' = parents /\ table' = table
    BY <1>2 DEF fsm_reset
  <2>3. QED
    BY <1>1, <2>1, <2>2
<1>3. ASSUME NEW e \in Event, NEW open \in SUBSET State, fsm_process_event(e, open)  PROVE FsmInv' /\ Nests
  <2>1. current_state_ \in State /\ PathSet(current_state_) \subseteq inside
    BY <1>3 DEF fsm_process_event, FsmInv, AncestorsEntered
  <2>2. CASE Handlers(e, open) = {}
    <3>1. /\ Run("process_event", <<>>, <<>>)
          /\ parents' = parents /\ table' = table /\ current_state_' = current_state_
      BY <1>3, <2>2 DEF fsm_process_event
    <3>2. Nests /\ inside' = inside
      BY <3>1, UnhandledStep
    <3>3. QED
      BY <1>1, <2>1, <3>1, <3>2
  <2>3. CASE Handlers(e, open) # {}
    <3> DEFINE h == Innermost(Handlers(e, open))
               to == table[<<h, e>>]
    <3>1. h \in Handlers(e, open)
      <4>1. Handlers(e, open) \in SUBSET PathSet(current_state_)
        BY DEF Handlers
      <4>2. Forest
        BY DEF FsmInv
      <4>3. QED
        BY <2>1, <2>3, <4>1, <4>2, HandlerFound
    <3>2. execute_transition(h, to)
      BY <1>3, <2>3 DEF fsm_process_event
    <3> HIDE DEF h
    <3>3. h \in PathSet(current_state_) /\ to \in State
      BY <3>1 DEF Handlers, FsmInv
    <3> HIDE DEF to
    <3>4. h \in State /\ PathSet(h) \subseteq PathSet(current_state_)
      <4>1. Forest
        BY DEF FsmInv
      <4>2. PICK i \in 1..Len(Path[current_state_]) : h = Path[current_state_][i]
        BY <2>1, <3>3, <4>1, OnPath
      <4>3. QED
        BY <2>1, <3>3, <4>1, <4>2, OnPath
    <3>5. Nests /\ PathSet(to) \subseteq inside'
      BY <2>1, <3>2, <3>3, <3>4, TransitionStep DEF FsmInv
    <3>6. current_state_' = to /\ parents' = parents /\ table' = table
      BY <3>2 DEF execute_transition
    <3>7. QED
      BY <1>1, <3>3, <3>5, <3>6
  <2>4. QED
    BY <2>2, <2>3
<1>4. QED
  BY <1>2, <1>3 DEF FsmNext

(* Nothing is current before the first reset().                            *)
LEMMA FsmStart == FsmInit => FsmInv
<1> SUFFICES ASSUME FsmInit PROVE FsmInv
  OBVIOUS
<1>1. PICK m \in Machines : parents = m.parents /\ table = m.table
  BY DEF FsmInit
<1>2. Forest /\ \A k \in DOMAIN table : table[k] \in State
  BY <1>1, ForestAssumption DEF Forest
<1>3. QED
  BY <1>2 DEF FsmInit, FsmInv, AncestorsEntered

(* The inductive invariant holds of every forest and every table.          *)
THEOREM FsmInvariance == FsmSpec => []FsmInv
<1>1. FsmInv /\ [FsmNext]_fsmVars => FsmInv'
  <2>1. ASSUME FsmInv, UNCHANGED fsmVars  PROVE FsmInv'
    BY <2>1 DEF FsmInv, Forest, Acyclic, AncestorsEntered, PathSet, Path, fsmVars
  <2>2. QED
    BY <2>1, FsmStep
<1> QED
  BY <1>1, FsmStart, PTL DEF FsmSpec

(* process_event() and reset() leave the current state and all its         *)
(* ancestors entered and not exited, whichever ancestor handled the event. *)
THEOREM Ancestors == FsmSpec => []AncestorsEntered
<1>1. FsmInv => AncestorsEntered
  BY DEF FsmInv
<1> QED
  BY <1>1, FsmInvariance, PTL

(* The callbacks of execute_transition() and reset() nest.                 *)
THEOREM Nesting == FsmSpec => CallbacksNest
<1>1. FsmInv /\ [FsmNext]_fsmVars => [Nests]_fsmVars
  BY FsmStep
<1> QED
  BY <1>1, FsmInvariance, PTL DEF FsmSpec, CallbacksNest

-----------------------------------------------------------------------------
(* The device of examples/device_control.cpp, written twice.                *)

(* Whatever events come and however many errors are counted, the transition *)
(* table of run_device_control_example() does only what the classes of      *)
(* run_oo_state_machine_example() do: every row is a move of handle_event() *)
(* and sets the level that on_entry() sets.                                 *)
THEOREM TableImplementsObjects == DeviceSpec => ImplementsObjects
<1>1. DeviceInit => Objects!Init
  BY DEF DeviceInit, Objects!Init, Objects!EntryPower
<1>2. ASSUME errors \in Nat, DeviceNext  PROVE Objects!Next /\ errors' \in Nat
  <2>1. PICK tr \in transitions_ :
             /\ tr.from = device /\ device' = tr.to
             /\ power' = IF tr.level = Keep THEN power ELSE tr.level
             /\ errors' = IF tr.to = "Error" THEN errors + 1 ELSE errors
             /\ errors' <= MaxErrors
    BY <1>2 DEF DeviceNext, device_process_event
  <2>2. <<tr.from, tr.event, tr.to>> \in Objects!Targets
    BY DEF transitions_, Row, Objects!Targets
  <2>3. errors' = errors + Objects!HandlerErrors(tr.event)
    BY <1>2, <2>1 DEF transitions_, Row, Objects!HandlerErrors
  <2>4. power' = Objects!EntryPower(tr.to, Objects!HandlerPower)
    BY <2>1 DEF transitions_, Row, Keep, Objects!EntryPower, Objects!HandlerPower
  <2>5. Objects!process_event(tr.event, tr.to)
    BY <2>1, <2>2, <2>3, <2>4 DEF Objects!process_event
  <2> DEFINE t == <<tr.from, tr.event, tr.to>>
  <2>6. t \in Objects!Targets /\ t[2] = tr.event /\ t[3] = tr.to
    BY <2>2
  <2>7. errors' \in Nat
    BY <1>2, <2>1
  <2> HIDE DEF t
  <2>8. Objects!Next
    BY <2>5, <2>6 DEF Objects!Next
  <2>9. QED
    BY <2>7, <2>8
<1>3. errors \in Nat /\ [DeviceNext]_deviceVars => [Objects!Next]_(Objects!vars) /\ (errors \in Nat)'
  BY <1>2 DEF deviceVars, Objects!vars
<1>4. DeviceInit => errors \in Nat
  BY DEF DeviceInit
<1>5. QED
  BY <1>1, <1>3, <1>4, PTL DEF DeviceSpec, ImplementsObjects, Objects!Spec
==============================================================================
