--------------------------- MODULE EventDrivenFsm ---------------------------
(***************************************************************************)
(* state_machine_2/include/event_driven_fsm.hpp: a state machine whose     *)
(* events are handled at once by the caller (process_event) or queued for  *)
(* a processing thread (post_event).  Every public operation is one        *)
(* critical section under mutex_; notifications and the join come after    *)
(* the unlock and are steps of their own.                                  *)
(*                                                                         *)
(* Each posted event carries a number, its place in the order of posting;  *)
(* the numbers are bookkeeping and nothing in the code depends on them.    *)
(***************************************************************************)
EXTENDS Naturals, Sequences, FiniteSets

CONSTANTS Clients,      \* threads that use the machine
          Controllers,  \* those of them that call start_async / stop_async
          States, Events,
          Initial,      \* the state given to reset()
          Table,        \* transitions_: a function from a set of <<state, event>>
          Guarded,      \* the keys of Table whose transition has a guard
          MaxPosts,     \* bound: events ever posted
          MaxDeferrals  \* bound: events ever deferred

ASSUME FsmAssumption ==
    /\ Controllers \subseteq Clients
    /\ Initial \in States
    /\ DOMAIN Table \subseteq States \X Events
    /\ \A k \in DOMAIN Table : Table[k] \in States
    /\ Guarded \subseteq DOMAIN Table
    /\ MaxPosts \in Nat /\ MaxDeferrals \in Nat

VARIABLES
    state,      \* current_state_
    installed,  \* transitions_ has not been cleared
    queue,      \* event_queue_
    deferred,   \* deferred_queue_
    current,    \* current_processing_event_: a sequence of at most one event
    running,    \* running_
    wpc,        \* the processing thread; "none" iff it is not joinable
    crashed,    \* std::terminate was called
    pc          \* what each client is doing

(* History: events posted, deferred, handled by the processing thread at   *)
(* least once, dropped by clear(), and the number posted when stop_async() *)
(* cleared running_.                                                       *)
VARIABLES posted, deferrals, handled, dropped, stopMark

machine == <<state, installed, queue, deferred, current, running, crashed>>
history == <<posted, deferrals, handled, dropped, stopMark>>
vars    == <<machine, wpc, pc, history>>

Item == [event : Events, id : 1..MaxPosts]
Ids(s) == {s[k].id : k \in DOMAIN s}

TypeOK ==
    /\ state \in States
    /\ queue \in Seq(Item) /\ deferred \in Seq(Item) /\ current \in Seq(Item)
    /\ Len(current) <= 1
    /\ ~crashed => (Len(current) = 1 <=> wpc = "popped")
    /\ installed \in BOOLEAN /\ running \in BOOLEAN /\ crashed \in BOOLEAN
    /\ wpc \in {"none", "test", "asleep", "popped", "exited"}
    /\ pc \in [Clients -> {"idle", "notify", "stopping", "joining"}]
    /\ posted \in 0..MaxPosts /\ deferrals \in 0..MaxDeferrals
    /\ stopMark \in 0..MaxPosts
    /\ handled \subseteq 1..MaxPosts /\ dropped \subseteq 1..MaxPosts

Init ==
    /\ state = Initial /\ installed = TRUE
    /\ queue = <<>> /\ deferred = <<>> /\ current = <<>>
    /\ running = FALSE /\ wpc = "none" /\ crashed = FALSE
    /\ pc = [c \in Clients |-> "idle"]
    /\ posted = 0 /\ deferrals = 0 /\ handled = {} /\ dropped = {} /\ stopMark = 0

Calls(c) == ~crashed /\ pc[c] = "idle"
Goto(c, l) == pc' = [pc EXCEPT ![c] = l]

(* process_internal_locked(): no transition, or a guard that refuses,      *)
(* leaves the state alone.                                                 *)
process_internal_locked(e) ==
    LET key == <<state, e>> IN
    \/ /\ installed /\ key \in DOMAIN Table
       /\ state' = Table[key]
    \/ /\ installed => key \notin DOMAIN Table \/ key \in Guarded
       /\ UNCHANGED state

-----------------------------------------------------------------------------
(* Client operations. *)

process_event(c, e) ==
    /\ Calls(c)
    /\ process_internal_locked(e)
    /\ UNCHANGED <<installed, queue, deferred, current, running, crashed, wpc,
                   pc, history>>

Push_Front(item) == <<item>> \o queue

Push(item) == Append(queue, item)

post_event(c, e) ==
    /\ Calls(c) /\ posted < MaxPosts
    /\ posted' = posted + 1
    /\ queue' = Push([event |-> e, id |-> posted + 1])
    /\ Goto(c, "notify")
    /\ UNCHANGED <<state, installed, deferred, current, running, crashed, wpc,
                   deferrals, handled, dropped, stopMark>>

Woken_Never == wpc

Woken == IF wpc = "asleep" THEN "test" ELSE wpc

(* cv_.notify_one() after the unlock; only the processing thread waits. *)
NotifyOne(c) ==
    /\ pc[c] = "notify"
    /\ wpc' = Woken
    /\ Goto(c, "idle")
    /\ UNCHANGED <<machine, history>>

(* Called by a client: an action or observer runs with mutex_ held and     *)
(* would block on it.                                                      *)
defer_current_event(c) ==
    /\ Calls(c)
    /\ deferrals + Len(current) <= MaxDeferrals
    /\ deferrals' = deferrals + Len(current)
    /\ deferred' = deferred \o current
    /\ UNCHANGED <<state, installed, queue, current, running, crashed, wpc, pc,
                   posted, handled, dropped, stopMark>>

Replayed_Swapped == deferred

Replayed == queue \o deferred

process_deferred_events(c) ==
    /\ Calls(c)
    /\ queue' = Replayed
    /\ deferred' = <<>>
    /\ UNCHANGED <<state, installed, current, running, crashed, wpc, pc, history>>

reset(c) ==
    /\ Calls(c)
    /\ state' = Initial
    /\ UNCHANGED <<installed, queue, deferred, current, running, crashed, wpc,
                   pc, history>>

clear(c) ==
    /\ Calls(c)
    /\ installed' = FALSE
    /\ queue' = <<>> /\ deferred' = <<>>
    /\ dropped' = dropped \cup Ids(queue)
    /\ UNCHANGED <<state, current, running, crashed, wpc, pc, posted,
                   deferrals, handled, stopMark>>

(* add_transition() after a clear() installs the table again. *)
add_transition(c) ==
    /\ Calls(c)
    /\ installed' = TRUE
    /\ UNCHANGED <<state, queue, deferred, current, running, crashed, wpc, pc,
                   history>>

(* Assigning to a std::thread that is still joinable terminates. *)
start_async(c) ==
    /\ Calls(c) /\ ~running
    /\ running' = TRUE
    /\ crashed' = (wpc # "none")
    /\ wpc' = "test"
    /\ UNCHANGED <<state, installed, queue, deferred, current, pc, history>>

stop_async(c) ==
    /\ Calls(c) /\ running
    /\ running' = FALSE
    /\ stopMark' = posted
    /\ Goto(c, "stopping")
    /\ UNCHANGED <<state, installed, queue, deferred, current, crashed, wpc,
                   posted, deferrals, handled, dropped>>

NotifyAll(c) ==
    /\ pc[c] = "stopping"
    /\ wpc' = Woken
    /\ Goto(c, "joining")
    /\ UNCHANGED <<machine, history>>

Join(c) ==
    /\ pc[c] = "joining" /\ wpc \in {"none", "exited"}
    /\ wpc' = "none"
    /\ Goto(c, "idle")
    /\ UNCHANGED <<machine, history>>

-----------------------------------------------------------------------------
(* processing_loop(). *)

Sleep ==
    /\ wpc = "test" /\ running /\ queue = <<>>
    /\ wpc' = "asleep"
    /\ UNCHANGED <<machine, pc, history>>

SpuriousWakeup ==
    /\ wpc = "asleep"
    /\ wpc' = "test"
    /\ UNCHANGED <<machine, pc, history>>

MayExit_AtOnce == ~running

MayExit == ~running /\ queue = <<>>

Exit ==
    /\ wpc = "test" /\ MayExit
    /\ wpc' = "exited"
    /\ UNCHANGED <<machine, pc, history>>

Pop ==
    /\ wpc = "test" /\ queue # <<>>
    /\ current' = <<Head(queue)>>
    /\ queue' = Tail(queue)
    /\ wpc' = "popped"
    /\ UNCHANGED <<state, installed, deferred, running, crashed, pc, history>>

Handle_NotReset ==
    /\ wpc = "popped"
    /\ process_internal_locked(current[1].event)
    /\ handled' = handled \cup Ids(current)
    /\ wpc' = "test"
    /\ UNCHANGED <<installed, queue, deferred, current, running, crashed, pc,
                   posted, deferrals, dropped, stopMark>>

(* The event was taken in one critical section and is handled in another.  *)
Handle ==
    /\ wpc = "popped"
    /\ process_internal_locked(current[1].event)
    /\ current' = <<>>
    /\ handled' = handled \cup Ids(current)
    /\ wpc' = "test"
    /\ UNCHANGED <<installed, queue, deferred, running, crashed, pc, posted,
                   deferrals, dropped, stopMark>>

-----------------------------------------------------------------------------
ClientCalls(c) ==
    \/ \E e \in Events : process_event(c, e) \/ post_event(c, e)
    \/ defer_current_event(c) \/ process_deferred_events(c)
    \/ reset(c) \/ clear(c) \/ add_transition(c)
    \/ c \in Controllers /\ (start_async(c) \/ stop_async(c))

ClientContinues(c) == NotifyOne(c) \/ NotifyAll(c) \/ Join(c)

Worker == ~crashed /\ (Sleep \/ Exit \/ Pop \/ Handle)

Next ==
    \/ \E c \in Clients : ClientCalls(c)
    \/ ~crashed /\ \E c \in Clients : ClientContinues(c)
    \/ Worker
    \/ ~crashed /\ SpuriousWakeup

Spec == Init /\ [][Next]_vars

(* Threads are scheduled; calls already made go on; nobody has to call. *)
FairSpec ==
    Spec /\ WF_vars(Worker) /\ \A c \in Clients : WF_vars(ClientContinues(c))

-----------------------------------------------------------------------------
(* Safety. *)

(* No posted event disappears: it waits in event_queue_, is between the    *)
(* two critical sections of processing_loop(), has been handled, or was    *)
(* discarded by clear().                                                   *)
NothingLost ==
    1..posted = Ids(queue) \cup Ids(current) \cup handled \cup dropped

(* Events are handled in the order of posting, whatever is deferred and    *)
(* replayed in between.                                                    *)
PostingOrder ==
    \A a, b \in 1..posted :
        a < b /\ b \in handled => a \in handled \cup dropped

(* stop_async() drains: once the thread has ended, every event posted      *)
(* before running_ was cleared has been handled, also those posted between *)
(* the thread's test of its predicate and its sleep.                       *)
StopDrains ==
    wpc \in {"none", "exited"} => 1..stopMark \subseteq handled \cup dropped

-----------------------------------------------------------------------------
(* Liveness. *)

(* While the thread runs, a posted event is handled. *)
PostedIsHandled ==
    \A n \in 1..MaxPosts :
        n \in Ids(queue) \ handled ~> n \in handled \cup dropped \/ ~running

(* stop_async() returns once clients cease to post and to defer (the       *)
(* bounds are reached): the thread leaves only with an empty queue.        *)
StopReturns ==
    \A c \in Clients : pc[c] \in {"stopping", "joining"} ~> pc[c] = "idle"

(* "Async event queue, guards, deferred events" (the program's menu):      *)
(* while the thread runs it gets to everything in event_queue_, the        *)
(* deferred events process_deferred_events() has put there included.       *)
QueueIsServed == queue # <<>> /\ running ~> queue = <<>> \/ ~running

=============================================================================
