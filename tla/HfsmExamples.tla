---------------------------- MODULE HfsmExamples ----------------------------
(***************************************************************************)
(* The five machines the repository builds on StateMachineEngine           *)
(* (state_machine/examples/01 to 05), and the HistoryManager and           *)
(* RegionManager two of them use.  A machine is its table of rules, the    *)
(* data its actions write and its callbacks read, and the events its main  *)
(* program sends; counters that are only printed are left out.             *)
(* An event is its type and one number of its payload: a priority, an      *)
(* order id, an amount, an error code, a reason, or the length of a        *)
(* tracking id.                                                            *)
(* None of the programs defers, so handle() is told here without the       *)
(* engine's history of numbered events.                                    *)
(***************************************************************************)
EXTENDS HfsmEngine, HfsmManagers

CONSTANTS Payloads,  \* the numbers an event can carry
          MaxRetry,  \* bound: retry_count
          MaxRecords \* bound: records of one history

VARIABLES
    prog,     \* which of the programs runs
    open,     \* whether its machine is given any event, or those of main()
    todo,     \* what main() has still to do
    order,    \* OrderProcessor::order
    history_, \* HistoryManager
    regions_, \* RegionManager
    paid,     \* history: the order id a payment was accepted for
    fins,     \* history: the FINs of the connection, sent and received
    recent    \* history: per configured state, the child last recorded

data     == <<order, paid, fins>>
managers == <<history_, regions_, recent>>
unused   == <<deferring, deferred, pass, result, posted, times, dropped>>
evars    == <<vars, prog, open, todo, data, managers>>

E(type, n) == [type |-> type, arg |-> n]

(* A rule without a guard, and one whose guard looks at the payload. *)
Guarded(src, type, ns, dst) ==
    [src |-> src, on |-> {E(type, n) : n \in ns}, dst |-> dst, internal |-> FALSE]
Rule(src, type, dst) == Guarded(src, type, Payloads, dst)

Positive == {n \in Payloads : n > 0}

-----------------------------------------------------------------------------
(* TrafficLightController (01). *)

TrafficRules ==
    << Rule("Red", "TimerExpired", "Green"),
       Rule("Green", "TimerExpired", "Yellow"),
       Rule("Yellow", "TimerExpired", "Red"),
       Guarded(AnySource, "EmergencyOverride", Positive, "BlinkingRed"),
       Rule("BlinkingRed", "TimerExpired", "Red") >>

TrafficRun ==
    << E("TimerExpired", 0), E("TimerExpired", 0), E("TimerExpired", 0),
       E("EmergencyOverride", 1), E("TimerExpired", 0) >>

-----------------------------------------------------------------------------
(* TCPConnection (02). *)

(* ---- FIN_WAIT_1 and FIN_WAIT_2 transitions ---- *)
AfterClose_OneWay ==
    << Rule("FIN_Wait_1", "ReceiveACK", "Time_Wait"),
       Rule("FIN_Wait_1", "ReceiveFIN", "Time_Wait") >>

AfterClose ==
    << Rule("FIN_Wait_1", "ReceiveACK", "FIN_Wait_2"),
       Rule("FIN_Wait_1", "ReceiveFIN", "Time_Wait"),
       Rule("FIN_Wait_2", "ReceiveFIN", "Time_Wait") >>

TcpRules ==
    << Rule("Closed", "PassiveOpen", "Listen"),
       Rule("Closed", "ActiveOpen", "SYN_Sent"),
       Rule("Listen", "ReceiveSYN", "SYN_RCVD"),
       Rule("SYN_Sent", "ReceiveSYNACK", "Established"),
       Rule("SYN_RCVD", "ReceiveACK", "Established"),
       Rule("Established", "Close", "FIN_Wait_1"),
       Rule("Established", "ReceiveFIN", "Close_Wait") >>
    \o AfterClose \o
    << Rule("Time_Wait", "Timeout", "Closed"),
       Rule("Close_Wait", "Close", "Last_ACK"),
       Rule("Last_ACK", "ReceiveACK", "Closed") >>

run_active_open ==
    << E("ActiveOpen", 0), E("ReceiveSYNACK", 1), E("ReceiveACK", 1), E("Close", 0),
       E("ReceiveACK", 1), E("ReceiveFIN", 0), E("Timeout", 0) >>

run_passive_open ==
    << E("reset", 0), E("PassiveOpen", 0), E("ReceiveSYN", 1), E("ReceiveACK", 1),
       E("ReceiveFIN", 0), E("Close", 0), E("ReceiveACK", 1) >>

-----------------------------------------------------------------------------
(* OrderProcessor (03). *)

Fatal == {n \in Payloads : n >= 100}

(* return e.amount > 0 *)
PaymentGuard_None == Payloads
PaymentGuard == Positive

OrderRules ==
    << Rule("Pending", "PlaceOrder", "PaymentProcessing"),
       Guarded("PaymentProcessing", "PaymentReceived", PaymentGuard, "PaymentConfirmed"),
       Guarded("PaymentProcessing", "PaymentFailed", Fatal, "Cancelled"),
       Guarded("PaymentProcessing", "PaymentFailed", Payloads \ Fatal, "Pending"),
       Rule("PaymentConfirmed", "InventoryReserved", "Preparing"),
       Rule("PaymentConfirmed", "InventoryShort", "Cancelled"),
       Guarded("Preparing", "ShipOrder", Positive, "Shipped"),
       Rule("Shipped", "ConfirmDelivery", "Delivered"),
       Rule("Delivered", "ConfirmDelivery", "Completed") >>
    \o [i \in 1..4 |->
          Rule(<<"Pending", "PaymentProcessing", "PaymentConfirmed", "Preparing">>[i],
               "CancelOrder", "Cancelled")]

(* What is done after PlaceOrder and the payment. *)
Delivery ==
    << E("InventoryReserved", 0), E("ShipOrder", 1),
       E("ConfirmDelivery", 0), E("ConfirmDelivery", 0) >>

run_happy_path == <<E("PlaceOrder", 1), E("PaymentReceived", 1)>> \o Delivery

run_payment_failure_path ==
    << E("reset", 0), E("PlaceOrder", 1), E("PaymentFailed", 50),
       E("PlaceOrder", 1), E("PaymentReceived", 1) >> \o Delivery

run_cancellation_path == <<E("reset", 0), E("PlaceOrder", 1), E("CancelOrder", 1)>>

(* The rules' actions; order survives reset().  The fields are those that  *)
(* a callback or a test of the program reads.                              *)
OrderAction(e) ==
    CASE e.type = "PlaceOrder"      -> [order EXCEPT !.order_id = e.arg]
      [] e.type = "PaymentReceived" -> [order EXCEPT !.paid_amount = e.arg]
      [] e.type = "PaymentFailed" /\ e \notin {E("PaymentFailed", n) : n \in Fatal}
                                    -> [order EXCEPT !.retry_count = @ + 1]
      [] e.type = "InventoryShort"  -> [order EXCEPT !.cancel_reason = 2]
      [] e.type = "ShipOrder"       -> [order EXCEPT !.tracking_id = e.arg]
      [] e.type = "CancelOrder"     -> [order EXCEPT !.cancel_reason = e.arg]
      [] OTHER                      -> order

-----------------------------------------------------------------------------
(* ProtocolStack (04). *)

ConnRules ==
    << Rule("Disconnected", "ConnectRequest", "Connecting"),
       Rule("Disconnected", "ConnectionLost", "Connecting"),
       Rule("Connecting", "ConnectionEstablished", "Connected"),
       Rule("Connecting", "ConnectionTimeout", "Disconnected"),
       Rule("Connected", "DisconnectRequest", "Disconnected"),
       Rule("Connected", "ConnectionLost", "Disconnected"),
       Rule("Authenticating", "AuthSuccess", "Idle"),
       Rule("Authenticating", "AuthFailure", "Disconnected"),
       Rule("Idle", "StreamStart", "Streaming"),
       Rule("Streaming", "StreamStop", "Idle"),
       Rule("Idle", "DataReceived", "Idle"),
       Rule("Streaming", "DataReceived", "Streaming"),
       Rule("Streaming", "DataSent", "Streaming") >>

ConnRun ==
    << E("ConnectRequest", 0), E("ConnectionTimeout", 0), E("ConnectRequest", 0),
       E("ConnectionEstablished", 0), E("AuthSuccess", 0), E("DataReceived", 0),
       E("DataReceived", 0), E("StreamStart", 0), E("DataReceived", 0), E("DataSent", 0),
       E("DataReceived", 0), E("StreamStop", 0), E("DisconnectRequest", 0) >>

-----------------------------------------------------------------------------
(* DeviceManager (05). *)

DeviceRules ==
    << Rule("PoweredOff", "PowerOn", "PoweredOn"),
       Rule("PoweredOn", "PowerOff", "PoweredOff"),
       Rule("ActiveIdle", "Standby", "Standby"),
       Rule("Standby", "WakeUp", "ActiveIdle"),
       Rule("ActiveIdle", "Heartbeat", "Running"),
       Rule("Running", "Heartbeat", "Busy"),
       Rule("Busy", "Heartbeat", "ActiveIdle"),
       Rule("ActiveIdle", "OverTemperature", "MinorFault"),
       Rule("Running", "OverTemperature", "MinorFault"),
       Rule("Busy", "OverTemperature", "MinorFault"),
       Rule("MinorFault", "RecoveryInitiated", "Recovering"),
       Rule("MajorFault", "RecoveryInitiated", "Recovering"),
       Rule("MinorFault", "NormalTemperature", "ActiveIdle"),
       Rule("Recovering", "RecoveryComplete", "ActiveIdle"),
       Rule("Recovering", "FaultDetected", "MajorFault"),
       Rule("MinorFault", "FaultDetected", "MajorFault"),
       Rule("MajorFault", "PowerOff", "PoweredOff"),
       Rule("ActiveIdle", "StartFirmwareUpdate", "FWDownloading"),
       Rule("FWDownloading", "FWDownloadComplete", "FWVerifying"),
       Rule("FWVerifying", "FWUpdateComplete", "FWInstalling"),
       Rule("FWVerifying", "FWVerifyFailure", "ActiveIdle"),
       Rule("FWInstalling", "FWUpdateComplete", "ActiveIdle"),
       Rule("FWInstalling", "FWUpdateFailed", "MajorFault") >>

normal_operation ==
    << E("PowerOn", 0), E("Heartbeat", 0), E("Heartbeat", 0), E("Heartbeat", 0) >>

fault_recovery == << E("OverTemperature", 1), E("NormalTemperature", 0) >>

firmware_update ==
    << E("StartFirmwareUpdate", 0), E("FWDownloadComplete", 0),
       E("FWUpdateComplete", 0), E("FWUpdateComplete", 0) >>

power_cycle_with_history == << E("PowerOff", 0), E("PowerOn", 0) >>

-----------------------------------------------------------------------------
(* What each program starts with, and what its main() does. *)

Programs == {"lights", "tcp", "orders", "stack", "devices"}

RulesOf ==
    [lights |-> TrafficRules, tcp |-> TcpRules, orders |-> OrderRules,
     stack |-> ConnRules, devices |-> DeviceRules]

InitialOf ==
    [lights |-> "Red", tcp |-> "Closed", orders |-> "Pending",
     stack |-> "Disconnected", devices |-> "PoweredOff"]

MainOf ==
    [lights  |-> TrafficRun,
     tcp     |-> run_active_open \o run_passive_open,
     orders  |-> run_happy_path \o run_payment_failure_path \o run_cancellation_path,
     stack   |-> ConnRun,
     devices |-> normal_operation \o fault_recovery \o firmware_update
                 \o power_cycle_with_history]

AllStates ==
    UNION {UNION {{RulesOf[p][i].src, RulesOf[p][i].dst} : i \in DOMAIN RulesOf[p]}
              : p \in Programs} \ {AnySource}

(* Any event a rule of the running program names, with any payload. *)
Vocabulary ==
    {E(t, n) : t \in UNION {{e.type : e \in rules[i].on} : i \in DOMAIN rules},
               n \in Payloads}

(* Only the emergency rule of the lights is one for any state. *)
ASSUME ExamplesAssumption ==
    \A p \in Programs : \A i \in DOMAIN RulesOf[p] :
        RulesOf[p][i].src = AnySource => p = "lights"

ExamplesInit ==
    /\ prog \in Programs /\ open \in BOOLEAN
    /\ rules = RulesOf[prog] /\ Constructed /\ ~deferring
    /\ initial = InitialOf[prog]
    /\ todo = IF open THEN <<>> ELSE MainOf[prog]
    /\ order = [order_id |-> 0, paid_amount |-> 0, tracking_id |-> 0,
                cancel_reason |-> 0, retry_count |-> 0]
    /\ paid = {} /\ fins = {} /\ regions_ = NoEntries
    /\ history_ = IF prog = "devices"
                  THEN configure(configure(NoEntries, "Active", "Deep"), "Fault", "Shallow")
                  ELSE NoEntries
    /\ recent = [s \in DOMAIN history_ |-> INVALID_STATE]

-----------------------------------------------------------------------------
(* What the entry callbacks change.  Standby records the state the engine  *)
(* is in by then.                                                          *)
Entered(s) ==
    /\ regions_' = IF prog = "stack" /\ s = "Connected"
                   THEN activate_region(regions_, s) ELSE regions_
    /\ IF prog = "devices" /\ s \in {"PoweredOn", "Standby"}
       THEN LET child == IF s = "PoweredOn" THEN "ActiveIdle" ELSE s
            IN  /\ history_' = record(history_, "Active", child)
                /\ recent' = IF "Active" \in DOMAIN history_
                             THEN [recent EXCEPT !["Active"] = child] ELSE recent
       ELSE UNCHANGED <<history_, recent>>

(* execute_transition(), the rule's action and the entry callback. *)
Transits(rule, e) ==
    /\ execute_transition(rule)
    /\ order' = IF prog = "orders" THEN OrderAction(e) ELSE order
    /\ Entered(rule.dst)

WithinBounds ==
    /\ order.retry_count < MaxRetry
    /\ \A s \in DOMAIN history_ : Len(history_[s].stack) < MaxRecords

(* handle() of an engine that does not defer. *)
handleEvent(e) ==
    /\ WithinBounds
    /\ \/ /\ \E i \in Chosen(rules, active, e) : Transits(rules[i], e)
          /\ paid' = CASE e.type = "PlaceOrder"      -> {}
                       [] e.type = "PaymentReceived" -> {order.order_id}
                       [] OTHER                      -> paid
          /\ fins' = CASE e.type \in {"PassiveOpen", "ActiveOpen"} -> {"open"}
                       [] e.type = "Close"                         -> fins \cup {"sent"}
                       [] e.type = "ReceiveFIN"                    -> fins \cup {"received"}
                       [] OTHER                                    -> fins
       \/ /\ Chosen(rules, active, e) = {}
          /\ UNCHANGED <<active, inside, data, managers>>
    /\ UNCHANGED <<rules, initial, unused, prog, open>>

(* reset() leaves the program's data as they are. *)
resetMachine ==
    /\ reset
    /\ Entered(initial)
    /\ fins' = {}
    /\ UNCHANGED <<prog, open, order, paid>>

RunMain ==
    /\ ~open /\ todo # <<>>
    /\ IF Head(todo).type = "reset" THEN resetMachine ELSE handleEvent(Head(todo))
    /\ todo' = Tail(todo)

Returned == ~open /\ todo = <<>> /\ UNCHANGED evars

AnyEvent == open /\ UNCHANGED todo /\ \E e \in Vocabulary : handleEvent(e)
AnyReset == open /\ UNCHANGED todo /\ WithinBounds /\ resetMachine

(* The members history and regions are public: any call, in any order. *)
CONSTANTS Composites, Children

HistoryCall ==
    \/ \E s \in Composites, m \in HistoryMode :
         /\ history_' = configure(history_, s, m)
         /\ recent' = (s :> INVALID_STATE) @@ recent
    \/ \E s \in Composites, c \in Children :
         /\ history_' = record(history_, s, c)
         /\ recent' = IF s \in DOMAIN history_ THEN [recent EXCEPT ![s] = c] ELSE recent
    \/ \E s \in Composites :
         /\ history_' = clear(history_, s)
         /\ recent' = IF s \in DOMAIN history_ THEN [recent EXCEPT ![s] = INVALID_STATE]
                      ELSE recent
    \/ history_' = clear_all /\ recent' = NoEntries

RegionCall ==
    \E p \in Composites, c \in Children :
        regions_' \in {add_region(regions_, p, c), activate_region(regions_, p),
                       deactivate_region(regions_, p), set_active_child(regions_, p, c),
                       NoEntries}

AnyManagerCall ==
    /\ open /\ WithinBounds
    /\ \/ prog = "devices" /\ active = "PoweredOff" /\ HistoryCall /\ UNCHANGED regions_
       \/ prog = "stack" /\ active = "Disconnected" /\ RegionCall /\ UNCHANGED <<history_, recent>>
    /\ UNCHANGED <<vars, prog, open, todo, data>>

ExamplesNext ==
    RunMain \/ Returned \/ AnyEvent \/ AnyReset \/ AnyManagerCall

ExamplesSpec == ExamplesInit /\ [][ExamplesNext]_evars

-----------------------------------------------------------------------------
(* Properties. *)

(* Goods are prepared and shipped for orders only that were paid for, with *)
(* an amount, since they were placed: no stale payment of an earlier order *)
(* or attempt counts, although order survives failures and reset().        *)
OrderIsPaid ==
    prog = "orders"
        /\ active \in {"PaymentConfirmed", "Preparing", "Shipped", "Delivered", "Completed"}
    => paid = {order.order_id} /\ order.paid_amount > 0

(* A connection that was opened is closed again, without reset(), only     *)
(* after a FIN went both ways.                                             *)
ClosesBothWays ==
    prog = "tcp" /\ active = "Closed" /\ "open" \in fins =>
        {"sent", "received"} \subseteq fins

(* "Remember full hierarchy": recall() returns the child recorded last, as *)
(* a shallow history does.  A deep one returns the first.                  *)
DeepRecallsLast ==
    \A s \in DOMAIN history_ : recall(history_, s) = recent[s]

(* "PoweredOn -> Active/Idle on entry (handled via initial)" and the       *)
(* comments of the scenarios, "ActiveIdle -> Running" on the first         *)
(* heartbeat: a device never stays in the composite state itself.          *)
PoweredOnDescends == active # "PoweredOn"

(* "Connection established, entering sub-states": a connection never stays *)
(* in the composite state, where the AuthSuccess that follows is refused.  *)
ConnectedDescends == active # "Connected"
=============================================================================
