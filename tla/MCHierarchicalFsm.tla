-------------------------- MODULE MCHierarchicalFsm --------------------------
(* The state machines of state_machine_2 that run on one thread.  The menu   *)
(* of main.cpp chooses which: the hierarchical one, here with every forest   *)
(* and every table of a few states, or the table-driven device.              *)
(* DeviceMachine is the tree of run_hierarchical_fsm_example().              *)
EXTENDS HierarchicalFsm, DeviceControl, TLC

CONSTANTS s1, s2, s3, s4

SmallStates == {s1, s2, s3, s4}
SmallEvents == {"e"}

PartialFcns(S, T) == UNION {[D -> T] : D \in SUBSET S}

AllMachines ==
    {[parents |-> p, table |-> t] :
        p \in {p \in PartialFcns(SmallStates, SmallStates) : Acyclic(p)},
        t \in PartialFcns(SmallStates \X SmallEvents, SmallStates)}

(* run_hierarchical_fsm_example(): add_state() and add_transition() *)
DeviceParents ==
    ("Starting" :> "Active") @@ ("Standby" :> "Active") @@ ("Suspended" :> "Active") @@
    ("Active" :> "On") @@ ("On" :> "PowerOnState") @@ ("Off" :> "PowerOnState") @@
    ("Error" :> "PowerOnState") @@ ("ShuttingDown" :> "PowerOnState")

DeviceTable ==
    (<<"Off", "PowerOn">> :> "Starting") @@ (<<"Starting", "StartComplete">> :> "Active") @@
    (<<"Active", "EnterStandby">> :> "Standby") @@ (<<"Standby", "ExitStandby">> :> "Active") @@
    (<<"Active", "ErrorOccurred">> :> "Error") @@ (<<"Error", "ErrorCleared">> :> "Active") @@
    (<<"Active", "Suspend">> :> "Suspended") @@ (<<"Suspended", "Resume">> :> "Active") @@
    (<<"PowerOnState", "PowerOff">> :> "ShuttingDown") @@ (<<"ShuttingDown", "PowerOff">> :> "Off")

DeviceStates == DOMAIN DeviceParents \cup {"PowerOnState"}
DeviceEvents == {k[2] : k \in DOMAIN DeviceTable}
DeviceMachine == {[parents |-> DeviceParents, table |-> DeviceTable]}

Sym == Permutations(SmallStates)

-----------------------------------------------------------------------------
VARIABLE choice  \* the menu's choice, 2 or 5

MenuInit ==
    /\ DeviceInit
    /\ \/ choice = 2 /\ FsmInit
       \/ /\ choice = 5
          /\ parents = <<>> /\ table = <<>> /\ current_state_ = NoState /\ inside = {}
          /\ ran = [by |-> "reset", calls |-> <<>>]

MenuNext ==
    /\ \/ choice = 2 /\ FsmNext /\ UNCHANGED deviceVars
       \/ choice = 5 /\ DeviceNext /\ UNCHANGED fsmVars
    /\ UNCHANGED choice

MenuSpec == MenuInit /\ [][MenuNext]_<<fsmVars, deviceVars, choice>>
=============================================================================
