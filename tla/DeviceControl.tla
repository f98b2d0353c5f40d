---------------------------- MODULE DeviceControl ----------------------------
(***************************************************************************)
(* state_machine_2: simple_fsm.hpp with the table of                       *)
(* run_device_control_example(): the same device as DeviceObjects, driven  *)
(* by transition actions.  current_state_ is set before the action runs.   *)
(* No entry or exit callback is registered, and safety_lock, the only      *)
(* guard, stays false; an event without a transition changes nothing.      *)
(***************************************************************************)
EXTENDS Naturals

CONSTANT MaxErrors  \* bound: error_count

VARIABLES device, power, errors  \* current_state_ and the DeviceContext

deviceVars == <<device, power, errors>>

Keep == 101  \* no assignment to power_level

(* add_transition(), level being what the action sets power_level to *)
Row(from, event, to, level) == [from |-> from, event |-> event, to |-> to, level |-> level]

table_ErrorKeepsPower ==
    {Row("Off", "PowerOn", "Starting", 0),
     Row("Starting", "StartComplete", "Active", 100),
     Row("Active", "EnterStandby", "Standby", 20),
     Row("Standby", "ExitStandby", "Active", 100),
     Row("Active", "ErrorOccurred", "Error", Keep),
     Row("Error", "ErrorCleared", "Active", 100),
     Row("Error", "PowerOff", "ShuttingDown", Keep),
     Row("Active", "PowerOff", "ShuttingDown", Keep),
     Row("ShuttingDown", "PowerOff", "Off", 0)}

transitions_ ==
    {Row("Off", "PowerOn", "Starting", 0),
     Row("Starting", "StartComplete", "Active", 100),
     Row("Active", "EnterStandby", "Standby", 20),
     Row("Standby", "ExitStandby", "Active", 100),
     Row("Active", "ErrorOccurred", "Error", 0),
     Row("Error", "ErrorCleared", "Active", 100),
     Row("Error", "PowerOff", "ShuttingDown", Keep),
     Row("Active", "PowerOff", "ShuttingDown", Keep),
     Row("ShuttingDown", "PowerOff", "Off", 0)}

DeviceInit == device = "Off" /\ power = 0 /\ errors = 0

device_process_event(e) ==
    /\ \E tr \in transitions_ :
          /\ tr.from = device /\ tr.event = e
          /\ device' = tr.to
          /\ power' = IF tr.level = Keep THEN power ELSE tr.level
          /\ errors' = IF tr.to = "Error" THEN errors + 1 ELSE errors
    /\ errors' <= MaxErrors

DeviceNext == \E tr \in transitions_ : device_process_event(tr.event)

DeviceSpec == DeviceInit /\ [][DeviceNext]_deviceVars

-----------------------------------------------------------------------------
Objects == INSTANCE DeviceObjects WITH state <- device

(* The table-driven device does only what the object-oriented one does: the *)
(* same successors, power levels and error counts over every sequence of    *)
(* events, although one sets the power on transitions and the other on      *)
(* entry, and levels are inherited across shutdown.                         *)
ImplementsObjects == Objects!Spec
=============================================================================
