---------------------------- MODULE DeviceObjects ----------------------------
(***************************************************************************)
(* state_machine_2: oo_state_machine.hpp with the device of                *)
(* examples/device_control.cpp, one class per state.  handle_event() names *)
(* the next state and may touch the shared DeviceContext itself; the       *)
(* machine then runs on_exit() and on_entry(), which sets the power level. *)
(* All classes are registered, so the next state is always found; an event *)
(* that is ignored changes nothing.                                        *)
(***************************************************************************)
EXTENDS Naturals

CONSTANT MaxErrors  \* bound: error_count

VARIABLES state, power, errors

vars == <<state, power, errors>>

(* The handle_event() of the classes: state, event and the next state. *)
Targets ==
    {<<"Off", "PowerOn", "Starting">>,
     <<"Starting", "StartComplete", "Active">>,
     <<"Active", "EnterStandby", "Standby">>, <<"Active", "Suspend", "Suspended">>,
     <<"Active", "ErrorOccurred", "Error">>, <<"Active", "PowerOff", "ShuttingDown">>,
     <<"Standby", "ExitStandby", "Active">>, <<"Standby", "ErrorOccurred", "Error">>,
     <<"Standby", "PowerOff", "ShuttingDown">>,
     <<"Suspended", "Resume", "Active">>,
     <<"Error", "ErrorCleared", "Active">>, <<"Error", "PowerOff", "ShuttingDown">>,
     <<"ShuttingDown", "PowerOff", "Off">>}

(* What handle_event() itself does to the context. *)
HandlerErrors(e) == IF e = "ErrorOccurred" THEN 1 ELSE 0
HandlerPower == IF state = "ShuttingDown" THEN 0 ELSE power

(* on_entry(): the level a state sets; ShuttingDownState leaves it alone. *)
EntryPower(s, before) ==
    CASE s \in {"Off", "Starting", "Error"} -> 0
      [] s = "Active" -> 100 [] s = "Standby" -> 20 [] s = "Suspended" -> 5
      [] OTHER -> before

Init == state = "Off" /\ power = EntryPower("Off", 0) /\ errors = 0

process_event(e, next) ==
    /\ <<state, e, next>> \in Targets
    /\ errors' = errors + HandlerErrors(e) /\ errors' <= MaxErrors
    /\ state' = next
    /\ power' = EntryPower(next, HandlerPower)

Next == \E t \in Targets : process_event(t[2], t[3])

Spec == Init /\ [][Next]_vars
=============================================================================
