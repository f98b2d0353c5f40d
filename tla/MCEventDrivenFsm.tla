-------------------------- MODULE MCEventDrivenFsm --------------------------
(* A two-state instance: "go" is guarded, "back" is not, and each event is *)
(* unexpected in one of the states.                                        *)
EXTENDS EventDrivenFsm

MCTable ==
    [k \in {<<"off", "go">>, <<"on", "back">>} |->
        IF k[1] = "off" THEN "on" ELSE "off"]
MCGuarded == {<<"off", "go">>}
=============================================================================
