---------------------------- MODULE DeviceModule ----------------------------
(***************************************************************************)
(* ddd_multi_device/src/ddd/domain/module/device_module.cpp: modules that  *)
(* preheat, get ready, work and fail, and that may hold other modules as   *)
(* children, whose readiness or sensor reading guards their own.           *)
(* A command that is not legal is refused and changes nothing.  Order and  *)
(* repetitions of children_ do not matter, so it is a set; NoModule stands *)
(* for a null pointer in it.                                               *)
(* As in scenarioSensorMapping() of main.cpp, children are added before    *)
(* the first command is given, and only sensors are given readings.        *)
(***************************************************************************)
EXTENDS Naturals, FiniteSets, TLC

CONSTANTS Modules,  \* the modules
          NoModule, \* nullptr
          MaxLinks  \* bound: children added

ASSUME ModuleAssumption == NoModule \notin Modules

ModuleType  == {"OPERATOR", "SENSOR"}
ModuleState == {"INACTIVE", "PREHEATING", "READY", "WORKING", "COMPLETED", "FAULT"}
SensorState == {"NORMAL", "TRIGGERED", "OUT_OF_RANGE"}

VARIABLES
    type_,     \* ModuleType of every module
    state_,    \* ModuleState of every module
    sensor_,   \* SensorState of every module
    children_, \* children of every module
    driven,    \* whether a command was accepted yet
    done,      \* history: the start-up a module went through since its last fault
    wasReady   \* history: modules that have been READY

moduleVars == <<type_, state_, sensor_, children_, driven, done, wasReady>>

ModuleInit ==
    /\ type_ \in [Modules -> ModuleType]
    /\ state_ = [m \in Modules |-> "INACTIVE"]
    /\ sensor_ = [m \in Modules |-> "NORMAL"]
    /\ children_ = [m \in Modules |-> {}]
    /\ driven = FALSE
    /\ done = [m \in Modules |-> {}] /\ wasReady = {}

Operators(m) == {c \in children_[m] \ {NoModule} : type_[c] = "OPERATOR"}
Sensors(m)   == {c \in children_[m] \ {NoModule} : type_[c] = "SENSOR"}

SensorsNormal(m) == \A c \in Sensors(m) : sensor_[c] = "NORMAL"

canReachReady_SensorsOnly(m) == NoModule \notin children_[m] /\ SensorsNormal(m)

(* A null child is never ready; a sensor is by its reading only. *)
canReachReady(m) ==
    /\ NoModule \notin children_[m]
    /\ SensorsNormal(m)
    /\ \A c \in Operators(m) : state_[c] = "READY"

(* Null children do not count here. *)
sensorOk(m) ==
    IF type_[m] = "SENSOR" THEN sensor_[m] = "NORMAL" ELSE SensorsNormal(m)

StartUp == {"PREHEATING", "READY"}

(* An accepted command takes m to state s; a refused one is no step.  *)
Enter(m, s) ==
    /\ state_' = [state_ EXCEPT ![m] = s]
    /\ driven' = TRUE
    /\ done' = [done EXCEPT ![m] = IF s = "FAULT" THEN {} ELSE @ \cup ({s} \cap StartUp)]
    /\ wasReady' = IF s = "READY" THEN wasReady \cup {m} ELSE wasReady
    /\ UNCHANGED <<type_, sensor_, children_>>

powerOn(m) == state_[m] = "INACTIVE" /\ Enter(m, "PREHEATING")

preheatDone(m) == state_[m] = "PREHEATING" /\ canReachReady(m) /\ Enter(m, "READY")

(* startWork(), finishWork(): HierNode has operations of the same names. *)
moduleStartWork(m) ==
    /\ type_[m] # "SENSOR" /\ state_[m] = "READY" /\ sensorOk(m)
    /\ Enter(m, "WORKING")

moduleFinishWork(m) == state_[m] = "WORKING" /\ Enter(m, "COMPLETED")

setFault(m) == state_[m] # "FAULT" /\ Enter(m, "FAULT")

reset_Ready(m) == state_[m] = "FAULT" /\ Enter(m, "READY")
reset(m) == state_[m] = "FAULT" /\ Enter(m, "INACTIVE")

(* Nothing is checked: the call would be taken for an operator, too. *)
refreshSensor(m, input) ==
    /\ sensor_' = [sensor_ EXCEPT ![m] = input]
    /\ driven' = TRUE
    /\ UNCHANGED <<type_, state_, children_, done, wasReady>>

addChild(m, c) ==
    /\ children_' = [children_ EXCEPT ![m] = @ \cup {c}]
    /\ UNCHANGED <<type_, state_, sensor_, driven, done, wasReady>>

Links == {l \in Modules \X (Modules \cup {NoModule}) : l[2] \in children_[l[1]]}

Assemble ==
    /\ ~driven /\ Cardinality(Links) < MaxLinks
    /\ \E m \in Modules, c \in Modules \cup {NoModule} : addChild(m, c)

Sense == \E m \in Modules, input \in SensorState :
             type_[m] = "SENSOR" /\ refreshSensor(m, input)

ModuleNext ==
    \/ Assemble \/ Sense
    \/ \E m \in Modules :
         \/ powerOn(m) \/ preheatDone(m)
         \/ moduleStartWork(m) \/ moduleFinishWork(m)
         \/ setFault(m) \/ reset(m)

ModuleSpec == ModuleInit /\ [][ModuleNext]_moduleVars

Symmetry == Permutations(Modules)

-----------------------------------------------------------------------------
(* Properties. *)

ModuleTypeOK ==
    /\ type_ \in [Modules -> ModuleType]
    /\ state_ \in [Modules -> ModuleState]
    /\ sensor_ \in [Modules -> SensorState]
    /\ children_ \in [Modules -> SUBSET (Modules \cup {NoModule})]
    /\ driven \in BOOLEAN
    /\ done \in [Modules -> SUBSET StartUp]
    /\ wasReady \subseteq Modules

(* The operators below m: those m holds, those they hold, and so on; that  *)
(* is, what belongs to every set that holds the first and, with each       *)
(* module, its operators.                                                  *)
Closed(S) == \A a \in S : Operators(a) \subseteq S
Below(m) ==
    {d \in Modules : \A S \in SUBSET Modules :
                         Operators(m) \subseteq S /\ Closed(S) => d \in S}

(* preheatDone() looks at direct children only, and at their state of the  *)
(* moment; still a module gets ready only after everything below it has    *)
(* been ready, and one that is below itself never does.                    *)
ReadyFromTheLeaves ==
    \A m \in wasReady : Below(m) \subseteq wasReady \ {m}

(* A module that works, or did, has gone through the whole start-up since  *)
(* its last fault: reset() gives nothing back of what was ready before.    *)
FaultStartsOver ==
    \A m \in Modules : state_[m] \in {"READY", "WORKING", "COMPLETED"} => done[m] = StartUp

(* "READY if and only if all children are ready": a child that fails       *)
(* afterwards does not take its parent back, and startWork() does not look *)
(* at the children again.                                                  *)
WorksOnReadyChildren ==
    [][\A m \in Modules : state_[m] = "READY" /\ state_'[m] = "WORKING" =>
           \A c \in Operators(m) : state_[c] # "FAULT"]_moduleVars
=============================================================================
