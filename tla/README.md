# A TLA+ verification of opencode_project

The repository is a collection of nine independent C++ programs. This directory
models those with state that is hard to test: a cancellable pipeline of
worker-thread stages, an asynchronous state machine, an order service, a plant
of cooperating devices and the modules they are made of, an OPC UA client with
the programs that use it, a shared cache and the poller that fills it, and two
libraries of hierarchical state machines with the examples built on them. Every module names the source file it
translates; `PROJECT.json` maps each definition to its lines.

## 1. Inventory

| subproject | components | state | how they interact | what is hard |
|---|---|---|---|---|
| `threads/cancel` | `stage::Pipeline` (`include/stage/pipeline.hpp`) | steps, cleanup, worker thread, `m_`, `cv_`, `stop_flag_`, `done_`, `failure_`, `current_` | any thread configures, starts, stops, waits; the worker runs stages and publishes | restart races with stop and wait; notification after unlock; join under the mutex; stage and cleanup both throwing; destruction |
| | `ThreadPool`, `WorkerContext` (`include/thread_pool_context.h`) | | unused header that does not compile | |
| `state_machine_2` | `EventDrivenStateMachine` | event queue, deferred queue, current state, `mutex_`, `cv_`, `running_` | clients post, process synchronously or control the processing thread | lost wake-ups, drain at stop, start and stop overlapping, deferred events |
| | `HierarchicalStateMachine` | parents, table, current state | events climb to ancestors; callbacks over the LCA | which states are exited and entered, forests, guards |
| | `SimpleStateMachine`, `State`/`StateMachine`, device examples | table or objects, device context | events from the menu program | side effects before a decision |
| `ddd` | `Order` aggregate, repository, application service, pricing service, value objects | orders by id, items, status, published events | a use case finds a copy, changes, publishes, saves | what changes after an event was published; integer limits; long call sequences |
| `ddd_multi_device` | `HierNode` tree, `RpcRouter`, `PlantController`, `EventBus`, `DeviceModule` | per node: step, position in its plan, ready, working, fault, the picture of its children | commands go down and reports go up by nested calls, re-entering nodes | re-entrancy, escalation of faults, reset in the middle of a command; guards that look one level down |
| `proto_opcua` | `NodeCache` | entries with version and time, bound, callback | several writers and readers | stamps before the lock, eviction at the bound |
| | `PlcPoller`, `PlcClient` | groups, poll thread, `running_`, connection | owner starts and stops; anybody configures or polls | rounds against reconfiguration, stop against sleep, reads that fail |
| | `OPCUAClient` and the 25 programs of `scenarios.cpp` | library client, callbacks by item id | requests to a PLC, notifications from it; values are converted in both directions | a connection lost without notice; ids that are reused; notifications under way; answers that are not looked at; cyclic references |
| | `StructParser`, demos | | decoding and printing | |
| `state_machine` (hfsm) | `StateMachineEngine` | rules, current state, deferred and pending queue | one caller; entry, exit and rule callbacks | replay of deferred events, order, internal and any-source rules |
| | `HistoryManager`, `RegionManager` | per composite state: recorded children, active child | called by entry callbacks of the examples | what is recalled after a long sequence of records |
| | examples 01 to 05 | a table of rules, data written by actions | main programs send events | data that survives a reset, messages that cross, composite states that are never left downwards |
| | `TypedStateId`, deferral, logger, visitor | | | |
| `crash_cases` | fourteen programs that crash on purpose | | | |
| `auto`, `ccache` | toy programs for build pipelines | | | |

What makes each correct:

* Pipeline: cleanup exactly once per run, a stop honoured at the next stage
  boundary, no waiter left asleep, results that belong to the run waited for.
* State machines: no event lost or handled out of order, callbacks that follow
  the current state, reports of "handled" that are true.
* Order service: a total that was announced stays true, status moves forward.
* Plant: a fault reaches the host exactly if it affects production, a parent's
  picture of its children is true, nobody is ready before its children.
* Cache and poller: versions identify values, the callback is true, eviction is
  by age; a removed group is left alone, stop leaves nothing behind.
* OPC UA client: what was stored is read back unchanged, a callback is called
  only in its session and never after it was unsubscribed, a browse finds what
  is there.
* Device modules: readiness starts at the leaves, a fault undoes the start-up.
* Examples: what is shipped is paid for, a connection closes both ways.

## 2. Modules

| module | code | state and actions |
|---|---|---|
| `Pipeline` | `threads/cancel/include/stage/pipeline.hpp` | One variable per member; `pc` of each caller, `wpc` and the locals of `run()`. One action per public operation or, where it gives up `m_`, per critical section; one per step of `run()`. |
| `PipelineContract` | the class comment of the same header | What is promised to a user: configure, start, stages, one cleanup, done. No mutex, no condition variable, no thread. |
| `EventDrivenFsm` | `state_machine_2/include/event_driven_fsm.hpp` | Queues, state, thread; one action per critical section, notifications and the join separate. |
| `HierarchicalFsm` | `state_machine_2/include/hierarchical_fsm.hpp` | Forest and table are chosen in `Init`; `process_event` with guards that hold or not, `reset`. |
| `DeviceObjects`, `DeviceControl` | `oo_state_machine.hpp`, `simple_fsm.hpp`, `examples/device_control.cpp` | The device written with state classes, and with a transition table (`DeviceInit`, `device_process_event`, ..., because the proofs and the menu extend it beside the other machines). |
| `OrderService` | `ddd/src` | Orders by id, the log of published events; one action per use case. |
| `Plant` | `ddd_multi_device/src/ddd` | The nodes and an explicit stack of nested calls: one step is one call of one node, up to the calls it makes. |
| `NodeCache` | `proto_opcua/parse_project/node_cache.cpp` | `put()` in three steps (version, clock, critical section), `remove`, `clear`, `setMaxSize`. |
| `PlcPoller` | `plc_poller.cpp`, reads and connection of `plc_client.cpp` | Groups, the holder of `groups_mtx_` and its place in the round, the thread's deadline in ticks, `start`, `stop`, configuration. |
| `HfsmEngine` | `state_machine/include/hfsm/core/machine.hpp` | Rules, current state, deferred and pending events; `handle`, `process_deferred` step by step, `reset`, registration. |
| `HfsmManagers` | `hfsm/core/history.hpp`, `region.hpp` | The maps of both managers, and what each call makes of them. |
| `HfsmExamples` | examples 01 to 05 | Five rule tables for the engine, the data their actions and callbacks write, their main programs; each machine also open to any event, reset or call of its managers. |
| `TypedStateId` | `machine.hpp` | The allocation of ids. |
| `DeviceModule` | `ddd_multi_device/.../module/device_module.cpp` | Type, state, reading and children of every module; one action per command. What `Plant` also has (`Init`, `startWork`, ...) is called `ModuleInit`, `moduleStartWork`, ... here, because the proofs extend both modules. |
| `OpcuaVariant` | conversions of `proto_opcua/opcua_client.cpp` | Native values and messages as type, field and elements; `variantToProto`, `protoToVariant`. A string is handed to the library as a C string and loses what follows a NUL (`Truncated`); an empty array passes for a scalar, and reading it ends the program (`Crash`). |
| `OpcuaClient` | the rest of that file | `client_` and `callbacks_`, the session with its items and notifications, the PLC's variables; one action per call, one per thing the PLC or the network does. |
| `OpcuaScenarios` | `proto_opcua/scenarios.cpp` | Each scenario as the list of its calls, the loop over browsed variables included (one read at a time), and two programs that make any call at any time. |

`MC...` modules give the constants their values. `PipelineProofs`, `FsmProofs`
(of `EventDrivenFsm`, `HierarchicalFsm` and the two devices), `OrderProofs`,
`NodeCacheProofs`, `HfsmProofs`, `MultiDeviceProofs` (of `Plant` and
`DeviceModule`), `PlcPollerProofs` and `OpcuaProofs` hold the theorems.
Compositions: `Pipeline` implements `PipelineContract`; `DeviceControl`
implements `DeviceObjects`; `HfsmExamples` composes engine, managers and
programs; `OpcuaScenarios` composes programs, client and PLC; `Plant` composes
nodes, router and controller; `PlcPoller` composes poller and client.
`MCHierarchicalFsm` is the menu of `state_machine_2/main.cpp` as far as it
starts machines without threads.

The PLC and the OPC UA library are outside the repository. They are modelled
from how the client uses them, and given every freedom its code has to cope
with: to refuse, to lose a connection or an answer, to choose ids, to notify
late. Of the library it is assumed that it hands `dataChangeHandler()` the
arguments the handler is written for, and that it drops the notifications of an
item once the item is removed.

Conventions. Operations that the code refuses without effect are disabled
actions, except where the answer itself is checked. Names that end in an
underscore phrase (`Notified_Nobody`, `stop_NoJoin`) are mutated forms of the
definition that follows them: plausible mistakes, each of which breaks a
property, which shows that the property depends on that code. Variables marked
"history" observe and never influence a step.

## 3. Runs

Passing runs:

| run | bounds | what it shows |
|---|---|---|
| `pipeline` | 2 callers, 2 stages | Cleanup runs exactly once per run, also if a stage and the cleanup throw; at most one stage starts after a stop; nobody sleeps without a wake-up to come; whoever returns and was not overtaken finds a stopped pipeline; refinement of the contract; start(), the destructor, and each stop() and wait() not overtaken by a restart return. |
| `event_fsm` | 2 clients, 2 states, 3 posts, 1 deferral | No event is lost or reordered, a stop drains the queue, posted events are handled while the thread runs, stop_async() returns. |
| `hierarchy` | all forests and tables of 4 states, one event; 20 errors of the device | Ancestors of the current state are entered and callbacks nest. The table-driven device implements the object-oriented one: successors, power levels and error counts agree. |
| `order` | 2 orders of 2 items | An announced total stands while the order is confirmed; the log tells each order's story. |
| `plant` | the plant of the fault scenario | Faults escalate exactly, pictures are true whenever no report is under way, readiness comes bottom-up and in the rounds the code allows, the line works as one; commands end. |
| `cache` | 2 writers, 3 keys, bound 1 or 2, 4 puts | Versions identify values, callback and contents agree, growth stops at the bound, the oldest goes. |
| `hfsm` | every table of 2 rules, 3 events | Order and conservation of events; entry and exit follow the state. |
| `poller` | 2 callers, 2 groups of 0 or 2 items | No read of a group after its removal or disabling returned, no thread after stop(), stop() returns, enabled groups are polled again and again. |
| `opcua` | 3 sessions, 4 subscriptions, 2 item ids, 2 changes by the PLC | All scenarios and any mixture of calls: values read back as they were written, for each writable type, strings without a NUL and arrays with elements; no callback after its unsubscription or for another session; recursive browsing finds exactly what is within its depth, also on a cycle. |
| `hfsm_examples` | payloads on both sides of each guard, 2 failed payments, 3 records of a history | All main programs and any sequence of events: goods move only for orders paid since they were placed, although the data survive reset(); a connection is closed only after a FIN went each way, whichever came first. |
| `device_module` | 3 modules, 3 links | Every composition, null pointers and cycles included: a module gets ready only after everything below it has been, one below itself never; after a fault the start-up is gone through again. |

One run is expected to end in a counterexample, a disagreement between the code
and what the repository says of it (`findings` quotes both):

| run | what the counterexample shows |
|---|---|
| `pipeline_failure_lost` | A restart between the two critical sections of wait() turns a failure into success. |

### Further disagreements

These configurations also end in a counterexample. They are kept beside the
runs: each property is stated, with the code behaviour it is about, in its
module. A configuration with several of them is run with `-continue`, which
makes TLC report all of them. Two properties have no configuration of their own
and are put into that of a run, in place of its invariants and without its
`SYMMETRY`: the table says "with".

| module, configuration | property | what the counterexample shows | what the repository says |
|---|---|---|---|
| `MCPipeline`, `MCPipelineRefuted.cfg` | `StopRequestStands` | A stop() just before a start() resets the flag waits for a whole run that nobody cancels. | |
| | `WaitReturns` | A waiter can miss the end of every run. | |
| `MCEventDrivenFsm`, `MCEventDrivenFsmServed.cfg` | `QueueIsServed` | Replayed deferred events wait in the queue of a sleeping thread. | |
| `MCHierarchicalFsm`, `MCHierarchicalFsmLeft.cfg` | `LeftAreExited` | Events handled by an ancestor skip the exit callbacks of the current state. | `state_machine_2/main.cpp:22` "event propagation, LCA transition resolution" |
| `MCOrderService`, `MCOrderServiceRefuted.cfg` | `TotalNotNegative` | Totals are not bounded and can become negative. | |
| | `SubmittedIsLocked` | A shipped, completed or cancelled order can be edited again: the lock tests for one status. | |
| `MCPlant`, `MCPlantRefuted.cfg` | `HardFaultStops` | A blocking fault leaves node and line in the step WORK. | `impact.hpp:9` "a hard hardware fault (BLOCKING) always stops production." |
| | `WarningDoesNotStop` | A warning of a non-critical device keeps the line from getting ready. | `impact.hpp:10` "a warning (ALARM) only stops production if the module is on the critical path" |
| | `ResetStartsOver` | A reset clears the fault and nothing else. | `ddd_multi_device/src/main.cpp:190` "现场复位后从上电重来" |
| `DeviceModule`, `DeviceModule.cfg` with `PROPERTY WorksOnReadyChildren` | `WorksOnReadyChildren` | A child fails after its parent got ready; the parent stays READY and starts to work. | `device_module.cpp:69` "READY 当且仅当 所有子模块就绪" (ready if and only if all children are) |
| `MCNodeCache`, `MCNodeCacheNeverOlder.cfg` | `NeverOlder` | A writer overtaken between stamp and lock stores the older value last. | |
| `MCHfsmEngine`, `MCHfsmEngine.cfg` with `INVARIANT ReplayResultIsTrue` | `ReplayResultIsTrue` | process_deferred() answers Handled for events it has deferred again. | `defer.hpp:31` "returns false if any unhandled", of the same loop |
| `MCHfsmExamples`, `MCHfsmExamplesRefuted.cfg` | `PoweredOnDescends` | The composite state PoweredOn is entered and no rule leads to a sub-state: heartbeats, faults and firmware events are all refused. | `05_device_manager.cpp:327` "PoweredOn -> Active/Idle on entry (handled via initial)", 458 "Should go to Active/Idle (history)" |
| | `ConnectedDescends` | The same for Connected in example 04. | `04_protocol_stack.cpp:154` "Connection established, entering sub-states" |
| | `DeepRecallsLast` | A deep history recalls the first child ever recorded; nothing shortens its stack. | |
| `TypedStateId`, `TypedStateId.cfg` | `UniqueIds` | Every type gets the same state id. | `machine.hpp:19` "Typed state ID provider (runtime unique ID per type)" |
| `MCPlcPoller`, `MCPlcPollerRefuted.cfg` | `IntervalRespected` | All groups are polled at the pace of the fastest. | |
| | `OfflineReadsFail` | Without a connection reads are counted as successes. | |
| `MCOpcua`, `MCOpcuaRefuted.cfg` | `WriteOkMeansStored` | A write the PLC refuses is reported as done: only the status of the service is looked at. | `scenarios.cpp`, scenario 20, prints "写入只读节点失败 (预期行为)" (write to a read-only node fails, as expected) |
| | `NotifiesItsSubscriber` | Two subscriptions whose items have the same id share one callback, the later one. | |
| | `HistoryAligned` | An entry without a value makes values and time stamps disagree from there on. | |
| | `StringsReadBackWhole` | A string with a NUL is written up to the NUL: `protoToVariant()` passes `c_str()` to `UA_String_fromChars()` (`opcua_client.cpp:205`, 246). | |
| | `ReadsReturn` | `variantToProto()` takes an array for one only if `arrayLength > 0` (line 78). An empty array is read as a scalar, through the address the library gives to empty arrays, in a read, a notification, a method's results or a history: the program ends. | |

### Bounds

Two pipeline callers are what the races need in which one waits or stops while
the other restarts or destroys (the theorems cover any number); two stages give
one to skip. Two posting clients and three events
exercise both queues of the event machine while its thread sleeps, works and
ends. Four states are enough for a forest with two trees, a chain of three and
two branches, and every table over it is tried. Two items and prices and
quantities below, at and above what is legal reach each refusal of the order
service; `Limit` stands for 2^63 and is small only in the overflow
configuration. The plant is the demo's. Three keys and a bound of one or two
make evictions happen in almost every behaviour; two writers are enough to
overtake. Two poll groups may share a name, which is where first-match and
all-match operations differ; time is counted up to the longest interval,
because no deadline lies further away. Three sessions of one client object with
two item ids make the PLC reuse ids within a session and across sessions while
handles of the old one are still kept; the PLC's nodes are those of the
scenarios, with a cycle and a child that has a string id. Two strings have a
NUL, one of them in front, and an array may be emptied by the PLC or by
a program. Three modules with
three links are enough for a chain, a diamond's half, a cycle of two or three
and a null child. An order that fails its payment twice has been through every
way back to Pending. Errors are counted only to make the
device finite. Symmetry of model values is used in the runs without liveness
properties (`hierarchy`, `cache`, `device_module`) and in no other.
Deadlock is not checked where a machine or program stops at the named bounds.

### Fairness

Weak fairness of code that has started: a worker or processing thread, a round
in progress, a caller in the middle of a call, nested calls of the plant, and
the clock. Nobody is assumed to call anything. Strong fairness is assumed only
of mutex acquisitions, where it is said: in `FairMutexSpec` of the pipeline,
which makes the counterexample stronger, and for the poll thread's lock, which
other callers may take again and again. Stages, cleanups and callbacks are
assumed to return.

## 4. Proofs

All are for arbitrary constants (any number of callers, stages, clients, nodes,
orders, items, keys, writers, groups, states, rules, events). The only
assumptions are the named ASSUMEs of the component modules, which TLC evaluates
in the runs. Most are about the types of the constants. Five say more:

* `PlantAssumption`: the plant is a tree. Nobody has two parents, the root has
  none, and every set of nodes that has the root and is closed under children is
  the set of all nodes. The last is how "everything hangs from the root" is used
  without induction over paths.
* `StringAssumption` of OpcuaVariant: what stands before the first NUL of a
  string has no NUL, and the empty string has none.
* `VocabularyAssumption` of OpcuaScenarios: the two open programs write a value
  in the field of its type, as the typed members of `OPCUAClient` do, arrays
  that are sequences (of any length), and browse to depths that are ints, as the
  parameter is.
* `ForestAssumption` of HierarchicalFsm: parents form no cycle. It is what makes
  the loop of path_to_root() return, and is stated as it is used: every set of
  states with parents, if it has any, has one whose parent is outside.
* `ExamplesAssumption` of HfsmExamples: only the traffic light has rules for any
  source state. It is a fact about the tables, and the provers cannot compute
  it.

One theorem has a hypothesis of its own: `InTime` is about plants whose plans
fit into the rounds of runToReady() (`PlansFit`). TLC evaluates it for the
demo's plant (`DemoPlansFit` of MCPlant).

The arguments:

* `PipelineProofs`: seven theorems from one inductive invariant. The safety
  properties are not inductive alone: the invariant adds who holds `m_`
  (`MutexInv`), that start() joins only a worker that has published
  (`JoinInv`), what `done_` says of the worker's place (`DoneInv`), the bounds
  of the loop (`LoopInv`), that after a late stage the flag is seen
  (`LateInv`), and that a pipeline under destruction has one caller left
  (`AliveInv`, `DtorInv`). `Refinement` maps each step to a step of
  `PipelineContract` or a stutter.
* `FsmProofs`, asynchronous machine: type correctness, `NothingLost`, `PostingOrder` and
  `StopDrains`. A replay puts events into the queue that were taken out of it
  before (`DeferredBegun`), so only the events that are there for the first time
  stand in the order of posting (`FreshOrder`); with what was posted before the
  event in hand (`CurrentOrder`) and before a discarded one (`DroppedOrder`) done
  with or taken, the order is kept by every step. The drain needs that a running
  machine has a thread that has not left its loop (`RunningHasThread`): the
  thread alone decides when to end, and it ends on an empty queue only. The proof
  corrected the type invariant: a second start_async() ends the program also
  while an event is in hand.
* `FsmProofs`, hierarchy: ancestors are entered and callbacks nest, for every
  forest and every table. `Path` is a recursive function, so the proof first
  shows what it is, by induction over the forest: a set of states that holds
  each member's parent too is empty (`ForestInduction`), such as the set of
  those without a path, or with two.
  From there on a path is a sequence each of whose elements is the parent of
  the one before, and `UpTo` gives the prefix before the first common
  ancestor. Exits are a prefix of the handler's path and entries a prefix of
  the target's, read from outside in; the state after the prefix is inside and
  is not exited, which is all that nesting needs (`EntersBelow`). The
  invariant (`FsmInv`) adds only that the parents stay a forest and that the
  table's targets are states.
* `FsmProofs`, devices: the table-driven device implements the one with state
  classes. Every row of the table is a class's answer to the event, with the
  same power level and error count; an event without a row changes nothing in
  either.
* `OrderProofs`: type correctness (all items valid), the announced total, the
  story told by the events, and forward movement. The use cases are first
  shown to be item changes or status moves; nothing but being a function of the
  items is assumed of total().
* `NodeCacheProofs`: type correctness, unique versions, truth of the callback,
  eviction by age, and growth below the bound. Uniqueness needs the writers
  between their version and the lock in the invariant; growth needs that the
  contents are finite, so that one key more or less is one in cardinality.
* `HfsmProofs`: of the engine, type correctness, order and conservation of
  events, callbacks that follow the state, reactions that stand. A step is shown
  to leave the queue alone, to add at its end, to take one out or to clear it.
  Of the examples, that goods are paid for and connections close both ways: a
  lemma for each rule table lists the moves it allows (`OrderMoves`, `TcpMoves`),
  and the invariant says for the states on the way what was paid or sent by
  then.
* `MultiDeviceProofs`, modules: readiness is grounded, and a fault means
  start-up. `ReadyFromTheLeaves` speaks of everything below a module, which no
  single step sees. The invariant gives every module that has been ready a set
  of modules, itself not among them, that were ready before, hold its operators
  and are closed under "operators of" (`Grounded`). When a module gets ready,
  the set of all that were ready serves; and a closed set contains all that is
  below, which is how the closure is used without induction. That the
  composition is fixed by then (`~driven => wasReady = {}`) is part of the
  invariant.
* `MultiDeviceProofs`, plant: exact escalation, true pictures, readiness from
  the leaves up and the line that works as one, in any tree. All but
  `ReadyBottomUp` speak of moments without calls, so the invariant has to say
  what holds in the middle of nested calls. At most one report is under way, and
  it is the next to run (`StackInv`): a node reports as its last act, before
  any other call goes on. Every node has told what it is, except a new step
  whose recomputation is still on the stack (`ToldInv`), and every parent
  believes what its child told last, except of the child reporting now
  (`HeardInv`). Readiness is never taken back, so an old picture of it is safe
  (`OrderInv`). Faults come and go between commands only, so pictures of
  `blocking` are true during one (`BlockInv`); hence a child's guard admits what
  its parent's admitted. Where a child does not work as its parent, its call is
  on the stack (`WorkInv`). With an empty stack the exceptions are gone, and the
  closure form of the tree carries equality from the root to every node.
* `MultiDeviceProofs`, runToReady(): if the plans fit, there is a timetable
  (`Due`) that gives each node a round after those of its children, with time
  for its own plan. After each round every node is as far as the timetable says
  (`OnTime`); in mid-round a node may be one round behind if a pending
  advance() will still reach it (`TimeInv`, with `Under` for everything below
  the node of that call). The step to prove is that of promoteSelf(): its
  children are ready by then, because they were due before.
* `PlcPollerProofs`: type correctness, `SilencedStaysSilent` and `StopIsFinal`.
  Only the holder of `groups_mtx_` is inside a round, and configuration needs
  the mutex (`HolderInv`, `RoundInv`); no silenced name belongs to an enabled
  group (`SilentInv`), which is why removeGroup() has to take all groups of the
  name; and what is polled is an enabled group of the vector as it is now. A
  running poller has a thread that has not ended, and only the owner's join
  removes one (`ThreadInv`).
* `OpcuaProofs`: which callbacks are called. The invariant says that a callback
  is found under the id of its own handle only (`HandleOwns`), so that erasing
  by item id removes it although ids repeat; that no closed callback is left
  (`NoneClosed`); and that the callback under the id of every present item or
  notification is one of the present session (`ItemsAreServed`), which is why
  it does no harm that `callbacks_` outlives sessions. Every step is first
  shown to be quiet, to lose the session, or to be one of five others. That
  values read back (`ValuesReadBack`) rests on the two conversions being inverse
  tables, field by field, on every value in the field of its own type, and on
  the programs, call by call, writing no other. It is a theorem about strings
  without a NUL and arrays with elements (`Whole`); the programs and the PLC may
  use others too, and in the model as in the code those are cut, or end the
  program.
* `OpcuaProofs`, browsing: browseRecursive() finds exactly what is within its
  depth, for every PLC and every depth. Induction and recursion over the depth
  are proved about sets and functions (`Induction`, `Recursion`), which the
  provers can instantiate. The code goes depth first and the reference
  definition level by level, so a path is taken apart at its first reference on
  one side and at its last on the other; `NearEnd` shows that both count the
  same paths. A child with a string id has lost it and nothing is found below
  it (`FoundNull`); a root with a string id is browsed, which the proof
  corrected in the reference definition.

Only model-checked: liveness, and everything that depends on ENABLED. Every
invariant, action property and refinement of the passing runs is also a
theorem. What total() computes is not proved: the theorems about orders hold
for any function of the items. The other way round, type correctness of Pipeline, EventDrivenFsm,
OrderService, NodeCache, HfsmEngine, Plant and PlcPoller, that a stop is honoured at the
next boundary (`StopHonoured`), that results belong to the run (`FailureOfItsRun`) and that an abort has a cause
(`AbortedIsTrue`) in Pipeline, that status moves forward (`OnlyForward`) in
OrderService and that reactions stand (`ReactionStands`) in HfsmEngine are
proved for every value of the constants and in no run.

## 5. Not modelled

Rendering, logging and demo programs; decoding of OPC UA memory layouts
(`StructParser`, `data_type_demo.cpp`), which a model would only repeat;
type-level code of hfsm and its deferred queue, which the engine does not use;
`ThreadPool`, which is never compiled; the event bus of `ddd_multi_device`,
whose only subscriber prints; the programs of `crash_cases`, which promise
nothing; `auto` and `ccache`. Of `OPCUAClient`: the library's memory
management, and calls before connect(), which would dereference a null
pointer and which no scenario makes. Of the examples: counters and fields that
are only printed. Weak memory is not modelled: every atomic
is taken to be sequentially consistent, which is the order the code asks for
except in `pipeline.hpp` (lines 108, 111, 116, 138, 142, 155, 157 and 167:
relaxed, acquire and release). Nothing is lost there: no property concludes from
the value of `stop_flag_` or `current_` to other memory, and all the rest of the
pipeline's state is read and written under `m_`. Misuse that the code leaves undefined
and no caller commits (two threads that start and stop one poller, a cache bound
of 0, a cycle of parents, calls from inside a callback) is left out.

Two hazards have no property because the repository does not say what is right:
`isConnected()` stays true after a lost connection and after disconnect(), so
that the reconnecting loop of scenario 20 never reconnects (`StepRetry`); and a
`subscribe()` whose second request fails leaves its subscription with the PLC.

## 6. Plan

1. Writing and browsing of `PlcClient`; `OrderPricingService` as an operator
   against a reference sum; the event bus of `ddd_multi_device`.
2. `SimpleStateMachine` with callbacks and removal; the deferred queue of hfsm;
   `crash_cases` 09 and 10.
