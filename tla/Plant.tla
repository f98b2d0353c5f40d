-------------------------------- MODULE Plant --------------------------------
(***************************************************************************)
(* ddd_multi_device/src/ddd: a hierarchy of HierNodes (process/node.cpp)   *)
(* driven by the PlantController through RpcRouter.  Commands go down the  *)
(* tree by nested calls, status reports go up by nested calls, and a node  *)
(* in the middle of a command is re-entered by its children's reports.     *)
(* `stack' holds the calls under way, the next to run first: one step runs *)
(* one call of one node up to the calls that it makes.                     *)
(***************************************************************************)
EXTENDS Naturals, Sequences, SequencesExt

CONSTANTS Nodes, Root,
          Children,   \* childIds_: for each node, a sequence of nodes
          Plan,       \* plan_: for each node, a sequence of steps
          Critical,   \* the nodes with criticalToJob_
          Fragile,    \* the nodes that faults are injected into
          MaxRounds   \* the bound in runToReady()

ASSUME PlantAssumption ==
    /\ Root \in Nodes
    /\ Children \in [Nodes -> Seq(Nodes)]
    /\ Plan \in [Nodes -> Seq(STRING)]
    /\ \A S \in SUBSET Nodes :  \* everything hangs from the root
          Root \in S /\ (\A p \in S : Range(Children[p]) \subseteq S) => S = Nodes
    /\ \A p, q \in Nodes :
          Range(Children[p]) \cap Range(Children[q]) # {} => p = q
    /\ Root \notin UNION {Range(Children[p]) : p \in Nodes}
    /\ Critical \subseteq Nodes /\ Fragile \subseteq Nodes
    /\ MaxRounds \in Nat

VARIABLES
    node,   \* the HierNodes
    stack,  \* calls under way
    host,   \* what the PlantController was last told about the root
    loop    \* runToReady(): the rounds done so far; a sequence of at most one

vars == <<node, stack, host, loop>>

FaultLevel == {"NONE", "ALARM", "BLOCKING"}
Kids(n)    == Range(Children[n])
Parent(n)  == CHOOSE p \in Nodes : n \in Kids(p)
NoReport   == [none |-> TRUE]
PlanSteps  == UNION {Range(Plan[n]) : n \in Nodes}
Steps      == PlanSteps \cup {"UNKNOWN", "READY", "WORK", "DONE"}
Report     == [step : Steps, fault : FaultLevel, ready : BOOLEAN, blocking : BOOLEAN]
HierNode(n) ==
    [pos : Nat, step : Steps, ready : BOOLEAN, working : BOOLEAN,
     fault : FaultLevel, blocking : BOOLEAN,
     childReady : [Kids(n) -> BOOLEAN], childBlock : [Kids(n) -> BOOLEAN],
     last : Report \cup {NoReport}]
CallFrame   == [op : {"advance", "start", "finish", "recompute"}, node : Nodes]
ReportFrame == [op : {"report"}, node : Nodes, report : Report]

Init ==
    /\ node = [n \in Nodes |->
                 [pos |-> 0, step |-> "UNKNOWN", ready |-> FALSE,
                  working |-> FALSE, fault |-> "NONE", blocking |-> FALSE,
                  childReady |-> [c \in Kids(n) |-> FALSE],
                  childBlock |-> [c \in Kids(n) |-> FALSE],
                  last |-> NoReport]]
    /\ stack = <<>> /\ host = NoReport /\ loop = <<>>

-----------------------------------------------------------------------------
decideProductionImpact(fault, critical) ==
    fault = "BLOCKING" \/ (fault = "ALARM" /\ critical)

worstOf(a, b) ==
    IF "BLOCKING" \in {a, b} THEN "BLOCKING"
    ELSE IF "ALARM" \in {a, b} THEN "ALARM" ELSE "NONE"

allChildrenReady_Any(r) ==
    DOMAIN r.childReady = {} \/ \E c \in DOMAIN r.childReady : r.childReady[c]

allChildrenReady(r) == \A c \in DOMAIN r.childReady : r.childReady[c]

Blocks(n, r) ==
    \/ decideProductionImpact(r.fault, n \in Critical)
    \/ \E c \in Kids(n) : r.childBlock[c]

buildReport(r) ==
    [step |-> r.step, fault |-> r.fault, ready |-> r.ready, blocking |-> r.blocking]

Same_FaultForgotten(a, b) == a # NoReport /\ a.step = b.step /\ a.ready = b.ready

Same_ReadyForgotten(a, b) ==
    a # NoReport /\ a.fault = b.fault /\ a.blocking = b.blocking

(* The signature of publish(): reports equal in it are sent once. *)
Same(a, b) == a = b

Call(op, n) == [op |-> op, node |-> n]
CallEach_First(op, n) ==
    [k \in DOMAIN Children[n] \cap {1} |-> Call(op, Children[n][k])]

CallEach(op, n) == [k \in DOMAIN Children[n] |-> Call(op, Children[n][k])]

(* recomputeAndReport() as the last act of a call of node n, whose fields  *)
(* are now those of r; the calls of rest come afterwards.                  *)
recomputeAndReport(n, r, rest) ==
    LET s == [r EXCEPT !.blocking = Blocks(n, r)]
        m == buildReport(s)
    IN  IF Same(s.last, m)
        THEN node' = [node EXCEPT ![n] = s] /\ stack' = rest
        ELSE /\ node' = [node EXCEPT ![n] = [s EXCEPT !.last = m]]
             /\ stack' = <<[op |-> "report", node |-> n, report |-> m]>> \o rest

Top(op, n) == stack # <<>> /\ Head(stack).op = op /\ Head(stack).node = n

-----------------------------------------------------------------------------
(* advance(). *)

Halted(r) == r.fault # "NONE" \/ r.blocking

AdvanceHalts(n) ==
    /\ Top("advance", n) /\ Halted(node[n])
    /\ stack' = Tail(stack)
    /\ UNCHANGED <<node, host, loop>>

AdvanceChildren(n) ==
    /\ Top("advance", n) /\ ~Halted(node[n])
    /\ ~allChildrenReady(node[n])
    /\ stack' = CallEach("advance", n) \o Tail(stack)
    /\ UNCHANGED <<node, host, loop>>

promoteSelf_Unbounded(n, r) == [r EXCEPT !.pos = @ + 1]

promoteSelf(n, r) ==
    IF r.pos < Len(Plan[n])
    THEN [r EXCEPT !.pos = @ + 1, !.step = Plan[n][r.pos + 1]]
    ELSE r

AdvanceSelf(n) ==
    /\ Top("advance", n) /\ ~Halted(node[n])
    /\ allChildrenReady(node[n])
    /\ LET r == promoteSelf(n, node[n]) IN
       recomputeAndReport(n,
           IF r.pos >= Len(Plan[n]) /\ ~r.ready
           THEN [r EXCEPT !.ready = TRUE, !.step = "READY"] ELSE r,
           Tail(stack))
    /\ UNCHANGED <<host, loop>>

(* startWork(): the children are started before the node reports. *)
startWork(n) ==
    /\ Top("start", n)
    /\ IF ~node[n].ready \/ node[n].blocking
       THEN stack' = Tail(stack) /\ UNCHANGED node
       ELSE /\ node' = [node EXCEPT ![n].working = TRUE, ![n].step = "WORK"]
            /\ stack' = CallEach("start", n) \o <<Call("recompute", n)>> \o Tail(stack)
    /\ UNCHANGED <<host, loop>>

finishWork_NotPassedOn(n) ==
    /\ Top("finish", n)
    /\ IF ~node[n].working
       THEN stack' = Tail(stack) /\ UNCHANGED node
       ELSE /\ node' = [node EXCEPT ![n].working = FALSE, ![n].step = "DONE"]
            /\ stack' = <<Call("recompute", n)>> \o Tail(stack)
    /\ UNCHANGED <<host, loop>>

finishWork(n) ==
    /\ Top("finish", n)
    /\ IF ~node[n].working
       THEN stack' = Tail(stack) /\ UNCHANGED node
       ELSE /\ node' = [node EXCEPT ![n].working = FALSE, ![n].step = "DONE"]
            /\ stack' = CallEach("finish", n) \o <<Call("recompute", n)>> \o Tail(stack)
    /\ UNCHANGED <<host, loop>>

(* The end of startWork() and finishWork(). *)
Recompute(n) ==
    /\ Top("recompute", n)
    /\ recomputeAndReport(n, node[n], Tail(stack))
    /\ UNCHANGED <<host, loop>>

(* up_->report(): to the parent, which aggregates and reports in turn, or  *)
(* from the root to the PlantController.                                   *)
report(n) ==
    /\ Top("report", n)
    /\ LET m == Head(stack).report IN
       IF n = Root
       THEN host' = m /\ stack' = Tail(stack) /\ UNCHANGED node
       ELSE LET p == Parent(n) IN
            /\ recomputeAndReport(p,
                   [node[p] EXCEPT !.childReady[n] = m.ready,
                                   !.childBlock[n] = m.blocking],
                   Tail(stack))
            /\ UNCHANGED host
    /\ UNCHANGED loop

-----------------------------------------------------------------------------
(* The PlantController: one command at a time. *)

Quiet == stack = <<>>
Idle  == Quiet /\ loop = <<>>

runToReady ==
    /\ Idle
    /\ loop' = <<0>>
    /\ UNCHANGED <<node, stack, host>>

Round_Uncounted ==
    /\ Quiet /\ loop # <<>>
    /\ ~node[Root].ready
    /\ stack' = <<Call("advance", Root)>>
    /\ UNCHANGED <<node, host, loop>>

Round ==
    /\ Quiet /\ loop # <<>>
    /\ ~node[Root].ready /\ loop[1] < MaxRounds
    /\ stack' = <<Call("advance", Root)>>
    /\ loop' = <<loop[1] + 1>>
    /\ UNCHANGED <<node, host>>

LoopEnd ==
    /\ Quiet /\ loop # <<>>
    /\ node[Root].ready \/ loop[1] = MaxRounds
    /\ loop' = <<>>
    /\ UNCHANGED <<node, stack, host>>

(* startWork(), finishWork(), or a single advance() of the root: a public  *)
(* operation like the others, although main.cpp leaves it to runToReady(). *)
Command(op) ==
    /\ Idle
    /\ stack' = <<Call(op, Root)>>
    /\ UNCHANGED <<node, host, loop>>

fail(n, sev) ==
    /\ Idle
    /\ recomputeAndReport(n, [node[n] EXCEPT !.fault = worstOf(@, sev)], <<>>)
    /\ UNCHANGED <<host, loop>>

clearFault(n) ==
    /\ Idle /\ node[n].fault # "NONE"
    /\ recomputeAndReport(n, [node[n] EXCEPT !.fault = "NONE"], <<>>)
    /\ UNCHANGED <<host, loop>>

-----------------------------------------------------------------------------
Step ==
    \/ Round \/ LoopEnd
    \/ \E n \in Nodes :
        \/ AdvanceHalts(n) \/ AdvanceChildren(n) \/ AdvanceSelf(n)
        \/ startWork(n) \/ finishWork(n) \/ Recompute(n) \/ report(n)

Next ==
    \/ Step
    \/ runToReady
    \/ \E op \in {"advance", "start", "finish"} : Command(op)
    \/ \E n \in Fragile :
        \/ \E sev \in {"ALARM", "BLOCKING"} : fail(n, sev)
        \/ clearFault(n)

Spec == Init /\ [][Next]_vars

(* A call that has been made runs on. *)
FairSpec == Spec /\ WF_vars(Step)

-----------------------------------------------------------------------------
(* Safety. *)

TypeOK ==
    /\ DOMAIN node = Nodes /\ \A n \in Nodes : node[n] \in HierNode(n) /\ node[n].pos <= Len(Plan[n])
    /\ stack \in Seq(CallFrame \cup ReportFrame)
    /\ host \in Report \cup {NoReport}
    /\ loop \in {<<>>} \cup {<<k>> : k \in 0..MaxRounds}

Affected(n) == decideProductionImpact(node[n].fault, n \in Critical)

(* Escalation: whenever no call is under way a node reports production     *)
(* affected exactly if it or a node below it is, and so does what the host *)
(* was last told; duplicate suppression never hides a fault or its end.    *)
EscalatesExactly ==
    Quiet =>
        /\ \A n \in Nodes :
             node[n].blocking <=> Affected(n) \/ \E c \in Kids(n) : node[c].blocking
        /\ IF host = NoReport THEN \A n \in Nodes : ~Affected(n)
           ELSE host.blocking = node[Root].blocking /\ host.fault = node[Root].fault

(* What a parent, and the host, believe of the progress below is true,     *)
(* although a node in the middle of a command is re-entered by reports and *)
(* equal reports are sent only once.                                       *)
PictureIsTrue ==
    Quiet =>
        /\ \A n \in Nodes : \A c \in Kids(n) :
             node[n].childReady[c] = node[c].ready
        /\ host # NoReport =>
             host.ready = node[Root].ready /\ host.step = node[Root].step

(* Readiness is reached from the leaves up, also in mid-call: no node is   *)
(* ready before every child is and its own plan is done.                   *)
ReadyBottomUp ==
    \A n \in Nodes : node[n].ready =>
        node[n].pos = Len(Plan[n]) /\ \A c \in Kids(n) : node[c].ready

(* The line works as a whole: what the root's guard admits or refuses, the *)
(* guard of every node below admits or refuses too.                        *)
WorksAsOne == Quiet => \A n \in Nodes : node[n].working = node[Root].working

(* The plans fit into the rounds of runToReady(): every node can be given  *)
(* a round in which it gets ready, late enough for its own plan to begin   *)
(* when all its children are ready; promoteSelf() takes a round per step,  *)
(* and an empty plan takes one.                                            *)
Fits(due) ==
    \A n \in Nodes :
        /\ due[n] >= Len(Plan[n])
        /\ \A c \in Kids(n) : due[n] > due[c] /\ due[n] >= due[c] + Len(Plan[n])

PlansFit == \E due \in [Nodes -> 1..MaxRounds] : Fits(due)

(* A plant without faults is ready when runToReady() gives up counting. *)
ReadyInTime ==
    Quiet /\ loop = <<MaxRounds>> /\ (\A n \in Nodes : node[n].fault = "NONE")
        => node[Root].ready

-----------------------------------------------------------------------------
(* Liveness. *)

(* Every command returns: nested commands and reports come to an end and   *)
(* runToReady() leaves its loop, faults or not.                            *)
CommandsReturn == ~Idle ~> Idle

-----------------------------------------------------------------------------
(* What the repository says and the code does not do. *)

(* "a hard hardware fault (BLOCKING) always stops production" *)
HardFaultStops ==
    Quiet => \A n \in Nodes : node[n].fault = "BLOCKING" => ~node[n].working

(* "a warning only stops production if the module is on the critical path":*)
(* a plant whose production is not affected gets ready.                    *)
WarningDoesNotStop ==
    Quiet /\ loop = <<MaxRounds>> => node[Root].ready \/ node[Root].blocking

(* "after the reset on site, start again from power-on": a node whose hard *)
(* fault is cleared is no longer ready.                                    *)
ResetStartsOver ==
    [][\A n \in Nodes :
        node[n].fault = "BLOCKING" /\ node'[n].fault = "NONE" => ~node'[n].ready]_vars
=============================================================================
