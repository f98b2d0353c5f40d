-------------------------- MODULE MultiDeviceProofs --------------------------
(***************************************************************************)
(* Theorems about ddd_multi_device.                                        *)
(*                                                                         *)
(* DeviceModule, for any modules, any composition of them and any number   *)
(* of links: the readiness of a composite module rests on the readiness of *)
(* everything below it, and a fault is followed by a whole start-up.       *)
(*                                                                         *)
(* Plant, for every tree of nodes with any plans: faults escalate exactly, *)
(* the pictures that parents and the host have are true whenever no call   *)
(* is under way, nobody is ready before its children, the line works as a  *)
(* whole, and a plant whose plans fit the number of rounds is ready when   *)
(* runToReady() stops counting.                                            *)
(***************************************************************************)
EXTENDS DeviceModule, Plant, WellFoundedInduction, TLAPS

-----------------------------------------------------------------------------
(* DeviceModule. *)

(* Every module that has been ready stands on a set of modules that were   *)
(* ready before it: one that holds its operators and, with each, theirs.   *)
Grounded(m) ==
    \E S \in SUBSET (wasReady \ {m}) : Operators(m) \subseteq S /\ Closed(S)

(* A module's history follows its state. *)
Follows(m) ==
    /\ state_[m] = "READY" => m \in wasReady
    /\ state_[m] = "PREHEATING" => "PREHEATING" \in done[m]
    /\ state_[m] \in {"READY", "WORKING", "COMPLETED"} => done[m] = StartUp

(* The composition may still change only while nothing has been ready. *)
ModuleInv ==
    /\ ModuleTypeOK
    /\ ~driven => wasReady = {}
    /\ \A m \in Modules : Follows(m)
    /\ \A m \in wasReady : Grounded(m)

(* The initial state satisfies the invariant. *)
LEMMA ModuleInitInv == ModuleInit => ModuleInv
  BY DEF ModuleInit, ModuleInv, ModuleTypeOK, Follows, ModuleState, SensorState, StartUp

(* A step that leaves types and children alone leaves all compositions. *)
LEMMA SameOperators ==
  ASSUME UNCHANGED <<type_, children_>>
  PROVE  /\ \A m : Operators(m)' = Operators(m)
         /\ \A S : Closed(S)' <=> Closed(S)
  BY DEF Operators, Closed

(* What a module was grounded on before a step that only adds to wasReady, *)
(* it is grounded on after it.                                             *)
LEMMA GroundedStays ==
  ASSUME NEW m, Grounded(m), wasReady \subseteq wasReady', UNCHANGED <<type_, children_>>
  PROVE  Grounded(m)'
  <1>1. PICK S \in SUBSET (wasReady \ {m}) : Operators(m) \subseteq S /\ Closed(S)
    BY DEF Grounded
  <1>2. Operators(m)' \subseteq S /\ Closed(S)'
    BY <1>1, SameOperators
  <1>3. S \in SUBSET (wasReady' \ {m})
    BY <1>1
  <1> QED BY <1>2, <1>3 DEF Grounded

(* All modules that were ready hold only operators that were ready. *)
LEMMA WasReadyClosed ==
  ASSUME ModuleInv
  PROVE  Closed(wasReady)
  <1> SUFFICES ASSUME NEW a \in wasReady PROVE Operators(a) \subseteq wasReady
    BY DEF Closed
  <1>1. Grounded(a)
    BY DEF ModuleInv
  <1> QED BY <1>1 DEF Grounded

(* Accepted commands other than preheatDone() add nothing to wasReady. *)
LEMMA EnterInv ==
  ASSUME ModuleInv, NEW m \in Modules, NEW s \in ModuleState \ {"READY"}, Enter(m, s),
         s \in {"WORKING", "COMPLETED"} => done[m] = StartUp
  PROVE  ModuleInv'
  <1>1. ModuleTypeOK'
    BY DEF ModuleInv, ModuleTypeOK, Enter, StartUp, ModuleState
  <1>2. wasReady' = wasReady /\ UNCHANGED <<type_, children_>> /\ driven'
    BY DEF Enter
  <1>3. ASSUME NEW k \in Modules PROVE Follows(k)'
    <2>1. Follows(k)
      BY DEF ModuleInv
    <2> QED BY <2>1, <1>2 DEF ModuleInv, ModuleTypeOK, Enter, Follows, StartUp, ModuleState
  <1>4. \A k \in wasReady' : Grounded(k)'
    BY <1>2, GroundedStays DEF ModuleInv
  <1> QED BY <1>1, <1>2, <1>3, <1>4 DEF ModuleInv

(* preheatDone() finds all operators of m among the modules that were      *)
(* ready, a set that is closed; m joins it, unless it was a member before. *)
LEMMA ReadyInv ==
  ASSUME ModuleInv, NEW m \in Modules, preheatDone(m)
  PROVE  ModuleInv'
  <1>1. ModuleTypeOK'
    BY DEF ModuleInv, ModuleTypeOK, preheatDone, Enter, StartUp, ModuleState
  <1>2. wasReady' = wasReady \cup {m} /\ UNCHANGED <<type_, children_>> /\ driven'
    BY DEF preheatDone, Enter
  <1>3. ASSUME NEW k \in Modules PROVE Follows(k)'
    <2>1. Follows(k)
      BY DEF ModuleInv
    <2> QED BY <2>1, <1>2 DEF ModuleInv, ModuleTypeOK, preheatDone, Enter, Follows, StartUp, ModuleState
  <1>4. ASSUME NEW k \in wasReady' PROVE Grounded(k)'
    <2>1. CASE k \in wasReady
      BY <2>1, <1>2, GroundedStays DEF ModuleInv
    <2>2. CASE k \notin wasReady
      <3>1. k = m
        BY <2>2, <1>2
      <3>2. Operators(m) \subseteq Modules
        BY DEF ModuleInv, ModuleTypeOK, Operators
      <3>3. Operators(m) \subseteq wasReady
        BY <3>2 DEF preheatDone, canReachReady, ModuleInv, Follows
      <3>4. Closed(wasReady)
        BY WasReadyClosed
      <3>. PICK S : S = wasReady
        OBVIOUS
      <3>5. Operators(k)' \subseteq S /\ Closed(S)'
        BY <3>1, <3>3, <3>4, <1>2, SameOperators
      <3>6. S \in SUBSET (wasReady' \ {k})
        BY <2>2, <1>2
      <3> QED BY <3>5, <3>6 DEF Grounded
    <2> QED BY <2>1, <2>2
  <1> QED BY <1>1, <1>2, <1>3, <1>4 DEF ModuleInv

(* Every step keeps the invariant. *)
LEMMA ModuleNextInv == ModuleInv /\ [ModuleNext]_moduleVars => ModuleInv'
  <1> SUFFICES ASSUME ModuleInv, [ModuleNext]_moduleVars PROVE ModuleInv'
    OBVIOUS
  <1> USE DEF ModuleState
  <1>1. CASE Assemble
    <2>1. wasReady = {} /\ UNCHANGED <<wasReady, state_, done, driven>>
      BY <1>1 DEF Assemble, addChild, ModuleInv
    <2>2. ModuleTypeOK'
      BY <1>1 DEF ModuleInv, ModuleTypeOK, Assemble, addChild
    <2> QED BY <2>1, <2>2 DEF ModuleInv, Follows
  <1>2. CASE Sense
    <2>1. UNCHANGED <<wasReady, state_, done, type_, children_>> /\ driven'
      BY <1>2 DEF Sense, refreshSensor
    <2>2. ModuleTypeOK'
      BY <1>2 DEF ModuleInv, ModuleTypeOK, Sense, refreshSensor
    <2>3. \A k \in wasReady' : Grounded(k)'
      BY <2>1, GroundedStays DEF ModuleInv
    <2> QED BY <2>1, <2>2, <2>3 DEF ModuleInv, Follows
  <1>3. ASSUME NEW m \in Modules, powerOn(m) PROVE ModuleInv'
    BY <1>3, EnterInv DEF powerOn
  <1>4. ASSUME NEW m \in Modules, preheatDone(m) PROVE ModuleInv'
    BY <1>4, ReadyInv
  <1>5. ASSUME NEW m \in Modules, moduleStartWork(m) PROVE ModuleInv'
    BY <1>5, EnterInv DEF moduleStartWork, ModuleInv, Follows
  <1>6. ASSUME NEW m \in Modules, moduleFinishWork(m) PROVE ModuleInv'
    BY <1>6, EnterInv DEF moduleFinishWork, ModuleInv, Follows
  <1>7. ASSUME NEW m \in Modules, setFault(m) PROVE ModuleInv'
    BY <1>7, EnterInv DEF setFault
  <1>8. ASSUME NEW m \in Modules, reset(m) PROVE ModuleInv'
    BY <1>8, EnterInv DEF reset
  <1>9. CASE UNCHANGED moduleVars
    <2>1. UNCHANGED <<wasReady, state_, done, type_, children_, driven>>
      BY <1>9 DEF moduleVars
    <2>2. ModuleTypeOK'
      BY <1>9 DEF ModuleInv, ModuleTypeOK, moduleVars
    <2>3. \A k \in wasReady' : Grounded(k)'
      BY <2>1, GroundedStays DEF ModuleInv
    <2> QED BY <2>1, <2>2, <2>3 DEF ModuleInv, Follows
  <1> QED BY <1>1, <1>2, <1>3, <1>4, <1>5, <1>6, <1>7, <1>8, <1>9 DEF ModuleNext

(* The invariant holds throughout. *)
THEOREM ModuleInvariance == ModuleSpec => []ModuleInv
  BY ModuleInitInv, ModuleNextInv, PTL DEF ModuleSpec

(* What a module is grounded on holds everything below it, and not the     *)
(* module itself.                                                          *)
LEMMA GroundedBelow ==
  ASSUME ModuleInv
  PROVE  ReadyFromTheLeaves
  <1> SUFFICES ASSUME NEW m \in wasReady, NEW d \in Below(m) PROVE d \in wasReady \ {m}
    BY DEF ReadyFromTheLeaves
  <1>1. PICK S \in SUBSET (wasReady \ {m}) : Operators(m) \subseteq S /\ Closed(S)
    BY DEF ModuleInv, Grounded
  <1>2. S \in SUBSET Modules
    BY <1>1 DEF ModuleInv, ModuleTypeOK
  <1>3. d \in S
    BY <1>1, <1>2 DEF Below
  <1> QED BY <1>1, <1>3

(* A composite module has been ready only if everything below it has, and  *)
(* modules that wait for each other never are: preheatDone().              *)
THEOREM ReadinessIsGrounded == ModuleSpec => []ReadyFromTheLeaves
  BY ModuleInvariance, GroundedBelow, PTL

(* After setFault() and reset() a module works only after powerOn() and    *)
(* preheatDone().                                                          *)
THEOREM FaultMeansStartUp == ModuleSpec => []FaultStartsOver
  <1>1. ModuleInv => FaultStartsOver
    BY DEF ModuleInv, Follows, FaultStartsOver
  <1> QED BY <1>1, ModuleInvariance, PTL

-----------------------------------------------------------------------------
(* Plant: the inductive invariant.  A report is handed on at once, so it is *)
(* always the next call to run, and there is one at most: apart from its    *)
(* sender and the sender's parent, all parents know what their children     *)
(* last told.                                                               *)

Reporting(n) == Top("report", n)
Pending(op, n) == Call(op, n) \in Range(stack)

(* Reports do not wait behind other calls.                                 *)
StackInv ==
    stack # <<>> =>
        /\ \A f \in Range(Tail(stack)) : f \in CallFrame
        /\ Head(stack) \in ReportFrame => Head(stack).report = node[Head(stack).node].last

(* The flag is up to date, and a node has told what it is; of its step it  *)
(* tells at the end of startWork() or finishWork() only.                   *)
ToldInv ==
    \A n \in Nodes :
        /\ node[n].blocking = Blocks(n, node[n])
        /\ node[n].last = NoReport =>
              ~node[n].ready /\ ~node[n].working /\ node[n].fault = "NONE" /\ ~node[n].blocking
        /\ node[n].last # NoReport =>
              /\ node[n].last.fault = node[n].fault /\ node[n].last.ready = node[n].ready
              /\ node[n].last.blocking = node[n].blocking
              /\ node[n].last.step = node[n].step \/ Pending("recompute", n)

(* A parent with the fields of r believes what its child c last told.      *)
Believes(r, c) ==
    IF node[c].last = NoReport THEN ~r.childReady[c] /\ ~r.childBlock[c]
    ELSE r.childReady[c] = node[c].last.ready /\ r.childBlock[c] = node[c].last.blocking

HeardInv ==
    /\ \A p \in Nodes : \A c \in Kids(p) :
          Reporting(c) \/ (Believes(node[p], c) /\ (node[c].last # NoReport => node[p].last # NoReport))
    /\ Reporting(Root) \/ host = node[Root].last

(* Readiness is never taken back, so an old picture of it is safe.         *)
OrderInv ==
    /\ ReadyBottomUp
    /\ \A p \in Nodes : \A c \in Kids(p) : node[p].childReady[c] => node[c].ready

(* Faults come and go between commands only.                               *)
BlockInv ==
    (\E f \in Range(stack) : f \in CallFrame) =>
        \A p \in Nodes : \A c \in Kids(p) : node[p].childBlock[c] = node[c].blocking

(* Where a child does not work as its parent does, its call is to come.    *)
WorkInv ==
    /\ \A n \in Nodes : node[n].working => node[n].ready
    /\ \A p \in Nodes : \A c \in Kids(p) :
          /\ node[p].working /\ ~node[c].working => Pending("start", c)
          /\ ~node[p].working /\ node[c].working => Pending("finish", c)
          /\ Pending("start", c) => node[p].working /\ ~node[p].blocking
          /\ Pending("finish", c) => ~node[p].working
    /\ ~\E m, n \in Nodes : Pending("start", m) /\ Pending("finish", n)

PlantInv == TypeOK /\ StackInv /\ ToldInv /\ HeardInv /\ OrderInv /\ BlockInv /\ WorkInv

(* Range of the sequences that stacks are made of.                         *)
LEMMA RangeOfTail ==
    ASSUME NEW S, NEW s \in Seq(S), s # <<>>
    PROVE  Range(s) = {Head(s)} \cup Range(Tail(s)) /\ Tail(s) \in Seq(S) /\ Head(s) \in S
<1>1. DOMAIN s = 1..Len(s) /\ Len(s) \in Nat \ {0} /\ Tail(s) \in Seq(S) /\ Head(s) = s[1] /\ Head(s) \in S
  OBVIOUS
<1>2. DOMAIN Tail(s) = 1..(Len(s) - 1) /\ \A i \in 1..(Len(s) - 1) : Tail(s)[i] = s[i + 1]
  BY <1>1
<1>3. \A i \in DOMAIN s : s[i] = Head(s) \/ s[i] \in Range(Tail(s))
  <2> SUFFICES ASSUME NEW i \in DOMAIN s, i # 1  PROVE s[i] \in Range(Tail(s))
    BY <1>1
  <2>1. i - 1 \in DOMAIN Tail(s) /\ Tail(s)[i - 1] = s[i]
    BY <1>1, <1>2
  <2>2. QED
    BY <2>1 DEF Range
<1>4. \A i \in DOMAIN Tail(s) : Tail(s)[i] \in Range(s)
  BY <1>1, <1>2 DEF Range
<1>5. QED
  BY <1>1, <1>3, <1>4 DEF Range

(* A concatenation holds what its parts hold. *)
LEMMA RangeOfConcat ==
    ASSUME NEW S, NEW s \in Seq(S), NEW t \in Seq(S)
    PROVE  Range(s \o t) = Range(s) \cup Range(t) /\ s \o t \in Seq(S)
<1>1. DOMAIN (s \o t) = 1..(Len(s) + Len(t)) /\ s \o t \in Seq(S)
  OBVIOUS
<1>2. \A i \in 1..Len(s) : (s \o t)[i] = s[i]
  OBVIOUS
<1>3. \A i \in 1..Len(t) : (s \o t)[Len(s) + i] = t[i]
  OBVIOUS
<1>4. \A i \in 1..(Len(s) + Len(t)) : i \notin 1..Len(s) => i - Len(s) \in 1..Len(t) /\ (s \o t)[i] = t[i - Len(s)]
  OBVIOUS
<1>5. Range(s) \cup Range(t) \subseteq Range(s \o t)
  <2>1. \A i \in DOMAIN s : s[i] \in Range(s \o t)
    BY <1>1, <1>2 DEF Range
  <2>2. \A i \in DOMAIN t : t[i] \in Range(s \o t)
    <3> SUFFICES ASSUME NEW i \in DOMAIN t  PROVE t[i] \in Range(s \o t)
      OBVIOUS
    <3>1. Len(s) + i \in DOMAIN (s \o t) /\ (s \o t)[Len(s) + i] = t[i]
      BY <1>1, <1>3
    <3>2. QED
      BY <3>1 DEF Range
  <2>3. QED
    BY <2>1, <2>2 DEF Range
<1>6. Range(s \o t) \subseteq Range(s) \cup Range(t)
  BY <1>1, <1>2, <1>4 DEF Range
<1>7. QED
  BY <1>1, <1>5, <1>6

(* A stack with one more call in front.                                    *)
LEMMA Pushed ==
    ASSUME NEW S, NEW x \in S, NEW t \in Seq(S)
    PROVE  /\ <<x>> \o t \in Seq(S) /\ <<x>> \o t # <<>> /\ Head(<<x>> \o t) = x
           /\ Tail(<<x>> \o t) = t /\ Range(<<x>> \o t) = {x} \cup Range(t)
<1>1. <<x>> \o t \in Seq(S) /\ <<x>> \o t # <<>> /\ Head(<<x>> \o t) = x
  OBVIOUS
<1>2. Tail(<<x>> \o t) = t
  OBVIOUS
<1>3. QED
  BY <1>1, <1>2, RangeOfTail

(* Calls and reports are told apart, and made of what they are made of. *)
LEMMA Frames ==
    /\ \A op \in {"advance", "start", "finish", "recompute"}, n \in Nodes : Call(op, n) \in CallFrame
    /\ \A f \in CallFrame : f = Call(f.op, f.node) /\ f.op # "report" /\ f.node \in Nodes
    /\ \A f \in ReportFrame : f.op = "report" /\ f.node \in Nodes /\ f.report \in Report
    /\ \A n \in Nodes, m \in Report : [op |-> "report", node |-> n, report |-> m] \in ReportFrame
    /\ \A op, n : Call(op, n).op = op /\ Call(op, n).node = n
BY DEF CallFrame, ReportFrame, Call

(* The calls that a command makes to the children.                         *)
LEMMA CallsToChildren ==
    ASSUME NEW n \in Nodes, NEW op \in {"advance", "start", "finish"}
    PROVE  /\ CallEach(op, n) \in Seq(CallFrame)
           /\ Range(CallEach(op, n)) = {Call(op, c) : c \in Kids(n)}
<1>1. Children[n] \in Seq(Nodes)
  BY PlantAssumption
<1>2. \A k \in DOMAIN Children[n] : Call(op, Children[n][k]) \in CallFrame
  BY <1>1, Frames
<1>3. CallEach(op, n) = [k \in 1..Len(Children[n]) |-> Call(op, Children[n][k])]
  BY <1>1 DEF CallEach
<1>4. CallEach(op, n) \in Seq(CallFrame)
  BY <1>1, <1>2, <1>3
<1>5. QED
  BY <1>1, <1>3, <1>4 DEF Range, Kids

(* The tree: every node but the root has one parent, which is another node.*)
LEMMA Tree ==
    /\ Root \in Nodes
    /\ \A p \in Nodes : Kids(p) \subseteq Nodes
    /\ \A p \in Nodes : \A c \in Kids(p) : c # Root /\ c # p /\ Parent(c) = p
    /\ \A n \in Nodes \ {Root} : Parent(n) \in Nodes /\ n \in Kids(Parent(n))
<1>1. Root \in Nodes /\ \A p \in Nodes : Kids(p) \subseteq Nodes
  <2>1. \A p \in Nodes : Children[p] \in Seq(Nodes)
    BY PlantAssumption
  <2>2. QED
    BY <2>1, PlantAssumption DEF Kids, Range
<1>2. \A p, q \in Nodes : \A c : c \in Kids(p) /\ c \in Kids(q) => p = q
  BY PlantAssumption DEF Kids
<1>3. \A p \in Nodes : \A c \in Kids(p) : c # Root
  BY PlantAssumption DEF Kids
<1>4. \A S \in SUBSET Nodes : Root \in S /\ (\A p \in S : Kids(p) \subseteq S) => S = Nodes
  BY PlantAssumption DEF Kids
<1>5. \A n \in Nodes \ {Root} : \E p \in Nodes : p # n /\ n \in Kids(p)
  <2> SUFFICES ASSUME NEW n \in Nodes \ {Root}, ~\E p \in Nodes : p # n /\ n \in Kids(p)
               PROVE  FALSE
    OBVIOUS
  <2>1. Root \in Nodes \ {n} /\ \A p \in Nodes \ {n} : Kids(p) \subseteq Nodes \ {n}
    BY <1>1
  <2>2. Nodes \ {n} = Nodes
    BY <1>4, <2>1
  <2>3. QED
    BY <2>2
<1>6. \A n \in Nodes \ {Root} : Parent(n) \in Nodes /\ n \in Kids(Parent(n))
  BY <1>5 DEF Parent
<1>7. \A p \in Nodes : \A c \in Kids(p) : c # p /\ Parent(c) = p
  BY <1>1, <1>2, <1>3, <1>5, <1>6
<1>8. QED
  BY <1>1, <1>3, <1>6, <1>7

(* What holds of the root and of the children of whom it holds, holds of   *)
(* every node.                                                             *)
LEMMA Everywhere ==
    ASSUME NEW S \in SUBSET Nodes, Root \in S, \A p \in S : Kids(p) \subseteq S
    PROVE  S = Nodes
BY PlantAssumption DEF Kids

(* A report is told from none.                                             *)
LEMMA Telling == \A m \in Report : m # NoReport
<1> SUFFICES ASSUME NEW m \in Report, m = NoReport  PROVE FALSE
  OBVIOUS
<1>1. DOMAIN m = {"step", "fault", "ready", "blocking"}
  BY DEF Report
<1>2. DOMAIN m = {"none"}
  BY DEF NoReport
<1>3. "step" \in {"none"}
  BY <1>1, <1>2
<1>4. QED
  BY <1>3

(* Node n now has the fields of q.                                         *)
Reports(n, r, rest, q) ==
    /\ node' = [node EXCEPT ![n] = q]
    /\ q.pos = r.pos /\ q.step = r.step /\ q.ready = r.ready /\ q.working = r.working
    /\ q.fault = r.fault /\ q.childReady = r.childReady /\ q.childBlock = r.childBlock
    /\ q.blocking = Blocks(n, r) /\ q.last = buildReport(q) /\ q.last \in Report
    /\ \/ stack' = rest /\ q.last = r.last
       \/ stack' = <<[op |-> "report", node |-> n, report |-> q.last]>> \o rest

(* The effect of recomputeAndReport(): the node has the flag and the last  *)
(* report that go with its fields, and if that is news, it is on its way.  *)
LEMMA Recomputed ==
    ASSUME DOMAIN node = Nodes, NEW n \in Nodes, NEW r \in HierNode(n), NEW rest,
           recomputeAndReport(n, r, rest)
    PROVE  \E q \in HierNode(n) : Reports(n, r, rest, q)
<1> DEFINE s == [r EXCEPT !.blocking = Blocks(n, r)]
           m == buildReport(s)
           q == [s EXCEPT !.last = m]
<1>1. Blocks(n, r) \in BOOLEAN
  BY DEF Blocks, decideProductionImpact
<1>2. s \in HierNode(n)
  BY <1>1 DEF HierNode
<1>3. /\ s.pos = r.pos /\ s.step = r.step /\ s.ready = r.ready /\ s.working = r.working
      /\ s.fault = r.fault /\ s.childReady = r.childReady /\ s.childBlock = r.childBlock
      /\ s.blocking = Blocks(n, r) /\ s.last = r.last
  BY DEF HierNode
<1>4. recomputeAndReport(n, r, rest) <=>
         IF Same(s.last, m)
         THEN node' = [node EXCEPT ![n] = s] /\ stack' = rest
         ELSE /\ node' = [node EXCEPT ![n] = q]
              /\ stack' = <<[op |-> "report", node |-> n, report |-> m]>> \o rest
  BY DEF recomputeAndReport
<1>5. m = [step |-> s.step, fault |-> s.fault, ready |-> s.ready, blocking |-> s.blocking]
  BY DEF buildReport
<1> HIDE DEF s
<1>6. m \in Report
  BY <1>2, <1>5 DEF HierNode, Report
<1>7. /\ q \in HierNode(n) /\ q.pos = s.pos /\ q.step = s.step /\ q.ready = s.ready /\ q.working = s.working
      /\ q.fault = s.fault /\ q.childReady = s.childReady /\ q.childBlock = s.childBlock
      /\ q.blocking = s.blocking /\ q.last = m
  <2> HIDE DEF m
  <2>1. QED
    BY <1>2, <1>6 DEF HierNode
<1>8. buildReport(q) = m
  <2> HIDE DEF q
  <2>1. QED
    BY <1>7 DEF buildReport
<1>9. s.last = m => s = q
  <2> HIDE DEF m
  <2>1. QED
    BY <1>2 DEF HierNode
<1>10. \/ node' = [node EXCEPT ![n] = q] /\ stack' = rest /\ s.last = m
       \/ /\ node' = [node EXCEPT ![n] = q]
          /\ stack' = <<[op |-> "report", node |-> n, report |-> m]>> \o rest
  <2> HIDE DEF m, q
  <2>1. QED
    BY <1>4, <1>9 DEF Same
<1> HIDE DEF m, q
<1>11. QED
  BY <1>3, <1>6, <1>7, <1>8, <1>10 DEF Reports

-----------------------------------------------------------------------------
(* Steps that end in recomputeAndReport().                                 *)

(* Node n gets the fields of r and reports; the calls of rest stay.        *)
Update(n, r, rest) ==
    /\ r \in HierNode(n) /\ r.pos <= Len(Plan[n]) /\ r.last = node[n].last
    /\ r.working = node[n].working
    /\ rest \in Seq(CallFrame)
    /\ \A f \in Range(rest) : f \in Range(stack)
    /\ \A f \in Range(stack) :
          \/ f \in Range(rest) \/ f.op \in {"report", "advance"} \/ (f.op = "recompute" /\ f.node = n)
    /\ recomputeAndReport(n, r, rest) /\ UNCHANGED host

(* Readiness of n is gained only, and with the children's.                 *)
Gains(n, r) ==
    /\ node[n].ready => r.ready
    /\ r.ready => r.pos = Len(Plan[n]) /\ \A c \in Kids(n) : node[c].ready
    /\ \A c \in Kids(n) : r.childReady[c] => node[c].ready

(* Everybody knows what the children told, n by the fields of r.           *)
Informed(n, r) ==
    /\ \A c \in Kids(n) : Believes(r, c)
    /\ \A p \in Nodes \ {n} : \A c \in Kids(p) :
          Believes(node[p], c) /\ (node[c].last # NoReport => node[p].last # NoReport)
    /\ host = node[Root].last

(* With calls left to run, it is nothing about faults that n reports.      *)
SameFaults(n, r) == r.fault = node[n].fault /\ r.childBlock = node[n].childBlock

(* A node that reports as its last act keeps the invariant. *)
LEMMA UpdateInv ==
    ASSUME PlantInv, NEW n \in Nodes, NEW r, NEW rest, Update(n, r, rest), Gains(n, r), Informed(n, r),
           rest # <<>> => SameFaults(n, r), UNCHANGED loop
    PROVE  PlantInv'
<1>1. DOMAIN node = Nodes /\ \A k \in Nodes : node[k] \in HierNode(k) /\ node[k].pos <= Len(Plan[k])
  BY DEF PlantInv, TypeOK
<1>0. PICK q \in HierNode(n) : Reports(n, r, rest, q)
  <2>1. r \in HierNode(n) /\ recomputeAndReport(n, r, rest)
    BY DEF Update
  <2>2. QED
    BY <1>1, <2>1, Recomputed, Zenon
<1>2. /\ node' = [node EXCEPT ![n] = q]
      /\ q.pos = r.pos /\ q.step = r.step /\ q.ready = r.ready /\ q.working = r.working
      /\ q.fault = r.fault /\ q.childReady = r.childReady /\ q.childBlock = r.childBlock
      /\ q.blocking = Blocks(n, r) /\ q.last = buildReport(q) /\ q.last \in Report
      /\ \/ stack' = rest /\ q.last = r.last
         \/ stack' = <<[op |-> "report", node |-> n, report |-> q.last]>> \o rest
  BY <1>0 DEF Reports
<1>3. /\ DOMAIN node' = Nodes /\ node'[n] = q
      /\ \A k \in Nodes : k # n => node'[k] = node[k]
  BY <1>1, <1>2
<1>4. q.last # NoReport
  BY <1>2, Telling
<1>5. /\ stack' \in Seq(CallFrame \cup ReportFrame)
      /\ \/ stack' = rest /\ q.last = r.last
         \/ /\ stack' # <<>> /\ Tail(stack') = rest
            /\ Head(stack') = [op |-> "report", node |-> n, report |-> q.last]
            /\ Head(stack') \in ReportFrame
            /\ Range(stack') = {Head(stack')} \cup Range(rest)
  <2> DEFINE x == [op |-> "report", node |-> n, report |-> q.last]
  <2>1. x \in ReportFrame /\ x \in CallFrame \cup ReportFrame
    BY <1>2, Frames
  <2>2. rest \in Seq(CallFrame \cup ReportFrame)
    BY DEF Update
  <2> HIDE DEF x
  <2>3. <<x>> \o rest \in Seq(CallFrame \cup ReportFrame) /\ <<x>> \o rest # <<>>
        /\ Head(<<x>> \o rest) = x /\ Tail(<<x>> \o rest) = rest
        /\ Range(<<x>> \o rest) = {x} \cup Range(rest)
    <3> DEFINE F == CallFrame \cup ReportFrame
    <3>1. x \in F /\ rest \in Seq(F)
      BY <2>1, <2>2
    <3> HIDE DEF F
    <3>2. /\ <<x>> \o rest \in Seq(F) /\ <<x>> \o rest # <<>> /\ Head(<<x>> \o rest) = x
          /\ Tail(<<x>> \o rest) = rest /\ Range(<<x>> \o rest) = {x} \cup Range(rest)
      BY <3>1, Pushed
    <3> QED
      BY <3>2 DEF F
  <2>4. (stack' = rest /\ q.last = r.last) \/ stack' = <<x>> \o rest
    BY <1>2 DEF x
  <2>5. QED
    BY <2>1, <2>2, <2>3, <2>4 DEF x
<1>6. \A f \in CallFrame : f \in Range(stack') <=> f \in Range(rest)
  BY <1>5, Frames
<1>7. \A f \in Range(rest) : f \in CallFrame
  BY DEF Update, Range
<1>8. TypeOK'
  BY <1>1, <1>2, <1>3, <1>5 DEF PlantInv, TypeOK, Update
<1>9. StackInv'
  <2>1. CASE stack' = rest
    <3>1. stack' # <<>> => (\A f \in Range(Tail(stack')) : f \in CallFrame) /\ Head(stack') \in CallFrame
      BY <2>1, <1>7, RangeOfTail DEF Update
    <3>2. QED
      BY <3>1, Frames DEF StackInv
  <2>2. CASE Head(stack') = [op |-> "report", node |-> n, report |-> q.last] /\ Tail(stack') = rest
    <3>1. Head(stack').report = q.last /\ Head(stack').node = n
      BY <2>2
    <3>2. Head(stack').report = node'[Head(stack').node].last
      BY <1>3, <3>1
    <3>3. \A f \in Range(Tail(stack')) : f \in CallFrame
      BY <2>2, <1>7
    <3>4. QED
      BY <3>2, <3>3 DEF StackInv
  <2>3. QED
    BY <1>5, <2>1, <2>2
<1>10. \A k \in Nodes : Reporting(k)' => k = n /\ stack' # rest
  <2>1. CASE stack' = rest
    <3>1. stack' # <<>> => Head(stack') \in CallFrame
      BY <2>1, RangeOfTail DEF Update
    <3>2. QED
      BY <3>1, Frames DEF Reporting, Top
  <2>2. CASE stack' # rest
    BY <1>5, <2>2 DEF Reporting, Top
  <2>3. QED
    BY <2>1, <2>2
<1>11. Reporting(n)' \/ q.last = node[n].last
  BY <1>5 DEF Reporting, Top, Update
<1>12. ToldInv'
  <2>1. Blocks(n, q) = Blocks(n, r)
    BY <1>2 DEF Blocks
  <2>2. /\ q.last.fault = q.fault /\ q.last.ready = q.ready /\ q.last.blocking = q.blocking
        /\ q.last.step = q.step
    BY <1>2 DEF buildReport
  <2>3. ASSUME NEW k \in Nodes, k # n, Pending("recompute", k)  PROVE Pending("recompute", k)'
    <3>1. Call("recompute", k) \in Range(rest)
      BY <2>3, Frames DEF Pending, Update
    <3>2. QED
      BY <1>6, <1>7, <3>1 DEF Pending
  <2>4. ASSUME NEW k \in Nodes, k # n  PROVE Blocks(k, node[k])' = Blocks(k, node[k])
    BY <1>3, <2>4 DEF Blocks
  <2>5. QED
    BY <1>2, <1>3, <1>4, <2>1, <2>2, <2>3, <2>4 DEF PlantInv, ToldInv
<1>13. HeardInv'
  <2>1. ASSUME NEW c \in Kids(n)  PROVE Believes(node[n], c)' /\ node'[n].last # NoReport
    <3>1. c \in Nodes /\ node'[c] = node[c]
      BY <1>3, Tree
    <3>2. Believes(r, c)
      BY DEF Informed
    <3>3. QED
      BY <1>2, <1>3, <1>4, <3>1, <3>2 DEF Believes
  <2>2. ASSUME NEW p \in Nodes, p # n, NEW c \in Kids(p)
        PROVE  Reporting(c)' \/ (Believes(node[p], c) /\ (node[c].last # NoReport => node[p].last # NoReport))'
    <3>1. Believes(node[p], c) /\ (node[c].last # NoReport => node[p].last # NoReport)
      BY <2>2 DEF Informed
    <3>2. c \in Nodes /\ node'[p] = node[p]
      BY <1>3, <2>2, Tree
    <3>3. Reporting(c)' \/ node'[c].last = node[c].last
      BY <1>3, <1>11, <3>2
    <3>4. QED
      BY <3>1, <3>2, <3>3 DEF Believes
  <2>3. Reporting(Root)' \/ host' = node'[Root].last
    BY <1>3, <1>11, Tree DEF Informed, Update
  <2>4. QED
    BY <2>1, <2>2, <2>3 DEF HeardInv
<1>14. \A k \in Nodes : node[k].ready => node'[k].ready
  BY <1>2, <1>3 DEF Gains
<1>15. OrderInv'
  <2>1. ASSUME NEW c \in Kids(n)
        PROVE  (q.ready => node'[c].ready /\ q.pos = Len(Plan[n])) /\ (q.childReady[c] => node'[c].ready)
    BY <1>2, <1>14, Tree DEF Gains
  <2>2. q.ready => q.pos = Len(Plan[n])
    BY <1>2 DEF Gains
  <2>3. ASSUME NEW p \in Nodes, p # n
        PROVE  /\ node'[p].ready => node'[p].pos = Len(Plan[p]) /\ \A c \in Kids(p) : node'[c].ready
               /\ \A c \in Kids(p) : node'[p].childReady[c] => node'[c].ready
    BY <1>3, <1>14, <2>3, Tree DEF PlantInv, OrderInv, ReadyBottomUp
  <2>4. QED
    BY <1>3, <2>1, <2>2, <2>3 DEF OrderInv, ReadyBottomUp
<1>16. ASSUME NEW f \in Range(rest)
       PROVE  /\ q.childBlock = node[n].childBlock /\ q.blocking = node[n].blocking
              /\ \A p \in Nodes : \A c \in Kids(p) : node[p].childBlock[c] = node[c].blocking
  <2>1. SameFaults(n, r)
    BY DEF Range
  <2>2. Blocks(n, r) = Blocks(n, node[n]) /\ q.childBlock = node[n].childBlock
    BY <1>2, <2>1 DEF SameFaults, Blocks
  <2>3. f \in Range(stack) /\ f \in CallFrame
    BY <1>7 DEF Update
  <2>4. QED
    BY <1>2, <2>2, <2>3 DEF PlantInv, ToldInv, BlockInv
<1>17. BlockInv'
  <2> SUFFICES ASSUME NEW f \in Range(stack'), f \in CallFrame, NEW p \in Nodes, NEW c \in Kids(p)
               PROVE  node'[p].childBlock[c] = node'[c].blocking
    BY DEF BlockInv
  <2>1. f \in Range(rest)
    BY <1>6
  <2>2. QED
    BY <1>3, <1>16, <2>1, Tree
<1>18. WorkInv'
  <2>1. \A k \in Nodes : node'[k].working = node[k].working
    BY <1>2, <1>3 DEF Update
  <2>2. ASSUME NEW k \in Nodes, NEW op \in {"start", "finish"}  PROVE Pending(op, k)' <=> Pending(op, k)
    <3>1. Call(op, k) \in CallFrame
      BY Frames
    <3>2. Call(op, k) \in Range(stack) => Call(op, k) \in Range(rest)
      BY Frames DEF Update
    <3>3. Call(op, k) \in Range(rest) => Call(op, k) \in Range(stack)
      BY DEF Update
    <3>4. QED
      BY <1>6, <3>1, <3>2, <3>3 DEF Pending
  <2>3. ASSUME NEW p \in Nodes, NEW c \in Kids(p), Pending("start", c)
        PROVE  node'[p].blocking = node[p].blocking
    <3>1. c \in Nodes /\ Call("start", c) \in CallFrame
      BY Tree, Frames
    <3>2. Call("start", c) \in Range(rest)
      BY <1>6, <2>2, <2>3, <3>1 DEF Pending
    <3>3. QED
      BY <1>3, <1>16, <3>2
  <2>4. \A k \in Nodes : node'[k].working => node'[k].ready
    BY <1>14, <2>1 DEF PlantInv, WorkInv
  <2>5. ASSUME NEW p \in Nodes, NEW c \in Kids(p)
        PROVE  /\ node'[p].working /\ ~node'[c].working => Pending("start", c)'
               /\ ~node'[p].working /\ node'[c].working => Pending("finish", c)'
               /\ Pending("start", c)' => node'[p].working /\ ~node'[p].blocking
               /\ Pending("finish", c)' => ~node'[p].working
    BY <2>1, <2>2, <2>3, Tree DEF PlantInv, WorkInv
  <2>6. ~\E k, l \in Nodes : Pending("start", k)' /\ Pending("finish", l)'
    BY <2>2 DEF PlantInv, WorkInv
  <2>7. QED
    BY <2>4, <2>5, <2>6 DEF WorkInv
<1>19. QED
  BY <1>8, <1>9, <1>12, <1>13, <1>15, <1>17, <1>18 DEF PlantInv

(* The call that runs next.                                                *)
LEMMA Running ==
    ASSUME PlantInv, stack # <<>>
    PROVE  /\ Tail(stack) \in Seq(CallFrame)
           /\ Range(stack) = {Head(stack)} \cup Range(Tail(stack))
           /\ Head(stack) \in CallFrame \cup ReportFrame
<1>1. /\ Range(stack) = {Head(stack)} \cup Range(Tail(stack))
      /\ Tail(stack) \in Seq(CallFrame \cup ReportFrame)
      /\ Head(stack) \in CallFrame \cup ReportFrame
  BY RangeOfTail DEF PlantInv, TypeOK
<1>2. \A i \in DOMAIN Tail(stack) : Tail(stack)[i] \in CallFrame
  BY DEF PlantInv, StackInv, Range
<1>3. Tail(stack) \in Seq(CallFrame)
  <2> DEFINE t == Tail(stack)
  <2>1. t \in Seq(CallFrame \cup ReportFrame) /\ \A i \in DOMAIN t : t[i] \in CallFrame
    BY <1>1, <1>2
  <2> HIDE DEF t
  <2>2. Len(t) \in Nat /\ t = [i \in 1..Len(t) |-> t[i]] /\ DOMAIN t = 1..Len(t)
    BY <2>1
  <2>3. t \in Seq(CallFrame)
    BY <2>1, <2>2
  <2>4. QED
    BY <2>3 DEF t
<1>4. QED
  BY <1>1, <1>3

(* While a call other than a report is next, nobody is reporting. *)
LEMMA RunningCall ==
    ASSUME PlantInv, NEW op, op # "report", NEW n \in Nodes, Top(op, n)
    PROVE  /\ stack # <<>> /\ Head(stack) = Call(op, n) /\ Head(stack) \in CallFrame
           /\ \A k \in Nodes : ~Reporting(k)
BY Running, Frames DEF Top, Reporting

(* While no report is under way, everybody knows what was told.            *)
LEMMA Calm ==
    ASSUME PlantInv, \A k \in Nodes : ~Reporting(k), NEW n \in Nodes, NEW r,
           r.childReady = node[n].childReady, r.childBlock = node[n].childBlock
    PROVE  Informed(n, r)
<1>1. \A c \in Kids(n) : Believes(node[n], c)
  BY Tree DEF PlantInv, HeardInv
<1>2. \A c \in Kids(n) : Believes(r, c)
  BY <1>1 DEF Believes
<1>3. QED
  BY <1>2, Tree DEF PlantInv, HeardInv, Informed

(* The types of the nodes. *)
LEMMA NodeTyped ==
    ASSUME PlantInv
    PROVE  DOMAIN node = Nodes /\ \A k \in Nodes : node[k] \in HierNode(k) /\ node[k].pos <= Len(Plan[k])
BY DEF PlantInv, TypeOK

(* Node n, with the fields of r, has taken a step of its plan, and is ready*)
(* after the last.                                                         *)
Promotes(n, r) ==
    /\ r.last = node[n].last /\ r.working = node[n].working /\ r.fault = node[n].fault
    /\ r.childReady = node[n].childReady /\ r.childBlock = node[n].childBlock
    /\ r.pos <= Len(Plan[n]) /\ (r.pos = node[n].pos + 1 \/ r.pos = Len(Plan[n]))
    /\ node[n].ready => r.ready /\ r.pos = Len(Plan[n])
    /\ r.ready <=> node[n].ready \/ r.pos = Len(Plan[n])

(* advance() of a node whose children are ready takes one step of its plan *)
(* and makes the node ready after the last.                                *)
LEMMA Promoted ==
    ASSUME PlantInv, NEW n \in Nodes, AdvanceSelf(n)
    PROVE  \E r \in HierNode(n) : recomputeAndReport(n, r, Tail(stack)) /\ Promotes(n, r)
<1> DEFINE r0 == promoteSelf(n, node[n])
           r == IF r0.pos >= Len(Plan[n]) /\ ~r0.ready THEN [r0 EXCEPT !.ready = TRUE, !.step = "READY"] ELSE r0
<1>1. node[n] \in HierNode(n) /\ node[n].pos <= Len(Plan[n]) /\ Plan[n] \in Seq(STRING)
  BY NodeTyped, PlantAssumption
<1>2. /\ r0 \in HierNode(n) /\ r0.pos <= Len(Plan[n]) /\ r0.last = node[n].last
      /\ r0.working = node[n].working /\ r0.ready = node[n].ready /\ r0.fault = node[n].fault
      /\ r0.childReady = node[n].childReady /\ r0.childBlock = node[n].childBlock
      /\ r0.pos = node[n].pos + 1 \/ (node[n].pos = Len(Plan[n]) /\ r0.pos = Len(Plan[n]))
  <2>1. CASE node[n].pos < Len(Plan[n])
    <3> DEFINE k == node[n].pos + 1
               x == Plan[n][k]
    <3>1. r0 = [node[n] EXCEPT !.pos = k, !.step = x]
      BY <1>1, <2>1 DEF promoteSelf, HierNode
    <3>2. k \in Nat /\ k \in DOMAIN Plan[n] /\ k <= Len(Plan[n])
      BY <1>1, <2>1 DEF HierNode
    <3>3. x \in Steps
      BY <3>2 DEF Steps, PlanSteps, Range
    <3> HIDE DEF k, x, r0
    <3>4. /\ r0 \in HierNode(n) /\ r0.pos = k /\ r0.last = node[n].last
          /\ r0.working = node[n].working /\ r0.ready = node[n].ready /\ r0.fault = node[n].fault
          /\ r0.childReady = node[n].childReady /\ r0.childBlock = node[n].childBlock
      BY <1>1, <3>1, <3>2, <3>3 DEF HierNode
    <3>5. QED
      BY <3>2, <3>4 DEF k
  <2>2. CASE ~(node[n].pos < Len(Plan[n]))
    BY <1>1, <2>2 DEF promoteSelf, HierNode
  <2>3. QED
    BY <2>1, <2>2
<1>3. recomputeAndReport(n, r, Tail(stack))
  BY DEF AdvanceSelf
<1>4. r0.pos \in Nat /\ Len(Plan[n]) \in Nat /\ r0.ready \in BOOLEAN
  BY <1>1, <1>2 DEF HierNode
<1> HIDE DEF r0
<1>5. /\ r \in HierNode(n) /\ r.pos = r0.pos /\ r.last = r0.last
      /\ r.working = r0.working /\ r.fault = r0.fault
      /\ r.childReady = r0.childReady /\ r.childBlock = r0.childBlock
      /\ r.ready <=> r0.ready \/ r0.pos = Len(Plan[n])
  <2>1. CASE r0.pos >= Len(Plan[n]) /\ ~r0.ready
    <3>1. r = [r0 EXCEPT !.ready = TRUE, !.step = "READY"]
      BY <2>1
    <3>2. "READY" \in Steps
      BY DEF Steps
    <3>3. r0.pos = Len(Plan[n])
      BY <1>2, <1>4, <2>1
    <3>4. QED
      BY <1>2, <2>1, <3>1, <3>2, <3>3 DEF HierNode
  <2>2. CASE ~(r0.pos >= Len(Plan[n]) /\ ~r0.ready)
    BY <1>2, <1>4, <2>2
  <2>3. QED
    BY <2>1, <2>2
<1> HIDE DEF r
<1>6. node[n].ready => r.pos = Len(Plan[n])
  BY <1>1, <1>2, <1>4, <1>5 DEF PlantInv, OrderInv, ReadyBottomUp, HierNode
<1>7. QED
  BY <1>2, <1>3, <1>5, <1>6 DEF Promotes

(* advance() of a node whose children are ready keeps the invariant. *)
LEMMA AdvanceSelfInv ==
    ASSUME PlantInv, NEW n \in Nodes, AdvanceSelf(n)
    PROVE  PlantInv'
<1>1. node[n] \in HierNode(n)
  BY NodeTyped
<1>2. PICK r \in HierNode(n) : recomputeAndReport(n, r, Tail(stack)) /\ Promotes(n, r)
  BY Promoted
<1>3. Top("advance", n) /\ allChildrenReady(node[n]) /\ UNCHANGED <<host, loop>>
  BY DEF AdvanceSelf
<1>4. Head(stack) = Call("advance", n) /\ stack # <<>> /\ \A k \in Nodes : ~Reporting(k)
  BY <1>3, RunningCall
<1>5. \A c \in Kids(n) : node[n].childReady[c] /\ node[c].ready
  <2>1. DOMAIN node[n].childReady = Kids(n)
    BY <1>1 DEF HierNode
  <2>2. QED
    BY <1>3, <2>1 DEF allChildrenReady, PlantInv, OrderInv
<1>6. Gains(n, r)
  BY <1>2, <1>5 DEF Gains, Promotes
<1>7. Update(n, r, Tail(stack))
  BY <1>2, <1>3, <1>4, Running, Frames DEF Update, Promotes
<1>8. Informed(n, r) /\ SameFaults(n, r)
  BY <1>2, <1>4, Calm DEF SameFaults, Promotes
<1>9. QED
  BY <1>3, <1>6, <1>7, <1>8, UpdateInv

(* The end of startWork() and finishWork() keeps the invariant. *)
LEMMA RecomputeInv ==
    ASSUME PlantInv, NEW n \in Nodes, Recompute(n)
    PROVE  PlantInv'
<1>1. recomputeAndReport(n, node[n], Tail(stack)) /\ Top("recompute", n) /\ UNCHANGED <<host, loop>>
  BY DEF Recompute
<1>2. Head(stack) = Call("recompute", n) /\ stack # <<>> /\ \A k \in Nodes : ~Reporting(k)
  BY <1>1, RunningCall
<1>3. Update(n, node[n], Tail(stack))
  BY <1>1, <1>2, NodeTyped, Running, Frames DEF Update
<1>4. Gains(n, node[n])
  BY DEF Gains, PlantInv, OrderInv, ReadyBottomUp
<1>5. Informed(n, node[n]) /\ SameFaults(n, node[n])
  BY <1>2, Calm DEF SameFaults
<1>6. QED
  BY <1>1, <1>3, <1>4, <1>5, UpdateInv

(* inject() and reset of faults, between commands.                         *)
LEMMA FaultInv ==
    ASSUME PlantInv, NEW n \in Nodes, NEW level \in FaultLevel, Idle,
           recomputeAndReport(n, [node[n] EXCEPT !.fault = level], <<>>), UNCHANGED <<host, loop>>
    PROVE  PlantInv'
<1> DEFINE r == [node[n] EXCEPT !.fault = level]
<1>1. node[n] \in HierNode(n) /\ node[n].pos <= Len(Plan[n])
  BY NodeTyped
<1>2. /\ r \in HierNode(n) /\ r.pos = node[n].pos /\ r.last = node[n].last
      /\ r.working = node[n].working /\ r.ready = node[n].ready
      /\ r.childReady = node[n].childReady /\ r.childBlock = node[n].childBlock
  BY <1>1 DEF HierNode
<1> HIDE DEF r
<1>3. stack = <<>> /\ Range(stack) = {} /\ \A k \in Nodes : ~Reporting(k)
  BY DEF Idle, Quiet, Range, Reporting, Top
<1>4. Update(n, r, <<>>)
  <2>1. recomputeAndReport(n, r, <<>>)
    BY DEF r
  <2>2. <<>> \in Seq(CallFrame) /\ Range(<<>>) = {}
    BY DEF Range
  <2>3. QED
    BY <1>1, <1>2, <1>3, <2>1, <2>2 DEF Update
<1>5. Gains(n, r)
  BY <1>2 DEF Gains, PlantInv, OrderInv, ReadyBottomUp
<1>6. Informed(n, r)
  BY <1>2, <1>3, Calm
<1>7. QED
  BY <1>4, <1>5, <1>6, UpdateInv

(* A fault, or its end, keeps the invariant. *)
LEMMA FailInv ==
    ASSUME PlantInv, NEW n \in Nodes, NEW sev \in {"ALARM", "BLOCKING"}, fail(n, sev) \/ clearFault(n)
    PROVE  PlantInv'
<1>1. node[n] \in HierNode(n)
  BY NodeTyped
<1>2. worstOf(node[n].fault, sev) \in FaultLevel /\ "NONE" \in FaultLevel
  BY DEF worstOf, FaultLevel
<1>3. CASE fail(n, sev)
  <2>1. [node[n] EXCEPT !.fault = worstOf(@, sev)] = [node[n] EXCEPT !.fault = worstOf(node[n].fault, sev)]
    BY <1>1 DEF HierNode
  <2>2. QED
    BY <1>2, <1>3, <2>1, FaultInv DEF fail
<1>4. CASE clearFault(n)
  BY <1>2, <1>4, FaultInv DEF clearFault
<1>5. QED
  BY <1>3, <1>4

(* A report reaches the parent, which is the only one to change its mind.  *)
LEMMA ReportInv ==
    ASSUME PlantInv, NEW n \in Nodes \ {Root}, report(n)
    PROVE  PlantInv'
<1> DEFINE p == Parent(n)
           m == Head(stack).report
           r == [node[p] EXCEPT !.childReady[n] = m.ready, !.childBlock[n] = m.blocking]
<1>1. Top("report", n) /\ recomputeAndReport(p, r, Tail(stack)) /\ UNCHANGED <<host, loop>>
  BY DEF report
<1>2. p \in Nodes /\ n \in Kids(p) /\ n # p
  BY Tree
<1>3. /\ stack # <<>> /\ Head(stack) \in ReportFrame /\ Head(stack).op = "report"
      /\ \A k \in Nodes : Reporting(k) => k = n
  BY <1>1, Running, Frames DEF Top, Reporting
<1>4. m \in Report /\ m = node[n].last
  BY <1>1, <1>3, Frames DEF PlantInv, StackInv, Top
<1>5. m # NoReport /\ m.ready = node[n].ready /\ m.blocking = node[n].blocking /\ m.ready \in BOOLEAN /\ m.blocking \in BOOLEAN
  BY <1>4, Telling DEF PlantInv, ToldInv, Report
<1>6. node[p] \in HierNode(p) /\ node[p].pos <= Len(Plan[p])
  BY <1>2, NodeTyped
<1> HIDE DEF m, p
<1>7. r = [node[p] EXCEPT !.childReady = [node[p].childReady EXCEPT ![n] = m.ready],
                          !.childBlock = [node[p].childBlock EXCEPT ![n] = m.blocking]]
  BY <1>6 DEF HierNode
<1> HIDE DEF r
<1>8. /\ r \in HierNode(p) /\ r.pos = node[p].pos /\ r.last = node[p].last
      /\ r.working = node[p].working /\ r.ready = node[p].ready /\ r.fault = node[p].fault
      /\ r.childReady = [node[p].childReady EXCEPT ![n] = m.ready]
      /\ r.childBlock = [node[p].childBlock EXCEPT ![n] = m.blocking]
  <2> DEFINE a == [node[p].childReady EXCEPT ![n] = m.ready]
             b == [node[p].childBlock EXCEPT ![n] = m.blocking]
  <2>1. a \in [Kids(p) -> BOOLEAN] /\ b \in [Kids(p) -> BOOLEAN]
    BY <1>5, <1>6 DEF HierNode
  <2>2. r = [node[p] EXCEPT !.childReady = a, !.childBlock = b]
    BY <1>7
  <2> HIDE DEF a, b
  <2>3. /\ r \in HierNode(p) /\ r.pos = node[p].pos /\ r.last = node[p].last
        /\ r.working = node[p].working /\ r.ready = node[p].ready /\ r.fault = node[p].fault
        /\ r.childReady = a /\ r.childBlock = b
    BY <1>6, <2>1, <2>2 DEF HierNode
  <2>4. QED
    BY <2>3 DEF a, b
<1>9. \A c \in Kids(p) : /\ r.childReady[c] = IF c = n THEN m.ready ELSE node[p].childReady[c]
                         /\ r.childBlock[c] = IF c = n THEN m.blocking ELSE node[p].childBlock[c]
  BY <1>6, <1>8 DEF HierNode
<1>10. Update(p, r, Tail(stack))
  BY <1>1, <1>3, <1>6, <1>8, Running, Frames DEF Update
<1>11. Gains(p, r)
  BY <1>2, <1>5, <1>8, <1>9 DEF Gains, PlantInv, OrderInv, ReadyBottomUp
<1>12. Informed(p, r)
  <2>1. ASSUME NEW c \in Kids(p)  PROVE Believes(r, c)
    <3>1. CASE c = n
      BY <1>4, <1>5, <1>9, <3>1 DEF Believes
    <3>2. CASE c # n
      <4>1. Believes(node[p], c)
        BY <1>2, <1>3, <3>2, Tree DEF PlantInv, HeardInv
      <4>2. QED
        BY <1>9, <3>2, <4>1 DEF Believes
    <3>3. QED
      BY <3>1, <3>2
  <2>2. ASSUME NEW q \in Nodes \ {p}, NEW c \in Kids(q)
        PROVE  Believes(node[q], c) /\ (node[c].last # NoReport => node[q].last # NoReport)
    <3>1. c # n /\ c \in Nodes
      BY <1>2, Tree
    <3>2. QED
      BY <1>3, <3>1 DEF PlantInv, HeardInv
  <2>3. host = node[Root].last
    BY <1>3, Tree DEF PlantInv, HeardInv
  <2>4. QED
    BY <2>1, <2>2, <2>3 DEF Informed
<1>13. ASSUME Tail(stack) # <<>>  PROVE SameFaults(p, r)
  <2>1. Tail(stack) \in Seq(CallFrame) /\ Range(stack) = {Head(stack)} \cup Range(Tail(stack))
    BY <1>3, Running
  <2>2. Head(Tail(stack)) \in CallFrame /\ Head(Tail(stack)) \in Range(Tail(stack))
    BY <1>13, <2>1, RangeOfTail
  <2>3. node[p].childBlock[n] = m.blocking
    BY <1>2, <1>5, <2>1, <2>2 DEF PlantInv, BlockInv
  <2>4. r.childBlock = node[p].childBlock
    BY <1>6, <1>8, <2>3 DEF HierNode
  <2>5. QED
    BY <1>8, <2>4 DEF SameFaults
<1>14. QED
  BY <1>1, <1>2, <1>10, <1>11, <1>12, <1>13, UpdateInv

-----------------------------------------------------------------------------
(* Steps that leave the nodes alone.                                       *)

LEMMA StackStep ==
    ASSUME PlantInv, UNCHANGED node, stack' \in Seq(CallFrame),
           \A k \in Nodes \ {Root} : ~Reporting(k),
           host' = node[Root].last, loop' \in {<<>>} \cup {<<k>> : k \in 0..MaxRounds},
           \A n \in Nodes : Pending("recompute", n) => Pending("recompute", n)',
           WorkInv'
    PROVE  PlantInv'
<1>1. \A f \in Range(stack') : f \in CallFrame
  BY DEF Range
<1>2. \A k \in Nodes : ~Reporting(k)'
  <2>1. stack' # <<>> => Head(stack') \in CallFrame
    BY RangeOfTail
  <2>2. QED
    BY <2>1, Frames DEF Reporting, Top
<1>3. TypeOK'
  <2>1. stack' \in Seq(CallFrame \cup ReportFrame)
    OBVIOUS
  <2>2. host' \in Report \cup {NoReport}
    BY NodeTyped, Tree DEF HierNode
  <2>3. QED
    BY <2>1, <2>2 DEF PlantInv, TypeOK
<1>4. StackInv'
  <2>1. stack' # <<>> => (\A f \in Range(Tail(stack')) : f \in CallFrame) /\ Head(stack') \in CallFrame
    BY <1>1, RangeOfTail
  <2>2. QED
    BY <2>1, Frames DEF StackInv
<1>5. ToldInv'
  BY DEF PlantInv, ToldInv, Blocks
<1>6. \A p \in Nodes : \A c \in Kids(p) :
         Believes(node[p], c) /\ (node[c].last # NoReport => node[p].last # NoReport)
  BY Tree DEF PlantInv, HeardInv
<1>7. HeardInv'
  BY <1>6 DEF HeardInv, Believes
<1>8. OrderInv'
  BY DEF PlantInv, OrderInv, ReadyBottomUp
<1>9. \A p \in Nodes : \A c \in Kids(p) : node[p].childBlock[c] = node[c].blocking
  <2> SUFFICES ASSUME NEW p \in Nodes, NEW c \in Kids(p)  PROVE node[p].childBlock[c] = node[c].blocking
    OBVIOUS
  <2>1. c \in Nodes /\ node[p].childBlock[c] \in BOOLEAN /\ node[c].blocking \in BOOLEAN
    BY NodeTyped, Tree DEF HierNode
  <2>2. QED
    BY <1>6, <2>1 DEF Believes, PlantInv, ToldInv
<1>10. BlockInv'
  BY <1>9 DEF BlockInv
<1>11. QED
  BY <1>3, <1>4, <1>5, <1>7, <1>8, <1>10 DEF PlantInv

(* A call of start or finish that is taken off has nothing left to do.     *)
LEMMA WorkKept ==
    ASSUME PlantInv, UNCHANGED node,
           \A n \in Nodes, op \in {"start", "finish"} : Pending(op, n)' => Pending(op, n),
           \A p \in Nodes : \A c \in Kids(p), op \in {"start", "finish"} :
              Pending(op, c) => Pending(op, c)' \/ node[c].working = node[p].working
    PROVE  WorkInv'
<1>1. \A n \in Nodes : node'[n].working => node'[n].ready
  BY DEF PlantInv, WorkInv
<1>2. ASSUME NEW p \in Nodes, NEW c \in Kids(p)
      PROVE  /\ node'[p].working /\ ~node'[c].working => Pending("start", c)'
             /\ ~node'[p].working /\ node'[c].working => Pending("finish", c)'
             /\ Pending("start", c)' => node'[p].working /\ ~node'[p].blocking
             /\ Pending("finish", c)' => ~node'[p].working
  BY Tree DEF PlantInv, WorkInv
<1>3. ~\E k, l \in Nodes : Pending("start", k)' /\ Pending("finish", l)'
  BY DEF PlantInv, WorkInv
<1>4. QED
  BY <1>1, <1>2, <1>3 DEF WorkInv

(* The guard of startWork() holds in a child that its parent has started.  *)
LEMMA GuardPassed ==
    ASSUME PlantInv, NEW n \in Nodes \ {Root}, Top("start", n)
    PROVE  node[n].ready /\ ~node[n].blocking
<1> DEFINE p == Parent(n)
<1>1. p \in Nodes /\ n \in Kids(p)
  BY Tree
<1>2. Head(stack) = Call("start", n) /\ Head(stack) \in CallFrame /\ Head(stack) \in Range(stack)
  BY RunningCall, Running
<1> HIDE DEF p
<1>3. node[p].working /\ ~node[p].blocking /\ node[p].ready
  BY <1>1, <1>2 DEF PlantInv, WorkInv, Pending
<1>4. ~node[p].childBlock[n]
  BY <1>1, <1>3 DEF PlantInv, ToldInv, Blocks
<1>5. QED
  BY <1>1, <1>2, <1>3, <1>4 DEF PlantInv, BlockInv, OrderInv, ReadyBottomUp

(* The next call returns without making any, or calls the children to      *)
(* advance.                                                                *)
LEMMA CallStep ==
    ASSUME PlantInv, NEW n \in Nodes, NEW op \in {"advance", "start", "finish"}, Top(op, n),
           stack' = Tail(stack) \/ stack' = CallEach("advance", n) \o Tail(stack),
           op = "start" => n = Root, op = "finish" => ~node[n].working,
           UNCHANGED <<node, host, loop>>
    PROVE  PlantInv'
<1>1. /\ stack # <<>> /\ Head(stack) = Call(op, n) /\ Head(stack) \in CallFrame
      /\ \A k \in Nodes : ~Reporting(k)
  BY RunningCall
<1>2. Tail(stack) \in Seq(CallFrame) /\ Range(stack) = {Call(op, n)} \cup Range(Tail(stack))
  BY <1>1, Running
<1>3. /\ stack' \in Seq(CallFrame)
      /\ \A f \in Range(stack') : f \in Range(Tail(stack)) \/ f.op = "advance"
      /\ \A f \in Range(Tail(stack)) : f \in Range(stack')
  <2>1. CASE stack' = Tail(stack)
    BY <1>2, <2>1
  <2>2. CASE stack' = CallEach("advance", n) \o Tail(stack)
    <3>1. /\ CallEach("advance", n) \in Seq(CallFrame)
          /\ \A f \in Range(CallEach("advance", n)) : f.op = "advance"
      BY CallsToChildren, Frames
    <3>2. stack' \in Seq(CallFrame) /\ Range(stack') = Range(CallEach("advance", n)) \cup Range(Tail(stack))
      <4> DEFINE a == CallEach("advance", n)
                 t == Tail(stack)
      <4>1. a \in Seq(CallFrame) /\ t \in Seq(CallFrame) /\ stack' = a \o t
        BY <1>2, <2>2, <3>1
      <4> HIDE DEF a, t
      <4>2. a \o t \in Seq(CallFrame) /\ Range(a \o t) = Range(a) \cup Range(t)
        BY <4>1, RangeOfConcat
      <4>3. QED
        BY <4>1, <4>2 DEF a, t
    <3>3. QED
      BY <3>1, <3>2
  <2>3. QED
    BY <2>1, <2>2
<1>4. ASSUME NEW k \in Nodes, NEW o \in {"start", "finish", "recompute"}
      PROVE  /\ Pending(o, k)' => Pending(o, k)
             /\ Pending(o, k) => Pending(o, k)' \/ (o = op /\ k = n)
  <2>1. Call(o, k).op = o /\ Call(o, k).node = k /\ Call(op, n).op = op /\ Call(op, n).node = n
    BY Frames
  <2>2. QED
    BY <1>2, <1>3, <2>1 DEF Pending
<1>5. WorkInv'
  <2>1. ASSUME NEW p \in Nodes, NEW c \in Kids(p), NEW o \in {"start", "finish"}, Pending(o, c), ~Pending(o, c)'
        PROVE  node[c].working = node[p].working
    <3>1. o = op /\ c = n /\ c # Root /\ c \in Nodes
      BY <1>4, <2>1, Tree
    <3>2. op = "finish" /\ ~node[c].working /\ ~node[p].working
      BY <2>1, <3>1 DEF PlantInv, WorkInv
    <3>3. node[c].working \in BOOLEAN /\ node[p].working \in BOOLEAN
      BY <3>1, NodeTyped DEF HierNode
    <3>4. QED
      BY <3>2, <3>3
  <2>2. QED
    BY <1>4, <2>1, WorkKept
<1>6. host' = node[Root].last
  BY <1>1, Tree DEF PlantInv, HeardInv
<1>7. QED
  BY <1>1, <1>3, <1>4, <1>5, <1>6, StackStep DEF PlantInv, TypeOK

(* The host has the root's report.                                         *)
LEMMA HostStep ==
    ASSUME PlantInv, report(Root)
    PROVE  PlantInv'
<1>1. Top("report", Root) /\ host' = Head(stack).report /\ stack' = Tail(stack) /\ UNCHANGED <<node, loop>>
  BY DEF report
<1>2. /\ stack # <<>> /\ Head(stack) \in ReportFrame /\ Head(stack).op = "report"
      /\ \A k \in Nodes : Reporting(k) => k = Root
  BY <1>1, Running, Frames DEF Top, Reporting
<1>3. Tail(stack) \in Seq(CallFrame) /\ Range(stack) = {Head(stack)} \cup Range(Tail(stack))
  BY <1>2, Running
<1>4. host' = node[Root].last
  BY <1>1, <1>2 DEF PlantInv, StackInv, Top
<1>5. ASSUME NEW k \in Nodes, NEW o \in {"start", "finish", "recompute"}  PROVE Pending(o, k)' <=> Pending(o, k)
  <2>1. Call(o, k).op = o
    BY Frames
  <2>2. QED
    BY <1>1, <1>2, <1>3, <2>1 DEF Pending
<1>6. WorkInv'
  BY <1>1, <1>5, WorkKept, Tree
<1>7. QED
  BY <1>1, <1>2, <1>3, <1>4, <1>5, <1>6, StackStep DEF PlantInv, TypeOK

(* The PlantController calls the root, or counts.                          *)
LEMMA ControllerStep ==
    ASSUME PlantInv, Quiet, UNCHANGED <<node, host>>, loop' \in {<<>>} \cup {<<k>> : k \in 0..MaxRounds},
           \/ stack' = stack
           \/ \E op \in {"advance", "start", "finish"} : stack' = <<Call(op, Root)>>
    PROVE  PlantInv'
<1>1. stack = <<>> /\ Range(stack) = {} /\ \A k \in Nodes : ~Reporting(k)
  BY DEF Quiet, Range, Reporting, Top
<1>2. host' = node[Root].last
  BY <1>1, Tree DEF PlantInv, HeardInv
<1>3. /\ stack' \in Seq(CallFrame)
      /\ \E op \in {"advance", "start", "finish"} : Range(stack') \subseteq {Call(op, Root)}
  <2>1. CASE stack' = stack
    BY <1>1, <2>1
  <2>2. ASSUME NEW op \in {"advance", "start", "finish"}, stack' = <<Call(op, Root)>>
        PROVE  stack' \in Seq(CallFrame) /\ Range(stack') = {Call(op, Root)}
    <3> DEFINE x == Call(op, Root)
    <3>1. x \in CallFrame
      BY Frames, Tree
    <3> HIDE DEF x
    <3>2. stack' = <<x>>
      BY <2>2 DEF x
    <3>3. stack' \in Seq(CallFrame) /\ Range(stack') = {x}
      BY <3>1, <3>2 DEF Range
    <3>4. QED
      BY <3>3 DEF x
  <2>3. QED
    BY <2>1, <2>2
<1>4. PICK op \in {"advance", "start", "finish"} : Range(stack') \subseteq {Call(op, Root)}
  BY <1>3
<1>5. ASSUME NEW k \in Nodes, NEW o, Pending(o, k)'  PROVE o = op /\ k = Root
  <2>1. Call(o, k) = Call(op, Root)
    BY <1>4, <1>5 DEF Pending
  <2>2. QED
    BY <2>1, Frames
<1>6. WorkInv'
  <2>1. \A n \in Nodes : node'[n].working => node'[n].ready
    BY DEF PlantInv, WorkInv
  <2>2. ASSUME NEW p \in Nodes, NEW c \in Kids(p)
        PROVE  /\ ~(node'[p].working /\ ~node'[c].working) /\ ~(~node'[p].working /\ node'[c].working)
               /\ ~Pending("start", c)' /\ ~Pending("finish", c)'
    BY <1>1, <1>5, Tree DEF PlantInv, WorkInv, Pending
  <2>3. ~\E k, l \in Nodes : Pending("start", k)' /\ Pending("finish", l)'
    BY <1>5
  <2>4. QED
    BY <2>1, <2>2, <2>3 DEF WorkInv
<1>7. \A n \in Nodes : ~Pending("recompute", n)
  BY <1>1 DEF Pending
<1>8. QED
  BY <1>1, <1>2, <1>3, <1>6, <1>7, StackStep

(* The calls of a command that ends with a report.                         *)
LEMMA CallsAndReport ==
    ASSUME NEW n \in Nodes, NEW op \in {"start", "finish"}, NEW rest \in Seq(CallFrame)
    PROVE  /\ CallEach(op, n) \o <<Call("recompute", n)>> \o rest \in Seq(CallFrame)
           /\ Range(CallEach(op, n) \o <<Call("recompute", n)>> \o rest)
                = {Call(op, c) : c \in Kids(n)} \cup {Call("recompute", n)} \cup Range(rest)
<1> DEFINE x == Call("recompute", n)
           a == CallEach(op, n)
           b == <<x>>
           d == a \o b
<1>1. x \in CallFrame
  BY Frames
<1>2. a \in Seq(CallFrame) /\ Range(a) = {Call(op, c) : c \in Kids(n)}
  BY CallsToChildren
<1> HIDE DEF x, a
<1>3. b \in Seq(CallFrame) /\ Range(b) = {x}
  BY <1>1 DEF Range
<1> HIDE DEF b
<1>4. d \in Seq(CallFrame) /\ Range(d) = Range(a) \cup Range(b)
  BY <1>2, <1>3, RangeOfConcat
<1> HIDE DEF d
<1>5. d \o rest \in Seq(CallFrame) /\ Range(d \o rest) = Range(d) \cup Range(rest)
  BY <1>4, RangeOfConcat
<1>6. /\ d \o rest \in Seq(CallFrame)
      /\ Range(d \o rest) = {Call(op, c) : c \in Kids(n)} \cup {x} \cup Range(rest)
  BY <1>2, <1>3, <1>4, <1>5
<1>7. QED
  BY <1>6, Zenon DEF d, b, a, x

(* startWork() or finishWork() of a node that obeys: it changes, its       *)
(* children are called, and its report comes last.                         *)
LEMMA Obeys ==
    ASSUME PlantInv, NEW n \in Nodes, NEW op \in {"start", "finish"}, Top(op, n),
           NEW w \in BOOLEAN, w <=> op = "start", NEW st \in Steps,
           w => node[n].ready /\ ~node[n].blocking, ~w => node[n].working,
           node' = [node EXCEPT ![n].working = w, ![n].step = st],
           stack' = CallEach(op, n) \o <<Call("recompute", n)>> \o Tail(stack),
           UNCHANGED <<host, loop>>
    PROVE  PlantInv'
<1> DEFINE q == [node[n] EXCEPT !.working = w, !.step = st]
<1>1. node[n] \in HierNode(n) /\ node[n].pos <= Len(Plan[n]) /\ DOMAIN node = Nodes
  BY NodeTyped
<1>2. /\ q \in HierNode(n) /\ q.working = w /\ q.step = st /\ q.pos = node[n].pos /\ q.ready = node[n].ready
      /\ q.fault = node[n].fault /\ q.blocking = node[n].blocking /\ q.last = node[n].last
      /\ q.childReady = node[n].childReady /\ q.childBlock = node[n].childBlock
  BY <1>1 DEF HierNode
<1>3. node' = [node EXCEPT ![n] = q]
  BY <1>1 DEF HierNode
<1> HIDE DEF q
<1>4. DOMAIN node' = Nodes /\ node'[n] = q /\ \A k \in Nodes : k # n => node'[k] = node[k]
  BY <1>1, <1>3
<1>5. /\ stack # <<>> /\ Head(stack) = Call(op, n) /\ Head(stack) \in CallFrame
      /\ \A k \in Nodes : ~Reporting(k)
  BY RunningCall
<1>6. Tail(stack) \in Seq(CallFrame) /\ Range(stack) = {Call(op, n)} \cup Range(Tail(stack))
  BY <1>5, Running
<1>7. /\ stack' \in Seq(CallFrame)
      /\ Range(stack') = {Call(op, c) : c \in Kids(n)} \cup {Call("recompute", n)} \cup Range(Tail(stack))
  BY <1>6, CallsAndReport
<1>8. \A f \in Range(stack') : f \in CallFrame
  BY <1>7 DEF Range
<1>9. stack' # <<>> => (\A f \in Range(Tail(stack')) : f \in CallFrame) /\ Head(stack') \in CallFrame
  <2> DEFINE z == stack'
  <2>1. z \in Seq(CallFrame)
    BY <1>7
  <2> HIDE DEF z
  <2>2. z # <<>> => Range(z) = {Head(z)} \cup Range(Tail(z)) /\ Head(z) \in CallFrame
    BY <2>1, RangeOfTail, Zenon
  <2>3. QED
    BY <1>8, <2>2 DEF z
<1>10. \A k \in Nodes : ~Reporting(k)'
  BY <1>9, Frames DEF Reporting, Top
<1>11. TypeOK' /\ StackInv'
  <2>1. stack' \in Seq(CallFrame \cup ReportFrame)
    BY <1>7
  <2>2. TypeOK'
    BY <1>1, <1>2, <1>4, <2>1 DEF PlantInv, TypeOK
  <2>3. StackInv'
    BY <1>9, Frames DEF StackInv
  <2>4. QED
    BY <2>2, <2>3
<1>12. ASSUME NEW k \in Nodes, NEW o \in {"start", "finish", "recompute"}
       PROVE  /\ Pending(o, k)' <=> \/ Call(o, k) \in Range(Tail(stack))
                                    \/ (o = op /\ k \in Kids(n))
                                    \/ (o = "recompute" /\ k = n)
              /\ Pending(o, k) <=> Call(o, k) \in Range(Tail(stack)) \/ (o = op /\ k = n)
  <2>1. \A o1, o2, k1, k2 : Call(o1, k1) = Call(o2, k2) <=> o1 = o2 /\ k1 = k2
    BY Frames
  <2>2. Call(o, k) \in {Call(op, c) : c \in Kids(n)} <=> o = op /\ k \in Kids(n)
    BY <2>1
  <2>3. QED
    BY <1>6, <1>7, <2>1, <2>2 DEF Pending
<1>13. ToldInv'
  <2>1. ASSUME NEW k \in Nodes, k # n  PROVE Blocks(k, node[k])' = Blocks(k, node[k])
    BY <1>4, <2>1 DEF Blocks
  <2>2. Blocks(n, q) = Blocks(n, node[n])
    BY <1>2 DEF Blocks
  <2>3. node[n].last # NoReport
    BY DEF PlantInv, ToldInv, WorkInv
  <2>4. QED
    BY <1>2, <1>4, <1>12, <2>1, <2>2, <2>3 DEF PlantInv, ToldInv
<1>14. /\ \A k \in Nodes : /\ node'[k].last = node[k].last /\ node'[k].childReady = node[k].childReady
                           /\ node'[k].childBlock = node[k].childBlock /\ node'[k].ready = node[k].ready
                           /\ node'[k].pos = node[k].pos /\ node'[k].blocking = node[k].blocking
  BY <1>2, <1>4
<1>15. HeardInv'
  <2>1. \A p \in Nodes : \A c \in Kids(p) :
           Believes(node[p], c) /\ (node[c].last # NoReport => node[p].last # NoReport)
    BY <1>5, Tree DEF PlantInv, HeardInv
  <2>2. host = node[Root].last
    BY <1>5, Tree DEF PlantInv, HeardInv
  <2>3. QED
    <3>1. ASSUME NEW p \in Nodes, NEW c \in Kids(p)
          PROVE  (Believes(node[p], c) /\ (node[c].last # NoReport => node[p].last # NoReport))'
      <4>1. c \in Nodes
        BY Tree
      <4>2. /\ node'[c].last = node[c].last /\ node'[p].last = node[p].last
            /\ node'[p].childReady = node[p].childReady /\ node'[p].childBlock = node[p].childBlock
        BY <1>14, <4>1
      <4>3. QED
        BY <2>1, <4>2 DEF Believes
    <3>2. host' = node'[Root].last
      BY <1>14, <2>2, Tree
    <3>3. QED
      BY <3>1, <3>2 DEF HeardInv
<1>16. OrderInv'
  <2>1. OrderInv /\ \A p \in Nodes : Kids(p) \subseteq Nodes
    BY Tree DEF PlantInv
  <2>2. ReadyBottomUp'
    <3> SUFFICES ASSUME NEW n1 \in Nodes, node'[n1].ready
                 PROVE  node'[n1].pos = Len(Plan[n1]) /\ \A c \in Kids(n1) : node'[c].ready
      BY DEF ReadyBottomUp
    <3>1. node[n1].pos = Len(Plan[n1]) /\ \A c \in Kids(n1) : c \in Nodes /\ node[c].ready
      BY <1>14, <2>1 DEF OrderInv, ReadyBottomUp
    <3> QED
      BY <1>14, <3>1
  <2>3. (\A p \in Nodes : \A c \in Kids(p) : node[p].childReady[c] => node[c].ready)'
    <3> SUFFICES ASSUME NEW p \in Nodes, NEW c \in Kids(p), node'[p].childReady[c]  PROVE node'[c].ready
      OBVIOUS
    <3>1. c \in Nodes /\ (node[p].childReady[c] => node[c].ready)
      BY <2>1 DEF OrderInv
    <3> QED
      BY <1>14, <3>1
  <2>4. QED
    BY <2>2, <2>3 DEF OrderInv
<1>17. BlockInv'
  <2>1. \A p \in Nodes : \A c \in Kids(p) : node[p].childBlock[c] = node[c].blocking
    BY <1>5, <1>6 DEF PlantInv, BlockInv
  <2>2. ASSUME NEW p \in Nodes, NEW c \in Kids(p)  PROVE node'[p].childBlock[c] = node'[c].blocking
    <3>1. c \in Nodes
      BY Tree
    <3>2. node'[p].childBlock = node[p].childBlock /\ node'[c].blocking = node[c].blocking
      BY <1>14, <3>1
    <3>3. QED
      BY <2>1, <3>2
  <2>3. QED
    BY <2>2 DEF BlockInv
<1>18. WorkInv'
  <2>1. \A k \in Nodes : node'[k].working => node'[k].ready
    BY <1>2, <1>4, <1>14 DEF PlantInv, WorkInv
  <2>2. Pending(op, n)
    BY <1>12
  <2>3. \A k \in Nodes, o \in {"start", "finish"} : o # op => ~Pending(o, k) /\ ~Pending(o, k)'
    BY <1>12, <2>2 DEF PlantInv, WorkInv
  <2>4. ASSUME NEW p \in Nodes, NEW c \in Kids(p)
        PROVE  /\ node'[p].working /\ ~node'[c].working => Pending("start", c)'
               /\ ~node'[p].working /\ node'[c].working => Pending("finish", c)'
               /\ Pending("start", c)' => node'[p].working /\ ~node'[p].blocking
               /\ Pending("finish", c)' => ~node'[p].working
    <3>0. c \in Nodes /\ c # p
      BY Tree
    <3>1. CASE p = n
      BY <1>2, <1>4, <1>12, <1>14, <2>3, <3>0, <3>1
    <3>2. CASE c = n
      <4>1. node'[p].working = node[p].working /\ node'[p].blocking = node[p].blocking /\ node'[c].working = w
        BY <1>2, <1>4, <3>0, <3>2
      <4>2. op = "start" => node[p].working /\ ~node[p].blocking
        BY <2>2, <3>2 DEF PlantInv, WorkInv
      <4>3. op = "finish" => ~node[p].working
        BY <2>2, <3>2 DEF PlantInv, WorkInv
      <4>4. QED
        BY <2>3, <3>0, <4>1, <4>2, <4>3
    <3>3. CASE p # n /\ c # n
      <4>1. c \notin Kids(n)
        BY <3>3, Tree
      <4>2. \A o \in {"start", "finish"} : Pending(o, c)' <=> Pending(o, c)
        BY <1>12, <3>0, <3>3, <4>1
      <4>3. QED
        BY <1>4, <3>0, <3>3, <4>2 DEF PlantInv, WorkInv
    <3>4. QED
      BY <3>1, <3>2, <3>3
  <2>5. ~\E k, l \in Nodes : Pending("start", k)' /\ Pending("finish", l)'
    BY <2>3
  <2>6. QED
    BY <2>1, <2>4, <2>5 DEF WorkInv
<1>19. QED
  BY <1>11, <1>13, <1>15, <1>16, <1>17, <1>18 DEF PlantInv

-----------------------------------------------------------------------------
(* The invariant of a plant holds throughout: commands, reports and faults *)
(* of any tree of nodes.                                                   *)
THEOREM PlantInvariance == Spec => []PlantInv
<1>1. Init => PlantInv
  <2> SUFFICES ASSUME Init  PROVE PlantInv
    OBVIOUS
  <2>1. DOMAIN node = Nodes /\ Range(stack) = {} /\ stack = <<>>
    BY DEF Init, Range
  <2>2. ASSUME NEW n \in Nodes
        PROVE  /\ node[n] \in HierNode(n) /\ node[n].pos = 0
               /\ ~node[n].ready /\ ~node[n].working /\ node[n].fault = "NONE" /\ ~node[n].blocking
               /\ node[n].last = NoReport
               /\ \A c \in Kids(n) : ~node[n].childReady[c] /\ ~node[n].childBlock[c]
    <3> DEFINE no == [c \in Kids(n) |-> FALSE]
    <3>1. no \in [Kids(n) -> BOOLEAN] /\ \A c \in Kids(n) : no[c] = FALSE
      OBVIOUS
    <3>2. node[n] = [pos |-> 0, step |-> "UNKNOWN", ready |-> FALSE, working |-> FALSE, fault |-> "NONE",
                     blocking |-> FALSE, childReady |-> no, childBlock |-> no, last |-> NoReport]
      BY DEF Init
    <3>3. "UNKNOWN" \in Steps /\ "NONE" \in FaultLevel
      BY DEF Steps, FaultLevel
    <3> HIDE DEF no
    <3>4. QED
      BY <3>1, <3>2, <3>3 DEF HierNode
  <2>3. TypeOK
    <3>1. \A n \in Nodes : Len(Plan[n]) \in Nat
      BY PlantAssumption
    <3>2. \A n \in Nodes : node[n] \in HierNode(n) /\ node[n].pos <= Len(Plan[n])
      BY <2>2, <3>1
    <3>3. stack \in Seq(CallFrame \cup ReportFrame)
      BY <2>1
    <3>4. QED
      BY <2>1, <3>2, <3>3 DEF Init, TypeOK
  <2>4. StackInv /\ BlockInv
    BY <2>1 DEF StackInv, BlockInv
  <2>5. ToldInv
    <3>1. ASSUME NEW n \in Nodes  PROVE ~Blocks(n, node[n])
      BY <2>2 DEF Blocks, decideProductionImpact
    <3>2. QED
      BY <2>2, <3>1 DEF ToldInv, HierNode, Blocks, decideProductionImpact
  <2>6. HeardInv /\ OrderInv
    BY <2>2, Tree DEF Init, HeardInv, Believes, OrderInv, ReadyBottomUp
  <2>7. WorkInv
    BY <2>1, <2>2, Tree DEF WorkInv, Pending
  <2>8. QED
    BY <2>3, <2>4, <2>5, <2>6, <2>7 DEF PlantInv
<1>2. PlantInv /\ [Next]_vars => PlantInv'
  <2> SUFFICES ASSUME PlantInv, [Next]_vars  PROVE PlantInv'
    OBVIOUS
  <2>0. loop \in {<<>>} \cup {<<k>> : k \in 0..MaxRounds}
    BY DEF PlantInv, TypeOK
  <2>1. CASE Round
    <3>1. PICK k \in 0..MaxRounds : loop = <<k>>
      BY <2>0, <2>1 DEF Round
    <3>2. loop' = <<k + 1>> /\ k + 1 \in 0..MaxRounds
      BY <2>1, <3>1, PlantAssumption DEF Round
    <3>3. QED
      BY <2>1, <3>2, ControllerStep DEF Round
  <2>2. CASE LoopEnd
    BY <2>2, ControllerStep DEF LoopEnd
  <2>3. CASE runToReady
    <3>1. loop' = <<0>> /\ 0 \in 0..MaxRounds
      BY <2>3, PlantAssumption DEF runToReady
    <3>2. QED
      BY <2>3, <3>1, ControllerStep DEF runToReady, Idle
  <2>4. ASSUME NEW op \in {"advance", "start", "finish"}, Command(op)  PROVE PlantInv'
    BY <2>0, <2>4, ControllerStep DEF Command, Idle
  <2>5. ASSUME NEW n \in Nodes, AdvanceHalts(n) \/ AdvanceChildren(n)  PROVE PlantInv'
    BY <2>5, CallStep DEF AdvanceHalts, AdvanceChildren
  <2>6. ASSUME NEW n \in Nodes, AdvanceSelf(n) \/ Recompute(n)  PROVE PlantInv'
    BY <2>6, AdvanceSelfInv, RecomputeInv
  <2>7. ASSUME NEW n \in Nodes, startWork(n)  PROVE PlantInv'
    <3>1. Top("start", n) /\ UNCHANGED <<host, loop>>
      BY <2>7 DEF startWork
    <3>2. CASE ~node[n].ready \/ node[n].blocking
      <4>1. n = Root
        BY <3>1, <3>2, GuardPassed
      <4>2. QED
        BY <2>7, <3>1, <3>2, <4>1, CallStep DEF startWork
    <3>3. CASE node[n].ready /\ ~node[n].blocking
      <4>1. /\ node' = [node EXCEPT ![n].working = TRUE, ![n].step = "WORK"]
            /\ stack' = CallEach("start", n) \o <<Call("recompute", n)>> \o Tail(stack)
        BY <2>7, <3>3 DEF startWork
      <4>2. "WORK" \in Steps
        BY DEF Steps
      <4>3. QED
        BY <3>1, <3>3, <4>1, <4>2, Obeys
    <3>4. QED
      BY <3>2, <3>3
  <2>8. ASSUME NEW n \in Nodes, finishWork(n)  PROVE PlantInv'
    <3>1. Top("finish", n) /\ UNCHANGED <<host, loop>>
      BY <2>8 DEF finishWork
    <3>2. CASE ~node[n].working
      BY <2>8, <3>1, <3>2, CallStep DEF finishWork
    <3>3. CASE node[n].working
      <4>1. /\ node' = [node EXCEPT ![n].working = FALSE, ![n].step = "DONE"]
            /\ stack' = CallEach("finish", n) \o <<Call("recompute", n)>> \o Tail(stack)
        BY <2>8, <3>3 DEF finishWork
      <4>2. "DONE" \in Steps
        BY DEF Steps
      <4>3. QED
        BY <3>1, <3>3, <4>1, <4>2, Obeys
    <3>4. QED
      BY <3>2, <3>3
  <2>9. ASSUME NEW n \in Nodes, report(n)  PROVE PlantInv'
    BY <2>9, ReportInv, HostStep
  <2>10. ASSUME NEW n \in Fragile, NEW sev \in {"ALARM", "BLOCKING"}, fail(n, sev)
         PROVE  PlantInv'
    BY <2>10, FailInv, PlantAssumption
  <2>11. ASSUME NEW n \in Fragile, clearFault(n)  PROVE PlantInv'
    BY <2>11, FailInv, PlantAssumption
  <2>12. CASE UNCHANGED vars
    <3>1. node' = node /\ stack' = stack /\ host' = host /\ loop' = loop
      BY <2>12 DEF vars
    <3>2. TypeOK' /\ StackInv'
      BY <3>1 DEF PlantInv, TypeOK, StackInv
    <3>3. ToldInv'
      BY <3>1 DEF PlantInv, ToldInv, Pending, Blocks
    <3>4. HeardInv'
      BY <3>1 DEF PlantInv, HeardInv, Reporting, Top, Believes
    <3>5. OrderInv' /\ BlockInv' /\ WorkInv'
      BY <3>1 DEF PlantInv, OrderInv, BlockInv, WorkInv, Pending, ReadyBottomUp
    <3>6. QED
      BY <3>2, <3>3, <3>4, <3>5 DEF PlantInv
  <2>13. CASE Step
    BY <2>1, <2>2, <2>5, <2>6, <2>7, <2>8, <2>9, <2>13, Zenon DEF Step
  <2>14. QED
    BY <2>3, <2>4, <2>10, <2>11, <2>12, <2>13, Zenon DEF Next
<1>3. QED
  BY <1>1, <1>2, PTL DEF Spec

(* Every variable of a plant has its type, and no plan is overrun by       *)
(* promoteSelf().                                                          *)
THEOREM PlantTyped == Spec => []TypeOK
<1>1. PlantInv => TypeOK
  BY DEF PlantInv
<1>2. QED
  BY <1>1, PlantInvariance, PTL

(* Between calls nobody reports.                                           *)
LEMMA QuietCalm ==
    ASSUME PlantInv, Quiet
    PROVE  /\ \A p \in Nodes : \A c \in Kids(p) :
                 Believes(node[p], c) /\ (node[c].last # NoReport => node[p].last # NoReport)
           /\ host = node[Root].last
           /\ \A op, n : ~Pending(op, n)
<1>1. \A op, n : ~Pending(op, n) /\ ~Reporting(n)
  BY DEF Quiet, Pending, Range, Reporting, Top
<1>2. QED
  BY <1>1 DEF PlantInv, HeardInv

(* In every plant a node, and in the end the host, is told of an impact on *)
(* production exactly if there is one at or below it.                      *)
THEOREM Escalation == Spec => []EscalatesExactly
<1>1. PlantInv => EscalatesExactly
  <2> SUFFICES ASSUME PlantInv, Quiet
               PROVE  /\ \A n \in Nodes :
                            node[n].blocking <=> Affected(n) \/ \E c \in Kids(n) : node[c].blocking
                      /\ IF host = NoReport THEN \A n \in Nodes : ~Affected(n)
                         ELSE host.blocking = node[Root].blocking /\ host.fault = node[Root].fault
    BY DEF EscalatesExactly
  <2>1. ASSUME NEW p \in Nodes, NEW c \in Kids(p)  PROVE node[p].childBlock[c] <=> node[c].blocking
    <3>1. c \in Nodes
      BY Tree
    <3>2. QED
      BY <3>1, QuietCalm DEF Believes, PlantInv, ToldInv
  <2>2. ASSUME NEW n \in Nodes
        PROVE  node[n].blocking <=> Affected(n) \/ \E c \in Kids(n) : node[c].blocking
    <3>1. node[n].blocking = Blocks(n, node[n])
      BY DEF PlantInv, ToldInv
    <3>2. QED
      BY <2>1, <3>1 DEF Blocks, Affected
  <2>3. ASSUME host = NoReport  PROVE \A n \in Nodes : ~Affected(n)
    <3> DEFINE S == {n \in Nodes : node[n].last = NoReport}
    <3>1. Root \in S /\ \A p \in S : Kids(p) \subseteq S
      BY <2>3, QuietCalm, Tree
    <3>2. S = Nodes
      <4> HIDE DEF S
      <4>1. S \in SUBSET Nodes
        BY DEF S
      <4>2. QED
        BY <3>1, <4>1, Everywhere
    <3>3. \A n \in Nodes : node[n].fault = "NONE"
      BY <3>2 DEF PlantInv, ToldInv
    <3>4. QED
      BY <3>3 DEF Affected, decideProductionImpact
  <2>4. host # NoReport => host.blocking = node[Root].blocking /\ host.fault = node[Root].fault
    BY QuietCalm, Tree DEF PlantInv, ToldInv
  <2>5. QED
    BY <2>2, <2>3, <2>4
<1>2. QED
  BY <1>1, PlantInvariance, PTL

(* In every plant, parents and host know the progress below them, once the *)
(* reports have arrived.                                                   *)
THEOREM Picture == Spec => []PictureIsTrue
<1>1. PlantInv => PictureIsTrue
  <2> SUFFICES ASSUME PlantInv, Quiet
               PROVE  /\ \A n \in Nodes : \A c \in Kids(n) : node[n].childReady[c] = node[c].ready
                      /\ host # NoReport => host.ready = node[Root].ready /\ host.step = node[Root].step
    BY DEF PictureIsTrue
  <2>1. ASSUME NEW p \in Nodes, NEW c \in Kids(p)  PROVE node[p].childReady[c] = node[c].ready
    <3>1. c \in Nodes /\ node[p].childReady[c] \in BOOLEAN /\ node[c].ready \in BOOLEAN
      BY NodeTyped, Tree DEF HierNode
    <3>2. QED
      BY <3>1, QuietCalm DEF Believes, PlantInv, ToldInv
  <2>2. host # NoReport => host.ready = node[Root].ready /\ host.step = node[Root].step
    BY QuietCalm, Tree DEF PlantInv, ToldInv
  <2>3. QED
    BY <2>1, <2>2
<1>2. QED
  BY <1>1, PlantInvariance, PTL

(* In every plant nobody is ready before its plan is done and its children *)
(* are, in the middle of a command neither.                                *)
THEOREM BottomUp == Spec => []ReadyBottomUp
<1>1. PlantInv => ReadyBottomUp
  BY DEF PlantInv, OrderInv
<1>2. QED
  BY <1>1, PlantInvariance, PTL

(* In every plant startWork() and finishWork() of the root take all nodes  *)
(* with them, or none.                                                     *)
THEOREM OneLine == Spec => []WorksAsOne
<1>1. PlantInv => WorksAsOne
  <2> SUFFICES ASSUME PlantInv, Quiet
               PROVE  \A n \in Nodes : node[n].working = node[Root].working
    BY DEF WorksAsOne
  <2> DEFINE S == {n \in Nodes : node[n].working = node[Root].working}
  <2>1. ASSUME NEW p \in Nodes, NEW c \in Kids(p)  PROVE node[c].working = node[p].working
    <3>1. c \in Nodes /\ node[p].working \in BOOLEAN /\ node[c].working \in BOOLEAN
      BY NodeTyped, Tree DEF HierNode
    <3>2. QED
      BY <3>1, QuietCalm DEF PlantInv, WorkInv
  <2>2. Root \in S /\ \A p \in S : Kids(p) \subseteq S
    BY <2>1, Tree
  <2>3. S = Nodes
    <3> HIDE DEF S
    <3>1. S \in SUBSET Nodes
      BY DEF S
    <3>2. QED
      BY <2>2, <3>1, Everywhere
  <2>4. QED
    BY <2>3
<1>2. QED
  BY <1>1, PlantInvariance, PTL
-----------------------------------------------------------------------------
(* Plant: runToReady() in time.  In a plant without faults every node is   *)
(* on time after each round, and in mid-round the ones that are a round    *)
(* behind are those that a pending advance() will still reach.             *)

Due      == CHOOSE due \in [Nodes -> 1..MaxRounds] : Fits(due)
NoFaults == \A n \in Nodes : node[n].fault = "NONE"
Under(a) == {n \in Nodes : \A S \in SUBSET Nodes :
                a \in S /\ (\A p \in S : Kids(p) \subseteq S) => n \in S}

(* The rounds that promoteSelf() needs, and the one after which it begins. *)
Work(n)  == IF Len(Plan[n]) = 0 THEN 1 ELSE Len(Plan[n])
Begin(n) == Due[n] - Work(n)

(* After k rounds node n is as far as it has to be.                        *)
OnTime(n, k) ==
    /\ k >= Due[n] => node[n].ready
    /\ node[n].pos + Begin(n) >= k \/ node[n].pos = Len(Plan[n])

TimeInv ==
    PlansFit /\ NoFaults /\ loop # <<>> =>
        \A n \in Nodes :
            \/ OnTime(n, loop[1])
            \/ /\ loop[1] > 0 /\ OnTime(n, loop[1] - 1)
               /\ \E a \in Nodes : Pending("advance", a) /\ n \in Under(a)

(* The timetable.                                                          *)
LEMMA Timetable ==
    ASSUME PlansFit, NEW n \in Nodes
    PROVE  /\ Due[n] \in 1..MaxRounds /\ Len(Plan[n]) \in Nat /\ Work(n) \in Nat \ {0}
           /\ Begin(n) \in Nat /\ Due[n] = Begin(n) + Work(n) /\ Work(n) >= Len(Plan[n])
           /\ \A c \in Kids(n) : Due[c] \in Nat /\ Due[c] <= Begin(n) /\ Due[c] < Due[n]
<1>1. Due \in [Nodes -> 1..MaxRounds] /\ Fits(Due)
  BY DEF PlansFit, Due
<1>2. MaxRounds \in Nat /\ Len(Plan[n]) \in Nat
  BY PlantAssumption
<1>3. Due[n] \in 1..MaxRounds /\ Due[n] >= Len(Plan[n])
  BY <1>1 DEF Fits
<1>4. ASSUME NEW c \in Kids(n)
      PROVE  Due[c] \in Nat /\ Due[n] > Due[c] /\ Due[n] >= Due[c] + Len(Plan[n])
  <2>1. c \in Nodes
    BY Tree
  <2>2. QED
    BY <1>1, <1>2, <2>1 DEF Fits
<1>5. Work(n) \in Nat \ {0} /\ Work(n) >= Len(Plan[n]) /\ Work(n) <= Due[n]
  BY <1>2, <1>3 DEF Work
<1>6. \A c \in Kids(n) : Due[c] + Work(n) <= Due[n]
  BY <1>2, <1>3, <1>4 DEF Work
<1>7. Begin(n) \in Nat /\ Due[n] = Begin(n) + Work(n)
  BY <1>2, <1>3, <1>5 DEF Begin
<1>8. \A c \in Kids(n) : Due[c] <= Begin(n)
  BY <1>4, <1>5, <1>6, <1>7
<1>9. QED
  BY <1>2, <1>3, <1>4, <1>5, <1>7, <1>8

(* A set of numbers has a least one.                                       *)
LEMMA Least ==
    ASSUME NEW S \in SUBSET Nat, S # {}
    PROVE  \E x \in S : \A y \in S : x <= y
<1> DEFINE R == {ss \in Nat \X Nat : ss[1] < ss[2]}
<1>1. OpToRel(<, Nat) = R
  BY Zenon DEF OpToRel
<1>2. IsWellFoundedOn(R, Nat)
  BY <1>1, NatLessThanWellFounded, Zenon
<1>3. PICK x \in S : \A y \in S : ~(<<y, x>> \in R)
  <2> HIDE DEF R
  <2> QED  BY <1>2, WFMin, Zenon
<1>4. \A y \in S : y < x => <<y, x>> \in R
  OBVIOUS
<1>5. \A y \in S : ~(y < x)
  BY <1>3, <1>4, Zenon
<1>6. QED
  BY <1>5

(* Without faults no command is refused: a node that blocks would have a   *)
(* child that blocks, and that one another.                                *)
LEMMA NobodyBlocks ==
    ASSUME PlantInv, PlansFit, NoFaults, \E f \in Range(stack) : f \in CallFrame
    PROVE  \A n \in Nodes : ~node[n].blocking
<1> SUFFICES ASSUME NEW n \in Nodes, node[n].blocking  PROVE FALSE
  OBVIOUS
<1> DEFINE B == {x \in Nodes : node[x].blocking}
           S == {Due[x] : x \in B}
<1>1. S \in SUBSET Nat /\ S # {}
  BY Timetable
<1>2. PICK d \in S : \A y \in S : d <= y
  <2> HIDE DEF S
  <2> QED  BY <1>1, Least
<1>3. PICK x \in B : d = Due[x]
  BY <1>2
<1>4. node[x].blocking = Blocks(x, node[x]) /\ node[x].fault = "NONE"
  BY <1>3 DEF PlantInv, ToldInv, NoFaults
<1>5. PICK c \in Kids(x) : node[x].childBlock[c]
  BY <1>3, <1>4 DEF Blocks, decideProductionImpact
<1>6. c \in Nodes /\ node[c].blocking
  BY <1>3, <1>5, Tree, NodeTyped DEF PlantInv, BlockInv, HierNode
<1>7. Due[c] \in S /\ Due[c] < Due[x] /\ Due[c] \in Nat /\ Due[x] \in Nat
  BY <1>3, <1>5, <1>6, Timetable
<1>8. QED
  BY <1>2, <1>3, <1>7

(* A node and what is under its children is all there is under it.         *)
LEMMA UnderChildren ==
    ASSUME NEW a \in Nodes, NEW n \in Under(a), n # a
    PROVE  \E c \in Kids(a) : n \in Under(c)
<1> DEFINE S == {a} \cup {x \in Nodes : \E c \in Kids(a) : x \in Under(c)}
<1>1. S \in SUBSET Nodes /\ a \in S
  OBVIOUS
<1>2. ASSUME NEW c \in Nodes  PROVE c \in Under(c)
  BY DEF Under
<1>3. ASSUME NEW c \in Nodes, NEW p \in Under(c), NEW q \in Kids(p)  PROVE q \in Under(c)
  <2>1. p \in Nodes /\ q \in Nodes
    BY Tree DEF Under
  <2>2. ASSUME NEW T \in SUBSET Nodes, c \in T, \A x \in T : Kids(x) \subseteq T  PROVE q \in T
    BY <2>2 DEF Under
  <2>3. QED
    BY <2>1, <2>2 DEF Under
<1>4. ASSUME NEW p \in S, NEW q \in Kids(p)  PROVE q \in S
  <2>1. p \in Nodes /\ q \in Nodes /\ Kids(a) \subseteq Nodes
    BY <1>1, Tree
  <2>2. CASE p = a
    BY <1>2, <2>1, <2>2
  <2>3. CASE p # a
    <3>1. PICK c \in Kids(a) : p \in Under(c)
      BY <2>3
    <3>2. q \in Under(c)
      BY <1>3, <2>1, <3>1
    <3>3. QED
      BY <2>1, <3>2
  <2>4. QED
    BY <2>2, <2>3
<1>5. n \in S
  <2> HIDE DEF S
  <2> QED  BY <1>1, <1>4 DEF Under
<1>6. QED
  BY <1>5

(* What is under a ready node is ready.                                    *)
LEMMA ReadyUnder ==
    ASSUME PlantInv, NEW c \in Nodes, node[c].ready, NEW n \in Under(c)
    PROVE  node[n].ready
<1> DEFINE S == {x \in Nodes : node[x].ready}
<1>1. S \in SUBSET Nodes /\ c \in S
  OBVIOUS
<1>2. \A p \in S : Kids(p) \subseteq S
  BY Tree DEF PlantInv, OrderInv, ReadyBottomUp
<1>3. n \in S
  <2> HIDE DEF S
  <2> QED  BY <1>1, <1>2 DEF Under
<1>4. QED
  BY <1>3

(* A ready node is on time, and a node that need not have begun is too.    *)
LEMMA EarlyOrReady ==
    ASSUME PlantInv, PlansFit, NEW n \in Nodes, NEW k \in Nat, node[n].ready \/ k <= Begin(n)
    PROVE  OnTime(n, k)
<1>1. node[n].pos \in Nat
  BY NodeTyped DEF HierNode
<1>2. CASE node[n].ready
  BY <1>2 DEF OnTime, PlantInv, OrderInv, ReadyBottomUp
<1>3. CASE k <= Begin(n)
  BY <1>1, <1>3, Timetable DEF OnTime
<1>4. QED
  BY <1>2, <1>3

(* The nodes are as far as they were.                                      *)
SameProgress ==
    /\ \A n \in Nodes : /\ node'[n].pos = node[n].pos /\ node'[n].ready = node[n].ready
                        /\ node'[n].fault = node[n].fault
    /\ loop' = loop
    /\ \A a \in Nodes : Pending("advance", a) => Pending("advance", a)'

(* Reports, and the calls of startWork() and finishWork(), make no node    *)
(* late.                                                                   *)
LEMMA SameProgressInv ==
    ASSUME TimeInv, SameProgress
    PROVE  TimeInv'
<1> SUFFICES ASSUME PlansFit, NoFaults', loop' # <<>>, NEW n \in Nodes
             PROVE  \/ OnTime(n, loop[1])'
                    \/ /\ loop'[1] > 0 /\ OnTime(n, loop[1] - 1)'
                       /\ \E a \in Nodes : Pending("advance", a)' /\ n \in Under(a)
  BY DEF TimeInv, PlansFit, Fits, Under, Kids
<1>1. NoFaults /\ loop # <<>> /\ loop' = loop
  BY DEF SameProgress, NoFaults
<1>2. OnTime(n, loop[1])' <=> OnTime(n, loop[1])
  BY <1>1 DEF SameProgress, OnTime, Begin, Work, Due
<1>3. OnTime(n, loop[1] - 1)' <=> OnTime(n, loop[1] - 1)
  BY <1>1 DEF SameProgress, OnTime, Begin, Work, Due
<1>4. QED
  BY <1>1, <1>2, <1>3 DEF TimeInv, SameProgress

(* A report goes in front of the calls that are left.                      *)
LEMMA Behind ==
    ASSUME NEW n \in Nodes, NEW r, NEW rest \in Seq(CallFrame \cup ReportFrame), NEW q, Reports(n, r, rest, q)
    PROVE  Range(rest) \subseteq Range(stack')
<1> DEFINE f == [op |-> "report", node |-> n, report |-> q.last]
           F == CallFrame \cup ReportFrame
<1>1. f \in F /\ rest \in Seq(F)
  BY Frames DEF Reports
<1>2. stack' = rest \/ stack' = <<f>> \o rest
  BY DEF Reports
<1> HIDE DEF f, F
<1>3. Range(<<f>> \o rest) = {f} \cup Range(rest)
  BY <1>1, Pushed
<1>4. QED
  BY <1>2, <1>3

(* recomputeAndReport() with the progress that the node has.               *)
LEMMA SameReport ==
    ASSUME PlantInv, TimeInv, NEW n \in Nodes, NEW r \in HierNode(n),
           r.pos = node[n].pos, r.ready = node[n].ready, r.fault = node[n].fault,
           stack # <<>>, \A a \in Nodes : Head(stack) # Call("advance", a),
           recomputeAndReport(n, r, Tail(stack)), loop' = loop
    PROVE  TimeInv'
<1>1. DOMAIN node = Nodes
  BY NodeTyped
<1>2. PICK q \in HierNode(n) : Reports(n, r, Tail(stack), q)
  BY <1>1, Recomputed
<1>3. \A k \in Nodes : node'[k].pos = node[k].pos /\ node'[k].ready = node[k].ready /\ node'[k].fault = node[k].fault
  BY <1>1, <1>2 DEF Reports
<1>4. Range(Tail(stack)) \subseteq Range(stack')
  <2>1. Tail(stack) \in Seq(CallFrame \cup ReportFrame)
    BY RangeOfTail DEF PlantInv, TypeOK
  <2>2. QED
    BY <1>2, <2>1, Behind
<1>5. \A a \in Nodes : Pending("advance", a) => Pending("advance", a)'
  BY <1>4, Running DEF Pending, Call
<1>6. QED
  BY <1>3, <1>5, SameProgressInv DEF SameProgress

(* The round under way.                                                    *)
LEMMA RoundNumber ==
    ASSUME PlantInv, loop # <<>>
    PROVE  loop[1] \in 0..MaxRounds /\ loop[1] \in Nat
BY PlantAssumption DEF PlantInv, TypeOK

(* advance() that is handed on to the children: node n itself need not     *)
(* have begun, because a child that is not ready is not due.               *)
LEMMA AdvanceChildrenTime ==
    ASSUME PlantInv, TimeInv, NEW n \in Nodes, AdvanceChildren(n)
    PROVE  TimeInv'
<1> SUFFICES ASSUME PlansFit, NoFaults, loop # <<>>, NEW x \in Nodes, ~OnTime(x, loop[1])
             PROVE  /\ loop[1] > 0 /\ OnTime(x, loop[1] - 1)
                    /\ \E a \in Nodes : Pending("advance", a)' /\ x \in Under(a)
  <2>1. UNCHANGED <<node, loop>>
    BY DEF AdvanceChildren
  <2>2. QED
    BY <2>1 DEF TimeInv, NoFaults, OnTime, Due, Begin, Work, Under, Kids, PlansFit, Fits
<1>1. Top("advance", n) /\ stack' = CallEach("advance", n) \o Tail(stack) /\ ~allChildrenReady(node[n])
  BY DEF AdvanceChildren
<1>2. Head(stack) = Call("advance", n) /\ stack # <<>> /\ \A k \in Nodes : ~Reporting(k)
  BY <1>1, RunningCall
<1>3. /\ \A c \in Kids(n) : Pending("advance", c)'
      /\ \A a \in Nodes \ {n} : Pending("advance", a) => Pending("advance", a)'
  <2>1. /\ CallEach("advance", n) \in Seq(CallFrame)
        /\ Range(CallEach("advance", n)) = {Call("advance", c) : c \in Kids(n)}
    BY CallsToChildren
  <2>2. Range(stack') = Range(CallEach("advance", n)) \cup Range(Tail(stack))
    <3>1. Tail(stack) \in Seq(CallFrame)
      BY <1>2, Running
    <3> DEFINE e == CallEach("advance", n)
               t == Tail(stack)
    <3>2. e \in Seq(CallFrame) /\ t \in Seq(CallFrame) /\ stack' = e \o t
      BY <1>1, <2>1, <3>1
    <3> HIDE DEF e, t
    <3>3. Range(e \o t) = Range(e) \cup Range(t)
      BY <3>2, RangeOfConcat
    <3>4. QED
      BY <3>2, <3>3 DEF e, t
  <2>3. Range(stack) = {Call("advance", n)} \cup Range(Tail(stack))
    BY <1>2, Running
  <2>4. \A a \in Nodes \ {n} : Call("advance", a) # Call("advance", n)
    BY DEF Call
  <2>5. QED
    BY <2>1, <2>2, <2>3, <2>4 DEF Pending
<1>4. loop[1] \in Nat
  BY RoundNumber
<1>5. loop[1] > 0 /\ OnTime(x, loop[1] - 1)
  BY DEF TimeInv
<1>6. PICK a \in Nodes : Pending("advance", a) /\ x \in Under(a)
  BY DEF TimeInv
<1>7. x # n
  <2>1. PICK c \in Kids(n) : ~node[n].childReady[c]
    BY <1>1, NodeTyped DEF allChildrenReady, HierNode
  <2>2. c \in Nodes /\ ~node[c].ready
    <3>1. c \in Nodes
      BY Tree
    <3>2. Believes(node[n], c)
      BY <1>2, <3>1 DEF PlantInv, HeardInv
    <3>3. QED
      BY <2>1, <3>1, <3>2 DEF Believes, PlantInv, ToldInv
  <2>3. loop[1] - 1 < Due[c]
    <3>1. OnTime(c, loop[1]) \/ OnTime(c, loop[1] - 1)
      BY <2>2 DEF TimeInv
    <3>2. Due[c] \in Nat
      BY Timetable
    <3>3. QED
      BY <1>4, <2>2, <3>1, <3>2 DEF OnTime
  <2>4. loop[1] <= Begin(n)
    <3>1. Due[c] \in Nat /\ Due[c] <= Begin(n) /\ Begin(n) \in Nat
      BY Timetable
    <3>2. QED
      BY <1>4, <2>3, <3>1
  <2>5. OnTime(n, loop[1])
    BY <1>4, <2>4, EarlyOrReady
  <2>6. QED
    BY <2>5
<1>8. CASE a = n
  <2>1. PICK c \in Kids(n) : x \in Under(c)
    BY <1>6, <1>7, <1>8, UnderChildren
  <2>2. c \in Nodes /\ Pending("advance", c)'
    BY <1>3, Tree
  <2>3. QED
    BY <1>5, <2>1, <2>2
<1>9. CASE a # n
  BY <1>3, <1>5, <1>6, <1>9
<1>10. QED
  BY <1>8, <1>9

(* advance() of a node whose children are ready: everything under it is    *)
(* ready, and the node takes the step that is due.                         *)
LEMMA AdvanceSelfTime ==
    ASSUME PlantInv, TimeInv, NEW n \in Nodes, AdvanceSelf(n)
    PROVE  TimeInv'
<1>1. PICK r \in HierNode(n) : recomputeAndReport(n, r, Tail(stack)) /\ Promotes(n, r)
  BY Promoted
<1>2. DOMAIN node = Nodes /\ node[n] \in HierNode(n) /\ Len(Plan[n]) \in Nat
  BY NodeTyped, PlantAssumption
<1>3. PICK q \in HierNode(n) : Reports(n, r, Tail(stack), q)
  BY <1>1, <1>2, Recomputed
<1>4. /\ \A k \in Nodes \ {n} : node'[k] = node[k]
      /\ node'[n] = q /\ q.pos = r.pos /\ q.ready = r.ready /\ q.fault = node[n].fault
  BY <1>1, <1>2, <1>3 DEF Reports, Promotes
<1>5. Top("advance", n) /\ allChildrenReady(node[n]) /\ loop' = loop
  BY DEF AdvanceSelf
<1>6. Head(stack) = Call("advance", n) /\ stack # <<>>
  BY <1>5, RunningCall
<1>7. \A a \in Nodes \ {n} : Pending("advance", a) => Pending("advance", a)'
  <2>1. Tail(stack) \in Seq(CallFrame \cup ReportFrame) /\ Range(stack) = {Call("advance", n)} \cup Range(Tail(stack))
    BY <1>6, RangeOfTail DEF PlantInv, TypeOK
  <2>2. Range(Tail(stack)) \subseteq Range(stack')
    BY <1>3, <2>1, Behind
  <2>3. \A a \in Nodes \ {n} : Call("advance", a) # Call("advance", n)
    BY DEF Call
  <2>4. QED
    BY <2>1, <2>2, <2>3 DEF Pending
<1> SUFFICES ASSUME PlansFit, NoFaults, loop # <<>>, NEW x \in Nodes
             PROVE  \/ OnTime(x, loop[1])'
                    \/ /\ loop[1] > 0 /\ OnTime(x, loop[1] - 1)'
                       /\ \E a \in Nodes : Pending("advance", a)' /\ x \in Under(a)
  <2>1. NoFaults' => NoFaults
    BY <1>4 DEF NoFaults
  <2>2. QED
    BY <1>5, <2>1 DEF TimeInv, Under, Kids, PlansFit, Fits
<1>8. loop[1] \in Nat
  BY RoundNumber
<1>9. CASE x # n
  <2>1. OnTime(x, loop[1])' <=> OnTime(x, loop[1])
    BY <1>4, <1>5, <1>9 DEF OnTime, Due, Begin, Work
  <2>2. OnTime(x, loop[1] - 1)' <=> OnTime(x, loop[1] - 1)
    BY <1>4, <1>5, <1>9 DEF OnTime, Due, Begin, Work
  <2>3. CASE x \in Under(n)
    <3>1. PICK c \in Kids(n) : x \in Under(c)
      BY <1>9, <2>3, UnderChildren
    <3>2. c \in Nodes /\ node[c].ready
      BY <1>2, <1>5, Tree DEF HierNode, allChildrenReady, PlantInv, OrderInv
    <3>3. OnTime(x, loop[1])
      BY <1>8, <3>1, <3>2, ReadyUnder, EarlyOrReady
    <3>4. QED
      BY <2>1, <3>3
  <2>4. CASE x \notin Under(n)
    BY <1>7, <2>1, <2>2, <2>4 DEF TimeInv
  <2>5. QED
    BY <2>3, <2>4
<1>10. CASE x = n
  <2>1. OnTime(n, loop[1]) \/ (loop[1] > 0 /\ OnTime(n, loop[1] - 1))
    BY DEF TimeInv
  <2>2. node[n].pos \in Nat /\ r.pos \in Nat /\ node[n].pos <= Len(Plan[n])
    BY <1>2, NodeTyped DEF HierNode
  <2> DEFINE k == loop[1]
  <2> HIDE DEF k
  <2>3. /\ Begin(n) \in Nat /\ Work(n) \in Nat \ {0} /\ Due[n] = Begin(n) + Work(n)
        /\ Work(n) >= Len(Plan[n])
    BY Timetable
  <2>4. r.pos <= Len(Plan[n]) /\ (r.pos = node[n].pos + 1 \/ r.pos = Len(Plan[n]))
    BY <1>1 DEF Promotes
  <2>5. node[n].pos + Begin(n) + 1 >= k \/ node[n].pos = Len(Plan[n])
    <3>1. k \in Nat
      BY <1>8 DEF k
    <3>2. CASE OnTime(n, k)
      BY <2>2, <2>3, <3>1, <3>2 DEF OnTime
    <3>3. CASE OnTime(n, k - 1)
      BY <2>2, <2>3, <3>1, <3>3 DEF OnTime
    <3>4. QED
      BY <2>1, <3>2, <3>3 DEF k
  <2>6. r.pos + Begin(n) >= k \/ r.pos = Len(Plan[n])
    <3>1. k \in Nat /\ Len(Plan[n]) \in Nat
      BY <1>2, <1>8 DEF k
    <3>2. CASE node[n].pos = Len(Plan[n])
      BY <2>2, <2>4, <3>1, <3>2
    <3>3. CASE r.pos = node[n].pos + 1 /\ node[n].pos + Begin(n) + 1 >= k
      BY <2>2, <2>3, <3>1, <3>3
    <3>4. QED
      BY <2>4, <2>5, <3>2, <3>3
  <2>7. loop[1] >= Due[n] => r.ready
    <3> SUFFICES ASSUME loop[1] >= Due[n]  PROVE r.pos = Len(Plan[n])
      BY <1>1 DEF Promotes
    <3>1. k \in Nat /\ k >= Begin(n) + Work(n)
      BY <1>8, <2>3 DEF k
    <3>2. QED
      BY <1>2, <2>2, <2>3, <2>4, <2>6, <3>1
  <2>8. OnTime(n, loop[1])'
    BY <1>4, <1>5, <2>6, <2>7 DEF OnTime, Due, Begin, Work, k
  <2>9. QED
    BY <1>10, <2>8
<1>11. QED
  BY <1>9, <1>10

(* What startWork() and finishWork() change of a node is not its progress. *)
LEMMA OnlyWork ==
    ASSUME DOMAIN node = Nodes, NEW n \in Nodes, node[n] \in HierNode(n), NEW w \in BOOLEAN, NEW st \in Steps,
           node' = [node EXCEPT ![n].working = w, ![n].step = st], NEW k \in Nodes
    PROVE  node'[k].pos = node[k].pos /\ node'[k].ready = node[k].ready /\ node'[k].fault = node[k].fault
<1> DEFINE q == [node[n] EXCEPT !.working = w, !.step = st]
<1>1. q.pos = node[n].pos /\ q.ready = node[n].ready /\ q.fault = node[n].fault
  BY DEF HierNode
<1>2. node' = [node EXCEPT ![n] = q]
  BY DEF HierNode
<1> HIDE DEF q
<1>3. node'[k] = IF k = n THEN q ELSE node[k]
  BY <1>2
<1>4. QED
  BY <1>1, <1>3

(* startWork() and finishWork() leave the progress alone.                  *)
LEMMA WorkTime ==
    ASSUME PlantInv, TimeInv, NEW n \in Nodes, NEW op \in {"start", "finish"}, Top(op, n),
           \/ UNCHANGED node /\ stack' = Tail(stack)
           \/ \E w \in BOOLEAN, st \in Steps :
                /\ node' = [node EXCEPT ![n].working = w, ![n].step = st]
                /\ stack' = CallEach(op, n) \o <<Call("recompute", n)>> \o Tail(stack),
           loop' = loop
    PROVE  TimeInv'
<1>1. stack # <<>> /\ Head(stack) = Call(op, n)
  BY RunningCall
<1>2. Tail(stack) \in Seq(CallFrame) /\ Range(stack) = {Call(op, n)} \cup Range(Tail(stack))
  BY <1>1, Running
<1>3. Range(Tail(stack)) \subseteq Range(stack')
  <2> DEFINE t == Tail(stack)
  <2>1. t \in Seq(CallFrame)
    BY <1>2
  <2>2. stack' = t \/ stack' = CallEach(op, n) \o <<Call("recompute", n)>> \o t
    OBVIOUS
  <2> HIDE DEF t
  <2>3. Range(CallEach(op, n) \o <<Call("recompute", n)>> \o t)
           = {Call(op, c) : c \in Kids(n)} \cup {Call("recompute", n)} \cup Range(t)
    BY <2>1, CallsAndReport
  <2>4. Range(t) \subseteq Range(stack')
    BY <2>2, <2>3
  <2>5. QED
    BY <2>4 DEF t
<1>4. \A a \in Nodes : Pending("advance", a) => Pending("advance", a)'
  <2>1. \A a \in Nodes : Call("advance", a) # Call(op, n)
    BY Frames
  <2>2. QED
    BY <1>2, <1>3, <2>1 DEF Pending
<1>5. ASSUME NEW k \in Nodes
      PROVE  node'[k].pos = node[k].pos /\ node'[k].ready = node[k].ready /\ node'[k].fault = node[k].fault
  <2>1. node[n] \in HierNode(n) /\ DOMAIN node = Nodes
    BY NodeTyped
  <2>2. CASE UNCHANGED node
    BY <2>2
  <2>3. ASSUME NEW w \in BOOLEAN, NEW st \in Steps, node' = [node EXCEPT ![n].working = w, ![n].step = st]
        PROVE  node'[k].pos = node[k].pos /\ node'[k].ready = node[k].ready /\ node'[k].fault = node[k].fault
    BY <2>1, <2>3, OnlyWork
  <2>4. QED
    BY <2>2, <2>3
<1>6. QED
  BY <1>4, <1>5, SameProgressInv DEF SameProgress

(* Reports to the parent and to the host.                                  *)
LEMMA ReportTime ==
    ASSUME PlantInv, TimeInv, NEW n \in Nodes, report(n)
    PROVE  TimeInv'
<1>1. Top("report", n) /\ loop' = loop
  BY DEF report
<1>2. stack # <<>> /\ Head(stack) \in ReportFrame /\ \A a \in Nodes : Head(stack) # Call("advance", a)
  BY <1>1, Running, Frames DEF Top
<1>3. CASE n = Root
  <2>1. UNCHANGED node /\ stack' = Tail(stack)
    BY <1>3 DEF report
  <2>2. \A a \in Nodes : Pending("advance", a) => Pending("advance", a)'
    BY <1>2, <2>1, Running DEF Pending
  <2>3. QED
    BY <1>1, <2>1, <2>2, SameProgressInv DEF SameProgress
<1>4. CASE n # Root
  <2> DEFINE p == Parent(n)
             m == Head(stack).report
             cr == [node[p].childReady EXCEPT ![n] = m.ready]
             cb == [node[p].childBlock EXCEPT ![n] = m.blocking]
             r == [node[p] EXCEPT !.childReady[n] = m.ready, !.childBlock[n] = m.blocking]
  <2>1. p \in Nodes /\ n \in Kids(p) /\ node[p] \in HierNode(p)
    BY <1>4, Tree, NodeTyped
  <2>2. m.ready \in BOOLEAN /\ m.blocking \in BOOLEAN
    BY <1>2, Frames DEF Report
  <2>3. recomputeAndReport(p, r, Tail(stack))
    BY <1>4 DEF report
  <2> HIDE DEF p, m
  <2>4. cr \in [Kids(p) -> BOOLEAN] /\ cb \in [Kids(p) -> BOOLEAN]
    BY <2>1, <2>2 DEF HierNode
  <2>5. r = [node[p] EXCEPT !.childReady = cr, !.childBlock = cb]
    BY <2>1 DEF HierNode
  <2> HIDE DEF cr, cb, r
  <2>6. /\ r \in HierNode(p) /\ r.pos = node[p].pos /\ r.ready = node[p].ready
        /\ r.fault = node[p].fault
    BY <2>1, <2>4, <2>5 DEF HierNode
  <2>7. QED
    BY <1>1, <1>2, <2>1, <2>3, <2>6, SameReport
<1>5. QED
  BY <1>3, <1>4

(* A round begins: everybody is under the root.                            *)
LEMMA RoundTime ==
    ASSUME PlantInv, TimeInv, Round
    PROVE  TimeInv'
<1>1. loop # <<>> /\ loop' = <<loop[1] + 1>> /\ UNCHANGED node /\ stack = <<>> /\ stack' = <<Call("advance", Root)>>
  BY DEF Round, Quiet
<1>2. loop[1] \in Nat /\ loop'[1] = loop[1] + 1
  BY <1>1, RoundNumber
<1>3. Root \in Nodes /\ Pending("advance", Root)'
  BY <1>1, Tree DEF Pending, Range
<1>4. \A n \in Nodes : n \in Under(Root)
  BY Tree, Everywhere DEF Under
<1> SUFFICES ASSUME PlansFit, NoFaults, NEW n \in Nodes
             PROVE  loop'[1] > 0 /\ OnTime(n, loop[1] - 1)'
  BY <1>1, <1>3, <1>4 DEF TimeInv, NoFaults, Under, Kids, PlansFit, Fits
<1>5. \A a : ~Pending("advance", a)
  BY <1>1 DEF Pending, Range
<1>6. OnTime(n, loop[1])
  BY <1>1, <1>5 DEF TimeInv
<1>7. QED
  BY <1>1, <1>2, <1>6 DEF OnTime, Due, Begin, Work

(* runToReady() begins: nothing is due yet.                                *)
LEMMA StartTime ==
    ASSUME PlantInv, TimeInv, runToReady
    PROVE  TimeInv'
<1>1. loop' = <<0>> /\ UNCHANGED node
  BY DEF runToReady
<1> SUFFICES ASSUME PlansFit, NEW n \in Nodes  PROVE OnTime(n, loop[1])'
  BY DEF TimeInv, PlansFit, Fits
<1>2. node[n].pos \in Nat /\ Begin(n) \in Nat /\ Due[n] \in Nat \ {0}
  BY NodeTyped, Timetable DEF HierNode
<1>3. QED
  BY <1>1, <1>2 DEF OnTime, Due, Begin, Work

(* In every plant without faults whose plans fit into the rounds that      *)
(* runToReady() allows, the root is ready when it has done them all.       *)
THEOREM InTime == Spec => [](PlansFit => ReadyInTime)
<1>1. Init => TimeInv
  BY DEF Init, TimeInv
<1>2. PlantInv /\ TimeInv /\ [Next]_vars => TimeInv'
  <2> SUFFICES ASSUME PlantInv, TimeInv, [Next]_vars  PROVE TimeInv'
    OBVIOUS
  <2>1. CASE Round
    BY <2>1, RoundTime
  <2>2. CASE runToReady
    BY <2>2, StartTime
  <2>3. CASE LoopEnd
    BY <2>3 DEF LoopEnd, TimeInv
  <2>4. ASSUME NEW op \in {"advance", "start", "finish"}, Command(op)  PROVE TimeInv'
    BY <2>4 DEF Command, Idle, TimeInv
  <2>5. ASSUME NEW n \in Nodes, AdvanceHalts(n)  PROVE TimeInv'
    <3> SUFFICES ASSUME PlansFit, NoFaults  PROVE FALSE
      BY <2>5 DEF AdvanceHalts, TimeInv, NoFaults, PlansFit, Fits
    <3>1. Top("advance", n) /\ Halted(node[n])
      BY <2>5 DEF AdvanceHalts
    <3>2. \E f \in Range(stack) : f \in CallFrame
      BY <3>1, RunningCall, Running
    <3>3. QED
      BY <3>1, <3>2, NobodyBlocks DEF Halted, NoFaults
  <2>6. ASSUME NEW n \in Nodes, AdvanceChildren(n)  PROVE TimeInv'
    BY <2>6, AdvanceChildrenTime
  <2>7. ASSUME NEW n \in Nodes, AdvanceSelf(n)  PROVE TimeInv'
    BY <2>7, AdvanceSelfTime
  <2>8. ASSUME NEW n \in Nodes, startWork(n)  PROVE TimeInv'
    <3>1. "WORK" \in Steps /\ TRUE \in BOOLEAN
      BY DEF Steps
    <3>2. QED
      BY <2>8, <3>1, WorkTime DEF startWork
  <2>9. ASSUME NEW n \in Nodes, finishWork(n)  PROVE TimeInv'
    <3>1. "DONE" \in Steps /\ FALSE \in BOOLEAN
      BY DEF Steps
    <3>2. QED
      BY <2>9, <3>1, WorkTime DEF finishWork
  <2>10. ASSUME NEW n \in Nodes, Recompute(n)  PROVE TimeInv'
    <3>1. Top("recompute", n) /\ recomputeAndReport(n, node[n], Tail(stack)) /\ loop' = loop
      BY <2>10 DEF Recompute
    <3>2. stack # <<>> /\ \A a \in Nodes : Head(stack) # Call("advance", a)
      BY <3>1, Frames DEF Top
    <3>3. QED
      BY <3>1, <3>2, NodeTyped, SameReport
  <2>11. ASSUME NEW n \in Nodes, report(n)  PROVE TimeInv'
    BY <2>11, ReportTime
  <2>12. ASSUME NEW n \in Fragile, NEW sev \in {"ALARM", "BLOCKING"}, fail(n, sev)  PROVE TimeInv'
    BY <2>12 DEF fail, Idle, TimeInv
  <2>13. ASSUME NEW n \in Fragile, clearFault(n)  PROVE TimeInv'
    BY <2>13 DEF clearFault, Idle, TimeInv
  <2>14. CASE UNCHANGED vars
    BY <2>14, SameProgressInv DEF vars, SameProgress, Pending
  <2>15. CASE Step
    BY <2>1, <2>3, <2>5, <2>6, <2>7, <2>8, <2>9, <2>10, <2>11, <2>15, Zenon DEF Step
  <2>16. QED
    BY <2>2, <2>4, <2>12, <2>13, <2>14, <2>15, Zenon DEF Next
<1>3. PlantInv /\ TimeInv => (PlansFit => ReadyInTime)
  <2> SUFFICES ASSUME PlantInv, TimeInv, PlansFit, Quiet, loop = <<MaxRounds>>, NoFaults
               PROVE  node[Root].ready
    BY DEF ReadyInTime, NoFaults
  <2>1. Root \in Nodes /\ Due[Root] \in 1..MaxRounds /\ MaxRounds \in Nat
    BY Tree, Timetable, PlantAssumption
  <2>2. \A a : ~Pending("advance", a)
    BY DEF Quiet, Pending, Range
  <2>3. OnTime(Root, MaxRounds)
    BY <2>1, <2>2 DEF TimeInv
  <2>4. QED
    BY <2>1, <2>3 DEF OnTime
<1>4. QED
  BY <1>1, <1>2, <1>3, PlantInvariance, PTL DEF Spec
==============================================================================
