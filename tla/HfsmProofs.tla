----------------------------- MODULE HfsmProofs -----------------------------
(***************************************************************************)
(* Proofs about HfsmEngine for any states, events and rules and any number *)
(* of them.  A step does one of four things to the events held: nothing,   *)
(* add one at the end, take one out, or clear them.  And about two of the  *)
(* example machines of HfsmExamples, through the moves their tables allow. *)
(***************************************************************************)
EXTENDS HfsmExamples, TLAPS

IInv == TypeOK /\ PostingOrder /\ NothingLost /\ InsideIsActive

USE EngineAssumption

(* The queue d \o p by position. *)
LEMMA Concatenation ==
    ASSUME NEW S, NEW d \in Seq(S), NEW p \in Seq(S)
    PROVE  /\ d \o p \in Seq(S)
           /\ DOMAIN (d \o p) = 1 .. Len(d) + Len(p)
           /\ \A i \in 1 .. Len(d) : (d \o p)[i] = d[i]
           /\ \A i \in Len(d) + 1 .. Len(d) + Len(p) : (d \o p)[i] = p[i - Len(d)]
OBVIOUS

Ordered(q) == \A i, j \in DOMAIN q : i < j => q[i].n < q[j].n

(* r is the queue q of length m with an event added that is numbered k,    *)
(* beyond all others.                                                      *)
Gains(q, r, m, k) ==
    /\ m \in Nat /\ k \in Nat
    /\ DOMAIN q = 1..m /\ DOMAIN r = 1 .. m + 1
    /\ \A i \in 1..m : r[i] = q[i]
    /\ r[m + 1].n = k
    /\ \A i \in 1..m : q[i].n \in Nat /\ q[i].n < k

(* r, of length m, is the queue q without the event at position k. *)
Loses(q, r, m, k) ==
    /\ m \in Nat /\ k \in 1 .. m + 1
    /\ DOMAIN q = 1 .. m + 1 /\ DOMAIN r = 1..m
    /\ \A i \in 1 .. k - 1 : r[i] = q[i]
    /\ \A i \in k .. m : r[i] = q[i + 1]
    /\ \A i \in 1 .. m + 1 : q[i].n \in Nat

(* An event with a later number, added at the end, keeps the order. *)
LEMMA Gain ==
    ASSUME NEW q, NEW r, NEW m, NEW k, Gains(q, r, m, k), Ordered(q)
    PROVE  Ordered(r) /\ Numbers(r) = Numbers(q) \cup {k}
<1> USE DEF Gains, Ordered
<1>1. \A i, j \in DOMAIN r : i < j => r[i].n < r[j].n
  <2> SUFFICES ASSUME NEW i \in 1 .. m + 1, NEW j \in 1 .. m + 1, i < j
               PROVE  r[i].n < r[j].n
    OBVIOUS
  <2>1. i \in 1..m
    OBVIOUS
  <2>2. CASE j = m + 1
    BY <2>1, <2>2
  <2>3. CASE j \in 1..m
    BY <2>1, <2>3
  <2> QED BY <2>2, <2>3
<1>2. Numbers(r) \subseteq Numbers(q) \cup {k}
  BY DEF Numbers
<1>3. \A i \in DOMAIN q : i \in DOMAIN r /\ r[i].n = q[i].n
  OBVIOUS
<1>4. m + 1 \in DOMAIN r
  OBVIOUS
<1>5. Numbers(q) \cup {k} \subseteq Numbers(r)
  BY <1>3, <1>4 DEF Numbers
<1> QED BY <1>1, <1>2, <1>5

(* Taking one event out keeps the order, and that number is gone. *)
LEMMA Loss ==
    ASSUME NEW q, NEW r, NEW m, NEW k, Loses(q, r, m, k), Ordered(q)
    PROVE  Ordered(r) /\ Numbers(r) = Numbers(q) \ {q[k].n}
<1> USE DEF Loses, Ordered
<1> DEFINE old(i) == IF i < k THEN i ELSE i + 1
<1>1. \A i \in 1..m : old(i) \in DOMAIN q /\ old(i) # k /\ r[i] = q[old(i)]
  OBVIOUS
<1>2. \A i, j \in 1..m : i < j => old(i) < old(j)
  OBVIOUS
<1>3. \A i \in DOMAIN q : i # k => \E j \in 1..m : old(j) = i
  <2> SUFFICES ASSUME NEW i \in 1 .. m + 1, i # k
               PROVE  \E j \in 1..m : old(j) = i
    OBVIOUS
  <2>1. CASE i < k
    <3>1. i \in 1..m /\ old(i) = i
      BY <2>1
    <3> QED BY <3>1
  <2>2. CASE i > k
    <3>1. i - 1 \in 1..m /\ old(i - 1) = i
      BY <2>2
    <3> QED BY <3>1
  <2> QED BY <2>1, <2>2
<1>4. \A i \in DOMAIN q : i # k => q[i].n # q[k].n
  <2> SUFFICES ASSUME NEW i \in DOMAIN q, i # k PROVE q[i].n # q[k].n
    OBVIOUS
  <2>1. i \in 1 .. m + 1 /\ k \in DOMAIN q /\ q[i].n \in Nat /\ q[k].n \in Nat
    OBVIOUS
  <2>2. q[i].n < q[k].n \/ q[k].n < q[i].n
    BY <2>1
  <2> QED BY <2>1, <2>2
<1> HIDE DEF old
<1>5. Numbers(r) \subseteq Numbers(q) \ {q[k].n}
  BY <1>1, <1>4 DEF Numbers
<1>6. Numbers(q) \ {q[k].n} \subseteq Numbers(r)
  <2> SUFFICES ASSUME NEW i \in DOMAIN q, q[i].n # q[k].n
               PROVE  \E j \in DOMAIN r : r[j].n = q[i].n
    BY DEF Numbers
  <2>1. PICK j \in 1..m : old(j) = i
    BY <1>3
  <2> QED BY <1>1, <2>1
<1>7. \A i, j \in DOMAIN r : i < j => r[i].n < r[j].n
  BY <1>1, <1>2
<1> QED BY <1>5, <1>6, <1>7

(* What handling or refusing an event does to the typed state. *)
LEMMA ReactionTypes ==
    ASSUME TypeOK, NEW e \in Envelope,
           Handled(e, deferred) \/ Refused(e, deferred)
    PROVE  /\ active' \in States /\ inside' \subseteq States
           /\ deferred' \in Seq(Envelope) /\ (~deferring => deferred' = <<>>)
           /\ times' \in [Number -> Nat] /\ dropped' \subseteq Number
<1>1. e.n \in Number
  BY DEF Envelope
<1>2. CASE Handled(e, deferred)
  <2>1. PICK i \in Chosen(rules, active, e.what) : execute_transition(rules[i])
    BY <1>2 DEF Handled
  <2>2. rules[i] \in RuleSet
    BY DEF Chosen, TypeOK
  <2>3. rules[i].dst \in States
    BY <2>2
  <2>4. active' \in States /\ inside' \subseteq States
    BY <2>1, <2>3 DEF execute_transition, TypeOK
  <2>5. times' \in [Number -> Nat]
    BY <1>1, <1>2 DEF Handled, TypeOK
  <2> QED BY <1>2, <2>4, <2>5 DEF Handled, TypeOK
<1>3. CASE Refused(e, deferred)
  <2>1. active' = active /\ inside' = inside /\ times' = times
    BY <1>3 DEF Refused
  <2>2. deferred \in Seq(Envelope) /\ dropped \subseteq Number /\ (~deferring => deferred = <<>>)
    BY DEF TypeOK
  <2>3. CASE deferring
    <3>1. deferred' = Append(deferred, e) /\ dropped' = dropped
      BY <1>3, <2>3 DEF Refused
    <3>2. Append(deferred, e) \in Seq(Envelope)
      BY <2>2
    <3> QED BY <2>1, <2>2, <2>3, <3>1, <3>2 DEF TypeOK
  <2>4. CASE ~deferring
    <3>1. deferred' = deferred /\ dropped' = dropped \cup {e.n}
      BY <1>3, <2>4 DEF Refused
    <3> QED BY <1>1, <2>1, <2>2, <3>1 DEF TypeOK
  <2> QED BY <2>3, <2>4
<1> QED BY <1>2, <1>3

(* Every step of the engine keeps the types. *)
LEMMA TypePreserved == TypeOK /\ [Next]_vars => TypeOK'
<1> SUFFICES ASSUME TypeOK, [Next]_vars PROVE TypeOK'
  OBVIOUS
<1>1. ASSUME NEW rule \in RuleSet, add_rule(rule) PROVE TypeOK'
  BY <1>1 DEF add_rule, TypeOK
<1>2. ASSUME NEW s \in States, set_initial(s) PROVE TypeOK'
  BY <1>2 DEF set_initial, TypeOK
<1>3. ASSUME NEW what \in Events, handle(what) PROVE TypeOK'
  <2> DEFINE e == [n |-> posted + 1, what |-> what]
  <2>1. posted' = posted + 1 /\ posted + 1 \in 1..MaxEvents
    BY <1>3 DEF handle, TypeOK
  <2>2. e \in Envelope
    BY <2>1 DEF Envelope, Number
  <2>3. Handled(e, deferred) \/ Refused(e, deferred)
    BY <1>3 DEF handle
  <2> HIDE DEF e
  <2>4. /\ active' \in States /\ inside' \subseteq States
        /\ deferred' \in Seq(Envelope) /\ (~deferring => deferred' = <<>>)
        /\ times' \in [Number -> Nat] /\ dropped' \subseteq Number
    BY <2>2, <2>3, ReactionTypes
  <2> QED BY <1>3, <2>1, <2>4 DEF handle, TypeOK
<1>4. ASSUME BeginReplay PROVE TypeOK'
  BY <1>4 DEF BeginReplay, TypeOK
<1>5. ASSUME Replay PROVE TypeOK'
  <2>1. Head(pass) \in Envelope /\ Tail(pass) \in Seq(Envelope) /\ deferring
    <3>1. pass \in Seq(Envelope) /\ pass # <<>> /\ (~deferring => pass = <<>>)
      BY <1>5 DEF Replay, Idle, TypeOK
    <3>2. Head(pass) \in Envelope /\ Tail(pass) \in Seq(Envelope)
      BY <3>1
    <3> QED BY <3>1, <3>2
  <2>2. Handled(Head(pass), deferred) \/ Refused(Head(pass), deferred)
    BY <1>5 DEF Replay
  <2>3. /\ active' \in States /\ inside' \subseteq States
        /\ deferred' \in Seq(Envelope) /\ (~deferring => deferred' = <<>>)
        /\ times' \in [Number -> Nat] /\ dropped' \subseteq Number
    BY <2>1, <2>2, ReactionTypes
  <2> QED BY <1>5, <2>1, <2>3 DEF Replay, TypeOK
<1>6. ASSUME reset PROVE TypeOK'
  <2>1. Numbers(deferred) \subseteq Number
    <3>1. \A i \in DOMAIN deferred : deferred[i] \in Envelope
      BY DEF TypeOK
    <3>2. \A x \in Envelope : x.n \in Number
      BY DEF Envelope
    <3> QED BY <3>1, <3>2 DEF Numbers
  <2> QED BY <1>6, <2>1 DEF reset, TypeOK
<1>7. ASSUME UNCHANGED vars PROVE TypeOK'
  BY <1>7 DEF vars, TypeOK
<1> QED BY <1>1, <1>2, <1>3, <1>4, <1>5, <1>6, <1>7 DEF Next

(* The events held, by position. *)
LEMMA HeldShape ==
    ASSUME TypeOK
    PROVE  /\ Held \in Seq(Envelope)
           /\ DOMAIN Held = 1 .. Len(deferred) + Len(pass)
           /\ Len(deferred) \in Nat /\ Len(pass) \in Nat
           /\ \A i \in 1 .. Len(deferred) : Held[i] = deferred[i]
           /\ \A i \in Len(deferred) + 1 .. Len(deferred) + Len(pass) :
                 Held[i] = pass[i - Len(deferred)]
           /\ \A i \in DOMAIN Held : Held[i].n \in Number
<1>1. deferred \in Seq(Envelope) /\ pass \in Seq(Envelope)
  BY DEF TypeOK
<1>2. Held \in Seq(Envelope)
  BY <1>1, Concatenation DEF Held
<1>3. \A i \in DOMAIN Held : Held[i].n \in Number
  <2>1. \A i \in DOMAIN Held : Held[i] \in Envelope
    BY <1>2
  <2>2. \A x \in Envelope : x.n \in Number
    BY DEF Envelope
  <2> QED BY <2>1, <2>2
<1> QED BY <1>1, <1>2, <1>3, Concatenation DEF Held

(* A step that holds the same events and settles none. *)
LEMMA Same ==
    ASSUME IInv, Held' = Held, times' = times, dropped' = dropped, posted' = posted
    PROVE  PostingOrder' /\ NothingLost'
<1>1. PostingOrder'
  BY DEF IInv, PostingOrder
<1>2. NothingLost'
  BY DEF IInv, NothingLost, Numbers
<1> QED BY <1>1, <1>2

(* A step that takes the last event handle() was given into account.       *)
(* Settled: it was handled or refused for good.                            *)
LEMMA NewSettled ==
    ASSUME IInv, posted' = posted + 1, posted + 1 \in Number, Held' = Held,
           \/ times' = [times EXCEPT ![posted + 1] = @ + 1] /\ dropped' = dropped
           \/ times' = times /\ dropped' = dropped \cup {posted + 1}
    PROVE  PostingOrder' /\ NothingLost'
<1>0. posted \in Nat /\ times \in [Number -> Nat]
  BY DEF IInv, TypeOK
<1>1. PostingOrder'
  BY DEF IInv, PostingOrder
<1>2. Numbers(Held)' = Numbers(Held)
  BY DEF Numbers
<1>3. /\ Numbers(Held) \cup dropped \subseteq 1..posted
      /\ Numbers(Held) \cap dropped = {}
      /\ \A n \in Number :
            times[n] = IF n \in 1..posted \ (Numbers(Held) \cup dropped) THEN 1 ELSE 0
  BY DEF IInv, NothingLost
<1>4. posted + 1 \notin Numbers(Held) \cup dropped /\ posted + 1 \notin 1..posted
  BY <1>0, <1>3
<1>5. NothingLost'
  BY <1>0, <1>2, <1>3, <1>4 DEF NothingLost
<1> QED BY <1>1, <1>5

(* Held: it was deferred. *)
LEMMA NewHeld ==
    ASSUME IInv, NEW e \in Envelope, e.n = posted + 1, pass = <<>>,
           posted' = posted + 1, deferred' = Append(deferred, e), pass' = pass,
           times' = times, dropped' = dropped
    PROVE  PostingOrder' /\ NothingLost'
<1>0. TypeOK /\ posted \in Nat /\ deferred \in Seq(Envelope)
  BY DEF IInv, TypeOK
<1> DEFINE m == Len(deferred)
<1>1. /\ Append(deferred, e) \in Seq(Envelope) /\ Len(Append(deferred, e)) = m + 1
      /\ m \in Nat /\ Len(pass) = 0
      /\ \A i \in 1..m : Append(deferred, e)[i] = deferred[i]
      /\ Append(deferred, e)[m + 1] = e
  BY <1>0
<1>2. /\ DOMAIN Held = 1..m /\ \A i \in 1..m : Held[i] = deferred[i]
      /\ \A i \in 1..m : Held[i].n \in Number
  BY <1>0, <1>1, HeldShape
<1>3. <<>> \in Seq(Envelope) /\ Len(<<>>) = 0
  OBVIOUS
<1>4. Held' = Append(deferred, e) \o <<>>
  BY DEF Held
<1>5. DOMAIN Held' = 1 .. m + 1 /\ \A i \in 1 .. m + 1 : Held'[i] = Append(deferred, e)[i]
  BY <1>1, <1>3, <1>4, Concatenation
<1>6. \A i \in 1..m : Held[i].n \in Nat /\ Held[i].n < posted + 1
  <2>1. Numbers(Held) \subseteq 1..posted
    BY DEF IInv, NothingLost
  <2>2. \A i \in 1..m : Held[i].n \in Numbers(Held)
    BY <1>2 DEF Numbers
  <2> QED BY <1>0, <2>1, <2>2
<1>7. Ordered(Held)
  BY DEF IInv, PostingOrder, Ordered
<1>8. \A i \in 1..m : Held'[i] = Held[i]
  BY <1>1, <1>2, <1>5
<1>9. Held'[m + 1].n = posted + 1
  BY <1>1, <1>5
<1> HIDE DEF m
<1>10. Gains(Held, Held', m, posted + 1)
  BY <1>0, <1>1, <1>2, <1>5, <1>6, <1>8, <1>9 DEF Gains
<1>11. Ordered(Held') /\ Numbers(Held') = Numbers(Held) \cup {posted + 1}
  BY <1>7, <1>10, Gain
<1>12. PostingOrder' /\ Numbers(Held)' = Numbers(Held) \cup {posted + 1}
  BY <1>11 DEF PostingOrder, Ordered, Numbers
<1>13. /\ Numbers(Held) \cup dropped \subseteq 1..posted
       /\ Numbers(Held) \cap dropped = {}
       /\ \A n \in Number :
             times[n] = IF n \in 1..posted \ (Numbers(Held) \cup dropped) THEN 1 ELSE 0
  BY DEF IInv, NothingLost
<1>14. NothingLost'
  BY <1>0, <1>12, <1>13 DEF NothingLost
<1> QED BY <1>12, <1>14

(* An event being replayed is handled. *)
LEMMA OldSettled ==
    ASSUME IInv, pass # <<>>, deferred' = deferred, pass' = Tail(pass),
           times' = [times EXCEPT ![Head(pass).n] = @ + 1],
           dropped' = dropped, posted' = posted
    PROVE  PostingOrder' /\ NothingLost'
<1>0. /\ TypeOK /\ posted \in 0..MaxEvents /\ times \in [Number -> Nat]
      /\ deferred \in Seq(Envelope) /\ pass \in Seq(Envelope)
  BY DEF IInv, TypeOK
<1> DEFINE k == Len(deferred) + 1
           m == Len(deferred) + Len(pass) - 1
<1>1. /\ Tail(pass) \in Seq(Envelope) /\ Len(pass) \in Nat \ {0} /\ Len(deferred) \in Nat
      /\ Len(Tail(pass)) = Len(pass) - 1 /\ Head(pass) = pass[1]
      /\ \A i \in 1 .. Len(pass) - 1 : Tail(pass)[i] = pass[i + 1]
  BY <1>0
<1>2. /\ DOMAIN Held = 1 .. m + 1
      /\ \A i \in 1 .. Len(deferred) : Held[i] = deferred[i]
      /\ \A i \in k .. m + 1 : Held[i] = pass[i - Len(deferred)]
      /\ \A i \in 1 .. m + 1 : Held[i].n \in Number
  BY <1>0, <1>1, HeldShape
<1>3. Held' = deferred \o Tail(pass)
  BY DEF Held
<1>4. /\ DOMAIN Held' = 1..m
      /\ \A i \in 1 .. Len(deferred) : Held'[i] = deferred[i]
      /\ \A i \in k .. m : Held'[i] = Tail(pass)[i - Len(deferred)]
  BY <1>0, <1>1, <1>3, Concatenation
<1>5. m \in Nat /\ k \in 1 .. m + 1 /\ Held[k] = Head(pass)
  <2>1. m \in Nat /\ k \in k .. m + 1 /\ k \in 1 .. m + 1 /\ k - Len(deferred) = 1
    BY <1>1
  <2>2. Held[k] = pass[k - Len(deferred)]
    <3> HIDE DEF k, m
    <3> QED
      BY <1>2, <2>1
  <2> HIDE DEF k, m
  <2> QED
    BY <1>1, <2>1, <2>2
<1>6. ASSUME NEW i \in 1 .. k - 1 PROVE Held'[i] = Held[i]
  <2>1. i \in 1 .. Len(deferred)
    BY <1>1
  <2> HIDE DEF k, m
  <2> QED
    BY <1>2, <1>4, <2>1
<1>7. ASSUME NEW i \in k .. m PROVE Held'[i] = Held[i + 1]
  <2>1. /\ i + 1 \in k .. m + 1 /\ i - Len(deferred) \in 1 .. Len(pass) - 1
        /\ (i + 1) - Len(deferred) = (i - Len(deferred)) + 1
    BY <1>1
  <2> HIDE DEF k, m
  <2> QED
    BY <1>1, <1>2, <1>4, <2>1
<1>8. \A i \in 1 .. m + 1 : Held[i].n \in Nat
  BY <1>2 DEF Number
<1>9. Ordered(Held)
  BY DEF IInv, PostingOrder, Ordered
<1> HIDE DEF k, m
<1>10. Loses(Held, Held', m, k)
  BY <1>2, <1>4, <1>5, <1>6, <1>7, <1>8 DEF Loses
<1>11. Ordered(Held') /\ Numbers(Held') = Numbers(Held) \ {Held[k].n}
  BY <1>9, <1>10, Loss
<1>12. PostingOrder' /\ Numbers(Held)' = Numbers(Held) \ {Head(pass).n}
  BY <1>5, <1>11 DEF PostingOrder, Ordered, Numbers
<1>13. Head(pass).n \in Numbers(Held) /\ Head(pass).n \in Number
  BY <1>2, <1>5 DEF Numbers
<1>14. /\ Numbers(Held) \cup dropped \subseteq 1..posted
       /\ Numbers(Held) \cap dropped = {}
       /\ \A n \in Number :
             times[n] = IF n \in 1..posted \ (Numbers(Held) \cup dropped) THEN 1 ELSE 0
  BY DEF IInv, NothingLost
<1>15. NothingLost'
  BY <1>0, <1>12, <1>13, <1>14 DEF NothingLost
<1> QED BY <1>12, <1>15

(* An event being replayed is deferred again, or the whole queue moves into *)
(* the pass: the events held are the same.                                  *)
LEMMA HeldAgain ==
    ASSUME TypeOK, pass # <<>>,
           deferred' = Append(deferred, Head(pass)), pass' = Tail(pass)
    PROVE  Held' = Held
<1>1. deferred \in Seq(Envelope) /\ pass \in Seq(Envelope)
  BY DEF TypeOK
<1> QED BY <1>1 DEF Held

(* process_deferred() begins by moving what is held, not by losing it. *)
LEMMA HeldMoved ==
    ASSUME TypeOK, pass = <<>>, deferred' = <<>>, pass' = deferred
    PROVE  Held' = Held
<1>1. deferred \in Seq(Envelope)
  BY DEF TypeOK
<1> QED BY <1>1 DEF Held

(* reset() empties the queue. *)
LEMMA Cleared ==
    ASSUME IInv, pass = <<>>, deferred' = <<>>, pass' = pass, times' = times,
           dropped' = dropped \cup Numbers(deferred), posted' = posted
    PROVE  PostingOrder' /\ NothingLost'
<1>1. Held' = <<>>
  BY DEF Held
<1>2. PostingOrder'
  BY <1>1 DEF PostingOrder
<1>3. Numbers(Held)' = {}
  BY <1>1 DEF Numbers
<1>4. Held = deferred
  <2>1. deferred \in Seq(Envelope)
    BY DEF IInv, TypeOK
  <2> QED BY <2>1 DEF Held
<1>5. NothingLost'
  BY <1>3, <1>4 DEF IInv, NothingLost
<1> QED BY <1>2, <1>5

(* Callbacks. *)
LEMMA InsidePreserved == IInv /\ [Next]_vars => InsideIsActive'
<1> SUFFICES ASSUME IInv, [Next]_vars PROVE InsideIsActive'
  OBVIOUS
<1>0. inside \subseteq {active}
  BY DEF IInv, InsideIsActive
<1>1. ASSUME NEW e, Handled(e, deferred) \/ Refused(e, deferred)
      PROVE  InsideIsActive'
  <2>1. CASE UNCHANGED <<active, inside>>
    BY <1>0, <2>1 DEF InsideIsActive
  <2>2. ASSUME NEW rule, execute_transition(rule) PROVE InsideIsActive'
    BY <1>0, <2>2 DEF execute_transition, InsideIsActive
  <2> QED BY <1>1, <2>1, <2>2 DEF Handled, Refused
<1>2. CASE reset
  BY <1>0, <1>2 DEF reset, InsideIsActive
<1>3. ASSUME active' = active, inside' = inside PROVE InsideIsActive'
  BY <1>0, <1>3 DEF InsideIsActive
<1>4. ASSUME NEW what, handle(what) PROVE InsideIsActive'
  BY <1>1, <1>4 DEF handle
<1>5. CASE Replay
  BY <1>1, <1>5 DEF Replay
<1> QED BY <1>2, <1>3, <1>4, <1>5 DEF Next, add_rule, set_initial, BeginReplay, vars

(* Every step of the engine keeps the invariant. *)
LEMMA Inductive == IInv /\ [Next]_vars => IInv'
<1> SUFFICES ASSUME IInv, [Next]_vars PROVE IInv'
  OBVIOUS
<1>0. TypeOK /\ TypeOK' /\ InsideIsActive'
  BY TypePreserved, InsidePreserved DEF IInv
<1> DEFINE Goal == PostingOrder' /\ NothingLost'
<1>1. ASSUME UNCHANGED <<deferred, pass, times, dropped, posted>> PROVE Goal
  <2>1. Held' = Held
    BY <1>1 DEF Held
  <2> QED BY <1>1, <2>1, Same
<1>2. ASSUME NEW what \in Events, handle(what) PROVE Goal
  <2> DEFINE e == [n |-> posted + 1, what |-> what]
  <2>1. /\ posted' = posted + 1 /\ posted + 1 \in Number /\ pass = <<>> /\ pass' = pass
        /\ Handled(e, deferred) \/ Refused(e, deferred)
    BY <1>0, <1>2 DEF handle, Idle, TypeOK, Number
  <2>2. e \in Envelope /\ e.n = posted + 1
    BY <2>1 DEF Envelope
  <2> HIDE DEF e
  <2>3. ASSUME deferred' = deferred,
               \/ times' = [times EXCEPT ![posted + 1] = @ + 1] /\ dropped' = dropped
               \/ times' = times /\ dropped' = dropped \cup {posted + 1}
        PROVE  Goal
    <3>1. Held' = Held
      BY <2>1, <2>3 DEF Held
    <3> QED BY <2>1, <2>3, <3>1, NewSettled
  <2>4. CASE Handled(e, deferred)
    BY <2>2, <2>3, <2>4 DEF Handled
  <2>5. CASE Refused(e, deferred) /\ ~deferring
    BY <2>2, <2>3, <2>5 DEF Refused
  <2>6. CASE Refused(e, deferred) /\ deferring
    <3>1. deferred' = Append(deferred, e) /\ times' = times /\ dropped' = dropped
      BY <2>6 DEF Refused
    <3> QED BY <2>1, <2>2, <3>1, NewHeld
  <2> QED BY <2>1, <2>4, <2>5, <2>6
<1>3. ASSUME BeginReplay PROVE Goal
  <2>1. Held' = Held
    BY <1>0, <1>3, HeldMoved DEF BeginReplay, Idle
  <2> QED BY <1>3, <2>1, Same DEF BeginReplay
<1>4. ASSUME Replay PROVE Goal
  <2>1. /\ pass # <<>> /\ pass' = Tail(pass) /\ posted' = posted
        /\ Handled(Head(pass), deferred) \/ Refused(Head(pass), deferred)
    BY <1>4 DEF Replay, Idle
  <2>2. deferring
    BY <1>0, <2>1 DEF TypeOK
  <2>3. CASE Handled(Head(pass), deferred)
    BY <2>1, <2>3, OldSettled DEF Handled
  <2>4. CASE Refused(Head(pass), deferred)
    <3>1. deferred' = Append(deferred, Head(pass)) /\ times' = times /\ dropped' = dropped
      BY <2>2, <2>4 DEF Refused
    <3>2. Held' = Held
      BY <1>0, <2>1, <3>1, HeldAgain
    <3> QED BY <2>1, <3>1, <3>2, Same
  <2> QED BY <2>1, <2>3, <2>4
<1>5. ASSUME reset PROVE Goal
  BY <1>5, Cleared DEF reset, Idle
<1>6. Goal
  <2> HIDE DEF Goal
  <2> QED BY <1>1, <1>2, <1>3, <1>4, <1>5 DEF Next, add_rule, set_initial, vars
<1> QED BY <1>0, <1>6 DEF IInv

(* A constructed engine satisfies the invariant. *)
LEMMA Initially == Init => IInv
<1> SUFFICES ASSUME Init PROVE IInv
  OBVIOUS
<1>1. Held = <<>> /\ Numbers(Held) = {}
  BY DEF Init, Constructed, Held, Numbers
<1>2. TypeOK
  BY DEF Init, Constructed, TypeOK
<1>3. PostingOrder
  BY <1>1 DEF PostingOrder
<1>4. NothingLost
  BY <1>1 DEF Init, Constructed, NothingLost
<1> QED BY <1>2, <1>3, <1>4 DEF Init, Constructed, IInv, InsideIsActive

(* The engine always satisfies the invariant. *)
LEMMA Invariance == Spec => []IInv
BY Initially, Inductive, PTL DEF Spec

(* Type correctness; nothing is deferred by a machine not configured to. *)
THEOREM TypeCorrect == Spec => []TypeOK
<1>1. IInv => TypeOK
  BY DEF IInv
<1> QED BY <1>1, Invariance, PTL

(* Deferred events keep their order, also while they are replayed. *)
THEOREM OrderIsKept == Spec => []PostingOrder
<1>1. IInv => PostingOrder
  BY DEF IInv
<1> QED BY <1>1, Invariance, PTL

(* Each event is handled once, held, or given up: never two of these. *)
THEOREM NoEventIsLost == Spec => []NothingLost
<1>1. IInv => NothingLost
  BY DEF IInv
<1> QED BY <1>1, Invariance, PTL

(* Entry and exit callbacks follow the active state. *)
THEOREM CallbacksFollow == Spec => []InsideIsActive
<1>1. IInv => InsideIsActive
  BY DEF IInv
<1> QED BY <1>1, Invariance, PTL

(* A rule added later never changes what an event already does. *)
THEOREM ReactionsStand == Spec => ReactionStands
<1> DEFINE A == \A s \in States, what \in Events :
                   Chosen(rules, s, what) # {} =>
                       Chosen(rules', s, what) = Chosen(rules, s, what)
<1>1. ASSUME IInv, NEW rule \in RuleSet, add_rule(rule) PROVE A
  <2>1. rules \in Seq(RuleSet) /\ rules' = Append(rules, rule)
    BY <1>1 DEF add_rule, IInv, TypeOK
  <2>2. /\ Len(rules) \in Nat /\ DOMAIN rules = 1 .. Len(rules)
        /\ DOMAIN rules' = 1 .. Len(rules) + 1
        /\ \A i \in DOMAIN rules : rules'[i] = rules[i]
    BY <2>1
  <2> SUFFICES ASSUME NEW s \in States, NEW what \in Events,
                      NEW i \in Chosen(rules, s, what)
               PROVE  Chosen(rules', s, what) = Chosen(rules, s, what)
    OBVIOUS
  <2>3. /\ i \in 1 .. Len(rules) /\ matches(rules[i], s, what)
        /\ \A j \in 1 .. i - 1 : ~matches(rules[j], s, what)
    BY <2>2 DEF Chosen
  <2>4. Chosen(rules, s, what) = {i}
    BY <2>2, <2>3 DEF Chosen
  <2>5. Chosen(rules', s, what) = {i}
    BY <2>2, <2>3 DEF Chosen
  <2> QED BY <2>4, <2>5
<1>2. ASSUME rules' = rules PROVE A
  BY <1>2
<1> HIDE DEF A
<1>3. IInv /\ [Next]_vars => [A]_vars
  BY <1>1, <1>2 DEF Next, set_initial, handle, BeginReplay, Replay, reset
<1> USE DEF A
<1> QED BY <1>3, Invariance, PTL DEF Spec, ReactionStands

-----------------------------------------------------------------------------
(* The examples.  What a run of one of the programs can do to its machine  *)
(* and its data: nothing, one rule, or reset().                            *)

(* The rule taken, its action, and the history of payments and FINs. *)
Takes(e) ==
    /\ \E i \in Chosen(rules, active, e) : Transits(rules[i], e)
    /\ paid' = CASE e.type = "PlaceOrder"      -> {}
                 [] e.type = "PaymentReceived" -> {order.order_id}
                 [] OTHER                      -> paid
    /\ fins' = CASE e.type \in {"PassiveOpen", "ActiveOpen"} -> {"open"}
                 [] e.type = "Close"                         -> fins \cup {"sent"}
                 [] e.type = "ReceiveFIN"                    -> fins \cup {"received"}
                 [] OTHER                                    -> fins

(* Every step of a program leaves its table alone and does one of three things. *)
LEMMA ExampleSteps ==
    ASSUME [ExamplesNext]_evars
    PROVE  /\ UNCHANGED <<prog, rules, initial>>
           /\ \/ UNCHANGED <<active, data>>
              \/ \E e : Takes(e)
              \/ active' = initial /\ fins' = {} /\ UNCHANGED <<order, paid>>
<1> DEFINE Goal == /\ UNCHANGED <<prog, rules, initial>>
                   /\ \/ UNCHANGED <<active, data>>
                      \/ \E e : Takes(e)
                      \/ active' = initial /\ fins' = {} /\ UNCHANGED <<order, paid>>
<1>1. ASSUME NEW e, handleEvent(e) PROVE Goal
  BY <1>1, Zenon DEF handleEvent, Takes
<1>2. ASSUME resetMachine PROVE Goal
  BY <1>2, Zenon DEF resetMachine, reset
<1>3. CASE RunMain \/ AnyEvent \/ AnyReset
  BY <1>1, <1>2, <1>3, Zenon DEF RunMain, AnyEvent, AnyReset
<1>4. CASE Returned \/ UNCHANGED evars \/ AnyManagerCall
  BY <1>4, Zenon DEF Returned, AnyManagerCall, evars, vars
<1> QED
  BY <1>3, <1>4, Zenon DEF ExamplesNext

(* A rule as it was written down. *)
LEMMA RuleFields ==
    \A src, type, ns, dst :
        /\ Guarded(src, type, ns, dst).src = src
        /\ Guarded(src, type, ns, dst).dst = dst
        /\ Guarded(src, type, ns, dst).internal = FALSE
        /\ \A e \in Guarded(src, type, ns, dst).on : e.type = type /\ e.arg \in ns
BY DEF Guarded, E

(* Taking the rule at i. *)
LEMMA RuleTaken ==
    ASSUME NEW e, NEW p \in Programs, p # "lights", prog = p, rules = RulesOf[p],
           NEW i \in Chosen(rules, active, e), Transits(rules[i], e)
    PROVE  /\ rules[i].src = active /\ e \in rules[i].on
           /\ rules[i].internal = FALSE => active' = rules[i].dst
           /\ order' = IF prog = "orders" THEN OrderAction(e) ELSE order
BY ExamplesAssumption DEF ExamplesAssumption, Chosen, matches, Transits, execute_transition

-----------------------------------------------------------------------------
(* OrderProcessor: which moves its table allows. *)

OrderMove(e) ==
    \/ active = "Pending" /\ e.type = "PlaceOrder" /\ active' = "PaymentProcessing"
    \/ active = "PaymentProcessing" /\ e.type = "PaymentReceived" /\ active' = "PaymentConfirmed" /\ e.arg \in Positive
    \/ active = "PaymentProcessing" /\ e.type = "PaymentFailed" /\ active' = "Cancelled"
    \/ active = "PaymentProcessing" /\ e.type = "PaymentFailed" /\ active' = "Pending"
    \/ active = "PaymentConfirmed" /\ e.type = "InventoryReserved" /\ active' = "Preparing"
    \/ active = "PaymentConfirmed" /\ e.type = "InventoryShort" /\ active' = "Cancelled"
    \/ active = "Preparing" /\ e.type = "ShipOrder" /\ active' = "Shipped"
    \/ active = "Shipped" /\ e.type = "ConfirmDelivery" /\ active' = "Delivered"
    \/ active = "Delivered" /\ e.type = "ConfirmDelivery" /\ active' = "Completed"
    \/ active = "Pending" /\ e.type = "CancelOrder" /\ active' = "Cancelled"
    \/ active = "PaymentProcessing" /\ e.type = "CancelOrder" /\ active' = "Cancelled"
    \/ active = "PaymentConfirmed" /\ e.type = "CancelOrder" /\ active' = "Cancelled"
    \/ active = "Preparing" /\ e.type = "CancelOrder" /\ active' = "Cancelled"

(* A rule that OrderProcessor takes is one of these moves. *)
LEMMA OrderMoves ==
    ASSUME NEW e, prog = "orders", rules = OrderRules,
           NEW i \in Chosen(rules, active, e), Transits(rules[i], e)
    PROVE  OrderMove(e) /\ order' = OrderAction(e)
<1> DEFINE R ==
        { Rule("Pending", "PlaceOrder", "PaymentProcessing"),
          Guarded("PaymentProcessing", "PaymentReceived", PaymentGuard, "PaymentConfirmed"),
          Guarded("PaymentProcessing", "PaymentFailed", Fatal, "Cancelled"),
          Guarded("PaymentProcessing", "PaymentFailed", Payloads \ Fatal, "Pending"),
          Rule("PaymentConfirmed", "InventoryReserved", "Preparing"),
          Rule("PaymentConfirmed", "InventoryShort", "Cancelled"),
          Guarded("Preparing", "ShipOrder", Positive, "Shipped"),
          Rule("Shipped", "ConfirmDelivery", "Delivered"),
          Rule("Delivered", "ConfirmDelivery", "Completed"),
          Rule("Pending", "CancelOrder", "Cancelled"),
          Rule("PaymentProcessing", "CancelOrder", "Cancelled"),
          Rule("PaymentConfirmed", "CancelOrder", "Cancelled"),
          Rule("Preparing", "CancelOrder", "Cancelled") }
<1>0. OrderRules \in Seq(R)
  <2>1. << Rule("Pending", "PlaceOrder", "PaymentProcessing"),
           Guarded("PaymentProcessing", "PaymentReceived", PaymentGuard, "PaymentConfirmed"),
           Guarded("PaymentProcessing", "PaymentFailed", Fatal, "Cancelled"),
           Guarded("PaymentProcessing", "PaymentFailed", Payloads \ Fatal, "Pending"),
           Rule("PaymentConfirmed", "InventoryReserved", "Preparing"),
           Rule("PaymentConfirmed", "InventoryShort", "Cancelled"),
           Guarded("Preparing", "ShipOrder", Positive, "Shipped"),
           Rule("Shipped", "ConfirmDelivery", "Delivered"),
           Rule("Delivered", "ConfirmDelivery", "Completed") >> \in Seq(R)
    OBVIOUS
  <2>2. [k \in 1..4 |->
          Rule(<<"Pending", "PaymentProcessing", "PaymentConfirmed", "Preparing">>[k],
               "CancelOrder", "Cancelled")] \in Seq(R)
    OBVIOUS
  <2> HIDE DEF R
  <2> QED
    BY <2>1, <2>2 DEF OrderRules
<1>1. rules[i] \in R
  <2>1. i \in DOMAIN OrderRules
    BY DEF Chosen
  <2> HIDE DEF R
  <2> QED
    BY <1>0, <2>1
<1>2. /\ rules[i].src = active /\ e \in rules[i].on
      /\ rules[i].internal = FALSE => active' = rules[i].dst
      /\ order' = OrderAction(e)
  <2>1. "orders" \in Programs /\ RulesOf["orders"] = OrderRules
    BY DEF Programs, RulesOf
  <2> QED
    BY <2>1, RuleTaken
<1> USE DEF OrderMove
<1>3. CASE rules[i] = Rule("Pending", "PlaceOrder", "PaymentProcessing")
  BY <1>2, <1>3, RuleFields DEF Rule
<1>4. CASE rules[i] = Guarded("PaymentProcessing", "PaymentReceived", PaymentGuard, "PaymentConfirmed")
  BY <1>2, <1>4, RuleFields DEF Rule, PaymentGuard
<1>5. CASE rules[i] = Guarded("PaymentProcessing", "PaymentFailed", Fatal, "Cancelled")
  BY <1>2, <1>5, RuleFields DEF Rule
<1>6. CASE rules[i] = Guarded("PaymentProcessing", "PaymentFailed", Payloads \ Fatal, "Pending")
  BY <1>2, <1>6, RuleFields DEF Rule
<1>7. CASE rules[i] = Rule("PaymentConfirmed", "InventoryReserved", "Preparing")
  BY <1>2, <1>7, RuleFields DEF Rule
<1>8. CASE rules[i] = Rule("PaymentConfirmed", "InventoryShort", "Cancelled")
  BY <1>2, <1>8, RuleFields DEF Rule
<1>9. CASE rules[i] = Guarded("Preparing", "ShipOrder", Positive, "Shipped")
  BY <1>2, <1>9, RuleFields DEF Rule
<1>10. CASE rules[i] = Rule("Shipped", "ConfirmDelivery", "Delivered")
  BY <1>2, <1>10, RuleFields DEF Rule
<1>11. CASE rules[i] = Rule("Delivered", "ConfirmDelivery", "Completed")
  BY <1>2, <1>11, RuleFields DEF Rule
<1>12. CASE rules[i] = Rule("Pending", "CancelOrder", "Cancelled")
  BY <1>2, <1>12, RuleFields DEF Rule
<1>13. CASE rules[i] = Rule("PaymentProcessing", "CancelOrder", "Cancelled")
  BY <1>2, <1>13, RuleFields DEF Rule
<1>14. CASE rules[i] = Rule("PaymentConfirmed", "CancelOrder", "Cancelled")
  BY <1>2, <1>14, RuleFields DEF Rule
<1>15. CASE rules[i] = Rule("Preparing", "CancelOrder", "Cancelled")
  BY <1>2, <1>15, RuleFields DEF Rule
<1> QED
  BY <1>1, <1>3, <1>4, <1>5, <1>6, <1>7, <1>8, <1>9, <1>10, <1>11, <1>12, <1>13, <1>14, <1>15

(* What is known of an order processor between two events. *)
OrderInv ==
    prog = "orders" =>
        /\ rules = OrderRules /\ initial = "Pending"
        /\ order = [order_id |-> order.order_id, paid_amount |-> order.paid_amount,
                    tracking_id |-> order.tracking_id, cancel_reason |-> order.cancel_reason,
                    retry_count |-> order.retry_count]
        /\ OrderIsPaid

(* Every step keeps what is known of an order processor. *)
LEMMA OrderStep ==
    ASSUME OrderInv, [ExamplesNext]_evars
    PROVE  OrderInv'
<1> SUFFICES ASSUME prog = "orders" PROVE OrderInv'
  BY ExampleSteps DEF OrderInv
<1>1. /\ rules = OrderRules /\ initial = "Pending" /\ OrderIsPaid
      /\ order = [order_id |-> order.order_id, paid_amount |-> order.paid_amount,
                  tracking_id |-> order.tracking_id, cancel_reason |-> order.cancel_reason,
                  retry_count |-> order.retry_count]
      /\ UNCHANGED <<prog, rules, initial>>
  BY ExampleSteps DEF OrderInv
<1>2. CASE UNCHANGED <<active, data>>
  BY <1>1, <1>2 DEF OrderInv, OrderIsPaid, data
<1>3. CASE active' = initial /\ fins' = {} /\ UNCHANGED <<order, paid>>
  BY <1>1, <1>3 DEF OrderInv, OrderIsPaid
<1>4. ASSUME NEW e, Takes(e) PROVE OrderInv'
  <2>1. OrderMove(e) /\ order' = OrderAction(e)
    BY <1>1, <1>4, OrderMoves DEF Takes
  <2>2. paid' = CASE e.type = "PlaceOrder"      -> {}
                  [] e.type = "PaymentReceived" -> {order.order_id}
                  [] OTHER                      -> paid
    BY <1>4 DEF Takes
  <2>3. order' = [order_id |-> order'.order_id, paid_amount |-> order'.paid_amount,
                  tracking_id |-> order'.tracking_id, cancel_reason |-> order'.cancel_reason,
                  retry_count |-> order'.retry_count]
    BY <1>1, <2>1 DEF OrderAction
  <2>4. /\ e.type # "PlaceOrder" => order'.order_id = order.order_id
        /\ e.type = "PaymentReceived" => order'.paid_amount = e.arg
        /\ e.type # "PaymentReceived" => order'.paid_amount = order.paid_amount
    BY <1>1, <2>1 DEF OrderAction
  <2>5. OrderIsPaid'
    BY <1>1, <2>1, <2>2, <2>4 DEF OrderMove, OrderIsPaid, Positive
  <2> QED
    BY <1>1, <2>3, <2>5 DEF OrderInv
<1> QED
  BY <1>2, <1>3, <1>4, ExampleSteps

(* Goods move only for orders that were paid since they were placed, for   *)
(* any payloads and any sequence of events and resets.                     *)
THEOREM GoodsArePaid == ExamplesSpec => []OrderIsPaid
<1>1. ExamplesInit => OrderInv
  BY DEF ExamplesInit, Constructed, OrderInv, OrderIsPaid, RulesOf, InitialOf
<1>2. OrderInv => OrderIsPaid
  BY DEF OrderInv, OrderIsPaid
<1> QED
  BY <1>1, <1>2, OrderStep, PTL DEF ExamplesSpec

-----------------------------------------------------------------------------
(* TCPConnection: the same way. *)

TcpMove(e) ==
    \/ active = "Closed" /\ e.type = "PassiveOpen" /\ active' = "Listen"
    \/ active = "Closed" /\ e.type = "ActiveOpen" /\ active' = "SYN_Sent"
    \/ active = "Listen" /\ e.type = "ReceiveSYN" /\ active' = "SYN_RCVD"
    \/ active = "SYN_Sent" /\ e.type = "ReceiveSYNACK" /\ active' = "Established"
    \/ active = "SYN_RCVD" /\ e.type = "ReceiveACK" /\ active' = "Established"
    \/ active = "Established" /\ e.type = "Close" /\ active' = "FIN_Wait_1"
    \/ active = "Established" /\ e.type = "ReceiveFIN" /\ active' = "Close_Wait"
    \/ active = "FIN_Wait_1" /\ e.type = "ReceiveACK" /\ active' = "FIN_Wait_2"
    \/ active = "FIN_Wait_1" /\ e.type = "ReceiveFIN" /\ active' = "Time_Wait"
    \/ active = "FIN_Wait_2" /\ e.type = "ReceiveFIN" /\ active' = "Time_Wait"
    \/ active = "Time_Wait" /\ e.type = "Timeout" /\ active' = "Closed"
    \/ active = "Close_Wait" /\ e.type = "Close" /\ active' = "Last_ACK"
    \/ active = "Last_ACK" /\ e.type = "ReceiveACK" /\ active' = "Closed"

(* A rule that TCPConnection takes is one of these moves. *)
LEMMA TcpMoves ==
    ASSUME NEW e, prog = "tcp", rules = TcpRules,
           NEW i \in Chosen(rules, active, e), Transits(rules[i], e)
    PROVE  TcpMove(e)
<1> DEFINE R ==
        { Rule("Closed", "PassiveOpen", "Listen"),
          Rule("Closed", "ActiveOpen", "SYN_Sent"),
          Rule("Listen", "ReceiveSYN", "SYN_RCVD"),
          Rule("SYN_Sent", "ReceiveSYNACK", "Established"),
          Rule("SYN_RCVD", "ReceiveACK", "Established"),
          Rule("Established", "Close", "FIN_Wait_1"),
          Rule("Established", "ReceiveFIN", "Close_Wait"),
          Rule("FIN_Wait_1", "ReceiveACK", "FIN_Wait_2"),
          Rule("FIN_Wait_1", "ReceiveFIN", "Time_Wait"),
          Rule("FIN_Wait_2", "ReceiveFIN", "Time_Wait"),
          Rule("Time_Wait", "Timeout", "Closed"),
          Rule("Close_Wait", "Close", "Last_ACK"),
          Rule("Last_ACK", "ReceiveACK", "Closed") }
<1>0. TcpRules \in Seq(R)
  <2>1. << Rule("Closed", "PassiveOpen", "Listen"),
           Rule("Closed", "ActiveOpen", "SYN_Sent"),
           Rule("Listen", "ReceiveSYN", "SYN_RCVD"),
           Rule("SYN_Sent", "ReceiveSYNACK", "Established"),
           Rule("SYN_RCVD", "ReceiveACK", "Established"),
           Rule("Established", "Close", "FIN_Wait_1"),
           Rule("Established", "ReceiveFIN", "Close_Wait") >> \in Seq(R)
    OBVIOUS
  <2>2. AfterClose \in Seq(R)
    BY DEF AfterClose
  <2>3. << Rule("Time_Wait", "Timeout", "Closed"),
           Rule("Close_Wait", "Close", "Last_ACK"),
           Rule("Last_ACK", "ReceiveACK", "Closed") >> \in Seq(R)
    OBVIOUS
  <2> HIDE DEF R
  <2> QED
    BY <2>1, <2>2, <2>3 DEF TcpRules
<1>1. rules[i] \in R
  <2>1. i \in DOMAIN TcpRules
    BY DEF Chosen
  <2> HIDE DEF R
  <2> QED
    BY <1>0, <2>1
<1>2. /\ rules[i].src = active /\ e \in rules[i].on
      /\ rules[i].internal = FALSE => active' = rules[i].dst
  <2>1. "tcp" \in Programs /\ RulesOf["tcp"] = TcpRules
    BY DEF Programs, RulesOf
  <2> QED
    BY <2>1, RuleTaken
<1> USE DEF TcpMove
<1>3. CASE rules[i] = Rule("Closed", "PassiveOpen", "Listen")
  BY <1>2, <1>3, RuleFields DEF Rule
<1>4. CASE rules[i] = Rule("Closed", "ActiveOpen", "SYN_Sent")
  BY <1>2, <1>4, RuleFields DEF Rule
<1>5. CASE rules[i] = Rule("Listen", "ReceiveSYN", "SYN_RCVD")
  BY <1>2, <1>5, RuleFields DEF Rule
<1>6. CASE rules[i] = Rule("SYN_Sent", "ReceiveSYNACK", "Established")
  BY <1>2, <1>6, RuleFields DEF Rule
<1>7. CASE rules[i] = Rule("SYN_RCVD", "ReceiveACK", "Established")
  BY <1>2, <1>7, RuleFields DEF Rule
<1>8. CASE rules[i] = Rule("Established", "Close", "FIN_Wait_1")
  BY <1>2, <1>8, RuleFields DEF Rule
<1>9. CASE rules[i] = Rule("Established", "ReceiveFIN", "Close_Wait")
  BY <1>2, <1>9, RuleFields DEF Rule
<1>10. CASE rules[i] = Rule("FIN_Wait_1", "ReceiveACK", "FIN_Wait_2")
  BY <1>2, <1>10, RuleFields DEF Rule
<1>11. CASE rules[i] = Rule("FIN_Wait_1", "ReceiveFIN", "Time_Wait")
  BY <1>2, <1>11, RuleFields DEF Rule
<1>12. CASE rules[i] = Rule("FIN_Wait_2", "ReceiveFIN", "Time_Wait")
  BY <1>2, <1>12, RuleFields DEF Rule
<1>13. CASE rules[i] = Rule("Time_Wait", "Timeout", "Closed")
  BY <1>2, <1>13, RuleFields DEF Rule
<1>14. CASE rules[i] = Rule("Close_Wait", "Close", "Last_ACK")
  BY <1>2, <1>14, RuleFields DEF Rule
<1>15. CASE rules[i] = Rule("Last_ACK", "ReceiveACK", "Closed")
  BY <1>2, <1>15, RuleFields DEF Rule
<1> QED
  BY <1>1, <1>3, <1>4, <1>5, <1>6, <1>7, <1>8, <1>9, <1>10, <1>11, <1>12, <1>13, <1>14, <1>15

(* Which FINs have gone in the states of a connection that is closing. *)
TcpInv ==
    prog = "tcp" =>
        /\ rules = TcpRules /\ initial = "Closed"
        /\ active \in {"FIN_Wait_1", "FIN_Wait_2"} => "sent" \in fins
        /\ active = "Close_Wait" => "received" \in fins
        /\ active \in {"Time_Wait", "Last_ACK"} => {"sent", "received"} \subseteq fins
        /\ ClosesBothWays

(* Every step keeps what is known of a connection. *)
LEMMA TcpStep ==
    ASSUME TcpInv, [ExamplesNext]_evars
    PROVE  TcpInv'
<1> SUFFICES ASSUME prog = "tcp" PROVE TcpInv'
  BY ExampleSteps DEF TcpInv
<1>1. rules = TcpRules /\ UNCHANGED <<prog, rules, initial>>
  BY ExampleSteps DEF TcpInv
<1>2. CASE UNCHANGED <<active, data>>
  BY <1>1, <1>2 DEF TcpInv, ClosesBothWays, data
<1>3. CASE active' = initial /\ fins' = {} /\ UNCHANGED <<order, paid>>
  BY <1>1, <1>3 DEF TcpInv, ClosesBothWays
<1>4. ASSUME NEW e, Takes(e) PROVE TcpInv'
  <2>1. TcpMove(e)
    BY <1>1, <1>4, TcpMoves DEF Takes
  <2>2. fins' = CASE e.type \in {"PassiveOpen", "ActiveOpen"} -> {"open"}
                  [] e.type = "Close"                         -> fins \cup {"sent"}
                  [] e.type = "ReceiveFIN"                    -> fins \cup {"received"}
                  [] OTHER                                    -> fins
    BY <1>4 DEF Takes
  <2> QED
    BY <1>1, <2>1, <2>2 DEF TcpMove, TcpInv, ClosesBothWays
<1> QED
  BY <1>2, <1>3, <1>4, ExampleSteps

(* A connection is closed again only after a FIN went each way, whichever  *)
(* side began.                                                             *)
THEOREM ClosedBothWays == ExamplesSpec => []ClosesBothWays
<1>1. ExamplesInit => TcpInv
  BY DEF ExamplesInit, Constructed, TcpInv, ClosesBothWays, RulesOf, InitialOf
<1>2. TcpInv => ClosesBothWays
  BY DEF TcpInv, ClosesBothWays
<1> QED
  BY <1>1, <1>2, TcpStep, PTL DEF ExamplesSpec
=============================================================================
