---------------------------- MODULE TypedStateId ----------------------------
(***************************************************************************)
(* state_machine/include/hfsm/core/machine.hpp: TypedStateId<T>::id(), by  *)
(* which Machine<> turns a state's type into a state id.  sid and counter  *)
(* are static locals of members of a class template, so every type has its *)
(* own of both.                                                            *)
(***************************************************************************)
EXTENDS Naturals

CONSTANT Tags   \* the types used as state tags

VARIABLES sid,     \* the id of a type, once id() was called for it; else 0
          counter  \* next_id()'s counter

vars == <<sid, counter>>

Init == sid = [t \in Tags |-> 0] /\ counter = [t \in Tags |-> 1]

(* The first call for a type; later calls change nothing. *)
id(t) ==
    /\ sid[t] = 0
    /\ sid' = [sid EXCEPT ![t] = counter[t]]
    /\ counter' = [counter EXCEPT ![t] = @ + 1]

Next == \E t \in Tags : id(t)

Spec == Init /\ [][Next]_vars

(* "runtime unique ID per type": is_in<A>() and is_in<B>() never ask about *)
(* the same state.                                                         *)
UniqueIds == \A t, u \in Tags : sid[t] = sid[u] /\ sid[t] # 0 => t = u
=============================================================================
