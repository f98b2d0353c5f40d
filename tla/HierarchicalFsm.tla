--------------------------- MODULE HierarchicalFsm ---------------------------
(***************************************************************************)
(* state_machine_2/include/hierarchical_fsm.hpp: states in a forest given  *)
(* by parents_, events that travel from the current state to its ancestors *)
(* until one of them has a transition whose guard holds, and exit and      *)
(* entry callbacks along the way over the lowest common ancestor.          *)
(* The tree and the table are registered before reset(); every state has   *)
(* both callbacks.                                                         *)
(***************************************************************************)
EXTENDS Naturals, SequencesExt, FiniteSetsExt

CONSTANTS State, Event, NoState,
          Machines  \* records of parents_ and transitions_, functions from some of
                    \* State and of State \X Event

(* No way from a state to its parents goes on for ever, so path_to_root()  *)
(* returns.                                                                *)
Acyclic(p) == \A D \in SUBSET DOMAIN p : D # {} => \E s \in D : p[s] \notin D

ASSUME ForestAssumption ==
    /\ NoState \notin State
    /\ \A m \in Machines :
          /\ DOMAIN m.parents \subseteq State /\ Acyclic(m.parents)
          /\ \A s \in DOMAIN m.parents : m.parents[s] \in State
          /\ \A k \in DOMAIN m.table : m.table[k] \in State

VARIABLES parents, table,
          current_state_,
          inside,   \* history: states entered and not exited since
          ran       \* history: the callbacks of the last call, in order, and what called them

fsmVars == <<parents, table, current_state_, inside, ran>>

(* path_to_root() *)
Path[s \in State] == IF s \in DOMAIN parents THEN <<s>> \o Path[parents[s]] ELSE <<s>>

PathSet(s) == Range(Path[s])

FsmInit ==
    /\ \E m \in Machines : parents = m.parents /\ table = m.table
    /\ current_state_ = NoState /\ inside = {}
    /\ ran = [by |-> "reset", calls |-> <<>>]

-----------------------------------------------------------------------------
Callbacks(op, path) == [i \in DOMAIN path |-> [op |-> op, state |-> path[i]]]

(* The callbacks run on exits, then on entries. *)
Run(by, exits, entries) ==
    /\ ran' = [by |-> by, calls |-> Callbacks("exit", exits) \o Callbacks("entry", entries)]
    /\ inside' = (inside \ Range(exits)) \cup Range(entries)

fsm_reset_InsideOut(initial) ==
    /\ Run("reset", <<>>, Path[initial])
    /\ current_state_' = initial /\ UNCHANGED <<parents, table>>

(* reset(): the entry callbacks from the root down; no exit callbacks. *)
fsm_reset(initial) ==
    /\ Run("reset", <<>>, Reverse(Path[initial]))
    /\ current_state_' = initial /\ UNCHANGED <<parents, table>>

find_lca_TargetsParent(a, b) == IF b \in DOMAIN parents THEN parents[b] ELSE b

(* The first state of a's path that is on b's; a itself if there is none. *)
find_lca(a, b) ==
    LET common == {i \in DOMAIN Path[a] : Path[a][i] \in PathSet(b)}
    IN  IF common = {} THEN a ELSE Path[a][Min(common)]

(* From s up to the lca, without it; up to the root if it is not there. *)
UpTo(s, lca) ==
    LET at == {i \in DOMAIN Path[s] : Path[s][i] = lca}
    IN  IF at = {} THEN Path[s] ELSE SubSeq(Path[s], 1, Min(at) - 1)

(* execute_transition() leaves from, which is the handler and not always the *)
(* current state.                                                            *)
execute_transition(from, to) ==
    LET lca == find_lca(from, to)
    IN  /\ Run("process_event", UpTo(from, lca), Reverse(UpTo(to, lca)))
        /\ current_state_' = to /\ UNCHANGED <<parents, table>>

(* The states that would handle e, guards being true in the set open. *)
Handlers(e, open) == {s \in PathSet(current_state_) : <<s, e>> \in DOMAIN table /\ s \in open}

Innermost(S) == CHOOSE s \in S : \A x \in S : x \in PathSet(s)

fsm_process_event(e, open) ==
    /\ current_state_ # NoState
    /\ IF Handlers(e, open) = {}
       THEN Run("process_event", <<>>, <<>>) /\ UNCHANGED <<parents, table, current_state_>>
       ELSE LET h == Innermost(Handlers(e, open)) IN execute_transition(h, table[<<h, e>>])

FsmNext ==
    \/ \E s \in State : fsm_reset(s)
    \/ \E e \in Event : \E open \in SUBSET State : fsm_process_event(e, open)

FsmSpec == FsmInit /\ [][FsmNext]_fsmVars

-----------------------------------------------------------------------------
(* Whichever ancestor handled an event, and wherever the target lies in the *)
(* forest, the current state and all its ancestors have been entered and    *)
(* not exited since.                                                        *)
AncestorsEntered == current_state_ # NoState => PathSet(current_state_) \subseteq inside

(* Callbacks nest: a state is entered when its parent is inside, and exited *)
(* before its parent is.                                                    *)
Nests ==
    \A i \in DOMAIN ran'.calls :
        LET c == ran'.calls[i]
            before == {ran'.calls[j] : j \in 1..i-1}
            Parent(op) == [op |-> op, state |-> parents[c.state]]
        IN  c.state \in DOMAIN parents =>
              IF c.op = "exit" THEN Parent("exit") \notin before
              ELSE \/ Parent("entry") \in before
                   \/ parents[c.state] \in inside /\ Parent("exit") \notin before

CallbacksNest == [][Nests]_fsmVars

(* Transitions are resolved over the lowest common ancestor: an event that  *)
(* takes the machine to another state exits every state it leaves.          *)
LeftAreExited ==
    [][(current_state_ # NoState /\ ran'.by = "process_event") =>
         \A s \in PathSet(current_state_) \ PathSet(current_state_') :
            [op |-> "exit", state |-> s] \in Range(ran'.calls)]_fsmVars
=============================================================================
