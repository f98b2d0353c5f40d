---------------------------- MODULE HfsmManagers ----------------------------
(***************************************************************************)
(* state_machine/include/hfsm/core/history.hpp and region.hpp: the maps    *)
(* HistoryManager and RegionManager keep, and what each call makes of      *)
(* them.  A map is a function whose domain are the states configured.      *)
(***************************************************************************)
EXTENDS Sequences, TLC

INVALID_STATE == "invalid"
HistoryMode   == {"None", "Shallow", "Deep"}

NoEntries == [s \in {} |-> s]

configure(h, s, mode) ==
    (s :> [mode |-> mode, last_active |-> INVALID_STATE, stack |-> <<>>]) @@ h

(* Only a deep history pushes on last_active_stack; nothing pops it. *)
record(h, s, child) ==
    IF s \notin DOMAIN h THEN h
    ELSE [h EXCEPT ![s].last_active = child,
                   ![s].stack = IF h[s].mode = "Deep" THEN Append(@, child) ELSE @]

(* A deep history returns the front of the stack, the oldest record. *)
recall(h, s) ==
    IF s \notin DOMAIN h THEN INVALID_STATE
    ELSE IF h[s].mode = "Deep" /\ h[s].last_active # INVALID_STATE /\ h[s].stack # <<>>
    THEN Head(h[s].stack)
    ELSE h[s].last_active

clear(h, s) ==
    IF s \notin DOMAIN h THEN h
    ELSE [h EXCEPT ![s].last_active = INVALID_STATE, ![s].stack = <<>>]

clear_all == NoEntries

has_history(h, s) == s \in DOMAIN h /\ h[s].last_active # INVALID_STATE

add_region(r, parent, initial) ==
    (parent :> [active_child |-> initial, initial_child |-> initial,
                history |-> INVALID_STATE, is_active |-> FALSE]) @@ r

(* A region that was never added has no effect. *)
activate_region(r, parent) ==
    IF parent \notin DOMAIN r THEN r
    ELSE [r EXCEPT ![parent].is_active = TRUE,
                   ![parent].active_child = IF @ = INVALID_STATE
                                            THEN r[parent].initial_child ELSE @]

deactivate_region(r, parent) ==
    IF parent \notin DOMAIN r THEN r
    ELSE [r EXCEPT ![parent].is_active = FALSE,
                   ![parent].history = r[parent].active_child]

set_active_child(r, parent, child) ==
    IF parent \notin DOMAIN r THEN r
    ELSE [r EXCEPT ![parent].active_child = child]

get_active_child(r, parent) ==
    IF parent \in DOMAIN r THEN r[parent].active_child ELSE INVALID_STATE

is_region_active(r, parent) == parent \in DOMAIN r /\ r[parent].is_active
=============================================================================
