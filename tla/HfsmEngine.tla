----------------------------- MODULE HfsmEngine -----------------------------
(***************************************************************************)
(* state_machine/include/hfsm/core/machine.hpp: StateMachineEngine, a      *)
(* table of rules tried in the order they were added, with entry and exit  *)
(* callbacks and a queue of deferred events.  The engine has no lock and   *)
(* one caller at a time.  handle() and reset() are one step each;          *)
(* process_deferred() is one step per event it replays, because each event *)
(* meets the state the one before it left behind.                          *)
(* Guards look at the event only, as in every machine of the repository: a *)
(* rule carries the set of events it accepts.  Rule actions and callbacks  *)
(* print or count and never call the engine.                               *)
(***************************************************************************)
EXTENDS Naturals, Sequences

CONSTANTS States,    \* state ids, all registered
          Events,    \* what an event can be: its type and payload
          AnySource, \* src of a rule with is_any
          RuleSet,   \* the rules a program may add
          MaxRules,  \* bound: rules added
          MaxEvents  \* bound: events given to handle()

ASSUME EngineAssumption ==
    /\ MaxRules \in Nat /\ MaxEvents \in Nat
    /\ AnySource \notin States
    /\ RuleSet \subseteq [src : States \cup {AnySource}, on : SUBSET Events,
                          dst : States, internal : BOOLEAN]

VARIABLES
    rules,     \* rules_
    initial,   \* initial_state_
    active,    \* active_state_.id
    deferring, \* config_.defer_unhandled_events
    deferred,  \* deferred_events_
    pass,      \* the events process_deferred() has still to replay
    result,    \* what process_deferred() returns; "none" after other calls
    posted,    \* history: how many events handle() was given; they are numbered
    times,     \* history: how often each event was handled
    dropped,   \* history: events refused without deferral, or cleared by reset()
    inside     \* history: states whose entry callback ran later than their exit

vars == <<rules, initial, active, deferring, deferred, pass, result,
          posted, times, dropped, inside>>

Number   == 1..MaxEvents
Envelope == [n : Number, what : Events]

Numbers(q) == {q[i].n : i \in DOMAIN q}

(* The constructor, and set_initial() on a machine without a state. *)
Constructed ==
    /\ initial \in States /\ active = initial
    /\ deferring \in BOOLEAN
    /\ deferred = <<>> /\ pass = <<>> /\ result = "none"
    /\ posted = 0 /\ times = [n \in Number |-> 0] /\ dropped = {} /\ inside = {}

Init == rules = <<>> /\ Constructed

-----------------------------------------------------------------------------
matches(rule, s, what) ==
    /\ what \in rule.on
    /\ rule.src \in {AnySource, s}

(* The loop of handle_envelope() over rs: the index of the rule that is    *)
(* executed in state s, if there is one.                                   *)
Chosen(rs, s, what) ==
    {i \in DOMAIN rs : /\ matches(rs[i], s, what)
                       /\ \A j \in 1 .. i - 1 : ~matches(rs[j], s, what)}

(* run_exit, the change of state, run_entry; neither for an internal rule. *)
execute_transition(rule) ==
    IF rule.internal
    THEN UNCHANGED <<active, inside>>
    ELSE /\ active' = rule.dst
         /\ inside' = (inside \ {active}) \cup {rule.dst}

(* handle_envelope(): handled, else deferred behind q, else refused. *)
Handled(e, q) ==
    /\ \E i \in Chosen(rules, active, e.what) : execute_transition(rules[i])
    /\ times' = [times EXCEPT ![e.n] = @ + 1]
    /\ deferred' = q
    /\ UNCHANGED dropped

Refused_AlwaysDefers(e, q) ==
    /\ Chosen(rules, active, e.what) = {}
    /\ deferred' = Append(q, e)
    /\ UNCHANGED <<active, inside, times, dropped>>

Refused(e, q) ==
    /\ Chosen(rules, active, e.what) = {}
    /\ IF deferring
       THEN deferred' = Append(q, e) /\ UNCHANGED dropped
       ELSE deferred' = q /\ dropped' = dropped \cup {e.n}
    /\ UNCHANGED <<active, inside, times>>

Idle == pass = <<>>   \* no call of process_deferred() is in progress

-----------------------------------------------------------------------------
add_rule(rule) ==
    /\ Idle /\ Len(rules) < MaxRules
    /\ rules' = Append(rules, rule)
    /\ result' = "none"
    /\ UNCHANGED <<initial, active, deferring, deferred, pass,
                   posted, times, dropped, inside>>

(* There is an active state already, so only the target of reset() changes. *)
set_initial(s) ==
    /\ Idle
    /\ initial' = s
    /\ result' = "none"
    /\ UNCHANGED <<rules, active, deferring, deferred, pass,
                   posted, times, dropped, inside>>

handle(what) ==
    /\ Idle /\ posted < MaxEvents
    /\ posted' = posted + 1
    /\ LET e == [n |-> posted + 1, what |-> what]
       IN  Handled(e, deferred) \/ Refused(e, deferred)
    /\ result' = "none"
    /\ UNCHANGED <<rules, initial, deferring, pass>>

BeginReplay_Copy ==
    /\ Idle /\ deferred # <<>>
    /\ pass' = deferred
    /\ result' = "Handled"
    /\ UNCHANGED <<rules, initial, active, deferring, deferred,
                   posted, times, dropped, inside>>

(* process_deferred(): events = std::move(deferred_events_). *)
BeginReplay ==
    /\ Idle /\ deferred # <<>>
    /\ pass' = deferred /\ deferred' = <<>>
    /\ result' = "Handled"
    /\ UNCHANGED <<rules, initial, active, deferring,
                   posted, times, dropped, inside>>

Replay_Forgets ==
    /\ ~Idle
    /\ pass' = Tail(pass)
    /\ \/ Handled(Head(pass), deferred)
       \/ /\ Chosen(rules, active, Head(pass).what) = {}
          /\ UNCHANGED <<active, inside, times, deferred, dropped>>
    /\ UNCHANGED <<rules, initial, deferring, result, posted>>

(* One turn of its loop; an event deferred again is not an unhandled one. *)
Replay ==
    /\ ~Idle
    /\ pass' = Tail(pass)
    /\ \/ Handled(Head(pass), deferred) /\ UNCHANGED result
       \/ /\ Refused(Head(pass), deferred)
          /\ result' = IF deferring THEN result ELSE "Unhandled"
    /\ UNCHANGED <<rules, initial, deferring, posted>>

reset_NoExit ==
    /\ Idle
    /\ active' = initial
    /\ inside' = inside \cup {initial}
    /\ dropped' = dropped \cup Numbers(deferred)
    /\ deferred' = <<>>
    /\ result' = "none"
    /\ UNCHANGED <<rules, initial, deferring, pass, posted, times>>

(* The exit callback is not run in the initial state; the entry callback   *)
(* always is.                                                              *)
reset ==
    /\ Idle
    /\ active' = initial
    /\ inside' = (inside \ IF active = initial THEN {} ELSE {active}) \cup {initial}
    /\ dropped' = dropped \cup Numbers(deferred)
    /\ deferred' = <<>>
    /\ result' = "none"
    /\ UNCHANGED <<rules, initial, deferring, pass, posted, times>>

Next ==
    \/ \E rule \in RuleSet : add_rule(rule)
    \/ \E s \in States : set_initial(s)
    \/ \E what \in Events : handle(what)
    \/ BeginReplay \/ Replay
    \/ reset

Spec == Init /\ [][Next]_vars

-----------------------------------------------------------------------------
(* Properties. *)

(* Nothing is deferred unless the machine was configured for it. *)
TypeOK ==
    /\ rules \in Seq(RuleSet) /\ Len(rules) <= MaxRules
    /\ initial \in States /\ active \in States /\ inside \subseteq States
    /\ deferring \in BOOLEAN
    /\ deferred \in Seq(Envelope) /\ pass \in Seq(Envelope)
    /\ ~deferring => deferred = <<>> /\ pass = <<>>
    /\ result \in {"none", "Handled", "Unhandled"}
    /\ posted \in 0..MaxEvents /\ times \in [Number -> Nat]
    /\ dropped \subseteq Number

(* The events the engine still holds, the ones being replayed last. *)
Held == deferred \o pass

(* No event is held twice and the ones deferred come in the order in which *)
(* they were posted, also half way through process_deferred().             *)
PostingOrder ==
    \A i, j \in DOMAIN Held : i < j => Held[i].n < Held[j].n

(* Every event given to handle() is handled once, or still held, or was    *)
(* refused or cleared: exactly one of the three.                           *)
NothingLost ==
    LET held == Numbers(Held)
    IN  /\ held \cup dropped \subseteq 1..posted
        /\ held \cap dropped = {}
        /\ \A n \in Number :
              times[n] = IF n \in 1..posted \ (held \cup dropped) THEN 1 ELSE 0

(* Entry and exit callbacks follow the active state: no other state has    *)
(* been entered and not left, however events, replays and resets mix.      *)
InsideIsActive == inside \subseteq {active}

(* Rules are tried in the order they were added: a new rule never changes  *)
(* the reaction of any state to an event that it handles already.          *)
ReactionStands ==
    [][\A s \in States, what \in Events :
        Chosen(rules, s, what) # {} =>
            Chosen(rules', s, what) = Chosen(rules, s, what)]_vars

(* "deferred EvStop should be handled now": when process_deferred()        *)
(* returns Handled no event it replayed is deferred again.                 *)
ReplayResultIsTrue ==
    Idle /\ result = "Handled" => deferred = <<>>
=============================================================================
