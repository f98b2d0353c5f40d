------------------------------ MODULE PlcPoller ------------------------------
(***************************************************************************)
(* proto_opcua/parse_project/plc_poller.cpp with the part of plc_client.cpp *)
(* it reads through.  A background thread and any number of callers poll   *)
(* groups of items.  A polling round holds groups_mtx_ from its first item *)
(* to its last, so the other operations on the groups fall between rounds; *)
(* the reads inside a round are steps of their own, because stop() does    *)
(* not take the mutex.  start() and stop() do not synchronise with one     *)
(* another and belong to one caller, the Owner, who also connects and      *)
(* disconnects the client, which has no lock either.                       *)
(*                                                                         *)
(* Time is counted in ticks.  An item is its position in its group, and a  *)
(* value is told only by whether the server delivered it.                  *)
(***************************************************************************)
EXTENDS Naturals, Sequences, FiniteSetsExt, SequencesExt

CONSTANTS Callers, Owner, Thread, NoOne,
          Names,      \* group names
          AnyGroup,   \* the empty name of pollAll()
          Intervals,  \* polling intervals, in ticks
          Sizes,      \* numbers of items in a group
          MaxGroups,  \* bound: groups registered
          MaxAge      \* bound: up to where the age of a poll is counted

ASSUME PollerAssumption ==
    /\ Owner \in Callers /\ Thread \notin Callers /\ NoOne \notin Callers \cup {Thread}
    /\ AnyGroup \notin Names
    /\ Intervals \subseteq Nat \ {0} /\ (\E m \in Intervals : \A i \in Intervals : i <= m)
    /\ Sizes \subseteq Nat
    /\ MaxGroups \in Nat /\ MaxAge \in Nat

DefaultNap == 1                           \* sleep_for(100ms)
MaxTick == Max(Intervals \cup {DefaultNap})  \* bound: no deadline is further away
Never == MaxTick + 1                      \* time_point::max()

VARIABLES
    groups,    \* groups_: name, interval, number of items, enabled; age: ticks since its last round
    lock,      \* the holder of groups_mtx_
    at,        \* where the holder is in its round
    running,   \* running_
    tpc,       \* the poll thread: "none" is not joinable, "ended" waits for join()
    elapsed,   \* ticks since the thread read the clock
    wake,      \* next: when the thread wakes, counted from there
    pc,        \* what each caller is in the middle of
    connected, \* PlcClient: client_ # nullptr
    silenced   \* history: names whose removal or disabling has returned

vars == <<groups, lock, at, running, tpc, elapsed, wake, pc, connected, silenced>>

Group == [name : Names, interval : Intervals, size : Sizes, enabled : BOOLEAN, age : 0..MaxAge]
NoGroup == [name |-> AnyGroup, size |-> 0]

(* idx, g: the group being polled; item: the items read; ok: the counter of  *)
(* pollGroup(); want: the argument of pollOnce(); real: a history, how many  *)
(* of the values came from the server.                                       *)
Place == [idx : Nat \ {0}, g : Group \cup {NoGroup}, item : Nat, ok : Nat,
          want : Names \cup {AnyGroup}, real : Nat]
Idle == [idx |-> 1, g |-> NoGroup, item |-> 0, ok |-> 0, want |-> AnyGroup, real |-> 0]

Polling == at.g # NoGroup

TypeOK ==
    /\ groups \in BoundedSeq(Group, MaxGroups)
    /\ lock \in Callers \cup {Thread, NoOne}
    /\ at \in Place
    /\ at.idx <= Len(groups) + 1 /\ at.item <= at.g.size /\ at.ok <= at.item /\ at.real <= at.ok
    /\ Polling => at.idx <= Len(groups) /\ at.g = groups[at.idx]
    /\ running \in BOOLEAN /\ connected \in BOOLEAN
    /\ tpc \in {"none", "top", "lock", "round", "sleep", "ended"}
    /\ elapsed \in 0..MaxTick /\ wake \in 0..Never
    /\ pc \in [Callers -> {"idle", "polling", "joining"}]
    /\ silenced \subseteq Names

Init ==
    /\ groups = <<>> /\ lock = NoOne /\ at = Idle
    /\ running = FALSE /\ tpc = "none" /\ elapsed = 0 /\ wake = Never
    /\ pc = [c \in Callers |-> "idle"]
    /\ connected = FALSE /\ silenced = {}

-----------------------------------------------------------------------------
(* The configuration, under groups_mtx_. *)

LockFree_NotTaken == TRUE

LockFree == lock = NoOne

Config(c) ==
    /\ pc[c] = "idle" /\ LockFree
    /\ UNCHANGED <<lock, at, running, tpc, elapsed, wake, pc, connected>>

addGroup(c, name, interval, size, enabled) ==
    /\ Config(c) /\ Len(groups) < MaxGroups
    /\ groups' = Append(groups, [name |-> name, interval |-> interval, size |-> size,
                                 enabled |-> enabled, age |-> MaxAge])
    /\ silenced' = silenced \ {name}

First(name) == Min({i \in DOMAIN groups : groups[i].name = name})

removeGroup_FirstOnly(c, name) ==
    /\ Config(c)
    /\ groups' = IF \E g \in Range(groups) : g.name = name THEN RemoveAt(groups, First(name)) ELSE groups
    /\ silenced' = silenced \cup {name}

(* erase(remove_if(...)): every group of that name; the others keep their order *)
removeGroup(c, name) ==
    /\ Config(c)
    /\ LET kept == {i \in DOMAIN groups : groups[i].name # name}
       IN  \E f \in [1..Cardinality(kept) -> kept] :
             /\ \A i, j \in DOMAIN f : i < j => f[i] < f[j]
             /\ groups' = [i \in DOMAIN f |-> groups[f[i]]]
    /\ silenced' = silenced \cup {name}

(* for ... if (g.name == name) { ...; break; }: the first group of that name. *)
(* The round after a change of interval is not held against the old one.      *)
setGroupInterval(c, name, ms) ==
    /\ Config(c)
    /\ \E g \in Range(groups) : g.name = name
    /\ groups' = [groups EXCEPT ![First(name)].interval = ms, ![First(name)].age = MaxAge]
    /\ UNCHANGED silenced

setGroupEnabled(c, name, enabled) ==
    /\ Config(c)
    /\ \E g \in Range(groups) : g.name = name
    /\ groups' = [groups EXCEPT ![First(name)].enabled = enabled]
    /\ silenced' = IF enabled THEN silenced \ {name}
                   ELSE IF \E i \in DOMAIN groups : i # First(name) /\ groups[i].name = name
                        THEN silenced ELSE silenced \cup {name}

-----------------------------------------------------------------------------
(* A polling round of the holder h of groups_mtx_. *)

(* pollThread() passes over groups without items, pollOnce() does not. *)
Eligible(h, g, want) ==
    /\ g.enabled
    /\ IF h = Thread THEN g.size > 0 ELSE want \in {AnyGroup, g.name}

(* The round from group i on; the counters of pollGroup() start at 0. *)
From(h, i, want) ==
    LET idx == Min({j \in i..Len(groups) : Eligible(h, groups[j], want)} \cup {Len(groups) + 1})
    IN  [Idle EXCEPT !.idx = idx, !.want = want,
                     !.g = IF idx <= Len(groups) THEN groups[idx] ELSE NoGroup]

Lock(h, want) == /\ LockFree /\ lock' = h /\ at' = From(h, 1, want)

(* PlcClient::readNode() or readNodeString(): whether the server delivered a *)
(* value, and whether the status code that is returned says so.  Without a   *)
(* connection, and for an answer without results, the default CachedValue is *)
(* returned, whose status is good.                                           *)
ReadResults ==
    {r \in [real : BOOLEAN, valid : BOOLEAN] :
        /\ r.real => connected /\ r.valid
        /\ ~connected => r.valid}

(* One item of pollGroup(): read, count, put.  The caller is in the body of  *)
(* its loop, so running_ is not looked at.                                   *)
Read(h) ==
    /\ lock = h /\ Polling /\ at.item < at.g.size
    /\ \E r \in ReadResults :
         at' = [at EXCEPT !.item = @ + 1,
                          !.ok = @ + (IF r.valid THEN 1 ELSE 0),
                          !.real = @ + (IF r.real THEN 1 ELSE 0)]
    /\ UNCHANGED <<groups, lock, running, tpc, elapsed, wake, pc, connected, silenced>>

(* on_poll_done_, the deadline of the group, and on to the next one. *)
PollDone(h) ==
    /\ lock = h /\ Polling /\ at.item = at.g.size
    /\ at' = From(h, at.idx + 1, at.want)
    /\ wake' = IF h = Thread THEN Min({wake, at.g.interval}) ELSE wake
    /\ groups' = IF h = Thread THEN [groups EXCEPT ![at.idx].age = Min({elapsed, MaxAge})] ELSE groups
    /\ UNCHANGED <<lock, running, tpc, elapsed, pc, connected, silenced>>

pollOnce(c, want) ==
    /\ pc[c] = "idle" /\ Lock(c, want)
    /\ pc' = [pc EXCEPT ![c] = "polling"]
    /\ UNCHANGED <<groups, running, tpc, elapsed, wake, connected, silenced>>

PollOnceEnd(c) ==
    /\ lock = c /\ ~Polling
    /\ lock' = NoOne /\ at' = Idle
    /\ pc' = [pc EXCEPT ![c] = "idle"]
    /\ UNCHANGED <<groups, running, tpc, elapsed, wake, connected, silenced>>

-----------------------------------------------------------------------------
(* pollThread(). *)

LoopTest ==
    /\ tpc = "top"
    /\ tpc' = IF running THEN "lock" ELSE "ended"
    /\ UNCHANGED <<groups, lock, at, running, elapsed, wake, pc, connected, silenced>>

RoundBegin ==
    /\ tpc = "lock" /\ Lock(Thread, AnyGroup)
    /\ tpc' = "round" /\ elapsed' = 0 /\ wake' = Never
    /\ UNCHANGED <<groups, running, pc, connected, silenced>>

(* sleep_for() starts now, sleep_until() counts from the round's beginning. *)
Sleep_NoDefault == UNCHANGED <<elapsed, wake>>

Sleep ==
    IF wake = Never THEN elapsed' = 0 /\ wake' = DefaultNap ELSE UNCHANGED <<elapsed, wake>>

RoundEnd ==
    /\ lock = Thread /\ ~Polling
    /\ lock' = NoOne /\ at' = Idle
    /\ tpc' = "sleep" /\ Sleep
    /\ UNCHANGED <<groups, running, pc, connected, silenced>>

Wake ==
    /\ tpc = "sleep" /\ elapsed >= wake
    /\ tpc' = "top" /\ elapsed' = 0 /\ wake' = Never
    /\ UNCHANGED <<groups, lock, at, running, pc, connected, silenced>>

(* steady_clock, while the thread has a deadline or is about to have one *)
Tick ==
    /\ tpc \in {"round", "sleep"} /\ elapsed < MaxTick
    /\ elapsed' = elapsed + 1
    /\ groups' = [i \in DOMAIN groups |-> [groups[i] EXCEPT !.age = Min({@ + 1, MaxAge})]]
    /\ at' = IF Polling THEN [at EXCEPT !.g = groups'[at.idx]] ELSE at
    /\ UNCHANGED <<lock, running, tpc, wake, pc, connected, silenced>>

-----------------------------------------------------------------------------
(* start(), stop(), and the client's connection. *)

start ==
    /\ pc[Owner] = "idle" /\ ~running
    /\ running' = TRUE /\ tpc' = "top"
    /\ UNCHANGED <<groups, lock, at, elapsed, wake, pc, connected, silenced>>

stop_NoJoin ==
    /\ pc[Owner] = "idle"
    /\ running' = FALSE
    /\ UNCHANGED <<groups, lock, at, tpc, elapsed, wake, pc, connected, silenced>>

(* A poller that is not started has no thread to join. *)
stop ==
    /\ pc[Owner] = "idle"
    /\ running' = FALSE
    /\ pc' = [pc EXCEPT ![Owner] = IF tpc = "none" THEN "idle" ELSE "joining"]
    /\ UNCHANGED <<groups, lock, at, tpc, elapsed, wake, connected, silenced>>

Join ==
    /\ pc[Owner] = "joining" /\ tpc = "ended"
    /\ tpc' = "none" /\ pc' = [pc EXCEPT ![Owner] = "idle"]
    /\ UNCHANGED <<groups, lock, at, running, elapsed, wake, connected, silenced>>

(* Nobody else uses the client meanwhile, and connecting may fail. *)
connect ==
    /\ pc[Owner] = "idle" /\ tpc = "none" /\ lock = NoOne
    /\ connected' \in BOOLEAN
    /\ UNCHANGED <<groups, lock, at, running, tpc, elapsed, wake, pc, silenced>>

disconnect ==
    /\ pc[Owner] = "idle" /\ tpc = "none" /\ lock = NoOne /\ connected
    /\ connected' = FALSE
    /\ UNCHANGED <<groups, lock, at, running, tpc, elapsed, wake, pc, silenced>>

-----------------------------------------------------------------------------
Configure(c) ==
    \E n \in Names :
        \/ \E i \in Intervals, s \in Sizes, e \in BOOLEAN : addGroup(c, n, i, s, e)
        \/ removeGroup(c, n)
        \/ \E i \in Intervals : setGroupInterval(c, n, i)
        \/ \E e \in BOOLEAN : setGroupEnabled(c, n, e)

Round(h) == Read(h) \/ PollDone(h)

ThreadStep == LoopTest \/ RoundEnd \/ Wake

Next ==
    \/ \E c \in Callers :
         \/ Configure(c)
         \/ \E n \in Names \cup {AnyGroup} : pollOnce(c, n)
         \/ PollOnceEnd(c)
    \/ \E h \in Callers \cup {Thread} : Round(h)
    \/ ThreadStep \/ RoundBegin \/ Tick
    \/ start \/ stop \/ Join \/ connect \/ disconnect

Spec == Init /\ [][Next]_vars

(* Started code runs on: the thread, time, rounds in progress and join().   *)
(* Rounds of others make the mutex intermittently free, and it is granted   *)
(* to the thread at some point.                                             *)
Fairness ==
    /\ WF_vars(ThreadStep) /\ SF_vars(RoundBegin) /\ WF_vars(Tick) /\ WF_vars(Join)
    /\ \A h \in Callers \cup {Thread} : WF_vars(Round(h))
    /\ \A c \in Callers : WF_vars(PollOnceEnd(c))

LiveSpec == Spec /\ Fairness

-----------------------------------------------------------------------------
(* Once removeGroup(), or setGroupEnabled(false) of the only group of that  *)
(* name, has returned, no item of the group is read any more, by a round    *)
(* that is under way neither.                                               *)
SilencedStaysSilent == Polling => at.g.name \notin silenced

(* After stop() has returned there is no thread left that polls, and a      *)
(* second start() never overwrites a thread that was not joined (which      *)
(* would call std::terminate).                                              *)
StopIsFinal == (pc[Owner] # "joining" /\ ~running) => tpc = "none"

(* stop() returns: the thread leaves its sleep and its round.               *)
StopReturns == (pc[Owner] = "joining") ~> (pc[Owner] = "idle")

(* As long as the poller runs, an enabled group with items is polled again  *)
(* and again, also one added while the thread had nothing to poll.          *)
PolledAgain ==
    \A n \in Names :
        []<>(\/ ~running
             \/ ~\E g \in Range(groups) : g.name = n /\ g.enabled /\ g.size > 0
             \/ lock = Thread /\ at.g.name = n)

(* The thread polls a group once per interval: not before the interval has  *)
(* passed since its last round.                                             *)
IntervalRespected == (Polling /\ lock = Thread /\ at.item = 0 /\ elapsed = 0) => at.g.age >= at.g.interval

(* What was not read is not reported as read.                               *)
OfflineReadsFail == at.ok <= at.real
=============================================================================
