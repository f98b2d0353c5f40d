--------------------------- MODULE PlcPollerProofs ---------------------------
(***************************************************************************)
(* Theorems about PlcPoller, for any number of callers, groups, items and  *)
(* any intervals.                                                          *)
(*                                                                         *)
(* That a silenced group is left alone rests on the mutex: the groups stay *)
(* as they are while somebody is in a round, and between rounds nobody is  *)
(* at a group.  So it is enough that no silenced name belongs to an        *)
(* enabled group, whichever of the groups of that name is switched.  That  *)
(* stop() is final rests on who the thread is to: a running poller has one *)
(* that has not ended, and the owner waits only for one that is there.     *)
(***************************************************************************)
EXTENDS PlcPoller, FiniteSetTheorems, WellFoundedInduction, TLAPS

(* Whoever holds groups_mtx_ is in a round, and nobody else is.            *)
HolderInv ==
    /\ \A c \in Callers : pc[c] = "polling" <=> lock = c
    /\ \A c \in Callers : pc[c] = "joining" => c = Owner
    /\ tpc = "round" <=> lock = Thread

(* A round begins and ends outside of the groups, and visits enabled ones. *)
RoundInv ==
    /\ lock = NoOne => at = Idle
    /\ Polling => at.g.enabled

(* What has been removed or disabled is not enabled.                       *)
SilentInv ==
    \A i \in DOMAIN groups : groups[i].name \in silenced => ~groups[i].enabled

(* The thread between start() and the end of join().                       *)
ThreadInv ==
    /\ running => tpc \notin {"none", "ended"} /\ pc[Owner] # "joining"
    /\ pc[Owner] = "joining" => tpc # "none"
    /\ StopIsFinal

IInv == TypeOK /\ HolderInv /\ RoundInv /\ SilentInv /\ ThreadInv

-----------------------------------------------------------------------------
(* The operators. *)

(* Min() of natural numbers is one of them, and the least.                 *)
LEMMA MinOf ==
    ASSUME NEW S \in SUBSET Nat, S # {}
    PROVE  Min(S) \in S /\ \A x \in S : Min(S) <= x
<1> DEFINE R == {ss \in Nat \X Nat : ss[1] < ss[2]}
<1>1. OpToRel(<, Nat) = R
  BY Zenon DEF OpToRel
<1>2. IsWellFoundedOn(R, Nat)
  BY <1>1, NatLessThanWellFounded, Zenon
<1>3. \E x \in S : \A y \in S : ~(<<y, x>> \in R)
  <2> HIDE DEF R
  <2> QED  BY <1>2, WFMin, Zenon
<1>4. PICK x \in S : \A y \in S : ~(<<y, x>> \in R)
  BY <1>3, Zenon
<1>5. \A y \in S : x <= y
  <2>1. \A y \in S : y < x => <<y, x>> \in R
    OBVIOUS
  <2>2. \A y \in S : ~(y < x)
    BY <1>4, <2>1, Zenon
  <2>3. QED
    BY <2>2
<1>6. QED
  BY <1>5 DEF Min

(* Min() as std::min().                                                    *)
LEMMA MinOfTwo ==
    ASSUME NEW x \in Nat, NEW y \in Nat
    PROVE  Min({x, y}) \in Nat /\ Min({x, y}) <= x /\ Min({x, y}) <= y
<1>1. {x, y} \in SUBSET Nat /\ {x, y} # {}
  OBVIOUS
<1>2. Min({x, y}) \in {x, y} /\ \A z \in {x, y} : Min({x, y}) <= z
  BY <1>1, MinOf, Zenon
<1>3. QED
  BY <1>2

(* No interval is longer than MaxTick.                                     *)
LEMMA Longest ==
    MaxTick \in Nat /\ DefaultNap <= MaxTick /\ \A i \in Intervals : i \in Nat /\ i <= MaxTick
<1>1. PICK m \in Intervals : \A i \in Intervals : i <= m
  BY PollerAssumption
<1>2. Intervals \subseteq Nat \ {0}
  BY PollerAssumption
<1>3. m \in Intervals \cup {DefaultNap} /\ \A i \in Intervals \cup {DefaultNap} : m >= i
  BY <1>1, <1>2 DEF DefaultNap
<1>4. MaxTick \in Intervals \cup {DefaultNap} /\ \A i \in Intervals \cup {DefaultNap} : MaxTick >= i
  BY <1>3 DEF MaxTick, Max
<1>5. QED
  BY <1>2, <1>4 DEF DefaultNap

(* A bounded sequence is a sequence within the bound.                      *)
LEMMA Bounded ==
    ASSUME NEW s
    PROVE  s \in BoundedSeq(Group, MaxGroups) <=> s \in Seq(Group) /\ Len(s) <= MaxGroups
BY PollerAssumption DEF BoundedSeq, SeqOf

(* No group has the empty name of pollAll().                               *)
LEMMA Named == NoGroup \notin Group
BY PollerAssumption DEF NoGroup, Group

(* A group has a number of items.                                          *)
LEMMA Sized == \A g \in Group \cup {NoGroup} : g.size \in Nat
<1>1. \A g \in Group : g.size \in Nat
  BY PollerAssumption DEF Group
<1>2. QED
  BY <1>1 DEF NoGroup

(* Where the round goes on is an enabled group, or there is none.          *)
LEMMA Onwards ==
    ASSUME groups \in Seq(Group), NEW h, NEW i \in Nat \ {0}, i <= Len(groups) + 1,
           NEW want \in Names \cup {AnyGroup},
           NEW a, a = From(h, i, want)
    PROVE  /\ a \in Place
           /\ i <= a.idx /\ a.idx <= Len(groups) + 1 /\ a.item = 0 /\ a.ok = 0 /\ a.real = 0
           /\ a.g # NoGroup => a.idx <= Len(groups) /\ a.g = groups[a.idx] /\ a.g.enabled
<1> DEFINE S == {j \in i..Len(groups) : Eligible(h, groups[j], want)} \cup {Len(groups) + 1}
           x == Min(S)
<1>1. S \in SUBSET Nat /\ S # {}
  OBVIOUS
<1>2. x \in S
  <2> HIDE DEF S
  <2> QED  BY <1>1, MinOf, Zenon
<1>3. x \in Nat \ {0} /\ i <= x /\ x <= Len(groups) + 1 /\ (x <= Len(groups) => groups[x].enabled /\ groups[x] \in Group)
  BY <1>2 DEF Eligible
<1>4. a = [Idle EXCEPT !.idx = x, !.want = want, !.g = IF x <= Len(groups) THEN groups[x] ELSE NoGroup]
  BY DEF From
<1> HIDE DEF x
<1>5. a = [idx |-> x, g |-> IF x <= Len(groups) THEN groups[x] ELSE NoGroup, item |-> 0, ok |-> 0,
           want |-> want, real |-> 0]
  BY <1>4 DEF Idle
<1>6. QED
  BY <1>3, <1>5 DEF Place

(* The first group of a name that some group has.                          *)
LEMMA FirstOf ==
    ASSUME groups \in Seq(Group), NEW name, \E g \in Range(groups) : g.name = name
    PROVE  First(name) \in DOMAIN groups /\ groups[First(name)].name = name
<1> DEFINE S == {i \in DOMAIN groups : groups[i].name = name}
<1>1. S \in SUBSET Nat /\ S # {}
  BY DEF Range
<1>2. Min(S) \in S
  <2> HIDE DEF S
  <2> QED  BY <1>1, MinOf, Zenon
<1>3. QED
  BY <1>2 DEF First

-----------------------------------------------------------------------------
(* Steps of the configuration.  Between rounds everything but the groups   *)
(* and the silenced names stays as it is.                                  *)

LEMMA ConfigStep ==
    ASSUME IInv, NEW c \in Callers, Config(c), groups' \in BoundedSeq(Group, MaxGroups),
           silenced' \subseteq Names, SilentInv'
    PROVE  IInv'
<1>1. at = Idle /\ at' = Idle
  BY DEF IInv, RoundInv, Config, LockFree
<1>2. groups' \in Seq(Group) /\ Len(groups') \in Nat
  BY Bounded
<1>3. TypeOK'
  BY <1>1, <1>2 DEF IInv, TypeOK, Config, Idle, Polling, NoGroup, Place
<1>4. HolderInv' /\ ThreadInv'
  BY DEF IInv, HolderInv, ThreadInv, StopIsFinal, Config
<1>5. RoundInv'
  BY <1>1 DEF RoundInv, Polling, Idle
<1>6. QED
  BY <1>3, <1>4, <1>5 DEF IInv

(* addGroup() keeps the invariant. *)
LEMMA AddStep ==
    ASSUME IInv, NEW c \in Callers, NEW n \in Names, NEW i \in Intervals, NEW s \in Sizes,
           NEW e \in BOOLEAN, addGroup(c, n, i, s, e)
    PROVE  IInv'
<1> DEFINE g == [name |-> n, interval |-> i, size |-> s, enabled |-> e, age |-> MaxAge]
<1>1. groups \in Seq(Group) /\ Len(groups) < MaxGroups /\ silenced \subseteq Names
  BY Bounded DEF IInv, TypeOK, addGroup
<1>2. g \in Group /\ g.name = n
  BY PollerAssumption DEF Group
<1>3. groups' = Append(groups, g) /\ silenced' = silenced \ {n} /\ Config(c)
  BY DEF addGroup
<1> HIDE DEF g
<1>4. groups' \in Seq(Group) /\ Len(groups') <= MaxGroups
  BY <1>1, <1>2, <1>3, PollerAssumption
<1>5. SilentInv'
  BY <1>1, <1>2, <1>3 DEF IInv, SilentInv
<1>6. QED
  BY <1>1, <1>3, <1>4, <1>5, Bounded, ConfigStep

(* remove_if() keeps groups of other names only.                           *)
LEMMA RemoveStep ==
    ASSUME IInv, NEW c \in Callers, NEW n \in Names, removeGroup(c, n)
    PROVE  IInv'
<1> DEFINE kept == {i \in DOMAIN groups : groups[i].name # n}
<1>1. groups \in Seq(Group) /\ Len(groups) <= MaxGroups /\ silenced \subseteq Names
  BY Bounded DEF IInv, TypeOK
<1>2. kept \in SUBSET (1..Len(groups))
  BY <1>1
<1>3. PICK f \in [1..Cardinality(kept) -> kept] : groups' = [i \in DOMAIN f |-> groups[f[i]]]
  BY DEF removeGroup
<1>4. silenced' = silenced \cup {n} /\ Config(c)
  BY DEF removeGroup
<1>5. Cardinality(kept) \in Nat /\ Cardinality(kept) <= Len(groups)
  <2> HIDE DEF kept
  <2>1. IsFiniteSet(1..Len(groups)) /\ Cardinality(1..Len(groups)) = Len(groups)
    <3> DEFINE m == Len(groups)
    <3>1. m \in Nat
      BY <1>1
    <3> HIDE DEF m
    <3>2. IsFiniteSet(1..m) /\ Cardinality(1..m) = IF 1 > m THEN 0 ELSE m - 1 + 1
      BY <3>1, FS_Interval
    <3>3. Cardinality(1..m) = m
      BY <3>1, <3>2
    <3>4. QED
      BY <3>2, <3>3 DEF m
  <2>2. IsFiniteSet(kept) /\ Cardinality(kept) <= Cardinality(1..Len(groups))
    BY <2>1, <1>2, FS_Subset
  <2>3. QED
    BY <2>1, <2>2, FS_CardinalityType
<1>6. \A i \in 1..Cardinality(kept) : f[i] \in DOMAIN groups /\ groups[f[i]].name # n /\ groups[f[i]] \in Group
  BY <1>1, <1>3
<1> HIDE DEF kept
<1>7. groups' = [i \in 1..Cardinality(kept) |-> groups[f[i]]]
  BY <1>3
<1>8. groups' \in Seq(Group) /\ Len(groups') <= MaxGroups
  BY <1>1, <1>5, <1>6, <1>7, PollerAssumption
<1>9. SilentInv'
  <2> SUFFICES ASSUME NEW i \in DOMAIN groups', groups'[i].name \in silenced'
               PROVE  ~groups'[i].enabled
    BY DEF SilentInv
  <2>1. i \in 1..Cardinality(kept) /\ groups'[i] = groups[f[i]]
    BY <1>7
  <2>2. groups[f[i]].name \in silenced
    BY <1>4, <1>6, <2>1
  <2>3. QED
    BY <1>6, <2>1, <2>2 DEF IInv, SilentInv
<1>10. QED
  BY <1>1, <1>4, <1>8, <1>9, Bounded, ConfigStep

(* setGroupInterval() keeps the invariant. *)
LEMMA IntervalStep ==
    ASSUME IInv, NEW c \in Callers, NEW n \in Names, NEW ms \in Intervals, setGroupInterval(c, n, ms)
    PROVE  IInv'
<1> DEFINE k == First(n)
<1>1. groups \in Seq(Group) /\ Len(groups) <= MaxGroups /\ silenced \subseteq Names
  BY Bounded DEF IInv, TypeOK
<1>2. k \in DOMAIN groups
  BY <1>1, FirstOf DEF setGroupInterval
<1>3. groups' = [groups EXCEPT ![k] = [groups[k] EXCEPT !.interval = ms, !.age = MaxAge]]
  BY <1>1, <1>2 DEF setGroupInterval
<1>4. silenced' = silenced /\ Config(c)
  BY DEF setGroupInterval
<1> HIDE DEF k
<1>5. [groups[k] EXCEPT !.interval = ms, !.age = MaxAge] \in Group
  <2>1. groups[k] \in Group
    BY <1>1, <1>2
  <2>2. QED
    <3>1. MaxAge \in 0..MaxAge
      BY PollerAssumption
    <3>2. QED
      BY <2>1, <3>1 DEF Group
<1>6. groups' \in Seq(Group) /\ Len(groups') = Len(groups)
  BY <1>1, <1>2, <1>3, <1>5
<1>7. \A i \in DOMAIN groups' : i \in DOMAIN groups /\ groups'[i].name = groups[i].name
                                /\ groups'[i].enabled = groups[i].enabled
  BY <1>1, <1>2, <1>3 DEF Group
<1>8. SilentInv'
  BY <1>4, <1>7 DEF IInv, SilentInv
<1>9. QED
  BY <1>1, <1>4, <1>6, <1>8, Bounded, ConfigStep

(* Disabling silences a name only if the group it finds is the only one.   *)
LEMMA EnabledStep ==
    ASSUME IInv, NEW c \in Callers, NEW n \in Names, NEW e \in BOOLEAN, setGroupEnabled(c, n, e)
    PROVE  IInv'
<1> DEFINE k == First(n)
<1>1. groups \in Seq(Group) /\ Len(groups) <= MaxGroups /\ silenced \subseteq Names
  BY Bounded DEF IInv, TypeOK
<1>2. k \in DOMAIN groups /\ groups[k].name = n
  BY <1>1, FirstOf DEF setGroupEnabled
<1>3. groups' = [groups EXCEPT ![k] = [groups[k] EXCEPT !.enabled = e]]
  BY <1>1, <1>2 DEF setGroupEnabled
<1>4. Config(c) /\ silenced' = IF e THEN silenced \ {n}
                   ELSE IF \E i \in DOMAIN groups : i # k /\ groups[i].name = n
                        THEN silenced ELSE silenced \cup {n}
  BY DEF setGroupEnabled
<1> HIDE DEF k
<1>5. [groups[k] EXCEPT !.enabled = e] \in Group
  <2>1. groups[k] \in Group
    BY <1>1, <1>2
  <2>2. QED
    BY <2>1 DEF Group
<1>6. groups' \in Seq(Group) /\ Len(groups') = Len(groups)
  BY <1>1, <1>2, <1>3, <1>5
<1>7. \A i \in DOMAIN groups' :
         /\ i \in DOMAIN groups /\ groups'[i].name = groups[i].name
         /\ groups'[i].enabled = IF i = k THEN e ELSE groups[i].enabled
  BY <1>1, <1>2, <1>3 DEF Group
<1>8. SilentInv'
  <2> SUFFICES ASSUME NEW i \in DOMAIN groups', groups'[i].name \in silenced'
               PROVE  ~groups'[i].enabled
    BY DEF SilentInv
  <2>1. i \in DOMAIN groups /\ groups[i].name \in silenced'
    BY <1>7
  <2>2. groups[i].name \in silenced => ~groups[i].enabled
    BY <2>1 DEF IInv, SilentInv
  <2>3. CASE e
    BY <1>2, <1>4, <1>7, <2>1, <2>2, <2>3
  <2>4. CASE ~e
    BY <1>4, <1>7, <2>1, <2>2, <2>4
  <2>5. QED
    BY <2>3, <2>4
<1>9. silenced' \subseteq Names
  BY <1>1, <1>4
<1>10. QED
  BY <1>1, <1>4, <1>6, <1>8, <1>9, Bounded, ConfigStep

-----------------------------------------------------------------------------
(* Steps of a round. *)

LEMMA ReadStep ==
    ASSUME IInv, NEW h \in Callers \cup {Thread}, Read(h)
    PROVE  IInv'
<1>1. PICK r \in ReadResults :
         at' = [at EXCEPT !.item = @ + 1,
                          !.ok = @ + (IF r.valid THEN 1 ELSE 0),
                          !.real = @ + (IF r.real THEN 1 ELSE 0)]
  BY DEF Read
<1>2. r \in [real : BOOLEAN, valid : BOOLEAN] /\ (r.real => r.valid)
  BY DEF ReadResults
<1>3. /\ at \in Place
      /\ at.item <= at.g.size /\ at.ok <= at.item /\ at.real <= at.ok /\ at.item < at.g.size
  BY DEF IInv, TypeOK, Read
<1>4. at.g.size \in Nat
  BY <1>3, Sized DEF Place
<1>5. /\ at' \in Place
      /\ at'.idx = at.idx /\ at'.g = at.g
      /\ at'.item <= at.g.size /\ at'.ok <= at'.item /\ at'.real <= at'.ok
  <2> DEFINE v == IF r.valid THEN 1 ELSE 0
             w == IF r.real THEN 1 ELSE 0
  <2>1. v \in 0..1 /\ w \in 0..1 /\ w <= v
    BY <1>2
  <2>2. at' = [at EXCEPT !.item = at.item + 1, !.ok = at.ok + v, !.real = at.real + w]
    BY <1>1, <1>3 DEF Place
  <2> HIDE DEF v, w
  <2>3. at' = [idx |-> at.idx, g |-> at.g, item |-> at.item + 1, ok |-> at.ok + v,
               want |-> at.want, real |-> at.real + w]
    BY <1>3, <2>2 DEF Place
  <2>4. QED
    BY <1>3, <1>4, <2>1, <2>3 DEF Place
<1>6. TypeOK'
  BY <1>5 DEF IInv, TypeOK, Read, Polling
<1>7. HolderInv' /\ ThreadInv' /\ SilentInv'
  BY DEF IInv, HolderInv, ThreadInv, StopIsFinal, SilentInv, Read
<1>8. RoundInv'
  BY <1>5, PollerAssumption DEF IInv, RoundInv, Polling, Read
<1>9. QED
  BY <1>6, <1>7, <1>8 DEF IInv

(* The ages of the groups change, and nothing else about them.             *)
SameButAge(old, new) ==
    /\ new \in Seq(Group) /\ Len(new) = Len(old)
    /\ \A i \in DOMAIN old : /\ new[i].name = old[i].name /\ new[i].enabled = old[i].enabled
                             /\ new[i].size = old[i].size

(* Ageing enables no group. *)
LEMMA AgedSilent ==
    ASSUME groups \in Seq(Group), SilentInv, SameButAge(groups, groups'), UNCHANGED silenced
    PROVE  SilentInv' /\ (Len(groups) <= MaxGroups => groups' \in BoundedSeq(Group, MaxGroups))
<1>1. groups' \in Seq(Group) /\ Len(groups') = Len(groups) /\ DOMAIN groups' = DOMAIN groups
  BY DEF SameButAge
<1>2. SilentInv'
  BY <1>1 DEF SilentInv, SameButAge
<1>3. QED
  BY <1>1, <1>2, Bounded

(* The end of pollGroup() keeps the invariant. *)
LEMMA DoneStep ==
    ASSUME IInv, NEW h \in Callers \cup {Thread}, PollDone(h)
    PROVE  IInv'
<1> DEFINE a == Min({elapsed, MaxAge})
           k == at.idx
<1>1. /\ groups \in Seq(Group) /\ Len(groups) <= MaxGroups /\ k \in Nat \ {0} /\ k <= Len(groups)
      /\ at.g = groups[k] /\ at.want \in Names \cup {AnyGroup} /\ elapsed \in Nat
      /\ wake \in 0..Never /\ lock = h
  BY Bounded, Longest DEF IInv, TypeOK, PollDone, Place
<1>2. k \in DOMAIN groups /\ groups[k] \in Group
  BY <1>1
<1>3. a \in 0..MaxAge
  BY <1>1, MinOfTwo, PollerAssumption
<1>4. groups' = IF h = Thread THEN [groups EXCEPT ![k] = [groups[k] EXCEPT !.age = a]] ELSE groups
  BY <1>1, <1>2 DEF PollDone
<1>5. wake' \in 0..Never
  <2>1. at.g.interval \in Nat /\ wake \in Nat /\ Never \in Nat
    BY <1>1, <1>2, Longest DEF Group, Never
  <2>2. Min({wake, at.g.interval}) \in Nat /\ Min({wake, at.g.interval}) <= wake
    BY <2>1, MinOfTwo
  <2>3. wake' = IF h = Thread THEN Min({wake, at.g.interval}) ELSE wake
    BY DEF PollDone
  <2>4. QED
    BY <1>1, <2>1, <2>2, <2>3
<1>6. at' = From(h, k + 1, at.want)
  BY DEF PollDone
<1> HIDE DEF a, k
<1>7. [groups[k] EXCEPT !.age = a] \in Group
  BY <1>2, <1>3 DEF Group
<1>8. SameButAge(groups, groups') /\ \A i \in DOMAIN groups : i # k => groups'[i] = groups[i]
  <2>1. CASE h = Thread
    <3>1. groups' = [groups EXCEPT ![k] = [groups[k] EXCEPT !.age = a]]
      BY <1>4, <2>1
    <3>2. groups' \in Seq(Group) /\ Len(groups') = Len(groups)
      BY <1>1, <1>2, <1>7, <3>1
    <3>3. \A i \in DOMAIN groups : groups'[i] = IF i = k THEN [groups[k] EXCEPT !.age = a] ELSE groups[i]
      BY <1>1, <3>1
    <3>4. /\ [groups[k] EXCEPT !.age = a].name = groups[k].name
          /\ [groups[k] EXCEPT !.age = a].enabled = groups[k].enabled
          /\ [groups[k] EXCEPT !.age = a].size = groups[k].size
      BY <1>2 DEF Group
    <3>5. QED
      BY <3>2, <3>3, <3>4 DEF SameButAge
  <2>2. CASE h # Thread
    BY <1>1, <1>4, <2>2 DEF SameButAge
  <2>3. QED
    BY <2>1, <2>2
<1>9. /\ at' \in Place
      /\ k + 1 <= at'.idx /\ at'.idx <= Len(groups) + 1 /\ at'.item = 0 /\ at'.ok = 0 /\ at'.real = 0
      /\ at'.g # NoGroup => at'.idx <= Len(groups) /\ at'.g = groups[at'.idx] /\ at'.g.enabled
  <2>1. k + 1 \in Nat \ {0} /\ k + 1 <= Len(groups) + 1 /\ at.want \in Names \cup {AnyGroup}
    BY <1>1
  <2>2. QED
    BY <1>1, <1>6, <2>1, Onwards
<1>10. at'.g # NoGroup => at'.g = groups'[at'.idx]
  <2>1. at'.idx \in Nat
    BY <1>9 DEF Place
  <2>2. at'.g # NoGroup => at'.idx \in DOMAIN groups /\ at'.idx # k
    BY <1>1, <1>9, <2>1
  <2>3. QED
    BY <1>8, <1>9, <2>2
<1>11. at'.g.size \in Nat
  BY <1>9, Sized DEF Place
<1>12. groups' \in BoundedSeq(Group, MaxGroups) /\ SilentInv' /\ Len(groups') = Len(groups)
  BY <1>1, <1>8, AgedSilent DEF IInv, PollDone, SameButAge
<1>13. TypeOK'
  BY <1>5, <1>9, <1>10, <1>11, <1>12 DEF IInv, TypeOK, PollDone, Polling
<1>14. HolderInv' /\ ThreadInv'
  BY DEF IInv, HolderInv, ThreadInv, StopIsFinal, PollDone
<1>15. RoundInv'
  BY <1>1, <1>9, PollerAssumption DEF RoundInv, Polling, PollDone
<1>16. QED
  BY <1>12, <1>13, <1>14, <1>15 DEF IInv

(* Taking and giving back the mutex.                                       *)
LEMMA Locked ==
    ASSUME IInv, NEW h, NEW want \in Names \cup {AnyGroup}, Lock(h, want), UNCHANGED groups
    PROVE  /\ at' \in Place /\ at'.idx <= Len(groups) + 1
           /\ at'.item = 0 /\ at'.ok = 0 /\ at'.real = 0 /\ at'.g.size \in Nat
           /\ Polling' => at'.idx <= Len(groups) /\ at'.g = groups[at'.idx] /\ at'.g.enabled
           /\ lock = NoOne /\ lock' = h
<1>1. groups \in Seq(Group)
  BY Bounded DEF IInv, TypeOK
<1>2. 1 \in Nat \ {0} /\ 1 <= Len(groups) + 1 /\ at' = From(h, 1, want)
  BY <1>1 DEF Lock
<1>3. /\ at' \in Place /\ at'.idx <= Len(groups) + 1 /\ at'.item = 0 /\ at'.ok = 0 /\ at'.real = 0
      /\ at'.g # NoGroup => at'.idx <= Len(groups) /\ at'.g = groups[at'.idx] /\ at'.g.enabled
  BY <1>1, <1>2, Onwards
<1>4. at'.g.size \in Nat
  BY <1>3, Sized DEF Place
<1>5. QED
  BY <1>3, <1>4 DEF Polling, Lock, LockFree

(* Whoever leaves a round leaves no place in it. *)
LEMMA Unlocked ==
    ASSUME IInv, at' = Idle, UNCHANGED groups
    PROVE  /\ at' \in Place /\ at'.idx <= Len(groups) + 1 /\ ~Polling'
           /\ at'.item = 0 /\ at'.ok = 0 /\ at'.real = 0 /\ at'.g.size = 0
<1>1. groups \in Seq(Group)
  BY Bounded DEF IInv, TypeOK
<1>2. QED
  BY <1>1 DEF Idle, Place, Polling, NoGroup

(* The beginning of pollOnce() keeps the invariant. *)
LEMMA OnceStep ==
    ASSUME IInv, NEW c \in Callers, NEW want \in Names \cup {AnyGroup}, pollOnce(c, want)
    PROVE  IInv'
<1>1. Lock(c, want) /\ UNCHANGED <<groups, running, tpc, elapsed, wake, connected, silenced>>
  BY DEF pollOnce
<1>2. TypeOK'
  BY <1>1, Locked DEF IInv, TypeOK, pollOnce
<1>3. HolderInv'
  BY <1>1, Locked, PollerAssumption DEF IInv, TypeOK, HolderInv, pollOnce
<1>4. RoundInv' /\ SilentInv'
  BY <1>1, Locked, PollerAssumption DEF IInv, RoundInv, SilentInv
<1>5. ThreadInv'
  BY <1>1, PollerAssumption DEF IInv, TypeOK, ThreadInv, StopIsFinal, pollOnce
<1>6. QED
  BY <1>2, <1>3, <1>4, <1>5 DEF IInv

(* The end of pollOnce() keeps the invariant. *)
LEMMA OnceEndStep ==
    ASSUME IInv, NEW c \in Callers, PollOnceEnd(c)
    PROVE  IInv'
<1>1. at' = Idle /\ lock = c /\ lock' = NoOne /\ pc[c] = "polling"
      /\ UNCHANGED <<groups, running, tpc, elapsed, wake, connected, silenced>>
  BY DEF PollOnceEnd, IInv, HolderInv
<1>2. TypeOK'
  BY <1>1, Unlocked DEF IInv, TypeOK, PollOnceEnd
<1>3. HolderInv'
  BY <1>1, PollerAssumption DEF IInv, TypeOK, HolderInv, PollOnceEnd
<1>4. RoundInv' /\ SilentInv'
  BY <1>1, Unlocked DEF IInv, RoundInv, SilentInv
<1>5. ThreadInv'
  BY <1>1, PollerAssumption DEF IInv, TypeOK, ThreadInv, StopIsFinal, PollOnceEnd
<1>6. QED
  BY <1>2, <1>3, <1>4, <1>5 DEF IInv

(* The beginning of the thread's round keeps the invariant. *)
LEMMA RoundBeginStep ==
    ASSUME IInv, RoundBegin
    PROVE  IInv'
<1>1. Lock(Thread, AnyGroup) /\ tpc = "lock" /\ tpc' = "round" /\ elapsed' = 0 /\ wake' = Never
      /\ UNCHANGED <<groups, running, pc, connected, silenced>>
  BY DEF RoundBegin
<1>2. TypeOK'
  <2>1. 0 \in 0..MaxTick /\ Never \in 0..Never
    BY Longest DEF Never
  <2>2. QED
    BY <1>1, <2>1, Locked DEF IInv, TypeOK
<1>3. HolderInv'
  BY <1>1, Locked, PollerAssumption DEF IInv, HolderInv
<1>4. RoundInv' /\ SilentInv'
  BY <1>1, Locked, PollerAssumption DEF IInv, RoundInv, SilentInv
<1>5. ThreadInv'
  BY <1>1 DEF IInv, ThreadInv, StopIsFinal
<1>6. QED
  BY <1>2, <1>3, <1>4, <1>5 DEF IInv

(* The end of the thread's round keeps the invariant. *)
LEMMA RoundEndStep ==
    ASSUME IInv, RoundEnd
    PROVE  IInv'
<1>1. at' = Idle /\ lock = Thread /\ lock' = NoOne /\ tpc = "round" /\ tpc' = "sleep"
      /\ UNCHANGED <<groups, running, pc, connected, silenced>>
  BY DEF RoundEnd, IInv, HolderInv
<1>2. TypeOK'
  <2>1. elapsed' \in 0..MaxTick /\ wake' \in 0..Never
    BY Longest DEF IInv, TypeOK, RoundEnd, Sleep, Never, DefaultNap
  <2>2. QED
    BY <1>1, <2>1, Unlocked, PollerAssumption DEF IInv, TypeOK
<1>3. HolderInv'
  BY <1>1, PollerAssumption DEF IInv, HolderInv
<1>4. RoundInv' /\ SilentInv'
  BY <1>1, Unlocked DEF IInv, RoundInv, SilentInv
<1>5. ThreadInv'
  BY <1>1 DEF IInv, ThreadInv, StopIsFinal
<1>6. QED
  BY <1>2, <1>3, <1>4, <1>5 DEF IInv

(* Time passes for the groups, and for the one being polled.               *)
LEMMA TickStep ==
    ASSUME IInv, Tick
    PROVE  IInv'
<1> DEFINE older(g) == [g EXCEPT !.age = Min({g.age + 1, MaxAge})]
<1>1. groups \in Seq(Group) /\ Len(groups) <= MaxGroups /\ at \in Place
      /\ (Polling => at.idx \in DOMAIN groups /\ at.g = groups[at.idx])
  BY Bounded DEF IInv, TypeOK, Place
<1>2. \A i \in DOMAIN groups : groups'[i] = older(groups[i])
  BY <1>1 DEF Tick, Group
<1>3. DOMAIN groups' = 1..Len(groups) /\ groups' = [i \in 1..Len(groups) |-> groups'[i]]
  BY <1>1 DEF Tick
<1>4. ASSUME NEW g \in Group
      PROVE  older(g) \in Group /\ older(g).name = g.name /\ older(g).enabled = g.enabled
             /\ older(g).size = g.size
  <2>1. g.age + 1 \in Nat /\ MaxAge \in Nat
    BY PollerAssumption DEF Group
  <2>2. Min({g.age + 1, MaxAge}) \in 0..MaxAge
    BY <2>1, MinOfTwo
  <2>3. QED
    BY <2>2 DEF Group
<1> HIDE DEF older
<1>5. SameButAge(groups, groups')
  <2>1. \A i \in DOMAIN groups : groups[i] \in Group
    BY <1>1
  <2>2. \A i \in DOMAIN groups : groups'[i] \in Group /\ groups'[i].name = groups[i].name
           /\ groups'[i].enabled = groups[i].enabled /\ groups'[i].size = groups[i].size
    BY <1>2, <1>4, <2>1, Zenon
  <2>3. groups' \in Seq(Group) /\ Len(groups') = Len(groups)
    BY <1>1, <1>3, <2>2
  <2>4. QED
    BY <2>2, <2>3 DEF SameButAge
<1>6. groups' \in BoundedSeq(Group, MaxGroups) /\ Len(groups') = Len(groups) /\ SilentInv'
  BY <1>1, <1>5, AgedSilent DEF IInv, SameButAge, Tick
<1>7. /\ at' \in Place /\ at'.idx = at.idx /\ at'.item = at.item /\ at'.ok = at.ok /\ at'.real = at.real
      /\ (Polling' <=> Polling) /\ at'.g.size = at.g.size
      /\ (Polling => at'.g = groups'[at.idx] /\ at'.g.enabled = at.g.enabled)
  <2>1. CASE Polling
    <3>1. at' = [at EXCEPT !.g = groups'[at.idx]]
      BY <2>1 DEF Tick
    <3>2. groups'[at.idx] \in Group /\ groups'[at.idx].size = at.g.size /\ groups'[at.idx].enabled = at.g.enabled
      BY <1>1, <1>5, <2>1 DEF SameButAge
    <3>3. QED
      BY <1>1, <2>1, <3>1, <3>2, Named DEF Polling, Place
  <2>2. CASE ~Polling
    BY <1>1, <2>2 DEF Tick, Polling
  <2>3. QED
    BY <2>1, <2>2
<1>8. TypeOK'
  <2>1. elapsed' \in 0..MaxTick
    BY Longest DEF IInv, TypeOK, Tick
  <2>2. QED
    BY <1>6, <1>7, <2>1 DEF IInv, TypeOK, Tick
<1>9. HolderInv' /\ ThreadInv'
  BY DEF IInv, HolderInv, ThreadInv, StopIsFinal, Tick
<1>10. lock # NoOne \/ ~Polling
  BY DEF IInv, RoundInv, Idle, Polling
<1>11. RoundInv'
  BY <1>7, <1>10 DEF IInv, RoundInv, Tick
<1>12. QED
  BY <1>6, <1>8, <1>9, <1>11 DEF IInv

(* Steps of the thread, its owner and the connection, none of which looks  *)
(* at the groups.                                                          *)
Quiet == UNCHANGED <<groups, lock, at, silenced>>

(* A step outside of rounds and groups keeps the invariant if it keeps the *)
(* part about the thread.                                                  *)
LEMMA QuietStep ==
    ASSUME IInv, Quiet,
           elapsed' \in 0..MaxTick, wake' \in 0..Never, running' \in BOOLEAN, connected' \in BOOLEAN,
           tpc' \in {"none", "top", "lock", "round", "sleep", "ended"}, tpc' = "round" <=> tpc = "round",
           pc' \in [Callers -> {"idle", "polling", "joining"}],
           \A c \in Callers : (pc'[c] = "polling" <=> pc[c] = "polling") /\ (pc'[c] = "joining" => c = Owner),
           ThreadInv'
    PROVE  IInv'
<1>1. TypeOK'
  BY DEF IInv, TypeOK, Quiet, Polling
<1>2. HolderInv' /\ RoundInv' /\ SilentInv'
  BY DEF IInv, HolderInv, RoundInv, SilentInv, Polling, Quiet
<1>3. QED
  BY <1>1, <1>2 DEF IInv

(* The other steps: loop test, waking, start(), stop(), join, connection. *)
LEMMA OtherStep ==
    ASSUME IInv, LoopTest \/ Wake \/ start \/ stop \/ Join \/ connect \/ disconnect
    PROVE  IInv'
<1> USE PollerAssumption
<1>0. /\ elapsed \in 0..MaxTick /\ wake \in 0..Never /\ running \in BOOLEAN /\ connected \in BOOLEAN
      /\ tpc \in {"none", "top", "lock", "round", "sleep", "ended"}
      /\ pc \in [Callers -> {"idle", "polling", "joining"}]
      /\ \A c \in Callers : pc[c] = "joining" => c = Owner
      /\ 0 \in 0..MaxTick /\ Never \in 0..Never
  BY Longest DEF IInv, TypeOK, HolderInv, Never
<1>1. CASE LoopTest
  <2>1. ThreadInv'
    BY <1>1 DEF IInv, ThreadInv, StopIsFinal, LoopTest
  <2>2. QED
    BY <1>0, <1>1, <2>1, QuietStep DEF LoopTest, Quiet
<1>2. CASE Wake
  <2>1. ThreadInv'
    BY <1>2 DEF IInv, ThreadInv, StopIsFinal, Wake
  <2>2. QED
    BY <1>0, <1>2, <2>1, QuietStep DEF Wake, Quiet
<1>3. CASE start
  <2>1. tpc = "none"
    BY <1>3 DEF IInv, ThreadInv, StopIsFinal, start
  <2>2. ThreadInv'
    BY <1>3 DEF ThreadInv, StopIsFinal, start
  <2>3. QED
    BY <1>0, <1>3, <2>1, <2>2, QuietStep DEF start, Quiet
<1>4. CASE stop
  <2>1. pc' = [pc EXCEPT ![Owner] = IF tpc = "none" THEN "idle" ELSE "joining"] /\ pc[Owner] = "idle"
    BY <1>4 DEF stop
  <2>2. pc' \in [Callers -> {"idle", "polling", "joining"}]
    BY <1>0, <2>1
  <2>3. \A c \in Callers : (pc'[c] = "polling" <=> pc[c] = "polling") /\ (pc'[c] = "joining" => c = Owner)
    BY <1>0, <2>1
  <2>4. ThreadInv'
    BY <1>0, <1>4, <2>1 DEF ThreadInv, StopIsFinal, stop
  <2>5. QED
    BY <1>0, <1>4, <2>2, <2>3, <2>4, QuietStep DEF stop, Quiet
<1>5. CASE Join
  <2>1. pc' = [pc EXCEPT ![Owner] = "idle"] /\ pc[Owner] = "joining" /\ tpc' = "none" /\ tpc = "ended"
        /\ ~running /\ ~running'
    BY <1>5 DEF Join, IInv, ThreadInv
  <2>2. pc' \in [Callers -> {"idle", "polling", "joining"}]
    BY <1>0, <2>1
  <2>3. \A c \in Callers : (pc'[c] = "polling" <=> pc[c] = "polling") /\ (pc'[c] = "joining" => c = Owner)
    BY <1>0, <2>1
  <2>4. ThreadInv'
    BY <1>0, <2>1 DEF ThreadInv, StopIsFinal
  <2>5. QED
    BY <1>0, <1>5, <2>1, <2>2, <2>3, <2>4, QuietStep DEF Join, Quiet
<1>6. CASE connect \/ disconnect
  <2>1. ThreadInv'
    BY <1>6 DEF IInv, ThreadInv, StopIsFinal, connect, disconnect
  <2>2. QED
    BY <1>0, <1>6, <2>1, QuietStep DEF connect, disconnect, Quiet
<1>7. QED
  BY <1>1, <1>2, <1>3, <1>4, <1>5, <1>6

-----------------------------------------------------------------------------
(* The invariant holds throughout, whatever callers, thread and connection *)
(* do in which order.                                                      *)
THEOREM Invariance == Spec => []IInv
<1>1. Init => IInv
  <2> SUFFICES ASSUME Init  PROVE IInv
    OBVIOUS
  <2>1. groups \in BoundedSeq(Group, MaxGroups) /\ Len(groups) = 0 /\ DOMAIN groups = {}
    <3>1. groups = <<>> /\ groups \in Seq(Group)
      BY DEF Init
    <3>2. Len(groups) = 0 /\ DOMAIN groups = {}
      BY <3>1
    <3>3. Len(groups) <= MaxGroups
      BY <3>2, PollerAssumption
    <3>4. QED
      BY <3>1, <3>2, <3>3, Bounded, Zenon
  <2>2. 0 \in 0..MaxTick /\ Never \in 0..Never
    BY Longest DEF Never
  <2>3. TypeOK
    <3>1. at \in Place /\ at.idx = 1 /\ at.item = 0 /\ at.ok = 0 /\ at.real = 0 /\ at.g.size = 0 /\ ~Polling
      BY DEF Init, Place, Idle, NoGroup, Polling
    <3>2. pc \in [Callers -> {"idle", "polling", "joining"}]
      BY DEF Init
    <3>3. at.idx <= Len(groups) + 1 /\ at.item <= at.g.size /\ at.ok <= at.item /\ at.real <= at.ok
      BY <2>1, <3>1
    <3>4. QED
      BY <2>1, <2>2, <3>1, <3>2, <3>3 DEF Init, TypeOK
  <2>4. HolderInv /\ ThreadInv
    BY PollerAssumption DEF Init, HolderInv, ThreadInv, StopIsFinal
  <2>5. RoundInv /\ SilentInv
    BY <2>1 DEF Init, RoundInv, SilentInv, Polling, Idle
  <2>6. QED
    BY <2>3, <2>4, <2>5 DEF IInv
<1>2. IInv /\ [Next]_vars => IInv'
  <2> SUFFICES ASSUME IInv, [Next]_vars  PROVE IInv'
    OBVIOUS
  <2>1. ASSUME NEW c \in Callers, Configure(c)  PROVE IInv'
    <3>1. PICK n \in Names :
            \/ \E i \in Intervals, s \in Sizes, e \in BOOLEAN : addGroup(c, n, i, s, e)
            \/ removeGroup(c, n)
            \/ \E i \in Intervals : setGroupInterval(c, n, i)
            \/ \E e \in BOOLEAN : setGroupEnabled(c, n, e)
      BY <2>1, Zenon DEF Configure
    <3>2. QED
      BY <3>1, AddStep, RemoveStep, IntervalStep, EnabledStep, Zenon
  <2>2. ASSUME NEW c \in Callers, NEW n \in Names \cup {AnyGroup}, pollOnce(c, n)  PROVE IInv'
    BY <2>2, OnceStep
  <2>3. ASSUME NEW c \in Callers, PollOnceEnd(c)  PROVE IInv'
    BY <2>3, OnceEndStep
  <2>4. ASSUME NEW h \in Callers \cup {Thread}, Round(h)  PROVE IInv'
    BY <2>4, ReadStep, DoneStep, Zenon DEF Round
  <2>5. CASE LoopTest \/ Wake \/ start \/ stop \/ Join \/ connect \/ disconnect
    BY <2>5, OtherStep
  <2>6. CASE RoundBegin \/ RoundEnd \/ Tick
    BY <2>6, RoundBeginStep, RoundEndStep, TickStep, Zenon
  <2>7. CASE UNCHANGED vars
    BY <2>7 DEF vars, IInv, TypeOK, HolderInv, RoundInv, SilentInv, ThreadInv, StopIsFinal, Polling
  <2>8. QED
    BY <2>1, <2>2, <2>3, <2>4, <2>5, <2>6, <2>7, Zenon DEF Next, ThreadStep
<1>3. QED
  BY <1>1, <1>2, PTL DEF Spec

(* Every variable has its type; in particular the counters of pollGroup()  *)
(* never run past the items, and the round is at a group that exists.      *)
THEOREM TypeCorrect == Spec => []TypeOK
<1>1. IInv => TypeOK
  BY DEF IInv
<1>2. QED
  BY <1>1, Invariance, PTL

(* What removeGroup() or setGroupEnabled(false) has silenced is not read   *)
(* any more, for any number of groups and callers, groups that share a     *)
(* name included.                                                          *)
THEOREM Silence == Spec => []SilencedStaysSilent
<1>1. IInv => SilencedStaysSilent
  <2> SUFFICES ASSUME IInv, Polling  PROVE at.g.name \notin silenced
    BY DEF SilencedStaysSilent
  <2>1. at.idx \in DOMAIN groups /\ at.g = groups[at.idx] /\ at.g.enabled
    BY Bounded DEF IInv, TypeOK, RoundInv, Place
  <2>2. QED
    BY <2>1 DEF IInv, SilentInv
<1>2. QED
  BY <1>1, Invariance, PTL

(* stop() leaves no thread behind, and start() never overwrites one.       *)
THEOREM Stopped == Spec => []StopIsFinal
<1>1. IInv => StopIsFinal
  BY DEF IInv, ThreadInv
<1>2. QED
  BY <1>1, Invariance, PTL
=============================================================================
