---------------------------- MODULE MoveLoopProofs ----------------------------
(***************************************************************************)
(* What the walk of movemon relies on, proved for every set of monsters: a *)
(* game that is saved at commands only (with SaveAtMore the host purges the *)
(* list under a suspended walk, and the walk reads freed memory).          *)
(***************************************************************************)
EXTENDS MoveLoop, ListLemmas

-----------------------------------------------------------------------------
(* The invariant. *)

MonLists == {s \in Seq(Mons) : IsInjective(s)}

Monst ==
  {r \in [life : {"free", "live", "dead", "away"}, moves : Nat, isgd : BOOLEAN, parked : BOOLEAN] :
     r.parked => r.isgd}

LevelType == [fmon : MonLists, migr : MonLists, purge : Nat, mon : [Mons -> Monst]]

OnMigr(lv) == ToSet(lv.migr)

\* The list holds each monster that lives or waits for the purge once, those sent
\* away are on migrating_mons, no guard is elsewhere, and purge counts those that
\* dmonsfree will take away.
LevelOK(lv) ==
  /\ lv \in LevelType
  /\ \A m \in Mons : m \in OnList(lv) <=> lv.mon[m].life \in {"live", "dead"}
  /\ \A m \in Mons : m \in OnMigr(lv) <=> lv.mon[m].life = "away"
  /\ \A m \in Mons : m \notin OnList(lv) => ~lv.mon[m].isgd
  /\ lv.purge = Cardinality(Purgeable(lv))

Places == {"pass", "act", "turn", "ration", "tick", "play", "command", "occupation", "over"}

LoopOK ==
  /\ at \in Places
  /\ cur \in Mons \cup {Null} /\ nmtmp \in Mons \cup {Null}
  /\ scan \in BOOLEAN /\ goto \in BOOLEAN
  /\ owed \subseteq Mons /\ late \subseteq Mons /\ walk \in {"whole", "astray", "early"}
  /\ at = "act" => cur \in Mons /\ nmtmp # cur /\ level.mon[cur].life # "free"

HeroOK ==
  /\ movement \in Nat
  /\ at \in {"play", "command", "occupation"} => movement >= NormalSpeed
  /\ multi \in (-MaxHelpless) .. MaxHelpless /\ form \in 0 .. MaxForm

\* Walking the list from k one comes to m.
Reaches(lv, k, m) == Precedes(lv.fmon, k, m)

\* A walk that stands at k, with the monsters of due still to act, those of came
\* new on the list, and again if one that has acted can act once more.
WalkAt(lv, k, due, came, again) ==
  /\ k \in OnList(lv) \cup {Null}
  /\ \A m \in due : lv.mon[m].life # "free"
  /\ \A m \in due \cap Living(lv) : m \in Able(lv) /\ Reaches(lv, k, m)
  /\ \A m \in Able(lv) : Reaches(lv, k, m) => m \in due
  /\ ~again => \A m \in Able(lv) : m \in came \/ Reaches(lv, k, m)

\* A walk that went astray stays on migrating_mons, and one that was ended early is
\* over.
Walks(lv, k, due, came, again, how) ==
  /\ how = "whole"  => WalkAt(lv, k, due, came, again)
  /\ how = "astray" => k \in OnMigr(lv) \cup {Null}
  /\ how = "early"  => k = Null

WalkOK ==
  at \in {"pass", "act"} => /\ Walks(level, Cursor, owed, late, scan, walk)
                            /\ walk = "early" => at = "pass"

TurnOK == at = "turn" => movement < NormalSpeed /\ (walk = "whole" => Able(level) \subseteq late)

WalkInv == LevelOK(level) /\ LoopOK /\ HeroOK /\ WalkOK /\ TurnOK

-----------------------------------------------------------------------------
(* The list of a level. *)

\* The lists a level can have.
LEMMA ListType ==
  ASSUME NEW s \in MonLists
  PROVE  s \in Seq(Mons) /\ IsInjective(s) /\ ToSet(s) \subseteq Mons
<1>1. s \in Seq(Mons) /\ IsInjective(s)
  BY DEF MonLists
<1>2. QED BY <1>1 DEF ToSet

\* A monster comes before and after monsters of the list only.
LEMMA ReachesOnList ==
  ASSUME NEW s, NEW k, NEW m, Precedes(s, k, m)
  PROVE  k \in ToSet(s) /\ m \in ToSet(s)
BY DEF Precedes, ToSet

\* A walk that unlinks monsters keeps the order of the others.
LEMMA FilterList ==
  ASSUME NEW s \in MonLists, NEW S
  PROVE  /\ Filter(s, S) \in MonLists
         /\ ToSet(Filter(s, S)) = ToSet(s) \cap S
         /\ \A k, m \in S : Precedes(Filter(s, S), k, m) <=> Precedes(s, k, m)
<1>1. s \in Seq(Mons) /\ IsInjective(s)
  BY ListType
<1>2. /\ Filter(s, S) \in Seq(Mons) /\ IsInjective(Filter(s, S))
      /\ ToSet(Filter(s, S)) = ToSet(s) \cap S
  BY <1>1, FilterProperties
<1>3. \A k, m \in S : Precedes(Filter(s, S), k, m) <=> Precedes(s, k, m)
  BY <1>1, FilterKeepsOrder
<1>4. QED BY <1>2, <1>3 DEF MonLists

\* A new monster is put at the head.
LEMMA ConsList ==
  ASSUME NEW s \in MonLists, NEW x \in Mons, x \notin ToSet(s)
  PROVE  /\ <<x>> \o s \in MonLists
         /\ ToSet(<<x>> \o s) = ToSet(s) \cup {x}
         /\ \A k, m : k # x => (Precedes(<<x>> \o s, k, m) <=> Precedes(s, k, m))
<1>1. s \in Seq(Mons) /\ IsInjective(s)
  BY ListType
<1>2. QED BY <1>1, ConsProperties, Zenon DEF MonLists

\* Two lists of different monsters, one before the other.
LEMMA JoinList ==
  ASSUME NEW s \in MonLists, NEW t \in MonLists, ToSet(s) \cap ToSet(t) = {}
  PROVE  s \o t \in MonLists /\ ToSet(s \o t) = ToSet(s) \cup ToSet(t)
<1>1. s \in Seq(Mons) /\ t \in Seq(Mons) /\ IsInjective(s) /\ IsInjective(t)
  BY ListType
<1>2. /\ s \o t \in Seq(Mons) /\ ToSet(s \o t) = ToSet(s) \cup ToSet(t)
      /\ IsInjective(s) /\ IsInjective(t) /\ ToSet(s) \cap ToSet(t) = {} =>
           IsInjective(s \o t)
  BY <1>1, JoinProperties, ZenonT(60)
<1>3. IsInjective(s \o t)
  BY <1>1, <1>2, Zenon
<1>4. QED BY <1>2, <1>3, Zenon DEF MonLists

\* A set of monsters in any order.
LEMMA EnumList ==
  ASSUME NEW S \in SUBSET Mons
  PROVE  SetToSeq(S) \in MonLists /\ ToSet(SetToSeq(S)) = S
<1>1. IsFiniteSet(S)
  BY MoveAssumption, FS_Subset
<1>2. SetToSeq(S) \in Seq(S) /\ IsInjective(SetToSeq(S)) /\ ToSet(SetToSeq(S)) = S
  BY <1>1, SetToSeqProperties
<1>3. SetToSeq(S) \in Seq(Mons)
  BY <1>2
<1>4. QED BY <1>2, <1>3 DEF MonLists

\* The empty list.
LEMMA EmptyList == <<>> \in MonLists /\ ToSet(<<>>) = {}
BY DEF MonLists, IsInjective, ToSet

\* Where a walk begins it reaches all monsters of the list.
LEMMA FirstReaches ==
  ASSUME NEW lv, lv.fmon \in MonLists
  PROVE  /\ First(lv) \in OnList(lv) \cup {Null}
         /\ \A m \in OnList(lv) : Reaches(lv, First(lv), m)
<1> DEFINE s == lv.fmon
<1>1. s \in Seq(Mons)
  BY ListType
<1>2. /\ s = <<>> => ToSet(s) = {}
      /\ s # <<>> => Head(s) \in ToSet(s) /\ \A m \in ToSet(s) : Precedes(s, Head(s), m)
  BY <1>1, HeadProperties
<1>3. First(lv) = IF s = <<>> THEN Null ELSE Head(s)
  BY DEF First
<1>4. OnList(lv) = ToSet(s) /\ \A k, m : Reaches(lv, k, m) <=> Precedes(s, k, m)
  BY DEF OnList, Reaches
<1> HIDE DEF s
<1>5. QED BY <1>2, <1>3, <1>4, Zenon

\* One step of a walk: from k's successor it reaches what it reached from k, but k.
LEMMA NextReaches ==
  ASSUME NEW s \in MonLists, NEW k \in ToSet(s)
  PROVE  /\ NextIn(s, k) \in ToSet(s) \cup {Null} /\ NextIn(s, k) # k
         /\ \A m : Precedes(s, k, m) <=> m = k \/ Precedes(s, NextIn(s, k), m)
         /\ ~Precedes(s, NextIn(s, k), k)
<1> DEFINE i == CHOOSE j \in DOMAIN s : s[j] = k
<1>1. s \in Seq(Mons) /\ IsInjective(s) /\ ToSet(s) \subseteq Mons
  BY ListType
<1>2. NextIn(s, k) = IF i = Len(s) THEN Null ELSE s[i + 1]
  BY DEF NextIn
<1>3. \E j \in DOMAIN s : s[j] = k
  BY DEF ToSet
<1>4. i \in DOMAIN s /\ s[i] = k
  BY <1>3
<1>5. k # Null /\ \A m : ~Precedes(s, Null, m)
  BY <1>1, ReachesOnList, MoveAssumption
<1> HIDE DEF i
<1>6. /\ i = Len(s) => \A m : Precedes(s, k, m) <=> m = k
      /\ i # Len(s) => /\ s[i + 1] \in ToSet(s) /\ s[i + 1] # k
                       /\ ~Precedes(s, s[i + 1], k)
                       /\ \A m : Precedes(s, k, m) <=> m = k \/ Precedes(s, s[i + 1], m)
  BY <1>1, <1>4, NextProperties
<1> DEFINE a == NextIn(s, k)
<1>7. a = IF i = Len(s) THEN Null ELSE s[i + 1]
  BY <1>2
<1> HIDE DEF a
<1>8. /\ a \in ToSet(s) \cup {Null} /\ a # k
      /\ \A m : Precedes(s, k, m) <=> m = k \/ Precedes(s, a, m)
      /\ ~Precedes(s, a, k)
  <2>1. CASE i = Len(s)
    BY <1>5, <1>6, <1>7, <2>1
  <2>2. CASE i # Len(s)
    BY <1>6, <1>7, <2>2
  <2>3. QED BY <2>1, <2>2
<1>9. QED BY <1>8 DEF a

-----------------------------------------------------------------------------
(* What is done to a level. *)

\* The sets of a level and what they say of a monster.
LEMMA LevelSets ==
  ASSUME NEW lv, LevelOK(lv)
  PROVE  /\ lv.fmon \in MonLists /\ lv.migr \in MonLists
         /\ lv.purge \in Nat /\ lv.mon \in [Mons -> Monst]
         /\ OnList(lv) \subseteq Mons /\ Null \notin OnList(lv)
         /\ OnMigr(lv) \subseteq Mons /\ Null \notin OnMigr(lv)
         /\ Purgeable(lv) \subseteq OnList(lv) /\ IsFiniteSet(Purgeable(lv))
         /\ Living(lv) \subseteq OnList(lv) \ Purgeable(lv)
         /\ Able(lv) \subseteq Living(lv) /\ Movable(lv) \subseteq Living(lv)
<1>1. /\ lv.fmon \in MonLists /\ lv.migr \in MonLists
      /\ lv.purge \in Nat /\ lv.mon \in [Mons -> Monst]
  BY DEF LevelOK, LevelType
<1>2. OnList(lv) \subseteq Mons /\ OnMigr(lv) \subseteq Mons
  BY <1>1, ListType DEF OnList, OnMigr
<1>3. Null \notin OnList(lv) /\ Null \notin OnMigr(lv)
  BY <1>2, MoveAssumption
<1>4. Purgeable(lv) \subseteq OnList(lv)
  BY DEF Purgeable
<1>5. IsFiniteSet(Purgeable(lv))
  BY <1>2, <1>4, MoveAssumption, FS_Subset
<1>6. Living(lv) \subseteq OnList(lv) \ Purgeable(lv)
  BY DEF Living, Purgeable
<1>7. QED BY <1>1, <1>2, <1>3, <1>4, <1>5, <1>6 DEF Able, Movable

\* What a level of these parts is.
LEMMA LevelParts ==
  ASSUME NEW lv \in LevelType
  PROVE  lv = [fmon |-> lv.fmon, migr |-> lv.migr, purge |-> lv.purge, mon |-> lv.mon]
BY DEF LevelType

\* mtmp->nmon of a monster of fmon.
LEMMA AfterReaches ==
  ASSUME NEW lv, LevelOK(lv), NEW k \in OnList(lv)
  PROVE  /\ After(lv, k) \in OnList(lv) \cup {Null} /\ After(lv, k) # k
         /\ \A m : Reaches(lv, k, m) <=> m = k \/ Reaches(lv, After(lv, k), m)
         /\ ~Reaches(lv, After(lv, k), k)
<1>1. lv.fmon \in MonLists /\ k \in Mons /\ k \in ToSet(lv.fmon)
  BY LevelSets DEF OnList
<1>2. lv.mon[k].life # "away"
  BY <1>1 DEF LevelOK
<1>3. After(lv, k) = NextIn(lv.fmon, k)
  BY <1>2 DEF After
<1> DEFINE s == lv.fmon
           a == NextIn(s, k)
<1>4. s \in MonLists /\ k \in ToSet(s)
  BY <1>1
<1> HIDE DEF s
<1>5. /\ a \in ToSet(s) \cup {Null} /\ a # k
      /\ \A m : Precedes(s, k, m) <=> m = k \/ Precedes(s, a, m)
      /\ ~Precedes(s, a, k)
  BY <1>4, NextReaches
<1> HIDE DEF a
<1>6. OnList(lv) = ToSet(s) /\ \A j, m : Reaches(lv, j, m) <=> Precedes(s, j, m)
  BY DEF OnList, Reaches, s
<1>7. After(lv, k) = a
  BY <1>3 DEF a, s
<1>8. QED BY <1>5, <1>6, <1>7

\* mtmp->nmon of a monster of migrating_mons.
LEMMA AfterAway ==
  ASSUME NEW lv, LevelOK(lv), NEW k \in OnMigr(lv)
  PROVE  After(lv, k) \in OnMigr(lv) \cup {Null} /\ After(lv, k) # k
<1>1. lv.migr \in MonLists /\ k \in Mons /\ k \in ToSet(lv.migr)
  BY LevelSets DEF OnMigr
<1>2. lv.mon[k].life = "away"
  BY <1>1 DEF LevelOK
<1>3. After(lv, k) = NextIn(lv.migr, k)
  BY <1>2 DEF After
<1>4. NextIn(lv.migr, k) \in ToSet(lv.migr) \cup {Null} /\ NextIn(lv.migr, k) # k
  BY <1>1, NextReaches
<1>5. QED BY <1>3, <1>4 DEF OnMigr

\* What the living of lw are in lv, no struct was deallocated, and nobody came back
\* from migrating_mons.
Thins(lv, lw) ==
  /\ \A m \in Living(lw) : m \in Living(lv) /\ lw.mon[m] = lv.mon[m]
  /\ \A m \in Mons : lw.mon[m].life = "free" => lv.mon[m].life = "free"
  /\ OnMigr(lv) \subseteq OnMigr(lw)

\* A walk that goes on over the same list, of which some monsters died, or have
\* left, or are parked.
LEMMA ThinsKeepsWalk ==
  ASSUME NEW lv, NEW lw, LevelOK(lv), LevelOK(lw), Thins(lv, lw),
         NEW k, NEW due \in SUBSET Mons, NEW came, NEW again,
         k \in OnList(lw) \cup {Null},
         \A m \in OnList(lw) : Reaches(lw, k, m) <=> Reaches(lv, k, m),
         WalkAt(lv, k, due, came, again)
  PROVE  WalkAt(lw, k, due, came, again)
<1>1. \A m \in Living(lw) : /\ m \in Living(lv) /\ m \in OnList(lw)
                            /\ m \in Able(lw) <=> m \in Able(lv)
  BY DEF Thins, Able, Living
<1>2. \A m \in Able(lw) : m \in Living(lw)
  BY DEF Able
<1>3. \A m \in due : lw.mon[m].life # "free"
  BY DEF WalkAt, Thins
<1>4. \A m \in due \cap Living(lw) : m \in Able(lw) /\ Reaches(lw, k, m)
  BY <1>1 DEF WalkAt
<1>5. \A m \in Able(lw) : Reaches(lw, k, m) => m \in due
  BY <1>1, <1>2 DEF WalkAt
<1>6. ~again => \A m \in Able(lw) : m \in came \/ Reaches(lw, k, m)
  BY <1>1, <1>2 DEF WalkAt
<1>7. QED BY <1>3, <1>4, <1>5, <1>6 DEF WalkAt

\* What keeps both lists, and who lives, is dead or away.
LEMMA SameLists ==
  ASSUME NEW lv, LevelOK(lv), NEW lw \in LevelType, lw.fmon = lv.fmon, lw.migr = lv.migr,
         \A m \in Mons : /\ lw.mon[m].life \in {"live", "dead"} <=> lv.mon[m].life \in {"live", "dead"}
                         /\ lw.mon[m].life = "away" <=> lv.mon[m].life = "away"
                         /\ m \notin OnList(lv) => lw.mon[m].isgd = lv.mon[m].isgd,
         lw.purge = Cardinality(Purgeable(lw))
  PROVE  LevelOK(lw)
<1>1. OnList(lw) = OnList(lv) /\ OnMigr(lw) = OnMigr(lv)
  BY DEF OnList, OnMigr
<1>2. \A m \in Mons : /\ m \in OnList(lw) <=> lw.mon[m].life \in {"live", "dead"}
                      /\ m \in OnMigr(lw) <=> lw.mon[m].life = "away"
  BY <1>1 DEF LevelOK
<1>3. \A m \in Mons : m \notin OnList(lw) => ~lw.mon[m].isgd
  BY <1>1, Zenon DEF LevelOK
<1>4. QED BY <1>2, <1>3 DEF LevelOK

\* A death that is counted.
LEMMA DetachedOK ==
  ASSUME NEW lv, LevelOK(lv), NEW m \in OnList(lv) \ Purgeable(lv)
  PROVE  /\ LevelOK(Detached(lv, m)) /\ Thins(lv, Detached(lv, m))
         /\ Detached(lv, m).fmon = lv.fmon /\ m \notin Living(Detached(lv, m))
<1> DEFINE lw == Detached(lv, m)
<1>1. /\ lv.fmon \in MonLists /\ lv.migr \in MonLists /\ lv.purge \in Nat
      /\ lv.mon \in [Mons -> Monst] /\ OnList(lv) \subseteq Mons /\ m \in Mons
      /\ IsFiniteSet(Purgeable(lv)) /\ lv.mon[m].life \in {"live", "dead"} /\ lv \in LevelType
  BY LevelSets DEF LevelOK
<1>2. /\ lw \in LevelType /\ lw.fmon = lv.fmon /\ lw.migr = lv.migr /\ lw.purge = lv.purge + 1
      /\ lw.mon[m].life = "dead" /\ ~lw.mon[m].isgd
      /\ \A k \in Mons \ {m} : lw.mon[k] = lv.mon[k]
  <2> DEFINE d == [Nobody EXCEPT !.life = "dead"]
             mons == [lv.mon EXCEPT ![m] = d]
  <2>1. d \in Monst /\ d.life = "dead" /\ ~d.isgd
    BY DEF Nobody, Monst
  <2>2. lw = [lv EXCEPT !.mon[m] = d, !.purge = @ + 1]
    BY DEF Detached
  <2> HIDE DEF d, lw
  <2>3. lw = [fmon |-> lv.fmon, migr |-> lv.migr, purge |-> lv.purge + 1, mon |-> mons]
    BY <1>1, <2>2 DEF LevelType
  <2>4. mons \in [Mons -> Monst]
    BY <1>1, <2>1
  <2>5. mons[m] = d /\ \A k \in Mons \ {m} : mons[k] = lv.mon[k]
    BY <1>1
  <2> HIDE DEF mons
  <2>6. QED BY <1>1, <2>1, <2>3, <2>4, <2>5 DEF LevelType
<1> HIDE DEF lw
<1>3. OnList(lw) = OnList(lv) /\ OnMigr(lw) = OnMigr(lv)
  BY <1>2 DEF OnList, OnMigr
<1>4. Purgeable(lw) = Purgeable(lv) \cup {m}
  BY <1>1, <1>2, <1>3 DEF Purgeable
<1>5. lw.purge = Cardinality(Purgeable(lw))
  <2>1. lv.purge = Cardinality(Purgeable(lv))
    BY DEF LevelOK
  <2>2. Cardinality(Purgeable(lv) \cup {m}) = Cardinality(Purgeable(lv)) + 1
    BY <1>1, FS_AddElement
  <2>3. QED BY <1>2, <1>4, <2>1, <2>2
<1>6. LevelOK(lw)
  <2>1. \A k \in Mons :
          /\ lw.mon[k].life \in {"live", "dead"} <=> lv.mon[k].life \in {"live", "dead"}
          /\ lw.mon[k].life = "away" <=> lv.mon[k].life = "away"
          /\ k \notin OnList(lv) => lw.mon[k].isgd = lv.mon[k].isgd
    BY <1>1, <1>2
  <2>2. QED BY <1>2, <1>5, <2>1, SameLists
<1>7. m \notin Living(lw)
  BY <1>2 DEF Living
<1>8. Thins(lv, lw)
  BY <1>1, <1>2, <1>3, <1>7 DEF Thins, Living
<1>9. QED BY <1>2, <1>6, <1>7, <1>8 DEF lw

\* A death that leaves a guard on the list, and is not counted.
LEMMA ParkedOK ==
  ASSUME NEW lv, LevelOK(lv), NEW m \in OnList(lv), lv.mon[m].isgd
  PROVE  LevelOK(Parked(lv, m)) /\ Thins(lv, Parked(lv, m)) /\ Parked(lv, m).fmon = lv.fmon
<1> DEFINE lw == Parked(lv, m)
           d == [life |-> "dead", moves |-> 0, isgd |-> TRUE, parked |-> TRUE]
           mons == [lv.mon EXCEPT ![m] = d]
<1>1. /\ lv.fmon \in MonLists /\ lv.migr \in MonLists /\ lv.purge \in Nat
      /\ lv.mon \in [Mons -> Monst] /\ OnList(lv) \subseteq Mons /\ m \in Mons
      /\ lv.mon[m].life \in {"live", "dead"} /\ lv \in LevelType
  BY LevelSets DEF LevelOK
<1>2. /\ lw \in LevelType /\ lw.fmon = lv.fmon /\ lw.migr = lv.migr /\ lw.purge = lv.purge
      /\ lw.mon[m].life = "dead" /\ lw.mon[m].isgd
      /\ \A k \in Mons \ {m} : lw.mon[k] = lv.mon[k]
  <2>1. d \in Monst /\ d.life = "dead" /\ d.isgd
    BY DEF Monst
  <2>2. lw = [lv EXCEPT !.mon[m] = d]
    BY DEF Parked
  <2> HIDE DEF d, lw
  <2>3. lw = [fmon |-> lv.fmon, migr |-> lv.migr, purge |-> lv.purge, mon |-> mons]
    BY <1>1, <2>2 DEF LevelType
  <2>4. mons \in [Mons -> Monst]
    BY <1>1, <2>1
  <2>5. mons[m] = d /\ \A k \in Mons \ {m} : mons[k] = lv.mon[k]
    BY <1>1
  <2> HIDE DEF mons
  <2>6. QED BY <1>1, <2>1, <2>3, <2>4, <2>5 DEF LevelType
<1> HIDE DEF lw
<1>3. OnList(lw) = OnList(lv) /\ OnMigr(lw) = OnMigr(lv)
  BY <1>2 DEF OnList, OnMigr
<1>4. Purgeable(lw) = Purgeable(lv)
  BY <1>1, <1>2, <1>3 DEF Purgeable
<1>5. LevelOK(lw)
  <2>1. lw.purge = Cardinality(Purgeable(lw))
    BY <1>2, <1>4 DEF LevelOK
  <2>2. \A k \in Mons :
          /\ lw.mon[k].life \in {"live", "dead"} <=> lv.mon[k].life \in {"live", "dead"}
          /\ lw.mon[k].life = "away" <=> lv.mon[k].life = "away"
          /\ k \notin OnList(lv) => lw.mon[k].isgd = lv.mon[k].isgd
    BY <1>1, <1>2
  <2>3. QED BY <1>2, <2>1, <2>2, SameLists
<1>6. Thins(lv, lw)
  BY <1>1, <1>2, <1>3 DEF Thins, Living
<1>7. QED BY <1>2, <1>5, <1>6 DEF lw

\* Either death, of a monster that lives.
LEMMA DeathsOK ==
  ASSUME NEW lv, LevelOK(lv), NEW m \in Living(lv), NEW lw \in Deaths(lv, m)
  PROVE  LevelOK(lw) /\ Thins(lv, lw) /\ lw.fmon = lv.fmon
<1>1. m \in OnList(lv) \ Purgeable(lv)
  BY LevelSets
<1>2. lw = Detached(lv, m) \/ (lv.mon[m].isgd /\ lw = Parked(lv, m))
  BY DEF Deaths
<1>3. QED BY <1>1, <1>2, DetachedOK, ParkedOK

\* dmonsfree: the list and the count agree again, and the living are untouched.
LEMMA PurgedOK ==
  ASSUME NEW lv, LevelOK(lv)
  PROVE  /\ LevelOK(Purged(lv)) /\ Purgeable(Purged(lv)) = {}
         /\ Living(Purged(lv)) = Living(lv) /\ Able(Purged(lv)) = Able(lv)
         /\ Purged(lv).purge = 0
<1> DEFINE lw == Purged(lv)
<1>1. /\ lv.fmon \in MonLists /\ lv.mon \in [Mons -> Monst] /\ OnList(lv) \subseteq Mons
      /\ Purgeable(lv) \subseteq OnList(lv) /\ Living(lv) \subseteq OnList(lv) \ Purgeable(lv)
      /\ lv.migr \in MonLists
  BY LevelSets
<1>2. /\ lw.fmon = Filter(lv.fmon, Mons \ Purgeable(lv)) /\ lw.purge = 0 /\ lw.migr = lv.migr
      /\ lw.mon = [m \in Mons |-> IF m \in Purgeable(lv) THEN Nobody ELSE lv.mon[m]]
      /\ lw = [fmon |-> lw.fmon, migr |-> lw.migr, purge |-> lw.purge, mon |-> lw.mon]
  BY DEF Purged
<1> HIDE DEF lw
<1>3. lw.fmon \in MonLists /\ OnList(lw) = OnList(lv) \ Purgeable(lv)
  <2>1. lw.fmon \in MonLists /\ ToSet(lw.fmon) = ToSet(lv.fmon) \cap (Mons \ Purgeable(lv))
    BY <1>1, <1>2, FilterList
  <2>2. QED BY <1>1, <2>1 DEF OnList
<1>4. lw.mon \in [Mons -> Monst]
  BY <1>1, <1>2 DEF Monst, Nobody
<1>5. lw \in LevelType
  BY <1>1, <1>2, <1>3, <1>4 DEF LevelType
<1>6. \A m \in Mons : lw.mon[m] = IF m \in Purgeable(lv) THEN Nobody ELSE lv.mon[m]
  BY <1>2
<1>7. \A m \in Mons : /\ m \in OnList(lw) <=> lw.mon[m].life \in {"live", "dead"}
                      /\ m \in OnMigr(lw) <=> lw.mon[m].life = "away"
                      /\ m \notin OnList(lw) => ~lw.mon[m].isgd
  <2>1. OnMigr(lw) = OnMigr(lv)
    BY <1>2 DEF OnMigr
  <2>2. \A m \in Purgeable(lv) : lv.mon[m].life = "dead" /\ m \in Mons
    BY <1>1 DEF Purgeable
  <2>3. QED BY <1>1, <1>3, <1>6, <2>1, <2>2 DEF LevelOK, Nobody
<1>8. Purgeable(lw) = {}
  BY <1>1, <1>3, <1>6 DEF Purgeable
<1>9. lw.purge = Cardinality(Purgeable(lw))
  BY <1>2, <1>8, FS_EmptySet
<1>10. Living(lw) = Living(lv)
  BY <1>1, <1>3, <1>6 DEF Living
<1>11. Able(lw) = Able(lv)
  BY <1>1, <1>6, <1>10 DEF Able
<1>12. QED BY <1>2, <1>5, <1>7, <1>8, <1>9, <1>10, <1>11 DEF lw, LevelOK

\* What changes neither the lists, nor who lives, nor who is a guard.
LEMMA SameLives ==
  ASSUME NEW lv, LevelOK(lv), NEW lw \in LevelType, lw.fmon = lv.fmon, lw.migr = lv.migr,
         lw.purge = lv.purge,
         \A m \in Mons : lw.mon[m].life = lv.mon[m].life /\ lw.mon[m].isgd = lv.mon[m].isgd
  PROVE  LevelOK(lw)
<1>1. OnList(lw) = OnList(lv) /\ OnList(lv) \subseteq Mons
  BY LevelSets DEF OnList
<1>2. Purgeable(lw) = Purgeable(lv)
  BY <1>1 DEF Purgeable
<1>3. lw.purge = Cardinality(Purgeable(lw))
  BY <1>2 DEF LevelOK
<1>4. \A m \in Mons :
        /\ lw.mon[m].life \in {"live", "dead"} <=> lv.mon[m].life \in {"live", "dead"}
        /\ lw.mon[m].life = "away" <=> lv.mon[m].life = "away"
        /\ m \notin OnList(lv) => lw.mon[m].isgd = lv.mon[m].isgd
  OBVIOUS
<1>5. QED BY <1>3, <1>4, SameLists

\* One monster is given another record.
Changed(lv, m, d) ==
  [fmon |-> lv.fmon, migr |-> lv.migr, purge |-> lv.purge, mon |-> [lv.mon EXCEPT ![m] = d]]

LEMMA ChangedOK ==
  ASSUME NEW lv, LevelOK(lv), NEW m \in Mons, NEW d \in Monst,
         d.life = lv.mon[m].life, d.isgd = lv.mon[m].isgd
  PROVE  /\ LevelOK(Changed(lv, m, d)) /\ Changed(lv, m, d).fmon = lv.fmon
         /\ Changed(lv, m, d).migr = lv.migr
         /\ Changed(lv, m, d).mon[m] = d
         /\ \A k \in Mons \ {m} : Changed(lv, m, d).mon[k] = lv.mon[k]
<1> DEFINE lw == Changed(lv, m, d)
<1>1. /\ lv.fmon \in MonLists /\ lv.migr \in MonLists /\ lv.purge \in Nat
      /\ lv.mon \in [Mons -> Monst]
  BY LevelSets
<1>2. [lv.mon EXCEPT ![m] = d] \in [Mons -> Monst]
  BY <1>1
<1>3. /\ lw \in LevelType /\ lw.fmon = lv.fmon /\ lw.migr = lv.migr /\ lw.purge = lv.purge
      /\ lw.mon = [lv.mon EXCEPT ![m] = d]
  BY <1>1, <1>2 DEF Changed, LevelType
<1>4. lw.mon[m] = d /\ \A k \in Mons \ {m} : lw.mon[k] = lv.mon[k]
  BY <1>1, <1>3
<1> HIDE DEF lw
<1>4a. \A k \in Mons : lw.mon[k].life = lv.mon[k].life /\ lw.mon[k].isgd = lv.mon[k].isgd
  BY <1>4
<1>5. LevelOK(lw)
  BY <1>3, <1>4a, SameLives
<1>6. QED BY <1>3, <1>4, <1>5 DEF lw

\* A monster that acts pays for it.
Spent(lv, m) == [lv EXCEPT !.mon[m].moves = @ - NormalSpeed]

\* A monster pays for its move.
LEMMA SpentOK ==
  ASSUME NEW lv, LevelOK(lv), NEW m \in Mons, lv.mon[m].moves >= NormalSpeed
  PROVE  /\ LevelOK(Spent(lv, m)) /\ Spent(lv, m).fmon = lv.fmon
         /\ Spent(lv, m).migr = lv.migr
         /\ \A k \in Mons : Spent(lv, m).mon[k].life = lv.mon[k].life
         /\ \A k \in Mons \ {m} : Spent(lv, m).mon[k] = lv.mon[k]
         /\ Spent(lv, m).mon[m].moves = lv.mon[m].moves - NormalSpeed
<1> DEFINE d == [lv.mon[m] EXCEPT !.moves = @ - NormalSpeed]
<1>1. lv.mon \in [Mons -> Monst] /\ lv \in LevelType
  BY LevelSets DEF LevelOK
<1>2. lv.mon[m].moves \in Nat /\ lv.mon[m] \in Monst
  BY <1>1 DEF Monst
<1>3. /\ d \in Monst /\ d.life = lv.mon[m].life /\ d.isgd = lv.mon[m].isgd
      /\ d.moves = lv.mon[m].moves - NormalSpeed
  BY <1>2, MoveAssumption DEF Monst
<1>4. Spent(lv, m) = Changed(lv, m, d)
  BY <1>1 DEF LevelType, Spent, Changed
<1> HIDE DEF d
<1>5. QED BY <1>3, <1>4, ChangedOK

\* A guard that waits at <0,0> has no move left.
Waiting(lv, m) == [lv EXCEPT !.mon[m] = [@ EXCEPT !.parked = TRUE, !.moves = 0]]

\* A guard waits at <0,0> until its corridor is gone, without movement.
LEMMA WaitingOK ==
  ASSUME NEW lv, LevelOK(lv), NEW m \in OnList(lv), lv.mon[m].isgd = TRUE
  PROVE  LevelOK(Waiting(lv, m)) /\ Waiting(lv, m).fmon = lv.fmon /\ Thins(lv, Waiting(lv, m))
<1> DEFINE lw == Waiting(lv, m)
           d == [lv.mon[m] EXCEPT !.parked = TRUE, !.moves = 0]
<1>1. lv.mon \in [Mons -> Monst] /\ m \in Mons /\ lv \in LevelType
  BY LevelSets DEF LevelOK
<1>2. lv.mon[m] \in Monst
  BY <1>1
<1>3. d \in Monst /\ d.life = lv.mon[m].life /\ d.isgd = lv.mon[m].isgd /\ d.parked
  BY <1>2 DEF Monst
<1>4. lw = Changed(lv, m, d)
  BY <1>1 DEF LevelType, Waiting, Changed
<1> HIDE DEF d, lw
<1>5. /\ LevelOK(lw) /\ lw.fmon = lv.fmon /\ lw.migr = lv.migr /\ lw.mon[m] = d
      /\ \A k \in Mons \ {m} : lw.mon[k] = lv.mon[k]
  BY <1>1, <1>3, <1>4, ChangedOK
<1>6. Thins(lv, lw)
  <2>1. OnList(lw) = OnList(lv) /\ OnList(lv) \subseteq Mons /\ OnMigr(lw) = OnMigr(lv)
    BY <1>5, LevelSets DEF OnList, OnMigr
  <2>2. \A k \in Living(lw) : k # m
    BY <1>3, <1>5 DEF Living
  <2>3. QED BY <1>3, <1>5, <2>1, <2>2 DEF Thins, Living
<1>7. QED BY <1>5, <1>6 DEF lw

\* The new monster is alone new on the list, and before all others.
LEMMA BornOK ==
  ASSUME NEW lv, LevelOK(lv), NEW m \in Unused(lv), NEW moves \in Nat, NEW isgd \in BOOLEAN
  PROVE  /\ LevelOK(Born(lv, m, moves, isgd)) /\ m \notin OnList(lv)
         /\ OnList(Born(lv, m, moves, isgd)) = OnList(lv) \cup {m}
         /\ \A k \in Mons \ {m} : Born(lv, m, moves, isgd).mon[k] = lv.mon[k]
         /\ Born(lv, m, moves, isgd).mon[m].life = "live"
         /\ OnMigr(Born(lv, m, moves, isgd)) = OnMigr(lv)
         /\ \A k, j : k # m =>
              (Reaches(Born(lv, m, moves, isgd), k, j) <=> Reaches(lv, k, j))
<1> DEFINE d == [life |-> "live", moves |-> moves, isgd |-> isgd, parked |-> FALSE]
           lw == Born(lv, m, moves, isgd)
           list == <<m>> \o lv.fmon
<1>1. /\ lv.fmon \in MonLists /\ lv.migr \in MonLists /\ lv.purge \in Nat
      /\ lv.mon \in [Mons -> Monst] /\ OnList(lv) \subseteq Mons
  BY LevelSets
<1>2. m \in Mons /\ lv.mon[m].life = "free" /\ m \notin OnList(lv)
  BY DEF Unused, LevelOK
<1>3. d \in Monst /\ d.life = "live"
  BY DEF Monst
<1>4. /\ list \in MonLists /\ ToSet(list) = ToSet(lv.fmon) \cup {m}
      /\ \A k, j : k # m => (Precedes(list, k, j) <=> Precedes(lv.fmon, k, j))
  BY <1>1, <1>2, ConsList, Zenon DEF OnList
<1>5. lw = [lv EXCEPT !.fmon = list, !.mon[m] = d]
  BY DEF Born
<1> HIDE DEF d, lw, list
<1>6. lw = [fmon |-> list, migr |-> lv.migr, purge |-> lv.purge, mon |-> [lv.mon EXCEPT ![m] = d]]
  BY <1>5 DEF LevelOK, LevelType
<1>7. [lv.mon EXCEPT ![m] = d] \in [Mons -> Monst]
  BY <1>1, <1>3
<1>8. lw \in LevelType /\ lw.fmon = list /\ lw.purge = lv.purge /\ lw.migr = lv.migr
  BY <1>1, <1>4, <1>6, <1>7 DEF LevelType
<1>9. lw.mon[m] = d /\ \A k \in Mons \ {m} : lw.mon[k] = lv.mon[k]
  BY <1>1, <1>2, <1>6
<1>10. OnList(lw) = OnList(lv) \cup {m}
  BY <1>4, <1>8 DEF OnList
<1>11. \A k, j : k # m => (Reaches(lw, k, j) <=> Reaches(lv, k, j))
  BY <1>4, <1>8 DEF Reaches
<1>11a. OnMigr(lw) = OnMigr(lv)
  BY <1>8 DEF OnMigr
<1>12. \A k \in Mons : /\ k \in OnList(lw) <=> lw.mon[k].life \in {"live", "dead"}
                       /\ k \in OnMigr(lw) <=> lw.mon[k].life = "away"
                       /\ k \notin OnList(lw) => ~lw.mon[k].isgd
  BY <1>2, <1>3, <1>9, <1>10, <1>11a DEF LevelOK
<1>13. Purgeable(lw) = Purgeable(lv)
  BY <1>1, <1>2, <1>3, <1>9, <1>10 DEF Purgeable
<1>14. LevelOK(lw)
  BY <1>8, <1>12, <1>13 DEF LevelOK
<1>15. QED BY <1>2, <1>3, <1>9, <1>10, <1>11, <1>14, <1>11a DEF lw

\* Those that stay keep their order.
LEMMA LeftOK ==
  ASSUME NEW lv, LevelOK(lv), NEW m \in Movable(lv)
  PROVE  /\ LevelOK(Left(lv, m)) /\ Thins(lv, Left(lv, m))
         /\ OnList(Left(lv, m)) = OnList(lv) \ {m} /\ m \in OnMigr(Left(lv, m))
         /\ \A k, j \in Mons \ {m} : Reaches(Left(lv, m), k, j) <=> Reaches(lv, k, j)
<1> DEFINE d == [lv.mon[m] EXCEPT !.life = "away"]
           lw == Left(lv, m)
           list == Filter(lv.fmon, Mons \ {m})
           migr == <<m>> \o lv.migr
           mons == [lv.mon EXCEPT ![m] = d]
<1>1. /\ lv.fmon \in MonLists /\ lv.migr \in MonLists /\ lv.purge \in Nat
      /\ lv.mon \in [Mons -> Monst] /\ OnList(lv) \subseteq Mons /\ m \in Mons
      /\ m \notin Purgeable(lv) /\ lv \in LevelType
      /\ lv.mon[m].life = "live" /\ ~lv.mon[m].isgd /\ lv.mon[m] \in Monst
  BY LevelSets DEF LevelOK, Movable, Living
<1>2. d \in Monst /\ d.life = "away" /\ ~d.isgd
  BY <1>1 DEF Monst
<1>3. m \notin ToSet(lv.migr)
  BY <1>1 DEF LevelOK, OnMigr
<1>4. /\ list \in MonLists /\ ToSet(list) = ToSet(lv.fmon) \cap (Mons \ {m})
      /\ \A k, j \in Mons \ {m} : Precedes(list, k, j) <=> Precedes(lv.fmon, k, j)
  BY <1>1, FilterList
<1>5. migr \in MonLists /\ ToSet(migr) = ToSet(lv.migr) \cup {m}
  BY <1>1, <1>3, ConsList, Zenon
<1>6. lw = [lv EXCEPT !.fmon = list, !.migr = migr, !.mon[m] = d]
  BY DEF Left
<1> HIDE DEF d, lw, list, migr
<1>7. mons \in [Mons -> Monst] /\ mons[m] = d /\ \A k \in Mons \ {m} : mons[k] = lv.mon[k]
  BY <1>1, <1>2
<1>8. lw = [fmon |-> list, migr |-> migr, purge |-> lv.purge, mon |-> mons]
  BY <1>1, <1>6 DEF LevelType
<1> HIDE DEF mons
<1>9. /\ lw \in LevelType /\ lw.fmon = list /\ lw.migr = migr /\ lw.purge = lv.purge
      /\ lw.mon = mons
  BY <1>1, <1>4, <1>5, <1>7, <1>8 DEF LevelType
<1>10. OnList(lw) = OnList(lv) \ {m} /\ OnMigr(lw) = OnMigr(lv) \cup {m}
  BY <1>1, <1>4, <1>5, <1>9 DEF OnList, OnMigr
<1>11. \A k, j \in Mons \ {m} : Reaches(lw, k, j) <=> Reaches(lv, k, j)
  BY <1>4, <1>9 DEF Reaches
<1>12. \A k \in Mons : /\ k \in OnList(lw) <=> lw.mon[k].life \in {"live", "dead"}
                       /\ k \in OnMigr(lw) <=> lw.mon[k].life = "away"
                       /\ k \notin OnList(lw) => ~lw.mon[k].isgd
  BY <1>2, <1>7, <1>9, <1>10 DEF LevelOK
<1>13. Purgeable(lw) = Purgeable(lv)
  BY <1>1, <1>7, <1>9, <1>10 DEF Purgeable
<1>14. LevelOK(lw)
  BY <1>9, <1>12, <1>13 DEF LevelOK
<1>15. Thins(lv, lw)
  BY <1>1, <1>2, <1>7, <1>9, <1>10 DEF Thins, Living
<1>16. QED BY <1>10, <1>11, <1>14, <1>15 DEF lw

\* A monster is back from migrating_mons.
LEMMA BackOK ==
  ASSUME NEW lv, LevelOK(lv), NEW m \in OnMigr(lv)
  PROVE  LevelOK(Back(lv, m))
<1> DEFINE d == [lv.mon[m] EXCEPT !.life = "live"]
           lw == Back(lv, m)
           list == <<m>> \o lv.fmon
           migr == Filter(lv.migr, Mons \ {m})
           mons == [lv.mon EXCEPT ![m] = d]
<1>1. /\ lv.fmon \in MonLists /\ lv.migr \in MonLists /\ lv.purge \in Nat
      /\ lv.mon \in [Mons -> Monst] /\ OnList(lv) \subseteq Mons /\ OnMigr(lv) \subseteq Mons
      /\ m \in Mons /\ lv \in LevelType
  BY LevelSets DEF LevelOK
<1>2. lv.mon[m].life = "away" /\ lv.mon[m] \in Monst /\ m \notin OnList(lv)
  BY <1>1 DEF LevelOK
<1>3. d \in Monst /\ d.life = "live"
  BY <1>2 DEF Monst
<1>4. list \in MonLists /\ ToSet(list) = ToSet(lv.fmon) \cup {m}
  BY <1>1, <1>2, ConsList, Zenon DEF OnList
<1>5. migr \in MonLists /\ ToSet(migr) = ToSet(lv.migr) \cap (Mons \ {m})
  BY <1>1, FilterList
<1>6. lw = [lv EXCEPT !.fmon = list, !.migr = migr, !.mon[m] = d]
  BY DEF Back
<1> HIDE DEF d, lw, list, migr
<1>7. mons \in [Mons -> Monst] /\ mons[m] = d /\ \A k \in Mons \ {m} : mons[k] = lv.mon[k]
  BY <1>1, <1>3
<1>8. lw = [fmon |-> list, migr |-> migr, purge |-> lv.purge, mon |-> mons]
  BY <1>1, <1>6 DEF LevelType
<1> HIDE DEF mons
<1>9. /\ lw \in LevelType /\ lw.fmon = list /\ lw.migr = migr /\ lw.purge = lv.purge
      /\ lw.mon = mons
  BY <1>1, <1>4, <1>5, <1>7, <1>8 DEF LevelType
<1>10. OnList(lw) = OnList(lv) \cup {m} /\ OnMigr(lw) = OnMigr(lv) \ {m}
  BY <1>1, <1>4, <1>5, <1>9 DEF OnList, OnMigr
<1>11. \A k \in Mons : /\ k \in OnList(lw) <=> lw.mon[k].life \in {"live", "dead"}
                       /\ k \in OnMigr(lw) <=> lw.mon[k].life = "away"
                       /\ k \notin OnList(lw) => ~lw.mon[k].isgd
  BY <1>3, <1>7, <1>9, <1>10 DEF LevelOK
<1>12. Purgeable(lw) = Purgeable(lv)
  BY <1>1, <1>2, <1>3, <1>7, <1>9, <1>10 DEF Purgeable
<1>13. LevelOK(lw)
  BY <1>9, <1>11, <1>12 DEF LevelOK
<1>14. QED BY <1>13 DEF lw

\* What may come with a level.
LEMMA DwellersOK ==
  /\ \A d \in Dwellers : d \in Monst /\ d.life = "live"
  /\ \A d \in DwellingGuards : d \in Monst /\ d.life \in {"live", "dead"} /\ d.isgd
<1>1. ASSUME NEW d \in Dwellers PROVE d \in Monst /\ d.life = "live"
  <2>1. PICK n \in {0, NormalSpeed} : d = [Nobody EXCEPT !.life = "live", !.moves = n]
    BY DEF Dwellers
  <2>2. n \in Nat
    BY MoveAssumption
  <2>3. d = [life |-> "live", moves |-> n, isgd |-> FALSE, parked |-> FALSE]
    BY <2>1 DEF Nobody
  <2>4. QED BY <2>2, <2>3 DEF Monst
<1>2. ASSUME NEW d \in DwellingGuards
      PROVE  d \in Monst /\ d.life \in {"live", "dead"} /\ d.isgd
  <2>1. PICK p \in BOOLEAN, l \in {"live", "dead"} :
          d = [life |-> l, moves |-> 0, isgd |-> TRUE, parked |-> p]
    BY Zenon DEF DwellingGuards
  <2>2. QED BY <2>1 DEF Monst
<1>3. QED BY <1>1, <1>2

\* The same for whoever comes.
LEMMA DwellingOK ==
  ASSUME NEW S, NEW f \in Dwelling(S), NEW m \in S
  PROVE  f[m] \in Monst /\ f[m].life \in {"live", "dead"} /\ (f[m].life = "dead" => f[m].isgd)
<1>1. f[m] \in Dwellers \cup DwellingGuards
  BY DEF Dwelling
<1>2. QED BY <1>1, DwellersOK

\* The hero arrives on a level, with those that follow it.
LEMMA ArrivalsOK ==
  ASSUME NEW lv, LevelOK(lv), NEW lw \in Arrivals(lv)
  PROVE  LevelOK(lw)
<1> DEFINE old == IF lv.purge # 0 THEN Purged(lv) ELSE lv
           comers == Movable(old) \cup {m \in Mons : old.mon[m].life \in {"free", "away"}}
           there(here, leave, dwelling, m) ==
             CASE m \in here  -> IF old.mon[m].life = "free" THEN dwelling[m]
                                ELSE [old.mon[m] EXCEPT !.life = "live"]
               [] m \in leave -> [old.mon[m] EXCEPT !.life = "away"]
               [] m \in OnList(old) \ (here \cup leave) -> Nobody
               [] OTHER -> old.mon[m]
<1>1. LevelOK(old) /\ old.purge = 0 /\ Purgeable(old) = {}
  <2>1. CASE lv.purge # 0
    <3>1. old = Purged(lv)
      BY <2>1
    <3> HIDE DEF old
    <3>2. QED BY <3>1, PurgedOK
  <2>2. CASE lv.purge = 0
    <3>1. IsFiniteSet(Purgeable(lv)) /\ Cardinality(Purgeable(lv)) = 0
      BY <2>2, LevelSets DEF LevelOK
    <3>2. Purgeable(lv) = {}
      BY <3>1, FS_EmptySet
    <3>3. QED BY <2>2, <3>2
  <2>3. QED BY <2>1, <2>2
<1>2. PICK here \in SUBSET comers : \E leave \in SUBSET (comers \ here) :
        \E dwelling \in Dwelling(here \cap Unused(old)) :
          lw = Arrived(old, here, leave, dwelling)
  BY DEF Arrivals
<1>3. PICK leave \in SUBSET (comers \ here), dwelling \in Dwelling(here \cap Unused(old)) :
        lw = Arrived(old, here, leave, dwelling)
  BY <1>2
<1> HIDE DEF old
<1>4. /\ old.mon \in [Mons -> Monst] /\ OnList(old) \subseteq Mons /\ OnMigr(old) \subseteq Mons
      /\ Movable(old) \subseteq Mons /\ old.migr \in MonLists
  BY <1>1, LevelSets
<1>5. here \in SUBSET Mons /\ leave \in SUBSET Mons /\ here \cap leave = {}
  BY <1>4
<1>6. \A m \in here \cap Unused(old) :
        /\ dwelling[m] \in Monst /\ dwelling[m].life \in {"live", "dead"}
        /\ dwelling[m].life = "dead" => dwelling[m].isgd
  BY DwellingOK
<1> DEFINE rest == Filter(old.migr, Mons \ (here \cup leave))
           list == SetToSeq(here)
           gone == SetToSeq(leave)
           mons == [m \in Mons |-> there(here, leave, dwelling, m)]
<1>7. list \in MonLists /\ ToSet(list) = here /\ gone \in MonLists /\ ToSet(gone) = leave
  BY <1>5, EnumList
<1>8. rest \in MonLists /\ ToSet(rest) = OnMigr(old) \ (here \cup leave)
  <2>1. rest \in MonLists /\ ToSet(rest) = ToSet(old.migr) \cap (Mons \ (here \cup leave))
    BY <1>4, FilterList
  <2>2. QED BY <1>4, <2>1 DEF OnMigr
<1>9. gone \o rest \in MonLists /\ ToSet(gone \o rest) = leave \cup (OnMigr(old) \ here)
  <2>1. ToSet(gone) \cap ToSet(rest) = {}
    BY <1>7, <1>8
  <2> HIDE DEF gone, rest
  <2>2. gone \o rest \in MonLists /\ ToSet(gone \o rest) = ToSet(gone) \cup ToSet(rest)
    BY <1>7, <1>8, <2>1, JoinList
  <2>3. QED BY <1>5, <1>7, <1>8, <2>2
<1>10. lw = [fmon |-> list, migr |-> gone \o rest, mon |-> mons, purge |-> 0]
  <2>1. Arrived(old, here, leave, dwelling) =
          [fmon |-> list, migr |-> gone \o rest, mon |-> mons, purge |-> old.purge]
    BY DEF Arrived
  <2> HIDE DEF there, list, gone, rest, mons
  <2>2. QED BY <1>1, <1>3, <2>1
<1> DEFINE migr == gone \o rest
<1>11. migr \in MonLists /\ ToSet(migr) = leave \cup (OnMigr(old) \ here)
  BY <1>9
<1>12. lw = [fmon |-> list, migr |-> migr, mon |-> mons, purge |-> 0]
  BY <1>10
<1> HIDE DEF list, gone, rest, migr
<1>13. /\ lw.fmon = list /\ lw.migr = migr /\ lw.mon = mons /\ lw.purge = 0
  <2> HIDE DEF mons
  <2>1. QED BY <1>12
<1>14. ASSUME NEW m \in Mons
       PROVE  /\ mons[m] \in Monst
              /\ m \in here => /\ mons[m].life \in {"live", "dead"}
                               /\ mons[m].life = "dead" => mons[m].isgd
              /\ m \in leave => mons[m].life = "away" /\ ~mons[m].isgd
              /\ m \notin here \cup leave /\ m \in OnList(old) => mons[m] = Nobody
              /\ m \notin here \cup leave /\ m \notin OnList(old) => mons[m] = old.mon[m]
  <2> DEFINE r == old.mon[m]
             t == there(here, leave, dwelling, m)
  <2>1. mons[m] = t
    OBVIOUS
  <2>2. r \in Monst /\ Nobody \in Monst
    BY <1>4 DEF Monst, Nobody
  <2>3. CASE m \in here
    <3>1. t = IF r.life = "free" THEN dwelling[m] ELSE [r EXCEPT !.life = "live"]
      BY <2>3
    <3>2. r.life = "free" => m \in here \cap Unused(old)
      BY <2>3 DEF Unused
    <3>3. [r EXCEPT !.life = "live"] \in Monst /\ [r EXCEPT !.life = "live"].life = "live"
      BY <2>2 DEF Monst
    <3>4. m \notin leave
      BY <1>5, <2>3
    <3> HIDE DEF t, r
    <3>5. QED BY <1>6, <2>1, <2>3, <3>1, <3>2, <3>3, <3>4
  <2>4. CASE m \in leave
    <3>1. m \notin here
      BY <1>5, <2>4
    <3>2. t = [r EXCEPT !.life = "away"]
      BY <2>4, <3>1
    <3>3. ~r.isgd
      <4>1. m \in Movable(old) \/ r.life \in {"free", "away"}
        BY <2>4
      <4>2. m \in Movable(old) => ~r.isgd
        BY DEF Movable
      <4>3. r.life \in {"free", "away"} => ~r.isgd
        BY <1>1 DEF LevelOK
      <4>4. QED BY <4>1, <4>2, <4>3
    <3>4. QED BY <2>1, <2>2, <2>4, <3>1, <3>2, <3>3 DEF Monst
  <2>5. CASE m \notin here \cup leave /\ m \in OnList(old)
    BY <2>1, <2>2, <2>5
  <2>6. CASE m \notin here \cup leave /\ m \notin OnList(old)
    BY <2>1, <2>2, <2>6
  <2>7. QED BY <2>3, <2>4, <2>5, <2>6
<1>15. mons \in [Mons -> Monst]
  <2>1. \A m \in Mons : mons[m] \in Monst
    BY <1>14
  <2>2. mons = [m \in Mons |-> mons[m]]
    OBVIOUS
  <2> HIDE DEF mons
  <2>3. QED BY <2>1, <2>2
<1> HIDE DEF mons
<1>16. lw \in LevelType /\ OnList(lw) = here /\ OnMigr(lw) = leave \cup (OnMigr(old) \ here)
  BY <1>7, <1>11, <1>12, <1>13, <1>15 DEF LevelType, OnList, OnMigr
<1>17. ASSUME NEW m \in Mons
       PROVE  /\ m \in OnList(lw) <=> lw.mon[m].life \in {"live", "dead"}
              /\ m \in OnMigr(lw) <=> lw.mon[m].life = "away"
              /\ m \notin OnList(lw) => ~lw.mon[m].isgd
  <2>1. /\ m \in OnList(old) <=> old.mon[m].life \in {"live", "dead"}
        /\ m \in OnMigr(old) <=> old.mon[m].life = "away"
        /\ m \notin OnList(old) => ~old.mon[m].isgd
    BY <1>1 DEF LevelOK
  <2>2. CASE m \in here
    BY <1>5, <1>13, <1>14, <1>16, <2>2
  <2>3. CASE m \in leave
    BY <1>5, <1>13, <1>14, <1>16, <2>3
  <2>4. CASE m \notin here \cup leave /\ m \in OnList(old)
    BY <1>13, <1>14, <1>16, <2>1, <2>4 DEF Nobody
  <2>5. CASE m \notin here \cup leave /\ m \notin OnList(old)
    BY <1>13, <1>14, <1>16, <2>1, <2>5
  <2>6. QED BY <2>2, <2>3, <2>4, <2>5
<1>18. Purgeable(lw) = {}
  BY <1>5, <1>13, <1>14, <1>16 DEF Purgeable
<1>19. lw.purge = Cardinality(Purgeable(lw))
  BY <1>13, <1>18, FS_EmptySet
<1>20. QED BY <1>16, <1>17, <1>19 DEF LevelOK

\* The rations of a new turn.
Fed(lv, ration) ==
  [lv EXCEPT !.mon = [m \in Mons |->
    IF m \in Living(lv) THEN [lv.mon[m] EXCEPT !.moves = @ + ration[m]] ELSE lv.mon[m]]]

\* The rations of a new turn.
LEMMA FedOK ==
  ASSUME NEW lv, LevelOK(lv), NEW ration \in [Living(lv) -> Rations]
  PROVE  LevelOK(Fed(lv, ration)) /\ Unused(Fed(lv, ration)) = Unused(lv)
<1> DEFINE lw == Fed(lv, ration)
           fed(m) == IF m \in Living(lv) THEN [lv.mon[m] EXCEPT !.moves = @ + ration[m]]
                     ELSE lv.mon[m]
<1>1. /\ lv.fmon \in MonLists /\ lv.migr \in MonLists /\ lv.purge \in Nat
      /\ lv.mon \in [Mons -> Monst] /\ lv \in LevelType
  BY LevelSets DEF LevelOK
<1>2. ASSUME NEW m \in Mons
      PROVE  fed(m) \in Monst /\ fed(m).life = lv.mon[m].life /\ fed(m).isgd = lv.mon[m].isgd
  <2>1. lv.mon[m] \in Monst
    BY <1>1
  <2>2. CASE m \in Living(lv)
    <3>1. ration[m] \in Nat
      BY <2>2, MoveAssumption
    <3>2. QED BY <2>1, <2>2, <3>1 DEF Monst
  <2>3. CASE m \notin Living(lv)
    BY <2>1, <2>3
  <2>4. QED BY <2>2, <2>3
<1>3. lw = [fmon |-> lv.fmon, migr |-> lv.migr, purge |-> lv.purge,
            mon |-> [m \in Mons |-> fed(m)]]
  BY <1>1 DEF LevelType, Fed
<1> HIDE DEF fed, lw
<1>4. /\ lw \in LevelType /\ lw.fmon = lv.fmon /\ lw.migr = lv.migr /\ lw.purge = lv.purge
      /\ \A m \in Mons : lw.mon[m] = fed(m)
  BY <1>1, <1>2, <1>3 DEF LevelType
<1>5. LevelOK(lw)
  BY <1>2, <1>4, SameLives
<1>6. Unused(lw) = Unused(lv)
  BY <1>2, <1>4 DEF Unused
<1>7. QED BY <1>5, <1>6 DEF lw

-----------------------------------------------------------------------------
(* What is done to the walk. *)

\* A pass begins: every monster that is able lies ahead, and nobody came yet.
LEMMA BeginsWalk ==
  ASSUME NEW lv, LevelOK(lv)
  PROVE  WalkAt(lv, First(lv), Able(lv), {}, FALSE)
<1>1. /\ First(lv) \in OnList(lv) \cup {Null}
      /\ \A m \in OnList(lv) : Reaches(lv, First(lv), m)
  BY FirstReaches, LevelSets
<1>2. \A m \in Able(lv) : m \in OnList(lv) /\ lv.mon[m].life = "live"
  BY DEF Able, Living
<1>3. QED BY <1>1, <1>2 DEF WalkAt

\* The walk passes a monster that cannot act.
LEMMA PassesBy ==
  ASSUME NEW lv, LevelOK(lv), NEW k \in OnList(lv), k \notin Able(lv),
         NEW due, NEW came, NEW again, WalkAt(lv, k, due, came, again)
  PROVE  WalkAt(lv, After(lv, k), due, came, again)
<1> DEFINE a == After(lv, k)
<1>1. /\ a \in OnList(lv) \cup {Null}
      /\ \A m : Reaches(lv, k, m) <=> m = k \/ Reaches(lv, a, m)
  BY AfterReaches, LevelSets
<1> HIDE DEF a
<1>2. \A m \in Able(lv) : Reaches(lv, k, m) <=> Reaches(lv, a, m)
  BY <1>1
<1>3. WalkAt(lv, a, due, came, again)
  BY <1>1, <1>2 DEF WalkAt
<1>4. QED BY <1>3 DEF a

\* A monster acts, and the walk goes on with the saved successor.
LEMMA ActsInWalk ==
  ASSUME NEW lv, LevelOK(lv), NEW k \in Able(lv),
         NEW due \in SUBSET Mons, NEW came, NEW again, NEW more, WalkAt(lv, k, due, came, again),
         ~more => ~again /\ ~(lv.mon[k].moves - NormalSpeed >= NormalSpeed)
  PROVE  /\ k \in due /\ LevelOK(Spent(lv, k)) /\ After(lv, k) # k
         /\ WalkAt(Spent(lv, k), After(lv, k), due \ {k}, came, more)
<1> DEFINE a == After(lv, k)
           lw == Spent(lv, k)
<1>1. k \in OnList(lv) /\ OnList(lv) \subseteq Mons
  BY LevelSets
<1>2. /\ a \in OnList(lv) \cup {Null} /\ a # k
      /\ \A m : Reaches(lv, k, m) <=> m = k \/ Reaches(lv, a, m)
      /\ ~Reaches(lv, a, k)
  BY <1>1, AfterReaches, LevelSets
<1> HIDE DEF a
<1>3. k \in due
  BY <1>2 DEF WalkAt
<1>4. /\ LevelOK(lw) /\ lw.fmon = lv.fmon
      /\ \A m \in Mons : lw.mon[m].life = lv.mon[m].life
      /\ \A m \in Mons \ {k} : lw.mon[m] = lv.mon[m]
      /\ lw.mon[k].moves = lv.mon[k].moves - NormalSpeed
  <2>1. k \in Mons /\ lv.mon[k].moves >= NormalSpeed
    BY <1>1 DEF Able
  <2>2. QED BY <2>1, SpentOK
<1> HIDE DEF lw
<1>5. /\ OnList(lw) = OnList(lv) /\ \A i, m : Reaches(lw, i, m) <=> Reaches(lv, i, m)
  BY <1>4 DEF OnList, Reaches
<1>6. \A m \in Mons \ {k} : /\ m \in Living(lw) <=> m \in Living(lv)
                            /\ m \in Able(lw) <=> m \in Able(lv)
  BY <1>4, <1>5 DEF Living, Able
<1>7. Living(lw) \subseteq Mons /\ Able(lw) \subseteq Mons /\ due \cap Living(lw) \subseteq Mons
  BY <1>1, <1>5 DEF Living, Able
<1>8. \A m \in due \ {k} : lw.mon[m].life # "free"
  <2>1. ASSUME NEW m \in due \ {k} PROVE lw.mon[m].life # "free"
    <3>1. lv.mon[m].life # "free"
      BY DEF WalkAt
    <3>2. lw.mon[m] = lv.mon[m]
      BY <1>4
    <3>3. QED BY <3>1, <3>2
  <2>2. QED BY <2>1
<1>9. \A m \in (due \ {k}) \cap Living(lw) : m \in Able(lw) /\ Reaches(lw, a, m)
  BY <1>2, <1>5, <1>6, <1>7 DEF WalkAt
<1>10. \A m \in Able(lw) : Reaches(lw, a, m) => m \in due \ {k}
  BY <1>2, <1>5, <1>6, <1>7 DEF WalkAt
<1>11. ~more => \A m \in Able(lw) : m \in came \/ Reaches(lw, a, m)
  <2>1. ~more => k \notin Able(lw)
    BY <1>4 DEF Able
  <2>2. QED BY <1>2, <1>5, <1>6, <1>7, <2>1 DEF WalkAt
<1>12. WalkAt(lw, a, due \ {k}, came, more)
  BY <1>2, <1>5, <1>8, <1>9, <1>10, <1>11 DEF WalkAt
<1>13. QED BY <1>2, <1>3, <1>4, <1>12 DEF a, lw

\* A new monster is behind the walk.
LEMMA BornInWalk ==
  ASSUME NEW lv, LevelOK(lv), NEW m \in Unused(lv), NEW moves \in Nat, NEW isgd \in BOOLEAN,
         NEW k, NEW due \in SUBSET Mons, NEW came, NEW again, WalkAt(lv, k, due, came, again)
  PROVE  WalkAt(Born(lv, m, moves, isgd), k, due, came \cup {m}, again)
<1> DEFINE lw == Born(lv, m, moves, isgd)
<1>1. /\ LevelOK(lw) /\ m \notin OnList(lv) /\ OnList(lw) = OnList(lv) \cup {m}
      /\ \A j \in Mons \ {m} : lw.mon[j] = lv.mon[j]
      /\ lw.mon[m].life = "live"
      /\ \A i, j : i # m => (Reaches(lw, i, j) <=> Reaches(lv, i, j))
  BY BornOK
<1> HIDE DEF lw
<1>2. OnList(lv) \subseteq Mons /\ m \in Mons /\ lv.mon[m].life = "free" /\ k # m
  BY <1>1, LevelSets, MoveAssumption DEF Unused, WalkAt
<1>3. m \notin due
  BY <1>2 DEF WalkAt
<1>4. \A j : ~Reaches(lw, k, m) /\ (Reaches(lw, k, j) <=> Reaches(lv, k, j))
  <2>1. ~Reaches(lv, k, m)
    BY <1>1, ReachesOnList DEF Reaches, OnList
  <2>2. QED BY <1>1, <1>2, <2>1
<1>5. \A j \in Living(lw) \ {m} : j \in Living(lv) /\ (j \in Able(lw) <=> j \in Able(lv))
  BY <1>1, <1>2 DEF Living, Able
<1>6. Able(lw) \subseteq Living(lw)
  BY DEF Able
<1>7. \A j \in due : lw.mon[j].life # "free"
  BY <1>1, <1>3 DEF WalkAt
<1>8. \A j \in due \cap Living(lw) : j \in Able(lw) /\ Reaches(lw, k, j)
  BY <1>3, <1>4, <1>5 DEF WalkAt
<1>9. \A j \in Able(lw) : Reaches(lw, k, j) => j \in due
  BY <1>4, <1>5, <1>6 DEF WalkAt
<1>10. ~again => \A j \in Able(lw) : j \in came \cup {m} \/ Reaches(lw, k, j)
  BY <1>4, <1>5, <1>6 DEF WalkAt
<1>11. k \in OnList(lw) \cup {Null}
  BY <1>1 DEF WalkAt
<1>12. WalkAt(lw, k, due, came \cup {m}, again)
  BY <1>7, <1>8, <1>9, <1>10, <1>11 DEF WalkAt
<1>13. QED BY <1>12 DEF lw

\* The same list, of which some monsters died or are parked.
LEMMA ThinnedInWalk ==
  ASSUME NEW lv, NEW lw, LevelOK(lv), LevelOK(lw), Thins(lv, lw), lw.fmon = lv.fmon,
         NEW k, NEW due \in SUBSET Mons, NEW came, NEW again, WalkAt(lv, k, due, came, again)
  PROVE  WalkAt(lw, k, due, came, again)
<1>1. OnList(lw) = OnList(lv) /\ \A m \in OnList(lw) : Reaches(lw, k, m) <=> Reaches(lv, k, m)
  BY DEF OnList, Reaches
<1>2. k \in OnList(lw) \cup {Null}
  BY <1>1 DEF WalkAt
<1>3. QED BY <1>1, <1>2, ThinsKeepsWalk

\* The walk stands on another monster than the one that leaves.
LEMMA LeftInWalk ==
  ASSUME NEW lv, LevelOK(lv), NEW m \in Movable(lv), NEW k, k # m,
         NEW due \in SUBSET Mons, NEW came, NEW again, WalkAt(lv, k, due, came, again)
  PROVE  WalkAt(Left(lv, m), k, due, came, again)
<1> DEFINE lw == Left(lv, m)
<1>1. /\ LevelOK(lw) /\ Thins(lv, lw) /\ OnList(lw) = OnList(lv) \ {m}
      /\ \A i, j \in Mons \ {m} : Reaches(lw, i, j) <=> Reaches(lv, i, j)
  BY LeftOK
<1> HIDE DEF lw
<1>2. k \in OnList(lw) \cup {Null} /\ OnList(lw) \subseteq Mons \ {m}
  BY <1>1, LevelSets DEF WalkAt
<1>3. ASSUME NEW j \in OnList(lw) PROVE Reaches(lw, k, j) <=> Reaches(lv, k, j)
  <2>1. CASE k = Null
    <3>1. Null \notin OnList(lw) /\ Null \notin OnList(lv)
      BY <1>1, LevelSets
    <3>2. QED BY <2>1, <3>1, ReachesOnList DEF Reaches, OnList
  <2>2. CASE k # Null
    BY <1>1, <1>2, <2>2
  <2>3. QED BY <2>1, <2>2
<1>4. WalkAt(lw, k, due, came, again)
  BY <1>1, <1>2, <1>3, ThinsKeepsWalk
<1>5. QED BY <1>4 DEF lw

\* The walk goes on, wherever it is, while monsters die, leave or are parked.
LEMMA ThinnedWalks ==
  ASSUME NEW lv, NEW lw, LevelOK(lv), LevelOK(lw), Thins(lv, lw), lw.fmon = lv.fmon,
         NEW k, NEW due \in SUBSET Mons, NEW came, NEW again, NEW how,
         Walks(lv, k, due, came, again, how)
  PROVE  Walks(lw, k, due, came, again, how)
<1>1. how = "whole" => WalkAt(lw, k, due, came, again)
  BY ThinnedInWalk DEF Walks
<1>2. OnMigr(lv) \subseteq OnMigr(lw)
  BY DEF Thins
<1>3. QED BY <1>1, <1>2 DEF Walks

\* The same when one leaves that is not the next, and when one is born.
LEMMA LeftWalks ==
  ASSUME NEW lv, LevelOK(lv), NEW m \in Movable(lv), NEW k, k # m,
         NEW due \in SUBSET Mons, NEW came, NEW again, NEW how,
         Walks(lv, k, due, came, again, how)
  PROVE  Walks(Left(lv, m), k, due, came, again, how)
<1>1. how = "whole" => WalkAt(Left(lv, m), k, due, came, again)
  BY LeftInWalk DEF Walks
<1>2. OnMigr(lv) \subseteq OnMigr(Left(lv, m))
  BY LeftOK DEF Thins
<1>3. QED BY <1>1, <1>2 DEF Walks

LEMMA BornWalks ==
  ASSUME NEW lv, LevelOK(lv), NEW m \in Unused(lv), NEW moves \in Nat, NEW isgd \in BOOLEAN,
         NEW k, NEW due \in SUBSET Mons, NEW came, NEW again, NEW how,
         Walks(lv, k, due, came, again, how)
  PROVE  Walks(Born(lv, m, moves, isgd), k, due, came \cup {m}, again, how)
<1>1. how = "whole" => WalkAt(Born(lv, m, moves, isgd), k, due, came \cup {m}, again)
  BY BornInWalk DEF Walks
<1>2. OnMigr(Born(lv, m, moves, isgd)) = OnMigr(lv)
  BY BornOK
<1>3. QED BY <1>1, <1>2 DEF Walks

\* The walk comes to the next monster of the list it is on.
LEMMA NextWalks ==
  ASSUME NEW lv, LevelOK(lv), NEW k, k # Null, k \notin Able(lv),
         NEW due, NEW came, NEW again, NEW how \in {"whole", "astray", "early"},
         Walks(lv, k, due, came, again, how)
  PROVE  /\ Walks(lv, After(lv, k), due, came, again, how) /\ how # "early"
         /\ k \in Mons /\ lv.mon[k].life # "free"
         /\ After(lv, k) \in Mons \cup {Null} /\ After(lv, k) # k
<1>1. OnList(lv) \subseteq Mons /\ OnMigr(lv) \subseteq Mons
  BY LevelSets
<1>2. CASE how = "whole"
  <2>1. k \in OnList(lv) /\ WalkAt(lv, k, due, came, again)
    BY <1>2 DEF Walks, WalkAt
  <2>2. WalkAt(lv, After(lv, k), due, came, again)
    BY <2>1, PassesBy
  <2>3. After(lv, k) \in OnList(lv) \cup {Null} /\ After(lv, k) # k
    BY <2>1, AfterReaches
  <2>4. lv.mon[k].life # "free"
    BY <1>1, <2>1 DEF LevelOK
  <2>5. QED BY <1>1, <1>2, <2>1, <2>2, <2>3, <2>4 DEF Walks
<1>3. CASE how = "astray"
  <2>1. k \in OnMigr(lv)
    BY <1>3 DEF Walks
  <2>2. After(lv, k) \in OnMigr(lv) \cup {Null} /\ After(lv, k) # k
    BY <2>1, AfterAway
  <2>3. lv.mon[k].life # "free"
    BY <1>1, <2>1 DEF LevelOK
  <2>4. QED BY <1>1, <1>3, <2>1, <2>2, <2>3 DEF Walks
<1>4. QED BY <1>2, <1>3 DEF Walks

\* It is the monster's turn, it pays for it, and it may act once more.
Ready(lv, k) ==
  /\ lv.mon[k].life # "dead" /\ lv.mon[k].moves >= NormalSpeed
  /\ ~(lv.mon[k].isgd /\ lv.mon[k].parked)
ReadyAgain(lv, k) == lv.mon[k].moves - NormalSpeed >= NormalSpeed

\* The walk comes to a monster that acts, and saves the next.
LEMMA ActsWalks ==
  ASSUME NEW lv, LevelOK(lv), NEW k, k # Null, Ready(lv, k),
         NEW due \in SUBSET Mons, NEW came, NEW again, NEW more,
         NEW how \in {"whole", "astray", "early"}, Walks(lv, k, due, came, again, how),
         ~more => ~again /\ ~ReadyAgain(lv, k)
  PROVE  /\ Walks(Spent(lv, k), After(lv, k), due \ {k}, came, more, how) /\ how # "early"
         /\ k \in Mons /\ LevelOK(Spent(lv, k)) /\ Spent(lv, k).mon[k].life # "free"
         /\ After(lv, k) \in Mons \cup {Null} /\ After(lv, k) # k
         /\ how = "whole" => k \in due
<1>1. OnList(lv) \subseteq Mons /\ OnMigr(lv) \subseteq Mons /\ lv.mon \in [Mons -> Monst]
  BY LevelSets
<1>2. k \in OnList(lv) \cup OnMigr(lv)
  BY DEF Walks, WalkAt
<1>3. k \in Mons /\ lv.mon[k].life # "free"
  BY <1>1, <1>2 DEF LevelOK
<1>4. /\ LevelOK(Spent(lv, k)) /\ Spent(lv, k).migr = lv.migr
      /\ Spent(lv, k).mon[k].life = lv.mon[k].life
  BY <1>3, SpentOK DEF Ready
<1>5. CASE how = "whole"
  <2>1. k \in OnList(lv) /\ WalkAt(lv, k, due, came, again)
    BY <1>5 DEF Walks, WalkAt
  <2>2. k \in Able(lv)
    <3>1. lv.mon[k].life = "live"
      BY <1>3, <2>1 DEF LevelOK, Ready
    <3>2. ~lv.mon[k].parked
      BY <1>1, <1>3 DEF Monst, Ready
    <3>3. QED BY <2>1, <3>1, <3>2 DEF Able, Living, Ready
  <2>3. k \in due /\ WalkAt(Spent(lv, k), After(lv, k), due \ {k}, came, more)
    BY <2>1, <2>2, ActsInWalk DEF ReadyAgain
  <2>4. After(lv, k) \in OnList(lv) \cup {Null} /\ After(lv, k) # k
    BY <2>1, AfterReaches
  <2>5. QED BY <1>1, <1>3, <1>4, <1>5, <2>3, <2>4 DEF Walks
<1>6. CASE how = "astray"
  <2>1. k \in OnMigr(lv)
    BY <1>6 DEF Walks
  <2>2. After(lv, k) \in OnMigr(lv) \cup {Null} /\ After(lv, k) # k
    BY <2>1, AfterAway
  <2>3. OnMigr(Spent(lv, k)) = OnMigr(lv)
    BY <1>4 DEF OnMigr
  <2>4. QED BY <1>1, <1>3, <1>4, <1>6, <2>2, <2>3 DEF Walks
<1>7. QED BY <1>5, <1>6 DEF Walks

-----------------------------------------------------------------------------
(* The steps of the game. *)

\* The game begins with the monsters of its first level.
LEMMA InvInit == Init => WalkInv
<1> SUFFICES ASSUME Init PROVE WalkInv
  OBVIOUS
<1>1. PICK S \in SUBSET (Mons \ Guards) :
        level = [fmon |-> SetToSeq(S), migr |-> <<>>, purge |-> 0,
                 mon |-> [m \in Mons |-> IF m \in S THEN [Nobody EXCEPT !.life = "live"]
                                         ELSE Nobody]]
  BY DEF Init
<1>2. S \in SUBSET Mons
  OBVIOUS
<1>3. SetToSeq(S) \in MonLists /\ ToSet(SetToSeq(S)) = S
  BY <1>2, EnumList
<1>3a. <<>> \in MonLists /\ ToSet(<<>>) = {}
  BY EmptyList
<1> DEFINE list == SetToSeq(S)
<1>4. list \in MonLists /\ ToSet(list) = S
  BY <1>3
<1>5. /\ level = [fmon |-> list, migr |-> <<>>, purge |-> 0, mon |-> level.mon]
      /\ level.fmon = list /\ level.migr = <<>> /\ level.purge = 0
      /\ level.mon = [m \in Mons |-> IF m \in S THEN [Nobody EXCEPT !.life = "live"]
                                     ELSE Nobody]
  BY <1>1
<1> HIDE DEF list
<1>6. \A m \in Mons : /\ level.mon[m] \in Monst
                      /\ level.mon[m].life = IF m \in S THEN "live" ELSE "free"
                      /\ ~level.mon[m].isgd
  <2>1. Nobody \in Monst /\ Nobody.life = "free" /\ ~Nobody.isgd
    BY DEF Monst, Nobody
  <2>2. [Nobody EXCEPT !.life = "live"] \in Monst /\ [Nobody EXCEPT !.life = "live"].life = "live"
        /\ ~[Nobody EXCEPT !.life = "live"].isgd
    BY DEF Monst, Nobody
  <2>3. QED BY <1>5, <2>1, <2>2
<1>7. level.mon \in [Mons -> Monst]
  BY <1>5, <1>6
<1>8. level \in LevelType /\ OnList(level) = S /\ OnMigr(level) = {}
  BY <1>3a, <1>4, <1>5, <1>7 DEF LevelType, OnList, OnMigr
<1>9. Purgeable(level) = {}
  BY <1>2, <1>6, <1>8 DEF Purgeable
<1>10. level.purge = Cardinality(Purgeable(level))
  BY <1>5, <1>9, FS_EmptySet
<1>11. LevelOK(level)
  BY <1>6, <1>8, <1>10 DEF LevelOK
<1>12. LoopOK /\ WalkOK /\ TurnOK
  BY DEF Init, LoopOK, WalkOK, TurnOK, Places
<1>13. HeroOK
  BY MoveAssumption DEF Init, HeroOK
<1>14. QED BY <1>11, <1>12, <1>13 DEF WalkInv

\* A call of movemon begins with the whole list ahead.
LEMMA PassBegins ==
  ASSUME LoopOK, NEW lv, LevelOK(lv), level' = lv, BeginPass(lv), goto' = goto
  PROVE  LoopOK' /\ WalkOK' /\ TurnOK' /\ at' = "pass"
<1>1. /\ at' = "pass" /\ cur' = First(lv) /\ nmtmp' = Null /\ scan' = FALSE
      /\ owed' = Able(lv) /\ late' = {} /\ walk' = "whole"
  BY DEF BeginPass
<1>2. WalkAt(level', cur', owed', late', scan')
  BY <1>1, BeginsWalk
<1>3. OnList(lv) \subseteq Mons /\ Able(lv) \subseteq Mons
  BY LevelSets
<1>4. cur' \in Mons \cup {Null}
  BY <1>2, <1>3 DEF WalkAt
<1>5. LoopOK'
  BY <1>1, <1>3, <1>4 DEF LoopOK, Places
<1>6. Cursor' = cur'
  BY <1>1 DEF Cursor
<1>7. WalkOK' /\ TurnOK'
  BY <1>1, <1>2, <1>6 DEF WalkOK, Walks, TurnOK
<1>8. QED BY <1>1, <1>5, <1>7

\* What a state of the walk says, with the sets of its level.
LEMMA InWalk ==
  ASSUME WalkInv, at \in {"pass", "act"}
  PROVE  /\ Walks(level, Cursor, owed, late, scan, walk) /\ (walk = "early" => at = "pass")
         /\ walk \in {"whole", "astray", "early"}
         /\ owed \in SUBSET Mons /\ LevelOK(level)
<1>1. Walks(level, Cursor, owed, late, scan, walk) /\ (walk = "early" => at = "pass")
  BY DEF WalkInv, WalkOK
<1>2. walk \in {"whole", "astray", "early"} /\ owed \in SUBSET Mons /\ LevelOK(level)
  BY DEF WalkInv, LoopOK
<1>3. QED BY <1>1, <1>2

\* The steps of a pass between two moves.
LEMMA PassStep ==
  ASSUME WalkInv, BeginGuard \/ Skip \/ BeginAct
  PROVE  WalkInv'
<1>1. at = "pass" /\ cur # Null /\ UNCHANGED <<hero, goto, late, walk>>
  BY DEF BeginGuard, Skip, BeginAct, InPass, seen
<1>2. /\ Walks(level, cur, owed, late, scan, walk) /\ LevelOK(level) /\ owed \in SUBSET Mons
      /\ walk \in {"whole", "astray", "early"}
  BY <1>1, InWalk DEF Cursor
<1>3. HeroOK'
  <2>1. at' \in {"pass", "act"}
    BY <1>1 DEF BeginGuard, Skip, BeginAct
  <2>2. QED BY <1>1, <2>1 DEF WalkInv, HeroOK, hero
<1>4. CASE BeginGuard \/ Skip
  <2>1. level' = level /\ scan' = scan /\ owed' = owed /\ late' = late /\ walk' = walk
    BY <1>4 DEF BeginGuard, Skip, seen
  <2>2. cur \notin Able(level)
    BY <1>4 DEF BeginGuard, Skip, GuardTurn, CanAct, Able, Living
  <2>3. /\ Walks(level, After(level, cur), owed, late, scan, walk) /\ walk # "early"
        /\ cur \in Mons /\ level.mon[cur].life # "free"
        /\ After(level, cur) \in Mons \cup {Null} /\ After(level, cur) # cur
    BY <1>1, <1>2, <2>2, NextWalks
  <2>4. \/ at' = "act" /\ cur' = cur /\ nmtmp' = After(level, cur)
        \/ at' = "pass" /\ cur' = After(level, cur) /\ nmtmp' = nmtmp
    BY <1>1, <1>4 DEF BeginGuard, Skip
  <2>5. Cursor' = After(level, cur)
    BY <2>4 DEF Cursor
  <2>6. LoopOK'
    BY <1>1, <2>1, <2>3, <2>4 DEF WalkInv, LoopOK, Places
  <2>7. WalkOK' /\ TurnOK'
    BY <2>1, <2>3, <2>4, <2>5 DEF WalkOK, TurnOK
  <2>8. QED BY <1>2, <1>3, <2>1, <2>6, <2>7 DEF WalkInv
<1>5. CASE BeginAct
  <2>1. /\ level' = Spent(level, cur) /\ scan' = (scan \/ CanMoveAgain(cur))
        /\ nmtmp' = After(level, cur) /\ at' = "act" /\ owed' = owed \ {cur} /\ cur' = cur
        /\ goto' = goto /\ late' = late /\ walk' = walk
    BY <1>5 DEF BeginAct, Rescan, Spent
  <2>2. Ready(level, cur)
    BY <1>5 DEF BeginAct, GuardTurn, CanAct, Ready
  <2>3. ~scan' => ~scan /\ ~ReadyAgain(level, cur)
    BY <2>1 DEF CanMoveAgain, ReadyAgain
  <2>4. /\ Walks(Spent(level, cur), After(level, cur), owed \ {cur}, late, scan', walk)
        /\ walk # "early" /\ cur \in Mons /\ LevelOK(Spent(level, cur))
        /\ Spent(level, cur).mon[cur].life # "free"
        /\ After(level, cur) \in Mons \cup {Null} /\ After(level, cur) # cur
    BY <1>1, <1>2, <2>2, <2>3, ActsWalks
  <2>5. scan' \in BOOLEAN
    BY <2>1
  <2>6. LoopOK'
    BY <1>1, <1>2, <2>1, <2>4, <2>5 DEF WalkInv, LoopOK, Places
  <2>7. Cursor' = After(level, cur)
    BY <2>1 DEF Cursor
  <2>8. WalkOK' /\ TurnOK'
    BY <2>1, <2>4, <2>7 DEF WalkOK, TurnOK
  <2>9. QED BY <1>3, <2>1, <2>4, <2>6, <2>8 DEF WalkInv
<1>6. QED BY <1>4, <1>5

\* What happens while a monster acts.
LEMMA ActStep ==
  ASSUME WalkInv, at = "act",
         \/ ActKill \/ ActSpawn \/ ActLeave \/ ActLimbo \/ ActPark \/ GuardGone \/ ActEnds
         \/ Nomul
  PROVE  WalkInv'
<1>1. UNCHANGED <<movement, form, goto, scan>> /\ owed' = owed
  BY DEF ActKill, ActSpawn, ActLeave, ActLimbo, ActPark, GuardGone, ActEnds, Nomul, loop, hero, seen
<1>2. /\ Walks(level, nmtmp, owed, late, scan, walk) /\ LevelOK(level) /\ owed \in SUBSET Mons
      /\ walk \in {"whole", "astray"}
  BY InWalk DEF Cursor
<1>3. cur \in Mons /\ nmtmp # cur /\ level.mon[cur].life # "free" /\ LoopOK
  BY DEF WalkInv, LoopOK
<1>4. HeroOK'
  <2>1. multi' \in (-MaxHelpless) .. MaxHelpless
    <3>1. multi' = multi \/ multi' \in (-MaxHelpless) .. 0
      BY DEF ActKill, ActSpawn, ActLeave, ActLimbo, ActPark, GuardGone, ActEnds, Nomul, hero
    <3>2. MaxHelpless \in Nat /\ multi \in (-MaxHelpless) .. MaxHelpless
      BY MoveAssumption DEF WalkInv, HeroOK
    <3>3. QED BY <3>1, <3>2
  <2>2. at' \in {"act", "pass"}
    BY DEF ActKill, ActSpawn, ActLeave, ActLimbo, ActPark, GuardGone, ActEnds, Nomul, loop
  <2>3. QED BY <1>1, <2>1, <2>2 DEF WalkInv, HeroOK
<1>5. CASE /\ UNCHANGED loop /\ LevelOK(level') /\ level'.mon[cur].life # "free"
           /\ late' \subseteq Mons /\ walk' \in {"whole", "astray"}
           /\ Walks(level', nmtmp, owed, late', scan, walk')
  <2>1. at' = at /\ cur' = cur /\ nmtmp' = nmtmp /\ scan' = scan
    BY <1>5 DEF loop
  <2>2. LoopOK'
    BY <1>1, <1>2, <1>3, <1>5, <2>1 DEF LoopOK, Places
  <2>3. Cursor' = nmtmp
    BY <2>1 DEF Cursor
  <2>4. WalkOK' /\ TurnOK'
    BY <1>1, <1>5, <2>1, <2>3 DEF WalkOK, TurnOK
  <2>5. QED BY <1>4, <1>5, <2>2, <2>4 DEF WalkInv
<1>6. CASE /\ UNCHANGED loop /\ late' = late /\ walk' = walk
           /\ LevelOK(level') /\ Thins(level, level') /\ level'.fmon = level.fmon
  <2>1. level'.mon[cur].life # "free"
    BY <1>3, <1>6 DEF Thins
  <2>2. Walks(level', nmtmp, owed, late', scan, walk')
    BY <1>2, <1>6, ThinnedWalks
  <2>3. late' \subseteq Mons
    BY <1>3, <1>6 DEF LoopOK
  <2>4. QED BY <1>2, <1>5, <1>6, <2>1, <2>2, <2>3
<1>7. CASE /\ cur' = nmtmp /\ nmtmp' = Null /\ at' = "pass" /\ late' = late /\ walk' = walk
           /\ LevelOK(level') /\ Walks(level', nmtmp, owed, late, scan, walk)
  <2>1. LoopOK'
    BY <1>1, <1>2, <1>3, <1>7 DEF LoopOK, Places
  <2>2. Cursor' = nmtmp
    BY <1>7 DEF Cursor
  <2>3. WalkOK' /\ TurnOK'
    BY <1>1, <1>7, <2>2 DEF WalkOK, TurnOK
  <2>4. QED BY <1>4, <1>7, <2>1, <2>3 DEF WalkInv
<1>8. CASE ActKill
  <2>1. PICK m \in Living(level) : level' \in Deaths(level, m)
    BY <1>8 DEF ActKill
  <2>2. LevelOK(level') /\ Thins(level, level') /\ level'.fmon = level.fmon
    BY <1>2, <2>1, DeathsOK
  <2>3. UNCHANGED loop /\ late' = late /\ walk' = walk
    BY <1>8 DEF ActKill, seen
  <2>4. QED BY <1>6, <2>2, <2>3
<1>9. CASE ActSpawn
  <2>1. PICK m \in Makable(level), moves \in {0, level.mon[cur].moves} :
          level' = Born(level, m, moves, FALSE) /\ late' = late \cup {m}
    BY <1>9 DEF ActSpawn
  <2>2. m \in Unused(level) /\ m \in Mons /\ m # cur
    BY <1>3 DEF Makable, Unused
  <2>3. moves \in Nat
    <3>1. level.mon[cur] \in Monst
      BY <1>2, <1>3, LevelSets
    <3>2. QED BY <2>1, <3>1 DEF Monst
  <2>4. LevelOK(level') /\ level'.mon[cur] = level.mon[cur]
    <3>1. PICK isgd \in BOOLEAN : isgd = FALSE
      OBVIOUS
    <3>2. /\ LevelOK(Born(level, m, moves, isgd))
          /\ \A k \in Mons \ {m} : Born(level, m, moves, isgd).mon[k] = level.mon[k]
      BY <1>2, <2>2, <2>3, BornOK
    <3>3. level' = Born(level, m, moves, isgd)
      BY <2>1, <3>1
    <3>4. QED BY <1>3, <2>2, <3>2, <3>3, Zenon
  <2>5. Walks(level', nmtmp, owed, late', scan, walk)
    BY <1>2, <2>1, <2>2, <2>3, BornWalks
  <2>6. UNCHANGED loop /\ walk' = walk /\ late' \subseteq Mons
    BY <1>3, <1>9, <2>1, <2>2 DEF ActSpawn, LoopOK
  <2>7. QED BY <1>2, <1>3, <1>5, <2>4, <2>5, <2>6
<1>10. CASE ActLeave
  <2>1. /\ cur \in Movable(level) /\ level' = Left(level, cur)
        /\ cur' = nmtmp /\ nmtmp' = Null /\ at' = "pass" /\ late' = late /\ walk' = walk
    BY <1>10 DEF ActLeave, seen
  <2>2. LevelOK(level')
    BY <1>2, <2>1, LeftOK
  <2>3. Walks(level', nmtmp, owed, late, scan, walk)
    BY <1>2, <1>3, <2>1, LeftWalks
  <2>4. QED BY <1>7, <2>1, <2>2, <2>3
<1>11. CASE ActLimbo
  <2>1. PICK m \in Movable(level) \ {cur} :
          level' = Left(level, m) /\ walk' = IF m = nmtmp THEN "astray" ELSE walk
    BY <1>11 DEF ActLimbo
  <2>2. UNCHANGED loop /\ late' = late /\ late' \subseteq Mons
    BY <1>3, <1>11 DEF ActLimbo, LoopOK
  <2>3. LevelOK(level') /\ Thins(level, level') /\ m \in OnMigr(level')
    BY <1>2, <2>1, LeftOK
  <2>4. level'.mon[cur].life # "free"
    BY <1>3, <2>3 DEF Thins
  <2>5. CASE m = nmtmp
    <3>1. walk' = "astray" /\ nmtmp \in OnMigr(level')
      BY <2>1, <2>3, <2>5
    <3>2. Walks(level', nmtmp, owed, late', scan, walk')
      BY <3>1 DEF Walks
    <3>3. QED BY <1>5, <2>2, <2>3, <2>4, <3>1, <3>2
  <2>6. CASE m # nmtmp
    <3>1. walk' = walk
      BY <2>1, <2>6
    <3>2. Walks(level', nmtmp, owed, late', scan, walk')
      BY <1>2, <2>1, <2>2, <2>6, <3>1, LeftWalks
    <3>3. QED BY <1>2, <1>5, <2>2, <2>3, <2>4, <3>1, <3>2
  <2>7. QED BY <2>5, <2>6
<1>12. CASE ActPark
  <2>1. /\ level' = Waiting(level, cur) /\ level.mon[cur].isgd
        /\ UNCHANGED loop /\ late' = late /\ walk' = walk
    BY <1>12 DEF ActPark, Waiting, seen
  <2>2. cur \in OnList(level)
    BY <1>2, <1>3, <2>1 DEF LevelOK
  <2>2a. level.mon[cur].isgd = TRUE
    BY <1>2, <1>3, <2>1, LevelSets DEF Monst
  <2>3. LevelOK(level') /\ level'.fmon = level.fmon /\ Thins(level, level')
    BY <1>2, <2>1, <2>2, <2>2a, WaitingOK
  <2>4. QED BY <1>6, <2>1, <2>3
<1>13. CASE GuardGone
  <2>1. /\ level' = Detached(level, cur) /\ level.mon[cur].isgd
        /\ UNCHANGED loop /\ late' = late /\ walk' = walk
    BY <1>13 DEF GuardGone, GuardTurn, seen
  <2>2. cur \in OnList(level) \ Purgeable(level)
    BY <1>2, <1>3, <2>1 DEF LevelOK, Purgeable
  <2>3. LevelOK(level') /\ level'.fmon = level.fmon /\ Thins(level, level')
    BY <1>2, <2>1, <2>2, DetachedOK
  <2>4. QED BY <1>6, <2>1, <2>3
<1>14. CASE ActEnds
  <2>1. /\ level' = level /\ cur' = nmtmp /\ nmtmp' = Null /\ at' = "pass"
        /\ late' = late /\ walk' = walk
    BY <1>14 DEF ActEnds, seen
  <2>2. QED BY <1>2, <1>7, <2>1
<1>15. CASE Nomul
  <2>1. level' = level /\ UNCHANGED loop /\ late' = late /\ walk' = walk
    BY <1>15 DEF Nomul, seen
  <2>2. LevelOK(level') /\ Thins(level, level') /\ level'.fmon = level.fmon
    BY <1>2, <2>1 DEF Thins
  <2>3. QED BY <1>6, <2>1, <2>2
<1>16. QED BY <1>8, <1>9, <1>10, <1>11, <1>12, <1>13, <1>14, <1>15

\* The end of a pass.
LEMMA EndStep ==
  ASSUME WalkInv, EndPassGoto \/ EndPassStay \/ EndPass
  PROVE  WalkInv'
<1>1. at = "pass" /\ UNCHANGED hero
  BY DEF EndPassGoto, EndPassStay, EndPass
<1>2. Walks(level, cur, owed, late, scan, walk) /\ LevelOK(level)
  BY <1>1, InWalk DEF Cursor
<1> DEFINE lv == Purged(level)
<1>3. LevelOK(lv) /\ Able(lv) = Able(level)
  BY <1>2, PurgedOK
<1> HIDE DEF lv
<1>4. /\ movement' = movement /\ multi' = multi /\ form' = form
      /\ movement \in Nat /\ multi \in (-MaxHelpless) .. MaxHelpless /\ form \in 0 .. MaxForm
      /\ LoopOK
  BY <1>1 DEF WalkInv, HeroOK, hero
<1>5. CASE EndPassGoto \/ EndPassStay
  <2>1. level' \in Arrivals(lv) \/ level' = lv
    BY <1>5 DEF EndPassGoto, EndPassStay, lv
  <2>2. LevelOK(level')
    BY <1>3, <2>1, ArrivalsOK
  <2>3. OnList(level') \subseteq Mons /\ Able(level') \subseteq OnList(level')
        /\ Null \notin OnList(level')
    BY <2>2, LevelSets
  <2>4. /\ goto' = FALSE /\ at' = "pass" /\ nmtmp' = nmtmp /\ cur' = Null /\ scan' = FALSE
        /\ \/ walk' = walk /\ owed' = {} /\ late' = OnList(level')
           \/ walk' = "early" /\ owed' = owed /\ late' = late
    BY <1>1, <1>5 DEF EndPassGoto, EndPassStay
  <2>5. Walks(level', Null, owed', late', scan', walk')
    <3>1. \A m \in Able(level') : ~Reaches(level', Null, m)
      BY <2>3, ReachesOnList DEF Reaches, OnList
    <3>2. CASE walk' = "early"
      BY <3>2 DEF Walks
    <3>3. CASE owed' = {} /\ late' = OnList(level')
      BY <2>3, <3>1, <3>3 DEF Walks, WalkAt
    <3>4. QED BY <2>4, <3>2, <3>3
  <2>6. LoopOK'
    BY <1>4, <2>3, <2>4 DEF LoopOK, Places
  <2>7. HeroOK'
    BY <1>4, <2>4 DEF HeroOK
  <2>8. Cursor' = Null
    BY <2>4 DEF Cursor
  <2>9. WalkOK' /\ TurnOK'
    BY <2>4, <2>5, <2>8 DEF WalkOK, TurnOK
  <2>10. QED BY <2>2, <2>6, <2>7, <2>9 DEF WalkInv
<1>6. CASE EndPass
  <2>1. level' = lv /\ cur = Null /\ goto' = goto
    BY <1>6 DEF EndPass, lv
  <2>2. CASE movement >= NormalSpeed /\ At("play", {}, "whole")
    <3>1. LoopOK' /\ HeroOK' /\ WalkOK' /\ TurnOK'
      BY <1>4, <2>1, <2>2 DEF At, LoopOK, HeroOK, WalkOK, TurnOK, Places
    <3>2. QED BY <1>3, <2>1, <3>1 DEF WalkInv
  <2>3. CASE BeginPass(lv)
    <3>1. LoopOK' /\ WalkOK' /\ TurnOK' /\ at' = "pass"
      BY <1>3, <1>4, <2>1, <2>3, PassBegins
    <3>2. HeroOK'
      BY <1>4, <3>1 DEF HeroOK
    <3>3. QED BY <1>3, <2>1, <3>1, <3>2 DEF WalkInv
  <2>4. CASE movement < NormalSpeed /\ ~scan /\ At("turn", late, walk)
    <3>1. walk = "whole" => Able(level') \subseteq late
      <4>1. walk = "whole" => \A m \in Able(level) : m \in late \/ Reaches(level, Null, m)
        BY <1>2, <2>1, <2>4 DEF Walks, WalkAt
      <4>2. Null \notin OnList(level)
        BY <1>2, LevelSets
      <4>3. \A m : ~Reaches(level, Null, m)
        BY <4>2, ReachesOnList DEF Reaches, OnList
      <4>4. QED BY <1>3, <2>1, <4>1, <4>3
    <3>2. LoopOK' /\ HeroOK' /\ WalkOK'
      BY <1>4, <2>1, <2>4 DEF At, LoopOK, HeroOK, WalkOK, Places
    <3>3. TurnOK'
      BY <1>4, <2>4, <3>1 DEF At, TurnOK
    <3>4. QED BY <1>3, <2>1, <3>2, <3>3 DEF WalkInv
  <2>5. QED BY <1>6, <2>1, <2>2, <2>3, <2>4 DEF EndPass, lv
<1>7. QED BY <1>5, <1>6

\* What the load leaves of an amount is an amount.
LEMMA BurdenedNat ==
  ASSUME NEW amt \in Nat, NEW wtcap \in 0 .. 4
  PROVE  Burdened(amt, wtcap) \in Nat
<1>1. CASE wtcap = 0
  BY <1>1 DEF Burdened
<1>2. CASE wtcap = 1
  BY <1>2 DEF Burdened
<1>3. CASE wtcap = 2
  BY <1>3 DEF Burdened
<1>4. CASE wtcap = 3
  BY <1>4 DEF Burdened
<1>5. CASE wtcap = 4
  BY <1>5 DEF Burdened
<1>6. QED BY <1>1, <1>2, <1>3, <1>4, <1>5

\* A new turn, and the ration of the hero.
LEMMA TurnStep ==
  ASSUME WalkInv, Turn \/ Ration \/ Tick
  PROVE  WalkInv'
<1>1. /\ LevelOK(level) /\ LoopOK /\ HeroOK
      /\ movement \in Nat /\ multi \in (-MaxHelpless) .. MaxHelpless /\ form \in 0 .. MaxForm
  BY DEF WalkInv, HeroOK
<1>2. CASE Turn
  <2>1. /\ at = "turn" /\ at' = "ration" /\ late' = {} /\ walk' = "whole"
        /\ UNCHANGED <<cur, nmtmp, scan, hero, goto, owed>>
    BY <1>2 DEF Turn
  <2>2. PICK lv \in {level} \cup (UNION {Deaths(level, m) : m \in Living(level)})
                    \cup {Left(level, m) : m \in Movable(level)} :
          \E ration \in [Living(lv) -> Rations] :
            level' \in {Fed(lv, ration)} \cup
                         {Born(Fed(lv, ration), m, 0, FALSE) : m \in Makable(Fed(lv, ration))}
    BY <1>2 DEF Turn, Fed
  <2>3. LevelOK(lv)
    <3>1. CASE lv = level
      BY <1>1, <3>1
    <3>2. CASE \E m \in Living(level) : lv \in Deaths(level, m)
      BY <1>1, <3>2, DeathsOK
    <3>3. CASE \E m \in Movable(level) : lv = Left(level, m)
      BY <1>1, <3>3, LeftOK
    <3>4. \/ lv = level \/ lv \in UNION {Deaths(level, m) : m \in Living(level)}
          \/ lv \in {Left(level, m) : m \in Movable(level)}
      OBVIOUS
    <3>5. CASE lv \in UNION {Deaths(level, m) : m \in Living(level)}
      <4>1. \E m \in Living(level) : lv \in Deaths(level, m)
        BY <3>5
      <4>2. QED BY <3>2, <4>1
    <3>6. CASE lv \in {Left(level, m) : m \in Movable(level)}
      <4>1. \E m \in Movable(level) : lv = Left(level, m)
        BY <3>6
      <4>2. QED BY <3>3, <4>1
    <3>7. QED BY <3>1, <3>4, <3>5, <3>6
  <2>4. PICK ration \in [Living(lv) -> Rations] :
          level' \in {Fed(lv, ration)} \cup
                       {Born(Fed(lv, ration), m, 0, FALSE) : m \in Makable(Fed(lv, ration))}
    BY <2>2
  <2>5. LevelOK(level')
    <3>1. LevelOK(Fed(lv, ration))
      BY <2>3, FedOK
    <3>2. CASE level' = Fed(lv, ration)
      BY <3>1, <3>2
    <3>3. CASE \E m \in Makable(Fed(lv, ration)) : level' = Born(Fed(lv, ration), m, 0, FALSE)
      <4>1. PICK m \in Makable(Fed(lv, ration)) : level' = Born(Fed(lv, ration), m, 0, FALSE)
        BY <3>3
      <4>2. m \in Unused(Fed(lv, ration))
        BY DEF Makable
      <4>3. LevelOK(Born(Fed(lv, ration), m, 0, FALSE))
        BY <3>1, <4>2, BornOK
      <4>4. QED BY <4>1, <4>3
    <3>4. QED BY <2>4, <3>2, <3>3
  <2>6. LoopOK' /\ HeroOK' /\ WalkOK' /\ TurnOK'
    BY <1>1, <2>1 DEF LoopOK, HeroOK, WalkOK, TurnOK, Places, hero
  <2>7. QED BY <2>5, <2>6 DEF WalkInv
<1>3. CASE Ration
  <2> DEFINE amounts == IF form > 0 THEN {0} ELSE Speeds \cup Rations
  <2>1. amounts \subseteq Nat
    BY MoveAssumption
  <2>2. Rationed(amounts)
    BY <1>3 DEF Ration
  <2> HIDE DEF amounts
  <2>3. PICK amt \in amounts, wtcap \in Loads : movement' = movement + Burdened(amt, wtcap)
    BY <2>2 DEF Rationed
  <2>4. wtcap \in 0 .. 4
    BY <2>3, MoveAssumption
  <2>5. Burdened(amt, wtcap) \in Nat
    BY <2>1, <2>3, <2>4, BurdenedNat
  <2>6. movement' \in Nat
    BY <1>1, <2>3, <2>5
  <2>7. /\ at = "ration" /\ at' = "tick"
        /\ UNCHANGED <<level, cur, nmtmp, scan, multi, form, goto, owed, late, walk>>
    BY <2>2 DEF Rationed, seen
  <2>8. LoopOK' /\ HeroOK' /\ WalkOK' /\ TurnOK'
    BY <1>1, <2>6, <2>7 DEF LoopOK, HeroOK, WalkOK, TurnOK, Places
  <2>9. QED BY <1>1, <2>7, <2>8 DEF WalkInv
<1>4. CASE Tick
  <2>1. level' = level /\ movement' = movement /\ goto' = goto
    BY <1>4 DEF Tick
  <2>2. form' \in 0 .. MaxForm
    BY <1>1, <1>4, MoveAssumption DEF Tick, Expired
  <2>3. multi' \in (-MaxHelpless) .. MaxHelpless
    BY <1>1, <1>4, MoveAssumption DEF Tick, Recover
  <2>4. CASE BeginPass(level)
    <3>1. LoopOK' /\ WalkOK' /\ TurnOK' /\ at' = "pass"
      BY <1>1, <2>1, <2>4, PassBegins
    <3>2. HeroOK'
      BY <1>1, <2>1, <2>2, <2>3, <3>1 DEF HeroOK
    <3>3. QED BY <1>1, <2>1, <3>1, <3>2 DEF WalkInv
  <2>5. CASE movement >= NormalSpeed /\ At("play", {}, "whole")
    <3>1. LoopOK' /\ HeroOK' /\ WalkOK' /\ TurnOK'
      BY <1>1, <2>1, <2>2, <2>3, <2>5 DEF At, LoopOK, HeroOK, WalkOK, TurnOK, Places
    <3>2. QED BY <1>1, <2>1, <3>1 DEF WalkInv
  <2>6. QED BY <1>4, <2>4, <2>5 DEF Tick
<1>5. QED BY <1>2, <1>3, <1>4

\* What the hero does, and what happens meanwhile.
LEMMA HeroStep ==
  ASSUME WalkInv,
         \/ Rhack \/ Continue \/ Helpless \/ (Nomul /\ at # "act") \/ Event \/ GotoLevel \/ Pay
  PROVE  WalkInv'
<1>1. /\ LevelOK(level) /\ LoopOK /\ HeroOK
      /\ movement \in Nat /\ multi \in (-MaxHelpless) .. MaxHelpless /\ form \in 0 .. MaxForm
      /\ MaxHelpless \in Nat /\ MaxForm \in Nat /\ NormalSpeed \in Nat
  BY MoveAssumption DEF WalkInv, HeroOK
<1>2. CASE /\ LevelOK(level') /\ UNCHANGED <<cur, nmtmp, scan, movement, owed, late, walk>>
           /\ goto' \in BOOLEAN
           /\ multi' \in (-MaxHelpless) .. MaxHelpless /\ form' \in 0 .. MaxForm
           /\ \/ at \in {"play", "command", "occupation"} /\ at' \in {"command", "occupation"}
              \/ at = "tick" /\ at' = "tick"
  <2>1. LoopOK' /\ HeroOK' /\ WalkOK' /\ TurnOK'
    BY <1>1, <1>2 DEF LoopOK, HeroOK, WalkOK, TurnOK, Places
  <2>2. QED BY <1>2, <2>1 DEF WalkInv
<1>3. CASE Rhack
  <2>1. /\ LevelOK(level') /\ UNCHANGED <<cur, nmtmp, scan, movement, owed, late, walk>>
        /\ goto' \in BOOLEAN /\ at = "play" /\ at' = "command"
    BY <1>1, <1>3 DEF Rhack, AtPrompt, LoopOK, seen
  <2>2. multi' \in (-MaxHelpless) .. MaxHelpless /\ form' \in 0 .. MaxForm
    BY <1>1, <1>3 DEF Rhack
  <2>3. QED BY <1>2, <2>1, <2>2
<1>4. CASE Continue
  <2>1. /\ LevelOK(level') /\ UNCHANGED <<cur, nmtmp, scan, movement, owed, late, walk>>
        /\ goto' \in BOOLEAN /\ at = "play" /\ at' \in {"command", "occupation"}
    BY <1>1, <1>4 DEF Continue, LoopOK, seen
  <2>2. multi' \in (-MaxHelpless) .. MaxHelpless /\ form' \in 0 .. MaxForm
    BY <1>1, <1>4 DEF Continue
  <2>3. QED BY <1>2, <2>1, <2>2
<1>5. CASE Helpless
  <2>1. /\ LevelOK(level') /\ UNCHANGED <<cur, nmtmp, scan, movement, owed, late, walk>>
        /\ goto' \in BOOLEAN /\ at = "play" /\ at' = "command"
        /\ multi' = multi /\ form' = form
    BY <1>1, <1>5 DEF Helpless, LoopOK, hero, seen
  <2>2. QED BY <1>1, <1>2, <2>1
<1>6. CASE Nomul /\ at # "act"
  <2>1. /\ LevelOK(level') /\ UNCHANGED <<cur, nmtmp, scan, movement, owed, late, walk>>
        /\ goto' \in BOOLEAN /\ at \in {"tick", "command", "occupation"} /\ at' = at
        /\ form' = form
    BY <1>1, <1>6 DEF Nomul, Acting, LoopOK, loop, seen
  <2>2. multi' \in (-MaxHelpless) .. MaxHelpless
    BY <1>1, <1>6 DEF Nomul
  <2>3. QED BY <1>1, <1>2, <2>1, <2>2
<1>7. CASE Event
  <2>1. /\ UNCHANGED <<cur, nmtmp, scan, movement, owed, late, walk, at, multi, form, goto>>
        /\ at \in {"tick", "command", "occupation"}
    BY <1>7 DEF Event, loop, hero, seen
  <2>2. LevelOK(level')
    <3>1. CASE \E m \in Living(level) : level' \in Deaths(level, m)
      BY <1>1, <3>1, DeathsOK
    <3>2. CASE \E m \in Unused(level), isgd \in BOOLEAN : level' = Born(level, m, 0, isgd)
      <4>1. PICK m \in Unused(level), isgd \in BOOLEAN : level' = Born(level, m, 0, isgd)
        BY <3>2
      <4>2. LevelOK(Born(level, m, 0, isgd))
        BY <1>1, BornOK
      <4>3. QED BY <4>1, <4>2
    <3>3. CASE \E m \in Movable(level) : level' = Left(level, m)
      BY <1>1, <3>3, LeftOK
    <3>4. CASE \E m \in OnMigr(level) : level' = Back(level, m)
      BY <1>1, <3>4, BackOK
    <3>5. QED BY <1>7, <3>1, <3>2, <3>3, <3>4, Zenon DEF Event, Makable, OnMigr
  <2>3. goto' \in BOOLEAN
    BY <1>1, <2>1 DEF LoopOK
  <2>4. QED BY <1>1, <1>2, <2>1, <2>2, <2>3
<1>8. CASE GotoLevel
  <2>1. /\ UNCHANGED <<cur, nmtmp, scan, movement, owed, late, walk, at, multi, form>>
        /\ goto' \in BOOLEAN /\ at \in {"tick", "command", "occupation"}
        /\ level' \in Arrivals(level) \cup {level}
    BY <1>8 DEF GotoLevel, loop, hero, seen
  <2>2. LevelOK(level')
    BY <1>1, <2>1, ArrivalsOK
  <2>3. QED BY <1>1, <1>2, <2>1, <2>2
<1>9. CASE Pay
  <2>1. /\ level' = level /\ multi' = multi /\ form' = form /\ goto' = goto
        /\ at \in {"command", "occupation"}
    BY <1>9 DEF Pay
  <2>2. CASE movement' = movement - NormalSpeed /\ BeginPass(level)
    <3>1. movement' \in Nat
      BY <1>1, <2>1, <2>2 DEF HeroOK
    <3>2. LoopOK' /\ WalkOK' /\ TurnOK' /\ at' = "pass"
      BY <1>1, <2>1, <2>2, PassBegins
    <3>3. HeroOK'
      BY <1>1, <2>1, <3>1, <3>2 DEF HeroOK
    <3>4. QED BY <1>1, <2>1, <3>2, <3>3 DEF WalkInv
  <2>3. CASE At("play", {}, "whole") /\ movement' = movement
    <3>1. LoopOK' /\ HeroOK' /\ WalkOK' /\ TurnOK'
      BY <1>1, <2>1, <2>3 DEF At, LoopOK, HeroOK, WalkOK, TurnOK, Places
    <3>2. QED BY <1>1, <2>1, <3>1 DEF WalkInv
  <2>4. QED BY <1>9, <2>2, <2>3 DEF Pay
<1>10. QED BY <1>3, <1>4, <1>5, <1>6, <1>7, <1>8, <1>9

\* No level is left when the game is over.
LEMMA NoLevelOK == LevelOK(NoLevel)
<1>1. <<>> \in MonLists /\ ToSet(<<>>) = {}
  BY EmptyList
<1> DEFINE none == [m \in Mons |-> Nobody]
<1>2. none \in [Mons -> Monst] /\ \A m \in Mons : none[m].life = "free" /\ ~none[m].isgd
  BY DEF Monst, Nobody
<1>3. NoLevel = [fmon |-> <<>>, migr |-> <<>>, purge |-> 0, mon |-> none]
  BY DEF NoLevel
<1> HIDE DEF none
<1>4. /\ NoLevel \in LevelType /\ NoLevel.mon = none /\ NoLevel.purge = 0
      /\ OnList(NoLevel) = {} /\ OnMigr(NoLevel) = {}
  BY <1>1, <1>2, <1>3 DEF LevelType, OnList, OnMigr
<1>5. Purgeable(NoLevel) = {}
  BY <1>4 DEF Purgeable
<1>6. NoLevel.purge = Cardinality(Purgeable(NoLevel))
  BY <1>4, <1>5, FS_EmptySet
<1>7. QED BY <1>2, <1>4, <1>6 DEF LevelOK

\* The flag of a level change, the end of the game, and the calls of the host,
\* which purge the list at a prompt for a command only.
LEMMA HostStep ==
  ASSUME WalkInv, ~SaveAtMore,
         Schedule \/ HeroDies \/ HostSaveLevel \/ HostGoto \/ Over \/ UNCHANGED vars
  PROVE  WalkInv'
<1>1. LevelOK(level) /\ LoopOK /\ HeroOK /\ WalkOK /\ TurnOK
  BY DEF WalkInv
<1>2. CASE UNCHANGED <<level, loop, hero, seen>> /\ goto' \in BOOLEAN
  <2>1. /\ level' = level /\ at' = at /\ cur' = cur /\ nmtmp' = nmtmp /\ scan' = scan
        /\ movement' = movement /\ multi' = multi /\ form' = form
        /\ owed' = owed /\ late' = late /\ walk' = walk
    BY <1>2 DEF loop, hero, seen
  <2>2. Cursor' = Cursor
    BY <2>1 DEF Cursor
  <2>3. LoopOK' /\ HeroOK' /\ WalkOK' /\ TurnOK'
    BY <1>1, <1>2, <2>1, <2>2 DEF LoopOK, HeroOK, WalkOK, TurnOK
  <2>4. QED BY <1>1, <2>1, <2>3 DEF WalkInv
<1>3. CASE Schedule \/ HostGoto \/ Over \/ UNCHANGED vars
  <2>1. UNCHANGED <<level, loop, hero, seen>> /\ goto' \in BOOLEAN
    BY <1>1, <1>3 DEF Schedule, HostGoto, Over, vars, LoopOK
  <2>2. QED BY <1>2, <2>1
<1>4. CASE HeroDies
  <2>1. level' = NoLevel /\ UNCHANGED hero /\ goto' = goto /\ At("over", {}, "whole")
    BY <1>4 DEF HeroDies
  <2>2. LoopOK' /\ HeroOK' /\ WalkOK' /\ TurnOK'
    BY <1>1, <2>1 DEF At, LoopOK, HeroOK, WalkOK, TurnOK, Places, hero
  <2>3. QED BY <2>1, <2>2, NoLevelOK DEF WalkInv
<1>5. CASE HostSaveLevel
  <2>1. at = "play" /\ level' = Purged(level) /\ UNCHANGED <<loop, hero, goto, seen>>
    BY <1>5 DEF HostSaveLevel, AtPrompt
  <2>2. LevelOK(level')
    BY <1>1, <2>1, PurgedOK
  <2>3. LoopOK' /\ HeroOK' /\ WalkOK' /\ TurnOK'
    BY <1>1, <2>1 DEF LoopOK, HeroOK, WalkOK, TurnOK, loop, hero, seen
  <2>4. QED BY <2>2, <2>3 DEF WalkInv
<1>6. QED BY <1>3, <1>4, <1>5

\* Every step keeps the invariant.
LEMMA InvNext ==
  ASSUME ~SaveAtMore
  PROVE  WalkInv /\ [Next]_vars => WalkInv'
<1> SUFFICES ASSUME WalkInv, [Next]_vars PROVE WalkInv'
  OBVIOUS
<1>1. CASE BeginGuard \/ Skip \/ BeginAct
  BY <1>1, PassStep
<1>2. CASE \/ ActKill \/ ActSpawn \/ ActLeave \/ ActLimbo \/ ActPark \/ GuardGone \/ ActEnds
           \/ (Nomul /\ at = "act")
  <2>1. at = "act"
    BY <1>2 DEF ActKill, ActSpawn, ActLeave, ActLimbo, ActPark, GuardGone, ActEnds, Acting
  <2>2. QED BY <1>2, <2>1, ActStep
<1>3. CASE EndPassGoto \/ EndPassStay \/ EndPass
  BY <1>3, EndStep
<1>4. CASE Turn \/ Ration \/ Tick
  BY <1>4, TurnStep
<1>5. CASE \/ Rhack \/ Continue \/ Helpless \/ (Nomul /\ at # "act")
           \/ Event \/ GotoLevel \/ Pay
  BY <1>5, HeroStep
<1>6. CASE Schedule \/ HeroDies \/ HostSaveLevel \/ HostGoto \/ Over \/ UNCHANGED vars
  BY <1>6, HostStep
<1>7. QED BY <1>1, <1>2, <1>3, <1>4, <1>5, <1>6 DEF Next

-----------------------------------------------------------------------------
(* The theorems. *)

\* In a game that is saved at commands only the walk of movemon stays in order,
\* whatever the handlers of the monsters, the hero and the host do (movemon,
\* moveloop, dmonsfree, relmon, m_into_limbo): it reaches who is still to act, or,
\* once its saved successor was itself sent away, it goes on along migrating_mons.
THEOREM WalkInvariant ==
  ASSUME ~SaveAtMore
  PROVE  Spec => []WalkInv
<1>1. Init => WalkInv
  BY InvInit
<1>2. WalkInv /\ [Next]_vars => WalkInv'
  BY InvNext
<1>3. QED BY <1>1, <1>2, PTL DEF Spec

\* fmon holds each monster that lives or waits for the purge once, migrating_mons
\* each that was sent away.
THEOREM MoveLoopType ==
  ASSUME ~SaveAtMore
  PROVE  Spec => []TypeOK
<1>1. WalkInv => TypeOK
  <2>1. ASSUME WalkInv PROVE TypeOK
    <3>1. /\ level \in [fmon : Seq(Mons), migr : Seq(Mons), purge : Nat,
               mon : [Mons -> [life : {"free", "live", "dead", "away"}, moves : Nat,
                               isgd : BOOLEAN, parked : BOOLEAN]]]
          /\ IsInjective(level.fmon) /\ IsInjective(level.migr)
      <4>1. level \in LevelType
        BY <2>1 DEF WalkInv, LevelOK
      <4>2. IsInjective(level.fmon) /\ IsInjective(level.migr)
        BY <4>1, ListType DEF LevelType
      <4>3. MonLists \subseteq Seq(Mons)
        BY DEF MonLists
      <4>4. Monst \subseteq [life : {"free", "live", "dead", "away"}, moves : Nat,
                             isgd : BOOLEAN, parked : BOOLEAN]
        BY DEF Monst
      <4>5. QED BY <4>1, <4>2, <4>3, <4>4 DEF LevelType
    <3>2. QED BY <2>1, <3>1 DEF WalkInv, LevelOK, LoopOK, HeroOK, TypeOK, Places, OnMigr
  <2>2. QED BY <2>1
<1>2. QED BY <1>1, WalkInvariant, PTL

\* The count of pending purges is the number of dead monsters on the list, so
\* dmonsfree never complains that "removed doesn't match".
THEOREM PurgeIsCounted ==
  ASSUME ~SaveAtMore
  PROVE  Spec => []PurgeMatches
<1>1. WalkInv => PurgeMatches
  BY DEF WalkInv, LevelOK, PurgeMatches
<1>2. QED BY <1>1, WalkInvariant, PTL

\* movemon's next monster is on the list or null, or, after its saved successor
\* was sent away, on migrating_mons: no freed struct is read.
THEOREM CursorStaysAlive ==
  ASSUME ~SaveAtMore
  PROVE  Spec => []CursorAlive
<1>1. WalkInv => CursorAlive
  <2>1. ASSUME WalkInv, at \in {"pass", "act"}
        PROVE  Cursor \in {Null} \cup (IF walk = "astray" THEN ToSet(level.migr) ELSE OnList(level))
    <3>1. Walks(level, Cursor, owed, late, scan, walk) /\ walk \in {"whole", "astray", "early"}
      BY <2>1, InWalk
    <3>2. QED BY <3>1 DEF Walks, WalkAt, OnMigr
  <2>2. QED BY <2>1 DEF CursorAlive
<1>2. QED BY <1>1, WalkInvariant, PTL

\* A monster that could act when the pass began is still ahead of the walk, as
\* long as no saved successor was sent away and u.utotype did not end the pass.
THEOREM EveryMonsterMoves ==
  ASSUME ~SaveAtMore
  PROVE  Spec => []NobodyIsSkipped
<1>1. WalkInv => NobodyIsSkipped
  <2>1. ASSUME WalkInv, at \in {"pass", "act"}, walk = "whole", NEW m \in owed \cap Living(level)
        PROVE  \E i, j \in DOMAIN level.fmon :
                 i <= j /\ level.fmon[i] = Cursor /\ level.fmon[j] = m
    <3>1. WalkAt(level, Cursor, owed, late, scan)
      BY <2>1, InWalk DEF Walks
    <3>2. Reaches(level, Cursor, m)
      BY <2>1, <3>1 DEF WalkAt
    <3>3. QED BY <3>2 DEF Reaches, Precedes
  <2>2. QED BY <2>1 DEF NobodyIsSkipped
<1>2. QED BY <1>1, WalkInvariant, PTL

\* At a new turn only monsters that came during the last pass have a move left, or
\* the pass was one of those two.
THEOREM TurnWhenOutOfSteam ==
  ASSUME ~SaveAtMore
  PROVE  Spec => []OutOfSteam
<1>1. WalkInv => OutOfSteam
  BY DEF WalkInv, TurnOK, OutOfSteam
<1>2. QED BY <1>1, WalkInvariant, PTL

\* A monster that acts is one that could when the pass began and did not yet, or
\* the walk is on migrating_mons.
THEOREM ActsOnceInPass ==
  ASSUME ~SaveAtMore
  PROVE  Spec => OnceInPass
<1>1. WalkInv /\ BeginAct => cur \in owed \/ walk = "astray"
  <2>1. ASSUME WalkInv, BeginAct, walk # "astray" PROVE cur \in owed
    <3>1. at = "pass" /\ cur # Null /\ Ready(level, cur)
      BY <2>1 DEF BeginAct, InPass, GuardTurn, CanAct, Ready
    <3>2. /\ Walks(level, cur, owed, late, scan, walk) /\ LevelOK(level)
          /\ owed \in SUBSET Mons /\ walk \in {"whole", "astray", "early"}
      BY <2>1, <3>1, InWalk DEF Cursor
    <3>3. walk # "early"
      BY <3>1, <3>2 DEF Walks
    <3>4. walk = "whole" => cur \in owed
      <4>1. ASSUME NEW more, more = TRUE, walk = "whole" PROVE cur \in owed
        <5>1. ~more => ~scan /\ ~ReadyAgain(level, cur)
          BY <4>1
        <5>2. QED BY <3>1, <3>2, <4>1, <5>1, ActsWalks
      <4>2. QED BY <4>1
    <3>5. QED BY <2>1, <3>2, <3>3, <3>4
  <2>2. QED BY <2>1
<1>2. QED BY <1>1, WalkInvariant, PTL DEF OnceInPass
=============================================================================
