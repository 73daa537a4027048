-------------------------------- MODULE Travel --------------------------------
(***************************************************************************)
(* What is in memory and what is in the files of the levels.  Objects and  *)
(* monsters hang in chains; changing level writes the chains of the old    *)
(* level to its file, frees them, and reads those of the new one, while    *)
(* the inventory, the followers and whatever migrates stay in memory.      *)
(* Other parts of the program hold pointers into the chains: the meal,     *)
(* the lock being picked, the polearm's target, the monster stuck to the   *)
(* hero, the steed, and every light source.  The level change has to let   *)
(* go of those it frees, and to find again those it reads.                 *)
(***************************************************************************)
EXTENDS Naturals, FiniteSets

CONSTANTS
  Objs,      \* ids of objects (o_id)
  Foods,     \* those that can be eaten
  Lamps,     \* those that can burn
  Boxes,     \* those with a lock and contents
  Mons,      \* ids of monsters (m_id)
  Levels,    \* levels
  Kit,       \* ids of the objects a new hero starts with
  Null,      \* a null pointer, and an id of 0
  Wild,      \* a pointer to memory that was freed
  Abandoned  \* a pointer to an object that no chain leads to any more

ASSUME KindsAssumption ==
  /\ Foods \cup Lamps \cup Boxes \cup Kit \subseteq Objs
  /\ Boxes \cap (Foods \cup Lamps) = {}
  /\ {Null, Wild, Abandoned} \cap (Objs \cup Mons) = {}

VARIABLES
  here,    \* u.uz
  at,      \* [Objs -> the chain of each object]
  mat,     \* [Mons -> the chain of each monster]
  ptr,     \* the pointers the program keeps into the chains
  twin,    \* the ids kept beside two of them
  lit,     \* the objects with lamplit set
  lights,  \* light_base: what the sources in memory point to
  filed    \* [Levels -> the ids of the sources in the file of the level]

chains == <<at, mat>>
lamps == <<lit, lights, filed>>
tvars == <<here, chains, ptr, twin, lamps>>

(* The chains. *)
Invent == <<"invent">>
Freed == <<"freed">>
Floor(l) == <<"floor", l>>
Buried(l) == <<"buried", l>>
In(b) == <<"contained", b>>
Minv(m) == <<"minvent", m>>
OnMap(l) == <<"map", l>>
Going(l) == <<"migrating", l>>

Chain ==
  {Invent, Freed} \cup {Floor(l) : l \in Levels} \cup {Buried(l) : l \in Levels}
    \cup {Going(l) : l \in Levels} \cup {In(b) : b \in Boxes} \cup {Minv(m) : m \in Mons}
MonChain == {Freed} \cup {OnMap(l) : l \in Levels} \cup {Going(l) : l \in Levels}

MonsOn(ma, l) == {m \in Mons : ma[m] = OnMap(l)}
MonsGoing(ma) == {m \in Mons : \E l \in Levels : ma[m] = Going(l)}

\* The chain an object is in, by itself or with what contains it.
Outer(a, o) == IF \E b \in Boxes : a[o] = In(b) THEN a[CHOOSE b \in Boxes : a[o] = In(b)]
               ELSE a[o]

\* obj_is_local: the objects that are saved with level l.
Local(a, ma, l) ==
  {o \in Objs : Outer(a, o) \in {Floor(l), Buried(l)} \cup {Minv(m) : m \in MonsOn(ma, l)}}

\* Those that are saved with the hero.
Global(a, ma) ==
  {o \in Objs : Outer(a, o) \in {Invent} \cup {Going(l) : l \in Levels}
                                \cup {Minv(m) : m \in MonsGoing(ma)}}

ObjsInMemory == Local(at, mat, here) \cup Global(at, mat)
MonsInMemory == MonsOn(mat, here) \cup MonsGoing(mat)

\* A pointer after the memory of the set gone was freed.
Swept(p, gone) == IF p \in gone THEN Wild ELSE p

NoPointers == [piece |-> Null, box |-> Null, hitmon |-> Null, stuck |-> Null, steed |-> Null]
NoTwins == [piece |-> Null, hitmon |-> Null]

\* A new game: the kit in the inventory, the rest on the floor.
TInit ==
  /\ here \in Levels
  /\ at = [o \in Objs |-> IF o \in Kit THEN Invent ELSE Floor(here)]
  /\ mat = [m \in Mons |-> OnMap(here)]
  /\ ptr = NoPointers /\ twin = NoTwins
  /\ lit = {} /\ lights = {} /\ filed = [l \in Levels |-> {}]

-----------------------------------------------------------------------------
(* Objects move from chain to chain.                                       *)

Move(o, place) == at' = [at EXCEPT ![o] = place]

PickUp(o) ==
  /\ at[o] = Floor(here) /\ Move(o, Invent)
  /\ UNCHANGED <<here, mat, ptr, twin, lamps>>

Drop(o) ==
  /\ at[o] = Invent /\ Move(o, Floor(here))
  /\ UNCHANGED <<here, mat, ptr, twin, lamps>>

\* A monster takes it from the floor or from the hero.
Take(m, o) ==
  /\ m \in MonsOn(mat, here) /\ at[o] \in {Floor(here), Invent} /\ Move(o, Minv(m))
  /\ UNCHANGED <<here, mat, ptr, twin, lamps>>

\* It falls to level l, as what is kicked or dropped down a hole does.
Ship(o, l) ==
  /\ at[o] = Floor(here) /\ l # here /\ Move(o, Going(l))
  /\ UNCHANGED <<here, mat, ptr, twin, lamps>>

\* end_burn
Dark(o) == lit' = lit \ {o} /\ lights' = lights \ {o} /\ UNCHANGED filed

\* in_container: a burning object is put out first.
PutIn(o, b) ==
  /\ o \notin Boxes /\ at[o] = Invent /\ at[b] \in {Invent, Floor(here)}
  /\ Move(o, In(b)) /\ Dark(o)
  /\ UNCHANGED <<here, mat, ptr, twin>>

TakeOut(o, b) ==
  /\ at[o] = In(b) /\ at[b] \in {Invent, Floor(here)} /\ Move(o, Invent)
  /\ UNCHANGED <<here, mat, ptr, twin, lamps>>

\* bury_an_obj puts it out as well.
Bury(o) ==
  /\ at[o] = Floor(here) /\ Move(o, Buried(here)) /\ Dark(o)
  /\ UNCHANGED <<here, mat, ptr, twin>>

Unearth(o) ==
  /\ at[o] = Buried(here) /\ Move(o, Floor(here))
  /\ UNCHANGED <<here, mat, ptr, twin, lamps>>

\* food_disappears and maybe_reset_pick
LetGo(gone) ==
  /\ ptr' = [ptr EXCEPT !.piece = IF @ \in gone THEN Null ELSE @,
                        !.box = IF @ \in gone THEN Null ELSE @]
  /\ twin' = [twin EXCEPT !.piece = IF ptr.piece \in gone THEN Null ELSE @]

\* obfree: it is eaten, broken, rotten or used up, with what it contains.
Destroy(o) ==
  LET gone == {o} \cup {c \in Objs : at[c] = In(o)}
  IN /\ o \in ObjsInMemory
     /\ at' = [c \in Objs |-> IF c \in gone THEN Freed ELSE at[c]]
     /\ LetGo(gone)
     /\ lit' = lit \ gone /\ lights' = lights \ (lit \cap gone) /\ UNCHANGED filed
     /\ UNCHANGED <<here, mat>>

-----------------------------------------------------------------------------
(* Who points to them.                                                     *)

\* doeat: the meal and its id.
Eat(o) ==
  /\ o \in Foods /\ at[o] \in {Invent, Floor(here)}
  /\ ptr' = [ptr EXCEPT !.piece = o] /\ twin' = [twin EXCEPT !.piece = o]
  /\ UNCHANGED <<here, chains, lamps>>

\* pick_lock, on a box at the hero's feet.
PickLock(b) ==
  /\ at[b] = Floor(here) /\ ptr' = [ptr EXCEPT !.box = b]
  /\ UNCHANGED <<here, chains, twin, lamps>>

\* use_pole
Hit(m) ==
  /\ m \in MonsOn(mat, here) /\ m # ptr.steed /\ ptr' = [ptr EXCEPT !.hitmon = m]
  /\ UNCHANGED <<here, chains, twin, lamps>>

\* A monster sticks to the hero, or lets go.
Stick(m) ==
  /\ m \in MonsOn(mat, here) /\ m # ptr.steed /\ ptr.stuck = Null
  /\ ptr' = [ptr EXCEPT !.stuck = m]
  /\ UNCHANGED <<here, chains, twin, lamps>>

Release ==
  /\ ptr.stuck # Null /\ ptr' = [ptr EXCEPT !.stuck = Null]
  /\ UNCHANGED <<here, chains, twin, lamps>>

\* mount_steed refuses while the hero is stuck.
Mount(m) ==
  /\ m \in MonsOn(mat, here) /\ ptr.steed = Null /\ ptr.stuck = Null
  /\ ptr' = [ptr EXCEPT !.steed = m]
  /\ UNCHANGED <<here, chains, twin, lamps>>

Dismount ==
  /\ ptr.steed # Null /\ ptr' = [ptr EXCEPT !.steed = Null]
  /\ UNCHANGED <<here, chains, twin, lamps>>

\* begin_burn and end_burn
Light(o) ==
  /\ o \in Lamps \ lit /\ at[o] = Invent
  /\ lit' = lit \cup {o} /\ lights' = lights \cup {o} /\ UNCHANGED filed
  /\ UNCHANGED <<here, chains, ptr, twin>>

Snuff(o) ==
  /\ o \in lit \cap ObjsInMemory /\ Dark(o)
  /\ UNCHANGED <<here, chains, ptr, twin>>

-----------------------------------------------------------------------------
(* Monsters.                                                               *)

\* m_detach: what it carries falls, and nobody points to it.
Kill(m) ==
  /\ m \in MonsOn(mat, here)
  /\ mat' = [mat EXCEPT ![m] = Freed]
  /\ at' = [o \in Objs |-> IF at[o] = Minv(m) THEN Floor(here) ELSE at[o]]
  /\ ptr' = [ptr EXCEPT !.hitmon = IF @ = m THEN Null ELSE @,
                        !.stuck = IF @ = m THEN Null ELSE @,
                        !.steed = IF @ = m THEN Null ELSE @]
  /\ UNCHANGED <<here, twin, lamps>>

\* migrate_to_level: by stairs, holes, traps, a scroll or a potion.  Not all of
\* its callers see to it that the monster is not the one stuck to the hero.
Migrate(m, l) ==
  /\ m \in MonsOn(mat, here) /\ l # here /\ m # ptr.steed
  /\ mat' = [mat EXCEPT ![m] = Going(l)]
  /\ ptr' = [ptr EXCEPT !.hitmon = IF @ = m THEN Null ELSE @]
  /\ UNCHANGED <<here, at, twin, lamps>>

-----------------------------------------------------------------------------
(* The hero changes level.                                                 *)

\* Mutant: the lock context is kept wherever the box is.
AlwaysKept(b) == b

\* maybe_reset_pick(0): the lock is kept if the box is carried.
PickKept(b) == IF b \in Objs /\ at[b] = Invent THEN b ELSE Null

\* goto_level lets go of them.
DropTargets(p) == [p EXCEPT !.hitmon = Null, !.stuck = Null]

\* Mutant: a level takes the sources on its floor only.
FloorLights(a, ma, l) == {o \in lights : o \in Objs /\ a[o] = Floor(l)}

\* save_light_sources: those that are saved with level l.
LevelLights(a, ma, l) == lights \cap Local(a, ma, l)

\* saveobjchn and savemonchn: ids are stamped and pointers cleared as the
\* objects and the monsters of the level are freed.
AfterFree(p, objs, mons) ==
  [p EXCEPT !.piece = IF @ \in objs THEN Null ELSE @, !.box = Swept(@, objs),
            !.hitmon = IF @ \in mons THEN Null ELSE @,
            !.stuck = Swept(@, mons), !.steed = Swept(@, mons)]
Stamped(t, p, objs, mons) ==
  [t EXCEPT !.piece = IF p.piece \in objs THEN p.piece ELSE @,
            !.hitmon = IF p.hitmon \in mons THEN p.hitmon ELSE @]

\* Mutant: the half-eaten food is not recognised.
NotRelinked(p, t, objs, mons) == p

\* restobjchn and restmonchn: what has the id of a twin is pointed to again.
Relinked(p, t, objs, mons) ==
  [p EXCEPT !.piece = IF t.piece \in objs THEN t.piece ELSE @,
            !.hitmon = IF t.hitmon \in mons THEN t.hitmon ELSE @]

\* goto_level: dogs go with the hero, fall is what falls with him, and lost
\* find no place on the new level (m_into_limbo).
GotoLevel(l, dogs, fall, lost) ==
  LET a == [o \in Objs |-> IF o \in fall THEN Going(l) ELSE at[o]]
      ma == [m \in Mons |-> IF m \in dogs THEN Going(l) ELSE mat[m]]
      objs == Local(a, ma, here)
      mons == MonsOn(ma, here)
      p == [DropTargets(ptr) EXCEPT !.box = PickKept(@)]
      t == Stamped(twin, p, objs, mons)
      q == Relinked(AfterFree(p, objs, mons), t, Local(a, ma, l), MonsOn(ma, l))
      saved == LevelLights(a, ma, here)
  IN /\ l # here /\ dogs \subseteq MonsOn(mat, here)
     /\ ptr.steed \in Mons => ptr.steed \in dogs
     /\ fall \subseteq {o \in Objs : at[o] = Floor(here)}
     /\ lost \subseteq {m \in Mons : ma[m] \in {OnMap(l), Going(l)}} \ {ptr.steed}
     /\ here' = l
     /\ at' = [o \in Objs |-> IF a[o] = Going(l) THEN Floor(l) ELSE a[o]]
     /\ mat' = [m \in Mons |-> IF m \in lost THEN Going(l)
                               ELSE IF ma[m] = Going(l) THEN OnMap(l) ELSE ma[m]]
     /\ ptr' = [q EXCEPT !.hitmon = IF @ \in lost THEN Null ELSE @]
     /\ twin' = t
     /\ filed' = [filed EXCEPT ![here] = saved, ![l] = {}]
     /\ lights' = {Swept(s, objs) : s \in lights \ saved} \cup filed[l]
     /\ UNCHANGED lit

\* All that a command does but eat.
ElseNext ==
  \/ \E o \in Objs :
       \/ PickUp(o) \/ Drop(o) \/ Bury(o) \/ Unearth(o) \/ Destroy(o)
       \/ Light(o) \/ Snuff(o)
       \/ \E m \in Mons : Take(m, o)
       \/ \E l \in Levels : Ship(o, l)
       \/ \E b \in Boxes : PutIn(o, b) \/ TakeOut(o, b)
  \/ \E b \in Boxes : PickLock(b)
  \/ \E m \in Mons :
       \/ Hit(m) \/ Stick(m) \/ Mount(m) \/ Kill(m)
       \/ \E l \in Levels : Migrate(m, l)
  \/ Release \/ Dismount
  \/ \E l \in Levels, dogs \in SUBSET Mons, fall \in SUBSET Objs, lost \in SUBSET Mons :
       GotoLevel(l, dogs, fall, lost)

TNext == (\E o \in Objs : Eat(o)) \/ ElseNext

-----------------------------------------------------------------------------

\* Pointers are null, or to an object or a monster, or gone wrong.
TTypeOK ==
  /\ here \in Levels
  /\ at \in [Objs -> Chain] /\ mat \in [Mons -> MonChain]
  /\ ptr \in [piece : Objs \cup {Null, Wild}, box : Objs \cup {Null, Wild},
              hitmon : Mons \cup {Null, Wild}, stuck : Mons \cup {Null, Wild},
              steed : Mons \cup {Null, Wild}]
  /\ twin \in [piece : Objs \cup {Null}, hitmon : Mons \cup {Null}]
  /\ lit \subseteq Objs /\ lights \subseteq Objs \cup {Wild, Abandoned}
  /\ filed \in [Levels -> SUBSET Objs]
=============================================================================
