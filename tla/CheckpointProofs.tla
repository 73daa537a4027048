-------------------------- MODULE CheckpointProofs --------------------------
(***************************************************************************)
(* Proofs about modules Travel and Checkpoint: level changes, and          *)
(* checkpoints that are saved and loaded, leave no pointer dangling, keep  *)
(* or forget the meal, and resume what was saved, for any objects, monsters    *)
(* and levels.                                                             *)
(***************************************************************************)
EXTENDS Checkpoint, TLAPS

\* The chains that are written to the file of level l, and those that stay with the hero.
LevelChains(ma, l) == {Floor(l), Buried(l)} \cup {Minv(m) : m \in MonsOn(ma, l)}
HeroChains(ma) ==
  {Invent} \cup {Going(l) : l \in Levels} \cup {Minv(m) : m \in MonsGoing(ma)}

\* What is in memory while the hero is on level h.
Memory(a, ma, h) == Local(a, ma, h) \cup Global(a, ma)
MonMemory(ma, h) == MonsOn(ma, h) \cup MonsGoing(ma)

\* Every object and monster is in a chain, and no box is in a box.
PlacesOK(a, ma, h) ==
  /\ h \in Levels /\ a \in [Objs -> Chain] /\ ma \in [Mons -> MonChain]
  /\ \A b, c \in Boxes : a[b] # In(c)

\* Pointers that lead to what is in memory.
Pointers(a, ma, h) ==
  [piece : {Null} \cup Memory(a, ma, h), box : {Null} \cup Memory(a, ma, h),
   hitmon : {Null} \cup MonMemory(ma, h), stuck : {Null} \cup MonMemory(ma, h),
   steed : {Null} \cup MonsOn(ma, h)]

Twins == [piece : Objs \cup {Null}, hitmon : Mons \cup {Null}]

GameOK ==
  /\ PlacesOK(at, mat, here)
  /\ ptr \in Pointers(at, mat, here) /\ twin \in Twins
  /\ lit \subseteq Lamps /\ lights \subseteq Objs \cup {Wild, Abandoned}
  /\ filed \in [Levels -> SUBSET Objs]

\* The meal is the food whose id is kept, and what is in memory of that id is the meal.
MealOK ==
  /\ ptr.piece \in {Null, twin.piece}
  /\ kept # "unwound" /\ twin.piece \in Memory(at, mat, here) => ptr.piece = twin.piece

\* The id of a game whose chains are a: that of the meal the hero left, or none when a
\* save has taken it.
MealIs(id, a) ==
  /\ meal \in Objs => a[meal] # Freed
  /\ kept = "kept" => id = meal
  /\ kept = "away" => id = Null

HistoryOK ==
  /\ meal \in Objs \cup {Null} /\ kept \in Keeping
  /\ phase \in {"play", "levelSaved", "saved"} => MealIs(twin.piece, at)
  /\ saved # Null => MealIs(saved.ids.piece, saved.at)

\* A blob is of a game as good as the live one.
BlobOK ==
  /\ saved \in Blobs
  /\ PlacesOK(saved.at, saved.mat, saved.here)
  /\ saved.ids \in Pointers(saved.at, saved.mat, saved.here)
  /\ saved.lit \subseteq Lamps

\* Without the objects and the monsters of two sets, the chains are those of the blob.
SavedBut(objs, mons) ==
  /\ at = [o \in Objs |-> IF o \in objs THEN Freed ELSE saved.at[o]]
  /\ mat = [m \in Mons |-> IF m \in mons THEN Freed ELSE saved.mat[m]]

\* A game that is being loaded points to nothing yet.
LoadingOK ==
  phase \in {"fresh", "levelLoaded"} =>
    /\ here = saved.here /\ ptr = NoPointers /\ twin = NoTwins
    /\ phase = "fresh" => rc = "ok"
    /\ rc = "ok" =>
         SavedBut(BlobHeroObjs \cup (IF phase = "fresh" THEN BlobLevelObjs ELSE {}),
                  BlobHeroMons \cup (IF phase = "fresh" THEN BlobLevelMons ELSE {}))

HostOK ==
  /\ phase \in Phases /\ rc \in {"ok", "io", "lost"}
  /\ saved # Null <=> phase \in {"saved", "fresh", "levelLoaded"}
  /\ saved # Null => BlobOK

IInv == GameOK /\ MealOK /\ HistoryOK /\ HostOK /\ LoadingOK

\* Lights: the burning objects in memory have theirs in light_base, those on another
\* level have theirs in its file.
LightsOf(a, ma, h, burning, base, files) ==
  /\ base = burning \cap Memory(a, ma, h)
  /\ \A l \in Levels \ {h} : files[l] = burning \cap Local(a, ma, l)

LightsInv ==
  /\ phase \in {"play", "levelSaved", "saved"} => LightsOf(at, mat, here, lit, lights, filed)
  /\ saved # Null =>
       /\ LightsOf(saved.at, saved.mat, saved.here, saved.lit,
                   saved.levelLights \cup saved.heroLights, saved.filed)
       /\ saved.levelLights = saved.lit \cap BlobLevelObjs
  /\ phase \in {"fresh", "levelLoaded"} => filed = saved.filed
  /\ phase = "fresh" =>
       lights = {} /\ lit = saved.lit \ Memory(saved.at, saved.mat, saved.here)
  /\ phase = "levelLoaded" /\ rc = "ok" =>
       lights = saved.levelLights /\ lit = saved.lit \ BlobHeroObjs
-----------------------------------------------------------------------------
(* Chains.                                                                 *)

\* Chains of different kinds, or of different places, are different.
LEMMA ChainsDiffer ==
  ASSUME NEW x, NEW y
  PROVE  /\ Invent \notin {Freed, Floor(x), Buried(x), In(x), Minv(x), OnMap(x), Going(x)}
         /\ Freed \notin {Floor(x), Buried(x), In(x), Minv(x), OnMap(x), Going(x)}
         /\ Floor(x) \notin {Buried(y), In(y), Minv(y), OnMap(y), Going(y)}
         /\ Buried(x) \notin {In(y), Minv(y), OnMap(y), Going(y)}
         /\ In(x) \notin {Minv(y), OnMap(y), Going(y)}
         /\ Minv(x) \notin {OnMap(y), Going(y)}
         /\ OnMap(x) # Going(y)
         /\ Floor(x) = Floor(y) => x = y
         /\ Buried(x) = Buried(y) => x = y
         /\ In(x) = In(y) => x = y
         /\ Minv(x) = Minv(y) => x = y
         /\ OnMap(x) = OnMap(y) => x = y
         /\ Going(x) = Going(y) => x = y
BY DEF Invent, Freed, Floor, Buried, In, Minv, OnMap, Going

\* Where an object is: with its box, or by itself.
LEMMA OuterIs ==
  ASSUME NEW a, NEW o
  PROVE  /\ \A b \in Boxes : a[o] = In(b) => Outer(a, o) = a[b]
         /\ (\A b \in Boxes : a[o] # In(b)) => Outer(a, o) = a[o]
<1>1. ASSUME NEW b \in Boxes, a[o] = In(b) PROVE Outer(a, o) = a[b]
  <2>1. \A c \in Boxes : a[o] = In(c) <=> c = b
    BY <1>1, ChainsDiffer
  <2>2. (CHOOSE c \in Boxes : a[o] = In(c)) = b
    BY <2>1
  <2>3. QED BY <1>1, <2>2 DEF Outer
<1>2. QED BY <1>1 DEF Outer

\* What is not in a box is by itself, boxes among them.
LEMMA OuterOfBox ==
  ASSUME NEW a, NEW ma, NEW h, PlacesOK(a, ma, h), NEW b \in Boxes
  PROVE  b \in Objs /\ Outer(a, b) = a[b]
BY OuterIs, KindsAssumption DEF PlacesOK

\* What is saved with a level, and with the hero, by the chains it is in.
LEMMA SetsOfChains ==
  ASSUME NEW a, NEW ma, NEW l
  PROVE  /\ Local(a, ma, l) = {o \in Objs : Outer(a, o) \in LevelChains(ma, l)}
         /\ Global(a, ma) = {o \in Objs : Outer(a, o) \in HeroChains(ma)}
BY DEF Local, Global, LevelChains, HeroChains

\* No chain belongs to two levels, or to a level and the hero.
LEMMA ChainsApart ==
  ASSUME NEW ma, NEW l
  PROVE  /\ LevelChains(ma, l) \cap HeroChains(ma) = {}
         /\ \A k : k # l => LevelChains(ma, l) \cap LevelChains(ma, k) = {}
         /\ Freed \notin LevelChains(ma, l) \cup HeroChains(ma)
         /\ MonsOn(ma, l) \cap MonsGoing(ma) = {}
         /\ \A k : k # l => MonsOn(ma, l) \cap MonsOn(ma, k) = {}
<1>1. MonsOn(ma, l) \cap MonsGoing(ma) = {}
  BY ChainsDiffer DEF MonsOn, MonsGoing
<1>2. \A k : k # l => MonsOn(ma, l) \cap MonsOn(ma, k) = {}
  BY ChainsDiffer DEF MonsOn
<1>3. LevelChains(ma, l) \cap HeroChains(ma) = {}
  BY <1>1, ChainsDiffer DEF LevelChains, HeroChains
<1>4. ASSUME NEW k, k # l PROVE LevelChains(ma, l) \cap LevelChains(ma, k) = {}
  BY <1>2, <1>4, ChainsDiffer DEF LevelChains
<1>5. Freed \notin LevelChains(ma, l) \cup HeroChains(ma)
  BY ChainsDiffer DEF LevelChains, HeroChains
<1>6. QED BY <1>1, <1>2, <1>3, <1>4, <1>5

\* An object is saved with one level or with the hero.
LEMMA SetsApart ==
  ASSUME NEW a, NEW ma, NEW h
  PROVE  /\ Local(a, ma, h) \cap Global(a, ma) = {}
         /\ \A l : l # h => Local(a, ma, l) \cap Memory(a, ma, h) = {}
<1>1. Local(a, ma, h) \cap Global(a, ma) = {}
  BY SetsOfChains, ChainsApart
<1>2. ASSUME NEW l, l # h PROVE Local(a, ma, l) \cap Memory(a, ma, h) = {}
  <2>1. Local(a, ma, l) \cap Local(a, ma, h) = {}
    BY <1>2, SetsOfChains, ChainsApart
  <2>2. Local(a, ma, l) \cap Global(a, ma) = {}
    BY SetsOfChains, ChainsApart
  <2>3. QED BY <2>1, <2>2 DEF Memory
<1>3. QED BY <1>1, <1>2

MemChains(ma, h) == LevelChains(ma, h) \cup HeroChains(ma)

\* What is in memory, by the chains it is in.
LEMMA InMemory ==
  ASSUME NEW a, NEW ma, NEW h
  PROVE  Memory(a, ma, h) = {o \in Objs : Outer(a, o) \in MemChains(ma, h)}
<1>1. /\ Local(a, ma, h) = {o \in Objs : Outer(a, o) \in LevelChains(ma, h)}
      /\ Global(a, ma) = {o \in Objs : Outer(a, o) \in HeroChains(ma)}
  BY SetsOfChains
<1>2. QED BY <1>1 DEF Memory, MemChains

\* The chains of another level are not in memory.
LEMMA MemApart ==
  ASSUME NEW ma, NEW h, NEW l, l # h
  PROVE  LevelChains(ma, l) \cap MemChains(ma, h) = {}
<1>1. LevelChains(ma, l) \cap HeroChains(ma) = {}
  BY ChainsApart
<1>2. LevelChains(ma, l) \cap LevelChains(ma, h) = {}
  BY ChainsApart
<1>3. QED BY <1>1, <1>2 DEF MemChains

\* The same objects are in memory, and the same are saved with each other level.
Kept(a, ma, b, mb, h) ==
  /\ Memory(b, mb, h) = Memory(a, ma, h)
  /\ \A l \in Levels \ {h} : Local(b, mb, l) = Local(a, ma, l)

\* An object moves within memory, by itself or into a box.
LEMMA MoveKeeps ==
  ASSUME NEW a, NEW ma, NEW h, PlacesOK(a, ma, h),
         NEW o \in Memory(a, ma, h), NEW place \in Chain,
         \/ place \in MemChains(ma, h)
         \/ o \notin Boxes /\ \E b \in Boxes : place = In(b) /\ b \in Memory(a, ma, h)
  PROVE  /\ PlacesOK([a EXCEPT ![o] = place], ma, h)
         /\ Kept(a, ma, [a EXCEPT ![o] = place], ma, h)
<1> DEFINE n == [a EXCEPT ![o] = place]
           mem == MemChains(ma, h)
<1>1. o \in Objs /\ Outer(a, o) \in mem
  BY SetsOfChains DEF Memory, MemChains
<1>2. \A b \in Boxes : In(b) \notin mem
  BY ChainsDiffer DEF MemChains, LevelChains, HeroChains
<1>3. PlacesOK(n, ma, h)
  BY <1>1, <1>2 DEF PlacesOK
<1>4. Outer(n, o) \in mem
  <2>1. CASE place \in mem
    <3>1. n[o] = place /\ \A b \in Boxes : n[o] # In(b)
      BY <1>1, <1>2, <2>1 DEF PlacesOK
    <3>2. QED BY <2>1, <3>1, OuterIs
  <2>2. CASE o \notin Boxes /\ \E b \in Boxes : place = In(b) /\ b \in Memory(a, ma, h)
    <3>1. PICK b \in Boxes : place = In(b) /\ b \in Memory(a, ma, h)
      BY <2>2
    <3>2. n[o] = In(b) /\ n[b] = a[b] /\ b \in Objs
      BY <1>1, <2>2, <3>1, KindsAssumption DEF PlacesOK
    <3>3. Outer(n, o) = n[b]
      BY <3>1, <3>2, OuterIs
    <3>4. Outer(a, b) = a[b]
      BY OuterOfBox
    <3>5. a[b] \in mem
      BY <3>1, <3>4, SetsOfChains DEF Memory, MemChains
    <3>6. QED BY <3>2, <3>3, <3>5
  <2>3. QED BY <2>1, <2>2
<1>5. ASSUME NEW x \in Objs \ {o}
      PROVE  Outer(n, x) = Outer(a, x) \/ {Outer(n, x), Outer(a, x)} \subseteq mem
  <2>1. n[x] = a[x]
    BY <1>1 DEF PlacesOK
  <2>2. CASE \A b \in Boxes : a[x] # In(b)
    <3>1. Outer(n, x) = n[x] /\ Outer(a, x) = a[x]
      BY <2>1, <2>2, OuterIs
    <3>2. QED BY <2>1, <3>1
  <2>3. ASSUME NEW b \in Boxes, a[x] = In(b)
        PROVE  Outer(n, x) = Outer(a, x) \/ {Outer(n, x), Outer(a, x)} \subseteq mem
    <3> HIDE DEF n
    <3>1. Outer(n, x) = n[b] /\ Outer(a, x) = a[b] /\ Outer(a, b) = a[b] /\ Outer(n, b) = n[b]
      <4>1. Outer(n, x) = n[b] /\ Outer(a, x) = a[b]
        BY <2>1, <2>3, OuterIs
      <4>2. Outer(a, b) = a[b]
        BY OuterOfBox
      <4>3. Outer(n, b) = n[b]
        BY <1>3, OuterOfBox
      <4>4. QED BY <4>1, <4>2, <4>3
    <3> USE DEF n
    <3>2. CASE b = o
      BY <1>1, <1>4, <3>1, <3>2
    <3>3. CASE b # o
      BY <3>1, <3>3, <1>1, KindsAssumption DEF PlacesOK
    <3>4. QED BY <3>2, <3>3
  <2>4. QED BY <2>2, <2>3
<1> HIDE DEF n, mem
<1>6. Memory(n, ma, h) = Memory(a, ma, h)
  <2>1. \A x \in Objs : Outer(n, x) \in mem <=> Outer(a, x) \in mem
    BY <1>1, <1>4, <1>5
  <2>2. /\ Memory(a, ma, h) = {x \in Objs : Outer(a, x) \in mem}
        /\ Memory(n, ma, h) = {x \in Objs : Outer(n, x) \in mem}
    BY InMemory DEF mem
  <2>3. QED BY <2>1, <2>2
<1>7. ASSUME NEW l \in Levels \ {h} PROVE Local(n, ma, l) = Local(a, ma, l)
  <2>1. LevelChains(ma, l) \cap mem = {}
    BY MemApart DEF mem
  <2>2. \A x \in Objs : Outer(n, x) \in LevelChains(ma, l) <=> Outer(a, x) \in LevelChains(ma, l)
    BY <1>1, <1>4, <1>5, <2>1
  <2>3. /\ Local(a, ma, l) = {x \in Objs : Outer(a, x) \in LevelChains(ma, l)}
        /\ Local(n, ma, l) = {x \in Objs : Outer(n, x) \in LevelChains(ma, l)}
    BY SetsOfChains
  <2>4. QED BY <2>2, <2>3
<1>8. QED BY <1>3, <1>6, <1>7 DEF Kept, n

-----------------------------------------------------------------------------
(* The steps of the game.                                                  *)

Lit == LightsOf(at, mat, here, lit, lights, filed)

\* A step keeps pointers and types, and lights if they were as they should.
StepOK == GameOK' /\ MealOK' /\ (Lit => Lit')

\* What is in memory, unfolded.
LEMMA WhereIs ==
  ASSUME NEW a, NEW ma, NEW h, PlacesOK(a, ma, h), NEW o \in Objs
  PROVE  /\ a[o] \in MemChains(ma, h) => o \in Memory(a, ma, h)
         /\ \A b \in Boxes : a[o] = In(b) => (o \in Memory(a, ma, h) <=> b \in Memory(a, ma, h))
         /\ o \in Boxes /\ o \in Memory(a, ma, h) => a[o] \in MemChains(ma, h)
<1>1. ASSUME a[o] \in MemChains(ma, h) PROVE o \in Memory(a, ma, h)
  <2>1. \A b \in Boxes : a[o] # In(b)
    BY <1>1, ChainsDiffer DEF MemChains, LevelChains, HeroChains
  <2>2. Outer(a, o) = a[o]
    BY <2>1, OuterIs
  <2>3. QED BY <1>1, <2>2, InMemory
<1>2. ASSUME NEW b \in Boxes, a[o] = In(b)
      PROVE  o \in Memory(a, ma, h) <=> b \in Memory(a, ma, h)
  <2>1. Outer(a, o) = a[b]
    BY <1>2, OuterIs
  <2>2. Outer(a, b) = a[b] /\ b \in Objs
    BY OuterOfBox
  <2>3. QED BY <2>1, <2>2, InMemory
<1>3. ASSUME o \in Boxes, o \in Memory(a, ma, h) PROVE a[o] \in MemChains(ma, h)
  <2>1. Outer(a, o) = a[o]
    BY <1>3, OuterOfBox
  <2>2. QED BY <1>3, <2>1, InMemory
<1>4. QED BY <1>1, <1>2, <1>3

\* The chains that belong to memory.
LEMMA MemoryHas ==
  ASSUME NEW ma, NEW h
  PROVE  /\ {Invent, Floor(h), Buried(h)} \subseteq MemChains(ma, h)
         /\ \A l \in Levels : Going(l) \in MemChains(ma, h)
         /\ \A m \in MonMemory(ma, h) : Minv(m) \in MemChains(ma, h)
BY DEF MemChains, LevelChains, HeroChains, MonMemory

\* An object moves within memory, and nothing else happens.
LEMMA MoveStep ==
  ASSUME GameOK, MealOK, NEW o \in Memory(at, mat, here), NEW place \in Chain,
         \/ place \in MemChains(mat, here)
         \/ o \notin Boxes /\ \E b \in Boxes : place = In(b) /\ b \in Memory(at, mat, here),
         Move(o, place), UNCHANGED <<here, mat, ptr, twin, kept>>,
         UNCHANGED lamps \/ Dark(o)
  PROVE  StepOK
<1>1. PlacesOK(at, mat, here) /\ at' = [at EXCEPT ![o] = place]
  BY DEF GameOK, Move
<1>2. PlacesOK(at', mat, here) /\ Kept(at, mat, at', mat, here)
  BY <1>1, MoveKeeps
<1>3. Memory(at', mat, here) = Memory(at, mat, here)
  BY <1>2 DEF Kept
<1>4. Pointers(at', mat, here) = Pointers(at, mat, here)
  BY <1>3 DEF Pointers
<1>5. /\ lit' \subseteq lit /\ lights' \subseteq lights /\ filed' = filed
  BY DEF lamps, Dark
<1>6. GameOK'
  BY <1>2, <1>4, <1>5 DEF GameOK
<1>7. MealOK'
  BY <1>3 DEF MealOK
<1>8. ASSUME Lit PROVE Lit'
  <2>1. \A l \in Levels \ {here} : o \notin Local(at, mat, l)
    BY SetsApart
  <2>2. CASE UNCHANGED lamps
    BY <1>2, <1>8, <2>2 DEF Lit, LightsOf, Kept, lamps
  <2>3. CASE Dark(o)
    BY <1>2, <1>8, <2>1, <2>3 DEF Lit, LightsOf, Kept, Dark
  <2>4. QED BY <2>2, <2>3
<1>9. QED BY <1>6, <1>7, <1>8 DEF StepOK

\* Objects that are picked up, dropped, taken, shipped, buried, unearthed, or put
\* into a box or taken out of it.
LEMMA ObjectMoves ==
  ASSUME GameOK, MealOK, UNCHANGED kept, NEW o \in Objs,
         \/ PickUp(o) \/ Drop(o) \/ Bury(o) \/ Unearth(o)
         \/ \E m \in Mons : Take(m, o)
         \/ \E l \in Levels : Ship(o, l)
         \/ \E b \in Boxes : PutIn(o, b) \/ TakeOut(o, b)
  PROVE  StepOK
<1>1. PlacesOK(at, mat, here) /\ here \in Levels
  BY DEF GameOK, PlacesOK
<1>2. /\ {Invent, Floor(here), Buried(here)} \subseteq MemChains(mat, here)
      /\ \A l \in Levels : Going(l) \in MemChains(mat, here)
      /\ \A m \in MonMemory(mat, here) : Minv(m) \in MemChains(mat, here)
  BY MemoryHas
<1>3. at[o] \in MemChains(mat, here) => o \in Memory(at, mat, here)
  BY <1>1, WhereIs
<1>4. /\ {Invent, Floor(here), Buried(here)} \subseteq Chain
      /\ \A l \in Levels : Going(l) \in Chain
      /\ \A m \in Mons : Minv(m) \in Chain
      /\ \A b \in Boxes : In(b) \in Chain
  BY <1>1 DEF Chain
<1>5. CASE PickUp(o)
  BY <1>2, <1>3, <1>4, <1>5, MoveStep DEF PickUp
<1>6. CASE Drop(o)
  BY <1>2, <1>3, <1>4, <1>6, MoveStep DEF Drop
<1>7. CASE Bury(o)
  BY <1>2, <1>3, <1>4, <1>7, MoveStep DEF Bury
<1>8. CASE Unearth(o)
  BY <1>2, <1>3, <1>4, <1>8, MoveStep DEF Unearth
<1>9. ASSUME NEW m \in Mons, Take(m, o) PROVE StepOK
  <2>1. m \in MonMemory(mat, here)
    BY <1>9 DEF Take, MonMemory
  <2>2. QED BY <1>2, <1>3, <1>4, <1>9, <2>1, MoveStep DEF Take
<1>10. ASSUME NEW l \in Levels, Ship(o, l) PROVE StepOK
  BY <1>2, <1>3, <1>4, <1>10, MoveStep DEF Ship
<1>11. ASSUME NEW b \in Boxes, PutIn(o, b) PROVE StepOK
  <2>1. b \in Objs /\ at[b] \in MemChains(mat, here)
    BY <1>2, <1>11, KindsAssumption DEF PutIn
  <2>2. b \in Memory(at, mat, here)
    BY <1>1, <2>1, WhereIs
  <2>3. o \in Memory(at, mat, here)
    BY <1>2, <1>3, <1>11 DEF PutIn
  <2>4. QED BY <1>4, <1>11, <2>2, <2>3, MoveStep DEF PutIn
<1>12. ASSUME NEW b \in Boxes, TakeOut(o, b) PROVE StepOK
  <2>1. b \in Objs /\ at[b] \in MemChains(mat, here)
    BY <1>2, <1>12, KindsAssumption DEF TakeOut
  <2>2. b \in Memory(at, mat, here)
    BY <1>1, <2>1, WhereIs
  <2>3. o \in Memory(at, mat, here)
    BY <1>1, <1>12, <2>2, WhereIs DEF TakeOut
  <2>4. QED BY <1>2, <1>4, <1>12, <2>3, MoveStep DEF TakeOut
<1>13. QED BY <1>5, <1>6, <1>7, <1>8, <1>9, <1>10, <1>11, <1>12

\* A pointer is set or cleared, and the chains stay.
LEMMA PointerStep ==
  ASSUME GameOK, UNCHANGED <<here, chains, lamps>>,
         ptr' \in Pointers(at, mat, here), twin' \in Twins,
         ptr'.piece \in {Null, twin'.piece},
         \/ twin'.piece = ptr'.piece
         \/ MealOK /\ ptr'.piece = ptr.piece /\ twin'.piece = twin.piece /\ kept' = kept
  PROVE  StepOK
<1>1. UNCHANGED <<here, at, mat, lit, lights, filed>>
  BY DEF chains, lamps
<1>2. GameOK'
  BY <1>1 DEF GameOK
<1>3. MealOK'
  BY <1>1 DEF MealOK
<1>4. QED BY <1>1, <1>2, <1>3 DEF StepOK, Lit

\* The hero begins a meal.
LEMMA EatStep ==
  ASSUME GameOK, MealOK, NEW o \in Objs, Eat(o)
  PROVE  StepOK /\ twin'.piece = o /\ UNCHANGED at /\ at[o] # Freed
<1>1. PlacesOK(at, mat, here) /\ ptr \in Pointers(at, mat, here) /\ twin \in Twins
  BY DEF GameOK
<1>2. /\ ptr' = [ptr EXCEPT !.piece = o] /\ twin' = [twin EXCEPT !.piece = o]
      /\ UNCHANGED <<here, chains, lamps>> /\ at[o] \in {Invent, Floor(here)}
  BY DEF Eat
<1>3. o \in Memory(at, mat, here)
  BY <1>1, <1>2, MemoryHas, WhereIs
<1>4. ptr' \in Pointers(at, mat, here) /\ ptr'.piece = o
  BY <1>1, <1>2, <1>3 DEF Pointers
<1>5. twin' \in Twins /\ twin'.piece = o
  BY <1>1, <1>2 DEF Twins
<1>6. StepOK
  BY <1>2, <1>4, <1>5, PointerStep
<1>7. at[o] # Freed
  BY <1>2, ChainsDiffer
<1>8. QED BY <1>2, <1>5, <1>6, <1>7 DEF chains

\* The lock, the target, the stuck monster and the steed.
LEMMA PointerMoves ==
  ASSUME GameOK, MealOK, UNCHANGED kept,
         \/ \E b \in Boxes : PickLock(b)
         \/ \E m \in Mons : Hit(m) \/ Stick(m) \/ Mount(m)
         \/ Release \/ Dismount
  PROVE  StepOK
<1>1. /\ PlacesOK(at, mat, here) /\ ptr \in Pointers(at, mat, here) /\ twin \in Twins
      /\ ptr.piece \in {Null, twin.piece}
  BY DEF GameOK, MealOK
<1>2. \A o \in Objs : at[o] \in {Invent, Floor(here)} => o \in Memory(at, mat, here)
  BY <1>1, MemoryHas, WhereIs
<1>3. MonsOn(mat, here) \subseteq MonMemory(mat, here)
  BY DEF MonMemory
<1>5. ASSUME NEW b \in Boxes, PickLock(b) PROVE StepOK
  <2>1. b \in Memory(at, mat, here)
    BY <1>2, <1>5, KindsAssumption DEF PickLock
  <2>2. ptr' \in Pointers(at, mat, here) /\ ptr'.piece = ptr.piece
    BY <1>1, <1>5, <2>1 DEF PickLock, Pointers
  <2>3. QED BY <1>1, <1>5, <2>2, PointerStep DEF PickLock
<1>6. ASSUME NEW m \in Mons, Hit(m) PROVE StepOK
  <2>1. ptr' \in Pointers(at, mat, here) /\ ptr'.piece = ptr.piece
    BY <1>1, <1>3, <1>6 DEF Hit, Pointers
  <2>2. QED BY <1>1, <1>6, <2>1, PointerStep DEF Hit
<1>7. ASSUME NEW m \in Mons, Stick(m) PROVE StepOK
  <2>1. ptr' \in Pointers(at, mat, here) /\ ptr'.piece = ptr.piece
    BY <1>1, <1>3, <1>7 DEF Stick, Pointers
  <2>2. QED BY <1>1, <1>7, <2>1, PointerStep DEF Stick
<1>8. ASSUME NEW m \in Mons, Mount(m) PROVE StepOK
  <2>1. ptr' \in Pointers(at, mat, here) /\ ptr'.piece = ptr.piece
    BY <1>1, <1>8 DEF Mount, Pointers
  <2>2. QED BY <1>1, <1>8, <2>1, PointerStep DEF Mount
<1>9. CASE Release
  <2>1. ptr' \in Pointers(at, mat, here) /\ ptr'.piece = ptr.piece
    BY <1>1, <1>9 DEF Release, Pointers
  <2>2. QED BY <1>1, <1>9, <2>1, PointerStep DEF Release
<1>10. CASE Dismount
  <2>1. ptr' \in Pointers(at, mat, here) /\ ptr'.piece = ptr.piece
    BY <1>1, <1>10 DEF Dismount, Pointers
  <2>2. QED BY <1>1, <1>10, <2>1, PointerStep DEF Dismount
<1>11. QED BY <1>5, <1>6, <1>7, <1>8, <1>9, <1>10

\* Lamps are lit and put out in memory.
LEMMA LampMoves ==
  ASSUME GameOK, MealOK, UNCHANGED kept, NEW o \in Objs, Light(o) \/ Snuff(o)
  PROVE  StepOK
<1>1. PlacesOK(at, mat, here) /\ UNCHANGED <<here, at, mat, ptr, twin, filed>>
  BY DEF GameOK, Light, Snuff, Dark, chains
<1>2. o \in Memory(at, mat, here)
  <2>1. CASE Light(o)
    BY <1>1, <2>1, MemoryHas, WhereIs DEF Light
  <2>2. CASE Snuff(o)
    BY <2>2 DEF Snuff, ObjsInMemory, Memory
  <2>3. QED BY <2>1, <2>2
<1>3. \A l \in Levels \ {here} : o \notin Local(at, mat, l)
  BY <1>2, SetsApart
<1>4. \/ o \in Lamps /\ lit' = lit \cup {o} /\ lights' = lights \cup {o}
      \/ lit' = lit \ {o} /\ lights' = lights \ {o}
  BY DEF Light, Snuff, Dark
<1>5. GameOK'
  BY <1>1, <1>4 DEF GameOK
<1>6. MealOK'
  BY <1>1 DEF MealOK
<1>7. ASSUME Lit PROVE Lit'
  BY <1>1, <1>2, <1>3, <1>4, <1>7 DEF Lit, LightsOf
<1>8. QED BY <1>5, <1>6, <1>7 DEF StepOK

\* What is used up was in memory, with what it contains.
LEMMA GoneFromMemory ==
  ASSUME GameOK, NEW o \in Objs, Destroy(o)
  PROVE  /\ {o} \cup {c \in Objs : at[c] = In(o)} \subseteq Memory(at, mat, here)
         /\ {o} \cup {c \in Objs : at[c] = In(o)} \subseteq Objs
<1>1. PlacesOK(at, mat, here) /\ o \in Memory(at, mat, here)
  BY DEF GameOK, Destroy, ObjsInMemory, Memory
<1>2. ASSUME NEW c \in Objs, at[c] = In(o) PROVE c \in Memory(at, mat, here)
  <2>1. at[c] \in Chain
    BY <1>1 DEF PlacesOK
  <2>2. \A k : In(o) \notin {Invent, Freed, Floor(k), Buried(k), Going(k), Minv(k)}
    BY ChainsDiffer
  <2>3. o \in Boxes
    BY <1>2, <2>1, <2>2, ChainsDiffer DEF Chain
  <2>4. QED BY <1>1, <1>2, <2>3, WhereIs
<1>3. QED BY <1>1, <1>2

\* An object is used up, with what it contains.
LEMMA DestroyStep ==
  ASSUME GameOK, MealOK, UNCHANGED kept, NEW o \in Objs, Destroy(o)
  PROVE  StepOK
<1> DEFINE gone == {o} \cup {c \in Objs : at[c] = In(o)}
           n == [c \in Objs |-> IF c \in gone THEN Freed ELSE at[c]]
<1>1. /\ at' = n /\ LetGo(gone)
      /\ lit' = lit \ gone /\ lights' = lights \ (lit \cap gone)
      /\ UNCHANGED <<here, mat, filed>> /\ o \in Memory(at, mat, here)
  BY DEF Destroy, ObjsInMemory, Memory
<1>2. PlacesOK(at, mat, here) /\ ptr \in Pointers(at, mat, here) /\ twin \in Twins
  BY DEF GameOK
<1>3. gone \subseteq Memory(at, mat, here)
  BY GoneFromMemory
<1>4. PlacesOK(n, mat, here)
  <2>1. n \in [Objs -> Chain]
    BY <1>2 DEF PlacesOK, Chain
  <2>2. \A b \in Boxes : b \in Objs /\ (n[b] = Freed \/ n[b] = at[b])
    BY KindsAssumption
  <2>3. \A c \in Boxes : Freed # In(c)
    BY ChainsDiffer
  <2>4. QED BY <1>2, <2>1, <2>2, <2>3 DEF PlacesOK
<1>5. \A x \in gone : n[x] = Freed /\ Outer(n, x) = Freed
  <2>1. \A x \in gone : n[x] = Freed
    OBVIOUS
  <2>2. \A b \in Boxes : In(b) # Freed
    BY ChainsDiffer
  <2> HIDE DEF n
  <2>3. QED BY <2>1, <2>2, OuterIs
<1>6. ASSUME NEW x \in Objs \ gone PROVE Outer(n, x) = Outer(at, x)
  <2>1. n[x] = at[x]
    OBVIOUS
  <2>2. CASE \A b \in Boxes : at[x] # In(b)
    <3> HIDE DEF n
    <3>1. QED BY <2>1, <2>2, OuterIs
  <2>3. ASSUME NEW b \in Boxes, at[x] = In(b) PROVE Outer(n, x) = Outer(at, x)
    <3>1. b \in Objs /\ b # o
      BY <2>3, KindsAssumption
    <3>2. at[b] # In(o)
      <4>1. CASE o \in Boxes
        BY <1>2, <4>1 DEF PlacesOK
      <4>2. CASE o \notin Boxes
        BY <1>2, <3>1, <4>2, ChainsDiffer DEF PlacesOK, Chain
      <4>3. QED BY <4>1, <4>2
    <3>3. n[b] = at[b]
      BY <3>1, <3>2
    <3> HIDE DEF n
    <3>4. QED BY <2>1, <2>3, <3>3, OuterIs
  <2>4. QED BY <2>2, <2>3
<1> HIDE DEF gone, n
<1>7. Memory(n, mat, here) = Memory(at, mat, here) \ gone
  <2>1. Freed \notin MemChains(mat, here)
    BY ChainsApart DEF MemChains
  <2>2. QED BY <1>5, <1>6, <2>1, InMemory
<1>8. ASSUME NEW l \in Levels \ {here}
      PROVE  Local(n, mat, l) = Local(at, mat, l) /\ gone \cap Local(at, mat, l) = {}
  <2>1. Local(at, mat, l) \cap Memory(at, mat, here) = {}
    BY SetsApart
  <2>2. Freed \notin LevelChains(mat, l)
    BY ChainsApart
  <2>3. gone \cap Local(at, mat, l) = {}
    BY <1>3, <2>1
  <2>4. QED BY <1>5, <1>6, <2>2, <2>3, SetsOfChains
<1>9. ptr' = [ptr EXCEPT !.piece = IF @ \in gone THEN Null ELSE @,
                         !.box = IF @ \in gone THEN Null ELSE @]
      /\ twin' = [twin EXCEPT !.piece = IF ptr.piece \in gone THEN Null ELSE @]
  BY <1>1 DEF LetGo
<1>10. ptr' \in Pointers(n, mat, here)
  BY <1>2, <1>7, <1>9 DEF Pointers
<1>11. twin' \in Twins
  BY <1>2, <1>9 DEF Twins
<1>12. GameOK'
  BY <1>1, <1>4, <1>10, <1>11 DEF GameOK
<1>13. MealOK'
  <2>1. CASE ptr.piece \in gone
    <3>1. ptr'.piece = Null /\ twin'.piece = Null
      BY <1>2, <1>9, <2>1 DEF Pointers, Twins
    <3>2. QED BY <3>1 DEF MealOK
  <2>2. CASE ptr.piece \notin gone
    <3>1. ptr'.piece = ptr.piece /\ twin'.piece = twin.piece
      BY <1>2, <1>9, <2>2 DEF Pointers, Twins
    <3>2. QED BY <1>1, <1>7, <3>1 DEF MealOK
  <2>3. QED BY <2>1, <2>2
<1>14. ASSUME Lit PROVE Lit'
  BY <1>1, <1>7, <1>8, <1>14 DEF Lit, LightsOf
<1>15. QED BY <1>12, <1>13, <1>14 DEF StepOK

\* The chain x becomes the chain y.
Renamed(a, x, y) == [o \in Objs |-> IF a[o] = x THEN y ELSE a[o]]

\* What was in the chain x, by itself or in a box, is in the chain y.
LEMMA RenamedChain ==
  ASSUME NEW a, NEW ma, NEW h, PlacesOK(a, ma, h), NEW x, NEW y \in Chain,
         \A b \in Boxes : In(b) \notin {x, y}
  PROVE  /\ PlacesOK(Renamed(a, x, y), ma, h)
         /\ \A o \in Objs : Outer(Renamed(a, x, y), o) = IF Outer(a, o) = x THEN y ELSE Outer(a, o)
<1> DEFINE n == Renamed(a, x, y)
<1>1. \A o \in Objs : n[o] = IF a[o] = x THEN y ELSE a[o]
  BY DEF Renamed
<1>2. PlacesOK(n, ma, h)
  <2>1. n \in [Objs -> Chain]
    BY DEF Renamed, PlacesOK
  <2>2. \A b, c \in Boxes : n[b] # In(c)
    BY <1>1, KindsAssumption DEF PlacesOK
  <2>3. QED BY <2>1, <2>2 DEF PlacesOK
<1> HIDE DEF n
<1>3. ASSUME NEW o \in Objs PROVE Outer(n, o) = IF Outer(a, o) = x THEN y ELSE Outer(a, o)
  <2>1. CASE \A b \in Boxes : a[o] # In(b)
    <3>1. \A b \in Boxes : n[o] # In(b)
      BY <1>1, <2>1
    <3>2. QED BY <1>1, <2>1, <3>1, OuterIs
  <2>2. ASSUME NEW b \in Boxes, a[o] = In(b)
        PROVE  Outer(n, o) = IF Outer(a, o) = x THEN y ELSE Outer(a, o)
    <3>1. n[o] = In(b) /\ b \in Objs
      BY <1>1, <2>2, KindsAssumption
    <3>2. Outer(n, o) = n[b] /\ Outer(a, o) = a[b]
      BY <2>2, <3>1, OuterIs
    <3>3. QED BY <1>1, <3>1, <3>2
  <2>3. QED BY <2>1, <2>2
<1>4. QED BY <1>2, <1>3 DEF n

\* The same objects are in memory and on each level if their chains say so.
LEMMA KeptIf ==
  ASSUME NEW a, NEW ma, NEW b, NEW mb, NEW h,
         \A o \in Objs : Outer(b, o) \in MemChains(mb, h) <=> Outer(a, o) \in MemChains(ma, h),
         \A l \in Levels \ {h} : \A o \in Objs :
           Outer(b, o) \in LevelChains(mb, l) <=> Outer(a, o) \in LevelChains(ma, l)
  PROVE  Kept(a, ma, b, mb, h)
<1>1. Memory(b, mb, h) = Memory(a, ma, h)
  <2>1. /\ Memory(a, ma, h) = {o \in Objs : Outer(a, o) \in MemChains(ma, h)}
        /\ Memory(b, mb, h) = {o \in Objs : Outer(b, o) \in MemChains(mb, h)}
    BY InMemory
  <2>2. QED BY <2>1
<1>2. ASSUME NEW l \in Levels \ {h} PROVE Local(b, mb, l) = Local(a, ma, l)
  <2>1. /\ Local(a, ma, l) = {o \in Objs : Outer(a, o) \in LevelChains(ma, l)}
        /\ Local(b, mb, l) = {o \in Objs : Outer(b, o) \in LevelChains(mb, l)}
    BY SetsOfChains
  <2>2. QED BY <2>1
<1>3. QED BY <1>1, <1>2 DEF Kept

\* A monster dies, and what it carried falls.
LEMMA KillStep ==
  ASSUME GameOK, MealOK, UNCHANGED kept, NEW m \in Mons, Kill(m)
  PROVE  StepOK
<1> DEFINE n == Renamed(at, Minv(m), Floor(here))
           mb == [mat EXCEPT ![m] = Freed]
<1>1. /\ PlacesOK(at, mat, here) /\ here \in Levels /\ mat \in [Mons -> MonChain]
      /\ ptr \in Pointers(at, mat, here)
  BY DEF GameOK, PlacesOK
<1>2. at' = n /\ mat' = mb /\ UNCHANGED <<here, twin, lit, lights, filed>> /\ mat[m] = OnMap(here)
  BY DEF Kill, Renamed, MonsOn, lamps
<1>3. /\ PlacesOK(n, mat, here)
      /\ \A o \in Objs : Outer(n, o) = IF Outer(at, o) = Minv(m) THEN Floor(here) ELSE Outer(at, o)
  <2>1. Floor(here) \in Chain /\ \A b \in Boxes : In(b) \notin {Minv(m), Floor(here)}
    BY <1>1, ChainsDiffer DEF Chain
  <2>2. QED BY <1>1, <2>1, RenamedChain
<1>4. mb \in [Mons -> MonChain] /\ mb[m] = Freed /\ \A k \in Mons \ {m} : mb[k] = mat[k]
  BY <1>1 DEF MonChain
<1>5. PlacesOK(n, mb, here)
  BY <1>3, <1>4 DEF PlacesOK
<1>6. /\ MonsOn(mb, here) = MonsOn(mat, here) \ {m} /\ MonsGoing(mb) = MonsGoing(mat)
      /\ m \notin MonsGoing(mat)
      /\ \A l \in Levels \ {here} : MonsOn(mb, l) = MonsOn(mat, l)
  <2>1. \A l : Freed # OnMap(l) /\ Freed # Going(l) /\ OnMap(here) # Going(l)
               /\ (l # here => OnMap(l) # OnMap(here))
    BY ChainsDiffer
  <2>2. QED BY <1>2, <1>4, <2>1 DEF MonsOn, MonsGoing
<1> HIDE DEF n, mb
<1>7. Kept(at, mat, n, mb, here)
  <2>1. MemChains(mb, here) = MemChains(mat, here) \ {Minv(m)}
    <3>1. \A k : /\ Minv(m) \notin {Invent, Floor(k), Buried(k), Going(k)}
                 /\ Minv(k) = Minv(m) => k = m
      BY ChainsDiffer
    <3>2. QED BY <1>6, <3>1 DEF MemChains, LevelChains, HeroChains
  <2>2. Floor(here) \in MemChains(mb, here) /\ Minv(m) \in MemChains(mat, here)
    BY <1>2 DEF MemChains, LevelChains, MonsOn
  <2>3. \A o \in Objs : Outer(n, o) \in MemChains(mb, here) <=> Outer(at, o) \in MemChains(mat, here)
    BY <1>3, <2>1, <2>2
  <2>4. ASSUME NEW l \in Levels \ {here}, NEW o \in Objs
        PROVE  Outer(n, o) \in LevelChains(mb, l) <=> Outer(at, o) \in LevelChains(mat, l)
    <3>1. LevelChains(mb, l) = LevelChains(mat, l)
      BY <1>6 DEF LevelChains
    <3>2. LevelChains(mat, l) \cap MemChains(mat, here) = {}
      BY MemApart
    <3>3. Floor(here) \in MemChains(mat, here)
      BY MemoryHas
    <3>4. QED BY <1>3, <2>2, <3>1, <3>2, <3>3
  <2>5. QED BY <2>3, <2>4, KeptIf
<1>8. ptr' \in Pointers(n, mb, here) /\ ptr'.piece = ptr.piece
  <2>1. ptr' = [ptr EXCEPT !.hitmon = IF @ = m THEN Null ELSE @,
                           !.stuck = IF @ = m THEN Null ELSE @,
                           !.steed = IF @ = m THEN Null ELSE @]
    BY DEF Kill
  <2>2. /\ Memory(n, mb, here) = Memory(at, mat, here)
        /\ MonMemory(mb, here) = MonMemory(mat, here) \ {m}
    BY <1>6, <1>7 DEF Kept, MonMemory
  <2>3. QED BY <1>1, <1>6, <2>1, <2>2 DEF Pointers
<1>9. GameOK'
  BY <1>2, <1>5, <1>8 DEF GameOK
<1>10. MealOK'
  BY <1>2, <1>7, <1>8 DEF MealOK, Kept
<1>11. ASSUME Lit PROVE Lit'
  BY <1>2, <1>7, <1>11 DEF Lit, LightsOf, Kept
<1>12. QED BY <1>9, <1>10, <1>11 DEF StepOK

\* A monster leaves for another level, with what it carries, and stays in memory.
LEMMA MigrateStep ==
  ASSUME GameOK, MealOK, UNCHANGED kept, NEW m \in Mons, NEW l \in Levels, Migrate(m, l)
  PROVE  StepOK
<1> DEFINE mb == [mat EXCEPT ![m] = Going(l)]
<1>1. /\ PlacesOK(at, mat, here) /\ here \in Levels /\ mat \in [Mons -> MonChain]
      /\ ptr \in Pointers(at, mat, here)
  BY DEF GameOK, PlacesOK
<1>2. /\ mat' = mb /\ UNCHANGED <<here, at, twin, lit, lights, filed>>
      /\ mat[m] = OnMap(here) /\ m # ptr.steed
  BY DEF Migrate, MonsOn, lamps
<1>3. mb \in [Mons -> MonChain] /\ mb[m] = Going(l) /\ \A k \in Mons \ {m} : mb[k] = mat[k]
  BY <1>1 DEF MonChain
<1>4. PlacesOK(at, mb, here)
  BY <1>1, <1>3 DEF PlacesOK
<1>5. /\ MonsOn(mb, here) = MonsOn(mat, here) \ {m} /\ m \in MonsOn(mat, here)
      /\ MonsGoing(mb) = MonsGoing(mat) \cup {m}
      /\ \A k \in Levels \ {here} : MonsOn(mb, k) = MonsOn(mat, k)
  <2>1. \A k : Going(l) # OnMap(k) /\ OnMap(here) # Going(k) /\ (k # here => OnMap(k) # OnMap(here))
    BY ChainsDiffer
  <2>2. QED BY <1>2, <1>3, <2>1 DEF MonsOn, MonsGoing
<1> HIDE DEF mb
<1>6. Kept(at, mat, at, mb, here)
  <2>1. MemChains(mb, here) = MemChains(mat, here)
    BY <1>5 DEF MemChains, LevelChains, HeroChains
  <2>2. \A k \in Levels \ {here} : LevelChains(mb, k) = LevelChains(mat, k)
    BY <1>5 DEF LevelChains
  <2>3. QED BY <2>1, <2>2, KeptIf
<1>7. ptr' \in Pointers(at, mb, here) /\ ptr'.piece = ptr.piece
  <2>1. ptr' = [ptr EXCEPT !.hitmon = IF @ = m THEN Null ELSE @]
    BY DEF Migrate
  <2>2. /\ Memory(at, mb, here) = Memory(at, mat, here)
        /\ MonMemory(mb, here) = MonMemory(mat, here)
    BY <1>5, <1>6 DEF Kept, MonMemory
  <2>3. QED BY <1>1, <1>2, <1>5, <2>1, <2>2 DEF Pointers
<1>8. GameOK'
  BY <1>2, <1>4, <1>7 DEF GameOK
<1>9. MealOK'
  BY <1>2, <1>6, <1>7 DEF MealOK, Kept
<1>10. ASSUME Lit PROVE Lit'
  BY <1>2, <1>6, <1>10 DEF Lit, LightsOf, Kept
<1>11. QED BY <1>8, <1>9, <1>10 DEF StepOK

-----------------------------------------------------------------------------
(* The hero changes level.                                                 *)

\* What falls and who follows the hero to level l is on its way there.
Fallen(a, fall, l) == [o \in Objs |-> IF o \in fall THEN Going(l) ELSE a[o]]
Followed(ma, dogs, l) == [m \in Mons |-> IF m \in dogs THEN Going(l) ELSE ma[m]]

\* What falls and who follows stays in memory, and stays the hero's.
LEMMA Departure ==
  ASSUME NEW a, NEW ma, NEW h, PlacesOK(a, ma, h), NEW l \in Levels,
         NEW dogs \in SUBSET MonsOn(ma, h), NEW fall \in SUBSET {o \in Objs : a[o] = Floor(h)}
  PROVE  /\ PlacesOK(Fallen(a, fall, l), Followed(ma, dogs, l), h)
         /\ Kept(a, ma, Fallen(a, fall, l), Followed(ma, dogs, l), h)
         /\ MonsOn(Followed(ma, dogs, l), h) = MonsOn(ma, h) \ dogs
<1> DEFINE n == Fallen(a, fall, l)
           mb == Followed(ma, dogs, l)
<1>1. /\ \A o \in Objs : n[o] = IF o \in fall THEN Going(l) ELSE a[o]
      /\ \A m \in Mons : mb[m] = IF m \in dogs THEN Going(l) ELSE ma[m]
  BY DEF Fallen, Followed
<1>2. /\ n \in [Objs -> Chain] /\ mb \in [Mons -> MonChain]
  BY DEF Fallen, Followed, PlacesOK, Chain, MonChain
<1> HIDE DEF n, mb
<1>3. PlacesOK(n, mb, h)
  <2>1. \A c \in Boxes : Going(l) # In(c)
    BY ChainsDiffer
  <2>2. QED BY <1>1, <1>2, <2>1, KindsAssumption DEF PlacesOK
<1>4. /\ MonsOn(mb, h) = MonsOn(ma, h) \ dogs
      /\ MonsGoing(mb) = MonsGoing(ma) \cup dogs
      /\ \A k \in Levels \ {h} : MonsOn(mb, k) = MonsOn(ma, k)
  <2>1. \A k : Going(l) # OnMap(k) /\ (k # h => OnMap(k) # OnMap(h))
    BY ChainsDiffer
  <2>2. \A m \in dogs : m \in Mons /\ ma[m] = OnMap(h)
    BY DEF MonsOn
  <2>3. QED BY <1>1, <2>1, <2>2 DEF MonsOn, MonsGoing
<1>5. MemChains(mb, h) = MemChains(ma, h)
  <2>1. MonsOn(mb, h) \cup MonsGoing(mb) = MonsOn(ma, h) \cup MonsGoing(ma)
    BY <1>4
  <2>2. QED BY <2>1 DEF MemChains, LevelChains, HeroChains
<1>6. \A k \in Levels \ {h} : LevelChains(mb, k) = LevelChains(ma, k)
  BY <1>4 DEF LevelChains
<1>7. ASSUME NEW o \in Objs
      PROVE  Outer(n, o) = Outer(a, o) \/ (Outer(a, o) = Floor(h) /\ Outer(n, o) = Going(l))
  <2>1. CASE \A b \in Boxes : a[o] # In(b)
    <3>1. \A b \in Boxes : n[o] # In(b)
      BY <1>1, <2>1, ChainsDiffer
    <3>2. Outer(n, o) = n[o] /\ Outer(a, o) = a[o]
      BY <2>1, <3>1, OuterIs
    <3>3. QED BY <1>1, <3>2
  <2>2. ASSUME NEW b \in Boxes, a[o] = In(b)
        PROVE  Outer(n, o) = Outer(a, o) \/ (Outer(a, o) = Floor(h) /\ Outer(n, o) = Going(l))
    <3>1. In(b) # Floor(h)
      BY ChainsDiffer
    <3>2. n[o] = In(b)
      BY <1>1, <2>2, <3>1
    <3>3. Outer(n, o) = n[b] /\ Outer(a, o) = a[b] /\ b \in Objs
      BY <2>2, <3>2, OuterIs, KindsAssumption
    <3>4. QED BY <1>1, <3>3
  <2>3. QED BY <2>1, <2>2
<1>8. Kept(a, ma, n, mb, h)
  <2>1. Floor(h) \in MemChains(ma, h) /\ Going(l) \in MemChains(ma, h)
    BY MemoryHas
  <2>2. \A k \in Levels \ {h} : LevelChains(ma, k) \cap MemChains(ma, h) = {}
    BY MemApart
  <2>3. QED BY <1>5, <1>6, <1>7, <2>1, <2>2, KeptIf
<1>9. QED BY <1>3, <1>4, <1>8 DEF n, mb

\* Who was on the way to level l arrives there, but for those that find no place.
Arrived(ma, lost, l) ==
  [m \in Mons |-> IF m \in lost THEN Going(l) ELSE IF ma[m] = Going(l) THEN OnMap(l) ELSE ma[m]]

\* What was on its way to level l, and who found no place there, is still in memory.
LEMMA Arrival ==
  ASSUME NEW a, NEW ma, NEW h, PlacesOK(a, ma, h), NEW l \in Levels,
         NEW lost \in SUBSET {m \in Mons : ma[m] \in {OnMap(l), Going(l)}}
  PROVE  /\ PlacesOK(Renamed(a, Going(l), Floor(l)), Arrived(ma, lost, l), l)
         /\ Kept(a, ma, Renamed(a, Going(l), Floor(l)), Arrived(ma, lost, l), l)
         /\ \A m \in Mons \ lost : ma[m] \in {OnMap(l), Going(l)} => m \in MonsOn(Arrived(ma, lost, l), l)
<1> DEFINE n == Renamed(a, Going(l), Floor(l))
           mb == Arrived(ma, lost, l)
<1>1. \A m \in Mons : mb[m] = IF m \in lost THEN Going(l)
                              ELSE IF ma[m] = Going(l) THEN OnMap(l) ELSE ma[m]
  BY DEF Arrived
<1>2. mb \in [Mons -> MonChain]
  BY DEF Arrived, PlacesOK, MonChain
<1>3. /\ PlacesOK(n, ma, h)
      /\ \A o \in Objs : Outer(n, o) = IF Outer(a, o) = Going(l) THEN Floor(l) ELSE Outer(a, o)
  <2>1. Floor(l) \in Chain /\ \A b \in Boxes : In(b) \notin {Going(l), Floor(l)}
    BY ChainsDiffer DEF Chain
  <2>2. QED BY <2>1, RenamedChain
<1> HIDE DEF n, mb
<1>4. PlacesOK(n, mb, l)
  BY <1>2, <1>3 DEF PlacesOK
<1>5. /\ MonsOn(mb, l) \cup MonsGoing(mb) = MonsOn(ma, l) \cup MonsGoing(ma)
      /\ \A k \in Levels \ {l} : MonsOn(mb, k) = MonsOn(ma, k)
  <2>1. \A k, j : OnMap(k) # Going(j) /\ (k # j => OnMap(k) # OnMap(j))
    BY ChainsDiffer
  <2>2. \A m \in lost : m \in Mons /\ ma[m] \in {OnMap(l), Going(l)}
    OBVIOUS
  <2>3. ASSUME NEW m \in Mons
        PROVE  m \in MonsOn(mb, l) \cup MonsGoing(mb) <=> m \in MonsOn(ma, l) \cup MonsGoing(ma)
    BY <1>1, <2>2 DEF MonsOn, MonsGoing
  <2>4. \A k \in Levels \ {l} : MonsOn(mb, k) = MonsOn(ma, k)
    BY <1>1, <2>1, <2>2 DEF MonsOn
  <2>5. MonsOn(mb, l) \cup MonsGoing(mb) \subseteq Mons /\ MonsOn(ma, l) \cup MonsGoing(ma) \subseteq Mons
    BY DEF MonsOn, MonsGoing
  <2>6. QED BY <2>3, <2>4, <2>5
<1>6. MemChains(mb, l) = MemChains(ma, l)
  BY <1>5 DEF MemChains, LevelChains, HeroChains
<1>7. Kept(a, ma, n, mb, l)
  <2>1. Floor(l) \in MemChains(ma, l) /\ Going(l) \in MemChains(ma, l)
    BY MemoryHas
  <2>2. \A k \in Levels \ {l} : LevelChains(ma, k) \cap MemChains(ma, l) = {}
    BY MemApart
  <2>3. \A k \in Levels \ {l} : LevelChains(mb, k) = LevelChains(ma, k)
    BY <1>5 DEF LevelChains
  <2>4. QED BY <1>3, <1>6, <2>1, <2>2, <2>3, KeptIf
<1>8. \A m \in Mons \ lost : ma[m] \in {OnMap(l), Going(l)} => m \in MonsOn(mb, l)
  BY <1>1 DEF MonsOn
<1>9. QED BY <1>4, <1>7, <1>8 DEF n, mb

\* The records with these fields alone: to be one of them says what each field is.
PtrOf(piece, box, hitmon, stuck, steed) ==
  [piece : {piece}, box : {box}, hitmon : {hitmon}, stuck : {stuck}, steed : {steed}]
TwinOf(piece, hitmon) == [piece : {piece}, hitmon : {hitmon}]

\* The level is left and another one read.
LEMMA GotoStep ==
  ASSUME GameOK, MealOK, UNCHANGED kept, NEW l \in Levels,
         NEW dogs \in SUBSET Mons, NEW fall \in SUBSET Objs, NEW lost \in SUBSET Mons,
         GotoLevel(l, dogs, fall, lost)
  PROVE  StepOK
<1> DEFINE a == Fallen(at, fall, l)
           ma == Followed(mat, dogs, l)
           n == Renamed(a, Going(l), Floor(l))
           mb == Arrived(ma, lost, l)
           objs == Local(a, ma, here)
           mons == MonsOn(ma, here)
           p == [DropTargets(ptr) EXCEPT !.box = PickKept(@)]
           t == Stamped(twin, p, objs, mons)
           q == Relinked(AfterFree(p, objs, mons), t, Local(a, ma, l), MonsOn(ma, l))
<1>1. /\ l # here /\ dogs \in SUBSET MonsOn(mat, here)
      /\ ptr.steed \in Mons => ptr.steed \in dogs
      /\ fall \in SUBSET {o \in Objs : at[o] = Floor(here)}
      /\ lost \in SUBSET {m \in Mons : ma[m] \in {OnMap(l), Going(l)}} /\ ptr.steed \notin lost
  BY DEF GotoLevel, Followed
<1>2. /\ here' = l /\ at' = n /\ mat' = mb
      /\ ptr' = [q EXCEPT !.hitmon = IF @ \in lost THEN Null ELSE @]
      /\ twin' = t /\ lit' = lit
  BY DEF GotoLevel, Followed, Fallen, Renamed, Arrived
<1>3. /\ filed' = [filed EXCEPT ![here] = lights \cap objs, ![l] = {}]
      /\ lights' = {Swept(s, objs) : s \in lights \ (lights \cap objs)} \cup filed[l]
  BY DEF GotoLevel, Followed, Fallen, LevelLights
<1>4. /\ PlacesOK(at, mat, here) /\ ptr \in Pointers(at, mat, here) /\ twin \in Twins
      /\ lights \subseteq Objs \cup {Wild, Abandoned} /\ filed \in [Levels -> SUBSET Objs]
      /\ here \in Levels /\ lit \subseteq Lamps
  BY DEF GameOK, PlacesOK
<1>5. /\ PlacesOK(a, ma, here) /\ Kept(at, mat, a, ma, here)
      /\ mons = MonsOn(mat, here) \ dogs
  BY <1>1, <1>4, Departure
<1>6. \A o \in Objs : at[o] = Invent => a[o] = Invent
  BY <1>1, ChainsDiffer DEF Fallen
<1>7. \A m \in dogs : ma[m] = Going(l)
  BY DEF Followed
<1> HIDE DEF a, ma
<1>8. /\ PlacesOK(n, mb, l) /\ Kept(a, ma, n, mb, l)
      /\ \A m \in Mons \ lost : ma[m] \in {OnMap(l), Going(l)} => m \in MonsOn(mb, l)
  BY <1>1, <1>5, Arrival
<1> HIDE DEF n, mb
\* What was in memory is on the level left or with the hero; what is, on the new
\* level or with the hero.
<1>9. /\ Memory(at, mat, here) = objs \cup Global(a, ma)
      /\ Memory(n, mb, l) = Local(a, ma, l) \cup Global(a, ma)
      /\ objs \cap Memory(n, mb, l) = {} /\ objs \subseteq Objs
      /\ Local(a, ma, l) \cap Memory(at, mat, here) = {}
  <2>1. /\ Memory(at, mat, here) = objs \cup Global(a, ma)
        /\ Memory(n, mb, l) = Local(a, ma, l) \cup Global(a, ma)
    BY <1>5, <1>8 DEF Kept, Memory
  <2>2. objs \cap Memory(a, ma, l) = {}
    BY <1>1, SetsApart
  <2>3. Local(a, ma, l) \cap Memory(a, ma, here) = {}
    BY <1>1, SetsApart
  <2>4. QED BY <2>1, <2>2, <2>3 DEF Memory, Local
<1>10. Memory(n, mb, l) \subseteq Objs /\ Local(a, ma, l) \subseteq Memory(n, mb, l)
  BY <1>9 DEF Local, Global
<1>11. \A k \in Levels \ {here, l} : Local(n, mb, k) = Local(at, mat, k)
  BY <1>5, <1>8 DEF Kept
<1>12. Local(n, mb, here) = objs /\ Local(at, mat, l) = Local(a, ma, l)
  BY <1>1, <1>4, <1>5, <1>8 DEF Kept
<1>13. Null \notin Objs \cup Mons /\ mons \subseteq Mons
  BY KindsAssumption DEF MonsOn
<1>14. PICK box \in {Null} \cup Global(a, ma) : PickKept(ptr.box) = box
  <2>1. ASSUME ptr.box \in Objs, at[ptr.box] = Invent PROVE ptr.box \in Global(a, ma)
    <3>1. a[ptr.box] = Invent
      BY <1>6, <2>1
    <3>2. \A b \in Boxes : Invent # In(b)
      BY ChainsDiffer
    <3>3. Outer(a, ptr.box) = Invent
      BY <3>1, <3>2, OuterIs
    <3>4. QED BY <2>1, <3>3 DEF Global
  <2>2. QED BY <2>1 DEF PickKept
<1> HIDE DEF objs, mons
<1>15. p \in PtrOf(ptr.piece, box, Null, Null, ptr.steed)
  <2>1. DropTargets(ptr) \in PtrOf(ptr.piece, ptr.box, Null, Null, ptr.steed)
    BY <1>4 DEF DropTargets, Pointers, PtrOf
  <2>2. p \in PtrOf(ptr.piece, PickKept(ptr.box), Null, Null, ptr.steed)
    BY <2>1 DEF PtrOf
  <2>3. QED BY <1>14, <2>2
<1> HIDE DEF p
<1>16. t \in TwinOf(IF ptr.piece \in objs THEN ptr.piece ELSE twin.piece, twin.hitmon)
  <2>1. p.piece = ptr.piece /\ p.hitmon = Null /\ Null \notin mons
    BY <1>13, <1>15 DEF PtrOf
  <2>2. QED BY <1>4, <2>1 DEF Stamped, Twins, TwinOf
<1> HIDE DEF t
<1>17. AfterFree(p, objs, mons) \in
         PtrOf(IF ptr.piece \in objs THEN Null ELSE ptr.piece, box, Null, Null, ptr.steed)
  <2>1. box \notin objs /\ Null \notin mons
    <3>1. Null \notin objs
      BY <1>9, <1>13
    <3>2. box \in Memory(n, mb, l) \/ box = Null
      BY <1>9, <1>14
    <3>3. QED BY <1>9, <1>13, <3>1, <3>2
  <2>2. ptr.steed \notin mons
    BY <1>1, <1>5, <1>13
  <2>3. QED BY <1>15, <2>1, <2>2 DEF AfterFree, Swept, PtrOf
<1> DEFINE piece == IF t.piece \in Local(a, ma, l) THEN t.piece
                    ELSE IF ptr.piece \in objs THEN Null ELSE ptr.piece
           hitmon == IF t.hitmon \in MonsOn(ma, l) \ lost THEN t.hitmon ELSE Null
<1>18. ptr' \in PtrOf(piece, box, hitmon, Null, ptr.steed)
  <2>1. q \in PtrOf(piece, box, IF t.hitmon \in MonsOn(ma, l) THEN t.hitmon ELSE Null,
                    Null, ptr.steed)
    <3>1. q = [AfterFree(p, objs, mons) EXCEPT
                 !.piece = IF t.piece \in Local(a, ma, l) THEN t.piece ELSE @,
                 !.hitmon = IF t.hitmon \in MonsOn(ma, l) THEN t.hitmon ELSE @]
      BY DEF Relinked
    <3> HIDE DEF q
    <3>2. QED BY <1>17, <3>1 DEF PtrOf
  <2> HIDE DEF q, piece
  <2>2. QED BY <1>2, <2>1 DEF PtrOf
<1>19. ptr' \in Pointers(n, mb, l)
  <2>1. ptr.piece \in {Null} \cup objs \cup Global(a, ma)
    BY <1>4, <1>9 DEF Pointers
  <2>2. piece \in {Null} \cup Memory(n, mb, l)
    BY <1>9, <2>1
  <2>3. hitmon \in {Null} \cup MonMemory(mb, l)
    <3>1. \A m \in MonsOn(ma, l) : m \in Mons /\ ma[m] = OnMap(l)
      BY DEF MonsOn
    <3>2. QED BY <1>8, <3>1 DEF MonMemory
  <2>4. ptr.steed \in {Null} \cup MonsOn(mb, l)
    <3>1. CASE ptr.steed \in Mons
      BY <1>1, <1>7, <1>8, <3>1
    <3>2. CASE ptr.steed \notin Mons
      BY <1>4, <3>2 DEF Pointers, MonsOn
    <3>3. QED BY <3>1, <3>2
  <2> HIDE DEF piece, hitmon
  <2>5. QED BY <1>9, <1>14, <1>18, <2>2, <2>3, <2>4 DEF Pointers, PtrOf
<1>20. twin' \in Twins
  BY <1>2, <1>4, <1>9, <1>16 DEF Twins, TwinOf
<1>21. GameOK'
  <2>1. lights' \subseteq Objs \cup {Wild, Abandoned}
    BY <1>3, <1>4 DEF Swept
  <2>2. filed' \in [Levels -> SUBSET Objs]
    BY <1>3, <1>4, <1>9
  <2>3. QED BY <1>2, <1>4, <1>8, <1>19, <1>20, <2>1, <2>2 DEF GameOK
<1>22. MealOK'
  <2>1. ptr.piece \in {Null, twin.piece} /\ ptr.piece \in {Null} \cup Memory(at, mat, here)
    BY <1>4 DEF MealOK, Pointers
  <2>2. /\ twin'.piece = IF ptr.piece \in objs THEN ptr.piece ELSE twin.piece
        /\ ptr'.piece = IF twin'.piece \in Local(a, ma, l) THEN twin'.piece
                        ELSE IF ptr.piece \in objs THEN Null ELSE ptr.piece
    BY <1>2, <1>16, <1>18 DEF PtrOf, TwinOf
  <2>3. ptr'.piece \in {Null, twin'.piece}
    BY <2>1, <2>2
  <2>4. ASSUME kept # "unwound", twin'.piece \in Memory(n, mb, l), twin'.piece \notin Local(a, ma, l)
        PROVE  ptr'.piece = twin'.piece
    <3>1. twin'.piece \in Global(a, ma) /\ twin'.piece \notin objs
      BY <1>9, <2>4
    <3>2. twin'.piece = twin.piece /\ ptr.piece \notin objs /\ ptr'.piece = ptr.piece
      BY <2>2, <2>4, <3>1
    <3>3. QED BY <1>9, <2>4, <3>1, <3>2 DEF MealOK
  <2>5. QED BY <1>2, <2>2, <2>3, <2>4 DEF MealOK
<1>23. ASSUME Lit PROVE Lit'
  <2>1. /\ lights = lit \cap Memory(at, mat, here)
        /\ \A k \in Levels \ {here} : filed[k] = lit \cap Local(at, mat, k)
    BY <1>23 DEF Lit, LightsOf
  <2>2. lights' = (lights \ objs) \cup filed[l]
    BY <1>3 DEF Swept
  <2>3. lights' = lit' \cap Memory(n, mb, l)
    BY <1>1, <1>2, <1>9, <1>12, <2>1, <2>2
  <2>4. ASSUME NEW k \in Levels \ {l} PROVE filed'[k] = lit' \cap Local(n, mb, k)
    <3>1. CASE k = here
      BY <1>1, <1>2, <1>3, <1>4, <1>9, <1>12, <2>1, <3>1
    <3>2. CASE k # here
      BY <1>2, <1>3, <1>4, <1>11, <2>1, <3>2
    <3>3. QED BY <3>1, <3>2
  <2>5. QED BY <1>2, <2>3, <2>4 DEF Lit, LightsOf
<1>24. QED BY <1>21, <1>22, <1>23 DEF StepOK

\* Every step of the game but eating.
LEMMA GameStep ==
  ASSUME GameOK, MealOK, UNCHANGED kept, ElseNext
  PROVE  StepOK
BY ObjectMoves, PointerMoves, LampMoves, DestroyStep, KillStep, MigrateStep, GotoStep DEF ElseNext

\* An object that is not freed is freed by a Destroy only.
LEMMA FreedBy ==
  ASSUME GameOK, ElseNext, NEW x \in Objs, at[x] # Freed, at'[x] = Freed
  PROVE  \E o \in Objs : Destroy(o)
<1>1. at \in [Objs -> Chain]
  BY DEF GameOK, PlacesOK
<1>2. \A k : Freed \notin {Invent, Floor(k), Buried(k), Going(k), In(k), Minv(k)}
  BY ChainsDiffer
<1>3. ASSUME NEW o \in Objs, NEW place, Move(o, place), place # Freed PROVE FALSE
  BY <1>1, <1>3 DEF Move
<1>4. ASSUME NEW o \in Objs, PickUp(o) \/ Drop(o) \/ Bury(o) \/ Unearth(o) PROVE FALSE
  BY <1>2, <1>3, <1>4 DEF PickUp, Drop, Bury, Unearth
<1>5. ASSUME NEW o \in Objs, NEW m \in Mons, Take(m, o) PROVE FALSE
  BY <1>2, <1>3, <1>5 DEF Take
<1>6. ASSUME NEW o \in Objs, NEW l \in Levels, Ship(o, l) PROVE FALSE
  BY <1>2, <1>3, <1>6 DEF Ship
<1>7. ASSUME NEW o \in Objs, NEW b \in Boxes, PutIn(o, b) \/ TakeOut(o, b) PROVE FALSE
  BY <1>2, <1>3, <1>7 DEF PutIn, TakeOut
<1>8. ASSUME NEW m \in Mons, Kill(m) PROVE FALSE
  BY <1>2, <1>8 DEF Kill
<1>9. ASSUME NEW l \in Levels, NEW dogs, NEW fall, NEW lost, GotoLevel(l, dogs, fall, lost)
      PROVE  FALSE
  <2>1. at' = Renamed(Fallen(at, fall, l), Going(l), Floor(l))
    BY <1>9 DEF GotoLevel, Fallen, Renamed
  <2>2. QED BY <1>2, <2>1 DEF Fallen, Renamed
<1>10. UNCHANGED at => FALSE
  OBVIOUS
<1>11. QED
  BY <1>4, <1>5, <1>6, <1>7, <1>8, <1>9, <1>10
  DEF ElseNext, Light, Snuff, PickLock, Hit, Stick, Mount, Migrate, Release, Dismount, chains

\* The id of the meal goes when the food does, and not before.
LEMMA MealFate ==
  ASSUME GameOK, MealOK, ElseNext, kept # "unwound",
         twin.piece \in Objs => at[twin.piece] # Freed
  PROVE  twin'.piece = IF twin.piece \in Objs /\ at'[twin.piece] = Freed THEN Null ELSE twin.piece
<1>1. /\ ptr.piece \in {Null, twin.piece} /\ Null \notin Objs /\ twin \in Twins
      /\ twin.piece \in Memory(at, mat, here) => ptr.piece = twin.piece
  BY KindsAssumption DEF GameOK, MealOK
<1>2. ASSUME NEW o \in Objs, Destroy(o)
      PROVE  twin'.piece = IF twin.piece \in Objs /\ at'[twin.piece] = Freed THEN Null ELSE twin.piece
  <2> DEFINE gone == {o} \cup {c \in Objs : at[c] = In(o)}
  <2>1. at' = [c \in Objs |-> IF c \in gone THEN Freed ELSE at[c]] /\ LetGo(gone)
    BY <1>2 DEF Destroy
  <2>2. gone \subseteq Memory(at, mat, here) /\ gone \subseteq Objs
    BY <1>2, GoneFromMemory
  <2> HIDE DEF gone
  <2>3. twin'.piece = IF ptr.piece \in gone THEN Null ELSE twin.piece
    BY <1>1, <2>1 DEF LetGo, Twins
  <2>4. twin.piece \in Objs => (at'[twin.piece] = Freed <=> twin.piece \in gone)
    BY <2>1
  <2>5. QED BY <1>1, <2>2, <2>3, <2>4
<1>3. CASE ~\E o \in Objs : Destroy(o)
  <2>1. twin.piece \in Objs => at'[twin.piece] # Freed
    BY <1>3, FreedBy
  <2>2. ASSUME NEW l \in Levels, NEW dogs, NEW fall, NEW lost, GotoLevel(l, dogs, fall, lost)
        PROVE  twin'.piece = twin.piece
    <3> DEFINE a == Fallen(at, fall, l)
               ma == Followed(mat, dogs, l)
               objs == Local(a, ma, here)
               mons == MonsOn(ma, here)
               p == [DropTargets(ptr) EXCEPT !.box = PickKept(@)]
    <3>1. twin' = Stamped(twin, p, objs, mons)
      BY <2>2 DEF GotoLevel, Followed, Fallen
    <3>2. objs \subseteq Objs /\ p.piece = ptr.piece
      <4>1. objs \subseteq Objs
        BY DEF Local
      <4>2. ptr \in Pointers(at, mat, here)
        BY DEF GameOK
      <4>3. QED BY <4>1, <4>2 DEF DropTargets, Pointers
    <3> HIDE DEF objs, mons, p
    <3>3. QED BY <1>1, <3>1, <3>2 DEF Stamped, Twins
  <2>3. ASSUME UNCHANGED twin PROVE twin'.piece = twin.piece
    BY <2>3
  <2>4. twin'.piece = twin.piece
    BY <1>3, <2>2, <2>3
    DEF ElseNext, PickUp, Drop, Bury, Unearth, Take, Ship, PutIn, TakeOut, Light, Snuff,
        PickLock, Hit, Stick, Mount, Kill, Migrate, Release, Dismount
  <2>5. QED BY <2>1, <2>4
<1>4. QED BY <1>2, <1>3

-----------------------------------------------------------------------------
(* The steps of the host.                                                  *)

IInvStep == IInv' /\ (Kit \cap Lamps = {} /\ LightsInv => LightsInv')

\* A new game.
LEMMA InitIInv == Init => IInv /\ LightsInv
<1> SUFFICES ASSUME Init PROVE IInv /\ LightsInv
  OBVIOUS
<1>1. /\ here \in Levels
      /\ at = [o \in Objs |-> IF o \in Kit THEN Invent ELSE Floor(here)]
      /\ mat = [m \in Mons |-> OnMap(here)] /\ ptr = NoPointers /\ twin = NoTwins
      /\ lit = {} /\ lights = {} /\ filed = [l \in Levels |-> {}]
      /\ phase = "play" /\ saved = Null /\ rc = "ok" /\ meal = Null /\ kept = "kept"
  BY DEF Init, TInit
<1>2. PlacesOK(at, mat, here)
  <2>1. \A c \in Boxes : Invent # In(c) /\ Floor(here) # In(c)
    BY ChainsDiffer
  <2>2. at \in [Objs -> Chain] /\ mat \in [Mons -> MonChain]
    BY <1>1 DEF Chain, MonChain
  <2>3. \A b, c \in Boxes : at[b] # In(c)
    BY <1>1, <2>1, KindsAssumption
  <2>4. QED BY <1>1, <2>2, <2>3 DEF PlacesOK
<1>3. ptr \in Pointers(at, mat, here) /\ twin \in Twins /\ ptr.piece = Null /\ twin.piece = Null
  BY <1>1 DEF Pointers, NoPointers, NoTwins, Twins
<1>4. GameOK
  BY <1>1, <1>2, <1>3 DEF GameOK
<1>5. MealOK
  BY <1>3 DEF MealOK
<1>6. HostOK /\ LoadingOK /\ HistoryOK
  BY <1>1, <1>3, KindsAssumption DEF HostOK, LoadingOK, Phases, HistoryOK, MealIs, Keeping
<1>7. LightsInv
  BY <1>1 DEF LightsInv, LightsOf
<1>8. QED BY <1>4, <1>5, <1>6, <1>7 DEF IInv

\* The game goes on.
LEMMA PlayStep ==
  ASSUME IInv, Play
  PROVE  IInvStep
<1>1. phase = "play" /\ saved = Null /\ UNCHANGED <<phase, saved, rc>>
  BY DEF Play, host
<1>2. GameOK /\ MealOK /\ MealIs(twin.piece, at) /\ meal \in Objs \cup {Null} /\ kept \in Keeping
  BY <1>1 DEF IInv, HistoryOK
<1>3. StepOK /\ HistoryOK'
  <2>1. ASSUME NEW o \in Objs, Eat(o), meal' = o, kept' = "kept" PROVE StepOK /\ HistoryOK'
    BY <1>1, <1>2, <2>1, EatStep DEF HistoryOK, MealIs, Keeping
  <2>2. ASSUME ElseNext, UNCHANGED kept,
               meal' = IF meal \in Objs /\ at'[meal] = Freed THEN Null ELSE meal
        PROVE  StepOK /\ HistoryOK'
    <3>1. StepOK
      BY <1>2, <2>2, GameStep
    <3>2. meal' \in Objs \cup {Null} /\ (meal' \in Objs => at'[meal'] # Freed)
      BY <1>2, <2>2, KindsAssumption
    <3>3. CASE kept = "kept"
      <4>1. twin.piece = meal /\ (twin.piece \in Objs => at[twin.piece] # Freed)
        BY <1>2, <3>3 DEF MealIs
      <4>2. twin'.piece = meal'
        BY <1>2, <2>2, <3>3, <4>1, MealFate
      <4>3. QED BY <1>1, <1>2, <2>2, <3>1, <3>2, <3>3, <4>2 DEF HistoryOK, MealIs
    <3>4. CASE kept = "away"
      <4>1. twin.piece = Null /\ Null \notin Objs
        BY <1>2, <3>4, KindsAssumption DEF MealIs
      <4>2. twin'.piece = Null
        BY <1>2, <2>2, <3>4, <4>1, MealFate
      <4>3. QED BY <1>1, <1>2, <2>2, <3>1, <3>2, <3>4, <4>2 DEF HistoryOK, MealIs
    <3>5. CASE kept = "unwound"
      BY <1>1, <1>2, <2>2, <3>1, <3>2, <3>5 DEF HistoryOK, MealIs
    <3>6. QED BY <1>2, <3>3, <3>4, <3>5 DEF Keeping
  <2>3. QED BY <2>1, <2>2 DEF Play
<1>4. HostOK' /\ LoadingOK'
  BY <1>1 DEF IInv, HostOK, LoadingOK
<1>5. ASSUME LightsInv PROVE LightsInv'
  BY <1>1, <1>3, <1>5 DEF StepOK, Lit, LightsInv
<1>6. QED BY <1>3, <1>4, <1>5 DEF StepOK, IInv, IInvStep

\* A save of the level, or the host goes on without the blobs.
LEMMA SaveLevelStep ==
  ASSUME IInv, SaveLevel \/ Continue
  PROVE  IInvStep
<1>1. /\ UNCHANGED <<here, at, mat, ptr, twin, lit, lights, filed, rc, meal, kept>> /\ saved' = Null
      /\ phase' \in {"play", "levelSaved"} /\ phase \in {"play", "saved"}
  BY DEF SaveLevel, Continue, tvars, chains, lamps, history
<1>2. GameOK' /\ MealOK' /\ HistoryOK'
  BY <1>1 DEF IInv, GameOK, MealOK, HistoryOK, MealIs
<1>3. HostOK' /\ LoadingOK'
  BY <1>1 DEF IInv, HostOK, LoadingOK, Phases
<1>4. ASSUME LightsInv PROVE LightsInv'
  BY <1>1, <1>4 DEF LightsInv
<1>5. QED BY <1>2, <1>3, <1>4 DEF IInv, IInvStep

\* The hero is saved: the blobs hold what is in the game.
LEMMA SavePlayerStep ==
  ASSUME IInv, SavePlayer
  PROVE  IInvStep
<1>1. /\ UNCHANGED <<here, at, mat, ptr, lit, lights, filed, rc, meal>>
      /\ phase = "levelSaved" /\ phase' = "saved"
      /\ kept' = IF kept = "kept" /\ meal \notin {Null} \cup ObjsInMemory THEN "away" ELSE kept
      /\ twin' = [piece |-> ptr.piece, hitmon |-> ptr.hitmon]
      /\ saved' = [here |-> here, at |-> at, mat |-> mat, lit |-> lit, filed |-> filed,
                   levelLights |-> LevelLights(at, mat, here),
                   heroLights |-> lights \ LevelLights(at, mat, here), ids |-> ptr]
  BY DEF SavePlayer, PutBack, StampedIds, Ids, chains, lamps
<1>2. /\ PlacesOK(at, mat, here) /\ ptr \in Pointers(at, mat, here) /\ twin \in Twins
      /\ lights \subseteq Objs \cup {Wild, Abandoned} /\ filed \in [Levels -> SUBSET Objs]
      /\ lit \subseteq Lamps
  BY DEF IInv, GameOK
<1>3. Memory(at, mat, here) \subseteq Objs /\ MonMemory(mat, here) \subseteq Mons
      /\ MonsOn(mat, here) \subseteq Mons
  BY DEF Memory, Local, Global, MonMemory, MonsOn, MonsGoing
<1>4. /\ ptr \in [piece : Objs \cup {Null}, box : Objs \cup {Null}, hitmon : Mons \cup {Null},
                  stuck : Mons \cup {Null}, steed : Mons \cup {Null}]
      /\ ptr.piece \in Objs \cup {Null} /\ ptr.hitmon \in Mons \cup {Null}
  BY <1>2, <1>3 DEF Pointers
<1>5. GameOK'
  BY <1>1, <1>2, <1>4 DEF GameOK, Twins
<1>6. MealOK'
  BY <1>1 DEF MealOK
<1>7. saved' \in Blobs
  <2>1. LevelLights(at, mat, here) \subseteq lights
    BY DEF LevelLights
  <2>2. lit \subseteq Objs
    BY <1>2, KindsAssumption
  <2>3. QED BY <1>1, <1>2, <1>4, <2>1, <2>2 DEF Blobs, PlacesOK
<1>8. saved'.here = here /\ saved'.at = at /\ saved'.mat = mat /\ saved'.lit = lit
      /\ saved'.ids = ptr /\ saved'.filed = filed
      /\ saved'.levelLights = LevelLights(at, mat, here)
      /\ saved'.heroLights = lights \ LevelLights(at, mat, here)
  BY <1>1
<1>9. HostOK'
  BY <1>1, <1>2, <1>7, <1>8, DiskAssumption DEF IInv, HostOK, BlobOK, Phases
<1>10. LoadingOK'
  BY <1>1 DEF LoadingOK
<1>11. HistoryOK'
  <2>1. /\ MealIs(twin.piece, at) /\ meal \in Objs \cup {Null} /\ kept \in Keeping
        /\ ptr.piece \in {Null, twin.piece}
        /\ kept # "unwound" /\ twin.piece \in Memory(at, mat, here) => ptr.piece = twin.piece
    BY <1>1 DEF IInv, HistoryOK, MealOK
  <2>2. ptr.piece \in {Null} \cup Memory(at, mat, here)
    BY <1>2 DEF Pointers
  <2>3. ObjsInMemory = Memory(at, mat, here)
    BY DEF ObjsInMemory, Memory
  <2>4. kept' = "kept" => ptr.piece = meal
    BY <1>1, <2>1, <2>2, <2>3 DEF MealIs
  <2>5. kept' = "away" => ptr.piece = Null
    BY <1>1, <2>1, <2>2, <2>3 DEF MealIs
  <2>6. MealIs(ptr.piece, at)'
    BY <1>1, <2>1, <2>4, <2>5 DEF MealIs
  <2>7. twin'.piece = ptr'.piece /\ saved'.ids.piece = ptr'.piece /\ saved'.at = at'
    BY <1>1, <1>8
  <2>8. kept' \in Keeping
    BY <1>1, <2>1 DEF Keeping
  <2>9. QED BY <1>1, <2>1, <2>6, <2>7, <2>8 DEF HistoryOK
<1>12. ASSUME LightsInv PROVE LightsInv'
  <2>1. LightsOf(at, mat, here, lit, lights, filed)
    BY <1>12 DEF SavePlayer, LightsInv
  <2>2. saved'.levelLights \cup saved'.heroLights = lights
    BY <1>8 DEF LevelLights
  <2>3. saved'.levelLights = lit \cap Local(at, mat, here)
    BY <1>8, <2>1 DEF LevelLights, LightsOf, Memory
  <2>4. BlobLevelObjs' = Local(at, mat, here)
    BY <1>8 DEF BlobLevelObjs
  <2>5. QED BY <1>1, <1>8, <2>1, <2>2, <2>3, <2>4 DEF LightsInv
<1>13. QED BY <1>5, <1>6, <1>9, <1>10, <1>11, <1>12 DEF IInv, IInvStep

\* A save of the hero is unwound: the game forgets two pointers.
LEMMA UnwoundStep ==
  ASSUME IInv, SavePlayerUnwound
  PROVE  IInvStep
<1>1. /\ UNCHANGED <<here, at, mat, lit, lights, filed, saved, rc, meal>>
      /\ phase = "levelSaved" /\ phase' = "play" /\ kept' = "unwound"
      /\ twin' = [piece |-> ptr.piece, hitmon |-> ptr.hitmon]
      /\ ptr' = [ptr EXCEPT !.piece = Null, !.hitmon = Null]
  BY DEF SavePlayerUnwound, StampedIds, Ids, chains, lamps
<1>2. PlacesOK(at, mat, here) /\ ptr \in Pointers(at, mat, here)
  BY DEF IInv, GameOK
<1>3. Memory(at, mat, here) \subseteq Objs /\ MonMemory(mat, here) \subseteq Mons
  BY DEF Memory, Local, Global, MonMemory, MonsOn, MonsGoing
<1>4. ptr' \in Pointers(at, mat, here) /\ ptr'.piece = Null
  BY <1>1, <1>2 DEF Pointers
<1>5. twin' \in Twins
  BY <1>1, <1>2, <1>3 DEF Pointers, Twins
<1>6. GameOK'
  BY <1>1, <1>4, <1>5 DEF IInv, GameOK
<1>7. MealOK'
  BY <1>1, <1>4 DEF MealOK
<1>8. HostOK' /\ LoadingOK' /\ HistoryOK'
  BY <1>1 DEF IInv, HostOK, LoadingOK, Phases, HistoryOK, MealIs, Keeping
<1>9. ASSUME LightsInv PROVE LightsInv'
  BY <1>1, <1>9, <1>8 DEF LightsInv, HostOK, IInv
<1>10. QED BY <1>6, <1>7, <1>8, <1>9 DEF IInv, IInvStep

\* What the blobs hold, as sets of the saved game.
LEMMA InBlobs ==
  ASSUME BlobOK
  PROVE  /\ BlobLevelObjs \cap BlobHeroObjs = {} /\ BlobLevelMons \cap BlobHeroMons = {}
         /\ BlobLevelObjs \cup BlobHeroObjs = Memory(saved.at, saved.mat, saved.here)
         /\ BlobLevelMons \cup BlobHeroMons = MonMemory(saved.mat, saved.here)
         /\ BlobLevelObjs \cup BlobHeroObjs \subseteq Objs
         /\ BlobLevelMons \cup BlobHeroMons \subseteq Mons
<1>1. BlobLevelObjs \cap BlobHeroObjs = {}
  BY SetsApart DEF BlobLevelObjs, BlobHeroObjs
<1>2. BlobLevelMons \cap BlobHeroMons = {}
  BY ChainsApart DEF BlobLevelMons, BlobHeroMons
<1>3. BlobLevelObjs \cup BlobHeroObjs = Memory(saved.at, saved.mat, saved.here)
  BY DEF BlobLevelObjs, BlobHeroObjs, Memory
<1>4. BlobLevelMons \cup BlobHeroMons = MonMemory(saved.mat, saved.here)
  BY DEF BlobLevelMons, BlobHeroMons, MonMemory
<1>5. BlobLevelObjs \cup BlobHeroObjs \subseteq Objs
  BY DEF BlobLevelObjs, BlobHeroObjs, Local, Global
<1>6. BlobLevelMons \cup BlobHeroMons \subseteq Mons
  BY DEF BlobLevelMons, BlobHeroMons, MonsOn, MonsGoing
<1>7. QED BY <1>1, <1>2, <1>3, <1>4, <1>5, <1>6

\* The chains of a game, some of them freed.
LEMMA ButOK ==
  ASSUME NEW a, NEW ma, NEW h, PlacesOK(a, ma, h), NEW objs, NEW mons
  PROVE  /\ PlacesOK([o \in Objs |-> IF o \in objs THEN Freed ELSE a[o]],
                     [m \in Mons |-> IF m \in mons THEN Freed ELSE ma[m]], h)
<1> DEFINE n == [o \in Objs |-> IF o \in objs THEN Freed ELSE a[o]]
           mb == [m \in Mons |-> IF m \in mons THEN Freed ELSE ma[m]]
<1>1. n \in [Objs -> Chain] /\ mb \in [Mons -> MonChain]
  BY DEF PlacesOK, Chain, MonChain
<1>2. \A b \in Boxes : n[b] = Freed \/ n[b] = a[b]
  BY KindsAssumption
<1>3. \A c \in Boxes : Freed # In(c)
  BY ChainsDiffer
<1> HIDE DEF n, mb
<1>4. PlacesOK(n, mb, h)
  BY <1>1, <1>2, <1>3 DEF PlacesOK
<1>5. QED BY <1>4 DEF n, mb

\* A new game is started, to load into.
LEMMA NewGameStep ==
  ASSUME IInv, NewGame
  PROVE  IInvStep
<1> DEFINE objs == BlobLevelObjs \cup BlobHeroObjs
           mons == BlobLevelMons \cup BlobHeroMons
<1>1. /\ at' = [o \in Objs |-> IF o \in objs THEN Freed ELSE saved.at[o]]
      /\ mat' = [m \in Mons |-> IF m \in mons THEN Freed ELSE saved.mat[m]]
      /\ here' = saved.here /\ lit' = saved.lit \ objs /\ filed' = saved.filed
      /\ ptr' = NoPointers /\ twin' = NoTwins /\ lights' = {}
      /\ phase' = "fresh" /\ rc' = "ok" /\ UNCHANGED <<saved, meal, kept>>
      /\ phase \in {"saved", "fresh", "levelLoaded"}
  BY DEF NewGame, history
<1>2. saved # Null /\ BlobOK /\ HostOK
  BY <1>1 DEF IInv, HostOK
<1>3. PlacesOK(at', mat', here')
  BY <1>1, <1>2, ButOK DEF BlobOK
<1>4. /\ ptr' \in Pointers(at', mat', here') /\ twin' \in Twins
      /\ ptr'.piece = Null /\ twin'.piece = Null
  BY <1>1 DEF Pointers, NoPointers, NoTwins, Twins
<1>5. GameOK'
  <2>1. filed' \in [Levels -> SUBSET Objs] /\ lit' \subseteq Lamps
    BY <1>1, <1>2 DEF BlobOK, Blobs
  <2>2. QED BY <1>1, <1>3, <1>4, <2>1 DEF GameOK
<1>6. MealOK'
  <2>1. Null \notin Memory(at', mat', here')
    BY KindsAssumption DEF Memory, Local, Global
  <2>2. QED BY <1>4, <2>1 DEF MealOK
<1>7. HostOK' /\ HistoryOK'
  BY <1>1, <1>2 DEF HostOK, BlobOK, Phases, IInv, HistoryOK, MealIs
<1>8. LoadingOK'
  <2>1. /\ BlobHeroObjs' = BlobHeroObjs /\ BlobLevelObjs' = BlobLevelObjs
        /\ BlobHeroMons' = BlobHeroMons /\ BlobLevelMons' = BlobLevelMons
    BY <1>1 DEF BlobHeroObjs, BlobLevelObjs, BlobHeroMons, BlobLevelMons
  <2>2. BlobHeroObjs \cup BlobLevelObjs = objs /\ BlobHeroMons \cup BlobLevelMons = mons
    OBVIOUS
  <2> HIDE DEF objs, mons
  <2>3. /\ at' = [o \in Objs |-> IF o \in objs THEN Freed ELSE saved'.at[o]]
        /\ mat' = [m \in Mons |-> IF m \in mons THEN Freed ELSE saved'.mat[m]]
    BY <1>1
  <2>4. SavedBut(BlobHeroObjs \cup BlobLevelObjs, BlobHeroMons \cup BlobLevelMons)'
    BY <2>1, <2>2, <2>3 DEF SavedBut
  <2>5. QED BY <1>1, <2>4 DEF LoadingOK
<1>9. ASSUME LightsInv PROVE LightsInv'
  <2>1. BlobLevelObjs' = BlobLevelObjs
    BY <1>1 DEF BlobLevelObjs
  <2>2. objs = Memory(saved.at, saved.mat, saved.here)
    BY <1>2, InBlobs
  <2>3. QED BY <1>1, <1>2, <1>9, <2>1, <2>2 DEF LightsInv
<1>10. QED BY <1>5, <1>6, <1>7, <1>8, <1>9 DEF IInv, IInvStep

\* The level is loaded.
LEMMA LoadLevelStep ==
  ASSUME IInv, LoadLevel
  PROVE  IInvStep
<1>1. /\ phase = "fresh" /\ rc = "ok"
      /\ at' = [o \in Objs |-> IF o \in BlobLevelObjs THEN saved.at[o] ELSE at[o]]
      /\ mat' = [m \in Mons |-> IF m \in BlobLevelMons THEN saved.mat[m] ELSE mat[m]]
      /\ ptr' = Relinked(ptr, twin, BlobLevelObjs, BlobLevelMons)
      /\ lit' = lit \cup (saved.lit \cap BlobLevelObjs)
      /\ lights' = KitFirst(saved.levelLights)
      /\ phase' = "levelLoaded" /\ UNCHANGED <<here, twin, filed, saved, rc, meal, kept>>
  BY DEF LoadLevel, history
<1>2. saved # Null /\ BlobOK /\ HostOK
  BY <1>1 DEF IInv, HostOK
<1>3. /\ here = saved.here /\ ptr = NoPointers /\ twin = NoTwins
      /\ at = [o \in Objs |-> IF o \in BlobHeroObjs \cup BlobLevelObjs THEN Freed ELSE saved.at[o]]
      /\ mat = [m \in Mons |-> IF m \in BlobHeroMons \cup BlobLevelMons THEN Freed ELSE saved.mat[m]]
  BY <1>1 DEF IInv, LoadingOK, SavedBut
<1>4. /\ at' = [o \in Objs |-> IF o \in BlobHeroObjs THEN Freed ELSE saved.at[o]]
      /\ mat' = [m \in Mons |-> IF m \in BlobHeroMons THEN Freed ELSE saved.mat[m]]
  <2>1. /\ \A o \in BlobLevelObjs : o \notin BlobHeroObjs
        /\ \A m \in BlobLevelMons : m \notin BlobHeroMons
    BY <1>2, InBlobs
  <2>2. QED BY <1>1, <1>3, <2>1
<1>5. PlacesOK(at', mat', here')
  BY <1>1, <1>2, <1>3, <1>4, ButOK DEF BlobOK
<1>6. ptr' = NoPointers
  <2>1. Null \notin BlobLevelObjs \cup BlobLevelMons
    BY <1>2, InBlobs, KindsAssumption
  <2>2. ptr \in PtrOf(Null, Null, Null, Null, Null) /\ twin \in TwinOf(Null, Null)
    BY <1>3 DEF NoPointers, NoTwins, PtrOf, TwinOf
  <2>3. ptr' \in PtrOf(Null, Null, Null, Null, Null)
    BY <1>1, <2>1, <2>2 DEF Relinked, PtrOf, TwinOf
  <2>4. QED BY <2>3 DEF PtrOf, NoPointers
<1>7. /\ ptr' \in Pointers(at', mat', here') /\ twin' \in Twins
      /\ ptr'.piece = Null /\ twin'.piece = Null
  BY <1>1, <1>3, <1>6 DEF Pointers, NoPointers, NoTwins, Twins
<1>8. GameOK'
  <2>1. lights' \subseteq Objs \cup {Wild, Abandoned}
    BY <1>1, <1>2 DEF KitFirst, BlobOK, Blobs
  <2>2. lit' \subseteq Lamps /\ filed' \in [Levels -> SUBSET Objs]
    BY <1>1, <1>2 DEF BlobOK, IInv, GameOK
  <2>3. QED BY <1>5, <1>7, <2>1, <2>2 DEF GameOK
<1>9. MealOK'
  <2>1. Null \notin Memory(at', mat', here')
    BY KindsAssumption DEF Memory, Local, Global
  <2>2. QED BY <1>7, <2>1 DEF MealOK
<1>10. HostOK' /\ HistoryOK'
  BY <1>1, <1>2 DEF HostOK, BlobOK, Phases, IInv, HistoryOK, MealIs
<1>11. LoadingOK'
  <2>1. BlobHeroObjs' = BlobHeroObjs /\ BlobHeroMons' = BlobHeroMons
    BY <1>1 DEF BlobHeroObjs, BlobHeroMons
  <2>2. SavedBut(BlobHeroObjs, BlobHeroMons)'
    BY <1>1, <1>4, <2>1 DEF SavedBut
  <2>3. BlobHeroObjs \cup {} = BlobHeroObjs /\ BlobHeroMons \cup {} = BlobHeroMons
    OBVIOUS
  <2>4. QED BY <1>1, <1>3, <1>6, <2>1, <2>2, <2>3 DEF LoadingOK
<1>12. ASSUME Kit \cap Lamps = {}, LightsInv PROVE LightsInv'
  <2>1. /\ saved.levelLights = saved.lit \cap BlobLevelObjs /\ filed = saved.filed
        /\ lit = saved.lit \ Memory(saved.at, saved.mat, saved.here)
    BY <1>1, <1>2, <1>12 DEF LightsInv
  <2>2. saved.levelLights \subseteq Lamps
    BY <1>2, <2>1 DEF BlobOK
  <2>3. lights' = saved.levelLights
    BY <1>1, <1>12, <2>2 DEF KitFirst
  <2>4. lit' = saved.lit \ BlobHeroObjs
    BY <1>1, <1>2, <2>1, InBlobs
  <2>5. BlobLevelObjs' = BlobLevelObjs /\ BlobHeroObjs' = BlobHeroObjs
    BY <1>1 DEF BlobLevelObjs, BlobHeroObjs
  <2>6. QED BY <1>1, <1>2, <1>12, <2>1, <2>3, <2>4, <2>5 DEF LightsInv
<1>13. QED BY <1>8, <1>9, <1>10, <1>11, <1>12 DEF IInv, IInvStep

\* The pointers of the resumed game are those of the saved one.
LEMMA FoundAll ==
  ASSUME BlobOK
  PROVE  Found(saved.ids) = saved.ids
<1> DEFINE objs == BlobLevelObjs \cup BlobHeroObjs
           mons == BlobLevelMons \cup BlobHeroMons
<1>1. saved.ids \in Pointers(saved.at, saved.mat, saved.here)
  BY DEF BlobOK
<1>2. /\ saved.ids.piece \in {Null} \cup objs /\ saved.ids.box \in {Null} \cup objs
      /\ saved.ids.hitmon \in {Null} \cup mons
  BY <1>1, InBlobs DEF Pointers
<1> HIDE DEF objs, mons
<1>3. /\ Find(saved.ids.piece, objs) = saved.ids.piece /\ Find(saved.ids.box, objs) = saved.ids.box
      /\ Find(saved.ids.hitmon, mons) = saved.ids.hitmon
  BY <1>2 DEF Find
<1>4. Found(saved.ids) =
        [piece |-> saved.ids.piece, box |-> saved.ids.box, hitmon |-> saved.ids.hitmon,
         stuck |-> saved.ids.stuck, steed |-> saved.ids.steed]
  BY <1>3 DEF Found, objs, mons
<1>5. QED BY <1>1, <1>4 DEF Pointers

\* The hero is loaded: the game is the saved one.
LEMMA LoadPlayerStep ==
  ASSUME IInv, LoadPlayer
  PROVE  IInvStep /\ ptr' = saved.ids
<1>1. /\ phase = "levelLoaded" /\ rc = "ok"
      /\ at' = [o \in Objs |-> IF o \in BlobHeroObjs THEN saved.at[o] ELSE at[o]]
      /\ mat' = [m \in Mons |-> IF m \in BlobHeroMons THEN saved.mat[m] ELSE mat[m]]
      /\ ptr' = Found(saved.ids)
      /\ twin' = [piece |-> saved.ids.piece, hitmon |-> saved.ids.hitmon]
      /\ lit' = lit \cup (saved.lit \cap BlobHeroObjs)
      /\ lights' = lights \cup saved.heroLights
      /\ phase' = "play" /\ saved' = Null /\ UNCHANGED <<here, filed, rc, meal, kept>>
  BY DEF LoadPlayer, StampedIds, Ids, history
<1>2. saved # Null /\ BlobOK /\ HostOK
  BY <1>1 DEF IInv, HostOK
<1>3. /\ here = saved.here
      /\ at = [o \in Objs |-> IF o \in BlobHeroObjs THEN Freed ELSE saved.at[o]]
      /\ mat = [m \in Mons |-> IF m \in BlobHeroMons THEN Freed ELSE saved.mat[m]]
  <2>1. BlobHeroObjs \cup {} = BlobHeroObjs /\ BlobHeroMons \cup {} = BlobHeroMons
    OBVIOUS
  <2>2. QED BY <1>1, <2>1 DEF IInv, LoadingOK, SavedBut
<1>4. at' = saved.at /\ mat' = saved.mat /\ here' = saved.here
  <2>1. saved.at \in [Objs -> Chain] /\ saved.mat \in [Mons -> MonChain]
    BY <1>2 DEF BlobOK, PlacesOK
  <2>2. QED BY <1>1, <1>3, <2>1
<1>5. ptr' = saved.ids
  BY <1>1, <1>2, FoundAll
<1>6. GameOK'
  <2>1. ptr' \in Pointers(at', mat', here') /\ PlacesOK(at', mat', here')
    BY <1>2, <1>4, <1>5 DEF BlobOK
  <2>2. twin' \in Twins
    BY <1>1, <1>2 DEF Twins, BlobOK, Blobs
  <2>3. lit' \subseteq Lamps /\ lights' \subseteq Objs \cup {Wild, Abandoned}
    BY <1>1, <1>2 DEF IInv, GameOK, BlobOK, Blobs
  <2>4. QED BY <1>1, <2>1, <2>2, <2>3 DEF IInv, GameOK
<1>7. MealOK'
  BY <1>1, <1>5 DEF MealOK
<1>8. HostOK' /\ LoadingOK' /\ HistoryOK'
  BY <1>1, <1>2, <1>4 DEF HostOK, LoadingOK, Phases, IInv, HistoryOK, MealIs
<1>9. ASSUME LightsInv PROVE LightsInv'
  <2>1. /\ lights = saved.levelLights /\ lit = saved.lit \ BlobHeroObjs /\ filed = saved.filed
        /\ LightsOf(saved.at, saved.mat, saved.here, saved.lit,
                    saved.levelLights \cup saved.heroLights, saved.filed)
    BY <1>1, <1>2, <1>9 DEF LightsInv
  <2>2. lit' = saved.lit /\ lights' = saved.levelLights \cup saved.heroLights /\ filed' = saved.filed
    BY <1>1, <2>1
  <2>3. LightsOf(at', mat', here', lit', lights', filed')
    BY <1>4, <2>1, <2>2
  <2>4. QED BY <1>1, <2>3 DEF LightsInv
<1>10. QED BY <1>5, <1>6, <1>7, <1>8, <1>9 DEF IInv, IInvStep

\* A load fails: only the result says so.
LEMMA LoadFails ==
  ASSUME IInv, LoadPlayerLost \/ LoadUnwound
  PROVE  IInvStep
<1>1. /\ UNCHANGED <<here, at, mat, ptr, twin, lit, lights, filed, saved, meal, kept>>
      /\ phase \in {"fresh", "levelLoaded"} /\ phase' = "levelLoaded" /\ rc' \in {"io", "lost"}
  BY DEF LoadPlayerLost, LoadUnwound, tvars, chains, lamps, history
<1>2. GameOK' /\ MealOK' /\ HistoryOK'
  BY <1>1 DEF IInv, GameOK, MealOK, HistoryOK, MealIs
<1>3. HostOK'
  BY <1>1 DEF IInv, HostOK, BlobOK, Phases
<1>4. LoadingOK'
  BY <1>1 DEF IInv, LoadingOK
<1>5. ASSUME LightsInv PROVE LightsInv'
  <2>1. BlobLevelObjs' = BlobLevelObjs
    BY <1>1 DEF BlobLevelObjs
  <2>2. QED BY <1>1, <1>5, <2>1 DEF LightsInv
<1>6. QED BY <1>2, <1>3, <1>4, <1>5 DEF IInv, IInvStep

\* Every step of the game and of the host.
LEMMA NextKeepsIInv ==
  ASSUME IInv, [Next]_vars
  PROVE  IInvStep
<1>1. CASE UNCHANGED vars
  <2>1. UNCHANGED <<here, at, mat, ptr, twin, lit, lights, filed, phase, saved, rc, meal, kept>>
    BY <1>1 DEF vars, tvars, chains, lamps, host, history
  <2>2. GameOK' /\ MealOK' /\ HistoryOK'
    BY <2>1 DEF IInv, GameOK, MealOK, HistoryOK, MealIs
  <2>3. HostOK'
    BY <2>1 DEF IInv, HostOK, BlobOK
  <2>4. /\ BlobHeroObjs' = BlobHeroObjs /\ BlobLevelObjs' = BlobLevelObjs
        /\ BlobHeroMons' = BlobHeroMons /\ BlobLevelMons' = BlobLevelMons
    BY <2>1 DEF BlobHeroObjs, BlobLevelObjs, BlobHeroMons, BlobLevelMons
  <2>5. LoadingOK'
    BY <2>1, <2>4 DEF IInv, LoadingOK, SavedBut
  <2>6. LightsInv => LightsInv'
    BY <2>1, <2>4 DEF LightsInv
  <2>7. QED BY <2>2, <2>3, <2>5, <2>6 DEF IInv, IInvStep
<1>2. CASE Next
  BY <1>2, PlayStep, SaveLevelStep, SavePlayerStep, UnwoundStep, NewGameStep, LoadLevelStep,
     LoadPlayerStep, LoadFails DEF Next
<1>3. QED BY <1>1, <1>2

-----------------------------------------------------------------------------
(***************************************************************************)
(* The theorems.                                                           *)
(***************************************************************************)

\* Every reachable state satisfies the inductive invariant: chains, pointers and ids
\* of the game, of the blobs, and of a game that is half loaded.
THEOREM CheckpointInvariance == Spec => []IInv
<1>1. Init => IInv
  BY InitIInv
<1>2. IInv /\ [Next]_vars => IInv'
  BY NextKeepsIInv DEF IInvStep
<1>3. QED BY <1>1, <1>2, PTL DEF Spec

\* Everything keeps its type, and the blobs are there as long as the host needs them.
THEOREM CheckpointTypes == Spec => []TypeOK
<1>1. ASSUME IInv PROVE TypeOK
  <2>1. Memory(at, mat, here) \subseteq Objs /\ MonMemory(mat, here) \subseteq Mons
        /\ MonsOn(mat, here) \subseteq Mons
    BY DEF Memory, Local, Global, MonMemory, MonsOn, MonsGoing
  <2>2. ptr \in [piece : Objs \cup {Null, Wild}, box : Objs \cup {Null, Wild},
                 hitmon : Mons \cup {Null, Wild}, stuck : Mons \cup {Null, Wild},
                 steed : Mons \cup {Null, Wild}]
    BY <1>1, <2>1 DEF IInv, GameOK, Pointers
  <2>3. TTypeOK
    BY <1>1, <2>2, KindsAssumption DEF IInv, GameOK, PlacesOK, Twins, TTypeOK
  <2>4. QED BY <1>1, <2>3 DEF IInv, HistoryOK, HostOK, BlobOK, TypeOK
<1>2. IInv => TypeOK
  BY <1>1
<1>3. QED BY <1>2, CheckpointInvariance, PTL

\* No pointer leads to memory that was freed: not after a level change, not after a
\* save that was unwound, and not in a resumed game.
THEOREM NothingDangles == Spec => []NoDangling
<1>1. IInv => NoDangling
  <2>1. ObjsInMemory = Memory(at, mat, here) /\ MonsInMemory = MonMemory(mat, here)
    BY DEF ObjsInMemory, Memory, MonsInMemory, MonMemory
  <2>2. QED BY <2>1 DEF IInv, GameOK, Pointers, NoDangling
<1>2. QED BY <1>1, CheckpointInvariance, PTL

\* The meal the hero left is his meal again when its food is in memory, over level
\* changes and resumes, unless a save was made while the food was on another level: then
\* it never is.
THEOREM MealsCanResume == Spec => []MealCanResume
<1>1. ASSUME IInv, phase \in {"play", "levelSaved", "saved"}, meal \in ObjsInMemory
      PROVE  (kept = "kept" => ptr.piece = meal) /\ (kept = "away" => ptr.piece = Null)
  <2>1. ObjsInMemory = Memory(at, mat, here)
    BY DEF ObjsInMemory, Memory
  <2>2. MealIs(twin.piece, at)
    BY <1>1 DEF IInv, HistoryOK
  <2>3. QED BY <1>1, <2>1, <2>2 DEF IInv, MealOK, MealIs
<1>2. IInv => MealCanResume
  BY <1>1 DEF MealCanResume
<1>3. QED BY <1>2, CheckpointInvariance, PTL

\* With no lamp in the first kit, every light source leads to its object, and every
\* burning object in memory has its light.
THEOREM LightsAreSane ==
  ASSUME Kit \cap Lamps = {}
  PROVE  Spec => []LightsSane
<1>1. Init => IInv /\ LightsInv
  BY InitIInv
<1>2. IInv /\ LightsInv /\ [Next]_vars => IInv' /\ LightsInv'
  BY NextKeepsIInv DEF IInvStep
<1>3. ASSUME IInv, LightsInv PROVE LightsSane
  <2>1. ObjsInMemory = Memory(at, mat, here)
    BY DEF ObjsInMemory, Memory
  <2>2. CASE phase \in {"play", "levelSaved", "saved"}
    BY <1>3, <2>1, <2>2 DEF LightsInv, LightsOf, LightsSane
  <2>3. CASE phase = "fresh"
    <3> DEFINE objs == BlobHeroObjs \cup BlobLevelObjs
               mons == BlobHeroMons \cup BlobLevelMons
    <3>1. saved # Null /\ BlobOK /\ here = saved.here /\ PlacesOK(at, mat, here)
      BY <1>3, <2>3 DEF IInv, GameOK, HostOK, LoadingOK
    <3>2. /\ at = [o \in Objs |-> IF o \in objs THEN Freed ELSE saved.at[o]]
          /\ mat = [m \in Mons |-> IF m \in mons THEN Freed ELSE saved.mat[m]]
      BY <1>3, <2>3 DEF IInv, LoadingOK, SavedBut
    <3>3. objs = Memory(saved.at, saved.mat, here)
      BY <3>1, InBlobs
    <3>4. PlacesOK(saved.at, saved.mat, here)
      BY <3>1 DEF BlobOK
    <3>5. MemChains(mat, here) \subseteq MemChains(saved.mat, here)
      <4>1. \A m \in Mons : mat[m] = Freed \/ mat[m] = saved.mat[m]
        BY <3>2
      <4>2. \A l : Freed # OnMap(l) /\ Freed # Going(l)
        BY ChainsDiffer
      <4>3. MonsOn(mat, here) \subseteq MonsOn(saved.mat, here) /\ MonsGoing(mat) \subseteq MonsGoing(saved.mat)
        BY <4>1, <4>2 DEF MonsOn, MonsGoing
      <4>4. QED BY <4>3 DEF MemChains, LevelChains, HeroChains
    <3>6. ASSUME NEW o \in Objs, o \notin objs PROVE o \notin Memory(at, mat, here)
      <4>1. at[o] = saved.at[o]
        BY <3>2, <3>6
      <4>2. CASE \A b \in Boxes : at[o] # In(b)
        <5>1. Outer(at, o) = at[o] /\ Outer(saved.at, o) = at[o]
          BY <4>1, <4>2, OuterIs
        <5>2. QED BY <3>3, <3>5, <3>6, <5>1, InMemory
      <4>3. ASSUME NEW b \in Boxes, at[o] = In(b) PROVE o \notin Memory(at, mat, here)
        <5>1. b \in Objs /\ b \notin objs
          BY <3>3, <3>4, <3>6, <4>1, <4>3, WhereIs, KindsAssumption
        <5>2. at[b] = saved.at[b]
          BY <3>2, <5>1
        <5>3. Outer(at, b) = at[b] /\ Outer(saved.at, b) = saved.at[b]
          BY <3>1, <3>4, OuterOfBox
        <5>4. b \notin Memory(at, mat, here)
          BY <3>3, <3>5, <5>1, <5>2, <5>3, InMemory
        <5>5. QED BY <3>1, <4>3, <5>4, WhereIs
      <4>4. QED BY <4>2, <4>3
    <3>7. lights = {} /\ lit = saved.lit \ objs /\ lit \subseteq Objs
      BY <1>3, <2>3, <3>1, <3>3, KindsAssumption DEF LightsInv, IInv, GameOK
    <3>8. QED BY <2>1, <3>6, <3>7 DEF LightsSane
  <2>4. CASE phase = "levelLoaded"
    BY <2>4 DEF LightsSane
  <2>5. QED BY <1>3, <2>2, <2>3, <2>4 DEF IInv, HostOK, Phases
<1>4. IInv /\ LightsInv => LightsSane
  BY <1>3
<1>5. QED BY <1>1, <1>2, <1>4, PTL DEF Spec

\* The resumed game points to what the saved one pointed to, and loading the hero
\* fails without a read error only when the monster that held the hero had left.
THEOREM ResumesAreExact == Spec => ResumeIsExact
<1> DEFINE Step == /\ phase = "levelLoaded" /\ phase' = "play" => ptr' = saved.ids
                   /\ rc' = "lost" /\ rc = "ok" => saved.ids.stuck \in MonsGoing(saved.mat)
<1>1. ASSUME IInv, Next PROVE Step
  <2>1. ASSUME phase = "levelLoaded", phase' = "play" PROVE ptr' = saved.ids
    <3>1. LoadPlayer
      BY <1>1, <2>1 DEF Next, Play, SaveLevel, SavePlayer, SavePlayerUnwound, Continue, NewGame,
         LoadLevel, LoadPlayerLost, LoadUnwound
    <3>2. QED BY <1>1, <3>1, LoadPlayerStep
  <2>2. ASSUME rc' = "lost", rc = "ok" PROVE saved.ids.stuck \in MonsGoing(saved.mat)
    <3>1. phase = "levelLoaded" /\ ~OnLevel(saved.ids)
      BY <1>1, <2>2 DEF Next, Play, SaveLevel, SavePlayer, SavePlayerUnwound, Continue, NewGame,
         LoadLevel, LoadPlayer, LoadPlayerLost, LoadUnwound, host
    <3>2. BlobOK /\ here = saved.here
      BY <1>1, <3>1 DEF IInv, HostOK, LoadingOK
    <3>3. mat = [m \in Mons |-> IF m \in BlobHeroMons THEN Freed ELSE saved.mat[m]]
      <4>1. BlobHeroMons \cup {} = BlobHeroMons
        OBVIOUS
      <4>2. QED BY <1>1, <2>2, <3>1, <4>1 DEF IInv, LoadingOK, SavedBut
    <3>4. MonsOn(saved.mat, saved.here) \subseteq MonsOn(mat, here)
      <4>1. BlobLevelMons \cap BlobHeroMons = {}
        BY <3>2, InBlobs
      <4>2. QED BY <3>2, <3>3, <4>1 DEF MonsOn, BlobLevelMons
    <3>5. /\ saved.ids.steed \in {Null} \cup MonsOn(saved.mat, saved.here)
          /\ saved.ids.stuck \in {Null} \cup MonsOn(saved.mat, saved.here) \cup MonsGoing(saved.mat)
      BY <3>2 DEF BlobOK, Pointers, MonMemory
    <3>6. QED BY <3>1, <3>4, <3>5 DEF OnLevel
  <2>3. QED BY <2>1, <2>2
<1>2. IInv /\ [Next]_vars => [Step]_vars
  BY <1>1
<1> HIDE DEF Step
<1>3. Spec => [][Step]_vars
  BY <1>2, CheckpointInvariance, PTL DEF Spec
<1>4. QED BY <1>3 DEF ResumeIsExact, Step

\* A save leaves the live game its pointers, and takes the id of a meal exactly when the
\* food is on another level.
THEOREM SavesLeaveTheGame == Spec => SaveLeavesGame
<1> DEFINE Step == phase = "levelSaved" /\ phase' = "saved" =>
       /\ ptr' = ptr
       /\ kept # "unwound" =>
            (twin'.piece = twin.piece <=> twin.piece \in {Null} \cup ObjsInMemory)
<1>1. ASSUME IInv, Next PROVE Step
  <2>1. SUFFICES ASSUME phase = "levelSaved", phase' = "saved" PROVE Step
    BY DEF Step
  <2>2. SavePlayer
    BY <1>1, <2>1 DEF Next, Play, SaveLevel, SavePlayerUnwound, Continue, NewGame,
       LoadLevel, LoadPlayer, LoadPlayerLost, LoadUnwound, host
  <2>3. ptr' = ptr /\ twin'.piece = ptr.piece
    BY <2>2 DEF SavePlayer, PutBack, StampedIds, Ids
  <2>4. ObjsInMemory = Memory(at, mat, here)
    BY DEF ObjsInMemory, Memory
  <2>5. ptr.piece \in {Null} \cup ObjsInMemory
    BY <1>1, <2>4 DEF IInv, GameOK, Pointers
  <2>6. QED BY <1>1, <2>3, <2>4, <2>5 DEF IInv, MealOK, Step
<1>2. IInv /\ [Next]_vars => [Step]_vars
  BY <1>1
<1> HIDE DEF Step
<1>3. Spec => [][Step]_vars
  BY <1>2, CheckpointInvariance, PTL DEF Spec
<1>4. QED BY <1>3 DEF SaveLeavesGame, Step
=============================================================================
