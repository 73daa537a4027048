------------------------------ MODULE Checkpoint ------------------------------
(***************************************************************************)
(* Checkpoints: between two commands the host saves the level and the hero *)
(* as two blobs (nle_save_level, nle_save_player), and the game plays on;  *)
(* or the host starts a new game and loads first the level and then the    *)
(* hero into it (nle_load_level, nle_load_player).  The files of the other *)
(* levels are kept with the blobs.  Each call runs in the context of the   *)
(* host; a panic inside unwinds it and makes it return an error.           *)
(***************************************************************************)
EXTENDS Travel

CONSTANT DiskMayFail  \* TRUE: a read or a write of a blob may panic

\* The two blobs of a checkpoint, as one record.
Blobs ==
  [here : Levels, at : [Objs -> Chain], mat : [Mons -> MonChain], lit : SUBSET Objs,
   filed : [Levels -> SUBSET Objs], levelLights : SUBSET (Objs \cup {Wild, Abandoned}),
   heroLights : SUBSET (Objs \cup {Wild, Abandoned}),
   ids : [piece : Objs \cup {Null}, box : Objs \cup {Null}, hitmon : Mons \cup {Null},
          stuck : Mons \cup {Null}, steed : Mons \cup {Null}]]

ASSUME DiskAssumption == DiskMayFail \in BOOLEAN /\ Null \notin Blobs

VARIABLES
  phase,     \* what the host is doing
  saved,     \* the two blobs, or Null
  rc,        \* the result of the last load: "ok", "io", "lost"
  meal,      \* history: the food the hero began to eat last
  kept       \* history: what the saves since then did to it

host == <<phase, saved, rc>>
history == <<meal, kept>>
vars == <<tvars, host, history>>

Phases == {"play", "levelSaved", "saved", "fresh", "levelLoaded"}

\* No save was made while the food was on another level; one was; one was unwound.
Keeping == {"kept", "away", "unwound"}

Init ==
  /\ TInit /\ phase = "play" /\ saved = Null /\ rc = "ok"
  /\ meal = Null /\ kept = "kept"

\* A command of the game, which runs only between the calls of the host.
Play ==
  /\ phase = "play" /\ saved = Null
  /\ \/ \E o \in Objs : Eat(o) /\ meal' = o /\ kept' = "kept"
     \/ /\ ElseNext /\ UNCHANGED kept
        /\ meal' = IF meal \in Objs /\ at'[meal] = Freed THEN Null ELSE meal
  /\ UNCHANGED host

\* The ids of what the pointers point to: a null pointer has the id 0.
Ids(p) == p

\* find_oid, find_mid
Find(id, memory) == IF id \in memory THEN id ELSE Null

-----------------------------------------------------------------------------
(* Saving.                                                                 *)

\* nle_save_level: WRITE_SAVE frees nothing, and the lights of the level are
\* written with ids.  When it is unwound there is no blob.
SaveLevel ==
  /\ phase = "play" /\ saved = Null
  /\ phase' = "levelSaved"
  /\ UNCHANGED <<tvars, saved, rc, history>>

\* Mutant: the pointers are not put back.
PutNothingBack(p) == [p EXCEPT !.piece = Null, !.hitmon = Null]

\* The live game gets its pointers back.
PutBack(p) == p

\* The ids that nle_save_player stamps, into the blob and the live game.
StampedIds(p) == [piece |-> Ids(p).piece, hitmon |-> Ids(p).hitmon]

\* nle_save_player.  A null pointer has the id 0, and so has then the twin: the
\* meal whose food is on another level.
SavePlayer ==
  /\ phase = "levelSaved"
  /\ twin' = StampedIds(ptr)
  /\ ptr' = PutBack(ptr)
  /\ saved' = [here |-> here, at |-> at, mat |-> mat, lit |-> lit, filed |-> filed,
               levelLights |-> LevelLights(at, mat, here),
               heroLights |-> lights \ LevelLights(at, mat, here), ids |-> Ids(ptr)]
  /\ phase' = "saved"
  /\ kept' = IF kept = "kept" /\ meal \notin {Null} \cup ObjsInMemory THEN "away" ELSE kept
  /\ UNCHANGED <<here, chains, lamps, rc, meal>>

\* A write panics before the pointers are put back: the call returns no blob.
SavePlayerUnwound ==
  /\ phase = "levelSaved" /\ DiskMayFail
  /\ twin' = StampedIds(ptr)
  /\ ptr' = [ptr EXCEPT !.piece = Null, !.hitmon = Null]
  /\ phase' = "play" /\ kept' = "unwound"
  /\ UNCHANGED <<here, chains, lamps, saved, rc, meal>>

\* The game plays on, and the host forgets the blobs.
Continue ==
  /\ phase = "saved"
  /\ phase' = "play" /\ saved' = Null
  /\ UNCHANGED <<tvars, rc, history>>

-----------------------------------------------------------------------------
(* Resuming.                                                               *)

\* What the two blobs hold.
BlobLevelObjs == Local(saved.at, saved.mat, saved.here)
BlobLevelMons == MonsOn(saved.mat, saved.here)
BlobHeroObjs == Global(saved.at, saved.mat)
BlobHeroMons == MonsGoing(saved.mat)

\* A new game in a new process or after nle_reset.  Nothing of the old one is
\* in memory, and what is on other levels is in the files of the checkpoint.
\* The new game's own level is left out: nle_load_level frees it.
NewGame ==
  LET objs == BlobLevelObjs \cup BlobHeroObjs
      mons == BlobLevelMons \cup BlobHeroMons
  IN /\ phase \in {"saved", "fresh", "levelLoaded"}
     /\ at' = [o \in Objs |-> IF o \in objs THEN Freed ELSE saved.at[o]]
     /\ mat' = [m \in Mons |-> IF m \in mons THEN Freed ELSE saved.mat[m]]
     /\ here' = saved.here /\ lit' = saved.lit \ objs /\ filed' = saved.filed
     /\ ptr' = NoPointers /\ twin' = NoTwins /\ lights' = {}
     /\ phase' = "fresh" /\ rc' = "ok"
     /\ UNCHANGED <<saved, history>>

\* Mutant: the lights are relinked before the objects are read.
NoneFound(ids) == {Null : o \in ids}

\* relink_light_sources of getlev: find_oid looks through the inventory first,
\* and that is still the kit of the new game.
KitFirst(ids) == {IF o \in Kit THEN Abandoned ELSE o : o \in ids}

\* nle_load_level: the chains of the new game's level are freed, and getlev
\* reads those of the blob and relinks the lights.
LoadLevel ==
  /\ phase = "fresh" /\ rc = "ok"
  /\ at' = [o \in Objs |-> IF o \in BlobLevelObjs THEN saved.at[o] ELSE at[o]]
  /\ mat' = [m \in Mons |-> IF m \in BlobLevelMons THEN saved.mat[m] ELSE mat[m]]
  /\ ptr' = Relinked(ptr, twin, BlobLevelObjs, BlobLevelMons)
  /\ lit' = lit \cup (saved.lit \cap BlobLevelObjs)
  /\ lights' = KitFirst(saved.levelLights)
  /\ phase' = "levelLoaded"
  /\ UNCHANGED <<here, twin, filed, saved, rc, history>>

\* Mutant: only what is read with the hero is pointed to again (restobjchn).
FoundInChains(ids) ==
  [ids EXCEPT !.piece = IF @ \in BlobHeroObjs THEN @ ELSE Null,
              !.hitmon = IF @ \in BlobHeroMons THEN @ ELSE Null]

\* The pointers of context and the box by find_oid and find_mid, the two
\* monsters by restlevelstate.
Found(ids) ==
  LET objs == BlobLevelObjs \cup BlobHeroObjs
      mons == BlobLevelMons \cup BlobHeroMons
  IN [piece |-> Find(ids.piece, objs), box |-> Find(ids.box, objs),
      hitmon |-> Find(ids.hitmon, mons), stuck |-> ids.stuck, steed |-> ids.steed]

\* restlevelstate finds them among the monsters of the level.
OnLevel(ids) == {ids.stuck, ids.steed} \subseteq {Null} \cup MonsOn(mat, here)

\* nle_load_player: the hero, the inventory and all that migrates replace those
\* of the new game; then every id is looked for in what is in memory.
LoadPlayer ==
  /\ phase = "levelLoaded" /\ rc = "ok" /\ OnLevel(saved.ids)
  /\ at' = [o \in Objs |-> IF o \in BlobHeroObjs THEN saved.at[o] ELSE at[o]]
  /\ mat' = [m \in Mons |-> IF m \in BlobHeroMons THEN saved.mat[m] ELSE mat[m]]
  /\ ptr' = Found(saved.ids)
  /\ twin' = StampedIds(saved.ids)
  /\ lit' = lit \cup (saved.lit \cap BlobHeroObjs)
  /\ lights' = lights \cup saved.heroLights
  /\ phase' = "play" /\ saved' = Null
  /\ UNCHANGED <<here, filed, rc, history>>

\* restlevelstate panics: the monster is not on the level.
LoadPlayerLost ==
  /\ phase = "levelLoaded" /\ rc = "ok"
  /\ ~OnLevel(saved.ids)
  /\ rc' = "lost"
  /\ UNCHANGED <<tvars, phase, saved, history>>

\* A blob cannot be read: the call returns 7, and the game must be reset.
LoadUnwound ==
  /\ phase \in {"fresh", "levelLoaded"} /\ rc = "ok" /\ DiskMayFail
  /\ rc' = "io" /\ phase' = "levelLoaded"
  /\ UNCHANGED <<tvars, saved, history>>

Next ==
  \/ Play
  \/ SaveLevel \/ SavePlayer \/ SavePlayerUnwound \/ Continue
  \/ NewGame \/ LoadLevel \/ LoadPlayer \/ LoadPlayerLost \/ LoadUnwound

Spec == Init /\ [][Next]_vars

-----------------------------------------------------------------------------

(***************************************************************************)
(* Everything keeps its type, and the blobs are there as long as the host  *)
(* needs them.                                                             *)
(***************************************************************************)
TypeOK ==
  /\ TTypeOK
  /\ phase \in Phases /\ rc \in {"ok", "io", "lost"}
  /\ meal \in Objs \cup {Null} /\ kept \in Keeping
  /\ saved \in Blobs \cup {Null}
  /\ saved # Null <=> phase \in {"saved", "fresh", "levelLoaded"}

(***************************************************************************)
(* No pointer leads to memory that was freed.  The lock's box, the meal    *)
(* and the polearm's target are in memory; the steed is on the hero's      *)
(* level.  The one stuck to the hero may have left: muse.c:728 sends a     *)
(* monster away without a look at u.ustuck.                                *)
(***************************************************************************)
NoDangling ==
  /\ {ptr.piece, ptr.box} \subseteq {Null} \cup ObjsInMemory
  /\ {ptr.hitmon, ptr.stuck} \subseteq {Null} \cup MonsInMemory
  /\ ptr.steed \in {Null} \cup MonsOn(mat, here)

(***************************************************************************)
(* The meal the hero left is his meal again whenever its food is in memory *)
(* (context.h keeps an id beside each pointer for that): when he comes     *)
(* back to the level where he left it, and in a resumed game -- unless he  *)
(* saved while the food was on another level.  Then the save took the id   *)
(* (save.c:601), in the blob and in the game that plays on, and the food   *)
(* is never his meal again until he eats it anew.  A save that was unwound *)
(* forgets the pointers; nothing is claimed of that meal.                  *)
(***************************************************************************)
MealCanResume ==
  phase \in {"play", "levelSaved", "saved"} /\ meal \in ObjsInMemory =>
    /\ kept = "kept" => ptr.piece = meal
    /\ kept = "away" => ptr.piece = Null

(***************************************************************************)
(* light_sources_sanity_check: every light source leads to an object that  *)
(* is found by its id; and every burning object in memory has its light.   *)
(* Between the two loads the kit of the new game is still in the way.      *)
(***************************************************************************)
LightsSane == phase # "levelLoaded" => lights = lit \cap ObjsInMemory

(***************************************************************************)
(* The resumed game points to what the saved game pointed to.  Loading the *)
(* hero fails without a read error only when the game was saved after the  *)
(* monster that held the hero had left the level.                          *)
(***************************************************************************)
ResumeIsExact ==
  [][/\ phase = "levelLoaded" /\ phase' = "play" => ptr' = saved.ids
     /\ rc' = "lost" /\ rc = "ok" => saved.ids.stuck \in MonsGoing(saved.mat)]_vars

(***************************************************************************)
(* What a save does to the live game: it leaves all the pointers, and it   *)
(* takes the id of the meal exactly when the food is on another level.     *)
(* The comment of nle_save_player (save.c:528-529, "the live game is left  *)
(* fully intact") is right but for that meal.                              *)
(***************************************************************************)
SaveLeavesGame ==
  [][phase = "levelSaved" /\ phase' = "saved" =>
       /\ ptr' = ptr
       /\ kept # "unwound" =>
            (twin'.piece = twin.piece <=> twin.piece \in {Null} \cup ObjsInMemory)]_vars
=============================================================================
