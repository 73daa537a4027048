# A verification of the NLE engine

The repository turns NetHack 3.6 into a library that runs thousands of games
("environments") in one process: each has its own block of globals, its own
arena, its own coroutine, and can be stepped by any thread, snapshotted in
memory and rewound. This directory holds TLA+ models of the parts in which
that can go wrong, TLC configurations that check them on small instances, and
proofs for TLAPS.

Run `tlc -workers 2 -config MCSentinel.cfg MCSentinel` and the like for the
checks and `tlapm SentinelProofs.tla` (and the other `*Proofs` modules) for the
proofs. Paths below are relative
to `src/src/src` of the repository unless they start otherwise.

## 1. The system

### 1.1 Components, state, operations

| component | state | operations | what makes it correct |
|---|---|---|---|
| **sentinel registry** `nle_sentinel.c` | `g_slots` (in_use, seed, heartbeat, step, panic_msg), thread-local `g_tls` | register, beat, set_panic, unregister, snapshot, total_heartbeat | no slot is shared; a published slot describes its owner; no beat is lost; a fault is blamed on the environment that ran |
| **watchdog, crash handler** `nle_sentinel.c` | `last`, `stalled_us`; `g_signal_fired` | poll, abort; report, re-raise | a stall is noticed and a live process not killed; the report is complete before death |
| **environment life** `nle.c` | `nle_ctx_t` | `nle_start`, `nle_step`, `nle_end`, `nle_yield`, anchor | one thread at a time in an environment; nothing of it survives its end |
| **arena allocator** `alloc.c` | arena per context; lock-free registry of arenas | alloc, free, add, remove, contains | a foreign arena pointer never reaches libc, a libc block always does |
| **data library** `dlb.c` | `dlb_init_state`, the open archive and its directory, handles in the games | init, open, read, seek, close, cleanup | opened once, whole or absent for everyone, each handle reads its own file |
| **fast reset** `nle_fast_reset.c` | handles: copies of the memory, bundles of level files, a mark in the recording | snapshot, restore, destroy, missing files, blobs | memory, level files and recording are of one and the same game |
| **recording** `nle.c` | the file, its compressed stream | write, mark, rewind | reads as one uninterrupted game |
| **level change** `do.c`, `files.c`, `save.c` | a file per level left, its flag `LFILE_EXISTS`, the descriptor | `goto_level`, `currentlevel_rewrite`, `savelev`, `getlev` | a flagged level has its file, with what was last written |
| **object timers** `timeout.c`, `mkobj.c` | `timer_base`, `obj->timed`, timers in level files | start, stop, split, free, run, save, restore | counts agree, no timer dangles, none is early, lost or doubled |
| **host calls** `nle.c`, `include/nle.h` | `setjmp` target, host flag | blob calls, `nle_goto_depth`, abort | a panic in a host call returns to the host and leaves the game playable; a call made at a prompt does not pull the ground from under the suspended game |
| **level and player blobs** `nle.c`, `save.c`, `restore.c`, `nle_fast_reset.c` | blobs | save/load level, save/load player, level files blob | a save leaves the live game alone, but for a meal on another level; a loaded checkpoint is what was saved, in this process's files |
| **object chains** `mkobj.c`, `invent.c`, `pickup.c` | the chains, and the pointers kept into them: meal, lock, target, stuck monster, steed | extract, place, contain, bury, destroy | no pointer leads to freed memory; a meal is found again unless a save took its id |
| **light sources** `light.c` | `light_base`, sources in level files | new, delete, save, restore, relink | a burning object in memory has its light, and every light an object |
| **monsters in transit** `dog.c`, `steed.c` | `mydogs`, `migrating_mons` | keepdogs, losedogs, migrate | no monster is lost or doubled |
| **main loop** `allmain.c`, `mon.c` | movement, `multi`, `fmon`, `iflags.purge_monsters`, `u.utotype` | moveloop, movemon, dmonsfree, deferred_goto | the walk over `fmon` never reads a freed monster; whom it skips or moves twice, and when; the hero is asked again |
| window port and mirror `win/rl/winrl.cc`, `nle.c` | windows and the observation per context | window calls, fill observation | per-context lifetime |
| save, restore, bones `save.c`, `restore.c`, `bones.c` | the save file | dosave, dorecover, savebones | ids are relinked, nothing is lost or doubled |
| shops, vault `shk.c`, `vault.c` | bills, the guard | pay, leave, follow | the bill names unpaid objects |
| level generation, combat, items, display, random numbers | the game | | rules of the game |
| Python bindings, environments, data sets, agents | | | clients of the engine |
| level compilers, other ports, vendored code, collector of globals | | | build time, or not built |

### 1.2 How they interact

* A caller's thread anchors an environment (`nle_anchor`: a thread-local
  pointer), switches to its coroutine and back. `nle_start` runs the game to
  its first prompt and *then* registers it; `nle_step` writes the action to
  the recording, beats the slot and runs the game; `nle_end` unregisters
  first, then frees. The callers' discipline that two threads are never inside
  one environment at a time is assumed throughout (the `busy` state).
* The sentinel's table, the registry of arenas, and the data library are the
  state that environments share across threads, all of it without locks.
  The watchdog thread and the signal handler read the first of them at any
  moment.
* A snapshot copies the memory of an environment as a block. What is not
  memory has to be brought back otherwise: the level files and the recording
  (they are), descriptors held on the game's stack (they are not, and the restore
  of the files may remove the one a descriptor is open on).
* Object timers are part of that memory, but those of objects that stay on a
  level are written to the level's file and come back with it, late.
* A level change moves the chains of one level to its file and those of another
  into memory. The pointers other parts hold into the chains are let go before,
  or found again after, by id.
* The host calls of `nle.h` (save and load a level or the hero, go to a depth)
  run in the caller's context between two steps, on a game that is suspended
  inside its window port: at a prompt for a command, but also at any --More--.
* `movemon` keeps the successor of the monster that moves while that monster's
  handler kills, creates and sends away monsters of the same list, the successor
  among them.

### 1.3 What is hard

Interleavings of unlocked accesses (slots reused while others scan, sums read
over time, addresses handed out again by the kernel); reports written while
other threads fault; a fallible once-only initialisation; restores in any
order, with failing system calls, in the middle of a level change; callbacks
that change the list being run; ids that mean one object in the saved game and
another in the game it is loaded into; host calls in the middle of a turn. `PROJECT.json` lists each under `hazards`
with its line and the properties that watch it, or the reason why none does.

## 2. The modules

| module | models | abstract counterpart |
|---|---|---|
| `EnvRegistry` | what a reader of published slots may rely on: acquire, advance, release as single steps | |
| `Sentinel` | `nle_sentinel.c` register, beat, set_panic, unregister, with the parts of `nle_start`, `nle_step`, `nle_end` and `panic` that call them | implements `EnvRegistry` |
| `Watchdog` | extends `Sentinel` (the workers) with `watchdog_main`, `crash_handler`, faults and hangs | |
| `ArenaRegistry` | registry of arenas, `nle_arena_free`, release of arena and context in `nle_end`, the kernel's reuse of addresses | |
| `DataLibrary` | `dlb_init` under concurrency, handles, snapshots and ends of games | |
| `FastReset` | one environment's memory, its level files, its recording, and its handles; the endgame and the end of the game | |
| `DiskCheckpoint` | extends `FastReset` with the checkpoint that outlives the process: level blob, hero blob, blob of the level files | |
| `Deadlines` | what a user of object timers may rely on: a deadline per object and function | |
| `TimerQueue` | the list, the counts, the level files and `run_timers` | implements `Deadlines` |
| `Travel` | chains of objects and monsters, the pointers and light sources that lead into them, and the level change | |
| `Checkpoint` | extends `Travel` with `nle_save_level`, `nle_save_player`, `nle_load_level`, `nle_load_player` | |
| `MoveLoop` | `moveloop`, `movemon`, `dmonsfree`, deferred level changes, and host calls at a prompt | |
| `Lists` | the walks over a linked list that more than one module needs | |
| `ListLemmas` | what those walks compute, proved for every list | |
| `SentinelProofs`, `ArenaRegistryProofs`, `DataLibraryProofs`, `FastResetProofs`, `CheckpointProofs`, `MoveLoopProofs`, `TimerQueueProofs` | theorems about the modules they are named after; `SentinelProofs` is about `Watchdog` too, `FastResetProofs` about `DiskCheckpoint`, `CheckpointProofs` about `Travel` | |

Each `MC<module>` only names model values, small sets of values for the
constants, and a symmetry set where the run is of safety alone.

### 2.1 Sentinel

A thread is at a program point `pc`, in environment `cur`. `nle_start` is
`NleStart`, the game's first run (in which `Panic` may happen), and the
registration: `BeginRegister`, then for each slot the compare-and-swap of
`in_use` from 0 to 2 (`Claim` or `Skip`), `Fill` and `Publish`, or
`RegistryFull`. A beat is the load of `step` (`BeatLoad`), its store and that
of `g_tls` (`BeatStore`), and the atomic add to `heartbeat` (`BeatAdd`). Fields
that only the owner may write between two publications are written in one
step, which nobody can observe: a reader is kept out by `in_use`. A panic text
is the environment it speaks of; a seed stands for its environment. `beats`,
`reg` and `calm` are history: how many steps an environment began, what the
load of `step` returned, whether a slot was released since the scan began.
Not modelled: `last_action`, `dlvl`, the thread id, and orders weaker than
sequential consistency (the fields read by others are written before the
release store of `in_use`, or are counters).

`Watchdog` adds the polling thread, which reads `in_use` and `heartbeat` of each
slot by separate steps, and a handler per thread. Time is counted in polls: a
poll is half a period for every period the code accepts, so two unchanged polls
are a stall. Four history variables say what happened since the reference poll.

### 2.2 ArenaRegistry

An address stands for a range of the size of an arena; a pointer for the range
it points into. The kernel hands out any free address. A context block comes
from `calloc`: from a mapping of its own (an address, which can be one that was
an arena's) or from libc's heap (`Null`), where no arena can lie. Overflow
panics, and the environment can be ended. A thread that frees a pointer into an
arena that was given back meanwhile is undefined behaviour of the caller, kept
as the history flag `gone`.

### 2.3 DataLibrary

A byte is its offset in the archive, so what a handle reads tells where it came
from. Reads may be short; one handle per environment. The archive may be
missing, or its directory bad. Handles live in the games' memory, so snapshots
copy them: the module has `Snapshot` and `Restore`.

### 2.4 FastReset

Each step of the game has its number as the frame it records and as the version
of a level it writes. The memory keeps what must agree with the outside: the
current level, the flags `LFILE_EXISTS`, the versions last written, the frames
so far, and the locals of a `goto_level` under way. A level change is two steps
(`BeginGoto`, `FinishGoto`), since `impact_drop` may prompt between the creation
of the file and its writing. The descriptor in between is a number on the game's
stack (`mem.fd`), and `fds` says for each number which level's file it is open
on: a number is taken again once it is closed, and a file that `delete_levelfile`
or a restore unlinks (nle_fast_reset.c:347) leaves its descriptors on an inode
without a name (`Orphan`), also when a later restore makes the file anew
(`O_CREAT`, :309). `Behind` is the file that the number on the stack leads to now,
and `Written` writes there: into the file of the level, of another level
(`Foreign` for the reader), or into none. A restore may fail for any set of
levels: a file that cannot be opened or removed stays, one cut short is as good
as empty; and `ftruncate` may fail. `dirty` and `torn` are history. `torn` marks a
handle that was used below its cut. `dirty` marks that files were lost: a call of
a restore failed, or a level was written through a descriptor that does not lead
to its file, which happens without any error (run `fast_reset_open_file`).
That such a number leads to another level's file takes more steps than the runs
allow; the proofs have no such bound.

Entering the endgame deletes every level file and leaves no way back
(`EnterEndgame`); dying (`Die`), and a level change that fails (`FailGoto`),
end the game through `really_done`, whose `clearlocks` deletes the files the
game has flags for. A restore can follow any of these, so the module goes on
after them.

`DiskCheckpoint` adds the checkpoint: the host saves the level, the hero and the
level files by three calls, each of which may fail; a new process with an empty
directory starts a game on any level and loads the three over it. The level
goes through the file of the level the new game is on, so until the level files
are loaded that file has a foreign pid or ledger number (`Foreign`). Loading
them writes, stamps or removes each file; after a failure later files are
written without a stamp (`late`). From the load of the level to that of the
files the history variable `dirty` is set, since the files are knowingly wrong.

### 2.5 TimerQueue

`timer_base` is a sequence ordered by due time with the insertion of
`insert_timer` (before equals), `obj->timed` a counter of its own that each
operation updates as the code does. A level change moves the timers of objects
on the floor into the level's file, merges in those of the new level, delivers
what migrated there, and runs what is overdue. The removals of `stop_timer`,
`obj_stop_timers` and `save_timers` are filters of the list (`Lists`), the merge of
`restore_timers` one insertion after the other (`InsertAll`). A timeout function leaves the
object alone, destroys it, or starts a timer. While the hero prays a turn
passes without `run_timers`.

### 2.6 Travel and Checkpoint

An object is its id, `at` the chain it is in: inventory, floor or buried on a
level, in a box, carried by a monster, migrating to a level, freed. What is in
memory follows from the chains (`ObjsInMemory`, `MonsInMemory`), as does what is
saved with a level (`Local`, the rule of `obj_is_local`) and with the hero
(`Global`). The five pointers are those that a level change and a checkpoint
handle in five different ways: the meal and the polearm's target are kept by an
id beside the pointer (the tin and the spellbook, which behave as the meal, are
left out), the lock is kept only when its box is carried, the stuck monster is
let go, the steed travels. `Wild` is a pointer to freed memory, `Abandoned` one
to an object no chain leads to. `GotoLevel` is one action, since nothing else
runs inside: followers and falling objects go, the rest is saved, freed and its
twins stamped, the new level is read and relinked, and monsters that find no
place go to limbo.

In `Checkpoint` the host calls come between two commands. `SavePlayer` takes the
ids into the blob and gives the live game its pointers back. The id of the meal it
does not give back: save.c:601 keeps an id only when there is a pointer, so the id
of a meal on another level, where the pointer is null, is lost both in the blob
and in the game that plays on, against the comment of save.c:528-529 that the live
game is left fully intact. Unwound by a panic (`SavePlayerUnwound`) the call gives
no pointer back. A resume starts a new game, in which the kit
of the new hero stands in the inventory while `nle_load_level` relinks the
lights of the level (`KitFirst`), and then replaces the hero (`LoadPlayer`),
looks every id up, and panics when the stuck monster is not on the level
(`LoadPlayerLost`). `meal` and `kept` are history: the food the hero began to eat
last, and what the saves since then did to it (`kept`, `away` when one was made
while the food was on another level, `unwound`). `MealCanResume` speaks of `meal`
and not of the ids the code keeps, so that a lost id cannot excuse a lost meal.

### 2.7 MoveLoop

`at` is the place in `moveloop`: in a pass of `movemon` between two monsters
(`pass`) or inside a monster's handler (`act`), at the three parts of a new turn
(`turn`, `ration`, `tick`), at the hero's move (`play`), in a command or an
occupation. The lists `fmon` and `migrating_mons` are sequences. A handler may kill
any monster, put new ones at the head, leave the level itself, send another one
into limbo (`ActLimbo`: a guard clears its way or its corridor, vault.c:83 and 647;
a monster finds no place, mon.c:2794), park itself when it is a guard, make the
hero helpless, or flag a level change, any number of times before it returns. The
successor is saved when a handler begins, that of a parked guard (`BeginGuard`)
too, and `After` follows the list the monster is on: when the saved successor
was sent to `migrating_mons`, the walk goes on there, moves whoever has movement
left, and ends without having seen the rest of `fmon`. A pass that `u.utotype`
ends is followed by a change of level (`EndPassGoto`) or not (`EndPassStay`: the
early returns of `goto_level`, do.c:1277, 1321, 1332, 1336, 1344, and of
`deferred_goto`, do.c:1750); a command, too, may find its level change refused.
A new level holds any set of monsters and guards, living, parked or dead, and
any number of followers.

`purge` is `iflags.purge_monsters`. `owed`, `late` and `walk` are history: who is
still to act in this pass, who came to the list since it began, and whether the
pass is whole, went astray to `migrating_mons`, or was ended early by a level change
that did not come. The last two are where the comments of the code fail: that of
mon.c:746-752 says that monsters "can only affect level migrations on themselves,
not others", that of allmain.c:114 that at a new turn "both hero and monsters are
out of steam". `NobodyIsSkipped`, `OutOfSteam`, `OnceInPass` and `CursorAlive` say
that these two are the only ways, and that even then nothing freed is read.

Helplessness may begin in a monster's turn, in the new turn (fainting,
passing out: allmain.c:246, timeout.c:707) and in the hero's move (`Nomul`). The
hero's ration is that of its own speed or what `mcalcmove` gives its steed, which
may be nothing in any turn (mon.c:674-680).

Rules that decide which of these happens are left out. Four things are simpler
than in the code: a guard is not sent into limbo (`mnearto` on a full level could);
`m_detach` is one step, although it drops the inventory before it counts the
death; a monster that moves on `migrating_mons` neither dies there nor comes
back to the map by itself, and when it leaves once more `relmon` panics, which is
part of `HeroDies`; and the walk of `mcalcdistress`, which only counts down and
may follow a monster to `migrating_mons` as well, is a part of `Turn`. With
`SaveAtMore` the host may call `nle_save_level` inside a handler, that is at a
--More--; without it only at a prompt for a command.

## 3. The checks

Passing runs; bounds are the constants of the cfg.

| run | instance | states | what it shows |
|---|---|---|---|
| `sentinel` | 2 threads, 3 environments, 2 slots, 2 beats | 0.4 million | `SlotExclusive`, `SlotDescribesOwner`, `StepCountsBeats`, `FaultNamesEnv`, `FullMeansFull`; and the refinement `ImplementsRegistry` |
| `watchdog` | 1 worker, 2 environments, 2 slots, 2 beats | 0.3 million | `AbortMeansStall`, `DeathIsReported`, and the liveness `HangIsReported` |
| `arena_registry` | 3 threads, 3 environments, 4 addresses, 2 slots | 25 thousand | `LiveArenasListed`, `ForeignFreeCaught`, `BlocksReturned` |
| `data_library` | 2 environments, files of 2 and 1 bytes | 0.2 million | `OpenedOnce`, `LibraryUsable`, `ReadsOwnFile`, and the liveness `StartsReturn` |
| `fast_reset` | 3 levels, one of them in the endgame, 2 handles, 2 descriptors, 5 steps, 2 processes, 1 failing restore or load | 1.9 million | `FilesMatchFlags`, `FilesHoldOwnPast`, `NoFakeDeath`, `TapeFollowsGame`, `HandleFindsPrefix` |
| `timer_queue` | 2 objects, 2 functions, 2 levels, 3 turns | 32 thousand | `TimedCountsTimers`, `TimersFollowObjects`, the action property `RunClearsOverdue`, and the refinement `ImplementsDeadlines` |
| `checkpoint` | food, a lamp, a box, a monster, 2 levels; reads and writes may fail | 0.9 million | `NoDangling`, `MealCanResume`, `LightsSane`, and the action properties `ResumeIsExact`, `SaveLeavesGame` |
| `move_loop` | 2 monsters and a guard, every load, a turn of helplessness, a speed of 1.5 rations | 1.6 million | `PurgeMatches`, `CursorAlive`, `NobodyIsSkipped`, `OutOfSteam`, the action property `OnceInPass`, and the liveness `HeroIsAsked` |

The runs `timer_queue`, `checkpoint` and `move_loop` check the type invariant of
their module too; those of the other modules are left to the proofs.

Why these bounds suffice for the cases of interest: two threads racing for a
slot, a slot that changes its owner (three environments over two slots), a full
table; a reused address needs one more address than arenas alive at once; a
handle below another's cut needs two handles and three steps, one within a
level change four; a timer that expires while away needs two levels and two
turns. A pointer goes wrong with one object or monster and two levels; that an
object is in the new game's kit needs one that is. In `move_loop` two ordinary
monsters are enough for the successor of one to be the other, dead, newborn,
gone or sent away, and the guard between them enough for the walk to go astray
with a monster left on `fmon`. The normal speed of 2 is the smallest that the
heaviest load halves as the code does 12, and with a speed of 3 the hero saves up
a second move, during which it may be helpless. One turn of helplessness and a
repeat count of one bound the length of these only; the proofs have no bound. `fast_reset` takes handles in the first four steps only, and
not beside a checkpoint (`Mixed`): the blob does not depend on handles, and the
proofs of section 4 have no such bound. Every property has at least one mutant of the code, listed under
`mutants`, by which TLC finds it violated within the same bounds; the mutated
definitions stand above the originals, marked "Mutant".

Runs that show a disagreement between the code and what is written about it:

| run | property | the disagreement |
|---|---|---|
| `sentinel_panic` | `PanicInOwnSlot` | the panic of a game that is still starting lands in the slot its thread stepped last |
| `fast_reset_open_file` | `RestoreKeepsLevelChange` | a descriptor held across a prompt does not travel with a snapshot: after a restore it is closed, another file's, or that of an inode the restore removed |
| `checkpoint_relight` | `LightsSane` | a burning lamp of the first kit, dropped on the floor, has its light linked to the kit of the game that was started to load into |
| `move_loop_save` | `CursorAlive` | `nle_save_level` at a --More-- inside a guard's turn frees a dead monster that `movemon` has saved as the successor |

Each has a passing neighbour that states what does hold: `FaultNamesEnv`,
`FilesMatchFlags`, and `LightsSane` and `CursorAlive` themselves, with a kit
without a lamp and with saves at command prompts only.

More disagreements stand in the premises of passing properties:

* The comment of nle_sentinel.c:244 says that the watchdog fires only when every
  environment stops advancing; but when an environment ends and another has caught
  up with its heartbeats by the next poll, the sums are equal and a process that
  steps is aborted, hence `~freedSince` in `AbortMeansStall`.
* The comment of nle.c:433 says that a recording reads as one uninterrupted game;
  but when an early handle is restored, and then a later one it has cut,
  `ftruncate` extends the file with bytes that no step wrote, hence `~torn` in
  `TapeFollowsGame`.
* The comments of mon.c:746-752 and allmain.c:114 quoted in 2.7, hence `walk` in
  `CursorAlive`, `NobodyIsSkipped`, `OutOfSteam` and `OnceInPass`.
* The comment of save.c:528-529 quoted in 2.6, hence the exact statement of what a
  save takes in `SaveLeavesGame`, and `kept` in `MealCanResume`.

Fairness. `Sentinel`, `ArenaRegistry`, `FastReset`, `DiskCheckpoint`,
`Checkpoint` and `TimerQueue` are checked
for safety alone: nothing makes a caller start or step a game. `Watchdog`
assumes that the kernel goes on scheduling the watchdog thread and a thread
inside the signal handler (weak fairness), and nothing of the workers, which may
stop at any point: that is what a hang is. `DataLibrary` assumes that a thread
inside `dlb_init` is scheduled; the spin of the waiters then ends because the
opener's does. `MoveLoop` assumes that control moves on until the game is
suspended at a prompt for a command or over (handlers return, since they are
ordinary functions; a --More-- is answered); it is weak fairness of the steps
that change `at` or `cur`, written out. The rest stands in the premise of
`HeroIsAsked`, since no scheduling gives it: that from some point on neither a
monster nor the turn makes the hero helpless anew, that no form that cannot move
is given anew, and that a hero who can move gets a ration at a speed of its own
again and again. The last is not so for a hero on a steed that gets nothing in
any turn, which `mcalcmove` may do for ever when `monster_speed_scale` is small:
moveloop then passes turn after turn without a prompt. Symmetry is used in runs without liveness properties only.
Deadlock is checked in `move_loop`, where a game that is over stutters. It is not
in the others, since all games may have ended, the process may have died, or a
bound may be reached.

## 4. The proofs

`SentinelProofs` proves, for every set of threads and environments, every number
of slots and every bound on the steps, that `Sentinel`
satisfies each property of the run `sentinel`, and its type invariant:

* `TypeCorrect`, `SlotsAreExclusive`, `SlotsDescribeOwners`, `StepsCountBeats`,
  `FaultsNameTheirEnv`, `FullIsFull`: `Spec => []` of the invariants;
* `RegistryImplemented`: `Spec => Registry!Spec`.

Assumptions: `CapAssumption` and `NoneAssumption` of module `Sentinel` (the
number of slots and the bound on the steps are natural numbers; `None` is no environment and no slot).

The argument. `SlotExclusive` alone is not inductive: it does not say that the
slot of an environment is in use, that an environment is operated by one thread
at a time, or that an environment being registered has no slot yet. `IInv` adds
these:

    IInv == TypeOK /\ Ownership /\ Registration /\ SlotTable

`Ownership` ties `busy` environments to the one thread that operates them,
`Registration` says where an environment without a slot can be, and `SlotTable`
that the slot of an environment is published and no other environment's, and
that a slot being filled is marked 2 and belongs to one thread. There is one lemma per action, and `NextKeepsIInv`
puts them together. On top of `IInv` come layers that each need the former but
not each other: the contents of claimed and published slots (`SlotDescribesOwner`),
the load a beat is holding (`StepCountsBeats`), the slot a thread last beat
(`FaultNamesEnv`), and `FullMeansFull`. For the
refinement, `Publish` maps to `Acquire`, `BeatAdd` to `Advance`, `NleEnd` of a
registered environment to `Release`, and every other step leaves the published
view unchanged.

The second half of `SentinelProofs` is about `Watchdog`. A step of a worker beside
the watchdog is a step of `Sentinel`, and every other step leaves the registry
alone, so `WSpec => Spec` (`WatchedIsSentinel`): whatever is proved of the registry
holds while it is polled. `WInv` adds the types, the position of the poll (a
heartbeat is read inside the table, the abort comes at the second unchanged poll),
and that a thread past the dump has left a report; `DeathsAreReported` follows.
`AbortsMeanStalls` is the watchdog's verdict: its sum is read slot by slot while the
workers run, so it is the sum of no instant. But while no slot is released, what a
slot publishes only grows (`PublishedOnlyGrow`). `PollInv` says that there are
numbers `S[i]`, the sum of the reference poll when it came to slot `i`, whose
difference at each slot is at most what the slot publishes now, and less at some
slot once a step has begun; the poll under way stays above `S` at its own position,
strictly so once it has passed that slot. When the two sums are equal at the end of
the table there has been no such slot. `S` is not a variable of the model: the
invariant says that it exists, and the end of a poll supplies the next.
Assumption: `DogAssumption` (the watchdog is none of the threads, and `None`, which
`last` is before the first poll, is no sum).

`ArenaRegistryProofs`, for any number of threads, environments, addresses and
slots: `TypeCorrect`, `LiveArenasAreListed`, `ForeignFreesAreCaught`,
`BlocksAreReturned`. Assumption: `ArenaAssumption` (the number of slots is a
natural number; `Null` is no address and no environment). The invariant is

    IInv == TypeOK /\ CallsInv /\ AddrsInv /\ TableInv /\ ListedInv /\ FreesInv /\ BlocksReturned

A call works for an environment no other call touches (`CallsInv`); arenas and
context blocks are mapped and apart from each other (`AddrsInv`); the table lists
mapped arenas, each once (`TableInv`); and where an arena stands in the table
follows from what is done to it (`ListedInv`): nowhere while it is looked for an
empty slot or unmapped, in the caller's slot while that is filled or cleared, and
below the mark while its environment lives. `FreesInv` is about scans that others
overtake. A call that frees a pointer into an arena nobody removes has not passed
that arena's slot, and once it has read the base there it has read this one. A call
that frees a context block has never read a base equal to the block's address:
while the address is libc's no arena has it, and it stays libc's until this call
frees it. So the size it reads next, which may be that of the slot's next owner,
does no harm.

`DataLibraryProofs`, for any number of environments, any file sizes and any bound
on a read: `LibraryIsOpenedOnce`, `LibraryIsUsable`, `HandlesReadTheirFiles`. The
invariant says who may be inside `dlb_init` in each value of `dlb_init_state`,
that a handle in the live game and in a snapshot stands within its own file, and
that what was read since the last seek is the segment of the file that ends at
the mark.

`FastResetProofs`, for any levels, endgame, handles and bounds on steps and
faults: `FilesAreThoseFlagged`, `FilesAreOfThisGame`, `NoDeathIsFaked`,
`TapeIsOfThisGame`, `HandlesFindTheirPrefix`. The properties of the live game are
not inductive, since a restore replaces it by a snapshot: the invariant states
them of every snapshot as well, with its own files and `dirty` flag. Nothing needs
to be known of the descriptors: wherever the number on the stack leads, the level
that is left, or another, or none has been written, and in all cases but the first
`dirty` is set. Of the
recording it says that, unless it is torn, it is what the memory remembers of the
game, and that every handle that is not cut finds in it the prefix it marked:
restoring an earlier handle cuts exactly the handles that marked more.

Its second half is about `DiskCheckpoint`: the same five hold of `DSpec`, so beside
checkpoints and over any number of processes, without the bounds `Mixed` and
`HandleClock`. The invariant is that of `FastReset`, the same statements about the
blob, and that between the load of the level and that of the files `dirty` is set.

`CheckpointProofs`, for any objects (food, boxes, lamps, polearms and kit among
them), monsters and levels: `CheckpointTypes`, `NothingDangles`, `MealsCanResume`,
`LightsAreSane`, and the action properties `ResumesAreExact` and
`SavesLeaveTheGame`. Assumptions: those of `Travel` on its constants, and that
`Null` is no blob. The invariant is

    IInv == GameOK /\ MealOK /\ HistoryOK /\ HostOK /\ LoadingOK

`GameOK` says that objects and monsters are in chains, no box in a box, and that
each of the five pointers leads into what the chains have in memory; `MealOK` ties
the meal's pointer to its id; `HistoryOK` ties the history to the ids of
the live game and of the blob: a meal that was kept is the one the id names, one that
a save took has no id; `HostOK` says of each blob the host holds what
`GameOK` says of the game, since a resume makes it the game; `LoadingOK` says of a
game that is half loaded that it points to nothing yet and that its chains are
those of the blob, but for those not loaded. The weight of the proof is in
`GotoLevel`: which chains the followers and the falling objects are in when the
level is written, and what has been let go by then. `LightsAreSane` holds under
the premise `Kit \cap Lamps = {}`, that of the run `checkpoint`; without it the run
`checkpoint_relight` refutes the property. Its invariant adds `LightsInv` to `IInv`:
a level's file names the lights of what is on the level.

`MoveLoopProofs`, for any monsters, guards, loads and bounds on helplessness and
forms: `MoveLoopType`, `PurgeIsCounted`, `CursorStaysAlive`, `EveryMonsterMoves`,
`TurnWhenOutOfSteam`, and the action property `ActsOnceInPass`. Premise of each:
`~SaveAtMore`, since with saves at a --More-- inside a monster's turn the run
`move_loop_save` refutes `CursorAlive`. The invariant is

    WalkInv == LevelOK(level) /\ LoopOK /\ HeroOK /\ WalkOK /\ TurnOK

`LevelOK`: `fmon` holds each monster that lives or waits for the purge once,
`migrating_mons` each that was sent away, and `purge` is the number of those
`dmonsfree` will free. `WalkOK`: from where a whole walk stands, every monster still
owed its move is ahead on the list, whatever is ahead and can act is owed, and
when no rescan is due, whoever can act is ahead or new; a walk that went astray
stands on `migrating_mons` or at its end. `TurnOK`: a turn begins when that leaves
nobody but the new, unless the pass was not whole. The lemmas say what a death, a
purge, an arrival at the head, a departure and a guard's parking do to the order of
the lists; a handler is a finite sequence of these, and each keeps `WalkOK`: the one
that sends the saved successor away turns a whole walk into one that is astray.

`ListLemmas` is where these rest: a filter keeps the order, the first element of a
kind is found where a walk stops, the count of a filtered list is the count of the
elements. A walk is a recursive function on the positions `1 .. n + 1`. The
induction theorems of the library cannot be instantiated, but two of its facts take
sets in their place: the order `<` on the numbers is well founded, so a set of
numbers has a least member, and a set that has 0 and each successor is all of them.

`TimerQueueProofs`, for any objects, timeout functions, levels, delays and number of
turns: `TypesAreRight`, `TimedIsTheCount`, `TimersStayWithObjects`, the action
property `NothingOverdue`, and the refinement `TimersKeepDeadlines`. Assumption:
`TimeAssumption` (turns are counted from 1, delays are integers, before or after
now, and `Off` is no time). The invariant is

    Inv == Types /\ Sorted(queue) /\ Follows /\ \A o \in Objs : Counted(o)

`Types` says of the list and of each level's file that they repeat nothing and hold
at most one timer for an object and a function, which `start_timer` enforces for
the list alone; that this holds of all of them together follows from `Follows`,
since the object of a timer is in one place. `Follows` is also why a level change
finds the file of the level that is left empty and merges lists that share no
object, and why `dealloc_obj` need not look into files. `Counted` makes the test of
`obj->timed` in `dealloc_obj` and `run_timers` the same as a look at the list, and
`Sorted` is what lets `run_timers` stop at the first timer that is not due. The lemmas about lists come first: `insert_timer` adds a
timer and keeps the order, merging a file is one insertion after the other (by
induction over the walk), the clones of `splitobj` are as many as the timers they
copy. For the refinement, the due times are a function of the set of all timers
(`DueTimes`): starting, stopping, splitting off and ending change it as the steps of
`Deadlines` do, and a level change, which moves timers between the list and the
files, leaves the set alone (`Moved`).

Only model-checked: the liveness properties `HangIsReported`, `StartsReturn` and
`HeroIsAsked`, which are outside of what the prover handles, and the four
disagreements of the runs that expect a violation.

A convention of the modules with proofs: an `EXCEPT` names an index once, so two
fields of a thread's record change by `![t] = [@ EXCEPT !.a = .., !.b = ..]` and
never by `![t].a = .., ![t].b = ..`. The translation of tlapm 1.4.5 to SMT is
inconsistent for the second form, and a proof about it would show nothing. For the
same reason no leaf of a proof mixes `Len` or `Seq` with functions whose domain is
not `1 .. n`: the translation of `Len` speaks of every function.

## 5. What is not modelled, and why

* The rules of the game (combat, items, magic, level generation): sequential
  case analysis over large data, where a model would be a second copy.
* Serialisation formats, display, the window port, the bindings: data movement.
* Random numbers: pure 64-bit mixing. All the rest relies on is that the
  generator's state is part of the block.
* Weak memory: accesses are interleaved. The code pairs release and acquire on
  `in_use` and `nle_arena_registry_base`; the relaxed counters are monotonic.
* Bumping within an arena and its exhaustion; level timers, ghostly restores of
  timers, `dosave` and `dorecover`; the byte formats of the blobs.
* `nle_fr_last_rc` is one variable of the process; `FastReset` models one
  environment, so that restores on several threads overwrite it for each other
  is a hazard no property covers.
* A level teleport inside `mcalcdistress`: an engulfer that changes shape there
  drops the hero, who may land on a level teleporter; `level_tele` then changes
  the level at once, since `mon_moving` is not set, and replaces `fmon` under the
  loop. Showing it needs engulfing and traps in the model.
* `Sentinel.Panic` is one step, although `panic` prints and may wait for a key
  (end.c:602-606) before it copies its message (:660): nothing a property speaks of
  lies between. `DeathIsReported` speaks of a death by the signal; a second handler
  that ends the process by `_exit` cuts the report of the first short.
* In `Checkpoint`: engravings, ball and chain, shops, and `nle_load_level` into a
  game that has been played, whose pointers it does not let go of; the leak of a
  descriptor and of the scratch file when a call is unwound.
* Most of the program by lines is the rules of the game, the compilers of level
  files and the window ports, so the share of all lines that `map` names stays
  small; the parts listed in 1.1 in bold are where state is shared, suspended,
  written out or brought back.

## 6. Plan

Done, in this order: `EnvRegistry`, `Sentinel`, `Watchdog`, `FastReset`,
`Deadlines`, `TimerQueue`, `ArenaRegistry`, `DataLibrary`, `SentinelProofs`,
`Travel`, `Checkpoint`, `DataLibraryProofs`, `FastResetProofs`, `DiskCheckpoint`,
`MoveLoop`, the proofs of `Watchdog` and `DiskCheckpoint`, `ArenaRegistryProofs`,
`Lists`, `ListLemmas`, `MoveLoopProofs`, `CheckpointProofs`, `AbortsMeanStalls`,
`TimerQueueProofs`.

To extend the model, most important first:

1. Two environments in `FastReset`, with the shared `nle_fr_last_rc`, and a host
   that runs them on two threads.
2. Engulfing and traps in `MoveLoop`, for the level teleport in `mcalcdistress`,
   and blob calls at a --More-- in `Checkpoint`.
3. `TimerQueue` completed: level timers, the global save range with `needs_fixup`
   and relinking, ghostly adjustment; `stop_timer` under `end_burn`.
4. The lights of monsters, and split and merged light sources.
5. Shop bills, as a protocol between the inventory, the floor and the bill.

Every safety property and action property of the passing runs is proved now. To prove
next: the invariants of the extensions above, each with its extension.
