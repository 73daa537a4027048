------------------------------ MODULE FastReset ------------------------------
(***************************************************************************)
(* In-memory snapshots of one environment (nle_fast_reset.c), with the two *)
(* things a snapshot does not copy but has to keep in step with: the level *)
(* files NetHack keeps in the hackdir (files.c, do.c), and the recording   *)
(* of the game (nle_ttyrec_mark and nle_ttyrec_rewind in nle.c).           *)
(*                                                                         *)
(* mem stands for everything that is copied as a block: the context with   *)
(* the game's globals, the arena, the coroutine's stack, the mirror and    *)
(* the terminal.  Of it the model keeps what the files and the recording   *)
(* must agree with.  A level change writes the level being left between    *)
(* two prompts at which a snapshot can be taken: the file is created, and  *)
(* open, at the first (impact_drop may ask for --More--), and written and  *)
(* closed after it.  A change without a prompt is the two steps in a row.  *)
(* A descriptor refers to a file, not to a name: it stays open through a   *)
(* restore, its file may be removed, and its number may be given to another*)
(* file; the number itself is in the memory that a restore brings back.    *)
(* Who enters the endgame leaves no way back: every level file is deleted. *)
(***************************************************************************)
EXTENDS Integers, Sequences, FiniteSets

CONSTANTS
  Levels,    \* ledger numbers
  Endgame,   \* those of the endgame, which is not left again
  Snaps,     \* snapshot handles
  Fds,       \* descriptor numbers
  MaxClock,  \* bound on the number of steps of the game
  MaxFaults, \* bound on the restores in which a system call fails
  NoSnap     \* a handle that holds nothing

NoFd == 0 \* no descriptor

ASSUME LevelsAssumption == Levels \subseteq Nat \ {0} /\ Levels # {} /\ Endgame \subseteq Levels
ASSUME FdsAssumption == NoFd \notin Fds
ASSUME BoundsAssumption == MaxClock \in Nat \ {0} /\ MaxFaults \in Nat

Foreign == -2 \* a file that getlev takes for another game's or another level's
Absent  == -1 \* there is no such file
Empty   == 0  \* a file created and not written
Hole    == 0  \* bytes of the recording that no step wrote
Shut    == 0  \* a descriptor that is not open on a level file
Orphan  == -1 \* a descriptor on a file that has been removed
Stay    == 0  \* no level change under way

VARIABLES
  clock,     \* the last step (nle_start is 1): its number is its frame and version
  mem,       \* the live state, see Memory
  disk,      \* [Levels -> the version in the level's file, Empty, Absent or Foreign]
  fds,       \* [Fds -> the level whose file it is open on, Orphan or Shut]
  tape,      \* the frames in the recording
  recording, \* the compressed stream is open
  snaps,     \* [Snaps -> a snapshot or NoSnap]
  rc,        \* nle_fr_last_rc
  game,      \* "run", "over", "tricked", "panic", "abort"
  \* history:
  dirty,     \* files were lost: a call of a restore failed, or a level was written
             \* through a descriptor that is not its file's
  torn,      \* the recording was set to a snapshot it had been cut below
  faults     \* restores in which a system call failed

vars == <<clock, mem, disk, fds, tape, recording, snaps, rc, game, dirty, torn, faults>>
diskVars == <<disk, fds>>

\* cur: ledger_no(&u.uz); exists: ledgers flagged LFILE_EXISTS; saved: the version
\* the game last wrote for a level; hist: the frames of the game so far; target
\* and fd: the level change under way, as goto_level's locals on the stack.
Memory == [cur : Levels, exists : SUBSET Levels, saved : [Levels -> Nat],
           hist : Seq(Nat), target : Levels \cup {Stay}, fd : Fds \cup {NoFd}]

Snapshot == [mem : Memory, files : [Levels -> Int], off : Nat,
             dirty : BOOLEAN, cut : BOOLEAN]

Init ==
  /\ clock = 1
  /\ \E l \in Levels \ Endgame :
       mem = [cur |-> l, exists |-> {}, saved |-> [k \in Levels |-> 0],
              hist |-> <<>>, target |-> Stay, fd |-> NoFd]
  /\ disk = [l \in Levels |-> Absent] /\ fds = [f \in Fds |-> Shut]
  /\ tape = <<>> /\ recording = TRUE
  /\ snaps = [s \in Snaps |-> NoSnap]
  /\ rc = 0 /\ game = "run" /\ dirty = FALSE /\ torn = FALSE
  /\ faults = 0

-----------------------------------------------------------------------------
(* nle_step                                                                *)

\* A step begins by writing its action to the recording: without an open
\* stream the assertion in write_ttyrec_data ends the process.
CanStep == game = "run" /\ clock < MaxClock

Frame ==
  /\ CanStep /\ recording
  /\ clock' = clock + 1
  /\ tape' = Append(tape, clock')
  /\ UNCHANGED <<recording, snaps, rc, torn, faults>>

RecordFails ==
  /\ CanStep /\ ~recording
  /\ game' = "abort"
  /\ UNCHANGED <<clock, mem, diskVars, tape, recording, snaps, rc, dirty, torn, faults>>

\* A step without a level change, or with one that currentlevel_rewrite refuses
\* because it cannot create the file.
PlayStep ==
  /\ Frame /\ mem.target = Stay
  /\ mem' = [mem EXCEPT !.hist = Append(@, clock')]
  /\ UNCHANGED <<diskVars, game, dirty>>

\* goto_level up to a prompt: create_levelfile truncates the file of the level
\* being left, flags it and keeps the descriptor in fd.  Which of the free
\* numbers it is depends on the other environments of the process.
BeginGoto(l, f) ==
  /\ Frame /\ mem.target = Stay /\ l # mem.cur
  /\ mem.cur \in Endgame => l \in Endgame
  /\ disk' = [disk EXCEPT ![mem.cur] = Empty]
  /\ fds[f] = Shut /\ fds' = [fds EXCEPT ![f] = mem.cur]
  /\ mem' = [mem EXCEPT !.exists = @ \cup {mem.cur}, !.target = l, !.fd = f,
                        !.hist = Append(@, clock')]
  /\ UNCHANGED <<game, dirty>>

\* The file behind the descriptor on the stack.
Behind == IF mem.fd \in Fds THEN fds[mem.fd] ELSE Shut

\* savelev through it: the file of the level being left is written, or another
\* level's, which getlev will not take; or none, when the file has been removed,
\* or the number is not a level file's any more.
Written ==
  [l \in Levels |-> IF l # Behind THEN disk[l] ELSE IF l = mem.cur THEN clock' ELSE Foreign]

Closed == [f \in Fds |-> IF f = mem.fd THEN Shut ELSE fds[f]]

\* delete_levelfile of every level in levels: what is open on them stays open.
Deleted(files, levels) == [l \in Levels |-> IF l \in levels THEN Absent ELSE files[l]]
Unlinked(open, levels) == [f \in Fds |-> IF open[f] \in levels THEN Orphan ELSE open[f]]

\* cant_go_back.
EntersEndgame == mem.target \in Endgame /\ mem.cur \notin Endgame

\* A flagged level without a file ends the game in tricked_fileremoved, one whose
\* file has another pid or ledger in trickery; an unwritten one cannot be read.
Returns == mem.target \in mem.exists
Tricked == Returns /\ Written[mem.target] \in {Absent, Foreign}
Damaged == Returns /\ Written[mem.target] = Empty

\* The rest of goto_level: the level is written, and the new one is made or read.
FinishGoto ==
  /\ Frame /\ mem.target # Stay /\ ~EntersEndgame /\ ~Tricked /\ ~Damaged
  /\ disk' = Written /\ fds' = Closed
  /\ dirty' = (dirty \/ Behind # mem.cur)
  /\ mem' = [mem EXCEPT !.cur = mem.target, !.saved[mem.cur] = clock',
                        !.target = Stay, !.fd = NoFd, !.hist = Append(@, clock')]
  /\ UNCHANGED game

\* really_done, also after a panic: clearlocks deletes the files it has flags for.
GameOver(files, open, how) ==
  /\ game' = how
  /\ disk' = Deleted(files, mem.exists) /\ fds' = Unlinked(open, mem.exists)
  /\ mem' = [mem EXCEPT !.exists = {}, !.target = Stay, !.hist = Append(@, clock')]

\* A level change in which the game ends: bufon panics when the descriptor is
\* closed, and the level that is entered may be refused.
FailGoto ==
  /\ Frame /\ mem.target # Stay /\ ~EntersEndgame
  /\ \/ Behind = Shut /\ GameOver(disk, fds, "panic")
     \/ Damaged /\ GameOver(Written, Closed, "panic")
     \/ Tricked /\ GameOver(Written, Closed, "tricked")
  /\ dirty' = (dirty \/ Behind # mem.cur)

\* The hero dies, or the player quits.
Die == Frame /\ mem.target = Stay /\ GameOver(disk, fds, "over") /\ UNCHANGED dirty

\* The same into the endgame: the level is freed unwritten, delete_levelfile
\* removes every file that is flagged, and the new level is made.
EnterEndgame ==
  /\ Frame /\ mem.target # Stay /\ EntersEndgame
  /\ disk' = Deleted(disk, mem.exists) /\ fds' = Unlinked(Closed, mem.exists)
  /\ mem' = [mem EXCEPT !.cur = mem.target, !.exists = {}, !.target = Stay, !.fd = NoFd,
                        !.hist = Append(@, clock')]
  /\ UNCHANGED <<game, dirty>>

-----------------------------------------------------------------------------
(* Snapshots                                                               *)

\* nle_fr_snapshot, between two steps: the memory, every level file, and a mark
\* in the recording, whose stream is closed, when it is open, and opened again.
\* When a file cannot be read there is no handle at all.
Take(s) ==
  /\ game = "run" /\ snaps[s] = NoSnap
  /\ snaps' = [snaps EXCEPT ![s] =
       [mem |-> mem, files |-> disk, off |-> Len(tape), dirty |-> dirty, cut |-> torn]]
  /\ recording' = TRUE
  /\ UNCHANGED <<clock, mem, diskVars, tape, rc, game, dirty, torn, faults>>

\* nle_fr_destroy.
Drop(s) ==
  /\ snaps[s] # NoSnap
  /\ snaps' = [snaps EXCEPT ![s] = NoSnap]
  /\ UNCHANGED <<clock, mem, diskVars, tape, recording, rc, game, dirty, torn, faults>>

\* Mutant: files of the abandoned future are not removed.
RestoreKeepsStale(files, bad) ==
  /\ bad = {}
  /\ disk' = [l \in Levels |-> IF files[l] = Absent THEN disk[l] ELSE files[l]]
  /\ fds' = fds /\ rc' = 0

\* Mutant: a bundled file that is still there is not rewritten.
RestoreSkipsPresent(files, bad) ==
  /\ bad = {}
  /\ disk' = [l \in Levels |->
       IF files[l] # Absent /\ disk[l] # Absent THEN disk[l] ELSE files[l]]
  /\ fds' = fds /\ rc' = 0

\* nle_fr_restore_levelfiles: bundled files are rewritten, in the file there is
\* (O_TRUNC) or in a new one (O_CREAT), and the others are removed.  For the
\* levels in bad a call fails: a file that cannot be opened or removed stays, one
\* that is cut short is as good as empty.
RestoreFiles(files, bad) ==
  /\ bad \subseteq { l \in Levels : files[l] # Absent \/ disk[l] # Absent }
  /\ \E short \in SUBSET { l \in bad : files[l] # Absent } :
       disk' = [l \in Levels |-> IF l \in short THEN Empty
                                 ELSE IF l \in bad THEN disk[l] ELSE files[l]]
  /\ fds' = Unlinked(fds, {l \in Levels : disk'[l] = Absent})
  /\ rc' = IF bad = {} THEN 0 ELSE -1

\* Mutant: one frame too few is kept.
SetLengthShort(seq, off) ==
  [i \in 1 .. (IF off = 0 THEN 0 ELSE off - 1) |-> IF i <= Len(seq) THEN seq[i] ELSE Hole]

\* ftruncate makes the file exactly off frames long: a longer one is cut, and a
\* shorter one is extended with bytes nobody wrote.
SetLength(seq, off) ==
  [i \in 1 .. off |-> IF i <= Len(seq) THEN seq[i] ELSE Hole]

\* Mutant: the recording goes on where the abandoned branch left it.
RewindNothing(off) == tape' = tape /\ recording' = TRUE

\* nle_ttyrec_rewind.  When ftruncate fails the stream, closed before, stays closed.
Rewind(off) ==
  \/ tape' = SetLength(tape, off) /\ recording' = TRUE
  \/ tape' = tape /\ recording' = FALSE

\* nle_fr_restore.  The descriptors are the process's: no restore closes one, or
\* opens one again.
Restore(s, bad) ==
  /\ game # "abort" /\ snaps[s] # NoSnap
  /\ mem' = snaps[s].mem
  /\ Rewind(snaps[s].off)
  /\ RestoreFiles(snaps[s].files, bad)
  /\ game' = "run"
  /\ dirty' = (snaps[s].dirty \/ rc' # 0)
  /\ torn' = (snaps[s].cut \/ ~recording')
  /\ snaps' = [r \in Snaps |->
       IF snaps[r] # NoSnap /\ snaps[r].off > snaps[s].off
         THEN [snaps[r] EXCEPT !.cut = TRUE] ELSE snaps[r]]
  /\ faults' = IF rc' # 0 \/ ~recording' THEN faults + 1 ELSE faults
  /\ faults' <= MaxFaults
  /\ UNCHANGED clock

Next ==
  \/ PlayStep \/ FinishGoto \/ FailGoto \/ EnterEndgame \/ Die \/ RecordFails
  \/ \E l \in Levels, f \in Fds : BeginGoto(l, f)
  \/ \E s \in Snaps : Take(s) \/ Drop(s) \/ \E bad \in SUBSET Levels : Restore(s, bad)

Spec == Init /\ [][Next]_vars

-----------------------------------------------------------------------------
(***************************************************************************)
(* Properties                                                              *)
(***************************************************************************)

\* The live state, the files and every handle keep their shapes.
TypeOK ==
  /\ clock \in 1 .. MaxClock /\ mem \in Memory
  /\ disk \in [Levels -> Int] /\ fds \in [Fds -> Levels \cup {Shut, Orphan}]
  /\ tape \in Seq(Nat) /\ recording \in BOOLEAN
  /\ snaps \in [Snaps -> Snapshot \cup {NoSnap}]
  /\ rc \in {0, -1} /\ game \in {"run", "over", "tricked", "panic", "abort"}
  /\ dirty \in BOOLEAN /\ torn \in BOOLEAN /\ faults \in 0 .. MaxFaults

\* The contract of nle_fast_reset.c: through any sequence of steps, snapshots
\* and restores that reported no error, the level files are exactly those the
\* memory believes in (nle_fr_missing_levelfiles is 0, and no file of an
\* abandoned future is left).
FilesMatchFlags ==
  ~dirty => \A l \in Levels : disk[l] # Absent <=> l \in mem.exists

\* A level the hero left has in its file what this game, and not an abandoned
\* branch of it, wrote when he left; the level he is leaving is unwritten.
FilesHoldOwnPast ==
  ~dirty => \A l \in mem.exists \ {mem.cur} :
              disk[l] = mem.saved[l] /\ mem.saved[l] # Empty

\* The fake death of tricked_fileremoved follows only a restore that reported
\* an error through nle_fr_last_restore_rc, or a write through a stale descriptor.
NoFakeDeath == game = "tricked" => dirty

\* As long as no handle is used after the recording was cut below it, the
\* recording reads as the one uninterrupted game the memory comes from.
TapeFollowsGame == ~torn => tape = mem.hist

\* A handle that is not cut still finds its own prefix in the recording.
HandleFindsPrefix ==
  \A s \in Snaps : snaps[s] # NoSnap /\ ~snaps[s].cut =>
    /\ snaps[s].off <= Len(tape)
    /\ SubSeq(tape, 1, snaps[s].off) = snaps[s].mem.hist

\* What README.md says of a snapshot: all state travels with it.  A restore
\* that reported no error then never loses the level being left.
RestoreKeepsLevelChange == ~(mem.target # Stay /\ rc = 0 /\ Behind # mem.cur)
=============================================================================
