---------------------------- MODULE DiskCheckpoint ----------------------------
(***************************************************************************)
(* Checkpoints that outlive the process, as far as the level files go: the *)
(* level blob and the hero blob (nle.c, save.c, restore.c) with the blob   *)
(* of the level files (nle_fast_reset.c).  The host saves all three        *)
(* between two commands, one after the other; a new process with an empty  *)
(* hackdir starts a game of its own and loads them over it.  The level     *)
(* blob goes through the file of the level the new game is on, whichever   *)
(* level it was saved from, so the files are loaded last.                  *)
(*                                                                         *)
(* The snapshots of module FastReset go on beside it; they end with their  *)
(* process.                                                                *)
(***************************************************************************)
EXTENDS FastReset

CONSTANTS
  MaxProcesses, \* bound on the processes one after the other
  HandleClock,  \* bound on the clock while the host has handles
  Mixed         \* FALSE: the host has no handles while it has a checkpoint (a bound)

ASSUME ProcessAssumption ==
  MaxProcesses \in Nat \ {0} /\ HandleClock \in Nat /\ Mixed \in BOOLEAN

VARIABLES
  stage,    \* which blobs are saved, or loaded, at this point
  blob,     \* the checkpoint: mem, files and dirty as in a snapshot, or NoSnap
  process   \* the number of this process

hvars == <<stage, blob, process>>
dvars == <<vars, hvars>>

Stages == {"play", "level_saved", "hero_saved", "new", "level_loaded", "hero_loaded"}

Blob == [mem : Memory, files : [Levels -> Int], dirty : BOOLEAN]

DInit == Init /\ stage = "play" /\ blob = NoSnap /\ process = 1

NoHandles == \A s \in Snaps : snaps[s] = NoSnap

\* Steps, snapshots and restores.
DPlay ==
  /\ stage = "play" /\ Next
  /\ NoHandles' \/ (clock' <= HandleClock /\ (Mixed \/ blob = NoSnap))
  /\ UNCHANGED hvars

-----------------------------------------------------------------------------
(* Saving                                                                  *)

\* nle_save_level: the current level gets its file, flagged, as if it was left.
HostSaveLevel ==
  /\ stage = "play" /\ game = "run" /\ mem.target = Stay /\ (Mixed \/ NoHandles)
  /\ disk' = [disk EXCEPT ![mem.cur] = clock]
  /\ mem' = [mem EXCEPT !.exists = @ \cup {mem.cur}, !.saved[mem.cur] = clock]
  /\ stage' = "level_saved"
  /\ UNCHANGED <<clock, fds, tape, recording, snaps, rc, game, dirty, torn, faults,
                 blob, process>>

\* It panics while it writes, and is unwound: the file is flagged and cut short.
HostSaveLevelUnwound ==
  /\ stage = "play" /\ game = "run" /\ mem.target = Stay /\ (Mixed \/ NoHandles)
  /\ disk' = [disk EXCEPT ![mem.cur] = Empty]
  /\ mem' = [mem EXCEPT !.exists = @ \cup {mem.cur}]
  /\ UNCHANGED <<clock, fds, tape, recording, snaps, rc, game, dirty, torn, faults, hvars>>

\* nle_save_player: level_info goes into the blob.  The scratch file is no
\* level file.  When the call fails the host gives up.
HostSavePlayer ==
  /\ stage = "level_saved"
  /\ stage' \in {"hero_saved", "play"}
  /\ UNCHANGED <<vars, blob, process>>

\* nle_fr_levelfiles_blob: every level file of the hackdir, or no blob at all.
HostSaveFiles ==
  /\ stage = "hero_saved"
  /\ blob' \in {blob, [mem |-> mem, files |-> disk, dirty |-> dirty]}
  /\ stage' = "play"
  /\ UNCHANGED <<vars, process>>

-----------------------------------------------------------------------------
(* Resuming                                                                *)

\* A new process with a new hackdir: no file, no snapshot and no descriptor of
\* the old one, a recording of its own, and a game that has not left its level.
NewProcess ==
  /\ blob # NoSnap /\ process < MaxProcesses
  /\ \E l \in Levels \ Endgame :
       mem' = [cur |-> l, exists |-> {}, saved |-> [k \in Levels |-> 0],
               hist |-> <<>>, target |-> Stay, fd |-> NoFd]
  /\ disk' = [l \in Levels |-> Absent] /\ fds' = [f \in Fds |-> Shut]
  /\ tape' = <<>> /\ recording' = TRUE /\ torn' = FALSE
  /\ snaps' = [s \in Snaps |-> NoSnap]
  /\ rc' = 0 /\ game' = "run" /\ dirty' = FALSE
  /\ process' = process + 1 /\ stage' = "new"
  /\ UNCHANGED <<clock, faults, blob>>

\* nle_load_level: the blob is written over the file of the level the new game
\* is on, with the ledger and the pid of the old game, and read from there.  From
\* now on the files have to be loaded.
HostLoadLevel ==
  /\ stage = "new"
  /\ disk' = [disk EXCEPT ![mem.cur] = Foreign]
  /\ mem' = [mem EXCEPT !.exists = @ \cup {mem.cur}]
  /\ dirty' = TRUE /\ stage' = "level_loaded"
  /\ UNCHANGED <<clock, fds, tape, recording, snaps, rc, game, torn, faults, blob, process>>

\* nle_load_player: u.uz and level_info are those of the old game; the recording
\* is not.
HostLoadPlayer ==
  /\ stage = "level_loaded"
  /\ mem' = blob.mem
  /\ torn' = TRUE /\ stage' = "hero_loaded"
  /\ UNCHANGED <<clock, diskVars, tape, recording, snaps, rc, game, dirty, faults, blob, process>>

\* The levels that have a file in the blob.
Bundled(files) == { l \in Levels : files[l] # Absent }

\* Mutant: the files keep the pid of the process that wrote them.
StampNothing(files) == [l \in Levels |-> IF files[l] > 0 THEN Foreign ELSE files[l]]

\* The file gets the pid of this process, when it is long enough to have one.
Stamped(files) == files

\* nle_fr_restore_levelfiles with stamp_pid.  For the levels in bad a call fails:
\* the file stays as it was, is short, or keeps the old pid.  Those written after
\* a failure, late, are written and not stamped.
HostLoadFiles(bad, late) ==
  /\ stage = "hero_loaded"
  /\ bad \subseteq Bundled(blob.files) \cup Bundled(disk)
  /\ late \subseteq Bundled(blob.files) \ bad
  /\ bad \cap Bundled(blob.files) = {} => late = {}
  /\ \E short \in SUBSET (bad \cap Bundled(blob.files)) :
       \E old \in SUBSET (bad \cap Bundled(blob.files)) :
         disk' = [l \in Levels |->
           IF l \in short THEN Empty
           ELSE IF l \in old \cup late
             THEN (IF blob.files[l] = Empty THEN Empty ELSE Foreign)
           ELSE IF l \in bad THEN disk[l] ELSE Stamped(blob.files)[l]]
  /\ dirty' = (blob.dirty \/ bad # {})
  /\ faults' = IF bad = {} THEN faults ELSE faults + 1
  /\ faults' <= MaxFaults
  /\ stage' = "play"
  /\ UNCHANGED <<clock, mem, fds, tape, recording, snaps, rc, game, torn, blob, process>>

DNext ==
  \/ DPlay
  \/ HostSaveLevel \/ HostSaveLevelUnwound \/ HostSavePlayer \/ HostSaveFiles
  \/ NewProcess \/ HostLoadLevel \/ HostLoadPlayer
  \/ \E bad, late \in SUBSET Levels : HostLoadFiles(bad, late)

DSpec == DInit /\ [][DNext]_dvars

-----------------------------------------------------------------------------

\* The checkpoint and the host keep their shapes.
DTypeOK ==
  /\ TypeOK
  /\ stage \in Stages /\ process \in 1 .. MaxProcesses
  /\ blob \in Blob \cup {NoSnap}
=============================================================================
