----------------------------- MODULE DataLibrary -----------------------------
(***************************************************************************)
(* The data library nhdat (dlb.c), which is opened once and then shared by *)
(* every environment of the process.  An environment opens files of the    *)
(* library through handles in its own memory, which snapshots copy.  The   *)
(* environments run on threads of their own here; a byte of the archive is *)
(* its offset.                                                             *)
(***************************************************************************)
EXTENDS Naturals, Sequences

CONSTANTS
  Envs,
  Offsets,  \* the directory: where the files of the archive start
  Total,    \* size of the archive
  MaxRead,  \* bound on size * quan of one read
  Null      \* no handle, no memory

Files == DOMAIN Offsets

ASSUME LayoutAssumption ==
  /\ Offsets \in Seq(Nat) /\ Offsets # <<>> /\ Total \in Nat /\ MaxRead \in Nat
  /\ \A f \in Files : Offsets[f] <= (IF f = Len(Offsets) THEN Total ELSE Offsets[f + 1])
  /\ \A f \in Files : Offsets[f] <= Total

ASSUME NamesAssumption == "libc" \notin Envs \cup {Null}

VARIABLES
  state,       \* dlb_init_state: 0 unstarted, 1 opening, 2 done
  initialized, \* dlb_initialized
  fdata,       \* dlb_libs[0].fdata is an open file
  dir,         \* where the directory was put: "libc", an environment's arena, or Null
  fpos,        \* the position of the shared file
  opens,       \* how often the library was opened (history)
  pc,          \* [Envs -> what the environment is doing]
  handle,      \* [Envs -> the file the environment reads, or Null]
  seen,        \* [Envs -> the bytes read since the last open or seek] (history)
  saved        \* [Envs -> the snapshot of handle and seen, or Null]

library == <<state, initialized, fdata, dir, fpos, opens>>
memory  == <<handle, seen, saved>>
vars    == <<library, pc, memory>>

\* since: where the reads recorded in seen began (history).
Handle == [start : Nat, size : Nat, mark : Nat, since : Nat]

Init ==
  /\ state = 0 /\ initialized = FALSE /\ fdata = FALSE /\ dir = Null
  /\ fpos = 0 /\ opens = 0
  /\ pc = [e \in Envs |-> "new"]
  /\ handle = [e \in Envs |-> Null] /\ seen = [e \in Envs |-> <<>>]
  /\ saved = [e \in Envs |-> Null]

GoTo(e, l) == pc' = [pc EXCEPT ![e] = l]

-----------------------------------------------------------------------------
(* dlb_init, early in every game                                           *)

\* Mutant: who finds the library unopened opens it.
InitLate(e) ==
  /\ pc[e] = "new"
  /\ IF state # 2 THEN state' = 1 /\ GoTo(e, "open") ELSE GoTo(e, "wait") /\ UNCHANGED state
  /\ UNCHANGED <<initialized, fdata, dir, fpos, opens, memory>>

\* The compare-and-swap of dlb_init_state.
InitOnce(e) ==
  /\ pc[e] = "new"
  /\ IF state = 0 THEN state' = 1 /\ GoTo(e, "open") ELSE GoTo(e, "wait") /\ UNCHANGED state
  /\ UNCHANGED <<initialized, fdata, dir, fpos, opens, memory>>

\* open_library: the file, if there is one ...
OpenLibrary(e) ==
  /\ pc[e] = "open"
  /\ \/ fdata' = TRUE /\ opens' = opens + 1 /\ GoTo(e, "read_dir")
     \/ GoTo(e, "done") /\ UNCHANGED <<fdata, opens>>
  /\ UNCHANGED <<state, initialized, dir, fpos, memory>>

\* Mutant: the directory is put into the arena of the environment.
ReadDirIntoArena(e) ==
  /\ pc[e] = "read_dir"
  /\ dir' = e /\ fpos' = 0 /\ initialized' = TRUE /\ GoTo(e, "done")
  /\ UNCHANGED <<state, fdata, opens, memory>>

\* ... and its directory, in memory from libc; a bad one closes the file again.
ReadDir(e) ==
  /\ pc[e] = "read_dir"
  /\ \/ dir' = "libc" /\ fpos' = 0 /\ initialized' = TRUE /\ UNCHANGED fdata
     \/ fdata' = FALSE /\ UNCHANGED <<dir, fpos, initialized>>
  /\ GoTo(e, "done")
  /\ UNCHANGED <<state, opens, memory>>

\* Mutant: the others are told only of a library that could be opened.
InitDoneOnSuccess(e) ==
  /\ pc[e] = "done"
  /\ state' = IF initialized THEN 2 ELSE state
  /\ GoTo(e, "play")
  /\ UNCHANGED <<initialized, fdata, dir, fpos, opens, memory>>

\* The others may go on, whether or not the library could be opened.
InitDone(e) ==
  /\ pc[e] = "done"
  /\ state' = 2 /\ GoTo(e, "play")
  /\ UNCHANGED <<initialized, fdata, dir, fpos, opens, memory>>

\* The loop that waits for another thread to have opened the library.
Wait(e) ==
  /\ pc[e] = "wait" /\ state = 2
  /\ GoTo(e, "play")
  /\ UNCHANGED <<library, memory>>

-----------------------------------------------------------------------------
(* Reading                                                                 *)

\* readlibdir: a file ends where the next one begins.
FileSize(f) == (IF f = Len(Offsets) THEN Total ELSE Offsets[f + 1]) - Offsets[f]

\* dlb_fopen.
Fopen(e, f) ==
  /\ pc[e] = "play" /\ handle[e] = Null /\ initialized
  /\ handle' = [handle EXCEPT ![e] =
       [start |-> Offsets[f], size |-> FileSize(f), mark |-> 0, since |-> 0]]
  /\ seen' = [seen EXCEPT ![e] = <<>>]
  /\ UNCHANGED <<library, pc, saved>>

\* Environment e gets the bytes of the archive from offset p, n of them.
Deliver(e, p, n) ==
  /\ handle' = [handle EXCEPT ![e].mark = @ + n]
  /\ seen' = [seen EXCEPT ![e] = @ \o [i \in 1 .. n |-> p + i - 1]]

\* Mutant: fseek and fread on the shared file.
FreadSeeks(e, n) ==
  \/ /\ pc[e] = "play" /\ handle[e] # Null
     /\ fpos' = handle[e].start + handle[e].mark
     /\ GoTo(e, "read")
     /\ UNCHANGED <<state, initialized, fdata, dir, opens, memory>>
  \/ /\ pc[e] = "read" /\ n <= handle[e].size - handle[e].mark
     /\ Deliver(e, fpos, n)
     /\ fpos' = fpos + n
     /\ GoTo(e, "play")
     /\ UNCHANGED <<state, initialized, fdata, dir, opens, saved>>

\* dlb_fread: pread from where this handle stands, at most to the end of its
\* file; a read may come back short.
Fread(e, n) ==
  /\ pc[e] = "play" /\ handle[e] # Null
  /\ n <= handle[e].size - handle[e].mark
  /\ Deliver(e, handle[e].start + handle[e].mark, n)
  /\ UNCHANGED <<library, pc, saved>>

\* dlb_fseek to a position that is clipped to the file.
Fseek(e, pos) ==
  /\ pc[e] = "play" /\ handle[e] # Null
  /\ LET to == IF pos > handle[e].size THEN handle[e].size ELSE pos IN
       handle' = [handle EXCEPT ![e] = [@ EXCEPT !.mark = to, !.since = to]]
  /\ seen' = [seen EXCEPT ![e] = <<>>]
  /\ UNCHANGED <<library, pc, saved>>

\* dlb_fclose.
Fclose(e) ==
  /\ pc[e] = "play" /\ handle[e] # Null
  /\ handle' = [handle EXCEPT ![e] = Null]
  /\ UNCHANGED <<library, pc, seen, saved>>

-----------------------------------------------------------------------------
(* The end of games                                                        *)

\* The game is over: dlb_cleanup does nothing.
GameOver(e) ==
  /\ pc[e] = "play"
  /\ GoTo(e, "over")
  /\ UNCHANGED <<library, memory>>

\* nle_fr_snapshot and nle_fr_restore, also of a game that is over.
Snapshot(e) ==
  /\ pc[e] = "play"
  /\ saved' = [saved EXCEPT ![e] = <<handle[e], seen[e]>>]
  /\ UNCHANGED <<library, pc, handle, seen>>

Restore(e) ==
  /\ pc[e] \in {"play", "over"} /\ saved[e] # Null
  /\ handle' = [handle EXCEPT ![e] = saved[e][1]]
  /\ seen' = [seen EXCEPT ![e] = saved[e][2]]
  /\ GoTo(e, "play")
  /\ UNCHANGED <<library, saved>>

\* nle_end: the environment's memory is gone.
End(e) ==
  /\ pc[e] \in {"play", "over"}
  /\ GoTo(e, "ended")
  /\ handle' = [handle EXCEPT ![e] = Null] /\ saved' = [saved EXCEPT ![e] = Null]
  /\ seen' = [seen EXCEPT ![e] = <<>>]
  /\ UNCHANGED library

-----------------------------------------------------------------------------
DlbInit(e) == InitOnce(e) \/ OpenLibrary(e) \/ ReadDir(e) \/ InitDone(e) \/ Wait(e)

Next ==
  \E e \in Envs :
    \/ DlbInit(e) \/ Fclose(e) \/ GameOver(e) \/ Snapshot(e) \/ Restore(e) \/ End(e)
    \/ \E f \in Files : Fopen(e, f)
    \/ \E n \in 0 .. MaxRead : Fread(e, n)
    \/ \E pos \in 0 .. Total : Fseek(e, pos)

\* The kernel schedules every thread that is inside dlb_init.
Spec == Init /\ [][Next]_vars /\ \A e \in Envs : WF_vars(pc[e] # "new" /\ DlbInit(e))

-----------------------------------------------------------------------------
(***************************************************************************)
(* Properties                                                              *)
(***************************************************************************)

\* The library and the handles keep their types; a mark stays within its file.
TypeOK ==
  /\ state \in 0 .. 2 /\ initialized \in BOOLEAN /\ fdata \in BOOLEAN
  /\ dir \in Envs \cup {"libc", Null} /\ fpos \in Nat /\ opens \in Nat
  /\ pc \in [Envs -> {"new", "open", "read_dir", "done", "wait", "play", "over", "ended"}]
  /\ \A e \in Envs :
       /\ handle[e] = Null \/ (handle[e] \in Handle /\ handle[e].mark <= handle[e].size)
       /\ seen[e] \in Seq(Nat)

\* However many environments start at once, the library is opened once.
OpenedOnce == opens <= 1

\* A game that runs finds the library either whole or absent, never half read,
\* closed by another game's end, or in the memory of an ended environment.
LibraryUsable ==
  \A e \in Envs : pc[e] = "play" /\ initialized =>
    /\ state = 2 /\ fdata /\ dir # Null
    /\ dir \in Envs => pc[dir] # "ended"

\* A handle reads the bytes of its own file, in order, whatever other
\* environments read from the shared file and however often it is rewound by a
\* snapshot.
ReadsOwnFile ==
  \A e \in Envs : handle[e] # Null =>
    LET h == handle[e] IN
      /\ seen[e] = [i \in 1 .. h.mark - h.since |-> h.start + h.since + i - 1]
      /\ h.start + h.mark <= Total

\* Every game gets past dlb_init, also when the library cannot be opened.
StartsReturn == \A e \in Envs : pc[e] \in {"open", "read_dir", "done", "wait"} ~> pc[e] = "play"
=============================================================================
