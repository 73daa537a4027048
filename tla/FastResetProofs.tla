--------------------------- MODULE FastResetProofs ---------------------------
(***************************************************************************)
(* Proofs about module FastReset, for any number of levels, handles, steps *)
(* and failing restores; and about module DiskCheckpoint: all that holds   *)
(* of one process goes on to hold when a checkpoint is saved and a process *)
(* after it resumes from it, any number of times.                          *)
(***************************************************************************)
EXTENDS DiskCheckpoint, SequenceTheorems, TLAPS

\* The files that a memory believes in are there, and hold what it wrote.
FilesFit(m, files) ==
  /\ \A l \in Levels : files[l] # Absent <=> l \in m.exists
  /\ \A l \in m.exists \ {m.cur} : files[l] = m.saved[l] /\ m.saved[l] # Empty
  /\ m.target # Stay => m.cur \in m.exists /\ m.target # m.cur

\* The first part of the invariant: the files fit the memory, and those of a
\* handle the memory of the handle, unless a call failed on the way.
FilesInv ==
  /\ ~dirty => FilesFit(mem, disk)
  /\ \A s \in Snaps : snaps[s] # NoSnap /\ ~snaps[s].dirty =>
       FilesFit(snaps[s].mem, snaps[s].files)
  /\ game = "tricked" => dirty

\* What a handle that is not cut finds of its recording in seq.
FindsPrefix(seq, h) ==
  /\ h.off <= Len(seq)
  /\ SubSeq(seq, 1, h.off) = h.mem.hist

\* The second part.
TapeInv ==
  /\ ~torn => tape = mem.hist
  /\ \A s \in Snaps : snaps[s] # NoSnap /\ ~snaps[s].cut => FindsPrefix(tape, snaps[s])

-----------------------------------------------------------------------------
(* Types.                                                                  *)

\* A record of type Memory, field by field.
LEMMA MemoryFields ==
  ASSUME NEW m \in Memory
  PROVE  /\ m.cur \in Levels /\ m.exists \in SUBSET Levels /\ m.saved \in [Levels -> Nat]
         /\ m.hist \in Seq(Nat) /\ m.target \in Levels \cup {Stay}
         /\ m.fd \in Fds \cup {NoFd}
  BY DEF Memory

\* A recording that is set to a length is a recording of that length.
LEMMA SetLengthType ==
  ASSUME NEW seq \in Seq(Nat), NEW off \in Nat
  PROVE  SetLength(seq, off) \in Seq(Nat) /\ Len(SetLength(seq, off)) = off
<1>1. \A i \in 1 .. off : (IF i <= Len(seq) THEN seq[i] ELSE Hole) \in Nat
  BY DEF Hole
<1>2. SetLength(seq, off) \in [1 .. off -> Nat]
  BY <1>1 DEF SetLength
<1>3. SetLength(seq, off) \in Seq(Nat)
  BY <1>2
<1>4. Len(SetLength(seq, off)) = off
  BY <1>2
<1>5. QED BY <1>3, <1>4

\* A prefix shorter than both lengths is not touched.
LEMMA SetLengthKeepsPrefix ==
  ASSUME NEW seq \in Seq(Nat), NEW off \in Nat, NEW n \in Nat, n <= off, n <= Len(seq)
  PROVE  SubSeq(SetLength(seq, off), 1, n) = SubSeq(seq, 1, n)
<1> DEFINE t == SetLength(seq, off)
<1>1. t \in Seq(Nat) /\ Len(t) = off
  BY SetLengthType
<1>2. \A i \in 1 .. n : t[i] = seq[i]
  BY DEF SetLength
<1> HIDE DEF t
<1>3. SubSeq(t, 1, n) = [i \in 1 .. n |-> t[i]]
  BY <1>1
<1>4. SubSeq(seq, 1, n) = [i \in 1 .. n |-> seq[i]]
  OBVIOUS
<1>5. QED BY <1>2, <1>3, <1>4 DEF t

\* A recording that is long enough is cut to its prefix.
LEMMA SetLengthCuts ==
  ASSUME NEW seq \in Seq(Nat), NEW off \in Nat, off <= Len(seq)
  PROVE  SetLength(seq, off) = SubSeq(seq, 1, off)
<1>1. SubSeq(seq, 1, off) = [i \in 1 .. off |-> seq[i]]
  OBVIOUS
<1>2. \A i \in 1 .. off : i <= Len(seq)
  OBVIOUS
<1>3. QED BY <1>1, <1>2 DEF SetLength

\* The initial state has the right types.
LEMMA InitType == Init => TypeOK
<1> SUFFICES ASSUME Init PROVE TypeOK
  OBVIOUS
<1>1. mem \in Memory
  <2>1. PICK l \in Levels : mem = [cur |-> l, exists |-> {}, saved |-> [k \in Levels |-> 0],
                                   hist |-> <<>>, target |-> Stay, fd |-> NoFd]
    BY DEF Init
  <2>2. [k \in Levels |-> 0] \in [Levels -> Nat] /\ <<>> \in Seq(Nat)
    OBVIOUS
  <2>3. QED BY <2>1, <2>2 DEF Memory, NoFd
<1>2. disk \in [Levels -> Int] /\ snaps \in [Snaps -> Snapshot \cup {NoSnap}]
  BY DEF Init, Absent
<1>3. clock \in 1 .. MaxClock /\ faults \in 0 .. MaxFaults /\ rc \in {0, -1}
  BY BoundsAssumption DEF Init
<1>4. tape \in Seq(Nat)
  BY DEF Init
<1>5. recording \in BOOLEAN /\ dirty \in BOOLEAN /\ torn \in BOOLEAN
      /\ game \in {"run", "over", "tricked", "panic", "abort"}
  BY DEF Init
<1>6. fds \in [Fds -> Levels \cup {Shut, Orphan}]
  BY DEF Init
<1>7. QED BY <1>1, <1>2, <1>3, <1>4, <1>5, <1>6 DEF TypeOK

\* Time and the recording go on by one in a step.
LEMMA FrameType ==
  ASSUME TypeOK, Frame
  PROVE  /\ clock' \in 1 .. MaxClock /\ clock' \in Nat /\ clock' # 0
         /\ tape' \in Seq(Nat) /\ Append(mem.hist, clock') \in Seq(Nat)
<1>1. clock' \in 1 .. MaxClock /\ clock' \in Nat /\ clock' # 0
  BY BoundsAssumption DEF TypeOK, Frame, CanStep
<1>2. tape \in Seq(Nat) /\ mem.hist \in Seq(Nat)
  BY MemoryFields DEF TypeOK
<1>3. QED BY <1>1, <1>2 DEF Frame

\* The steps of the game.
GameStep ==
  \/ PlayStep \/ FinishGoto \/ FailGoto \/ EnterEndgame \/ Die
  \/ \E l \in Levels, f \in Fds : BeginGoto(l, f)

\* Each of them writes its frame.
LEMMA GameStepFrame ==
  ASSUME TypeOK, GameStep
  PROVE  Frame /\ mem'.hist = Append(mem.hist, clock')
<1>1. Frame
  BY DEF GameStep, PlayStep, FinishGoto, FailGoto, EnterEndgame, Die, BeginGoto
<1>2. mem \in Memory
  BY DEF TypeOK
<1> DEFINE t == Append(mem.hist, clock')
<1>3. ASSUME NEW files, NEW open, NEW how, GameOver(files, open, how) PROVE mem'.hist = t
  BY <1>2, <1>3 DEF GameOver, Memory
<1>4. CASE FailGoto
  BY <1>3, <1>4 DEF FailGoto
<1>5. CASE Die
  BY <1>3, <1>5 DEF Die
<1>6. CASE EnterEndgame
  BY <1>2, <1>6 DEF EnterEndgame, Memory
<1>7. CASE PlayStep
  BY <1>2, <1>7 DEF PlayStep, Memory
<1>8. CASE FinishGoto
  BY <1>2, <1>8 DEF FinishGoto, Memory
<1>9. CASE \E l \in Levels, f \in Fds : BeginGoto(l, f)
  BY <1>2, <1>9 DEF BeginGoto, Memory
<1>10. mem'.hist = t
  BY <1>4, <1>5, <1>6, <1>7, <1>8, <1>9 DEF GameStep
<1>11. QED BY <1>1, <1>10

\* Files that are written or deleted are files, and descriptors stay descriptors.
LEMMA FilesType ==
  ASSUME TypeOK, clock' \in Int
  PROVE  /\ Written \in [Levels -> Int] /\ Closed \in [Fds -> Levels \cup {Shut, Orphan}]
         /\ \A files \in [Levels -> Int] : \A levels : Deleted(files, levels) \in [Levels -> Int]
         /\ \A open \in [Fds -> Levels \cup {Shut, Orphan}] : \A levels :
              Unlinked(open, levels) \in [Fds -> Levels \cup {Shut, Orphan}]
<1>1. disk \in [Levels -> Int] /\ fds \in [Fds -> Levels \cup {Shut, Orphan}]
  BY DEF TypeOK
<1>2. Written \in [Levels -> Int]
  BY <1>1 DEF Written, Foreign
<1>3. Closed \in [Fds -> Levels \cup {Shut, Orphan}]
  BY <1>1 DEF Closed
<1>4. ASSUME NEW files \in [Levels -> Int], NEW levels
      PROVE  Deleted(files, levels) \in [Levels -> Int]
  BY DEF Deleted, Absent
<1>5. ASSUME NEW open \in [Fds -> Levels \cup {Shut, Orphan}], NEW levels
      PROVE  Unlinked(open, levels) \in [Fds -> Levels \cup {Shut, Orphan}]
  BY DEF Unlinked
<1>6. QED BY <1>2, <1>3, <1>4, <1>5

\* What the end of a game leaves.
LEMMA GameOverType ==
  ASSUME TypeOK, clock' \in Nat, NEW files \in [Levels -> Int],
         NEW open \in [Fds -> Levels \cup {Shut, Orphan}],
         NEW how \in {"over", "tricked", "panic"}, GameOver(files, open, how)
  PROVE  /\ mem' \in Memory /\ disk' \in [Levels -> Int] /\ game' = how
         /\ fds' \in [Fds -> Levels \cup {Shut, Orphan}]
<1> DEFINE t == Append(mem.hist, clock')
<1>1. t \in Seq(Nat) /\ mem \in Memory
  BY MemoryFields DEF TypeOK
<1> HIDE DEF t
<1>2. mem' = [mem EXCEPT !.exists = {}, !.target = Stay, !.hist = t]
  BY DEF GameOver, t
<1>3. {} \in SUBSET Levels
  OBVIOUS
<1>4. mem' \in Memory
  BY <1>1, <1>2, <1>3 DEF Memory
<1>5. disk' = Deleted(files, mem.exists) /\ fds' = Unlinked(open, mem.exists) /\ game' = how
  BY DEF GameOver
<1>6. QED BY <1>4, <1>5, FilesType

\* Steps of the game keep the types.
LEMMA StepType == ASSUME TypeOK, GameStep PROVE TypeOK'
<1>1. Frame
  BY GameStepFrame
<1>2. clock' \in 1 .. MaxClock /\ tape' \in Seq(Nat) /\ clock' \in Nat
  BY <1>1, FrameType
<1>3. recording' \in BOOLEAN /\ torn' \in BOOLEAN
  BY <1>1 DEF Frame, TypeOK
<1>4. snaps' \in [Snaps -> Snapshot \cup {NoSnap}] /\ rc' \in {0, -1} /\ faults' \in 0 .. MaxFaults
  BY <1>1 DEF Frame, TypeOK
<1> DEFINE t == Append(mem.hist, clock')
<1>5. t \in Seq(Nat) /\ mem \in Memory /\ disk \in [Levels -> Int]
      /\ fds \in [Fds -> Levels \cup {Shut, Orphan}]
  BY <1>1, FrameType DEF TypeOK
<1> HIDE DEF t
<1>6. mem.cur \in Levels /\ mem.exists \in SUBSET Levels /\ mem.saved \in [Levels -> Nat]
      /\ mem.target \in Levels \cup {Stay} /\ mem.fd \in Fds \cup {NoFd}
  BY <1>5, MemoryFields
<1>7a. clock' \in Int
  BY <1>2
<1>7. /\ Written \in [Levels -> Int] /\ Closed \in [Fds -> Levels \cup {Shut, Orphan}]
      /\ \A files \in [Levels -> Int] : \A levels : Deleted(files, levels) \in [Levels -> Int]
      /\ \A open \in [Fds -> Levels \cup {Shut, Orphan}] : \A levels :
           Unlinked(open, levels) \in [Fds -> Levels \cup {Shut, Orphan}]
  BY <1>7a, FilesType, Zenon
<1>8. CASE PlayStep
  <2>1. mem' = [mem EXCEPT !.hist = t]
    BY <1>8 DEF PlayStep, t
  <2>2. mem' \in Memory
    BY <1>5, <2>1 DEF Memory
  <2>3. UNCHANGED <<disk, fds, game, dirty>>
    BY <1>8 DEF PlayStep, diskVars
  <2>4. QED BY <1>2, <1>3, <1>4, <2>2, <2>3 DEF TypeOK
<1>9. ASSUME NEW l \in Levels, NEW f \in Fds, BeginGoto(l, f) PROVE TypeOK'
  <2>1. mem' = [mem EXCEPT !.exists = mem.exists \cup {mem.cur}, !.target = l,
                           !.fd = f, !.hist = t]
    BY <1>9 DEF BeginGoto, t
  <2>2. mem.exists \cup {mem.cur} \in SUBSET Levels
    BY <1>6
  <2>3. mem' \in Memory
    BY <1>2, <1>5, <2>1, <2>2 DEF Memory
  <2>4. disk' = [disk EXCEPT ![mem.cur] = 0]
    BY <1>9 DEF BeginGoto, Empty
  <2>5. disk' \in [Levels -> Int]
    BY <1>5, <1>6, <2>4
  <2>6. fds' = [fds EXCEPT ![f] = mem.cur] /\ UNCHANGED <<game, dirty>>
    BY <1>9 DEF BeginGoto
  <2>7. fds' \in [Fds -> Levels \cup {Shut, Orphan}]
    BY <1>5, <1>6, <2>6
  <2>8. QED BY <1>2, <1>3, <1>4, <2>3, <2>5, <2>6, <2>7 DEF TypeOK
<1>10. CASE FinishGoto
  <2>1. mem' = [mem EXCEPT !.cur = mem.target, !.saved = [mem.saved EXCEPT ![mem.cur] = clock'],
                           !.target = Stay, !.fd = NoFd, !.hist = t]
    BY <1>10 DEF FinishGoto, t
  <2>2. [mem.saved EXCEPT ![mem.cur] = clock'] \in [Levels -> Nat] /\ mem.target \in Levels
    BY <1>2, <1>6, <1>10 DEF FinishGoto
  <2>3. mem' \in Memory
    BY <1>5, <2>1, <2>2 DEF Memory, NoFd
  <2>4. disk' = Written /\ fds' = Closed /\ UNCHANGED game
    BY <1>10 DEF FinishGoto
  <2>5. dirty' \in BOOLEAN
    BY <1>10 DEF FinishGoto
  <2>6. QED BY <1>2, <1>3, <1>4, <1>7, <2>3, <2>4, <2>5 DEF TypeOK
<1>11. CASE FailGoto
  <2>1. /\ mem' \in Memory /\ disk' \in [Levels -> Int] /\ game' \in {"panic", "tricked"}
        /\ fds' \in [Fds -> Levels \cup {Shut, Orphan}]
    BY <1>2, <1>5, <1>7, <1>11, GameOverType DEF FailGoto
  <2>2. dirty' \in BOOLEAN
    BY <1>11 DEF FailGoto
  <2>3. QED BY <1>2, <1>3, <1>4, <2>1, <2>2 DEF TypeOK
<1>12. CASE Die
  <2>1. /\ mem' \in Memory /\ disk' \in [Levels -> Int] /\ game' = "over"
        /\ fds' \in [Fds -> Levels \cup {Shut, Orphan}]
    BY <1>2, <1>5, <1>12, GameOverType DEF Die
  <2>2. UNCHANGED dirty
    BY <1>12 DEF Die
  <2>3. QED BY <1>2, <1>3, <1>4, <2>1, <2>2 DEF TypeOK
<1>13. CASE EnterEndgame
  <2>1. mem' = [mem EXCEPT !.cur = mem.target, !.exists = {}, !.target = Stay, !.fd = NoFd,
                           !.hist = t]
    BY <1>13 DEF EnterEndgame, t
  <2>2. {} \in SUBSET Levels /\ mem.target \in Levels
    BY <1>6, <1>13 DEF EnterEndgame
  <2>3. mem' \in Memory
    BY <1>5, <2>1, <2>2 DEF Memory, NoFd
  <2>4. disk' = Deleted(disk, mem.exists) /\ fds' = Unlinked(Closed, mem.exists)
        /\ UNCHANGED <<game, dirty>>
    BY <1>13 DEF EnterEndgame
  <2>5. QED BY <1>2, <1>3, <1>4, <1>5, <1>7, <2>3, <2>4 DEF TypeOK
<1>14. QED BY <1>8, <1>9, <1>10, <1>11, <1>12, <1>13 DEF GameStep

\* So do snapshots that are taken and dropped.
LEMMA HandleType ==
  ASSUME TypeOK, NEW s \in Snaps, Take(s) \/ Drop(s)
  PROVE  TypeOK'
<1>1. snaps' \in [Snaps -> Snapshot \cup {NoSnap}]
  <2>1. CASE Take(s)
    <3> DEFINE h == [mem |-> mem, files |-> disk, off |-> Len(tape), dirty |-> dirty, cut |-> torn]
    <3>1. h \in Snapshot
      BY DEF TypeOK, Snapshot
    <3>2. snaps' = [snaps EXCEPT ![s] = h]
      BY <2>1 DEF Take
    <3> HIDE DEF h
    <3>3. QED BY <3>1, <3>2 DEF TypeOK
  <2>2. CASE Drop(s)
    BY <2>2 DEF Drop, TypeOK
  <2>3. QED BY <2>1, <2>2
<1>2. CASE Take(s)
  <2>1. UNCHANGED <<clock, mem, disk, fds, tape, rc, game, dirty, torn, faults>>
        /\ recording' = TRUE
    BY <1>2 DEF Take, diskVars
  <2>2. QED BY <1>1, <2>1 DEF TypeOK
<1>3. CASE Drop(s)
  <2>1. UNCHANGED <<clock, mem, disk, fds, tape, recording, rc, game, dirty, torn, faults>>
    BY <1>3 DEF Drop, diskVars
  <2>2. QED BY <1>1, <2>1 DEF TypeOK
<1>4. QED BY <1>2, <1>3

\* A handle that is cut is a handle.
LEMMA CutType ==
  ASSUME NEW h \in Snapshot
  PROVE  [h EXCEPT !.cut = TRUE] \in Snapshot
  BY DEF Snapshot

\* What a restore makes of the files, of its result and of the recording.
LEMMA RestoreParts ==
  ASSUME TypeOK, NEW s \in Snaps, NEW bad \in SUBSET Levels, Restore(s, bad)
  PROVE  /\ disk' \in [Levels -> Int] /\ rc' \in {0, -1}
         /\ fds' \in [Fds -> Levels \cup {Shut, Orphan}]
         /\ tape' \in Seq(Nat) /\ recording' \in BOOLEAN
         /\ rc' = 0 => disk' = snaps[s].files
         /\ recording' => tape' = SetLength(tape, snaps[s].off)
         /\ ~recording' => tape' = tape
         /\ snaps[s] \in Snapshot
<1>1. snaps[s] \in Snapshot
  BY DEF TypeOK, Restore
<1>2. snaps[s].files \in [Levels -> Int] /\ snaps[s].off \in Nat
  BY <1>1 DEF Snapshot
<1>3. disk \in [Levels -> Int] /\ tape \in Seq(Nat)
  BY DEF TypeOK
<1> DEFINE files == snaps[s].files
<1>4. PICK short \in SUBSET { l \in bad : files[l] # Absent } :
        disk' = [l \in Levels |-> IF l \in short THEN Empty
                                  ELSE IF l \in bad THEN disk[l] ELSE files[l]]
  BY DEF Restore, RestoreFiles
<1>5. rc' = IF bad = {} THEN 0 ELSE -1
  BY DEF Restore, RestoreFiles
<1> HIDE DEF files
<1>6. disk' \in [Levels -> Int]
  BY <1>2, <1>3, <1>4 DEF Empty, files
<1>7. rc' \in {0, -1}
  BY <1>5
<1>8. rc' = 0 => disk' = files
  <2> SUFFICES ASSUME rc' = 0 PROVE disk' = files
    OBVIOUS
  <2>1. bad = {} /\ short = {}
    BY <1>5
  <2>2. disk' = [l \in Levels |-> files[l]]
    BY <1>4, <2>1
  <2>3. QED BY <1>2, <2>2 DEF files
<1>9. \/ tape' = SetLength(tape, snaps[s].off) /\ recording' = TRUE
      \/ tape' = tape /\ recording' = FALSE
  BY DEF Restore, Rewind
<1>10. tape' \in Seq(Nat)
  BY <1>2, <1>3, <1>9, SetLengthType
<1>11. fds' \in [Fds -> Levels \cup {Shut, Orphan}]
  BY DEF TypeOK, Restore, RestoreFiles, Unlinked
<1>12. QED BY <1>1, <1>6, <1>7, <1>8, <1>9, <1>10, <1>11 DEF files

\* A restore keeps the types.
LEMMA RestoreType ==
  ASSUME TypeOK, NEW s \in Snaps, NEW bad \in SUBSET Levels, Restore(s, bad)
  PROVE  TypeOK'
<1>1. snaps[s] \in Snapshot
  BY RestoreParts
<1>2. mem' \in Memory
  BY <1>1 DEF Restore, Snapshot
<1>3. snaps' \in [Snaps -> Snapshot \cup {NoSnap}]
  <2>1. \A r \in Snaps : snaps[r] \in Snapshot \cup {NoSnap}
    BY DEF TypeOK
  <2>2. \A r \in Snaps : snaps[r] # NoSnap => [snaps[r] EXCEPT !.cut = TRUE] \in Snapshot
    BY <2>1, CutType
  <2>3. snaps' = [r \in Snaps |->
          IF snaps[r] # NoSnap /\ snaps[r].off > snaps[s].off
            THEN [snaps[r] EXCEPT !.cut = TRUE] ELSE snaps[r]]
    BY DEF Restore
  <2>4. QED BY <2>1, <2>2, <2>3
<1>4. faults' \in 0 .. MaxFaults
  <2>1. faults \in Nat /\ MaxFaults \in Nat
    BY BoundsAssumption DEF TypeOK
  <2>2. faults' \in {faults, faults + 1} /\ faults' <= MaxFaults
    BY DEF Restore
  <2>3. QED BY <2>1, <2>2
<1>5. torn' \in BOOLEAN
  <2>1. snaps[s].cut \in BOOLEAN /\ recording' \in BOOLEAN
    BY <1>1, RestoreParts DEF Snapshot
  <2>2. torn' = (snaps[s].cut \/ ~recording')
    BY DEF Restore
  <2>3. QED BY <2>1, <2>2
<1>6. dirty' \in BOOLEAN
  <2>1. snaps[s].dirty \in BOOLEAN
    BY <1>1 DEF Snapshot
  <2>2. dirty' = (snaps[s].dirty \/ rc' # 0)
    BY DEF Restore
  <2>3. QED BY <2>1, <2>2
<1>7. game' = "run" /\ clock' \in 1 .. MaxClock
  BY DEF Restore, TypeOK
<1>8. QED BY <1>2, <1>3, <1>4, <1>5, <1>6, <1>7, RestoreParts DEF TypeOK

-----------------------------------------------------------------------------
(* The files.                                                              *)

\* A step that does not change levels leaves the files alone.
LEMMA PlayStepFiles == ASSUME TypeOK, FilesInv, PlayStep PROVE FilesInv'
<1>1. UNCHANGED <<disk, dirty, game, snaps>>
  BY DEF PlayStep, Frame, diskVars
<1>2. mem' = [mem EXCEPT !.hist = Append(mem.hist, clock')]
  BY DEF PlayStep
<1>3. mem'.cur = mem.cur /\ mem'.exists = mem.exists /\ mem'.saved = mem.saved
      /\ mem'.target = mem.target
  BY <1>2 DEF TypeOK, Memory
<1>4. ~dirty' => FilesFit(mem', disk')
  BY <1>1, <1>3 DEF FilesInv, FilesFit
<1>5. QED BY <1>1, <1>4 DEF FilesInv

\* The level that is being left has a file, which is not written yet.
LEMMA BeginGotoFiles ==
  ASSUME TypeOK, FilesInv, NEW l \in Levels, NEW f \in Fds, BeginGoto(l, f)
  PROVE  FilesInv'
<1>1. UNCHANGED <<dirty, game, snaps>>
  BY DEF BeginGoto, Frame
<1>2. disk' = [disk EXCEPT ![mem.cur] = Empty] /\ mem.cur \in Levels
  BY MemoryFields DEF BeginGoto, TypeOK
<1>3. mem'.cur = mem.cur /\ mem'.exists = mem.exists \cup {mem.cur} /\ mem'.saved = mem.saved
      /\ mem'.target # mem.cur
  BY DEF BeginGoto, TypeOK, Memory
<1>4. ASSUME ~dirty PROVE FilesFit(mem', disk')
  <2>1. FilesFit(mem, disk) /\ disk \in [Levels -> Int]
    BY <1>4 DEF FilesInv, TypeOK
  <2>2. QED BY <1>2, <1>3, <2>1 DEF FilesFit, Empty, Absent
<1>5. QED BY <1>1, <1>4 DEF FilesInv

\* It is written when the hero has left it, unless the descriptor is not its own
\* any more.
LEMMA FinishGotoFiles == ASSUME TypeOK, FilesInv, FinishGoto PROVE FilesInv'
<1>1. UNCHANGED <<snaps, game>> /\ Frame
  BY DEF FinishGoto, Frame
<1>2. clock' \in Nat /\ clock' # 0
  BY <1>1, FrameType
<1>3. mem'.cur = mem.target /\ mem'.exists = mem.exists /\ mem'.target = Stay
      /\ mem'.saved = [mem.saved EXCEPT ![mem.cur] = clock']
  BY DEF FinishGoto, TypeOK, Memory
<1>4. ASSUME ~dirty'
      PROVE  ~dirty /\ disk' = [l \in Levels |-> IF l = mem.cur THEN clock' ELSE disk[l]]
  <2>1. ~dirty /\ Behind = mem.cur /\ disk' = Written
    BY <1>4 DEF FinishGoto
  <2>2. QED BY <2>1 DEF Written
<1>5. ASSUME ~dirty' PROVE FilesFit(mem', disk')
  <2>1. FilesFit(mem, disk) /\ disk \in [Levels -> Int]
    BY <1>4, <1>5 DEF FilesInv, TypeOK
  <2>2. mem.cur \in mem.exists /\ mem.cur \in Levels /\ mem.saved \in [Levels -> Nat]
    BY <2>1, MemoryFields DEF FilesFit, FinishGoto, TypeOK
  <2>3. \A l \in Levels : disk'[l] = IF l = mem.cur THEN clock' ELSE disk[l]
    BY <1>4, <1>5, <2>1
  <2>4. \A l \in Levels : mem'.saved[l] = IF l = mem.cur THEN clock' ELSE mem.saved[l]
    BY <1>3, <2>2
  <2>5. \A l \in Levels : disk'[l] # Absent <=> l \in mem'.exists
    BY <1>2, <1>3, <2>1, <2>2, <2>3 DEF FilesFit, Absent
  <2>6. mem.exists \subseteq Levels
    BY MemoryFields DEF TypeOK
  <2>7. \A l \in mem'.exists \ {mem'.cur} : disk'[l] = mem'.saved[l] /\ mem'.saved[l] # Empty
    BY <1>2, <1>3, <2>1, <2>3, <2>4, <2>6 DEF FilesFit, Empty
  <2>8. QED BY <1>3, <2>5, <2>7 DEF FilesFit
<1>6. game' = "tricked" => dirty'
  BY <1>1 DEF FinishGoto, Frame, CanStep
<1>7. QED BY <1>1, <1>5, <1>6 DEF FilesInv

\* Nothing is left of the files of a game that is over.
LEMMA GameOverFiles ==
  ASSUME TypeOK, FilesFit(mem, disk), NEW files, NEW open, NEW how,
         GameOver(files, open, how),
         \A l \in Levels \ mem.exists : files[l] = disk[l]
  PROVE  FilesFit(mem', disk')
<1>1. mem'.exists = {} /\ mem'.target = Stay
  BY DEF GameOver, TypeOK, Memory
<1>2. disk' = [l \in Levels |-> IF l \in mem.exists THEN Absent ELSE files[l]]
  BY DEF GameOver, Deleted
<1>3. \A l \in Levels : disk'[l] = Absent
  BY <1>2 DEF FilesFit
<1>4. QED BY <1>1, <1>3 DEF FilesFit

\* A level is missing, or another game's, only when files were lost before.
LEMMA FailGotoFiles == ASSUME TypeOK, FilesInv, FailGoto PROVE FilesInv'
<1>1. UNCHANGED snaps
  BY DEF FailGoto, Frame
<1>2. ~dirty' => ~dirty /\ Behind = mem.cur
  BY DEF FailGoto
<1>3. ASSUME ~dirty' PROVE FilesFit(mem', disk')
  <2>1. FilesFit(mem, disk) /\ disk \in [Levels -> Int]
    BY <1>2, <1>3 DEF FilesInv, TypeOK
  <2>2. mem.cur \in mem.exists
    BY <2>1 DEF FilesFit, FailGoto
  <2>3. \A l \in Levels \ mem.exists : Written[l] = disk[l]
    BY <1>2, <1>3, <2>1, <2>2 DEF Written
  <2>4. PICK files \in {disk, Written} : \E open, how : GameOver(files, open, how)
    BY DEF FailGoto
  <2>5. PICK open, how : GameOver(files, open, how)
    BY <2>4
  <2>6. \A l \in Levels \ mem.exists : files[l] = disk[l]
    BY <2>3, <2>4
  <2>7. QED BY <2>1, <2>5, <2>6, GameOverFiles
<1>4. ASSUME game' = "tricked", ~dirty' PROVE FALSE
  <2>1. Tricked
    BY <1>4 DEF FailGoto, GameOver
  <2>2. FilesFit(mem, disk) /\ mem.target # mem.cur /\ mem.target \in mem.exists
    BY <1>2, <1>4, <2>1 DEF FilesInv, FilesFit, FailGoto, Tricked, Returns
  <2>3. mem.exists \subseteq Levels /\ mem.saved \in [Levels -> Nat]
    BY MemoryFields DEF TypeOK
  <2>4. disk[mem.target] \in Nat
    BY <2>2, <2>3 DEF FilesFit
  <2>5. Written[mem.target] = disk[mem.target]
    BY <1>2, <1>4, <2>2, <2>3 DEF Written
  <2>6. disk[mem.target] \in {-1, -2}
    BY <2>1, <2>5 DEF Tricked, Absent, Foreign
  <2>7. QED BY <2>4, <2>6
<1>5. game' = "tricked" => dirty'
  BY <1>4
<1>6. QED BY <1>1, <1>3, <1>5 DEF FilesInv

\* The hero dies.
LEMMA DieFiles == ASSUME TypeOK, FilesInv, Die PROVE FilesInv'
<1>1. UNCHANGED <<snaps, dirty>> /\ GameOver(disk, fds, "over")
  BY DEF Die, Frame
<1>2. ~dirty' => FilesFit(mem', disk')
  BY <1>1, GameOverFiles DEF FilesInv
<1>3. game' # "tricked"
  BY <1>1 DEF GameOver
<1>4. QED BY <1>1, <1>2, <1>3 DEF FilesInv

\* Nothing is left either of the levels before the endgame.
LEMMA EnterEndgameFiles == ASSUME TypeOK, FilesInv, EnterEndgame PROVE FilesInv'
<1>1. UNCHANGED <<snaps, dirty, game>>
  BY DEF EnterEndgame, Frame
<1>2. ASSUME ~dirty PROVE FilesFit(mem', disk')
  <2>1. FilesFit(mem, disk)
    BY <1>2 DEF FilesInv
  <2>2. mem'.exists = {} /\ mem'.target = Stay
    BY DEF EnterEndgame, TypeOK, Memory
  <2>3. \A l \in Levels : disk'[l] = Absent
    BY <2>1 DEF EnterEndgame, Deleted, FilesFit
  <2>4. QED BY <2>2, <2>3 DEF FilesFit
<1>3. QED BY <1>1, <1>2 DEF FilesInv

\* A restore that reports no error brings the files of the handle back.
LEMMA RestoreFilesFit ==
  ASSUME TypeOK, FilesInv, NEW s \in Snaps, NEW bad \in SUBSET Levels, Restore(s, bad)
  PROVE  FilesInv'
<1>1. ~dirty' => ~snaps[s].dirty /\ rc' = 0
  BY DEF Restore
<1>2. ~dirty' => FilesFit(mem', disk')
  <2>1. mem' = snaps[s].mem /\ snaps[s] # NoSnap
    BY DEF Restore
  <2>2. rc' = 0 => disk' = snaps[s].files
    BY RestoreParts
  <2>3. QED BY <1>1, <2>1, <2>2 DEF FilesInv
<1>3. ASSUME NEW r \in Snaps, snaps'[r] # NoSnap, ~snaps'[r].dirty
      PROVE  FilesFit(snaps'[r].mem, snaps'[r].files)
  <2>1. snaps'[r] = IF snaps[r] # NoSnap /\ snaps[r].off > snaps[s].off
                      THEN [snaps[r] EXCEPT !.cut = TRUE] ELSE snaps[r]
    BY DEF Restore
  <2>2. snaps[r] # NoSnap /\ snaps[r] \in Snapshot
    BY <1>3, <2>1 DEF TypeOK
  <2>3. snaps'[r].mem = snaps[r].mem /\ snaps'[r].files = snaps[r].files
        /\ snaps'[r].dirty = snaps[r].dirty
    BY <2>1, <2>2 DEF Snapshot
  <2>4. QED BY <1>3, <2>2, <2>3 DEF FilesInv
<1>4. game' # "tricked"
  BY DEF Restore
<1>5. QED BY <1>2, <1>3, <1>4 DEF FilesInv

\* A handle is taken of files that fit the memory, and dropped.
LEMMA HandleFiles ==
  ASSUME TypeOK, FilesInv, NEW s \in Snaps, Take(s) \/ Drop(s)
  PROVE  FilesInv'
<1>1. UNCHANGED <<mem, disk, dirty, game>>
  BY DEF Take, Drop, diskVars
<1>2. ASSUME NEW r \in Snaps, snaps'[r] # NoSnap, ~snaps'[r].dirty
      PROVE  FilesFit(snaps'[r].mem, snaps'[r].files)
  <2>1. CASE snaps'[r] = snaps[r]
    BY <1>2, <2>1 DEF FilesInv
  <2>2. CASE r = s /\ Take(s)
    <3>1. snaps'[r].mem = mem /\ snaps'[r].files = disk /\ snaps'[r].dirty = dirty
      BY <2>2 DEF Take, TypeOK
    <3>2. QED BY <1>2, <3>1 DEF FilesInv
  <2>3. CASE r = s /\ Drop(s)
    BY <1>2, <2>3 DEF Drop, TypeOK
  <2>4. QED BY <2>1, <2>2, <2>3 DEF Take, Drop, TypeOK
<1>3. QED BY <1>1, <1>2 DEF FilesInv

-----------------------------------------------------------------------------
(* The recording.                                                          *)

\* A longer recording still has its prefixes.
LEMMA AppendKeepsPrefix ==
  ASSUME NEW seq \in Seq(Nat), NEW x \in Nat, NEW h, h.off \in Nat, FindsPrefix(seq, h)
  PROVE  FindsPrefix(Append(seq, x), h)
<1> DEFINE t == Append(seq, x)
<1>1. t \in Seq(Nat) /\ Len(t) = Len(seq) + 1 /\ \A i \in 1 .. Len(seq) : t[i] = seq[i]
  OBVIOUS
<1> HIDE DEF t
<1>2. h.off <= Len(t) /\ h.off <= Len(seq)
  BY <1>1 DEF FindsPrefix
<1>3. SubSeq(t, 1, h.off) = SubSeq(seq, 1, h.off)
  <2>1. SubSeq(t, 1, h.off) = [i \in 1 .. h.off |-> t[i]]
    BY <1>1
  <2>2. SubSeq(seq, 1, h.off) = [i \in 1 .. h.off |-> seq[i]]
    OBVIOUS
  <2>3. \A i \in 1 .. h.off : t[i] = seq[i]
    BY <1>1, <1>2
  <2>4. QED BY <2>1, <2>2, <2>3
<1>4. QED BY <1>2, <1>3 DEF FindsPrefix, t

\* Every step adds its frame to the recording and to the game.
LEMMA FrameTape ==
  ASSUME TypeOK, TapeInv, Frame, mem'.hist = Append(mem.hist, clock')
  PROVE  TapeInv'
<1>1. UNCHANGED <<snaps, torn>> /\ tape' = Append(tape, clock') /\ tape \in Seq(Nat) /\ clock' \in Nat
  BY FrameType DEF Frame, TypeOK
<1>2. ~torn' => tape' = mem'.hist
  BY <1>1 DEF TapeInv
<1>3. ASSUME NEW s \in Snaps, snaps[s] # NoSnap, ~snaps[s].cut
      PROVE  FindsPrefix(tape', snaps[s])
  <2>1. snaps[s].off \in Nat /\ FindsPrefix(tape, snaps[s])
    BY <1>3 DEF TypeOK, TapeInv, Snapshot
  <2>2. QED BY <1>1, <2>1, AppendKeepsPrefix
<1>4. QED BY <1>1, <1>2, <1>3 DEF TapeInv

\* A handle that is taken finds all of the recording.
LEMMA HandleTape ==
  ASSUME TypeOK, TapeInv, NEW s \in Snaps, Take(s) \/ Drop(s)
  PROVE  TapeInv'
<1>1. UNCHANGED <<mem, tape, torn>>
  BY DEF Take, Drop
<1>2. ASSUME NEW r \in Snaps, snaps'[r] # NoSnap, ~snaps'[r].cut
      PROVE  FindsPrefix(tape, snaps'[r])
  <2>1. CASE snaps'[r] = snaps[r]
    BY <1>2, <2>1 DEF TapeInv
  <2>2. CASE r = s /\ Take(s)
    <3>1. snaps'[r].mem = mem /\ snaps'[r].off = Len(tape) /\ snaps'[r].cut = torn
      BY <2>2 DEF Take, TypeOK
    <3>2. tape = mem.hist /\ tape \in Seq(Nat)
      BY <1>2, <3>1 DEF TapeInv, TypeOK
    <3>3. SubSeq(tape, 1, Len(tape)) = tape /\ Len(tape) <= Len(tape)
      BY <3>2
    <3>4. QED BY <3>1, <3>2, <3>3 DEF FindsPrefix
  <2>3. CASE r = s /\ Drop(s)
    BY <1>2, <2>3 DEF Drop, TypeOK
  <2>4. QED BY <2>1, <2>2, <2>3 DEF Take, Drop, TypeOK
<1>3. QED BY <1>1, <1>2 DEF TapeInv

\* A restore cuts the recording to the handle's prefix, and with it every handle
\* that was further on.
LEMMA RestoreTape ==
  ASSUME TypeOK, TapeInv, NEW s \in Snaps, NEW bad \in SUBSET Levels, Restore(s, bad)
  PROVE  TapeInv'
<1>1. snaps[s] \in Snapshot /\ snaps[s] # NoSnap /\ mem' = snaps[s].mem
  BY RestoreParts DEF Restore
<1>2. snaps[s].off \in Nat /\ tape \in Seq(Nat)
  BY <1>1 DEF Snapshot, TypeOK
<1>3. ASSUME ~torn' PROVE tape' = mem'.hist
  <2>1. torn' = (snaps[s].cut \/ ~recording')
    BY DEF Restore
  <2>2. ~snaps[s].cut /\ recording'
    BY <1>3, <2>1, <1>1 DEF Snapshot
  <2>3. FindsPrefix(tape, snaps[s])
    BY <1>1, <2>2 DEF TapeInv
  <2>4. tape' = SetLength(tape, snaps[s].off)
    BY <2>2, RestoreParts
  <2>5. QED BY <1>1, <1>2, <2>3, <2>4, SetLengthCuts DEF FindsPrefix
<1>4. ASSUME NEW r \in Snaps, snaps'[r] # NoSnap, ~snaps'[r].cut
      PROVE  FindsPrefix(tape', snaps'[r])
  <2>1. snaps'[r] = IF snaps[r] # NoSnap /\ snaps[r].off > snaps[s].off
                      THEN [snaps[r] EXCEPT !.cut = TRUE] ELSE snaps[r]
    BY DEF Restore
  <2>2. snaps[r] # NoSnap /\ snaps[r] \in Snapshot
    BY <1>4, <2>1 DEF TypeOK
  <2>3. [snaps[r] EXCEPT !.cut = TRUE].cut = TRUE
    BY <2>2 DEF Snapshot
  <2>4. ~(snaps[r].off > snaps[s].off) /\ snaps'[r] = snaps[r]
    BY <1>4, <2>1, <2>2, <2>3
  <2>5. snaps[r].off \in Nat /\ snaps[r].off <= snaps[s].off
    BY <1>2, <2>2, <2>4 DEF Snapshot
  <2>6. FindsPrefix(tape, snaps[r])
    BY <1>4, <2>2, <2>4 DEF TapeInv
  <2>7. CASE recording'
    <3>1. tape' = SetLength(tape, snaps[s].off)
      BY <2>7, RestoreParts
    <3>2. Len(tape') = snaps[s].off
      BY <1>2, <3>1, SetLengthType
    <3>3. SubSeq(tape', 1, snaps[r].off) = SubSeq(tape, 1, snaps[r].off)
      BY <1>2, <2>5, <2>6, <3>1, SetLengthKeepsPrefix DEF FindsPrefix
    <3>4. QED BY <2>4, <2>5, <2>6, <3>2, <3>3 DEF FindsPrefix
  <2>8. CASE ~recording'
    BY <2>4, <2>6, <2>8, RestoreParts
  <2>9. QED BY <2>7, <2>8
<1>5. QED BY <1>3, <1>4 DEF TapeInv

-----------------------------------------------------------------------------
(* The theorems.                                                           *)

IInv == TypeOK /\ FilesInv /\ TapeInv

\* The initial state satisfies the invariant.
LEMMA InitIInv == Init => IInv
<1> SUFFICES ASSUME Init PROVE IInv
  OBVIOUS
<1>1. FilesFit(mem, disk)
  BY DEF Init, FilesFit
<1>2. game # "tricked" /\ \A s \in Snaps : snaps[s] = NoSnap
  BY DEF Init
<1>3. tape = mem.hist
  BY DEF Init
<1>4. QED BY <1>1, <1>2, <1>3, InitType DEF IInv, FilesInv, TapeInv

\* Every step keeps it.
LEMMA NextKeepsIInv == IInv /\ [Next]_vars => IInv'
<1> SUFFICES ASSUME IInv, [Next]_vars PROVE IInv'
  OBVIOUS
<1>1. TypeOK /\ FilesInv /\ TapeInv
  BY DEF IInv
<1>2. CASE GameStep
  <2>1. FilesInv'
    BY <1>1, <1>2, PlayStepFiles, FinishGotoFiles, FailGotoFiles, DieFiles, EnterEndgameFiles,
       BeginGotoFiles DEF GameStep
  <2>2. TapeInv'
    BY <1>1, <1>2, GameStepFrame, FrameTape
  <2>3. QED BY <1>1, <1>2, <2>1, <2>2, StepType DEF IInv
<1>3. CASE RecordFails
  <2>1. UNCHANGED <<clock, mem, disk, fds, tape, recording, snaps, rc, dirty, torn, faults>>
        /\ game' = "abort"
    BY <1>3 DEF RecordFails, diskVars
  <2>2. TypeOK'
    BY <1>1, <2>1 DEF TypeOK
  <2>3. FilesInv' /\ TapeInv'
    BY <1>1, <2>1 DEF FilesInv, TapeInv
  <2>4. QED BY <2>2, <2>3 DEF IInv
<1>4. ASSUME NEW s \in Snaps, Take(s) \/ Drop(s) PROVE IInv'
  BY <1>1, <1>4, HandleType, HandleFiles, HandleTape DEF IInv
<1>5. ASSUME NEW s \in Snaps, NEW bad \in SUBSET Levels, Restore(s, bad) PROVE IInv'
  BY <1>1, <1>5, RestoreType, RestoreFilesFit, RestoreTape DEF IInv
<1>6. CASE UNCHANGED vars
  <2>1. TypeOK'
    BY <1>1, <1>6 DEF TypeOK, vars
  <2>2. FilesInv' /\ TapeInv'
    BY <1>1, <1>6 DEF FilesInv, TapeInv, vars
  <2>3. QED BY <2>1, <2>2 DEF IInv
<1>7. QED BY <1>2, <1>3, <1>4, <1>5, <1>6 DEF Next, GameStep

\* The invariant holds in every behaviour.
THEOREM Invariance == Spec => []IInv
<1>1. QED BY InitIInv, NextKeepsIInv, PTL DEF Spec

\* The live state, the files and the handles keep their shapes.
THEOREM TypesAreKept == Spec => []TypeOK
<1>1. IInv => TypeOK
  BY DEF IInv
<1>2. QED BY <1>1, Invariance, PTL

\* After any steps, snapshots and restores without an error the level files are
\* those that the memory believes in.
THEOREM FilesAreThoseFlagged == Spec => []FilesMatchFlags
<1>1. IInv => FilesMatchFlags
  BY DEF IInv, FilesInv, FilesFit, FilesMatchFlags
<1>2. QED BY <1>1, Invariance, PTL

\* They hold what this game wrote, and nothing of an abandoned branch.
THEOREM FilesAreOfThisGame == Spec => []FilesHoldOwnPast
<1>1. IInv => FilesHoldOwnPast
  BY DEF IInv, FilesInv, FilesFit, FilesHoldOwnPast
<1>2. QED BY <1>1, Invariance, PTL

\* A game is taken for tampered with only after a failure that was reported.
THEOREM NoDeathIsFaked == Spec => []NoFakeDeath
<1>1. IInv => NoFakeDeath
  BY DEF IInv, FilesInv, NoFakeDeath
<1>2. QED BY <1>1, Invariance, PTL

\* The recording is that of one uninterrupted game.
THEOREM TapeIsOfThisGame == Spec => []TapeFollowsGame
<1>1. IInv => TapeFollowsGame
  BY DEF IInv, TapeInv, TapeFollowsGame
<1>2. QED BY <1>1, Invariance, PTL

\* Every handle that was not cut can be returned to.
THEOREM HandlesFindTheirPrefix == Spec => []HandleFindsPrefix
<1>1. IInv => HandleFindsPrefix
  BY DEF IInv, TapeInv, FindsPrefix, HandleFindsPrefix
<1>2. QED BY <1>1, Invariance, PTL

-----------------------------------------------------------------------------
(***************************************************************************)
(* Module DiskCheckpoint.                                                  *)
(***************************************************************************)

\* The parts of the host's state.
HostTypes ==
  /\ stage \in Stages /\ process \in 1 .. MaxProcesses
  /\ blob \in Blob \cup {NoSnap}

\* The files of the checkpoint fit its memory, unless they did not when it was
\* saved; the host is in the middle of a load only with a checkpoint, in a game
\* that runs, with files that are not those of its memory, which is the memory of
\* the checkpoint before the last call.
HostInv ==
  /\ blob # NoSnap /\ ~blob.dirty => FilesFit(blob.mem, blob.files)
  /\ stage \in {"new", "level_loaded", "hero_loaded"} => blob # NoSnap
  /\ stage \in {"level_loaded", "hero_loaded"} => dirty
  /\ stage # "play" => game = "run"
  /\ stage = "hero_loaded" => mem = blob.mem

DInv == IInv /\ HostTypes /\ HostInv

-----------------------------------------------------------------------------

\* The memory of a game that has just begun.
LEMMA NewGameMemory ==
  ASSUME NEW l \in Levels
  PROVE  [cur |-> l, exists |-> {}, saved |-> [k \in Levels |-> 0],
          hist |-> <<>>, target |-> Stay, fd |-> NoFd] \in Memory
<1>1. [k \in Levels |-> 0] \in [Levels -> Nat] /\ <<>> \in Seq(Nat) /\ {} \in SUBSET Levels
  OBVIOUS
<1>2. QED BY <1>1 DEF Memory, NoFd

\* The fields of a checkpoint.
LEMMA BlobFields ==
  ASSUME NEW b \in Blob
  PROVE  b.mem \in Memory /\ b.files \in [Levels -> Int] /\ b.dirty \in BOOLEAN
  BY DEF Blob

\* A file for the current level, flagged: written completely or not at all.
LEMMA SaveLevelKeeps ==
  ASSUME DInv, NEW v \in Nat, NEW m, stage = "play", game = "run", mem.target = Stay,
         disk' = [disk EXCEPT ![mem.cur] = v],
         mem' = m, m \in Memory,
         m.cur = mem.cur, m.exists = mem.exists \cup {mem.cur}, m.hist = mem.hist,
         m.target = Stay,
         \A l \in Levels \ {mem.cur} : m.saved[l] = mem.saved[l],
         UNCHANGED <<clock, fds, tape, recording, snaps, rc, game, dirty, torn, faults>>
  PROVE  IInv'
<1>1. TypeOK /\ FilesInv /\ TapeInv
  BY DEF DInv, IInv
<1>2. mem \in Memory /\ disk \in [Levels -> Int]
  BY <1>1 DEF TypeOK
<1>3. mem.cur \in Levels /\ mem.exists \in SUBSET Levels
  BY <1>2, MemoryFields
<1>4. disk' \in [Levels -> Int]
  BY <1>2, <1>3
<1>5. TypeOK'
  BY <1>1, <1>4 DEF TypeOK
<1>6. ASSUME ~dirty PROVE FilesFit(m, disk')
  <2>1. FilesFit(mem, disk)
    BY <1>1, <1>6 DEF FilesInv
  <2>2. \A l \in Levels : disk'[l] = IF l = mem.cur THEN v ELSE disk[l]
    BY <1>2
  <2>3. QED BY <1>3, <2>1, <2>2 DEF FilesFit, Absent
<1>7. FilesInv'
  BY <1>1, <1>6 DEF FilesInv
<1>8. TapeInv'
  BY <1>1 DEF TapeInv
<1>9. QED BY <1>5, <1>7, <1>8 DEF IInv

\* The host saves the level.
LEMMA HostSaveLevelKeeps == ASSUME DInv, HostSaveLevel PROVE DInv'
<1>1. mem \in Memory /\ clock \in Nat
  BY BoundsAssumption DEF DInv, IInv, TypeOK
<1>2. mem.cur \in Levels /\ mem.exists \in SUBSET Levels /\ mem.saved \in [Levels -> Nat]
  BY <1>1, MemoryFields
<1> DEFINE w == [mem.saved EXCEPT ![mem.cur] = clock]
           m == [mem EXCEPT !.exists = mem.exists \cup {mem.cur}, !.saved = w]
<1>3. w \in [Levels -> Nat] /\ \A l \in Levels \ {mem.cur} : w[l] = mem.saved[l]
  BY <1>1, <1>2
<1>4. mem' = m
  BY DEF HostSaveLevel
<1> HIDE DEF w
<1>5. m \in Memory /\ m.cur = mem.cur /\ m.exists = mem.exists \cup {mem.cur}
      /\ m.hist = mem.hist /\ m.target = mem.target /\ m.saved = w
  BY <1>1, <1>2, <1>3 DEF Memory
<1> HIDE DEF m
<1>6. IInv'
  BY <1>1, <1>3, <1>4, <1>5, SaveLevelKeeps DEF HostSaveLevel
<1>7. HostTypes' /\ HostInv'
  BY DEF HostSaveLevel, DInv, HostTypes, HostInv, Stages
<1>8. QED BY <1>6, <1>7 DEF DInv

\* It does so and is unwound.
LEMMA HostSaveLevelUnwoundKeeps == ASSUME DInv, HostSaveLevelUnwound PROVE DInv'
<1>1. mem \in Memory
  BY DEF DInv, IInv, TypeOK
<1>2. mem.cur \in Levels /\ mem.exists \in SUBSET Levels
  BY <1>1, MemoryFields
<1> DEFINE m == [mem EXCEPT !.exists = mem.exists \cup {mem.cur}]
<1>3. mem' = m
  BY DEF HostSaveLevelUnwound
<1>4. m \in Memory /\ m.cur = mem.cur /\ m.exists = mem.exists \cup {mem.cur}
      /\ m.hist = mem.hist /\ m.target = mem.target /\ m.saved = mem.saved
  BY <1>1, <1>2 DEF Memory
<1> HIDE DEF m
<1>5. disk' = [disk EXCEPT ![mem.cur] = 0]
  BY DEF HostSaveLevelUnwound, Empty
<1>6. IInv'
  BY <1>3, <1>4, <1>5, SaveLevelKeeps DEF HostSaveLevelUnwound
<1>7. HostTypes' /\ HostInv'
  BY DEF HostSaveLevelUnwound, hvars, DInv, HostTypes, HostInv
<1>8. QED BY <1>6, <1>7 DEF DInv

\* The hero and the files are saved without a change of the game.
LEMMA HostSaveRestKeeps == ASSUME DInv, HostSavePlayer \/ HostSaveFiles PROVE DInv'
<1>1. UNCHANGED vars /\ UNCHANGED process
  BY DEF HostSavePlayer, HostSaveFiles
<1>2. IInv'
  <2>1. TypeOK'
    BY <1>1 DEF DInv, IInv, TypeOK, vars
  <2>2. FilesInv' /\ TapeInv'
    BY <1>1 DEF DInv, IInv, FilesInv, TapeInv, vars
  <2>3. QED BY <2>1, <2>2 DEF IInv
<1>3. CASE HostSavePlayer
  BY <1>1, <1>2, <1>3 DEF HostSavePlayer, DInv, HostTypes, HostInv, Stages, vars
<1>4. CASE HostSaveFiles
  <2> DEFINE b == [mem |-> mem, files |-> disk, dirty |-> dirty]
  <2>1. b \in Blob /\ b.mem = mem /\ b.files = disk /\ b.dirty = dirty
    BY DEF DInv, IInv, TypeOK, Blob
  <2>2. blob' \in {blob, b} /\ stage' = "play"
    BY <1>4 DEF HostSaveFiles
  <2> HIDE DEF b
  <2>3. HostTypes'
    BY <1>1, <2>1, <2>2 DEF DInv, HostTypes, Stages
  <2>4. b # NoSnap /\ ~b.dirty => FilesFit(b.mem, b.files)
    BY <2>1 DEF DInv, IInv, FilesInv
  <2>5. HostInv'
    BY <2>2, <2>4 DEF DInv, HostInv
  <2>6. QED BY <1>2, <2>3, <2>5 DEF DInv
<1>5. QED BY <1>3, <1>4

\* A new process fits its empty hackdir.
LEMMA NewProcessKeeps == ASSUME DInv, NewProcess PROVE DInv'
<1>1. PICK l \in Levels :
        mem' = [cur |-> l, exists |-> {}, saved |-> [k \in Levels |-> 0],
                hist |-> <<>>, target |-> Stay, fd |-> NoFd]
  BY DEF NewProcess
<1>2. mem' \in Memory /\ mem'.exists = {} /\ mem'.target = Stay /\ mem'.hist = <<>>
  BY <1>1, NewGameMemory
<1>3. disk' = [k \in Levels |-> -1] /\ snaps' = [s \in Snaps |-> NoSnap]
      /\ fds' = [f \in Fds |-> Shut] /\ tape' = <<>> /\ rc' = 0 /\ game' = "run"
  BY DEF NewProcess, Absent, NoFd
<1>4. recording' = TRUE /\ torn' = FALSE /\ dirty' = FALSE /\ UNCHANGED <<clock, faults>>
  BY DEF NewProcess
<1>5. TypeOK'
  <2>1. disk' \in [Levels -> Int] /\ snaps' \in [Snaps -> Snapshot \cup {NoSnap}]
        /\ fds' \in [Fds -> Levels \cup {Shut, Orphan}] /\ tape' \in Seq(Nat) /\ rc' \in {0, -1}
    BY <1>3
  <2>2. game' \in {"run", "over", "tricked", "panic", "abort"}
    BY <1>3
  <2>3. recording' \in BOOLEAN /\ torn' \in BOOLEAN /\ dirty' \in BOOLEAN
    BY <1>4
  <2>4. clock' \in 1 .. MaxClock /\ faults' \in 0 .. MaxFaults
    BY <1>4 DEF DInv, IInv, TypeOK
  <2>5. QED BY <1>2, <2>1, <2>2, <2>3, <2>4 DEF TypeOK
<1>6. FilesFit(mem', disk')
  BY <1>2, <1>3 DEF FilesFit, Absent
<1>7. FilesInv' /\ TapeInv'
  BY <1>2, <1>3, <1>6 DEF FilesInv, TapeInv
<1>8. HostTypes'
  <2>1. process' = process + 1 /\ process < MaxProcesses /\ process \in 1 .. MaxProcesses
    BY DEF NewProcess, DInv, HostTypes
  <2>2. process' \in 1 .. MaxProcesses
    BY <2>1, ProcessAssumption
  <2>3. stage' \in Stages /\ UNCHANGED blob
    BY DEF NewProcess, Stages
  <2>4. QED BY <2>2, <2>3 DEF DInv, HostTypes
<1>9. HostInv'
  BY DEF NewProcess, DInv, HostInv
<1>10. QED BY <1>5, <1>7, <1>8, <1>9 DEF DInv, IInv

\* While it loads, nothing is claimed of its files.
LEMMA HostLoadLevelKeeps == ASSUME DInv, HostLoadLevel PROVE DInv'
<1>1. mem \in Memory /\ disk \in [Levels -> Int]
  BY DEF DInv, IInv, TypeOK
<1>2. mem.cur \in Levels /\ mem.exists \in SUBSET Levels
  BY <1>1, MemoryFields
<1>3. mem' = [mem EXCEPT !.exists = mem.exists \cup {mem.cur}] /\ disk' = [disk EXCEPT ![mem.cur] = -2]
  BY DEF HostLoadLevel, Foreign
<1>4. mem' \in Memory /\ mem'.hist = mem.hist
  BY <1>1, <1>2, <1>3 DEF Memory
<1>5. disk' \in [Levels -> Int]
  BY <1>1, <1>2, <1>3
<1>6. UNCHANGED <<clock, fds, tape, recording, snaps, rc, game, torn, faults>> /\ dirty' = TRUE
  BY DEF HostLoadLevel
<1>7. TypeOK'
  BY <1>4, <1>5, <1>6 DEF DInv, IInv, TypeOK
<1>8. FilesInv' /\ TapeInv'
  BY <1>4, <1>6 DEF DInv, IInv, FilesInv, TapeInv
<1>9. HostTypes' /\ HostInv'
  BY DEF HostLoadLevel, DInv, HostTypes, HostInv, Stages
<1>10. QED BY <1>7, <1>8, <1>9 DEF DInv, IInv

\* Nor of its recording, once it has the old hero.
LEMMA HostLoadPlayerKeeps == ASSUME DInv, HostLoadPlayer PROVE DInv'
<1>1. blob \in Blob /\ mem' = blob.mem
  BY DEF HostLoadPlayer, DInv, HostTypes, HostInv
<1>2. mem' \in Memory
  BY <1>1, BlobFields
<1>3. UNCHANGED <<clock, disk, fds, tape, recording, snaps, rc, game, dirty, faults>> /\ torn' = TRUE
  BY DEF HostLoadPlayer, diskVars
<1>4. TypeOK'
  BY <1>2, <1>3 DEF DInv, IInv, TypeOK
<1>5. FilesInv'
  BY <1>3 DEF HostLoadPlayer, DInv, IInv, FilesInv, HostInv
<1>6. TapeInv'
  BY <1>3 DEF DInv, IInv, TapeInv
<1>7. HostTypes' /\ HostInv'
  BY <1>1 DEF HostLoadPlayer, DInv, HostTypes, HostInv, Stages
<1>8. QED BY <1>4, <1>5, <1>6, <1>7 DEF DInv, IInv

\* The files of the checkpoint are there again when the last call reports no error.
LEMMA HostLoadFilesKeeps ==
  ASSUME DInv, NEW bad \in SUBSET Levels, NEW late \in SUBSET Levels, HostLoadFiles(bad, late)
  PROVE  DInv'
<1>1. blob \in Blob /\ blob # NoSnap /\ mem = blob.mem /\ game = "run" /\ stage = "hero_loaded"
  BY DEF HostLoadFiles, DInv, HostTypes, HostInv
<1>2. blob.files \in [Levels -> Int] /\ blob.dirty \in BOOLEAN /\ disk \in [Levels -> Int]
  BY <1>1, BlobFields DEF DInv, IInv, TypeOK
<1> DEFINE ours == bad \cap Bundled(blob.files)
<1>3. PICK short \in SUBSET ours, old \in SUBSET ours :
        disk' = [l \in Levels |->
          IF l \in short THEN Empty
          ELSE IF l \in old \cup late
            THEN (IF blob.files[l] = Empty THEN Empty ELSE Foreign)
          ELSE IF l \in bad THEN disk[l] ELSE Stamped(blob.files)[l]]
  BY DEF HostLoadFiles
<1>4. disk' \in [Levels -> Int]
  BY <1>2, <1>3 DEF Stamped, Empty, Foreign
<1>5. bad = {} => disk' = blob.files
  <2> SUFFICES ASSUME bad = {} PROVE disk' = blob.files
    OBVIOUS
  <2>1. short = {} /\ old = {} /\ late = {}
    BY DEF HostLoadFiles
  <2>2. disk' = [l \in Levels |-> blob.files[l]]
    BY <1>3, <2>1 DEF Stamped
  <2>3. QED BY <1>2, <2>2
<1> HIDE DEF ours
<1>6. dirty' = (blob.dirty \/ bad # {})
  BY DEF HostLoadFiles
<1>7. UNCHANGED <<clock, mem, fds, tape, recording, snaps, rc, game, torn, blob, process>>
      /\ stage' = "play"
  BY DEF HostLoadFiles
<1>8. faults' \in 0 .. MaxFaults
  <2>1. faults' \in {faults, faults + 1} /\ faults' <= MaxFaults
    BY DEF HostLoadFiles
  <2>2. faults \in Nat /\ MaxFaults \in Nat
    BY BoundsAssumption DEF DInv, IInv, TypeOK
  <2>3. QED BY <2>1, <2>2
<1>9. TypeOK'
  <2>1. dirty' \in BOOLEAN
    BY <1>2, <1>6
  <2>2. QED BY <1>4, <1>7, <1>8, <2>1 DEF DInv, IInv, TypeOK
<1>10. ~dirty' => FilesFit(mem', disk')
  BY <1>1, <1>5, <1>6, <1>7 DEF DInv, HostInv
<1>11. FilesInv'
  BY <1>1, <1>7, <1>10 DEF DInv, IInv, FilesInv
<1>12. TapeInv'
  BY <1>7 DEF DInv, IInv, TapeInv
<1>13. HostTypes' /\ HostInv'
  BY <1>7 DEF DInv, HostTypes, HostInv, Stages
<1>14. QED BY <1>9, <1>11, <1>12, <1>13 DEF DInv, IInv

\* Steps, snapshots and restores are those of one process.
LEMMA DPlayKeeps == ASSUME DInv, DPlay PROVE DInv'
<1>1. IInv'
  BY NextKeepsIInv DEF DPlay, DInv
<1>2. HostTypes' /\ HostInv'
  BY DEF DPlay, hvars, DInv, HostTypes, HostInv
<1>3. QED BY <1>1, <1>2 DEF DInv

-----------------------------------------------------------------------------
(* The theorems.                                                           *)

\* There is no checkpoint when the first process starts.
LEMMA InitDInv == DInit => DInv
<1> SUFFICES ASSUME DInit PROVE DInv
  OBVIOUS
<1>1. IInv
  BY InitIInv DEF DInit
<1>2. HostTypes
  BY ProcessAssumption DEF DInit, HostTypes, Stages
<1>3. HostInv
  BY DEF DInit, HostInv
<1>4. QED BY <1>1, <1>2, <1>3 DEF DInv

\* Every call of the host and every step keeps the invariant.
LEMMA NextKeepsDInv == DInv /\ [DNext]_dvars => DInv'
<1> SUFFICES ASSUME DInv, [DNext]_dvars PROVE DInv'
  OBVIOUS
<1>1. CASE DNext
  BY <1>1, DPlayKeeps, HostSaveLevelKeeps, HostSaveLevelUnwoundKeeps, HostSaveRestKeeps,
     NewProcessKeeps, HostLoadLevelKeeps, HostLoadPlayerKeeps, HostLoadFilesKeeps DEF DNext
<1>2. CASE UNCHANGED dvars
  <2>1. UNCHANGED vars /\ UNCHANGED <<stage, blob, process>>
    BY <1>2 DEF dvars, hvars
  <2>2. TypeOK'
    BY <2>1 DEF DInv, IInv, TypeOK, vars
  <2>3. FilesInv' /\ TapeInv'
    BY <2>1 DEF DInv, IInv, FilesInv, TapeInv, vars
  <2>4. HostTypes' /\ HostInv'
    BY <2>1 DEF DInv, HostTypes, HostInv, vars
  <2>5. QED BY <2>2, <2>3, <2>4 DEF DInv, IInv
<1>3. QED BY <1>1, <1>2

\* The invariant holds in every behaviour.
THEOREM CheckpointInvariance == DSpec => []DInv
<1>1. QED BY InitDInv, NextKeepsDInv, PTL DEF DSpec

\* The checkpoint and the host keep their shapes.
THEOREM CheckpointTypes == DSpec => []DTypeOK
<1>1. DInv => DTypeOK
  BY DEF DInv, IInv, HostTypes, DTypeOK
<1>2. QED BY <1>1, CheckpointInvariance, PTL

\* Also in a process that resumed from a checkpoint the level files are those that
\* the memory believes in.
THEOREM ResumedFilesAreThoseFlagged == DSpec => []FilesMatchFlags
<1>1. DInv => FilesMatchFlags
  BY DEF DInv, IInv, FilesInv, FilesFit, FilesMatchFlags
<1>2. QED BY <1>1, CheckpointInvariance, PTL

\* They hold what the game wrote, in this process or in one before it.
THEOREM ResumedFilesAreOfThisGame == DSpec => []FilesHoldOwnPast
<1>1. DInv => FilesHoldOwnPast
  BY DEF DInv, IInv, FilesInv, FilesFit, FilesHoldOwnPast
<1>2. QED BY <1>1, CheckpointInvariance, PTL

\* A resumed game is not taken for tampered with either.
THEOREM ResumeFakesNoDeath == DSpec => []NoFakeDeath
<1>1. DInv => NoFakeDeath
  BY DEF DInv, IInv, FilesInv, NoFakeDeath
<1>2. QED BY <1>1, CheckpointInvariance, PTL

\* The recording of the new process is its own, and those of the handles it takes
\* are prefixes of it.
THEOREM ResumedTapeIsOfThisGame == DSpec => [](TapeFollowsGame /\ HandleFindsPrefix)
<1>1. DInv => TapeFollowsGame /\ HandleFindsPrefix
  BY DEF DInv, IInv, TapeInv, FindsPrefix, TapeFollowsGame, HandleFindsPrefix
<1>2. QED BY <1>1, CheckpointInvariance, PTL
=============================================================================
