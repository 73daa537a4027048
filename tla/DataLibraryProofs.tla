------------------------- MODULE DataLibraryProofs -------------------------
(***************************************************************************)
(* Proofs about module DataLibrary, for any number of environments and any *)
(* archive.                                                                *)
(***************************************************************************)
EXTENDS DataLibrary, SequenceTheorems, TLAPS

\* The environment that won the compare-and-swap and is not through yet.
Opening(e) == pc[e] \in {"open", "read_dir", "done"}

\* One environment opens the library, while the state is 1; who plays came past
\* the state 2; a directory that was read is in the memory of libc.
LibraryInv ==
  /\ state \in 0 .. 2 /\ initialized \in BOOLEAN /\ fdata \in BOOLEAN
  /\ dir \in {"libc", Null} /\ fpos \in Nat /\ opens \in 0 .. 1
  /\ pc \in [Envs -> {"new", "open", "read_dir", "done", "wait", "play", "over", "ended"}]
  /\ \A d, e \in Envs : Opening(d) /\ Opening(e) => d = e
  /\ \A e \in Envs : Opening(e) => state = 1
  /\ \A e \in Envs : pc[e] \in {"open", "read_dir"} => ~initialized
  /\ \A e \in Envs : pc[e] = "open" => opens = 0
  /\ \A e \in Envs : pc[e] = "read_dir" => fdata
  /\ \A e \in Envs : pc[e] \in {"play", "over"} => state = 2
  /\ state = 0 => opens = 0 /\ ~initialized
  /\ initialized => fdata /\ dir = "libc"

\* The bytes of the archive from offset a, n of them.
Bytes(a, n) == [i \in 1 .. n |-> a + i - 1]

\* A handle lies within the archive, and s is what was read through it since
\* the last open or seek.
Good(h, s) ==
  /\ s \in Seq(Nat)
  /\ h # Null =>
       /\ h \in Handle
       /\ h.since <= h.mark /\ h.mark <= h.size /\ h.start + h.size <= Total
       /\ s = Bytes(h.start + h.since, h.mark - h.since)

\* This holds of every environment, and of every snapshot.
MemoryInv ==
  /\ handle \in [Envs -> Handle \cup {Null}] /\ seen \in [Envs -> Seq(Nat)]
  /\ saved = [e \in Envs |-> saved[e]]
  /\ \A e \in Envs : Good(handle[e], seen[e])
  /\ \A e \in Envs : saved[e] # Null => Good(saved[e][1], saved[e][2])

IInv == LibraryInv /\ MemoryInv

-----------------------------------------------------------------------------
(* Opening.                                                                *)

\* At first nobody opens the library.
LEMMA InitLibrary == Init => LibraryInv
<1> SUFFICES ASSUME Init PROVE LibraryInv
  OBVIOUS
<1>1. \A e \in Envs : pc[e] = "new"
  BY DEF Init
<1>2. pc \in [Envs -> {"new", "open", "read_dir", "done", "wait", "play", "over", "ended"}]
  BY DEF Init
<1>3. state = 0 /\ opens = 0 /\ fpos = 0 /\ dir = Null
  BY DEF Init
<1>4. initialized = FALSE /\ fdata = FALSE
  BY DEF Init
<1>5. state \in 0 .. 2 /\ fpos \in Nat /\ opens \in 0 .. 1
  BY <1>3
<1>6. initialized \in BOOLEAN /\ fdata \in BOOLEAN /\ dir \in {"libc", Null}
  BY <1>3, <1>4
<1>7. \A e \in Envs : pc[e] \notin {"open", "read_dir", "done", "play", "over"}
  BY <1>1
<1>8. \A e \in Envs : ~Opening(e)
  BY <1>7 DEF Opening
<1>9. state = 0 => opens = 0 /\ ~initialized
  BY <1>3, <1>4
<1>10. QED BY <1>2, <1>4, <1>5, <1>6, <1>7, <1>8, <1>9 DEF LibraryInv

\* Each step of dlb_init keeps it: the compare-and-swap lets one environment in.
LEMMA DlbInitKeepsLibrary ==
  ASSUME NEW e \in Envs, LibraryInv, DlbInit(e)
  PROVE  LibraryInv'
<1> USE DEF LibraryInv, Opening, GoTo
<1>1. CASE InitOnce(e)
  BY <1>1 DEF InitOnce
<1>2. CASE OpenLibrary(e)
  <2>1. CASE fdata' = TRUE /\ opens' = opens + 1 /\ GoTo(e, "read_dir")
    BY <1>2, <2>1 DEF OpenLibrary
  <2>2. CASE GoTo(e, "done") /\ UNCHANGED <<fdata, opens>>
    BY <1>2, <2>2 DEF OpenLibrary
  <2>3. QED BY <1>2, <2>1, <2>2 DEF OpenLibrary
<1>3. CASE ReadDir(e)
  <2>1. CASE dir' = "libc" /\ fpos' = 0 /\ initialized' = TRUE /\ UNCHANGED fdata
    BY <1>3, <2>1 DEF ReadDir
  <2>2. CASE fdata' = FALSE /\ UNCHANGED <<dir, fpos, initialized>>
    BY <1>3, <2>2 DEF ReadDir
  <2>3. QED BY <1>3, <2>1, <2>2 DEF ReadDir
<1>4. CASE InitDone(e)
  BY <1>4 DEF InitDone
<1>5. CASE Wait(e)
  BY <1>5 DEF Wait, library
<1>6. QED BY <1>1, <1>2, <1>3, <1>4, <1>5 DEF DlbInit

\* A game that plays, ends or is restored leaves the library alone.
LEMMA GameKeepsLibrary ==
  ASSUME NEW e \in Envs, LibraryInv, UNCHANGED library,
         \/ UNCHANGED pc
         \/ pc[e] \in {"play", "over"} /\ \E l \in {"play", "over", "ended"} : GoTo(e, l)
  PROVE  LibraryInv'
<1>1. CASE UNCHANGED pc
  BY <1>1 DEF LibraryInv, Opening, library
<1>2. CASE pc[e] \in {"play", "over"} /\ \E l \in {"play", "over", "ended"} : GoTo(e, l)
  BY <1>2 DEF LibraryInv, Opening, library, GoTo
<1>3. QED BY <1>1, <1>2

-----------------------------------------------------------------------------
(* Reading.                                                                *)

\* What is read next continues what was read.
LEMMA BytesGrow ==
  ASSUME NEW a \in Nat, NEW k \in Nat, NEW n \in Nat
  PROVE  Bytes(a, k) \o Bytes(a + k, n) = Bytes(a, k + n)
<1> DEFINE s == Bytes(a, k)
           t == Bytes(a + k, n)
           u == Bytes(a, k + n)
<1>1. s \in Seq(Nat) /\ t \in Seq(Nat) /\ u \in Seq(Nat)
  BY DEF Bytes
<1>2. Len(s) = k /\ Len(t) = n /\ Len(u) = k + n
  BY DEF Bytes
<1>3. \A i \in 1 .. k + n : (s \o t)[i] = u[i]
  BY <1>1, <1>2 DEF Bytes
<1>4. s \o t \in Seq(Nat) /\ Len(s \o t) = k + n
  BY <1>1, <1>2, ConcatProperties
<1> HIDE DEF s, t, u
<1>5. s \o t = u
  BY <1>1, <1>2, <1>3, <1>4, SeqEqual
<1>6. QED BY <1>5 DEF s, t, u

\* A file lies within the archive.
LEMMA FileFits ==
  ASSUME NEW f \in Files
  PROVE  Offsets[f] \in Nat /\ FileSize(f) \in Nat /\ Offsets[f] + FileSize(f) <= Total
<1>1. f \in 1 .. Len(Offsets) /\ Len(Offsets) \in Nat
  BY LayoutAssumption DEF Files
<1>2. CASE f = Len(Offsets)
  BY <1>1, <1>2, LayoutAssumption DEF Files, FileSize
<1>3. CASE f # Len(Offsets)
  <2>1. f + 1 \in Files /\ Offsets[f + 1] \in Nat
    BY <1>1, <1>3, LayoutAssumption DEF Files
  <2>2. QED BY <1>1, <1>3, <2>1, LayoutAssumption DEF Files, FileSize
<1>4. QED BY <1>2, <1>3

\* At first there are no handles.
LEMMA InitMemory == Init => MemoryInv
  BY DEF Init, MemoryInv, Good

\* An environment that has a new handle and a new record of reads that fit
\* together, and a snapshot that is old, gone or what it has, keeps it.
LEMMA StepKeepsMemory ==
  ASSUME NEW e \in Envs, NEW h \in Handle \cup {Null}, NEW s \in Seq(Nat), NEW v,
         MemoryInv, Good(h, s),
         handle' = [handle EXCEPT ![e] = h], seen' = [seen EXCEPT ![e] = s],
         saved' = [saved EXCEPT ![e] = v],
         v = saved[e] \/ v = Null \/ v = <<h, s>>
  PROVE  MemoryInv'
<1>1. handle' \in [Envs -> Handle \cup {Null}] /\ seen' \in [Envs -> Seq(Nat)]
  BY DEF MemoryInv
<1>2. saved' = [d \in Envs |-> saved'[d]]
  BY DEF MemoryInv
<1>3. \A d \in Envs : Good(handle'[d], seen'[d])
  BY DEF MemoryInv
<1>4. ASSUME NEW d \in Envs, saved'[d] # Null
      PROVE  Good(saved'[d][1], saved'[d][2])
  <2>1. CASE d = e
    <3>1. saved'[d] = v
      BY <2>1 DEF MemoryInv
    <3>2. CASE v = saved[e]
      BY <1>4, <2>1, <3>1, <3>2 DEF MemoryInv
    <3>3. CASE v = <<h, s>>
      BY <3>1, <3>3
    <3>4. QED BY <1>4, <3>1, <3>2, <3>3
  <2>2. CASE d # e
    BY <1>4, <2>2 DEF MemoryInv
  <2>3. QED BY <2>1, <2>2
<1>5. QED
  <2>1. \A d \in Envs : saved'[d] # Null => Good(saved'[d][1], saved'[d][2])
    BY <1>4
  <2>2. QED BY <1>1, <1>2, <1>3, <2>1 DEF MemoryInv

\* dlb_fopen: nothing was read yet, and the file is in the archive.
LEMMA FopenKeepsMemory ==
  ASSUME NEW e \in Envs, NEW f \in Files, MemoryInv, Fopen(e, f)
  PROVE  MemoryInv'
<1> DEFINE h == [start |-> Offsets[f], size |-> FileSize(f), mark |-> 0, since |-> 0]
           s == <<>>
<1>1. h \in Handle
  BY FileFits DEF Handle
<1>2. s \in Seq(Nat) /\ s = Bytes(Offsets[f] + 0, 0 - 0)
  BY FileFits DEF Bytes
<1>3. Good(h, s)
  BY <1>1, <1>2, FileFits DEF Good
<1>4. handle' = [handle EXCEPT ![e] = h] /\ seen' = [seen EXCEPT ![e] = s]
  BY DEF Fopen
<1>5. saved' = [saved EXCEPT ![e] = saved[e]]
  BY DEF Fopen, MemoryInv
<1> HIDE DEF h, s
<1>6. QED BY <1>1, <1>2, <1>3, <1>4, <1>5, StepKeepsMemory

\* dlb_fread: the bytes continue those read before, and end in the file.
LEMMA FreadKeepsMemory ==
  ASSUME NEW e \in Envs, NEW n \in Nat, MemoryInv, Fread(e, n)
  PROVE  MemoryInv'
<1> DEFINE g == handle[e]
           p == g.start + g.mark
           h == [g EXCEPT !.mark = @ + n]
           s == seen[e] \o Bytes(p, n)
           a == g.start + g.since
           k == g.mark - g.since
<1>1. g \in Handle /\ Good(g, seen[e]) /\ g # Null /\ n <= g.size - g.mark
  BY DEF MemoryInv, Fread
<1>2. h \in Handle /\ h = [start |-> g.start, size |-> g.size,
                          mark |-> g.mark + n, since |-> g.since]
  BY <1>1 DEF Handle
<1>3. a \in Nat /\ k \in Nat /\ seen[e] = Bytes(a, k) /\ p = a + k
  BY <1>1 DEF Good, Handle
<1>4. h.start = g.start /\ h.size = g.size /\ h.mark = g.mark + n /\ h.since = g.since
  BY <1>2
<1>5. h.since <= h.mark /\ h.mark <= h.size /\ h.start + h.size <= Total
  <2>1. g.since <= g.mark /\ g.start + g.size <= Total
    BY <1>1 DEF Good
  <2>2. g.start \in Nat /\ g.size \in Nat /\ g.mark \in Nat /\ g.since \in Nat
    BY <1>1 DEF Handle
  <2> HIDE DEF g, h
  <2>3. QED BY <1>1, <1>4, <2>1, <2>2
<1>6. h.start + h.since = a /\ h.mark - h.since = k + n
  <2>1. g.start \in Nat /\ g.mark \in Nat /\ g.since \in Nat
    BY <1>1 DEF Handle
  <2> HIDE DEF g, h
  <2>2. QED BY <1>4, <2>1
<1>7. handle' = [handle EXCEPT ![e] = h] /\ seen' = [seen EXCEPT ![e] = s]
  BY DEF Fread, Deliver, Bytes
<1>8. saved' = [saved EXCEPT ![e] = saved[e]]
  BY DEF Fread, MemoryInv
<1>9. s = Bytes(a, k) \o Bytes(a + k, n)
  BY <1>3
<1>10. k + n \in Nat
  BY <1>3
<1> HIDE DEF g, p, h, s, a, k
<1>11. s = Bytes(a, k + n)
  BY <1>3, <1>9, BytesGrow
<1>12. Bytes(a, k + n) \in Seq(Nat)
  BY <1>3, <1>10 DEF Bytes
<1>13. Good(h, s)
  BY <1>2, <1>5, <1>6, <1>11, <1>12 DEF Good
<1>14. QED BY <1>2, <1>7, <1>8, <1>11, <1>12, <1>13, StepKeepsMemory

\* dlb_fseek: the reads begin anew at a place within the file.
LEMMA FseekKeepsMemory ==
  ASSUME NEW e \in Envs, NEW pos \in Nat, MemoryInv, Fseek(e, pos)
  PROVE  MemoryInv'
<1> DEFINE g == handle[e]
           to == IF pos > g.size THEN g.size ELSE pos
           h == [g EXCEPT !.mark = to, !.since = to]
           s == <<>>
<1>1. g \in Handle /\ Good(g, seen[e]) /\ g # Null
  BY DEF MemoryInv, Fseek
<1>2. to \in Nat /\ to <= g.size
  BY <1>1 DEF Handle
<1> HIDE DEF to
<1>3. h \in Handle /\ h = [start |-> g.start, size |-> g.size, mark |-> to, since |-> to]
  <2>1. g = [start |-> g.start, size |-> g.size, mark |-> g.mark, since |-> g.since]
    BY <1>1 DEF Handle
  <2>2. g.start \in Nat /\ g.size \in Nat
    BY <1>1 DEF Handle
  <2> DEFINE i == [g EXCEPT !.mark = to]
  <2>3. i \in Handle /\ i = [start |-> g.start, size |-> g.size, mark |-> to, since |-> g.since]
    BY <1>1, <1>2 DEF Handle
  <2>4. h = [i EXCEPT !.since = to]
    BY <1>1 DEF Handle
  <2> HIDE DEF i
  <2>5. [i EXCEPT !.since = to] = [start |-> g.start, size |-> g.size, mark |-> to, since |-> to]
    BY <1>2, <2>3 DEF Handle
  <2>6. QED BY <1>2, <2>2, <2>4, <2>5 DEF Handle
<1>4. s \in Seq(Nat) /\ s = Bytes(g.start + to, to - to)
  BY <1>1, <1>2 DEF Bytes, Handle
<1>5. Good(h, s)
  BY <1>1, <1>2, <1>3, <1>4 DEF Good
<1>6. handle' = [handle EXCEPT ![e] = h] /\ seen' = [seen EXCEPT ![e] = s]
  BY DEF Fseek, to
<1>7. saved' = [saved EXCEPT ![e] = saved[e]]
  BY DEF Fseek, MemoryInv
<1> HIDE DEF h, s
<1>8. QED BY <1>3, <1>4, <1>5, <1>6, <1>7, StepKeepsMemory

\* Closing, a snapshot and a restore: the handle and the reads are dropped, put
\* aside and brought back together.
LEMMA HandOverKeepsMemory ==
  ASSUME NEW e \in Envs, MemoryInv,
         Fclose(e) \/ GameOver(e) \/ Snapshot(e) \/ Restore(e) \/ End(e)
  PROVE  MemoryInv'
<1>1. CASE Fclose(e)
  BY <1>1 DEF Fclose, MemoryInv, Good
<1>2. CASE GameOver(e)
  BY <1>2 DEF GameOver, MemoryInv, memory
<1>3. CASE Snapshot(e)
  BY <1>3 DEF Snapshot, MemoryInv
<1>4. CASE Restore(e)
  <2>1. Good(saved[e][1], saved[e][2]) /\ saved[e][2] \in Seq(Nat)
        /\ saved[e][1] \in Handle \cup {Null}
    BY <1>4 DEF Restore, MemoryInv, Good
  <2>2. saved' = [saved EXCEPT ![e] = saved[e]]
    BY <1>4 DEF Restore, MemoryInv
  <2>3. QED BY <1>4, <2>1, <2>2, StepKeepsMemory DEF Restore
<1>5. CASE End(e)
  <2>1. <<>> \in Seq(Nat) /\ Null \in Handle \cup {Null} /\ Good(Null, <<>>)
    BY DEF Good
  <2>2. handle' = [handle EXCEPT ![e] = Null] /\ seen' = [seen EXCEPT ![e] = <<>>]
        /\ saved' = [saved EXCEPT ![e] = Null]
    BY <1>5 DEF End
  <2>3. QED BY <2>1, <2>2, StepKeepsMemory
<1>6. QED BY <1>1, <1>2, <1>3, <1>4, <1>5

-----------------------------------------------------------------------------
(* The theorems.                                                           *)

\* Every step keeps both parts of the invariant.
LEMMA NextKeepsIInv == IInv /\ [Next]_vars => IInv'
<1> SUFFICES ASSUME IInv, [Next]_vars PROVE IInv'
  OBVIOUS
<1> USE DEF IInv
<1>1. ASSUME NEW e \in Envs, DlbInit(e) PROVE IInv'
  <2>1. UNCHANGED memory
    BY <1>1 DEF DlbInit, InitOnce, OpenLibrary, ReadDir, InitDone, Wait
  <2>2. MemoryInv'
    BY <2>1 DEF MemoryInv, memory
  <2>3. QED BY <1>1, <2>2, DlbInitKeepsLibrary
<1>2. ASSUME NEW e \in Envs, NEW f \in Files, Fopen(e, f) PROVE IInv'
  BY <1>2, FopenKeepsMemory, GameKeepsLibrary DEF Fopen
<1>3. ASSUME NEW e \in Envs, NEW n \in 0 .. MaxRead, Fread(e, n) PROVE IInv'
  <2>1. n \in Nat
    BY LayoutAssumption
  <2>2. QED BY <1>3, <2>1, FreadKeepsMemory, GameKeepsLibrary DEF Fread
<1>4. ASSUME NEW e \in Envs, NEW pos \in 0 .. Total, Fseek(e, pos) PROVE IInv'
  <2>1. pos \in Nat
    BY LayoutAssumption
  <2>2. QED BY <1>4, <2>1, FseekKeepsMemory, GameKeepsLibrary DEF Fseek
<1>5. ASSUME NEW e \in Envs,
             Fclose(e) \/ GameOver(e) \/ Snapshot(e) \/ Restore(e) \/ End(e)
      PROVE  IInv'
  <2>1. UNCHANGED library
    BY <1>5 DEF Fclose, GameOver, Snapshot, Restore, End
  <2>2. \/ UNCHANGED pc
        \/ pc[e] \in {"play", "over"} /\ \E l \in {"play", "over", "ended"} : GoTo(e, l)
    BY <1>5 DEF Fclose, GameOver, Snapshot, Restore, End
  <2>3. QED BY <1>5, <2>1, <2>2, HandOverKeepsMemory, GameKeepsLibrary
<1>6. CASE UNCHANGED vars
  BY <1>6 DEF vars, library, memory, LibraryInv, Opening, MemoryInv
<1>7. QED BY <1>1, <1>2, <1>3, <1>4, <1>5, <1>6 DEF Next

\* The invariant holds in every behaviour.
THEOREM Invariance == Spec => []IInv
<1>1. Init => IInv
  BY InitLibrary, InitMemory DEF IInv
<1>2. QED BY <1>1, NextKeepsIInv, PTL DEF Spec

\* However many environments start at once, the library is opened once.
THEOREM LibraryIsOpenedOnce == Spec => []OpenedOnce
<1>1. IInv => OpenedOnce
  BY DEF IInv, LibraryInv, OpenedOnce
<1>2. QED BY <1>1, Invariance, PTL

\* A game that plays finds the library whole, in memory that outlives it.
THEOREM LibraryIsUsable == Spec => []LibraryUsable
<1>1. IInv => LibraryUsable
  BY NamesAssumption DEF IInv, LibraryInv, LibraryUsable
<1>2. QED BY <1>1, Invariance, PTL

\* A handle reads its own file in order, whatever the others read and however
\* often it is rewound.
THEOREM HandlesReadTheirFiles == Spec => []ReadsOwnFile
<1>1. IInv => ReadsOwnFile
  BY LayoutAssumption DEF IInv, MemoryInv, Good, Bytes, ReadsOwnFile, Handle
<1>2. QED BY <1>1, Invariance, PTL

\* The types, and a mark that stays within its file.
THEOREM TypesAreKept == Spec => []TypeOK
<1>1. IInv => TypeOK
  <2> SUFFICES ASSUME IInv PROVE TypeOK
    OBVIOUS
  <2>1. \A e \in Envs :
          /\ handle[e] = Null \/ (handle[e] \in Handle /\ handle[e].mark <= handle[e].size)
          /\ seen[e] \in Seq(Nat)
    BY DEF IInv, MemoryInv, Good
  <2>2. QED BY <2>1 DEF IInv, LibraryInv, TypeOK
<1>2. QED BY <1>1, Invariance, PTL
=============================================================================
