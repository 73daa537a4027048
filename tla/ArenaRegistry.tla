---------------------------- MODULE ArenaRegistry ----------------------------
(***************************************************************************)
(* The registry of the environments' arenas (alloc.c), with the calls of   *)
(* nle.c that map an arena and give it back.  Threads add and remove       *)
(* arenas and look pointers up without a lock; each of their accesses to   *)
(* the shared table is a step.                                             *)
(*                                                                         *)
(* An address stands for a range of the size of an arena, and a pointer    *)
(* for the range it points into.  The kernel may hand out an address again *)
(* as soon as it is unmapped.  All arenas have one size: a slot's          *)
(* cap_bytes is that size (TRUE) or 0 (FALSE).  The process-wide arena of  *)
(* the time before the first environment is left out.                      *)
(***************************************************************************)
EXTENDS Naturals

CONSTANTS
  Threads,
  Envs,    \* environments over the life of the process
  Addrs,   \* addresses
  Cap,     \* NLE_ARENA_REGISTRY_CAP
  Null     \* no address, no environment

ASSUME ArenaAssumption == Cap \in Nat /\ Null \notin Addrs /\ Null \notin Envs

Slots == 0 .. Cap - 1

VARIABLES
  mem,       \* [Addrs -> "free", "libc" (malloc) or "arena"], as the kernel sees it
  base,      \* nle_arena_registry_base
  cap_bytes, \* nle_arena_registry_cap_bytes
  hwm,       \* nle_arena_registry_hwm
  block,     \* [Envs -> address of the nle_ctx_t, or Null]
  arena,     \* nle->arena_base
  env,       \* [Envs -> "new", "busy", "live", "over" (panicked) or "ended"]
  crashed,   \* libc was given a pointer that is not its own
  call       \* [Threads -> Call]: the call a thread is in

table   == <<base, cap_bytes, hwm>>
envVars == <<block, arena, env>>
vars    == <<mem, table, envVars, crashed, call>>

\* A call's program point, its environment, and its variables: the loop index i,
\* the mark it loaded, the base it loaded, the pointer it frees; and, as history,
\* whether the arena that ptr points into was given back since the call began.
Call == [at : {"idle", "add", "add_cas", "add_size", "add_hwm", "add_hwm_cas",
               "free", "free_base", "free_size",
               "remove", "remove_size", "remove_base", "unmap"},
         env : Envs \cup {Null}, i : 0 .. Cap, hwm : 0 .. Cap, base : Addrs \cup {Null},
         ptr : Addrs \cup {Null}, gone : BOOLEAN]

Idle == [at |-> "idle", env |-> Null, i |-> 0, hwm |-> 0, base |-> Null,
         ptr |-> Null, gone |-> FALSE]

At(t, l)     == call[t].at = l
GoTo(t, l)   == call' = [call EXCEPT ![t].at = l]
Return(t)    == call' = [call EXCEPT ![t] = Idle]

\* The slot that thread t is looking at, and how it goes on to the next.
Slot(t) == call[t].i
NextSlot(t, l) ==
  call' = [call EXCEPT ![t] = [@ EXCEPT !.at = l, !.i = Slot(t) + 1, !.base = Null]]

Init ==
  /\ mem = [a \in Addrs |-> "free"]
  /\ base = [s \in Slots |-> Null] /\ cap_bytes = [s \in Slots |-> FALSE]
  /\ hwm = 0
  /\ block = [e \in Envs |-> Null] /\ arena = [e \in Envs |-> Null]
  /\ env = [e \in Envs |-> "new"] /\ crashed = FALSE
  /\ call = [t \in Threads |-> Idle]

-----------------------------------------------------------------------------
(* nle_start: the context block comes from calloc, which maps it or takes  *)
(* it from libc's heap, where no arena can be (Null); the game's first     *)
(* alloc() maps the arena and adds it to the registry.                     *)

Start(t, e) ==
  \E a \in Addrs, b \in Addrs \cup {Null} :
    /\ At(t, "idle") /\ env[e] = "new"
    /\ a # b /\ \A x \in {a, b} \ {Null} : mem[x] = "free"
    /\ mem' = [x \in Addrs |-> IF x = a THEN "arena" ELSE IF x = b THEN "libc" ELSE mem[x]]
    /\ block' = [block EXCEPT ![e] = b]
    /\ arena' = [arena EXCEPT ![e] = a]
    /\ env' = [env EXCEPT ![e] = "busy"]
    /\ call' = [call EXCEPT ![t] = [@ EXCEPT !.at = "add", !.env = e]]
    /\ UNCHANGED <<table, crashed>>

\* The slot is looked at, and passed over when it is taken.
AddLook(t) ==
  /\ At(t, "add") /\ Slot(t) < Cap
  /\ IF base[Slot(t)] # Null THEN NextSlot(t, "add") ELSE GoTo(t, "add_cas")
  /\ UNCHANGED <<mem, table, envVars, crashed>>

\* Every slot was taken: panic() ends the game, unregistered.
Overflow(t) ==
  /\ At(t, "add") /\ Slot(t) = Cap
  /\ env' = [env EXCEPT ![call[t].env] = "over"]
  /\ Return(t)
  /\ UNCHANGED <<mem, table, block, arena, crashed>>

\* Mutant: the slot is stored to without a comparison.
AddStore(t) ==
  /\ At(t, "add_cas")
  /\ base' = [base EXCEPT ![Slot(t)] = arena[call[t].env]]
  /\ GoTo(t, "add_size")
  /\ UNCHANGED <<mem, cap_bytes, hwm, envVars, crashed>>

\* The compare-and-swap of the slot's base.
AddCas(t) ==
  /\ At(t, "add_cas")
  /\ IF base[Slot(t)] = Null
       THEN base' = [base EXCEPT ![Slot(t)] = arena[call[t].env]] /\ GoTo(t, "add_size")
       ELSE NextSlot(t, "add") /\ UNCHANGED base
  /\ UNCHANGED <<mem, cap_bytes, hwm, envVars, crashed>>

AddSize(t) ==
  /\ At(t, "add_size")
  /\ cap_bytes' = [cap_bytes EXCEPT ![Slot(t)] = TRUE]
  /\ GoTo(t, "add_hwm")
  /\ UNCHANGED <<mem, base, hwm, envVars, crashed>>

\* alloc returns, and the game owns a pointer into its arena.
AddDone(t) ==
  /\ env' = [env EXCEPT ![call[t].env] = "live"]
  /\ Return(t)

\* The high-water mark is loaded ...
AddHwm(t) ==
  /\ At(t, "add_hwm")
  /\ IF Slot(t) + 1 <= hwm THEN AddDone(t)
     ELSE call' = [call EXCEPT ![t] = [@ EXCEPT !.at = "add_hwm_cas", !.hwm = hwm]] /\ UNCHANGED env
  /\ UNCHANGED <<mem, table, block, arena, crashed>>

\* ... and raised by a compare-and-swap, or loaded again when that fails.
AddHwmCas(t) ==
  /\ At(t, "add_hwm_cas")
  /\ IF hwm = call[t].hwm THEN hwm' = Slot(t) + 1 /\ AddDone(t)
     ELSE /\ GoTo(t, "add_hwm") /\ UNCHANGED <<hwm, env>>
  /\ UNCHANGED <<mem, base, cap_bytes, block, arena, crashed>>

-----------------------------------------------------------------------------
(* nle_arena_free of a pointer into no arena of the thread's own           *)
(* environment: nle_arena_registry_contains, and then libc's free.         *)

\* A game frees a pointer into the arena of another environment.
FreeForeign(t, e, d) ==
  /\ At(t, "idle") /\ env[e] = "live" /\ env[d] = "live" /\ d # e
  /\ env' = [env EXCEPT ![e] = "busy"]
  /\ call' = [call EXCEPT ![t] = [@ EXCEPT !.at = "free", !.env = e, !.ptr = arena[d]]]
  /\ UNCHANGED <<mem, table, block, arena, crashed>>

FreeBegin(t) ==
  /\ At(t, "free")
  /\ call' = [call EXCEPT ![t] = [@ EXCEPT !.at = "free_base", !.hwm = hwm, !.i = 0]]
  /\ UNCHANGED <<mem, table, envVars, crashed>>

\* The thread returns from free, to the game or out of nle_end.
FreeDone(t) ==
  LET e == call[t].env IN
  /\ env' = [env EXCEPT ![e] = IF arena[e] = Null THEN "ended" ELSE "live"]
  /\ Return(t)

\* The slot's base is read, when there is a slot left below the mark ...
FreeBase(t) ==
  /\ At(t, "free_base") /\ Slot(t) < call[t].hwm
  /\ IF base[Slot(t)] = Null THEN NextSlot(t, "free_base")
     ELSE call' = [call EXCEPT ![t] = [@ EXCEPT !.at = "free_size", !.base = base[Slot(t)]]]
  /\ UNCHANGED <<mem, table, envVars, crashed>>

\* ... and its size: a pointer into the range is left alone.
FreeSize(t) ==
  /\ At(t, "free_size")
  /\ IF call[t].base = call[t].ptr /\ cap_bytes[Slot(t)]
       THEN FreeDone(t)
       ELSE NextSlot(t, "free_base") /\ UNCHANGED env
  /\ UNCHANGED <<mem, table, block, arena, crashed>>

\* The pointer is in no arena: __libc_free, which only its own pointers survive.
FreeLibc(t) ==
  /\ At(t, "free_base") /\ Slot(t) >= call[t].hwm
  /\ crashed' = (call[t].gone \/ mem[call[t].ptr] # "libc")
  /\ mem' = IF crashed' THEN mem ELSE [mem EXCEPT ![call[t].ptr] = "free"]
  /\ FreeDone(t)
  /\ UNCHANGED <<table, block, arena>>

-----------------------------------------------------------------------------
(* nle_end: the arena leaves the registry, is unmapped, and the context    *)
(* block is freed with no environment anchored.                            *)

\* From now on a pointer into the arena of e is nobody's to free.
GiveBack(t, e) ==
  call' = [u \in Threads |->
    IF u = t THEN [Idle EXCEPT !.at = "remove", !.env = e]
    ELSE [call[u] EXCEPT !.gone = @ \/ call[u].ptr = arena[e]]]

\* Mutant: the arena is unmapped before it leaves the registry.
EndUnmapsFirst(t, e) ==
  /\ At(t, "idle") /\ env[e] \in {"live", "over"}
  /\ env' = [env EXCEPT ![e] = "busy"]
  /\ GiveBack(t, e)
  /\ mem' = [mem EXCEPT ![arena[e]] = "free"]
  /\ UNCHANGED <<table, block, arena, crashed>>

End(t, e) ==
  /\ At(t, "idle") /\ env[e] \in {"live", "over"}
  /\ env' = [env EXCEPT ![e] = "busy"]
  /\ GiveBack(t, e)
  /\ UNCHANGED <<mem, table, block, arena, crashed>>

RemoveLook(t) ==
  /\ At(t, "remove")
  /\ IF Slot(t) = Cap THEN GoTo(t, "unmap")
     ELSE IF base[Slot(t)] = arena[call[t].env] THEN GoTo(t, "remove_size")
     ELSE NextSlot(t, "remove")
  /\ UNCHANGED <<mem, table, envVars, crashed>>

\* Mutant: the slot is given up before its size is reset.
RemoveBaseEarly(t) ==
  /\ At(t, "remove_size")
  /\ base' = [base EXCEPT ![Slot(t)] = Null]
  /\ GoTo(t, "remove_base")
  /\ UNCHANGED <<mem, cap_bytes, hwm, envVars, crashed>>

\* The size is reset first: when the base is NULL the slot is another's.
RemoveSize(t) ==
  /\ At(t, "remove_size")
  /\ cap_bytes' = [cap_bytes EXCEPT ![Slot(t)] = FALSE]
  /\ GoTo(t, "remove_base")
  /\ UNCHANGED <<mem, base, hwm, envVars, crashed>>

RemoveBase(t) ==
  /\ At(t, "remove_base")
  /\ base' = [base EXCEPT ![Slot(t)] = Null]
  /\ GoTo(t, "unmap")
  /\ UNCHANGED <<mem, cap_bytes, hwm, envVars, crashed>>

\* munmap, and then free(nle), which finds a block of libc's heap in no range.
Unmap(t) ==
  LET e == call[t].env IN
  /\ At(t, "unmap")
  /\ mem' = [mem EXCEPT ![arena[e]] = "free"]
  /\ arena' = [arena EXCEPT ![e] = Null]
  /\ block' = [block EXCEPT ![e] = Null]
  /\ IF block[e] = Null
       THEN env' = [env EXCEPT ![e] = "ended"] /\ Return(t)
       ELSE call' = [call EXCEPT ![t] = [@ EXCEPT !.at = "free", !.ptr = block[e]]] /\ UNCHANGED env
  /\ UNCHANGED <<table, crashed>>

-----------------------------------------------------------------------------
Add(t)    == AddLook(t) \/ Overflow(t) \/ AddCas(t) \/ AddSize(t) \/ AddHwm(t) \/ AddHwmCas(t)
Free(t)   == FreeBegin(t) \/ FreeBase(t) \/ FreeSize(t) \/ FreeLibc(t)
Remove(t) == RemoveLook(t) \/ RemoveSize(t) \/ RemoveBase(t) \/ Unmap(t)

Next ==
  /\ ~crashed
  /\ \E t \in Threads :
       \/ \E e \in Envs : Start(t, e) \/ End(t, e) \/ \E d \in Envs : FreeForeign(t, e, d)
       \/ Add(t) \/ Free(t) \/ Remove(t)

Spec == Init /\ [][Next]_vars

-----------------------------------------------------------------------------
(***************************************************************************)
(* Properties                                                              *)
(***************************************************************************)

\* The registry, the contexts and the calls keep their types.
TypeOK ==
  /\ mem \in [Addrs -> {"free", "libc", "arena"}]
  /\ base \in [Slots -> Addrs \cup {Null}] /\ cap_bytes \in [Slots -> BOOLEAN]
  /\ hwm \in 0 .. Cap
  /\ block \in [Envs -> Addrs \cup {Null}] /\ arena \in [Envs -> Addrs \cup {Null}]
  /\ env \in [Envs -> {"new", "busy", "live", "over", "ended"}]
  /\ crashed \in BOOLEAN /\ call \in [Threads -> Call]

\* Once alloc has returned a pointer, its arena is in exactly one slot, with
\* its size and below the high-water mark, whatever other threads add and remove.
LiveArenasListed ==
  \A e \in Envs : env[e] = "live" =>
    \E s \in Slots :
      /\ base[s] = arena[e] /\ cap_bytes[s] /\ s < hwm
      /\ \A r \in Slots : base[r] = arena[e] => r = s

\* A pointer into the arena of another environment never reaches libc's free,
\* unless that environment was ended meanwhile.
ForeignFreeCaught ==
  \A t \in Threads :
    At(t, "free_base") /\ Slot(t) >= call[t].hwm /\ ~call[t].gone
      => mem[call[t].ptr] = "libc"

\* A context block always reaches libc's free: no scan mistakes its address for
\* an arena's, although addresses are reused and a slot is read in two accesses.
BlocksReturned ==
  \A a \in Addrs : mem[a] = "libc" =>
    \/ \E e \in Envs : block[e] = a
    \/ \E t \in Threads : call[t].ptr = a /\ ~call[t].gone
=============================================================================
