------------------------- MODULE ArenaRegistryProofs -------------------------
(***************************************************************************)
(* Proofs about module ArenaRegistry: for any number of threads,           *)
(* environments, addresses and slots, a live arena is found, a pointer     *)
(* into it does not reach libc, and a context block does.                  *)
(***************************************************************************)
EXTENDS ArenaRegistry, TLAPS

Adding(t)   == call[t].at \in {"add", "add_cas", "add_size", "add_hwm", "add_hwm_cas"}
Freeing(t)  == call[t].at \in {"free", "free_base", "free_size"}
Removing(t) == call[t].at \in {"remove", "remove_size", "remove_base", "unmap"}

\* The environment whose call thread t is in.
Of(t) == call[t].env

Unlisted(e) == \A s \in Slots : base[s] # arena[e]
Listed(e)   == \E s \in Slots : base[s] = arena[e] /\ cap_bytes[s] /\ s < hwm

\* A call works for one environment, which no other call touches, and a call
\* that adds or removes its arena frees nothing yet.
CallsInv ==
  \A t \in Threads :
    /\ At(t, "idle") => Of(t) = Null /\ call[t].ptr = Null /\ ~call[t].gone
    /\ ~At(t, "idle") => Of(t) \in Envs /\ env[Of(t)] = "busy"
    /\ \A u \in Threads : Of(t) = Of(u) /\ Of(t) # Null => t = u
    /\ Adding(t) \/ Removing(t) =>
         call[t].ptr = Null /\ ~call[t].gone /\ arena[Of(t)] # Null
    /\ call[t].at \in {"add_cas", "add_size", "add_hwm", "add_hwm_cas",
                       "free_size", "remove_size", "remove_base"} => Slot(t) \in Slots
    /\ At(t, "add_hwm_cas") => call[t].hwm < Slot(t) + 1

\* Arenas and context blocks are mapped, apart from each other, and an
\* environment has a block only while it has an arena.
AddrsInv ==
  /\ \A e \in Envs :
       /\ arena[e] # Null => mem[arena[e]] = "arena"
       /\ block[e] # Null => mem[block[e]] = "libc" /\ arena[e] # Null
       /\ env[e] \in {"new", "ended"} => arena[e] = Null
       /\ env[e] \in {"live", "over"} => arena[e] # Null
  /\ \A d, e \in Envs : (arena[d] = arena[e] /\ arena[d] # Null) => d = e
  /\ \A d, e \in Envs : (block[d] = block[e] /\ block[d] # Null) => d = e

\* The table lists mapped arenas, each once.
TableInv ==
  /\ \A s \in Slots : base[s] # Null => \E e \in Envs : arena[e] = base[s]
  /\ \A r, s \in Slots : (base[r] = base[s] /\ base[r] # Null) => r = s

\* Where the arena of an environment stands in the table, by what is done to it.
ListedInv ==
  /\ \A e \in Envs : env[e] = "live" => Listed(e)
  /\ \A e \in Envs : env[e] = "over" => Unlisted(e)
  /\ \A t \in Threads :
       /\ call[t].at \in {"add", "add_cas", "unmap"} => Unlisted(Of(t))
       /\ call[t].at \in {"add_size", "add_hwm", "add_hwm_cas", "remove_size", "remove_base"}
            => base[Slot(t)] = arena[Of(t)]
       /\ call[t].at \in {"add_hwm", "add_hwm_cas"} => cap_bytes[Slot(t)]
       /\ At(t, "remove") => \A s \in Slots : base[s] = arena[Of(t)] => s >= Slot(t)

\* A call that frees the context block of an environment that has no arena left:
\* the block is its own, and no base it has read is the block's address.
BlockCall(t) ==
  /\ mem[call[t].ptr] = "libc" /\ ~call[t].gone
  /\ \A e \in Envs : block[e] # call[t].ptr
  /\ \A u \in Threads : Freeing(u) /\ arena[Of(u)] = Null /\ call[u].ptr = call[t].ptr => u = t
  /\ At(t, "free_size") => call[t].base # call[t].ptr

\* A call that frees a pointer into a foreign arena which nobody removes: the
\* scan has not passed the arena's slot yet, which is below the mark it loaded.
ForeignCall(t) ==
  /\ \A u \in Threads : Removing(u) => arena[Of(u)] # call[t].ptr
  /\ \E s \in Slots :
       /\ base[s] = call[t].ptr /\ cap_bytes[s]
       /\ s < IF At(t, "free") THEN hwm ELSE call[t].hwm
       /\ ~At(t, "free") => s >= Slot(t)
       /\ At(t, "free_size") /\ s = Slot(t) => call[t].base = call[t].ptr

FreeCall(t) ==
  /\ call[t].ptr \in Addrs
  /\ arena[Of(t)] = Null => BlockCall(t)
  /\ arena[Of(t)] # Null => Listed(Of(t)) /\ (~call[t].gone => ForeignCall(t))

FreesInv == \A t \in Threads : Freeing(t) => FreeCall(t)

\* The inductive invariant.
IInv == TypeOK /\ CallsInv /\ AddrsInv /\ TableInv /\ ListedInv /\ FreesInv /\ BlocksReturned

-----------------------------------------------------------------------------
\* nle_arena_registry_add looks at a slot: the arena stays unlisted.
LEMMA AddLookKeeps ==
  ASSUME IInv, NEW t \in Threads, AddLook(t)
  PROVE  IInv'
<1> USE ArenaAssumption DEF At, GoTo, NextSlot, Return, Slot, Of, table, envVars
<1>0. TypeOK /\ CallsInv /\ AddrsInv /\ TableInv /\ ListedInv /\ FreesInv /\ BlocksReturned
  BY DEF IInv
<1>1. CASE base[Slot(t)] # Null
  <2>1. call[t] \in Call /\ call[t].i + 1 \in 0 .. Cap
    BY <1>0 DEF TypeOK, Call, AddLook
  <2>2. /\ call' = [call EXCEPT ![t] =
               [call[t] EXCEPT !.at = "add", !.i = call[t].i + 1, !.base = Null]]
        /\ At(t, "add")
        /\ UNCHANGED <<mem, table, envVars>>
    BY <1>0, <1>1 DEF AddLook
  <2>3. [call[t] EXCEPT !.at = "add", !.i = call[t].i + 1, !.base = Null] \in Call
    BY <2>1 DEF Call, Idle, Slots
  <2>4. call' \in [Threads -> Call]
    BY <1>0, <2>2, <2>3 DEF TypeOK
  <2>5. TypeOK'
    BY <1>0, <2>4 DEF TypeOK, AddLook
  <2>6. CallsInv'
    BY <1>0, <2>2 DEF CallsInv, Adding, Removing
  <2>7. AddrsInv'
    BY <1>0, <2>2 DEF AddrsInv
  <2>8. TableInv'
    BY <1>0, <2>2 DEF TableInv
  <2>9. ListedInv'
    BY <1>0, <2>2 DEF ListedInv, Listed, Unlisted
  <2>10. FreesInv'
    BY <1>0, <2>2 DEF FreesInv, FreeCall, BlockCall, ForeignCall, Listed, Freeing, Removing
  <2>11. BlocksReturned'
    BY <1>0, <2>2 DEF BlocksReturned
  <2>12. QED
    BY <2>5, <2>6, <2>7, <2>8, <2>9, <2>10, <2>11 DEF IInv
<1>2. CASE base[Slot(t)] = Null
  <2>1. call[t] \in Call /\ call[t].i \in Slots
    BY <1>0 DEF TypeOK, Call, Slots, AddLook
  <2>2. /\ call' = [call EXCEPT ![t].at = "add_cas"]
        /\ At(t, "add")
        /\ UNCHANGED <<mem, table, envVars>>
    BY <1>0, <1>2 DEF AddLook
  <2>3. [call[t] EXCEPT !.at = "add_cas"] \in Call
    BY <2>1 DEF Call
  <2>4. call' \in [Threads -> Call]
    BY <1>0, <2>2, <2>3 DEF TypeOK
  <2>5. TypeOK'
    BY <1>0, <2>4 DEF TypeOK, AddLook
  <2>6. CallsInv'
    BY <1>0, <2>1, <2>2 DEF CallsInv, Adding, Removing
  <2>7. AddrsInv'
    BY <1>0, <2>2 DEF AddrsInv
  <2>8. TableInv'
    BY <1>0, <2>2 DEF TableInv
  <2>9. ListedInv'
    BY <1>0, <2>2 DEF ListedInv, Listed, Unlisted
  <2>10. FreesInv'
    BY <1>0, <2>1, <2>2 DEF FreesInv, FreeCall, BlockCall, ForeignCall, Listed, Freeing,
       Removing
  <2>11. BlocksReturned'
    BY <1>0, <2>2 DEF BlocksReturned
  <2>12. QED
    BY <2>5, <2>6, <2>7, <2>8, <2>9, <2>10, <2>11 DEF IInv
<1>3. QED BY <1>1, <1>2

\* A full table: the game is over, its arena unlisted.
LEMMA OverflowKeeps ==
  ASSUME IInv, NEW t \in Threads, Overflow(t)
  PROVE  IInv'
<1> USE ArenaAssumption DEF At, GoTo, NextSlot, Return, Slot, Of, table, envVars
<1>0. TypeOK /\ CallsInv /\ AddrsInv /\ TableInv /\ ListedInv /\ FreesInv /\ BlocksReturned
  BY DEF IInv
<1>1. call[t] \in Call /\ Of(t) \in Envs
  BY <1>0 DEF TypeOK, CallsInv, Overflow
<1>2. /\ call' = [call EXCEPT ![t] = Idle]
      /\ At(t, "add")
      /\ env' = [env EXCEPT ![Of(t)] = "over"]
      /\ UNCHANGED <<mem, table, block, arena>>
  BY <1>0 DEF Overflow
<1>3. Idle \in Call
  BY DEF Call, Idle
<1>4. call' \in [Threads -> Call]
  BY <1>0, <1>2, <1>3 DEF TypeOK
<1>5. /\ \A u \in Threads : u # t => call'[u] = call[u]
      /\ call'[t].at = "idle" /\ call'[t].env = Null /\ call'[t].i = 0 /\ call'[t].hwm = 0
      /\ call'[t].base = Null /\ call'[t].ptr = Null /\ call'[t].gone = FALSE
  BY <1>0, <1>2 DEF TypeOK, Idle
<1>6. TypeOK'
  BY <1>0, <1>1, <1>4 DEF TypeOK, Overflow
<1>7. CallsInv'
  BY <1>0, <1>2, <1>5 DEF CallsInv, Adding, Removing
<1>8. AddrsInv'
  BY <1>0, <1>2 DEF AddrsInv, CallsInv, Adding
<1>9. TableInv'
  BY <1>0, <1>2 DEF TableInv
<1>10. ListedInv'
  BY <1>0, <1>2, <1>5 DEF ListedInv, Listed, Unlisted
<1>11. FreesInv'
  BY <1>0, <1>2, <1>5 DEF FreesInv, FreeCall, BlockCall, ForeignCall, Listed, Freeing,
     Removing
<1>12. BlocksReturned'
  BY <1>0, <1>2 DEF BlocksReturned, CallsInv, Adding
<1>13. QED
  BY <1>6, <1>7, <1>8, <1>9, <1>10, <1>11, <1>12 DEF IInv

\* The compare-and-swap lists an arena that was in no slot, in an empty one.
LEMMA AddCasKeeps ==
  ASSUME IInv, NEW t \in Threads, AddCas(t)
  PROVE  IInv'
<1> USE ArenaAssumption DEF At, GoTo, NextSlot, Return, Slot, Of, table, envVars
<1>0. TypeOK /\ CallsInv /\ AddrsInv /\ TableInv /\ ListedInv /\ FreesInv /\ BlocksReturned
  BY DEF IInv
<1>1. CASE base[Slot(t)] = Null
  <2>1. call[t] \in Call /\ call[t].i \in Slots /\ Of(t) \in Envs
    BY <1>0 DEF TypeOK, CallsInv, AddCas
  <2>2. /\ call' = [call EXCEPT ![t].at = "add_size"]
        /\ At(t, "add_cas")
        /\ base' = [base EXCEPT ![Slot(t)] = arena[Of(t)]]
        /\ UNCHANGED <<mem, cap_bytes, hwm, envVars>>
    BY <1>0, <1>1 DEF AddCas
  <2>3. [call[t] EXCEPT !.at = "add_size"] \in Call
    BY <2>1 DEF Call
  <2>4. call' \in [Threads -> Call]
    BY <1>0, <2>2, <2>3 DEF TypeOK
  <2>5. /\ \A u \in Threads : u # t => call'[u] = call[u]
        /\ call'[t].at = "add_size" /\ call'[t].env = call[t].env
        /\ call'[t].i = call[t].i /\ call'[t].hwm = call[t].hwm
        /\ call'[t].base = call[t].base /\ call'[t].ptr = call[t].ptr /\ call'[t].gone = call[t].gone
    BY <1>0, <2>2 DEF TypeOK
  <2>6. TypeOK'
    BY <1>0, <2>1, <2>4, <1>1 DEF TypeOK, AddCas
  <2>7. CallsInv'
    BY <1>0, <2>2 DEF CallsInv, Adding, Removing
  <2>8. AddrsInv'
    BY <1>0, <2>2 DEF AddrsInv
  <2>9. TableInv'
    BY <1>0, <2>2 DEF TableInv, ListedInv, Unlisted, CallsInv
  <2>10. ListedInv'
    BY <1>0, <2>2, <1>1 DEF TypeOK, ListedInv, Listed, Unlisted, CallsInv, AddrsInv, Adding,
       Removing
  <2>11. FreesInv'
    BY <1>0, <2>1, <2>2, <2>5, <2>6, <1>1 DEF TypeOK, FreesInv, FreeCall, BlockCall,
       ForeignCall, Listed, Freeing, Removing, Adding, CallsInv, AddrsInv, TableInv,
       ListedInv, Slots
  <2>12. BlocksReturned'
    BY <1>0, <2>2 DEF BlocksReturned
  <2>13. QED
    BY <2>6, <2>7, <2>8, <2>9, <2>10, <2>11, <2>12 DEF IInv
<1>2. CASE base[Slot(t)] # Null
  <2>1. call[t] \in Call /\ call[t].i + 1 \in 0 .. Cap
    BY <1>0 DEF TypeOK, CallsInv, Slots, AddCas
  <2>2. /\ call' = [call EXCEPT ![t] =
               [call[t] EXCEPT !.at = "add", !.i = call[t].i + 1, !.base = Null]]
        /\ At(t, "add_cas")
        /\ UNCHANGED <<mem, table, envVars>>
    BY <1>0, <1>2 DEF AddCas
  <2>3. [call[t] EXCEPT !.at = "add", !.i = call[t].i + 1, !.base = Null] \in Call
    BY <2>1 DEF Call, Idle, Slots
  <2>4. call' \in [Threads -> Call]
    BY <1>0, <2>2, <2>3 DEF TypeOK
  <2>5. TypeOK'
    BY <1>0, <2>4, <1>2 DEF TypeOK, AddCas
  <2>6. CallsInv'
    BY <1>0, <2>2 DEF CallsInv, Adding, Removing
  <2>7. AddrsInv'
    BY <1>0, <2>2 DEF AddrsInv
  <2>8. TableInv'
    BY <1>0, <2>2 DEF TableInv
  <2>9. ListedInv'
    BY <1>0, <2>2 DEF ListedInv, Listed, Unlisted
  <2>10. FreesInv'
    BY <1>0, <2>2 DEF FreesInv, FreeCall, BlockCall, ForeignCall, Listed, Freeing, Removing
  <2>11. BlocksReturned'
    BY <1>0, <2>2 DEF BlocksReturned
  <2>12. QED
    BY <2>5, <2>6, <2>7, <2>8, <2>9, <2>10, <2>11 DEF IInv
<1>3. QED BY <1>1, <1>2

\* The size is stored in the slot of the caller's own arena.
LEMMA AddSizeKeeps ==
  ASSUME IInv, NEW t \in Threads, AddSize(t)
  PROVE  IInv'
<1> USE ArenaAssumption DEF At, GoTo, NextSlot, Return, Slot, Of, table, envVars
<1>0. TypeOK /\ CallsInv /\ AddrsInv /\ TableInv /\ ListedInv /\ FreesInv /\ BlocksReturned
  BY DEF IInv
<1>1. call[t] \in Call /\ call[t].i \in Slots
  BY <1>0 DEF TypeOK, CallsInv, AddSize
<1>2. /\ call' = [call EXCEPT ![t].at = "add_hwm"]
      /\ At(t, "add_size")
      /\ cap_bytes' = [cap_bytes EXCEPT ![Slot(t)] = TRUE]
      /\ UNCHANGED <<mem, base, hwm, envVars>>
  BY <1>0 DEF AddSize
<1>3. [call[t] EXCEPT !.at = "add_hwm"] \in Call
  BY <1>1 DEF Call
<1>4. call' \in [Threads -> Call]
  BY <1>0, <1>2, <1>3 DEF TypeOK
<1>5. TypeOK'
  BY <1>0, <1>1, <1>4 DEF TypeOK, AddSize
<1>6. CallsInv'
  BY <1>0, <1>2 DEF CallsInv, Adding, Removing
<1>7. AddrsInv'
  BY <1>0, <1>2 DEF AddrsInv
<1>8. TableInv'
  BY <1>0, <1>2 DEF TableInv
<1>9. ListedInv'
  BY <1>0, <1>2 DEF TypeOK, ListedInv, Listed, Unlisted, CallsInv
<1>10. FreesInv'
  BY <1>0, <1>2 DEF FreesInv, FreeCall, BlockCall, ForeignCall, Listed, Freeing, Removing
<1>11. BlocksReturned'
  BY <1>0, <1>2 DEF BlocksReturned
<1>12. QED
  BY <1>5, <1>6, <1>7, <1>8, <1>9, <1>10, <1>11 DEF IInv

\* The high-water mark is read, and left alone when it covers the slot.
LEMMA AddHwmKeeps ==
  ASSUME IInv, NEW t \in Threads, AddHwm(t)
  PROVE  IInv'
<1> USE ArenaAssumption DEF At, GoTo, NextSlot, Return, Slot, Of, table, envVars
<1>0. TypeOK /\ CallsInv /\ AddrsInv /\ TableInv /\ ListedInv /\ FreesInv /\ BlocksReturned
  BY DEF IInv
<1>1. CASE Slot(t) + 1 <= hwm
  <2>1. call[t] \in Call /\ call[t].i \in Slots /\ Of(t) \in Envs
    BY <1>0 DEF TypeOK, CallsInv, AddHwm
  <2>2. /\ call' = [call EXCEPT ![t] = Idle]
        /\ At(t, "add_hwm")
        /\ env' = [env EXCEPT ![Of(t)] = "live"]
        /\ UNCHANGED <<mem, table, block, arena>>
    BY <1>0, <1>1 DEF AddHwm, AddDone
  <2>3. Idle \in Call
    BY DEF Call, Idle
  <2>4. call' \in [Threads -> Call]
    BY <1>0, <2>2, <2>3 DEF TypeOK
  <2>5. /\ \A u \in Threads : u # t => call'[u] = call[u]
        /\ call'[t].at = "idle" /\ call'[t].env = Null /\ call'[t].i = 0 /\ call'[t].hwm = 0
        /\ call'[t].base = Null /\ call'[t].ptr = Null /\ call'[t].gone = FALSE
    BY <1>0, <2>2 DEF TypeOK, Idle
  <2>6. TypeOK'
    BY <1>0, <2>4 DEF TypeOK, AddHwm, AddDone
  <2>7. CallsInv'
    BY <1>0, <2>2, <2>5 DEF CallsInv, Adding, Removing
  <2>8. AddrsInv'
    BY <1>0, <2>2 DEF AddrsInv, CallsInv, Adding
  <2>9. TableInv'
    BY <1>0, <2>2 DEF TableInv
  <2>10. ListedInv'
    BY <1>0, <2>1, <2>2, <2>5, <2>6, <1>1 DEF TypeOK, ListedInv, Listed, Unlisted, CallsInv,
       AddrsInv, TableInv, Adding, Removing, FreesInv, FreeCall, Freeing, Slots
  <2>11. FreesInv'
    BY <1>0, <2>2, <2>5 DEF FreesInv, FreeCall, BlockCall, ForeignCall, Listed, Freeing,
       Removing
  <2>12. BlocksReturned'
    BY <1>0, <2>2 DEF BlocksReturned, CallsInv, Adding
  <2>13. QED
    BY <2>6, <2>7, <2>8, <2>9, <2>10, <2>11, <2>12 DEF IInv
<1>2. CASE ~(Slot(t) + 1 <= hwm)
  <2>1. call[t] \in Call /\ call[t].i \in Slots /\ hwm \in 0 .. Cap
    BY <1>0 DEF TypeOK, CallsInv, AddHwm
  <2>2. /\ call' = [call EXCEPT ![t] = [call[t] EXCEPT !.at = "add_hwm_cas", !.hwm = hwm]]
        /\ At(t, "add_hwm")
        /\ UNCHANGED <<mem, table, envVars>>
    BY <1>0, <1>2 DEF AddHwm
  <2>3. [call[t] EXCEPT !.at = "add_hwm_cas", !.hwm = hwm] \in Call
    BY <2>1 DEF Call, Idle, Slots
  <2>4. call' \in [Threads -> Call]
    BY <1>0, <2>2, <2>3 DEF TypeOK
  <2>5. TypeOK'
    BY <1>0, <2>4 DEF TypeOK, AddHwm, AddDone
  <2>6. CallsInv'
    BY <1>0, <2>2, <1>2 DEF TypeOK, CallsInv, Adding, Removing, Slots
  <2>7. AddrsInv'
    BY <1>0, <2>2 DEF AddrsInv
  <2>8. TableInv'
    BY <1>0, <2>2 DEF TableInv
  <2>9. ListedInv'
    BY <1>0, <2>2 DEF ListedInv, Listed, Unlisted
  <2>10. FreesInv'
    BY <1>0, <2>2 DEF FreesInv, FreeCall, BlockCall, ForeignCall, Listed, Freeing, Removing
  <2>11. BlocksReturned'
    BY <1>0, <2>2 DEF BlocksReturned
  <2>12. QED
    BY <2>5, <2>6, <2>7, <2>8, <2>9, <2>10, <2>11 DEF IInv
<1>3. QED BY <1>1, <1>2

\* Once the exchange succeeds the mark covers the slot, and the arena is listed.
LEMMA AddHwmCasKeeps ==
  ASSUME IInv, NEW t \in Threads, AddHwmCas(t)
  PROVE  IInv'
<1> USE ArenaAssumption DEF At, GoTo, NextSlot, Return, Slot, Of, table, envVars
<1>0. TypeOK /\ CallsInv /\ AddrsInv /\ TableInv /\ ListedInv /\ FreesInv /\ BlocksReturned
  BY DEF IInv
<1>1. CASE hwm = call[t].hwm
  <2>1. call[t] \in Call /\ call[t].i \in Slots /\ Of(t) \in Envs
    BY <1>0 DEF TypeOK, CallsInv, AddHwmCas
  <2>2. /\ call' = [call EXCEPT ![t] = Idle]
        /\ At(t, "add_hwm_cas")
        /\ hwm' = Slot(t) + 1
        /\ env' = [env EXCEPT ![Of(t)] = "live"]
        /\ UNCHANGED <<mem, base, cap_bytes, block, arena, crashed>>
    BY <1>0, <1>1 DEF AddHwmCas, AddDone
  <2>3. Idle \in Call
    BY DEF Call, Idle
  <2>4. call' \in [Threads -> Call]
    BY <1>0, <2>2, <2>3 DEF TypeOK
  <2>5. /\ \A u \in Threads : u # t => call'[u] = call[u]
        /\ call'[t].at = "idle" /\ call'[t].env = Null /\ call'[t].i = 0 /\ call'[t].hwm = 0
        /\ call'[t].base = Null /\ call'[t].ptr = Null /\ call'[t].gone = FALSE
    BY <1>0, <2>2 DEF TypeOK, Idle
  <2>6. TypeOK'
    BY <1>0, <2>1, <2>4, <2>2 DEF TypeOK, Slots
  <2>7. CallsInv'
    BY <1>0, <2>2, <2>5 DEF CallsInv, Adding, Removing
  <2>8. AddrsInv'
    BY <1>0, <2>2 DEF AddrsInv, CallsInv, Adding
  <2>9. TableInv'
    BY <1>0, <2>2 DEF TableInv
  <2>10. ListedInv'
    BY <1>0, <2>2, <2>5, <2>6, <1>1 DEF TypeOK, ListedInv, Listed, Unlisted, CallsInv,
       Adding, FreesInv, Slots
  <2>11. FreesInv'
    BY <1>0, <2>1, <2>2, <2>5, <2>6, <1>1 DEF TypeOK, FreesInv, FreeCall, BlockCall,
       ForeignCall, Listed, Freeing, Removing, Adding, CallsInv, ListedInv, Slots
  <2>12. BlocksReturned'
    BY <1>0, <2>2 DEF BlocksReturned, CallsInv, Adding
  <2>13. QED
    BY <2>6, <2>7, <2>8, <2>9, <2>10, <2>11, <2>12 DEF IInv
<1>2. CASE hwm # call[t].hwm
  <2>1. call[t] \in Call /\ call[t].i \in Slots
    BY <1>0 DEF TypeOK, CallsInv, AddHwmCas
  <2>2. /\ call' = [call EXCEPT ![t].at = "add_hwm"]
        /\ At(t, "add_hwm_cas")
        /\ UNCHANGED <<mem, table, envVars, crashed>>
    BY <1>0, <1>2 DEF AddHwmCas
  <2>3. [call[t] EXCEPT !.at = "add_hwm"] \in Call
    BY <2>1 DEF Call
  <2>4. call' \in [Threads -> Call]
    BY <1>0, <2>2, <2>3 DEF TypeOK
  <2>5. TypeOK'
    BY <1>0, <2>4, <2>2 DEF TypeOK
  <2>6. CallsInv'
    BY <1>0, <2>2 DEF CallsInv, Adding, Removing
  <2>7. AddrsInv'
    BY <1>0, <2>2 DEF AddrsInv
  <2>8. TableInv'
    BY <1>0, <2>2 DEF TableInv
  <2>9. ListedInv'
    BY <1>0, <2>2 DEF ListedInv, Listed, Unlisted
  <2>10. FreesInv'
    BY <1>0, <2>2 DEF FreesInv, FreeCall, BlockCall, ForeignCall, Listed, Freeing, Removing
  <2>11. BlocksReturned'
    BY <1>0, <2>2 DEF BlocksReturned
  <2>12. QED
    BY <2>5, <2>6, <2>7, <2>8, <2>9, <2>10, <2>11 DEF IInv
<1>3. QED BY <1>1, <1>2

\* A pointer into a listed arena is taken: its slot lies below the mark.
LEMMA FreeForeignKeeps ==
  ASSUME IInv, NEW t \in Threads, NEW e \in Envs, NEW d \in Envs, FreeForeign(t, e, d)
  PROVE  IInv'
<1> USE ArenaAssumption DEF At, GoTo, NextSlot, Return, Slot, Of, table, envVars
<1>0. TypeOK /\ CallsInv /\ AddrsInv /\ TableInv /\ ListedInv /\ FreesInv /\ BlocksReturned
  BY DEF IInv
<1>1. call[t] \in Call /\ arena[d] \in Addrs
  BY <1>0 DEF TypeOK, FreeForeign, AddrsInv
<1>2. /\ call' = [call EXCEPT ![t] = [call[t] EXCEPT !.at = "free", !.env = e, !.ptr = arena[d]]]
      /\ At(t, "idle")
      /\ env[e] = "live" /\ env[d] = "live" /\ d # e
      /\ env' = [env EXCEPT ![e] = "busy"]
      /\ UNCHANGED <<mem, table, block, arena>>
  BY <1>0 DEF FreeForeign
<1>3. [call[t] EXCEPT !.at = "free", !.env = e, !.ptr = arena[d]] \in Call
  BY <1>1 DEF Call, Idle, Slots
<1>4. call' \in [Threads -> Call]
  BY <1>0, <1>2, <1>3 DEF TypeOK
<1>5. TypeOK'
  BY <1>0, <1>4 DEF TypeOK, FreeForeign
<1>6. CallsInv'
  BY <1>0, <1>2 DEF TypeOK, CallsInv, Adding, Removing
<1>7. AddrsInv'
  BY <1>0, <1>2 DEF AddrsInv
<1>8. TableInv'
  BY <1>0, <1>2 DEF TableInv
<1>9. ListedInv'
  BY <1>0, <1>2 DEF ListedInv, Listed, Unlisted
<1>10. FreesInv'
  BY <1>0, <1>2 DEF TypeOK, FreesInv, FreeCall, BlockCall, ForeignCall, Listed, Freeing,
     Removing, CallsInv, AddrsInv, ListedInv
<1>11. BlocksReturned'
  BY <1>0, <1>2 DEF BlocksReturned, CallsInv
<1>12. QED
  BY <1>5, <1>6, <1>7, <1>8, <1>9, <1>10, <1>11 DEF IInv

\* The scan loads the mark, which covers the slot it looks for.
LEMMA FreeBeginKeeps ==
  ASSUME IInv, NEW t \in Threads, FreeBegin(t)
  PROVE  IInv'
<1> USE ArenaAssumption DEF At, GoTo, NextSlot, Return, Slot, Of, table, envVars
<1>0. TypeOK /\ CallsInv /\ AddrsInv /\ TableInv /\ ListedInv /\ FreesInv /\ BlocksReturned
  BY DEF IInv
<1>1. call[t] \in Call /\ hwm \in 0 .. Cap /\ 0 \in 0 .. Cap
  BY <1>0 DEF TypeOK
<1>2. /\ call' = [call EXCEPT ![t] = [call[t] EXCEPT !.at = "free_base", !.hwm = hwm, !.i = 0]]
      /\ At(t, "free")
      /\ UNCHANGED <<mem, table, envVars>>
  BY <1>0 DEF FreeBegin
<1>3. [call[t] EXCEPT !.at = "free_base", !.hwm = hwm, !.i = 0] \in Call
  BY <1>1 DEF Call, Idle, Slots
<1>4. call' \in [Threads -> Call]
  BY <1>0, <1>2, <1>3 DEF TypeOK
<1>5. /\ \A u \in Threads : u # t => call'[u] = call[u]
      /\ call'[t].at = "free_base" /\ call'[t].env = call[t].env
      /\ call'[t].i = 0 /\ call'[t].hwm = hwm
      /\ call'[t].base = call[t].base /\ call'[t].ptr = call[t].ptr /\ call'[t].gone = call[t].gone
  BY <1>0, <1>2 DEF TypeOK
<1>6. TypeOK'
  BY <1>0, <1>4 DEF TypeOK, FreeBegin
<1>7. CallsInv'
  BY <1>0, <1>2 DEF CallsInv, Adding, Removing
<1>8. AddrsInv'
  BY <1>0, <1>2 DEF AddrsInv
<1>9. TableInv'
  BY <1>0, <1>2 DEF TableInv
<1>10. ListedInv'
  BY <1>0, <1>2 DEF ListedInv, Listed, Unlisted
<1>11. FreesInv'
  <2>1. FreeCall(t) /\ Freeing(t) /\ call'[t].i = 0 /\ call'[t].hwm = hwm
    BY <1>0, <1>2, <1>5 DEF FreesInv, Freeing
  <2>2. \A w \in Threads : Removing(w)' => Removing(w) /\ call'[w] = call[w]
    BY <1>5 DEF Removing
  <2>3. ASSUME NEW u \in Threads, u # t, Freeing(u)' PROVE FreeCall(u)'
    <3>1. call'[u] = call[u] /\ Freeing(u) /\ FreeCall(u)
      BY <1>0, <1>5, <2>3 DEF FreesInv, Freeing
    <3>2. BlockCall(u) => BlockCall(u)'
      BY <1>0, <1>2 DEF BlockCall, Freeing
    <3>3. ForeignCall(u) => ForeignCall(u)'
      BY <1>2, <2>2, <3>1 DEF ForeignCall
    <3>4. QED BY <1>2, <3>1, <3>2, <3>3 DEF FreeCall, Listed
  <2>4. arena[Of(t)] = Null => BlockCall(t)'
    BY <1>0, <1>2, <2>1 DEF FreeCall, BlockCall, Freeing
  <2>5. ForeignCall(t) => ForeignCall(t)'
    <3>1. SUFFICES ASSUME ForeignCall(t) PROVE ForeignCall(t)'
      OBVIOUS
    <3>2. PICK s \in Slots : base[s] = call[t].ptr /\ cap_bytes[s] /\ s < hwm
      BY <1>2, <3>1 DEF ForeignCall
    <3>3. s >= 0
      BY DEF Slots
    <3>4. QED BY <1>2, <2>2, <3>1, <3>2, <3>3 DEF ForeignCall
  <2>6. FreeCall(t)'
    BY <1>2, <2>1, <2>4, <2>5 DEF FreeCall, Listed
  <2>7. QED BY <2>3, <2>6 DEF FreesInv
<1>12. BlocksReturned'
  BY <1>0, <1>2 DEF BlocksReturned
<1>13. QED
  BY <1>6, <1>7, <1>8, <1>9, <1>10, <1>11, <1>12 DEF IInv

\* The base of the arena's slot is read as it is: only an empty slot is passed over.
LEMMA FreeBaseKeeps ==
  ASSUME IInv, NEW t \in Threads, FreeBase(t)
  PROVE  IInv'
<1> USE ArenaAssumption DEF At, GoTo, NextSlot, Return, Slot, Of, table, envVars
<1>0. TypeOK /\ CallsInv /\ AddrsInv /\ TableInv /\ ListedInv /\ FreesInv /\ BlocksReturned
  BY DEF IInv
<1>1. CASE base[Slot(t)] = Null
  <2>1. call[t] \in Call /\ call[t].i \in Slots /\ call[t].i + 1 \in 0 .. Cap
    BY <1>0 DEF TypeOK, Call, Slots, FreeBase
  <2>2. /\ call' = [call EXCEPT ![t] =
               [call[t] EXCEPT !.at = "free_base", !.i = call[t].i + 1, !.base = Null]]
        /\ At(t, "free_base")
        /\ UNCHANGED <<mem, table, envVars>>
    BY <1>0, <1>1 DEF FreeBase
  <2>3. [call[t] EXCEPT !.at = "free_base", !.i = call[t].i + 1, !.base = Null] \in Call
    BY <2>1 DEF Call, Idle, Slots
  <2>4. call' \in [Threads -> Call]
    BY <1>0, <2>2, <2>3 DEF TypeOK
  <2>5. /\ \A u \in Threads : u # t => call'[u] = call[u]
        /\ call'[t].at = "free_base" /\ call'[t].env = call[t].env
        /\ call'[t].i = call[t].i + 1 /\ call'[t].hwm = call[t].hwm
        /\ call'[t].base = Null /\ call'[t].ptr = call[t].ptr /\ call'[t].gone = call[t].gone
    BY <1>0, <2>2 DEF TypeOK
  <2>6. TypeOK'
    BY <1>0, <2>4 DEF TypeOK, FreeBase
  <2>7. CallsInv'
    BY <1>0, <2>2 DEF CallsInv, Adding, Removing
  <2>8. AddrsInv'
    BY <1>0, <2>2 DEF AddrsInv
  <2>9. TableInv'
    BY <1>0, <2>2 DEF TableInv
  <2>10. ListedInv'
    BY <1>0, <2>2 DEF ListedInv, Listed, Unlisted
  <2>11. FreesInv'
    <3>1. FreeCall(t) /\ Freeing(t)
      BY <1>0, <2>2 DEF FreesInv, Freeing
    <3>2. ASSUME NEW u \in Threads, u # t, Freeing(u)' PROVE FreeCall(u)'
      <4>1. call'[u] = call[u] /\ Freeing(u) /\ FreeCall(u)
        BY <1>0, <2>5, <3>2 DEF FreesInv, Freeing
      <4>2. BlockCall(u) => BlockCall(u)'
        BY <1>0, <2>2 DEF BlockCall, Freeing
      <4>3. ForeignCall(u) => ForeignCall(u)'
        <5>1. \A w \in Threads : Removing(w)' => Removing(w) /\ call'[w] = call[w]
          BY <2>5 DEF Removing
        <5>2. UNCHANGED <<arena, base, cap_bytes, hwm>>
          BY <2>2
        <5>3. QED BY <4>1, <5>1, <5>2 DEF ForeignCall
      <4>4. QED BY <2>2, <4>1, <4>2, <4>3 DEF FreeCall, Listed
    <3>3. arena[Of(t)] = Null => BlockCall(t)'
      BY <1>0, <2>2, <3>1 DEF FreeCall, BlockCall, Freeing
    <3>4. ForeignCall(t) => ForeignCall(t)'
      <4>1. SUFFICES ASSUME ForeignCall(t) PROVE ForeignCall(t)'
        OBVIOUS
      <4>2. PICK s \in Slots : base[s] = call[t].ptr /\ cap_bytes[s]
                               /\ s < call[t].hwm /\ s >= Slot(t)
        BY <2>2, <4>1 DEF ForeignCall
      <4>3. s >= Slot(t) + 1
        BY <1>0, <1>1, <2>1, <3>1, <4>2 DEF FreeCall, Slots
      <4>4. QED BY <1>0, <2>2, <4>1, <4>2, <4>3 DEF ForeignCall, Removing
    <3>5. FreeCall(t)'
      BY <2>2, <3>1, <3>3, <3>4 DEF FreeCall, Listed
    <3>6. QED BY <3>2, <3>5 DEF FreesInv
  <2>12. BlocksReturned'
    BY <1>0, <2>2 DEF BlocksReturned
  <2>13. QED
    BY <2>6, <2>7, <2>8, <2>9, <2>10, <2>11, <2>12 DEF IInv
<1>2. CASE base[Slot(t)] # Null
  <2>1. call[t] \in Call /\ call[t].i \in Slots /\ base[Slot(t)] \in Addrs
    BY <1>0, <1>2 DEF TypeOK, Call, Slots, FreeBase
  <2>2. /\ call' = [call EXCEPT ![t] = [call[t] EXCEPT !.at = "free_size", !.base = base[Slot(t)]]]
        /\ At(t, "free_base")
        /\ UNCHANGED <<mem, table, envVars>>
    BY <1>0, <1>2 DEF FreeBase
  <2>3. [call[t] EXCEPT !.at = "free_size", !.base = base[Slot(t)]] \in Call
    BY <2>1 DEF Call, Idle, Slots
  <2>4. call' \in [Threads -> Call]
    BY <1>0, <2>2, <2>3 DEF TypeOK
  <2>5. TypeOK'
    BY <1>0, <2>4 DEF TypeOK, FreeBase
  <2>6. CallsInv'
    BY <1>0, <2>1, <2>2 DEF CallsInv, Adding, Removing
  <2>7. AddrsInv'
    BY <1>0, <2>2 DEF AddrsInv
  <2>8. TableInv'
    BY <1>0, <2>2 DEF TableInv
  <2>9. ListedInv'
    BY <1>0, <2>2 DEF ListedInv, Listed, Unlisted
  <2>10. FreesInv'
    BY <1>0, <2>1, <2>2 DEF FreesInv, FreeCall, BlockCall, ForeignCall, Listed, Freeing,
       Removing, AddrsInv, TableInv
  <2>11. BlocksReturned'
    BY <1>0, <2>2 DEF BlocksReturned
  <2>12. QED
    BY <2>5, <2>6, <2>7, <2>8, <2>9, <2>10, <2>11 DEF IInv
<1>3. QED BY <1>1, <1>2

\* At the slot of the pointer's arena base and size agree: the pointer is caught.
LEMMA FreeSizeKeeps ==
  ASSUME IInv, NEW t \in Threads, FreeSize(t)
  PROVE  IInv'
<1> USE ArenaAssumption DEF At, GoTo, NextSlot, Return, Slot, Of, table, envVars
<1>0. TypeOK /\ CallsInv /\ AddrsInv /\ TableInv /\ ListedInv /\ FreesInv /\ BlocksReturned
  BY DEF IInv
<1>1. CASE call[t].base = call[t].ptr /\ cap_bytes[Slot(t)]
  <2>1. call[t] \in Call /\ call[t].i \in Slots /\ Of(t) \in Envs
    BY <1>0 DEF TypeOK, CallsInv, FreeSize
  <2>2. /\ call' = [call EXCEPT ![t] = Idle]
        /\ At(t, "free_size")
        /\ env' = [env EXCEPT ![Of(t)] = IF arena[Of(t)] = Null THEN "ended" ELSE "live"]
        /\ UNCHANGED <<mem, table, block, arena>>
    BY <1>0, <1>1 DEF FreeSize, FreeDone
  <2>3. Idle \in Call
    BY DEF Call, Idle
  <2>4. call' \in [Threads -> Call]
    BY <1>0, <2>2, <2>3 DEF TypeOK
  <2>5. /\ \A u \in Threads : u # t => call'[u] = call[u]
        /\ call'[t].at = "idle" /\ call'[t].env = Null /\ call'[t].i = 0 /\ call'[t].hwm = 0
        /\ call'[t].base = Null /\ call'[t].ptr = Null /\ call'[t].gone = FALSE
    BY <1>0, <2>2 DEF TypeOK, Idle
  <2>6. TypeOK'
    BY <1>0, <2>4 DEF TypeOK, FreeSize, FreeDone
  <2>7. CallsInv'
    BY <1>0, <2>2, <2>5 DEF CallsInv, Adding, Removing
  <2>8. AddrsInv'
    BY <1>0, <2>2 DEF AddrsInv
  <2>9. TableInv'
    BY <1>0, <2>2 DEF TableInv
  <2>10. ListedInv'
    BY <1>0, <2>2, <2>5 DEF ListedInv, Listed, Unlisted, FreesInv, FreeCall, Freeing
  <2>11. FreesInv'
    BY <1>0, <2>2, <2>5 DEF FreesInv, FreeCall, BlockCall, ForeignCall, Listed, Freeing,
       Removing
  <2>12. BlocksReturned'
    BY <1>0, <2>2, <1>1 DEF BlocksReturned, AddrsInv, TableInv, FreesInv, Freeing, FreeCall,
       BlockCall, ForeignCall
  <2>13. QED
    BY <2>6, <2>7, <2>8, <2>9, <2>10, <2>11, <2>12 DEF IInv
<1>2. CASE ~(call[t].base = call[t].ptr /\ cap_bytes[Slot(t)])
  <2>1. call[t] \in Call /\ call[t].i \in Slots /\ call[t].i + 1 \in 0 .. Cap
    BY <1>0 DEF TypeOK, CallsInv, Slots, FreeSize
  <2>2. /\ call' = [call EXCEPT ![t] =
               [call[t] EXCEPT !.at = "free_base", !.i = call[t].i + 1, !.base = Null]]
        /\ At(t, "free_size")
        /\ UNCHANGED <<mem, table, envVars>>
    BY <1>0, <1>2 DEF FreeSize
  <2>3. [call[t] EXCEPT !.at = "free_base", !.i = call[t].i + 1, !.base = Null] \in Call
    BY <2>1 DEF Call, Idle, Slots
  <2>4. call' \in [Threads -> Call]
    BY <1>0, <2>2, <2>3 DEF TypeOK
  <2>5. /\ \A u \in Threads : u # t => call'[u] = call[u]
        /\ call'[t].at = "free_base" /\ call'[t].env = call[t].env
        /\ call'[t].i = call[t].i + 1 /\ call'[t].hwm = call[t].hwm
        /\ call'[t].base = Null /\ call'[t].ptr = call[t].ptr /\ call'[t].gone = call[t].gone
    BY <1>0, <2>2 DEF TypeOK
  <2>6. TypeOK'
    BY <1>0, <2>4 DEF TypeOK, FreeSize, FreeDone
  <2>7. CallsInv'
    BY <1>0, <2>2 DEF CallsInv, Adding, Removing
  <2>8. AddrsInv'
    BY <1>0, <2>2 DEF AddrsInv
  <2>9. TableInv'
    BY <1>0, <2>2 DEF TableInv
  <2>10. ListedInv'
    BY <1>0, <2>2 DEF ListedInv, Listed, Unlisted
  <2>11. FreesInv'
    <3>1. FreeCall(t) /\ Freeing(t)
      BY <1>0, <2>2 DEF FreesInv, Freeing
    <3>2. ASSUME NEW u \in Threads, u # t, Freeing(u)' PROVE FreeCall(u)'
      <4>1. call'[u] = call[u] /\ Freeing(u) /\ FreeCall(u)
        BY <1>0, <2>5, <3>2 DEF FreesInv, Freeing
      <4>2. BlockCall(u) => BlockCall(u)'
        BY <1>0, <2>2 DEF BlockCall, Freeing
      <4>3. ForeignCall(u) => ForeignCall(u)'
        <5>1. \A w \in Threads : Removing(w)' => Removing(w) /\ call'[w] = call[w]
          BY <2>5 DEF Removing
        <5>2. UNCHANGED <<arena, base, cap_bytes, hwm>>
          BY <2>2
        <5>3. QED BY <4>1, <5>1, <5>2 DEF ForeignCall
      <4>4. QED BY <2>2, <4>1, <4>2, <4>3 DEF FreeCall, Listed
    <3>3. arena[Of(t)] = Null => BlockCall(t)'
      BY <1>0, <2>2, <3>1 DEF FreeCall, BlockCall, Freeing
    <3>4. ForeignCall(t) => ForeignCall(t)'
      <4>1. SUFFICES ASSUME ForeignCall(t) PROVE ForeignCall(t)'
        OBVIOUS
      <4>2. PICK s \in Slots : base[s] = call[t].ptr /\ cap_bytes[s]
                               /\ s < call[t].hwm /\ s >= Slot(t)
                              /\ (s = Slot(t) => call[t].base = call[t].ptr)
        BY <2>2, <4>1 DEF ForeignCall
      <4>3. s >= Slot(t) + 1
        BY <1>0, <1>2, <2>1, <4>2 DEF Slots
      <4>4. QED BY <1>0, <2>2, <4>1, <4>2, <4>3 DEF ForeignCall, Removing
    <3>5. FreeCall(t)'
      BY <2>2, <3>1, <3>3, <3>4 DEF FreeCall, Listed
    <3>6. QED BY <3>2, <3>5 DEF FreesInv
  <2>12. BlocksReturned'
    BY <1>0, <2>2 DEF BlocksReturned
  <2>13. QED
    BY <2>6, <2>7, <2>8, <2>9, <2>10, <2>11, <2>12 DEF IInv
<1>3. QED BY <1>1, <1>2

\* A scan that ends at the mark was for a context block, or its pointer is gone.
LEMMA FreeLibcKeeps ==
  ASSUME IInv, NEW t \in Threads, FreeLibc(t)
  PROVE  IInv'
<1> USE ArenaAssumption DEF At, GoTo, NextSlot, Return, Slot, Of, table, envVars
<1>0. TypeOK /\ CallsInv /\ AddrsInv /\ TableInv /\ ListedInv /\ FreesInv /\ BlocksReturned
  BY DEF IInv
<1>1. call[t] \in Call /\ Of(t) \in Envs
  BY <1>0 DEF TypeOK, CallsInv, FreeLibc
<1>2. /\ call' = [call EXCEPT ![t] = Idle]
      /\ At(t, "free_base") /\ Slot(t) >= call[t].hwm
      /\ crashed' = (call[t].gone \/ mem[call[t].ptr] # "libc")
      /\ mem' = IF crashed' THEN mem ELSE [mem EXCEPT ![call[t].ptr] = "free"]
      /\ env' = [env EXCEPT ![Of(t)] = IF arena[Of(t)] = Null THEN "ended" ELSE "live"]
      /\ UNCHANGED <<table, block, arena>>
  BY <1>0 DEF FreeLibc, FreeDone
<1>3. Idle \in Call
  BY DEF Call, Idle
<1>4. call' \in [Threads -> Call]
  BY <1>0, <1>2, <1>3 DEF TypeOK
<1>5. /\ \A u \in Threads : u # t => call'[u] = call[u]
      /\ call'[t].at = "idle" /\ call'[t].env = Null /\ call'[t].i = 0 /\ call'[t].hwm = 0
      /\ call'[t].base = Null /\ call'[t].ptr = Null /\ call'[t].gone = FALSE
  BY <1>0, <1>2 DEF TypeOK, Idle
<1>6. TypeOK'
  BY <1>0, <1>1, <1>4 DEF TypeOK, Slots, FreeLibc, AddDone, FreeDone
<1>7. CallsInv'
  BY <1>0, <1>2, <1>5 DEF CallsInv, Adding, Removing
<1>8. AddrsInv'
  <2>1. arena[Of(t)] # Null => call[t].gone
    <3>1. SUFFICES ASSUME ForeignCall(t) PROVE FALSE
      BY <1>0, <1>2 DEF FreesInv, FreeCall, Freeing
    <3>2. PICK s \in Slots : s < call[t].hwm /\ s >= Slot(t)
      BY <1>2, <3>1 DEF ForeignCall
    <3>3. QED BY <1>1, <1>2, <3>2 DEF Call, Slots
  <2>2. Of(t) \in Envs /\ ~At(t, "idle") /\ Freeing(t)
    BY <1>1, <1>2 DEF Freeing
  <2>3. CASE mem' = mem
    BY <1>0, <1>2, <2>3 DEF AddrsInv
  <2>4. CASE mem' # mem
    <3>1. ~call[t].gone /\ mem[call[t].ptr] = "libc" /\ arena[Of(t)] = Null
      BY <1>2, <2>1, <2>4
    <3>2. mem' = [mem EXCEPT ![call[t].ptr] = "free"] /\ \A e \in Envs : block[e] # call[t].ptr
      BY <1>0, <1>2, <2>2, <2>4, <3>1 DEF FreesInv, FreeCall, BlockCall
    <3>3. QED BY <1>0, <1>2, <3>1, <3>2 DEF AddrsInv
  <2>5. QED BY <2>3, <2>4
<1>9. TableInv'
  BY <1>0, <1>2 DEF TableInv
<1>10. ListedInv'
  BY <1>0, <1>2, <1>5 DEF ListedInv, Listed, Unlisted, FreesInv, FreeCall, Freeing
<1>11. FreesInv'
  BY <1>0, <1>2, <1>5 DEF TypeOK, FreesInv, FreeCall, BlockCall, ForeignCall, Listed,
     Freeing, Removing, Adding, AddrsInv, TableInv
<1>12. BlocksReturned'
  <2>1. SUFFICES ASSUME NEW a \in Addrs, mem'[a] = "libc" 
                 PROVE  \/ \E e \in Envs : block'[e] = a
                        \/ \E u \in Threads : call'[u].ptr = a /\ ~call'[u].gone
    BY DEF BlocksReturned
  <2>2. mem[a] = "libc"
    BY <1>0, <1>2, <2>1
  <2>3. ~(call[t].ptr = a /\ ~call[t].gone)
    BY <1>0, <1>2, <2>1, <2>2 DEF TypeOK
  <2>4. QED BY <1>0, <1>2, <2>2, <2>3 DEF BlocksReturned
<1>13. QED
  BY <1>6, <1>7, <1>8, <1>9, <1>10, <1>11, <1>12 DEF IInv

\* nle_arena_registry_remove finds the arena's slot, or has none to clear.
LEMMA RemoveLookKeeps ==
  ASSUME IInv, NEW t \in Threads, RemoveLook(t)
  PROVE  IInv'
<1> USE ArenaAssumption DEF At, GoTo, NextSlot, Return, Slot, Of, table, envVars
<1>0. TypeOK /\ CallsInv /\ AddrsInv /\ TableInv /\ ListedInv /\ FreesInv /\ BlocksReturned
  BY DEF IInv
<1>1. CASE Slot(t) = Cap
  <2>1. call[t] \in Call
    BY <1>0 DEF TypeOK
  <2>2. /\ call' = [call EXCEPT ![t].at = "unmap"]
        /\ At(t, "remove")
        /\ UNCHANGED <<mem, table, envVars>>
    BY <1>0, <1>1 DEF RemoveLook
  <2>3. [call[t] EXCEPT !.at = "unmap"] \in Call
    BY <2>1 DEF Call
  <2>4. call' \in [Threads -> Call]
    BY <1>0, <2>2, <2>3 DEF TypeOK
  <2>5. TypeOK'
    BY <1>0, <2>4 DEF TypeOK, RemoveLook
  <2>6. CallsInv'
    BY <1>0, <2>2 DEF CallsInv, Adding, Removing
  <2>7. AddrsInv'
    BY <1>0, <2>2 DEF AddrsInv
  <2>8. TableInv'
    BY <1>0, <2>2 DEF TableInv
  <2>9. ListedInv'
    BY <1>0, <2>2, <1>1 DEF ListedInv, Listed, Unlisted, Slots
  <2>10. FreesInv'
    BY <1>0, <2>2 DEF FreesInv, FreeCall, BlockCall, ForeignCall, Listed, Freeing, Removing
  <2>11. BlocksReturned'
    BY <1>0, <2>2 DEF BlocksReturned
  <2>12. QED
    BY <2>5, <2>6, <2>7, <2>8, <2>9, <2>10, <2>11 DEF IInv
<1>2. CASE Slot(t) # Cap /\ base[Slot(t)] = arena[Of(t)]
  <2>1. call[t] \in Call /\ call[t].i \in Slots
    BY <1>0, <1>2 DEF TypeOK, Call, Slots
  <2>2. /\ call' = [call EXCEPT ![t].at = "remove_size"]
        /\ At(t, "remove")
        /\ UNCHANGED <<mem, table, envVars>>
    BY <1>0, <1>2 DEF RemoveLook
  <2>3. [call[t] EXCEPT !.at = "remove_size"] \in Call
    BY <2>1 DEF Call
  <2>4. call' \in [Threads -> Call]
    BY <1>0, <2>2, <2>3 DEF TypeOK
  <2>5. TypeOK'
    BY <1>0, <2>4 DEF TypeOK, RemoveLook
  <2>6. CallsInv'
    BY <1>0, <2>1, <2>2 DEF CallsInv, Adding, Removing
  <2>7. AddrsInv'
    BY <1>0, <2>2 DEF AddrsInv
  <2>8. TableInv'
    BY <1>0, <2>2 DEF TableInv
  <2>9. ListedInv'
    BY <1>0, <2>2, <1>2 DEF ListedInv, Listed, Unlisted
  <2>10. FreesInv'
    BY <1>0, <2>2 DEF FreesInv, FreeCall, BlockCall, ForeignCall, Listed, Freeing, Removing
  <2>11. BlocksReturned'
    BY <1>0, <2>2 DEF BlocksReturned
  <2>12. QED
    BY <2>5, <2>6, <2>7, <2>8, <2>9, <2>10, <2>11 DEF IInv
<1>3. CASE Slot(t) # Cap /\ base[Slot(t)] # arena[Of(t)]
  <2>1. call[t] \in Call /\ call[t].i \in Slots /\ call[t].i + 1 \in 0 .. Cap
    BY <1>0, <1>3 DEF TypeOK, Call, Slots
  <2>2. /\ call' = [call EXCEPT ![t] =
               [call[t] EXCEPT !.at = "remove", !.i = call[t].i + 1, !.base = Null]]
        /\ At(t, "remove")
        /\ UNCHANGED <<mem, table, envVars>>
    BY <1>0, <1>3 DEF RemoveLook
  <2>3. [call[t] EXCEPT !.at = "remove", !.i = call[t].i + 1, !.base = Null] \in Call
    BY <2>1 DEF Call, Idle, Slots
  <2>4. call' \in [Threads -> Call]
    BY <1>0, <2>2, <2>3 DEF TypeOK
  <2>5. TypeOK'
    BY <1>0, <2>4 DEF TypeOK, RemoveLook
  <2>6. CallsInv'
    BY <1>0, <2>2 DEF CallsInv, Adding, Removing
  <2>7. AddrsInv'
    BY <1>0, <2>2 DEF AddrsInv
  <2>8. TableInv'
    BY <1>0, <2>2 DEF TableInv
  <2>9. ListedInv'
    BY <1>0, <2>1, <2>2, <1>3 DEF ListedInv, Listed, Unlisted, Slots
  <2>10. FreesInv'
    BY <1>0, <2>2 DEF FreesInv, FreeCall, BlockCall, ForeignCall, Listed, Freeing, Removing
  <2>11. BlocksReturned'
    BY <1>0, <2>2 DEF BlocksReturned
  <2>12. QED
    BY <2>5, <2>6, <2>7, <2>8, <2>9, <2>10, <2>11 DEF IInv
<1>4. QED BY <1>1, <1>2, <1>3

\* The size is cleared first; the slot still holds the arena's base.
LEMMA RemoveSizeKeeps ==
  ASSUME IInv, NEW t \in Threads, RemoveSize(t)
  PROVE  IInv'
<1> USE ArenaAssumption DEF At, GoTo, NextSlot, Return, Slot, Of, table, envVars
<1>0. TypeOK /\ CallsInv /\ AddrsInv /\ TableInv /\ ListedInv /\ FreesInv /\ BlocksReturned
  BY DEF IInv
<1>1. call[t] \in Call /\ call[t].i \in Slots
  BY <1>0 DEF TypeOK, CallsInv, RemoveSize
<1>2. /\ call' = [call EXCEPT ![t].at = "remove_base"]
      /\ At(t, "remove_size")
      /\ cap_bytes' = [cap_bytes EXCEPT ![Slot(t)] = FALSE]
      /\ UNCHANGED <<mem, base, hwm, envVars>>
  BY <1>0 DEF RemoveSize
<1>3. [call[t] EXCEPT !.at = "remove_base"] \in Call
  BY <1>1 DEF Call
<1>4. call' \in [Threads -> Call]
  BY <1>0, <1>2, <1>3 DEF TypeOK
<1>5. TypeOK'
  BY <1>0, <1>1, <1>4 DEF TypeOK, RemoveSize
<1>6. CallsInv'
  BY <1>0, <1>2 DEF CallsInv, Adding, Removing
<1>7. AddrsInv'
  BY <1>0, <1>2 DEF AddrsInv
<1>8. TableInv'
  BY <1>0, <1>2 DEF TableInv
<1>9. ListedInv'
  BY <1>0, <1>2 DEF ListedInv, Listed, Unlisted, CallsInv, AddrsInv, Removing
<1>10. FreesInv'
  BY <1>0, <1>2 DEF FreesInv, FreeCall, BlockCall, ForeignCall, Listed, Freeing, Removing,
     CallsInv, AddrsInv, ListedInv
<1>11. BlocksReturned'
  BY <1>0, <1>2 DEF BlocksReturned
<1>12. QED
  BY <1>5, <1>6, <1>7, <1>8, <1>9, <1>10, <1>11 DEF IInv

\* Clearing the base unlists the arena, since it was in one slot only.
LEMMA RemoveBaseKeeps ==
  ASSUME IInv, NEW t \in Threads, RemoveBase(t)
  PROVE  IInv'
<1> USE ArenaAssumption DEF At, GoTo, NextSlot, Return, Slot, Of, table, envVars
<1>0. TypeOK /\ CallsInv /\ AddrsInv /\ TableInv /\ ListedInv /\ FreesInv /\ BlocksReturned
  BY DEF IInv
<1>1. call[t] \in Call /\ call[t].i \in Slots
  BY <1>0 DEF TypeOK, CallsInv, RemoveBase
<1>2. /\ call' = [call EXCEPT ![t].at = "unmap"]
      /\ At(t, "remove_base")
      /\ base' = [base EXCEPT ![Slot(t)] = Null]
      /\ UNCHANGED <<mem, cap_bytes, hwm, envVars>>
  BY <1>0 DEF RemoveBase
<1>3. [call[t] EXCEPT !.at = "unmap"] \in Call
  BY <1>1 DEF Call
<1>4. call' \in [Threads -> Call]
  BY <1>0, <1>2, <1>3 DEF TypeOK
<1>5. TypeOK'
  BY <1>0, <1>1, <1>4 DEF TypeOK, RemoveBase
<1>6. CallsInv'
  BY <1>0, <1>2 DEF CallsInv, Adding, Removing
<1>7. AddrsInv'
  BY <1>0, <1>2 DEF AddrsInv
<1>8. TableInv'
  BY <1>0, <1>2 DEF TableInv
<1>9. ListedInv'
  BY <1>0, <1>2 DEF TypeOK, ListedInv, Listed, Unlisted, CallsInv, AddrsInv, TableInv,
     Adding, Removing
<1>10. FreesInv'
  BY <1>0, <1>2 DEF FreesInv, FreeCall, BlockCall, ForeignCall, Listed, Freeing, Removing,
     CallsInv, AddrsInv, ListedInv
<1>11. BlocksReturned'
  BY <1>0, <1>2 DEF BlocksReturned
<1>12. QED
  BY <1>5, <1>6, <1>7, <1>8, <1>9, <1>10, <1>11 DEF IInv

\* The arena, in no slot, is unmapped; the context block is freed after it.
LEMMA UnmapKeeps ==
  ASSUME IInv, NEW t \in Threads, Unmap(t)
  PROVE  IInv'
<1> USE ArenaAssumption DEF At, GoTo, NextSlot, Return, Slot, Of, table, envVars
<1>0. TypeOK /\ CallsInv /\ AddrsInv /\ TableInv /\ ListedInv /\ FreesInv /\ BlocksReturned
  BY DEF IInv
<1>1. CASE block[Of(t)] = Null
  <2>1. call[t] \in Call /\ Of(t) \in Envs
    BY <1>0 DEF TypeOK, CallsInv, Unmap
  <2>2. /\ call' = [call EXCEPT ![t] = Idle]
        /\ At(t, "unmap")
        /\ mem' = [mem EXCEPT ![arena[Of(t)]] = "free"]
        /\ arena' = [arena EXCEPT ![Of(t)] = Null]
        /\ block' = [block EXCEPT ![Of(t)] = Null]
        /\ env' = [env EXCEPT ![Of(t)] = "ended"]
        /\ UNCHANGED table
    BY <1>0, <1>1 DEF Unmap
  <2>3. Idle \in Call
    BY DEF Call, Idle
  <2>4. call' \in [Threads -> Call]
    BY <1>0, <2>2, <2>3 DEF TypeOK
  <2>5. /\ \A u \in Threads : u # t => call'[u] = call[u]
        /\ call'[t].at = "idle" /\ call'[t].env = Null /\ call'[t].i = 0 /\ call'[t].hwm = 0
        /\ call'[t].base = Null /\ call'[t].ptr = Null /\ call'[t].gone = FALSE
    BY <1>0, <2>2 DEF TypeOK, Idle
  <2>6. TypeOK'
    BY <1>0, <2>1, <2>4, <1>1 DEF TypeOK, Slots, Unmap, AddDone, FreeDone
  <2>7. CallsInv'
    BY <1>0, <2>2, <2>5 DEF CallsInv, Adding, Removing
  <2>8. AddrsInv'
    BY <1>0, <2>2 DEF TypeOK, AddrsInv, CallsInv
  <2>9. TableInv'
    BY <1>0, <2>2 DEF TableInv, ListedInv, Unlisted
  <2>10. ListedInv'
    BY <1>0, <2>2, <2>5 DEF ListedInv, Listed, Unlisted, CallsInv
  <2>11. FreesInv'
    BY <1>0, <2>2, <2>5 DEF FreesInv, FreeCall, BlockCall, ForeignCall, Listed, Freeing,
       Removing, CallsInv, AddrsInv
  <2>12. BlocksReturned'
    BY <1>0, <2>2, <1>1 DEF BlocksReturned, CallsInv, Removing
  <2>13. QED
    BY <2>6, <2>7, <2>8, <2>9, <2>10, <2>11, <2>12 DEF IInv
<1>2. CASE block[Of(t)] # Null
  <2>1. call[t] \in Call /\ Of(t) \in Envs /\ block[Of(t)] \in Addrs
    BY <1>0, <1>2 DEF TypeOK, CallsInv, Unmap
  <2>2. /\ call' = [call EXCEPT ![t] = [call[t] EXCEPT !.at = "free", !.ptr = block[Of(t)]]]
        /\ At(t, "unmap")
        /\ mem' = [mem EXCEPT ![arena[Of(t)]] = "free"]
        /\ arena' = [arena EXCEPT ![Of(t)] = Null]
        /\ block' = [block EXCEPT ![Of(t)] = Null]
        /\ UNCHANGED <<table, env>>
    BY <1>0, <1>2 DEF Unmap
  <2>3. [call[t] EXCEPT !.at = "free", !.ptr = block[Of(t)]] \in Call
    BY <2>1 DEF Call, Idle, Slots
  <2>4. call' \in [Threads -> Call]
    BY <1>0, <2>2, <2>3 DEF TypeOK
  <2>5. TypeOK'
    BY <1>0, <2>1, <2>4, <1>2 DEF TypeOK, Slots, Unmap, AddDone, FreeDone
  <2>6. CallsInv'
    BY <1>0, <2>2 DEF TypeOK, CallsInv, Adding, Removing
  <2>7. AddrsInv'
    BY <1>0, <2>2 DEF TypeOK, AddrsInv, CallsInv
  <2>8. TableInv'
    BY <1>0, <2>2 DEF TableInv, ListedInv, Unlisted
  <2>9. ListedInv'
    BY <1>0, <2>2 DEF TypeOK, ListedInv, Listed, Unlisted, CallsInv
  <2>10. FreesInv'
    BY <1>0, <2>2, <1>2 DEF TypeOK, FreesInv, FreeCall, BlockCall, ForeignCall, Listed,
       Freeing, Removing, CallsInv, AddrsInv
  <2>11. BlocksReturned'
    BY <1>0, <2>2 DEF TypeOK, BlocksReturned, CallsInv, Removing
  <2>12. QED
    BY <2>5, <2>6, <2>7, <2>8, <2>9, <2>10, <2>11 DEF IInv
<1>3. QED BY <1>1, <1>2

\* The empty table, with no environment started.
LEMMA InitIInv == Init => IInv
<1> SUFFICES ASSUME Init PROVE IInv
  OBVIOUS
<1>1. Idle \in Call
  BY ArenaAssumption DEF Idle, Call
<1>2. TypeOK
  <2>1. call \in [Threads -> Call]
    BY <1>1 DEF Init
  <2>2. hwm \in 0 .. Cap /\ base \in [Slots -> Addrs \cup {Null}]
    BY ArenaAssumption DEF Init
  <2>3. QED BY <2>1, <2>2 DEF Init, TypeOK
<1>3. \A t \in Threads : At(t, "idle") /\ Of(t) = Null /\ call[t].ptr = Null /\ ~call[t].gone
  BY DEF Init, Idle, At, Of
<1>4. CallsInv
  BY <1>3 DEF CallsInv, Adding, Removing, At
<1>5. AddrsInv
  BY DEF Init, AddrsInv
<1>6. TableInv
  BY DEF Init, TableInv
<1>7. ListedInv
  BY <1>3 DEF Init, ListedInv, At
<1>8. FreesInv
  BY <1>3 DEF FreesInv, Freeing, At
<1>9. BlocksReturned
  BY DEF Init, BlocksReturned
<1>10. QED BY <1>2, <1>4, <1>5, <1>6, <1>7, <1>8, <1>9 DEF IInv

\* The kernel hands out free addresses, so the new arena is nobody else's.
LEMMA StartKeeps ==
  ASSUME IInv, NEW t \in Threads, NEW e \in Envs, Start(t, e)
  PROVE  IInv'
<1> USE ArenaAssumption DEF At, Of, Slot, table
<1>0. TypeOK /\ CallsInv /\ AddrsInv /\ TableInv /\ ListedInv /\ FreesInv /\ BlocksReturned
  BY DEF IInv
<1>1. PICK a \in Addrs, b \in Addrs \cup {Null} :
        /\ At(t, "idle") /\ env[e] = "new"
        /\ a # b /\ mem[a] = "free" /\ (b # Null => mem[b] = "free")
        /\ mem' = [x \in Addrs |-> IF x = a THEN "arena" ELSE IF x = b THEN "libc" ELSE mem[x]]
        /\ block' = [block EXCEPT ![e] = b]
        /\ arena' = [arena EXCEPT ![e] = a]
        /\ env' = [env EXCEPT ![e] = "busy"]
        /\ call' = [call EXCEPT ![t] = [@ EXCEPT !.at = "add", !.env = e]]
        /\ UNCHANGED <<table, crashed>>
  BY DEF Start
<1>2. call[t] \in Call
  BY <1>0 DEF TypeOK
<1>3. [call[t] EXCEPT !.at = "add", !.env = e] \in Call
  BY <1>2 DEF Call
<1>4. call' \in [Threads -> Call]
  BY <1>0, <1>1, <1>3 DEF TypeOK
<1>5. /\ \A u \in Threads : u # t => call'[u] = call[u]
      /\ call'[t].at = "add" /\ call'[t].env = e /\ call'[t].ptr = call[t].ptr
      /\ call'[t].gone = call[t].gone
  BY <1>0, <1>1 DEF TypeOK
<1>6. TypeOK'
  BY <1>0, <1>1, <1>4 DEF TypeOK
<1>7. CallsInv'
  <2>1. Of(t)' = e /\ \A u \in Threads : u # t => Of(u)' = Of(u) /\ Of(u) # e
    BY <1>0, <1>1, <1>5 DEF CallsInv
  <2>2. \A u \in Threads : u # t => arena'[Of(u)] = arena[Of(u)] /\ env'[Of(u)] = env[Of(u)]
    BY <1>1, <2>1
  <2>3. arena'[e] # Null /\ env'[e] = "busy"
    BY <1>0, <1>1 DEF TypeOK
  <2>4. ~call[t].gone => ~call'[t].gone /\ call'[t].ptr = Null
    BY <1>0, <1>1 DEF CallsInv
  <2>5. QED BY <1>0, <1>1, <2>3 DEF CallsInv, Adding, Removing
<1>8. AddrsInv'
  BY <1>0, <1>1 DEF TypeOK, AddrsInv
<1>9. TableInv'
  BY <1>0, <1>1 DEF AddrsInv, TableInv
<1>10. ListedInv'
  BY <1>0, <1>1 DEF TypeOK, AddrsInv, CallsInv, TableInv, ListedInv, Listed, Unlisted
<1>11. FreesInv'
  BY <1>0, <1>1 DEF CallsInv, FreesInv, FreeCall, BlockCall, ForeignCall, Listed, Freeing,
     Removing
<1>12. BlocksReturned'
  BY <1>0, <1>1 DEF TypeOK, AddrsInv, BlocksReturned
<1>13. QED BY <1>6, <1>7, <1>8, <1>9, <1>10, <1>11, <1>12 DEF IInv

\* Who frees a pointer into the arena is told that it is gone; no other call has
\* its address, since that of a context block is libc's.
LEMMA EndKeeps ==
  ASSUME IInv, NEW t \in Threads, NEW e \in Envs, End(t, e)
  PROVE  IInv'
<1> USE ArenaAssumption DEF At, Of, Slot, table
<1>0. TypeOK /\ CallsInv /\ AddrsInv /\ TableInv /\ ListedInv /\ FreesInv /\ BlocksReturned
  BY DEF IInv
<1>1. /\ At(t, "idle") /\ env[e] \in {"live", "over"} /\ arena[e] \in Addrs
      /\ env' = [env EXCEPT ![e] = "busy"]
      /\ UNCHANGED <<mem, table, block, arena, crashed>>
  BY <1>0 DEF End, TypeOK, AddrsInv
<1>2. /\ call'[t] = [Idle EXCEPT !.at = "remove", !.env = e]
      /\ \A u \in Threads : u # t =>
           call'[u] = [call[u] EXCEPT !.gone = @ \/ call[u].ptr = arena[e]]
  BY DEF End, GiveBack
<1>3. \A u \in Threads : call'[u] \in Call
  <2>1. Idle \in Call
    BY DEF Idle, Call
  <2>2. [Idle EXCEPT !.at = "remove", !.env = e] \in Call
    BY <2>1 DEF Call
  <2>3. ASSUME NEW u \in Threads PROVE [call[u] EXCEPT !.gone = @ \/ call[u].ptr = arena[e]] \in Call
    BY <1>0 DEF TypeOK, Call
  <2>4. QED BY <1>2, <2>2, <2>3
<1>4. TypeOK'
  BY <1>0, <1>3 DEF TypeOK, End, GiveBack
<1>5. /\ call'[t].at = "remove" /\ call'[t].env = e /\ call'[t].i = 0
      /\ call'[t].ptr = Null /\ ~call'[t].gone
      /\ \A u \in Threads : u # t =>
           /\ call'[u].at = call[u].at /\ call'[u].env = call[u].env /\ call'[u].i = call[u].i
           /\ call'[u].hwm = call[u].hwm /\ call'[u].base = call[u].base
           /\ call'[u].ptr = call[u].ptr
           /\ call'[u].gone = (call[u].gone \/ call[u].ptr = arena[e])
  <2>1. \A u \in Threads : call[u] \in Call
    BY <1>0 DEF TypeOK
  <2>2. ASSUME NEW u \in Threads, u # t
        PROVE  /\ call'[u].at = call[u].at /\ call'[u].env = call[u].env /\ call'[u].i = call[u].i
               /\ call'[u].hwm = call[u].hwm /\ call'[u].base = call[u].base
               /\ call'[u].ptr = call[u].ptr
               /\ call'[u].gone = (call[u].gone \/ call[u].ptr = arena[e])
    <3>1. call[u] = [at |-> call[u].at, env |-> call[u].env, i |-> call[u].i, hwm |-> call[u].hwm,
                     base |-> call[u].base, ptr |-> call[u].ptr, gone |-> call[u].gone]
      BY <2>1 DEF Call
    <3>2. call'[u] = [call[u] EXCEPT !.gone = call[u].gone \/ call[u].ptr = arena[e]]
      BY <1>2, <2>2
    <3>3. QED BY <3>2
  <2>3. /\ call'[t].at = "remove" /\ call'[t].env = e /\ call'[t].i = 0
        /\ call'[t].ptr = Null /\ ~call'[t].gone
    BY <1>2 DEF Idle
  <2>4. QED BY <2>2, <2>3
<1>6. CallsInv'
  <2>1. Of(t)' = e /\ \A u \in Threads : u # t => Of(u)' = Of(u) /\ Of(u) # e
    BY <1>0, <1>1, <1>5 DEF CallsInv
  <2>2. env'[e] = "busy" /\ \A u \in Threads : u # t => env'[Of(u)] = env[Of(u)]
    BY <1>0, <1>1, <2>1 DEF TypeOK
  <2>3. \A u \in Threads : (At(u, "idle") \/ Adding(u) \/ Removing(u)) /\ u # t => ~call'[u].gone
    BY <1>0, <1>1, <1>5 DEF CallsInv
  <2>4. QED BY <1>0, <1>1, <1>5, <2>2, <2>3 DEF CallsInv, Adding, Removing
<1>7. AddrsInv'
  BY <1>0, <1>1 DEF AddrsInv
<1>8. TableInv'
  BY <1>0, <1>1 DEF TableInv
<1>9. ListedInv'
  BY <1>0, <1>1, <1>5 DEF ListedInv, Listed, Unlisted, Slots
<1>10. FreesInv'
  <2>1. SUFFICES ASSUME NEW u \in Threads, Freeing(u)' PROVE FreeCall(u)'
    BY DEF FreesInv
  <2>2. u # t /\ Freeing(u) /\ FreeCall(u)
    BY <1>0, <1>5, <2>1 DEF FreesInv, Freeing
  <2>3. arena[Of(u)] = Null => BlockCall(u)'
    <3>1. SUFFICES ASSUME BlockCall(u) PROVE BlockCall(u)'
      BY <2>2 DEF FreeCall
    <3>2. call[u].ptr # arena[e]
      BY <1>0, <3>1 DEF AddrsInv, BlockCall
    <3>3. QED BY <1>1, <1>5, <2>2, <3>1, <3>2 DEF BlockCall, Freeing
  <2>4. ForeignCall(u) /\ call[u].ptr # arena[e] => ForeignCall(u)'
    <3>1. SUFFICES ASSUME ForeignCall(u), call[u].ptr # arena[e] PROVE ForeignCall(u)'
      OBVIOUS
    <3>2. \A w \in Threads : Removing(w)' => arena[Of(w)'] # call[u].ptr
      BY <1>5, <3>1 DEF ForeignCall, Removing
    <3>3. QED BY <1>1, <1>5, <2>2, <3>1, <3>2 DEF ForeignCall
  <2>5. QED BY <1>1, <1>5, <2>2, <2>3, <2>4 DEF FreeCall, Listed
<1>11. BlocksReturned'
  <2>1. \A u \in Threads : mem[call[u].ptr] = "libc" /\ call[u].ptr # Null => u # t /\ call[u].ptr # arena[e]
    BY <1>0, <1>1 DEF AddrsInv, CallsInv
  <2>2. SUFFICES ASSUME NEW u \in Threads, mem[call[u].ptr] = "libc", call[u].ptr # Null, ~call[u].gone
                 PROVE  call'[u].ptr = call[u].ptr /\ ~call'[u].gone
    BY <1>0, <1>1 DEF BlocksReturned
  <2>3. QED BY <1>5, <2>1, <2>2
<1>12. QED BY <1>4, <1>6, <1>7, <1>8, <1>9, <1>10, <1>11 DEF IInv

\* Every step of the registry keeps the inductive invariant.
LEMMA NextKeepsIInv == IInv /\ [Next]_vars => IInv'
<1> SUFFICES ASSUME IInv, [Next]_vars PROVE IInv'
  OBVIOUS
<1>1. CASE UNCHANGED vars
  BY <1>1 DEF vars, table, envVars, IInv, TypeOK, CallsInv, AddrsInv, TableInv, ListedInv,
     FreesInv, FreeCall, BlockCall, ForeignCall, Listed, Unlisted, Adding, Freeing, Removing,
     Of, At, Slot, BlocksReturned
<1>2. CASE Next
  <2>1. PICK t \in Threads :
          \/ \E e \in Envs : Start(t, e) \/ End(t, e) \/ \E d \in Envs : FreeForeign(t, e, d)
          \/ Add(t) \/ Free(t) \/ Remove(t)
    BY <1>2 DEF Next
  <2>2. CASE \E e \in Envs : Start(t, e) \/ End(t, e) \/ \E d \in Envs : FreeForeign(t, e, d)
    BY <2>2, StartKeeps, EndKeeps, FreeForeignKeeps
  <2>3. CASE Add(t)
    BY <2>3, AddLookKeeps, OverflowKeeps, AddCasKeeps, AddSizeKeeps, AddHwmKeeps,
       AddHwmCasKeeps
       DEF Add
  <2>4. CASE Free(t)
    BY <2>4, FreeBeginKeeps, FreeBaseKeeps, FreeSizeKeeps, FreeLibcKeeps DEF Free
  <2>5. CASE Remove(t)
    BY <2>5, RemoveLookKeeps, RemoveSizeKeeps, RemoveBaseKeeps, UnmapKeeps DEF Remove
  <2>6. QED BY <2>1, <2>2, <2>3, <2>4, <2>5
<1>3. QED BY <1>1, <1>2

-----------------------------------------------------------------------------
\* Every reachable state satisfies the inductive invariant.
THEOREM IInvHolds == Spec => []IInv
  BY InitIInv, NextKeepsIInv, PTL DEF Spec

\* The table, the contexts and the calls keep their types; in particular no loop
\* over the table leaves it.
THEOREM TypeCorrect == Spec => []TypeOK
<1>1. IInv => TypeOK
  BY DEF IInv
<1>2. QED BY <1>1, IInvHolds, PTL

\* alloc.c: whatever other threads add and remove, the arena of an environment
\* that is alive is in exactly one slot of the table, and a scan reaches it.
THEOREM LiveArenasAreListed == Spec => []LiveArenasListed
<1>1. IInv => LiveArenasListed
  BY DEF IInv, AddrsInv, TableInv, ListedInv, Listed, LiveArenasListed
<1>2. QED BY <1>1, IInvHolds, PTL

\* alloc.c: a lock-free scan that meets slots being added and removed does not
\* miss the arena a foreign pointer points into, while its environment lives.
THEOREM ForeignFreesAreCaught == Spec => []ForeignFreeCaught
<1>1. IInv => ForeignFreeCaught
  <2>1. SUFFICES ASSUME IInv, NEW t \in Threads, At(t, "free_base"), Slot(t) >= call[t].hwm,
                        ~call[t].gone
                 PROVE  mem[call[t].ptr] = "libc"
    BY DEF ForeignFreeCaught
  <2>2. FreeCall(t) /\ call[t] \in Call
    BY <2>1 DEF IInv, FreesInv, Freeing, At, TypeOK
  <2>3. ~ForeignCall(t)
    <3>1. SUFFICES ASSUME NEW s \in Slots, s < call[t].hwm, s >= Slot(t) PROVE FALSE
      BY <2>1 DEF ForeignCall, At
    <3>2. QED BY <2>1, <2>2, <3>1 DEF Call, Slots, Slot
  <2>4. QED BY <2>1, <2>2, <2>3 DEF FreeCall, BlockCall
<1>2. QED BY <1>1, IInvHolds, PTL

\* nle_end: a context block that libc mapped is freed by libc, although its
\* address may have been an arena's and a slot is read in two accesses.
THEOREM BlocksAreReturned == Spec => []BlocksReturned
<1>1. IInv => BlocksReturned
  BY DEF IInv
<1>2. QED BY <1>1, IInvHolds, PTL
=============================================================================
