--------------------------- MODULE SentinelProofs ---------------------------
(***************************************************************************)
(* Proofs about module Sentinel, for any number of threads, environments   *)
(* and slots; and about module Watchdog: what is proved of Sentinel holds  *)
(* beside the watchdog and the crash handler too, no process dies of its   *)
(* signal without a report, and none is aborted while it steps.            *)
(***************************************************************************)
EXTENDS Watchdog, TLAPS

\* An environment that is being operated on has one thread that does so.
Ownership ==
  /\ \A t \in Threads : Operating(t) => cur[t] \in Envs /\ env[cur[t]] = "busy"
  /\ \A t, u \in Threads : Operating(t) /\ Operating(u) /\ cur[t] = cur[u] => t = u

\* An environment has no slot before it is registered, and one when it beats.
Registering(t) == pc[t] \in {"starting", "scan", "fill", "publish"}

Registration ==
  /\ \A e \in Envs : env[e] = "new" => sentinel[e] = None /\ beats[e] = 0
  /\ \A t \in Threads : Registering(t) => sentinel[cur[t]] = None /\ beats[cur[t]] = 0
  /\ \A t \in Threads : Beating(t) => sentinel[cur[t]] # None

\* A slot is published for one environment, or claimed by one thread.
SlotTable ==
  /\ \A e \in Envs : sentinel[e] # None => in_use[sentinel[e]] = 1
  /\ \A d, e \in Envs : sentinel[d] # None /\ sentinel[d] = sentinel[e] => d = e
  /\ \A t \in Threads : Claiming(t) => idx[t] \in Slots /\ in_use[idx[t]] = 2
  /\ \A t, u \in Threads : Claiming(t) /\ Claiming(u) /\ idx[t] = idx[u] => t = u

\* The inductive invariant: the types and the ownership of slots depend on
\* one another, because a beat indexes the table by the environment's slot.
IInv == TypeOK /\ Ownership /\ Registration /\ SlotTable

-----------------------------------------------------------------------------
\* All slots are free and no environment exists: the invariant holds at first.
LEMMA InitIInv == Init => IInv
  BY CapAssumption
     DEF Init, IInv, TypeOK, Ownership, Registration, SlotTable, Slots,
         Operating, Registering, Beating, Claiming

\* A new environment becomes the thread's own, and is busy.
LEMMA NleStartKeepsIInv ==
  ASSUME NEW t \in Threads, NEW e \in Envs, IInv, NleStart(t, e)
  PROVE  IInv'
<1> USE CapAssumption, NoneAssumption DEF NleStart, GoTo, slotVars, threadVars, envVars
<1>1. TypeOK'
  BY DEF IInv, TypeOK
<1>2. Ownership'
  BY DEF IInv, TypeOK, Ownership, Operating
<1>3. Registration'
  BY DEF IInv, TypeOK, Registration, Registering, Beating
<1>4. SlotTable'
  BY DEF IInv, SlotTable, Claiming
<1>5. QED BY <1>1, <1>2, <1>3, <1>4 DEF IInv

\* The game has run to its first prompt; the scan starts at slot 0.
LEMMA BeginRegisterKeepsIInv ==
  ASSUME NEW t \in Threads, IInv, BeginRegister(t)
  PROVE  IInv'
<1> USE CapAssumption, NoneAssumption DEF BeginRegister, GoTo, slotVars, threadVars, envVars
<1>1. TypeOK'
  BY DEF IInv, TypeOK
<1>2. Ownership'
  BY DEF IInv, Ownership, Operating
<1>3. Registration'
  BY DEF IInv, Registration, Registering, Beating
<1>4. SlotTable'
  BY DEF IInv, SlotTable, Claiming
<1>5. QED BY <1>1, <1>2, <1>3, <1>4 DEF IInv

\* The compare-and-swap makes a free slot this thread's: nobody else has it.
LEMMA ClaimKeepsIInv ==
  ASSUME NEW t \in Threads, IInv, Claim(t)
  PROVE  IInv'
<1> USE CapAssumption, NoneAssumption DEF Claim, GoTo, slotVars, threadVars, envVars
<1>1. TypeOK'
  <2>1. in_use' \in [Slots -> 0 .. 2]
    BY DEF IInv, TypeOK
  <2>2. pc' \in [Threads -> {"idle", "starting", "scan", "fill", "publish",
                             "beat", "beat_store", "beat_add", "playing"}]
    BY DEF IInv, TypeOK
  <2>3. QED BY <2>1, <2>2 DEF IInv, TypeOK
<1>2. Ownership'
  BY DEF IInv, Ownership, Operating
<1>3. Registration'
  BY DEF IInv, Registration, Registering, Beating
<1>4. SlotTable'
  BY DEF IInv, TypeOK, SlotTable, Claiming
<1>5. QED BY <1>1, <1>2, <1>3, <1>4 DEF IInv

\* A slot in use is passed over; the scan stays within the table.
LEMMA SkipKeepsIInv ==
  ASSUME NEW t \in Threads, IInv, Skip(t)
  PROVE  IInv'
<1> USE CapAssumption, NoneAssumption DEF Skip, GoTo, slotVars, threadVars, envVars
<1>1. TypeOK'
  <2>1. idx[t] \in 0 .. Cap - 1
    BY DEF Slots
  <2>2. idx' \in [Threads -> 0 .. Cap]
    BY <2>1 DEF IInv, TypeOK
  <2>3. QED BY <2>2 DEF IInv, TypeOK
<1>2. Ownership'
  BY DEF IInv, Ownership, Operating
<1>3. Registration'
  BY DEF IInv, Registration, Registering, Beating
<1>4. SlotTable'
  BY DEF IInv, SlotTable, Claiming
<1>5. QED BY <1>1, <1>2, <1>3, <1>4 DEF IInv

\* The environment goes on without a slot.
LEMMA RegistryFullKeepsIInv ==
  ASSUME NEW t \in Threads, IInv, RegistryFull(t)
  PROVE  IInv'
<1> USE CapAssumption, NoneAssumption DEF RegistryFull, GoTo, slotVars, threadVars, envVars
<1>1. TypeOK'
  BY DEF IInv, TypeOK
<1>2. Ownership'
  BY DEF IInv, TypeOK, Ownership, Operating
<1>3. Registration'
  BY DEF IInv, Registration, Registering, Beating
<1>4. SlotTable'
  BY DEF IInv, SlotTable, Claiming
<1>5. QED BY <1>1, <1>2, <1>3, <1>4 DEF IInv

\* The fields of a claimed slot are written; who owns what is unchanged.
LEMMA FillKeepsIInv ==
  ASSUME NEW t \in Threads, IInv, Fill(t)
  PROVE  IInv'
<1> USE CapAssumption, NoneAssumption DEF Fill, GoTo, slotVars, threadVars, envVars
<1>1. TypeOK'
  BY DEF IInv, TypeOK
<1>2. Ownership'
  BY DEF IInv, Ownership, Operating
<1>3. Registration'
  BY DEF IInv, Registration, Registering, Beating
<1>4. SlotTable'
  BY DEF IInv, SlotTable, Claiming
<1>5. QED BY <1>1, <1>2, <1>3, <1>4 DEF IInv

\* The claimed slot becomes the environment's, which had none before.
LEMMA PublishKeepsIInv ==
  ASSUME NEW t \in Threads, IInv, Publish(t)
  PROVE  IInv'
<1> USE CapAssumption, NoneAssumption DEF Publish, GoTo, slotVars, threadVars, envVars
<1>1. TypeOK'
  <2>1. idx[t] \in Slots /\ cur[t] \in Envs
    BY DEF IInv, Ownership, SlotTable, Operating, Claiming
  <2>2. in_use' \in [Slots -> 0 .. 2]
    BY <2>1 DEF IInv, TypeOK
  <2>3. /\ sentinel' \in [Envs -> Slots \cup {None}]
        /\ env' \in [Envs -> {"new", "busy", "idle", "done", "ended"}]
    BY <2>1 DEF IInv, TypeOK
  <2>4. pc' \in [Threads -> {"idle", "starting", "scan", "fill", "publish",
                             "beat", "beat_store", "beat_add", "playing"}]
    BY DEF IInv, TypeOK
  <2>5. QED BY <2>2, <2>3, <2>4 DEF IInv, TypeOK
<1>2. Ownership'
  BY DEF IInv, TypeOK, Ownership, Operating
<1>3. Registration'
  BY DEF IInv, TypeOK, Ownership, Registration, Operating, Registering, Beating
<1>4. SlotTable'
  BY DEF IInv, TypeOK, SlotTable, Claiming
<1>5. QED BY <1>1, <1>2, <1>3, <1>4 DEF IInv

\* A registered environment starts with its beat, another plays at once.
LEMMA NleStepKeepsIInv ==
  ASSUME NEW t \in Threads, NEW e \in Envs, IInv, NleStep(t, e)
  PROVE  IInv'
<1> USE CapAssumption, NoneAssumption DEF NleStep, GoTo, slotVars, threadVars, envVars
<1>1. TypeOK'
  BY DEF IInv, TypeOK
<1>2. Ownership'
  BY DEF IInv, TypeOK, Ownership, Operating
<1>3. Registration'
  BY DEF IInv, TypeOK, Registration, Registering, Beating
<1>4. SlotTable'
  BY DEF IInv, SlotTable, Claiming
<1>5. QED BY <1>1, <1>2, <1>3, <1>4 DEF IInv

\* A beat reads the step of a slot that is its environment's.
LEMMA BeatLoadKeepsIInv ==
  ASSUME NEW t \in Threads, IInv, BeatLoad(t)
  PROVE  IInv'
<1> USE CapAssumption, NoneAssumption DEF BeatLoad, GoTo, slotVars, threadVars, envVars
<1>1. TypeOK'
  <2>1. cur[t] \in Envs /\ sentinel[cur[t]] \in Slots
    BY DEF IInv, TypeOK, Ownership, Registration, Operating, Beating
  <2>2. reg' \in [Threads -> Nat]
    BY <2>1 DEF IInv, TypeOK
  <2>3. pc' \in [Threads -> {"idle", "starting", "scan", "fill", "publish",
                             "beat", "beat_store", "beat_add", "playing"}]
    BY DEF IInv, TypeOK
  <2>4. QED BY <2>2, <2>3 DEF IInv, TypeOK
<1>2. Ownership'
  BY DEF IInv, Ownership, Operating
<1>3. Registration'
  BY DEF IInv, Registration, Registering, Beating
<1>4. SlotTable'
  BY DEF IInv, SlotTable, Claiming
<1>5. QED BY <1>1, <1>2, <1>3, <1>4 DEF IInv

\* A beat writes the step and g_tls within the table.
LEMMA BeatStoreKeepsIInv ==
  ASSUME NEW t \in Threads, IInv, BeatStore(t)
  PROVE  IInv'
<1> USE CapAssumption, NoneAssumption DEF BeatStore, GoTo, slotVars, threadVars, envVars
<1>1. TypeOK'
  <2>1. cur[t] \in Envs /\ sentinel[cur[t]] \in Slots
    BY DEF IInv, TypeOK, Ownership, Registration, Operating, Beating
  <2>2. step' \in [Slots -> Nat]
    BY <2>1 DEF IInv, TypeOK
  <2>3. tls' \in [Threads -> Slots \cup {None}]
    BY <2>1 DEF IInv, TypeOK
  <2>4. pc' \in [Threads -> {"idle", "starting", "scan", "fill", "publish",
                             "beat", "beat_store", "beat_add", "playing"}]
    BY DEF IInv, TypeOK
  <2>5. QED BY <2>2, <2>3, <2>4 DEF IInv, TypeOK
<1>2. Ownership'
  BY DEF IInv, Ownership, Operating
<1>3. Registration'
  BY DEF IInv, Registration, Registering, Beating
<1>4. SlotTable'
  BY DEF IInv, SlotTable, Claiming
<1>5. QED BY <1>1, <1>2, <1>3, <1>4 DEF IInv

\* A beat counts, and the game runs.
LEMMA BeatAddKeepsIInv ==
  ASSUME NEW t \in Threads, IInv, BeatAdd(t)
  PROVE  IInv'
<1> USE CapAssumption, NoneAssumption DEF BeatAdd, GoTo, slotVars, threadVars, envVars
<1>1. TypeOK'
  <2>1. cur[t] \in Envs /\ sentinel[cur[t]] \in Slots
    BY DEF IInv, TypeOK, Ownership, Registration, Operating, Beating
  <2>2. heartbeat' \in [Slots -> Nat]
    BY <2>1 DEF IInv, TypeOK
  <2>3. beats' \in [Envs -> Nat]
    BY <2>1 DEF IInv, TypeOK
  <2>4. pc' \in [Threads -> {"idle", "starting", "scan", "fill", "publish",
                             "beat", "beat_store", "beat_add", "playing"}]
    BY DEF IInv, TypeOK
  <2>5. QED BY <2>2, <2>3, <2>4 DEF IInv, TypeOK
<1>2. Ownership'
  BY DEF IInv, Ownership, Operating
<1>3. Registration'
  BY DEF IInv, Registration, Registering, Beating
<1>4. SlotTable'
  BY DEF IInv, SlotTable, Claiming
<1>5. QED BY <1>1, <1>2, <1>3, <1>4 DEF IInv

\* The game returns to its caller, and the environment is nobody's.
LEMMA YieldKeepsIInv ==
  ASSUME NEW t \in Threads, IInv, Yield(t)
  PROVE  IInv'
<1> USE CapAssumption, NoneAssumption DEF Yield, GoTo, slotVars, threadVars, envVars
<1>1. TypeOK'
  BY DEF IInv, TypeOK, Slots, Beating
<1>2. Ownership'
  BY DEF IInv, TypeOK, Ownership, Operating
<1>3. Registration'
  BY DEF IInv, Registration, Registering, Beating
<1>4. SlotTable'
  BY DEF IInv, SlotTable, Claiming
<1>5. QED BY <1>1, <1>2, <1>3, <1>4 DEF IInv

\* A panic ends the game, or sends a game that was starting to be registered.
LEMMA PanicKeepsIInv ==
  ASSUME NEW t \in Threads, IInv, Panic(t)
  PROVE  IInv'
<1> USE CapAssumption, NoneAssumption DEF Panic, GoTo, slotVars, threadVars, envVars
<1>1. TypeOK'
  <2>1. cur[t] \in Envs
    BY DEF IInv, Ownership, Operating
  <2>2. panic_msg' \in [Slots -> Envs \cup {None}]
    BY <2>1 DEF IInv, TypeOK
  <2>3. CASE pc[t] = "playing"
    BY <2>1, <2>2, <2>3 DEF IInv, TypeOK
  <2>4. CASE pc[t] # "playing"
    <3>1. /\ idx' = [idx EXCEPT ![t] = 0] /\ calm' = [calm EXCEPT ![t] = TRUE]
          /\ pc' = [pc EXCEPT ![t] = "scan"]
          /\ UNCHANGED <<in_use, seed, heartbeat, step, sentinel, env, beats, tls, cur, reg>>
      BY <2>4
    <3>2. 0 \in 0 .. Cap
      OBVIOUS
    <3>3. idx' \in [Threads -> 0 .. Cap] /\ calm' \in [Threads -> BOOLEAN]
      BY <3>1, <3>2 DEF IInv, TypeOK
    <3>4. QED BY <2>2, <3>1, <3>3 DEF IInv, TypeOK
  <2>5. QED BY <2>3, <2>4
<1>2. Ownership'
  BY DEF IInv, TypeOK, Ownership, Operating
<1>3. Registration'
  <2>1. CASE pc[t] = "playing"
    BY <2>1 DEF IInv, TypeOK, Registration, Registering, Beating
  <2>2. CASE pc[t] # "playing"
    <3>1. pc' = [pc EXCEPT ![t] = "scan"] /\ pc[t] = "starting"
      BY <2>2
    <3>2. UNCHANGED <<env, sentinel, beats, cur>>
      BY <2>2
    <3>3. QED BY <3>1, <3>2 DEF IInv, Registration, Registering, Beating
  <2>3. QED BY <2>1, <2>2
<1>4. SlotTable'
  <2>1. UNCHANGED <<in_use, sentinel>>
    OBVIOUS
  <2>2. \A u \in Threads : Claiming(u)' => Claiming(u) /\ idx'[u] = idx[u]
    BY DEF IInv, TypeOK, Claiming
  <2>3. QED BY <2>1, <2>2 DEF IInv, SlotTable
<1>5. QED BY <1>1, <1>2, <1>3, <1>4 DEF IInv

\* The slot given up was the environment's alone: no claim and no owner is hit.
LEMMA NleEndKeepsIInv ==
  ASSUME NEW t \in Threads, NEW e \in Envs, IInv, NleEnd(t, e)
  PROVE  IInv'
<1> USE CapAssumption, NoneAssumption DEF NleEnd, GoTo, slotVars, threadVars, envVars
<1>1. TypeOK'
  <2>1. CASE sentinel[e] = None
    BY <2>1 DEF IInv, TypeOK
  <2>2. CASE sentinel[e] # None
    <3>1. in_use' \in [Slots -> 0 .. 2]
      BY <2>2 DEF IInv, TypeOK
    <3>2. tls' \in [Threads -> Slots \cup {None}] /\ calm' \in [Threads -> BOOLEAN]
      BY <2>2 DEF IInv, TypeOK
    <3>3. sentinel' \in [Envs -> Slots \cup {None}]
      BY DEF IInv, TypeOK
    <3>4. env' \in [Envs -> {"new", "busy", "idle", "done", "ended"}]
      BY DEF IInv, TypeOK
    <3>5. QED BY <3>1, <3>2, <3>3, <3>4 DEF IInv, TypeOK
  <2>3. QED BY <2>1, <2>2
<1>2. Ownership'
  BY DEF IInv, Ownership, Operating
<1>3. Registration'
  BY DEF IInv, Ownership, Registration, Operating, Registering, Beating
<1>4. SlotTable'
  <2>1. /\ \A d \in Envs : sentinel'[d] # None => d # e /\ sentinel'[d] = sentinel[d]
        /\ UNCHANGED <<pc, idx>>
    BY DEF IInv, TypeOK
  <2>2. \A r \in Slots : r # sentinel[e] => in_use'[r] = in_use[r]
    BY DEF IInv, TypeOK
  <2>3. \A u \in Threads : Claiming(u) => idx[u] # sentinel[e]
    BY DEF IInv, SlotTable
  <2>4. \A d \in Envs : sentinel'[d] # None => in_use'[sentinel'[d]] = 1
    BY <2>1, <2>2 DEF IInv, TypeOK, SlotTable
  <2>5. \A u \in Threads : Claiming(u)' => idx'[u] \in Slots /\ in_use'[idx'[u]] = 2
    BY <2>1, <2>2, <2>3 DEF IInv, SlotTable, Claiming
  <2>6. QED BY <2>1, <2>4, <2>5 DEF IInv, SlotTable, Claiming
<1>5. QED BY <1>1, <1>2, <1>3, <1>4 DEF IInv

-----------------------------------------------------------------------------
\* The invariant is inductive: no step of Next, and no stutter, leaves it.
LEMMA NextKeepsIInv == IInv /\ [Next]_vars => IInv'
<1> SUFFICES ASSUME IInv, [Next]_vars PROVE IInv'
  OBVIOUS
<1>1. CASE Next
  BY <1>1, NleStartKeepsIInv, BeginRegisterKeepsIInv, ClaimKeepsIInv, SkipKeepsIInv,
     RegistryFullKeepsIInv, FillKeepsIInv, PublishKeepsIInv, NleStepKeepsIInv,
     BeatLoadKeepsIInv, BeatStoreKeepsIInv, BeatAddKeepsIInv, YieldKeepsIInv,
     PanicKeepsIInv, NleEndKeepsIInv
     DEF Next, Register, Beat
<1>2. CASE UNCHANGED vars
  BY <1>2 DEF vars, slotVars, threadVars, envVars, IInv, TypeOK, Ownership, Registration,
              SlotTable, Operating, Registering, Beating, Claiming
<1>3. QED BY <1>1, <1>2

\* Every reachable state satisfies the inductive invariant.
THEOREM IInvHolds == Spec => []IInv
  BY InitIInv, NextKeepsIInv, PTL DEF Spec

\* The registry's variables keep their types: in particular a scan never looks
\* past the table, and a beat never writes outside of it.
THEOREM TypeCorrect == Spec => []TypeOK
<1>1. IInv => TypeOK
  BY DEF IInv
<1>2. QED BY <1>1, IInvHolds, PTL

\* No two environments share a slot, whatever their number and the threads'.
THEOREM SlotsAreExclusive == Spec => []SlotExclusive
<1>1. IInv => SlotExclusive
  BY NoneAssumption DEF IInv, SlotTable, SlotExclusive
<1>2. QED BY <1>1, IInvHolds, PTL

\* What a slot says of the environment it belongs to, or is claimed for.
Contents ==
  /\ \A e \in Envs : sentinel[e] # None =>
       seed[sentinel[e]] = e /\ heartbeat[sentinel[e]] = beats[e]
  /\ \A s \in Slots : in_use[s] = 1 => seed[s] \in Envs /\ sentinel[seed[s]] = s
  /\ \A t \in Threads : pc[t] = "publish" =>
       seed[idx[t]] = cur[t] /\ heartbeat[idx[t]] = 0 /\ step[idx[t]] = 0

\* What slots say of their environments is kept by every step: only a claim's
\* owner writes to a slot that is not published, and only the beat of its
\* environment to one that is.
LEMMA NextKeepsContents == IInv /\ Contents /\ [Next]_vars => Contents'
<1> SUFFICES ASSUME IInv, Contents, [Next]_vars PROVE Contents'
  OBVIOUS
<1> USE DEF GoTo, slotVars, threadVars, envVars, vars
<1>1. ASSUME NEW t \in Threads, NEW e \in Envs, NleStart(t, e) PROVE Contents'
  BY <1>1 DEF NleStart, Contents
<1>2. ASSUME NEW t \in Threads, BeginRegister(t) PROVE Contents'
  BY <1>2 DEF BeginRegister, Contents
<1>3. ASSUME NEW t \in Threads, Claim(t) PROVE Contents'
  BY <1>3 DEF Claim, Contents
<1>4. ASSUME NEW t \in Threads, Skip(t) PROVE Contents'
  BY <1>4 DEF Skip, Contents
<1>5. ASSUME NEW t \in Threads, RegistryFull(t) PROVE Contents'
  BY <1>5 DEF RegistryFull, Contents
<1>6. ASSUME NEW t \in Threads, Fill(t) PROVE Contents'
  BY <1>6 DEF Fill, Contents, IInv, TypeOK, SlotTable, Claiming
<1>7. ASSUME NEW t \in Threads, Publish(t) PROVE Contents'
  BY <1>7, NoneAssumption
     DEF Publish, Contents, IInv, TypeOK, Ownership, Registration, Operating, Registering
<1>8. ASSUME NEW t \in Threads, NEW e \in Envs, NleStep(t, e) PROVE Contents'
  BY <1>8 DEF NleStep, Contents
<1>9. ASSUME NEW t \in Threads, BeatLoad(t) PROVE Contents'
  BY <1>9 DEF BeatLoad, Contents
<1>10. ASSUME NEW t \in Threads, BeatStore(t) PROVE Contents'
  BY <1>10 DEF BeatStore, Contents, IInv, Ownership, Registration, Operating, Beating
<1>11. ASSUME NEW t \in Threads, BeatAdd(t) PROVE Contents'
  BY <1>11 DEF BeatAdd, Contents, IInv, TypeOK, Ownership, Registration, Operating, Beating
<1>12. ASSUME NEW t \in Threads, Yield(t) PROVE Contents'
  BY <1>12 DEF Yield, Contents
<1>13. ASSUME NEW t \in Threads, Panic(t) PROVE Contents'
  BY <1>13 DEF Panic, Contents, IInv, TypeOK
<1>14. ASSUME NEW t \in Threads, NEW e \in Envs, NleEnd(t, e) PROVE Contents'
  BY <1>14 DEF NleEnd, Contents, IInv, TypeOK
<1>15. CASE UNCHANGED vars
  BY <1>15 DEF Contents
<1>16. QED
  BY <1>1, <1>2, <1>3, <1>4, <1>5, <1>6, <1>7, <1>8, <1>9, <1>10, <1>11, <1>12, <1>13,
     <1>14, <1>15
     DEF Next, Register, Beat

\* g_tls is set by the beat that precedes the game's run.
LastBeaten ==
  \A t \in Threads :
    pc[t] \in {"beat_add", "playing"} /\ sentinel[cur[t]] # None => tls[t] = sentinel[cur[t]]

\* A thread that plays has beaten the slot of the environment it plays.
LEMMA NextKeepsLastBeaten == IInv /\ LastBeaten /\ [Next]_vars => LastBeaten'
<1> SUFFICES ASSUME IInv, LastBeaten, [Next]_vars PROVE LastBeaten'
  OBVIOUS
<1> USE DEF GoTo, slotVars, threadVars, envVars, vars
<1>1. ASSUME NEW t \in Threads, NEW e \in Envs, NleStart(t, e) PROVE LastBeaten'
  BY <1>1 DEF NleStart, LastBeaten
<1>2. ASSUME NEW t \in Threads, BeginRegister(t) PROVE LastBeaten'
  BY <1>2 DEF BeginRegister, LastBeaten
<1>3. ASSUME NEW t \in Threads, Claim(t) PROVE LastBeaten'
  BY <1>3 DEF Claim, LastBeaten
<1>4. ASSUME NEW t \in Threads, Skip(t) PROVE LastBeaten'
  BY <1>4 DEF Skip, LastBeaten
<1>5. ASSUME NEW t \in Threads, RegistryFull(t) PROVE LastBeaten'
  BY <1>5 DEF RegistryFull, LastBeaten
<1>6. ASSUME NEW t \in Threads, Fill(t) PROVE LastBeaten'
  BY <1>6 DEF Fill, LastBeaten
<1>7. ASSUME NEW t \in Threads, Publish(t) PROVE LastBeaten'
  BY <1>7 DEF Publish, LastBeaten, IInv, Ownership, Operating
<1>8. ASSUME NEW t \in Threads, NEW e \in Envs, NleStep(t, e) PROVE LastBeaten'
  BY <1>8 DEF NleStep, LastBeaten, IInv, TypeOK
<1>9. ASSUME NEW t \in Threads, BeatLoad(t) PROVE LastBeaten'
  BY <1>9 DEF BeatLoad, LastBeaten
<1>10. ASSUME NEW t \in Threads, BeatStore(t) PROVE LastBeaten'
  BY <1>10 DEF BeatStore, LastBeaten, IInv, TypeOK
<1>11. ASSUME NEW t \in Threads, BeatAdd(t) PROVE LastBeaten'
  BY <1>11 DEF BeatAdd, LastBeaten
<1>12. ASSUME NEW t \in Threads, Yield(t) PROVE LastBeaten'
  BY <1>12 DEF Yield, LastBeaten
<1>13. ASSUME NEW t \in Threads, Panic(t) PROVE LastBeaten'
  BY <1>13 DEF Panic, LastBeaten, IInv, TypeOK
<1>14. ASSUME NEW t \in Threads, NEW e \in Envs, NleEnd(t, e) PROVE LastBeaten'
  BY <1>14 DEF NleEnd, LastBeaten, IInv, TypeOK
<1>15. CASE UNCHANGED vars
  BY <1>15 DEF LastBeaten
<1>16. QED
  BY <1>1, <1>2, <1>3, <1>4, <1>5, <1>6, <1>7, <1>8, <1>9, <1>10, <1>11, <1>12, <1>13,
     <1>14, <1>15
     DEF Next, Register, Beat

\* Slots the scan has passed stay taken until a release, which ends its calm.
LEMMA NextKeepsFullMeansFull == IInv /\ FullMeansFull /\ [Next]_vars => FullMeansFull'
<1> SUFFICES ASSUME IInv, FullMeansFull, [Next]_vars PROVE FullMeansFull'
  OBVIOUS
<1> USE DEF GoTo, slotVars, threadVars, envVars, vars
<1>1. ASSUME NEW t \in Threads, NEW e \in Envs, NleStart(t, e) PROVE FullMeansFull'
  BY <1>1 DEF NleStart, FullMeansFull
<1>2. ASSUME NEW t \in Threads, BeginRegister(t) PROVE FullMeansFull'
  <2>1. \A s \in Slots : ~(s < 0)
    BY DEF Slots
  <2>2. QED BY <1>2, <2>1 DEF BeginRegister, FullMeansFull, IInv, TypeOK
<1>3. ASSUME NEW t \in Threads, Claim(t) PROVE FullMeansFull'
  BY <1>3 DEF Claim, FullMeansFull
<1>4. ASSUME NEW t \in Threads, Skip(t) PROVE FullMeansFull'
  <2>1. \A s \in Slots : s < idx[t] + 1 => s < idx[t] \/ s = idx[t]
    BY <1>4 DEF Skip, Slots
  <2>2. UNCHANGED <<in_use, pc, calm>> /\ in_use[idx[t]] # 0
    BY <1>4 DEF Skip
  <2>3. \A u \in Threads : idx'[u] = IF u = t THEN idx[t] + 1 ELSE idx[u]
    BY <1>4 DEF Skip, IInv, TypeOK
  <2>4. QED BY <2>1, <2>2, <2>3 DEF FullMeansFull
<1>5. ASSUME NEW t \in Threads, RegistryFull(t) PROVE FullMeansFull'
  BY <1>5 DEF RegistryFull, FullMeansFull
<1>6. ASSUME NEW t \in Threads, Fill(t) PROVE FullMeansFull'
  BY <1>6 DEF Fill, FullMeansFull
<1>7. ASSUME NEW t \in Threads, Publish(t) PROVE FullMeansFull'
  BY <1>7 DEF Publish, FullMeansFull
<1>8. ASSUME NEW t \in Threads, NEW e \in Envs, NleStep(t, e) PROVE FullMeansFull'
  BY <1>8 DEF NleStep, FullMeansFull
<1>9. ASSUME NEW t \in Threads, BeatLoad(t) PROVE FullMeansFull'
  BY <1>9 DEF BeatLoad, FullMeansFull
<1>10. ASSUME NEW t \in Threads, BeatStore(t) PROVE FullMeansFull'
  BY <1>10 DEF BeatStore, FullMeansFull
<1>11. ASSUME NEW t \in Threads, BeatAdd(t) PROVE FullMeansFull'
  BY <1>11 DEF BeatAdd, FullMeansFull
<1>12. ASSUME NEW t \in Threads, Yield(t) PROVE FullMeansFull'
  BY <1>12 DEF Yield, FullMeansFull
<1>13. ASSUME NEW t \in Threads, Panic(t) PROVE FullMeansFull'
  <2>1. \A s \in Slots : ~(s < 0)
    BY DEF Slots
  <2>2. UNCHANGED in_use
    BY <1>13 DEF Panic
  <2>3. \A u \in Threads : pc'[u] = "scan" =>
          idx'[u] = 0 \/ (pc[u] = "scan" /\ idx'[u] = idx[u] /\ calm'[u] = calm[u])
    BY <1>13 DEF Panic, IInv, TypeOK
  <2>4. QED BY <2>1, <2>2, <2>3 DEF FullMeansFull
<1>14. ASSUME NEW t \in Threads, NEW e \in Envs, NleEnd(t, e) PROVE FullMeansFull'
  BY <1>14 DEF NleEnd, FullMeansFull
<1>15. CASE UNCHANGED vars
  BY <1>15 DEF FullMeansFull
<1>16. QED
  BY <1>1, <1>2, <1>3, <1>4, <1>5, <1>6, <1>7, <1>8, <1>9, <1>10, <1>11, <1>12, <1>13,
     <1>14, <1>15
     DEF Next, Register, Beat

\* step and heartbeat agree but for the beat that has written only the first;
\* the value a beat loaded is still the slot's when it stores it.
Steps ==
  /\ \A t \in Threads : pc[t] = "beat_add" =>
       step[sentinel[cur[t]]] = heartbeat[sentinel[cur[t]]] + 1
  /\ \A e \in Envs : sentinel[e] # None /\ (\A t \in Threads : cur[t] = e => pc[t] # "beat_add") =>
       step[sentinel[e]] = heartbeat[sentinel[e]]
  /\ \A t \in Threads : pc[t] = "beat_store" => reg[t] = step[sentinel[cur[t]]]

\* The load and the store of step are one operation: nobody else beats the slot.
LEMMA NextKeepsSteps == IInv /\ Contents /\ Steps /\ [Next]_vars => Steps'
<1> SUFFICES ASSUME IInv, Contents, Steps, [Next]_vars PROVE Steps'
  OBVIOUS
<1> USE DEF GoTo, slotVars, threadVars, envVars, vars
<1>1. ASSUME NEW t \in Threads, NEW e \in Envs, NleStart(t, e) PROVE Steps'
  BY <1>1 DEF NleStart, Steps
<1>2. ASSUME NEW t \in Threads, BeginRegister(t) PROVE Steps'
  BY <1>2 DEF BeginRegister, Steps
<1>3. ASSUME NEW t \in Threads, Claim(t) PROVE Steps'
  BY <1>3 DEF Claim, Steps
<1>4. ASSUME NEW t \in Threads, Skip(t) PROVE Steps'
  BY <1>4 DEF Skip, Steps
<1>5. ASSUME NEW t \in Threads, RegistryFull(t) PROVE Steps'
  BY <1>5 DEF RegistryFull, Steps
<1>6. ASSUME NEW t \in Threads, Fill(t) PROVE Steps'
  BY <1>6 DEF Fill, Steps, IInv, Ownership, Registration, SlotTable, Operating, Beating,
              Claiming
<1>7. ASSUME NEW t \in Threads, Publish(t) PROVE Steps'
  BY <1>7 DEF Publish, Steps, Contents, IInv, Ownership, Operating
<1>8. ASSUME NEW t \in Threads, NEW e \in Envs, NleStep(t, e) PROVE Steps'
  BY <1>8 DEF NleStep, Steps
<1>9. ASSUME NEW t \in Threads, BeatLoad(t) PROVE Steps'
  BY <1>9 DEF BeatLoad, Steps, IInv, TypeOK
<1>10. ASSUME NEW t \in Threads, BeatStore(t) PROVE Steps'
  BY <1>10 DEF BeatStore, Steps, Contents, IInv, TypeOK, Ownership, Registration,
               Operating, Beating
<1>11. ASSUME NEW t \in Threads, BeatAdd(t) PROVE Steps'
  BY <1>11 DEF BeatAdd, Steps, Contents, IInv, TypeOK, Ownership, Registration,
               Operating, Beating
<1>12. ASSUME NEW t \in Threads, Yield(t) PROVE Steps'
  BY <1>12 DEF Yield, Steps
<1>13. ASSUME NEW t \in Threads, Panic(t) PROVE Steps'
  BY <1>13 DEF Panic, Steps, IInv, TypeOK
<1>14. ASSUME NEW t \in Threads, NEW e \in Envs, NleEnd(t, e) PROVE Steps'
  BY <1>14 DEF NleEnd, Steps, IInv, Ownership, Operating
<1>15. CASE UNCHANGED vars
  BY <1>15 DEF Steps
<1>16. QED
  BY <1>1, <1>2, <1>3, <1>4, <1>5, <1>6, <1>7, <1>8, <1>9, <1>10, <1>11, <1>12, <1>13,
     <1>14, <1>15
     DEF Next, Register, Beat

-----------------------------------------------------------------------------
(* The theorems.  Each adds to IInv the invariant it depends on.           *)

\* A published slot describes the environment that owns it.
THEOREM SlotsDescribeOwners == Spec => []SlotDescribesOwner
<1>1. Init => Contents
  BY DEF Init, Contents
<1>2. IInv /\ Contents => SlotDescribesOwner
  BY DEF IInv, SlotTable, Contents, SlotDescribesOwner
<1>3. QED BY <1>1, <1>2, IInvHolds, NextKeepsContents, PTL DEF Spec

\* No beat is lost although step is loaded and stored separately.
THEOREM StepsCountBeats == Spec => []StepCountsBeats
<1>1. Init => Contents /\ Steps
  BY DEF Init, Contents, Steps
<1>2. IInv /\ Steps => StepCountsBeats
  <2>1. SUFFICES ASSUME IInv, Steps, NEW e \in Envs, sentinel[e] # None
                 PROVE  step[sentinel[e]] = heartbeat[sentinel[e]]
                   + (IF \E t \in Threads : cur[t] = e /\ pc[t] = "beat_add" THEN 1 ELSE 0)
    BY DEF StepCountsBeats
  <2>2. CASE \E t \in Threads : cur[t] = e /\ pc[t] = "beat_add"
    BY <2>1, <2>2 DEF Steps
  <2>3. CASE ~ \E t \in Threads : cur[t] = e /\ pc[t] = "beat_add"
    <3>1. step[sentinel[e]] = heartbeat[sentinel[e]]
      BY <2>1, <2>3 DEF Steps
    <3>2. heartbeat[sentinel[e]] \in Nat
      BY <2>1 DEF IInv, TypeOK
    <3>3. QED BY <2>3, <3>1, <3>2
  <2>4. QED BY <2>2, <2>3
<1>3. QED BY <1>1, <1>2, IInvHolds, NextKeepsContents, NextKeepsSteps, PTL DEF Spec

\* A fault in the game of a registered environment is reported against it.
THEOREM FaultsNameTheirEnv == Spec => []FaultNamesEnv
<1>1. Init => Contents /\ LastBeaten
  BY DEF Init, Contents, LastBeaten
<1>2. IInv /\ Contents /\ LastBeaten => FaultNamesEnv
  BY DEF IInv, Ownership, Operating, Contents, LastBeaten, FaultNamesEnv
<1>3. QED BY <1>1, <1>2, IInvHolds, NextKeepsContents, NextKeepsLastBeaten, PTL DEF Spec

\* A scan that fails while no slot is given back met a full table.
THEOREM FullIsFull == Spec => []FullMeansFull
<1>1. Init => FullMeansFull
  BY DEF Init, FullMeansFull
<1>2. QED BY <1>1, IInvHolds, NextKeepsFullMeansFull, PTL DEF Spec

-----------------------------------------------------------------------------
(* Refinement: publishing a slot acquires it, the addition to its heartbeat *)
(* is a beat, and its release frees it; every other step is a stutter.      *)

Mapped(s)  == IF in_use[s] = 1 THEN seed[s] ELSE None
Counted(s) == IF in_use[s] = 1 THEN heartbeat[s] ELSE 0

\* Every step of the table is a step of the abstract registry, or a stutter.
LEMMA StepRefines ==
  ASSUME IInv, IInv', Contents, Contents', [Next]_vars
  PROVE  [Registry!Next]_(Registry!vars)
<1> DEFINE owner == [s \in Slots |-> Mapped(s)]
           count == [s \in Slots |-> Counted(s)]
<1> USE DEF Mapped, Counted
<1>1. ASSUME NEW t \in Threads, Publish(t)
      PROVE  Registry!Next
  <2>1. PICK s \in Slots, e \in Envs :
          s = idx[t] /\ e = cur[t] /\ in_use[s] = 2 /\ sentinel[e] = None
    BY <1>1 DEF Publish, IInv, Ownership, Registration, SlotTable, Operating,
                Registering, Claiming
  <2>2. in_use' = [in_use EXCEPT ![s] = 1] /\ UNCHANGED <<seed, heartbeat>>
    BY <1>1, <2>1 DEF Publish
  <2>3. seed[s] = e /\ heartbeat[s] = 0
    BY <1>1, <2>1 DEF Publish, Contents
  <2>4. \A r \in Slots : in_use[r] = 1 => seed[r] # e
    BY <2>1, NoneAssumption DEF Contents
  <2>5. owner' = [owner EXCEPT ![s] = e]
    BY <2>1, <2>2, <2>3 DEF IInv, TypeOK
  <2>6. count' = count
    BY <2>1, <2>2, <2>3
  <2>7. owner[s] = None /\ \A r \in Slots : owner[r] # e
    BY <2>1, <2>4, NoneAssumption
  <2>8. Registry!Acquire(s, e)
    BY <2>5, <2>6, <2>7 DEF Registry!Acquire
  <2>9. QED BY <2>8 DEF Registry!Next
<1>2. ASSUME NEW t \in Threads, BeatAdd(t)
      PROVE  Registry!Next
  <2>1. PICK s \in Slots : s = sentinel[cur[t]] /\ in_use[s] = 1
    BY <1>2 DEF BeatAdd, IInv, TypeOK, Registration, SlotTable, Beating
  <2>2. heartbeat' = [heartbeat EXCEPT ![s] = @ + 1] /\ UNCHANGED <<in_use, seed>>
    BY <1>2, <2>1 DEF BeatAdd
  <2>3. owner[s] # None
    BY <2>1, NoneAssumption DEF Contents
  <2>4. count' = [count EXCEPT ![s] = @ + 1]
    BY <2>1, <2>2 DEF IInv, TypeOK
  <2>5. Registry!Advance(s)
    BY <2>2, <2>3, <2>4 DEF Registry!Advance
  <2>6. QED BY <2>5 DEF Registry!Next
<1>3. ASSUME NEW t \in Threads, NEW e \in Envs, NleEnd(t, e), sentinel[e] # None
      PROVE  Registry!Next
  <2>1. PICK s \in Slots : s = sentinel[e] /\ in_use[s] = 1
    BY <1>3 DEF IInv, TypeOK, SlotTable
  <2>2. in_use' = [in_use EXCEPT ![s] = 0] /\ UNCHANGED <<seed, heartbeat>>
    BY <1>3, <2>1 DEF NleEnd
  <2>3. owner[s] # None
    BY <2>1, NoneAssumption DEF Contents
  <2>4. in_use'[s] # 1 /\ \A r \in Slots : r # s => in_use'[r] = in_use[r]
    BY <2>2 DEF IInv, TypeOK
  <2>5. \A r \in Slots : owner'[r] = IF r = s THEN None ELSE owner[r]
    BY <2>2, <2>4
  <2>6. \A r \in Slots : count'[r] = IF r = s THEN 0 ELSE count[r]
    BY <2>2, <2>4
  <2>7. owner' = [owner EXCEPT ![s] = None] /\ count' = [count EXCEPT ![s] = 0]
    BY <2>5, <2>6
  <2>8. Registry!Release(s)
    BY <2>3, <2>7 DEF Registry!Release
  <2>9. QED BY <2>8 DEF Registry!Next
<1>4. ASSUME NEW t \in Threads, Fill(t)
      PROVE  UNCHANGED <<owner, count>>
  <2>1. in_use[idx[t]] = 2 /\ UNCHANGED in_use
    BY <1>4 DEF Fill, IInv, SlotTable, Claiming
  <2>2. \A s \in Slots : s # idx[t] => seed'[s] = seed[s] /\ heartbeat'[s] = heartbeat[s]
    BY <1>4 DEF Fill
  <2>3. QED BY <2>1, <2>2
<1>5. ASSUME NEW t \in Threads, Claim(t)
      PROVE  UNCHANGED <<owner, count>>
  BY <1>5 DEF Claim
<1>6. ASSUME UNCHANGED <<in_use, seed, heartbeat>>
      PROVE  UNCHANGED <<owner, count>>
  BY <1>6
<1>7. CASE \E t \in Threads : Publish(t) \/ BeatAdd(t) \/ Fill(t) \/ Claim(t)
  <2>1. PICK t \in Threads : Publish(t) \/ BeatAdd(t) \/ Fill(t) \/ Claim(t)
    BY <1>7
  <2>2. CASE Publish(t)
    BY <1>1, <2>2
  <2>3. CASE BeatAdd(t)
    BY <1>2, <2>3
  <2>4. CASE Fill(t) \/ Claim(t)
    BY <1>4, <1>5, <2>4 DEF Registry!vars
  <2>5. QED BY <2>1, <2>2, <2>3, <2>4
<1>8. CASE \E t \in Threads, e \in Envs : NleEnd(t, e)
  <2>1. PICK t \in Threads, e \in Envs : NleEnd(t, e)
    BY <1>8
  <2>2. CASE sentinel[e] = None
    BY <1>6, <2>1, <2>2 DEF NleEnd, Registry!vars
  <2>3. CASE sentinel[e] # None
    BY <1>3, <2>1, <2>3
  <2>4. QED BY <2>2, <2>3
<1>9. CASE \E t \in Threads : \/ \E e \in Envs : NleStart(t, e) \/ NleStep(t, e)
                              \/ BeginRegister(t) \/ Skip(t) \/ RegistryFull(t)
                              \/ BeatLoad(t) \/ BeatStore(t) \/ Yield(t) \/ Panic(t)
  BY <1>6, <1>9
     DEF NleStart, NleStep, BeginRegister, Skip, RegistryFull, BeatLoad, BeatStore,
                    Yield, Panic, slotVars, Registry!vars
<1>10. CASE UNCHANGED vars
  BY <1>6, <1>10 DEF vars, slotVars, Registry!vars
<1>11. QED BY <1>7, <1>8, <1>9, <1>10 DEF Next, Register, Beat

\* The table of slots with all its shared memory accesses implements the
\* registry whose operations are single steps.
THEOREM RegistryImplemented == Spec => ImplementsRegistry
<1>1. Init => Contents
  BY DEF Init, Contents
<1>2. Init => Registry!Init
  BY DEF Init, Registry!Init
<1>3. QED BY <1>1, <1>2, IInvHolds, NextKeepsContents, StepRefines, PTL
          DEF Spec, ImplementsRegistry, Registry!Spec

-----------------------------------------------------------------------------
(***************************************************************************)
(* Module Watchdog.                                                        *)
(***************************************************************************)

\* Who is past the dump has left a report, and so has whoever died of it.
Reports ==
  /\ \A a \in Agents : handler[a] = "raise" => reported
  /\ exit = "signal" => reported

\* The watchdog reads a heartbeat inside the table, and aborts at its second
\* unchanged poll.
Polling ==
  /\ wpc = "add" => widx # Cap
  /\ wpc # "abort" => stalled < StallPolls

WInv == IInv /\ WTypeOK /\ Polling /\ Reports

-----------------------------------------------------------------------------
\* Before the first poll nothing has been read and nobody is in the handler.
LEMMA InitWInv == WInit => WInv
<1> SUFFICES ASSUME WInit PROVE WInv
  OBVIOUS
<1>1. IInv
  BY InitIInv DEF WInit
<1>2. WTypeOK
  <2>1. {beatSince, beatBefore, freedSince, freedNow} \subseteq BOOLEAN
    BY DEF WInit
  <2>2. fired \in BOOLEAN /\ reported \in BOOLEAN /\ hung \in BOOLEAN
    BY DEF WInit
  <2>3. /\ handler \in [Agents -> {"none", "entered", "mark", "dump", "raise"}]
        /\ wpc \in {"check", "add", "judge", "sleep", "abort"}
        /\ exit \in {"no", "signal", "_exit"}
    BY DEF WInit
  <2>4. widx \in 0 .. Cap /\ wsum \in Nat /\ last \in Nat \cup {None} /\ stalled \in 0 .. StallPolls
    BY CapAssumption DEF WInit, StallPolls
  <2>5. QED BY <1>1, <2>1, <2>2, <2>3, <2>4 DEF WTypeOK, IInv
<1>3. Polling /\ Reports
  BY DEF WInit, Polling, Reports, StallPolls
<1>4. QED BY <1>1, <1>2, <1>3 DEF WInv

\* The registry cannot tell whether it is watched: a step of the watchdog, of the
\* handler or of a hang leaves it alone, and a step of a worker is one of its own.
LEMMA WStepIsStep == [WNext]_wvars => [Next]_vars
<1> SUFFICES ASSUME [WNext]_wvars PROVE [Next]_vars
  OBVIOUS
<1>1. CASE UNCHANGED wvars
  BY <1>1 DEF wvars
<1>2. CASE WatchdogStep
  BY <1>2 DEF WatchdogStep, PollCheck, PollAdd, Progress, NothingLive, Stall, Wake
<1>3. CASE Hang
  BY <1>3 DEF Hang
<1>4. ASSUME NEW t \in Threads, Fault(t) PROVE UNCHANGED vars
  BY <1>4 DEF Fault
<1>5. ASSUME NEW a \in Agents, CrashHandler(a) PROVE UNCHANGED vars
  BY <1>5 DEF CrashHandler, FirstFault, SecondFault, Mark, Dump, Raise
<1>6. ASSUME NEW t \in Threads, WorkerStep(t) PROVE Next
  BY <1>6 DEF WorkerStep, Next
<1>7. QED BY <1>1, <1>2, <1>3, <1>4, <1>5, <1>6 DEF WNext

\* A poll stays within the table, and aborts with its report written.
LEMMA WatchdogStepKeepsWInv ==
  ASSUME WInv, WatchdogStep, IInv'
  PROVE  WTypeOK' /\ Polling' /\ Reports'
<1> USE CapAssumption DEF WInv, WTypeOK, Polling, Reports, IInv, StallPolls
<1>1. CASE PollCheck
  BY <1>1 DEF PollCheck, vars, crashVars, ghostVars
<1>2. CASE PollAdd
  <2>1. widx \in Slots
    BY <1>2 DEF PollAdd, Slots
  <2>2. heartbeat[widx] \in Nat
    BY <2>1 DEF TypeOK
  <2>3. widx' \in 0 .. Cap /\ wsum' \in Nat
    BY <1>2, <2>1, <2>2 DEF PollAdd, Slots
  <2>4. QED BY <1>2, <2>3 DEF PollAdd, vars, crashVars, ghostVars
<1>3. CASE Progress
  <2>1. {beatSince', beatBefore', freedSince', freedNow'} \subseteq BOOLEAN
    BY <1>3 DEF Progress
  <2>2. last' \in Nat /\ stalled' = 0 /\ wpc' = "sleep" /\ UNCHANGED <<widx, wsum, crashVars, hung>>
    BY <1>3 DEF Progress
  <2>3. QED BY <2>1, <2>2 DEF crashVars
<1>4. CASE NothingLive
  BY <1>4 DEF NothingLive, vars, crashVars, ghostVars
<1>5. CASE Stall
  <2>1. stalled' = stalled + 1 /\ UNCHANGED <<widx, wsum, last, ghostVars, hung>>
    BY <1>5 DEF Stall
  <2>2. CASE stalled' < StallPolls
    BY <1>5, <2>1, <2>2 DEF Stall, crashVars, ghostVars
  <2>3. CASE ~(stalled' < StallPolls)
    <3>1. /\ wpc' = "abort" /\ reported' = TRUE
          /\ handler' = [handler EXCEPT ![Dog] = "entered"] /\ UNCHANGED <<fired, exit>>
      BY <1>5, <2>3 DEF Stall
    <3>2. handler' \in [Agents -> {"none", "entered", "mark", "dump", "raise"}]
      BY <3>1
    <3>3. stalled' \in 0 .. StallPolls
      BY <1>5, <2>1 DEF Stall
    <3>4. QED BY <2>1, <3>1, <3>2, <3>3 DEF ghostVars
  <2>4. QED BY <2>2, <2>3
<1>6. CASE Wake
  <2>1. {beatSince', beatBefore', freedSince', freedNow'} \subseteq BOOLEAN
    BY <1>6 DEF Wake
  <2>2. /\ wpc' = "check" /\ widx' = 0 /\ wsum' = 0
        /\ UNCHANGED <<last, stalled, crashVars, hung>>
    BY <1>6 DEF Wake
  <2>3. QED BY <1>6, <2>1, <2>2 DEF Wake, crashVars
<1>7. QED BY <1>1, <1>2, <1>3, <1>4, <1>5, <1>6, WatchdogStep DEF WatchdogStep

\* The handler comes to raise its signal by way of the dump only.
LEMMA CrashKeepsWInv ==
  ASSUME WInv, IInv', NEW a \in Agents, CrashHandler(a)
  PROVE  WTypeOK' /\ Polling' /\ Reports'
<1> USE DEF WInv, WTypeOK, Polling, Reports, IInv
<1>1. CASE FirstFault(a)
  BY <1>1 DEF FirstFault, vars, dogVars, ghostVars
<1>2. CASE SecondFault(a)
  BY <1>2 DEF SecondFault, vars, dogVars, ghostVars
<1>3. CASE Mark(a)
  BY <1>3 DEF Mark, vars, dogVars, ghostVars
<1>4. CASE Dump(a)
  BY <1>4 DEF Dump, vars, dogVars, ghostVars
<1>5. CASE Raise(a)
  BY <1>5 DEF Raise, vars, dogVars, ghostVars
<1>6. QED BY <1>1, <1>2, <1>3, <1>4, <1>5 DEF CrashHandler

\* The invariant of the watched process is inductive.
LEMMA WNextKeepsWInv == WInv /\ [WNext]_wvars => WInv'
<1> SUFFICES ASSUME WInv, [WNext]_wvars PROVE WInv'
  OBVIOUS
<1>1. IInv'
  BY WStepIsStep, NextKeepsIInv DEF WInv
<1>2. CASE UNCHANGED wvars
  BY <1>1, <1>2 DEF wvars, dogVars, crashVars, ghostVars, WInv, WTypeOK, Polling, Reports, IInv
<1>3. CASE WatchdogStep
  BY <1>1, <1>3, WatchdogStepKeepsWInv DEF WInv
<1>4. CASE Hang
  BY <1>1, <1>4 DEF Hang, dogVars, crashVars, ghostVars, WInv, WTypeOK, Polling, Reports, IInv
<1>5. ASSUME NEW t \in Threads, Fault(t) PROVE WInv'
  BY <1>1, <1>5 DEF Fault, dogVars, ghostVars, Agents, WInv, WTypeOK, Polling, Reports, IInv
<1>6. ASSUME NEW a \in Agents, CrashHandler(a) PROVE WInv'
  BY <1>1, <1>6, CrashKeepsWInv DEF WInv
<1>7. ASSUME NEW t \in Threads, WorkerStep(t) PROVE WInv'
  <2>1. {beatSince', beatBefore', freedSince', freedNow'} \subseteq BOOLEAN
    BY <1>7 DEF WorkerStep, WInv, WTypeOK
  <2>2. QED
    BY <1>1, <1>7, <2>1 DEF WorkerStep, dogVars, crashVars, WInv, WTypeOK, Polling, Reports, IInv
<1>8. QED BY <1>2, <1>3, <1>4, <1>5, <1>6, <1>7 DEF WNext

-----------------------------------------------------------------------------
\* Every reachable state satisfies the inductive invariant.
THEOREM WInvHolds == WSpec => []WInv
  BY InitWInv, WNextKeepsWInv, PTL DEF WSpec

\* A watched process is a process of Sentinel: all that SentinelProofs proves of
\* the registry holds while it is polled, and up to the death of the process.
THEOREM WatchedIsSentinel == WSpec => Spec
<1>1. WInit => Init
  BY DEF WInit
<1>2. QED BY <1>1, WStepIsStep, PTL DEF WSpec, Spec

\* The watchdog's and the handler's variables keep their types: the poll never
\* reads past the table, whatever the workers do to it.
THEOREM WatchdogTypes == WSpec => []WTypeOK
<1>1. WInv => WTypeOK
  BY DEF WInv
<1>2. QED BY <1>1, WInvHolds, PTL

\* A process that dies of its signal has left a whole report, whoever faulted and
\* however many handlers overlap.
THEOREM DeathsAreReported == WSpec => []DeathIsReported
<1>1. WInv => DeathIsReported
  BY DEF WInv, Reports, DeathIsReported
<1>2. QED BY <1>1, WInvHolds, PTL

-----------------------------------------------------------------------------
(***************************************************************************)
(* What a poll adds up.  The workers step while it reads one slot after    *)
(* the other, so its sum is none of an instant.  But as long as no slot is *)
(* released a published heartbeat only grows: the sum of the reference     *)
(* poll, slot by slot, is a lower bound for the next poll, and a beat in   *)
(* between raises some slot above it.                                      *)
(***************************************************************************)
Pub(s) == IF in_use[s] = 1 THEN heartbeat[s] ELSE 0

\* S[i] was the sum of the reference poll when it came to slot i.
Reference(S) ==
  /\ S[0] = 0 /\ (last # None => S[Cap] = last)
  /\ \A i \in Slots : S[i] <= S[i + 1]
  /\ ~freedSince => \A i \in Slots : S[i + 1] <= S[i] + Pub(i)
  /\ ~freedSince /\ beatSince => \E i \in Slots : S[i + 1] < S[i] + Pub(i)

\* T[i] was the sum of the poll under way when it came to slot i.
UnderWay(T) ==
  /\ T[0] = 0
  /\ wpc \in {"check", "add", "judge"} =>
       /\ T[widx] = wsum
       /\ \A i \in Slots : i < widx => T[i] <= T[i + 1]
       /\ ~freedNow => \A i \in Slots : i < widx => T[i + 1] <= T[i] + Pub(i)

\* The poll under way stays above the reference, and a beat before it began is
\* in its sum already or in a slot still ahead.
Ahead(S) ==
  wpc \in {"check", "add", "judge"} /\ ~freedSince =>
    /\ S[widx] <= wsum
    /\ beatBefore => \/ S[widx] < wsum
                     \/ \E i \in Slots : i >= widx /\ S[i + 1] < S[i] + Pub(i)

\* Where the poll is, and what an abort means.
Position ==
  /\ freedNow => freedSince
  /\ wpc = "add" => widx \in Slots /\ (~freedNow => in_use[widx] = 1)
  /\ wpc = "judge" => widx = Cap
  /\ AbortMeansStall

Sums == [0 .. Cap -> Nat]

PollInv ==
  /\ Position
  /\ \E S \in Sums : Reference(S) /\ Ahead(S)
  /\ \E T \in Sums : UnderWay(T)

-----------------------------------------------------------------------------
\* As long as no slot is released, published heartbeats only grow.
Grows == \A s \in Slots : in_use[s] = 1 => in_use'[s] = 1 /\ heartbeat[s] <= heartbeat'[s]

\* A claim, the filling of a claimed slot and a beat leave no published count behind.
LEMMA PublishedOnlyGrow ==
  ASSUME IInv, IInv', Next, ~ \E s \in Slots : in_use[s] = 1 /\ in_use'[s] = 0
  PROVE  Grows
<1> USE CapAssumption DEF Grows
<1>1. CASE UNCHANGED <<in_use, heartbeat>>
  BY <1>1 DEF IInv, TypeOK
<1>2. ASSUME NEW t \in Threads, Claim(t) PROVE Grows
  BY <1>2 DEF Claim, IInv, TypeOK
<1>3. ASSUME NEW t \in Threads, Fill(t) PROVE Grows
  <2>1. in_use[idx[t]] = 2 /\ UNCHANGED in_use
    BY <1>3 DEF Fill, IInv, SlotTable, Claiming
  <2>2. \A s \in Slots : s # idx[t] => heartbeat'[s] = heartbeat[s]
    BY <1>3 DEF Fill
  <2>3. QED BY <2>1, <2>2 DEF IInv, TypeOK
<1>4. ASSUME NEW t \in Threads, Publish(t) PROVE Grows
  BY <1>4 DEF Publish, IInv, TypeOK
<1>5. ASSUME NEW t \in Threads, BeatAdd(t) PROVE Grows
  <2>1. UNCHANGED in_use /\ heartbeat' = [heartbeat EXCEPT ![sentinel[cur[t]]] = @ + 1]
    BY <1>5 DEF BeatAdd
  <2>2. \A s \in Slots : heartbeat[s] <= heartbeat'[s]
    BY <2>1 DEF IInv, TypeOK
  <2>3. QED BY <2>1, <2>2
<1>6. ASSUME NEW t \in Threads, NEW e \in Envs, NleEnd(t, e) PROVE Grows
  <2>1. CASE sentinel[e] = None
    BY <1>1, <1>6, <2>1 DEF NleEnd
  <2>2. CASE sentinel[e] # None
    <3>1. sentinel[e] \in Slots /\ in_use[sentinel[e]] = 1
      BY <2>2 DEF IInv, TypeOK, SlotTable
    <3>2. in_use'[sentinel[e]] = 0
      BY <1>6, <2>2, <3>1 DEF NleEnd, IInv, TypeOK
    <3>3. QED BY <3>1, <3>2
  <2>3. QED BY <2>1, <2>2
<1>7. CASE \E t \in Threads : \/ \E e \in Envs : NleStart(t, e) \/ NleStep(t, e)
                              \/ BeginRegister(t) \/ Skip(t) \/ RegistryFull(t)
                              \/ BeatLoad(t) \/ BeatStore(t) \/ Yield(t) \/ Panic(t)
  BY <1>1, <1>7
     DEF NleStart, NleStep, BeginRegister, Skip, RegistryFull, BeatLoad, BeatStore,
         Yield, Panic, slotVars
<1>8. QED BY <1>2, <1>3, <1>4, <1>5, <1>6, <1>7 DEF Next, Register, Beat

\* Only a beat changes the number of steps begun, and it is a published one.
LEMMA BeatIsPublished ==
  ASSUME IInv, Next, beats' # beats
  PROVE  \E s \in Slots : in_use[s] = 1 /\ in_use'[s] = 1 /\ heartbeat[s] < heartbeat'[s]
<1>1. PICK t \in Threads : BeatAdd(t)
  BY DEF Next, Register, Beat, NleStart, NleStep, NleEnd, BeginRegister, Claim, Skip,
         RegistryFull, Fill, Publish, BeatLoad, BeatStore, Yield, Panic, envVars
<1>2. PICK s \in Slots : s = sentinel[cur[t]] /\ in_use[s] = 1
  BY <1>1 DEF BeatAdd, IInv, TypeOK, Ownership, Operating, Registration, SlotTable, Beating
<1>3. in_use' = in_use /\ heartbeat'[s] = heartbeat[s] + 1
  BY <1>1, <1>2 DEF BeatAdd, IInv, TypeOK
<1>4. heartbeat[s] \in Nat
  BY DEF IInv, TypeOK
<1>5. QED BY <1>2, <1>3, <1>4

\* What the workers' steps leave true of the poll: its variables stand still, the
\* published counts grow or a release is noted, and a beat shows in one of them.
WorkersRun ==
  /\ UNCHANGED <<dogVars, beatBefore>>
  /\ freedSince => freedSince'
  /\ freedNow => freedNow' /\ freedSince'
  /\ freedNow' => freedSince'
  /\ ~freedSince' \/ ~freedNow' => Grows
  /\ beatSince' => \/ beatSince
                   \/ freedSince'
                   \/ \E s \in Slots : Pub(s) < (Pub(s))'

\* A step of a worker is all that WorkersRun says, whichever operation it is of.
LEMMA WorkerRuns ==
  ASSUME WInv, WInv', Position, NEW t \in Threads, WorkerStep(t)
  PROVE  WorkersRun
<1>1. Next
  BY DEF WorkerStep, Next
<1>2. beatSince \in BOOLEAN /\ freedSince \in BOOLEAN /\ freedNow \in BOOLEAN
  BY DEF WInv, WTypeOK
<1>3. UNCHANGED <<dogVars, beatBefore>>
  BY DEF WorkerStep
<1>4. CASE \E s \in Slots : in_use[s] = 1 /\ in_use'[s] = 0
  <2>1. freedSince' = TRUE /\ freedNow' = TRUE
    BY <1>2, <1>4 DEF WorkerStep
  <2>2. QED BY <1>3, <2>1 DEF WorkersRun
<1>5. CASE ~ \E s \in Slots : in_use[s] = 1 /\ in_use'[s] = 0
  <2>1. freedSince' = freedSince /\ freedNow' = freedNow
    BY <1>2, <1>5 DEF WorkerStep
  <2>2. Grows
    BY <1>1, <1>5, PublishedOnlyGrow DEF WInv
  <2>3. CASE beats' = beats
    <3>1. beatSince' = beatSince
      BY <1>2, <2>3 DEF WorkerStep
    <3>2. QED BY <1>3, <2>1, <2>2, <3>1 DEF WorkersRun, Position
  <2>4. CASE beats' # beats
    <3>1. \E s \in Slots : Pub(s) < (Pub(s))'
      BY <1>1, <2>4, BeatIsPublished DEF WInv, Pub
    <3>2. QED BY <1>3, <2>1, <2>2, <3>1 DEF WorkersRun, Position
  <2>5. QED BY <2>3, <2>4
<1>6. QED BY <1>4, <1>5

\* A published count that only grows.
LEMMA PubGrows ==
  ASSUME IInv, IInv', Grows, NEW s \in Slots
  PROVE  Pub(s) \in Nat /\ (Pub(s))' \in Nat /\ Pub(s) <= (Pub(s))'
BY DEF Grows, Pub, IInv, TypeOK

\* What the workers do between two reads of the poll does not hurt its bounds.
LEMMA WorkersKeepPollInv ==
  ASSUME WInv, WInv', PollInv, WorkersRun
  PROVE  PollInv'
<1> USE CapAssumption
<1>0. IInv /\ IInv'
  BY DEF WInv
<1>1. UNCHANGED <<wpc, widx, wsum, last, beatBefore>> /\ widx \in 0 .. Cap /\ wsum \in Nat
  BY DEF WorkersRun, dogVars, WInv, WTypeOK
<1>2. \A i \in Slots : i \in 0 .. Cap /\ i + 1 \in 0 .. Cap
  BY DEF Slots
<1>3. Position'
  BY <1>1 DEF PollInv, Position, AbortMeansStall, WorkersRun, Grows
<1>4. ASSUME NEW S \in Sums, Reference(S), Ahead(S)
      PROVE  Reference(S)' /\ Ahead(S)'
  <2>1. \A i \in Slots : S[i] \in Nat /\ S[i + 1] \in Nat
    BY <1>2 DEF Sums
  <2>2. CASE freedSince'
    BY <1>1, <1>4, <2>2 DEF Reference, Ahead
  <2>3. CASE ~freedSince'
    <3>1. ~freedSince /\ Grows
      BY <2>3 DEF WorkersRun
    <3>2. \A i \in Slots : Pub(i) \in Nat /\ (Pub(i))' \in Nat /\ Pub(i) <= (Pub(i))'
      BY <1>0, <3>1, PubGrows
    <3>3. \A i \in Slots : S[i + 1] <= S[i] + Pub(i)
      BY <1>4, <3>1 DEF Reference
    <3>4. \A i \in Slots : S[i + 1] <= S[i] + (Pub(i))'
      BY <2>1, <3>2, <3>3
    <3>5. \A i \in Slots : S[i + 1] < S[i] + Pub(i) => S[i + 1] < S[i] + (Pub(i))'
      BY <2>1, <3>2
    <3>6. beatSince' => \E i \in Slots : S[i + 1] < S[i] + (Pub(i))'
      <4>1. CASE beatSince
        BY <1>4, <3>1, <3>5, <4>1 DEF Reference
      <4>2. CASE \E s \in Slots : Pub(s) < (Pub(s))'
        BY <2>1, <3>2, <3>3, <4>2
      <4>3. QED BY <2>3, <4>1, <4>2 DEF WorkersRun
    <3>7. Reference(S)'
      BY <1>1, <1>4, <3>4, <3>6 DEF Reference
    <3>8. Ahead(S)'
      BY <1>1, <1>4, <3>1, <3>5 DEF Ahead
    <3>9. QED BY <3>7, <3>8
  <2>4. QED BY <2>2, <2>3
<1>5. ASSUME NEW T \in Sums, UnderWay(T)
      PROVE  UnderWay(T)'
  <2>1. \A i \in Slots : T[i] \in Nat /\ T[i + 1] \in Nat
    BY <1>2 DEF Sums
  <2>2. CASE freedNow'
    BY <1>1, <1>5, <2>2 DEF UnderWay
  <2>3. CASE ~freedNow'
    <3>1. ~freedNow /\ Grows
      BY <2>3 DEF WorkersRun
    <3>2. \A i \in Slots : Pub(i) \in Nat /\ (Pub(i))' \in Nat /\ Pub(i) <= (Pub(i))'
      BY <1>0, <3>1, PubGrows
    <3>3. \A i \in Slots : T[i + 1] <= T[i] + Pub(i) => T[i + 1] <= T[i] + (Pub(i))'
      BY <2>1, <3>2
    <3>4. QED BY <1>1, <1>5, <3>1, <3>3 DEF UnderWay
  <2>4. QED BY <2>2, <2>3
<1>6. QED BY <1>3, <1>4, <1>5 DEF PollInv

-----------------------------------------------------------------------------
\* Nothing has been added up, and there is no reference yet.
LEMMA InitPollInv == WInit => PollInv
<1> SUFFICES ASSUME WInit PROVE PollInv
  OBVIOUS
<1> DEFINE Z == [i \in 0 .. Cap |-> 0]
<1> USE CapAssumption
<1>1. Z \in Sums /\ Z[0] = 0 /\ \A i \in Slots : Z[i] = 0 /\ Z[i + 1] = 0
  BY DEF Sums, Slots
<1> HIDE DEF Z
<1>2. /\ wpc = "check" /\ widx = 0 /\ wsum = 0 /\ last = None
      /\ ~beatSince /\ ~beatBefore /\ ~freedSince /\ ~freedNow
      /\ \A s \in Slots : Pub(s) = 0
  BY DEF WInit, Init, Pub
<1>3. Position
  BY <1>2 DEF Position, AbortMeansStall
<1>4. Reference(Z) /\ Ahead(Z)
  BY <1>1, <1>2 DEF Reference, Ahead
<1>5. UnderWay(Z)
  BY <1>1, <1>2 DEF UnderWay, Slots
<1>6. QED BY <1>1, <1>3, <1>4, <1>5 DEF PollInv

\* The poll passes a slot: one that is not published adds nothing to the sum, a
\* published one what it holds at the second access.
LEMMA PassSlotKeepsPollInv ==
  ASSUME WInv, PollInv, wpc \in {"check", "add"}, widx \in Slots,
         wpc' = "check", widx' = widx + 1, wsum' = wsum + Pub(widx),
         UNCHANGED <<vars, last, ghostVars>>
  PROVE  PollInv'
<1> USE CapAssumption
<1>1. /\ widx \in 0 .. Cap /\ widx + 1 \in 0 .. Cap /\ wsum \in Nat
      /\ \A i \in Slots : i \in 0 .. Cap /\ i + 1 \in 0 .. Cap
  BY DEF WInv, WTypeOK, Slots
<1>2. \A i \in Slots : Pub(i) \in Nat /\ (Pub(i))' = Pub(i)
  BY DEF WInv, IInv, TypeOK, Pub, vars, slotVars
<1>3. UNCHANGED <<last, beatSince, beatBefore, freedSince, freedNow>>
  BY DEF ghostVars
<1>4. Position'
  BY <1>3 DEF PollInv, Position, AbortMeansStall
<1>5. ASSUME NEW S \in Sums, Reference(S), Ahead(S)
      PROVE  Reference(S)' /\ Ahead(S)'
  <2>1. \A i \in Slots : S[i] \in Nat /\ S[i + 1] \in Nat
    BY <1>1 DEF Sums
  <2>2. Reference(S)'
    BY <1>2, <1>3, <1>5 DEF Reference
  <2>3. ASSUME ~freedSince PROVE S[widx + 1] <= wsum + Pub(widx)
    BY <1>1, <1>2, <1>5, <2>1, <2>3 DEF Reference, Ahead
  <2>4. ASSUME ~freedSince, beatBefore
        PROVE  \/ S[widx + 1] < wsum + Pub(widx)
               \/ \E i \in Slots : i >= widx + 1 /\ S[i + 1] < S[i] + Pub(i)
    <3>1. S[widx] <= wsum /\ S[widx + 1] <= S[widx] + Pub(widx)
      BY <1>5, <2>4 DEF Reference, Ahead
    <3>2. CASE S[widx] < wsum
      BY <1>1, <1>2, <2>1, <3>1, <3>2
    <3>3. ASSUME NEW i \in Slots, i >= widx, S[i + 1] < S[i] + Pub(i)
          PROVE  \/ S[widx + 1] < wsum + Pub(widx)
                 \/ i >= widx + 1
      <4>1. CASE i = widx
        BY <1>1, <1>2, <2>1, <3>1, <3>3, <4>1
      <4>2. CASE i # widx
        BY <1>1, <3>3, <4>2
      <4>3. QED BY <4>1, <4>2
    <3>4. QED BY <1>5, <2>4, <3>2, <3>3 DEF Ahead
  <2>5. Ahead(S)'
    BY <1>2, <1>3, <2>3, <2>4 DEF Ahead
  <2>6. QED BY <2>2, <2>5
<1>6. ASSUME NEW T \in Sums, UnderWay(T)
      PROVE  \E U \in Sums : UnderWay(U)'
  <2>0. /\ [T EXCEPT ![widx + 1] = wsum + Pub(widx)] \in Sums
        /\ T \in [0 .. Cap -> Nat]
    BY <1>1, <1>2 DEF Sums
  <2>1. PICK U \in Sums : U = [T EXCEPT ![widx + 1] = wsum + Pub(widx)]
    BY <2>0
  <2>2. /\ U[widx + 1] = wsum + Pub(widx)
        /\ \A i \in 0 .. Cap : i # widx + 1 => U[i] = T[i]
    BY <1>1, <2>0, <2>1
  <2>3. U[0] = 0 /\ U[widx] = wsum
    BY <1>1, <1>6, <2>2 DEF UnderWay
  <2>4. \A i \in Slots : i < widx + 1 => \/ i = widx
                                         \/ i < widx /\ U[i] = T[i] /\ U[i + 1] = T[i + 1]
    BY <1>1, <2>2
  <2>5. \A i \in Slots : i < widx + 1 => U[i] <= U[i + 1]
    BY <1>1, <1>2, <1>6, <2>2, <2>3, <2>4 DEF UnderWay
  <2>6. ~freedNow => \A i \in Slots : i < widx + 1 => U[i + 1] <= U[i] + Pub(i)
    BY <1>1, <1>2, <1>6, <2>2, <2>3, <2>4 DEF UnderWay
  <2>7. UnderWay(U)'
    BY <1>2, <1>3, <2>2, <2>3, <2>5, <2>6 DEF UnderWay
  <2>8. QED BY <2>7
<1>7. QED BY <1>4, <1>5, <1>6 DEF PollInv

\* The watchdog's own steps: at the end of a poll that moved on, its sums become
\* the reference; one that equals the reference has had no beat to pass over.
LEMMA DogKeepsPollInv ==
  ASSUME WInv, WInv', PollInv, WatchdogStep
  PROVE  PollInv'
<1> USE CapAssumption
<1>1. /\ \A i \in Slots : i \in 0 .. Cap /\ i + 1 \in 0 .. Cap
      /\ widx \in 0 .. Cap /\ wsum \in Nat /\ (widx # Cap => widx \in Slots)
  BY DEF WInv, WTypeOK, Slots
<1>2. PICK S \in Sums : Reference(S) /\ Ahead(S)
  BY DEF PollInv
<1>3. PICK T \in Sums : UnderWay(T)
  BY DEF PollInv
<1>4. ASSUME UNCHANGED vars PROVE \A i \in Slots : Pub(i) \in Nat /\ (Pub(i))' = Pub(i)
  BY <1>4 DEF WInv, IInv, TypeOK, Pub, vars, slotVars
<1>5. CASE PollCheck
  <2>1. /\ wpc = "check" /\ UNCHANGED <<vars, wsum, last>>
        /\ UNCHANGED <<beatSince, beatBefore, freedSince, freedNow>>
    BY <1>5 DEF PollCheck, ghostVars
  <2>2. ASSUME UNCHANGED widx, wpc' = "add" => widx \in Slots /\ in_use[widx] = 1,
               wpc' = "judge" => widx = Cap, wpc' \in {"add", "judge"}
        PROVE  PollInv'
    <3>1. Position'
      BY <2>1, <2>2 DEF PollInv, Position, AbortMeansStall, vars, slotVars
    <3>2. Reference(S)' /\ Ahead(S)' /\ UnderWay(T)'
      BY <1>2, <1>3, <1>4, <2>1, <2>2 DEF Reference, Ahead, UnderWay
    <3>3. QED BY <3>1, <3>2 DEF PollInv
  <2>3. CASE widx = Cap
    BY <1>5, <2>2, <2>3 DEF PollCheck
  <2>4. CASE widx # Cap /\ in_use[widx] = 1
    BY <1>1, <1>5, <2>2, <2>4 DEF PollCheck
  <2>5. CASE widx # Cap /\ in_use[widx] # 1
    <3>1. Pub(widx) = 0 /\ wsum' = wsum + Pub(widx)
      BY <1>1, <2>1, <2>5 DEF Pub
    <3>2. wpc' = "check" /\ widx' = widx + 1
      BY <1>5, <2>1, <2>5 DEF PollCheck
    <3>3. QED BY <1>1, <1>5, <2>1, <2>5, <3>1, <3>2, PassSlotKeepsPollInv DEF PollCheck
  <2>6. QED BY <2>3, <2>4, <2>5
<1>6. CASE PollAdd
  <2>1. /\ wpc = "add" /\ wpc' = "check" /\ widx' = widx + 1 /\ widx \in Slots
        /\ wsum' = wsum + heartbeat[widx] /\ UNCHANGED <<vars, last, ghostVars>>
    BY <1>6 DEF PollAdd, PollInv, Position
  <2>2. CASE in_use[widx] = 1
    <3>1. wsum' = wsum + Pub(widx)
      BY <2>1, <2>2 DEF Pub
    <3>2. QED BY <2>1, <3>1, PassSlotKeepsPollInv
  <2>3. CASE in_use[widx] # 1
    <3>1. freedNow /\ freedSince
      BY <2>1, <2>3 DEF PollInv, Position
    <3>2. UNCHANGED <<beatSince, beatBefore, freedSince, freedNow>>
      BY <2>1 DEF ghostVars
    <3>3. Position'
      BY <2>1, <3>2 DEF PollInv, Position, AbortMeansStall
    <3>4. Reference(S)' /\ Ahead(S)'
      BY <1>2, <2>1, <3>1, <3>2 DEF Reference, Ahead
    <3>5. heartbeat[widx] \in Nat /\ widx + 1 \in 0 .. Cap
      BY <1>1, <2>1 DEF WInv, IInv, TypeOK
    <3>6. /\ [T EXCEPT ![widx + 1] = wsum + heartbeat[widx]] \in Sums
          /\ T \in [0 .. Cap -> Nat]
      <4>0. \A h \in Nat : wsum + h \in Nat
        BY <1>1
      <4>1. T \in [0 .. Cap -> Nat] /\ wsum + heartbeat[widx] \in Nat
        BY <3>5, <4>0 DEF Sums
      <4>2. ASSUME NEW n \in Nat PROVE [T EXCEPT ![widx + 1] = n] \in Sums
        BY <4>1, <3>5 DEF Sums
      <4>3. QED BY <4>1, <4>2
    <3>7. PICK U \in Sums : U = [T EXCEPT ![widx + 1] = wsum + heartbeat[widx]]
      BY <3>6
    <3>8. /\ U[widx + 1] = wsum + heartbeat[widx]
          /\ \A i \in 0 .. Cap : i # widx + 1 => U[i] = T[i]
      BY <3>5, <3>6, <3>7
    <3>9. U[0] = 0 /\ U[widx] = wsum
      BY <1>1, <1>3, <2>1, <3>8 DEF UnderWay
    <3>10. \A i \in Slots : i < widx + 1 => \/ i = widx
                                            \/ i < widx /\ U[i] = T[i] /\ U[i + 1] = T[i + 1]
      BY <1>1, <3>8
    <3>11. \A i \in Slots : i < widx + 1 => U[i] <= U[i + 1]
      BY <1>1, <1>3, <2>1, <3>5, <3>8, <3>9, <3>10 DEF UnderWay
    <3>12. UnderWay(U)'
      BY <2>1, <3>1, <3>2, <3>8, <3>9, <3>11 DEF UnderWay
    <3>13. QED BY <3>3, <3>4, <3>12 DEF PollInv
  <2>4. QED BY <2>2, <2>3
<1>7. CASE Progress
  <2>1. /\ wpc = "judge" /\ wpc' = "sleep" /\ last' = wsum /\ ~beatSince'
        /\ freedSince' = freedNow /\ UNCHANGED <<vars, widx, wsum, beatBefore, freedNow>>
    BY <1>7 DEF Progress
  <2>2. widx = Cap /\ T[Cap] = wsum
    BY <1>3, <2>1 DEF PollInv, Position, UnderWay
  <2>3. Position'
    BY <2>1 DEF PollInv, Position, AbortMeansStall
  <2>4. \A i \in Slots : i < widx
    BY <2>2 DEF Slots
  <2>5. Reference(T)' /\ Ahead(T)'
    BY <1>3, <1>4, <2>1, <2>2, <2>4 DEF Reference, Ahead, UnderWay
  <2>6. UnderWay(T)'
    BY <1>3, <2>1 DEF UnderWay
  <2>7. QED BY <2>3, <2>5, <2>6 DEF PollInv
<1>8. CASE NothingLive
  <2>1. wpc' = "sleep" /\ UNCHANGED <<vars, widx, wsum, last>>
    BY <1>8 DEF NothingLive
  <2>2. UNCHANGED <<beatSince, beatBefore, freedSince, freedNow>>
    BY <1>8 DEF NothingLive, ghostVars
  <2>3. Position'
    BY <2>1, <2>2 DEF PollInv, Position, AbortMeansStall
  <2>4. Reference(S)' /\ Ahead(S)' /\ UnderWay(T)'
    BY <1>2, <1>3, <1>4, <2>1, <2>2 DEF Reference, Ahead, UnderWay
  <2>5. QED BY <2>3, <2>4 DEF PollInv
<1>9. CASE Stall
  <2>1. /\ wpc = "judge" /\ wsum = last /\ wpc' \in {"sleep", "abort"}
        /\ UNCHANGED <<vars, widx, wsum, last>>
    BY <1>9 DEF Stall
  <2>2. UNCHANGED <<beatSince, beatBefore, freedSince, freedNow>>
    BY <1>9 DEF Stall, ghostVars
  <2>3. widx = Cap /\ S[Cap] = wsum
    BY <1>1, <1>2, <2>1, DogAssumption DEF PollInv, Position, Reference
  <2>4. ~freedSince => ~beatBefore
    <3>1. \A i \in Slots : ~(i >= widx)
      BY <2>3 DEF Slots
    <3>2. ~(S[widx] < wsum)
      BY <1>1, <2>3
    <3>3. QED BY <1>2, <2>1, <3>1, <3>2 DEF Ahead
  <2>5. Position'
    BY <2>1, <2>2, <2>4 DEF PollInv, Position, AbortMeansStall
  <2>6. Reference(S)' /\ Ahead(S)' /\ UnderWay(T)'
    BY <1>2, <1>3, <1>4, <2>1, <2>2 DEF Reference, Ahead, UnderWay
  <2>7. QED BY <2>5, <2>6 DEF PollInv
<1>10. CASE Wake
  <2>1. /\ wpc' = "check" /\ widx' = 0 /\ wsum' = 0 /\ beatBefore' = beatSince /\ ~freedNow'
        /\ UNCHANGED <<vars, last, beatSince, freedSince>>
    BY <1>10 DEF Wake
  <2>2. Position'
    BY <2>1 DEF PollInv, Position, AbortMeansStall
  <2>3. Reference(S)'
    BY <1>2, <1>4, <2>1 DEF Reference
  <2>4. Ahead(S)'
    BY <1>2, <1>4, <2>1 DEF Ahead, Reference, Slots
  <2>5. UnderWay(T)'
    BY <1>3, <2>1 DEF UnderWay, Slots
  <2>6. QED BY <2>2, <2>3, <2>4, <2>5 DEF PollInv
<1>11. QED BY <1>5, <1>6, <1>7, <1>8, <1>9, <1>10 DEF WatchdogStep

\* The bounds of the poll hold after every step, given the invariant WInv.
LEMMA WNextKeepsPollInv == WInv /\ WInv' /\ PollInv /\ [WNext]_wvars => PollInv'
<1> SUFFICES ASSUME WInv, WInv', PollInv, [WNext]_wvars PROVE PollInv'
  OBVIOUS
<1>1. ASSUME UNCHANGED <<vars, dogVars, ghostVars>>
      PROVE  PollInv'
  <2>1. \A i \in Slots : (Pub(i))' = Pub(i)
    BY <1>1 DEF Pub, vars, slotVars
  <2>2. UNCHANGED <<in_use, wpc, widx, wsum, last, beatSince, beatBefore, freedSince, freedNow>>
    BY <1>1 DEF vars, slotVars, dogVars, ghostVars
  <2>3. Position'
    BY <2>2 DEF PollInv, Position, AbortMeansStall
  <2>4. PICK S \in Sums : Reference(S) /\ Ahead(S)
    BY DEF PollInv
  <2>5. PICK T \in Sums : UnderWay(T)
    BY DEF PollInv
  <2>6. Reference(S)' /\ Ahead(S)'
    BY <2>1, <2>2, <2>4 DEF Reference, Ahead
  <2>7. UnderWay(T)'
    BY <2>1, <2>2, <2>5 DEF UnderWay
  <2>8. QED BY <2>3, <2>6, <2>7 DEF PollInv
<1>2. CASE UNCHANGED wvars
  BY <1>1, <1>2 DEF wvars
<1>3. CASE WatchdogStep
  BY <1>3, DogKeepsPollInv
<1>4. CASE Hang
  BY <1>1, <1>4 DEF Hang
<1>5. ASSUME NEW t \in Threads, Fault(t) PROVE PollInv'
  BY <1>1, <1>5 DEF Fault
<1>6. ASSUME NEW a \in Agents, CrashHandler(a) PROVE PollInv'
  BY <1>1, <1>6 DEF CrashHandler, FirstFault, SecondFault, Mark, Dump, Raise
<1>7. ASSUME NEW t \in Threads, WorkerStep(t) PROVE PollInv'
  BY <1>7, WorkerRuns, WorkersKeepPollInv DEF PollInv
<1>8. QED BY <1>2, <1>3, <1>4, <1>5, <1>6, <1>7 DEF WNext

\* Every poll stays above the reference as long as no slot is released.
THEOREM PollsAreBounded == WSpec => []PollInv
  BY InitPollInv, WInvHolds, WNextKeepsPollInv, PTL DEF WSpec

\* The watchdog aborts no process that steps: when no slot was released since the
\* reference poll, no step began between the two polls that were compared, although
\* neither sum is one of an instant; for any number of threads and slots.
THEOREM AbortsMeanStalls == WSpec => []AbortMeansStall
<1>1. PollInv => AbortMeansStall
  BY DEF PollInv, Position
<1>2. QED BY <1>1, PollsAreBounded, PTL
=============================================================================
