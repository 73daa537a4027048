------------------------------ MODULE Sentinel ------------------------------
(***************************************************************************)
(* The registry of running environments (nle_sentinel.c) and the calls of  *)
(* nle.c and end.c that drive it.  Threads of one process run environments *)
(* in parallel; an environment is driven by one thread at a time but may   *)
(* move to another thread between calls.  Every access to the shared table *)
(* that another thread can interleave with is a step of its own.           *)
(*                                                                         *)
(* A slot's in_use is 0 (free), 2 (being claimed) or 1 (published).  The   *)
(* fields last_action, dlvl and thread are written beside step and read    *)
(* only by the report, so they are left out.                               *)
(***************************************************************************)
EXTENDS Naturals

CONSTANTS
  Threads,   \* threads that call nle_start, nle_step and nle_end
  Envs,      \* environments over the life of the process
  Cap,       \* NLE_SENTINEL_CAP
  MaxBeats,  \* bound on the steps of one environment
  None       \* no environment, no slot: NULL

Slots == 0 .. Cap - 1

ASSUME CapAssumption == Cap \in Nat /\ MaxBeats \in Nat
ASSUME NoneAssumption == None \notin Envs /\ None \notin Slots

VARIABLES
  in_use,    \* [Slots -> {0, 1, 2}]
  seed,      \* [Slots -> environment whose seed the slot holds]
  heartbeat, \* [Slots -> Nat]
  step,      \* [Slots -> Nat]
  panic_msg, \* [Slots -> environment whose panic text the slot holds, or None]
  tls,       \* g_tls: [Threads -> slot the thread last stepped, or None]
  sentinel,  \* nle->sentinel: [Envs -> slot or None]
  env,       \* [Envs -> "new", "busy", "idle", "done", "ended"]
  beats,     \* [Envs -> steps the environment has begun] (history)
  pc,        \* [Threads -> what the thread is doing]
  cur,       \* [Threads -> environment it is doing it to]
  idx,       \* [Threads -> the loop index i of nle_sentinel_register]
  reg,       \* [Threads -> value of step loaded by nle_sentinel_beat]
  calm       \* [Threads -> no slot was released since its scan began] (history)

slotVars   == <<in_use, seed, heartbeat, step, panic_msg>>
threadVars == <<tls, pc, cur, idx, reg, calm>>
envVars    == <<sentinel, env, beats>>
vars       == <<slotVars, threadVars, envVars>>

\* Thread t goes on at program point l; the other threads stay where they are.
GoTo(t, l) == pc' = [pc EXCEPT ![t] = l]

Init ==
  /\ in_use    = [s \in Slots |-> 0]
  /\ seed      = [s \in Slots |-> None]
  /\ heartbeat = [s \in Slots |-> 0]
  /\ step      = [s \in Slots |-> 0]
  /\ panic_msg = [s \in Slots |-> None]
  /\ tls       = [t \in Threads |-> None]
  /\ sentinel  = [e \in Envs |-> None]
  /\ env       = [e \in Envs |-> "new"]
  /\ beats     = [e \in Envs |-> 0]
  /\ pc        = [t \in Threads |-> "idle"]
  /\ cur       = [t \in Threads |-> None]
  /\ idx       = [t \in Threads |-> 0]
  /\ reg       = [t \in Threads |-> 0]
  /\ calm      = [t \in Threads |-> TRUE]

-----------------------------------------------------------------------------
(* nle_start: the game runs to its first prompt, then a slot is claimed.   *)

NleStart(t, e) ==
  /\ pc[t] = "idle" /\ env[e] = "new"
  /\ env' = [env EXCEPT ![e] = "busy"]
  /\ cur' = [cur EXCEPT ![t] = e]
  /\ GoTo(t, "starting")
  /\ UNCHANGED <<slotVars, sentinel, beats, tls, idx, reg, calm>>

\* Mutant: the scan begins at slot 1.
BeginRegisterAtOne(t) ==
  /\ pc[t] = "starting"
  /\ idx' = [idx EXCEPT ![t] = 1]
  /\ calm' = [calm EXCEPT ![t] = TRUE]
  /\ GoTo(t, "scan")
  /\ UNCHANGED <<slotVars, envVars, tls, cur, reg>>

\* The first jump_fcontext returns; nle_sentinel_register begins at slot 0.
BeginRegister(t) ==
  /\ pc[t] = "starting"
  /\ idx' = [idx EXCEPT ![t] = 0]
  /\ calm' = [calm EXCEPT ![t] = TRUE]
  /\ GoTo(t, "scan")
  /\ UNCHANGED <<slotVars, envVars, tls, cur, reg>>

\* Mutant: a slot that another thread is claiming counts as free.
ClaimUnpublished(t) ==
  /\ pc[t] = "scan" /\ idx[t] \in Slots
  /\ in_use[idx[t]] # 1
  /\ in_use' = [in_use EXCEPT ![idx[t]] = 2]
  /\ GoTo(t, "fill")
  /\ UNCHANGED <<seed, heartbeat, step, panic_msg, envVars, tls, cur, idx, reg, calm>>

\* Mutant: the slot is published when it is claimed, before it is filled.
ClaimPublished(t) ==
  /\ pc[t] = "scan" /\ idx[t] \in Slots
  /\ in_use[idx[t]] = 0
  /\ in_use' = [in_use EXCEPT ![idx[t]] = 1]
  /\ GoTo(t, "fill")
  /\ UNCHANGED <<seed, heartbeat, step, panic_msg, envVars, tls, cur, idx, reg, calm>>

\* The compare-and-swap of in_use from 0 to 2 succeeds.
Claim(t) ==
  /\ pc[t] = "scan" /\ idx[t] \in Slots
  /\ in_use[idx[t]] = 0
  /\ in_use' = [in_use EXCEPT ![idx[t]] = 2]
  /\ GoTo(t, "fill")
  /\ UNCHANGED <<seed, heartbeat, step, panic_msg, envVars, tls, cur, idx, reg, calm>>

\* The compare-and-swap fails; the loop goes on.
Skip(t) ==
  /\ pc[t] = "scan" /\ idx[t] \in Slots
  /\ in_use[idx[t]] # 0
  /\ idx' = [idx EXCEPT ![t] = @ + 1]
  /\ UNCHANGED <<slotVars, envVars, tls, pc, cur, reg, calm>>

\* Every slot was taken when it was looked at: the environment runs untracked.
RegistryFull(t) ==
  /\ pc[t] = "scan" /\ idx[t] = Cap
  /\ env' = [env EXCEPT ![cur[t]] = "idle"]
  /\ GoTo(t, "idle")
  /\ UNCHANGED <<slotVars, sentinel, beats, tls, cur, idx, reg, calm>>

\* Mutant: the heartbeat of the slot's last owner is kept.
FillKeepsHeartbeat(t) ==
  /\ pc[t] = "fill"
  /\ step'      = [step EXCEPT ![idx[t]] = 0]
  /\ seed'      = [seed EXCEPT ![idx[t]] = cur[t]]
  /\ panic_msg' = [panic_msg EXCEPT ![idx[t]] = None]
  /\ GoTo(t, "publish")
  /\ UNCHANGED <<heartbeat, in_use, envVars, tls, cur, idx, reg, calm>>

\* Mutant: the step count of the slot's last owner is kept.
FillKeepsStep(t) ==
  /\ pc[t] = "fill"
  /\ heartbeat' = [heartbeat EXCEPT ![idx[t]] = 0]
  /\ seed'      = [seed EXCEPT ![idx[t]] = cur[t]]
  /\ panic_msg' = [panic_msg EXCEPT ![idx[t]] = None]
  /\ GoTo(t, "publish")
  /\ UNCHANGED <<step, in_use, envVars, tls, cur, idx, reg, calm>>

\* The fields of the claimed slot are set.
Fill(t) ==
  LET s == idx[t] IN
  /\ pc[t] = "fill"
  /\ heartbeat' = [heartbeat EXCEPT ![s] = 0]
  /\ step'      = [step EXCEPT ![s] = 0]
  /\ seed'      = [seed EXCEPT ![s] = cur[t]]
  /\ panic_msg' = [panic_msg EXCEPT ![s] = None]
  /\ GoTo(t, "publish")
  /\ UNCHANGED <<in_use, envVars, tls, cur, idx, reg, calm>>

\* in_use becomes 1 and the slot is the environment's.
Publish(t) ==
  /\ pc[t] = "publish"
  /\ in_use'   = [in_use EXCEPT ![idx[t]] = 1]
  /\ sentinel' = [sentinel EXCEPT ![cur[t]] = idx[t]]
  /\ env'      = [env EXCEPT ![cur[t]] = "idle"]
  /\ GoTo(t, "idle")
  /\ UNCHANGED <<seed, heartbeat, step, panic_msg, beats, tls, cur, idx, reg, calm>>

-----------------------------------------------------------------------------
(* nle_step: a beat, then the game runs until it asks for the next action.  *)

NleStep(t, e) ==
  /\ pc[t] = "idle" /\ env[e] = "idle"
  /\ beats[e] < MaxBeats
  /\ env' = [env EXCEPT ![e] = "busy"]
  /\ cur' = [cur EXCEPT ![t] = e]
  /\ GoTo(t, IF sentinel[e] = None THEN "playing" ELSE "beat")
  /\ UNCHANGED <<slotVars, sentinel, beats, tls, idx, reg, calm>>

\* step is read and written by two separate accesses.
BeatLoad(t) ==
  /\ pc[t] = "beat"
  /\ reg' = [reg EXCEPT ![t] = step[sentinel[cur[t]]]]
  /\ GoTo(t, "beat_store")
  /\ UNCHANGED <<slotVars, envVars, tls, cur, idx, calm>>

\* Mutant: g_tls is set only by the first beat of an environment.
BeatStoreTlsFirst(t) ==
  LET s == sentinel[cur[t]] IN
  /\ pc[t] = "beat_store"
  /\ step' = [step EXCEPT ![s] = reg[t] + 1]
  /\ tls' = IF reg[t] = 0 THEN [tls EXCEPT ![t] = s] ELSE tls
  /\ GoTo(t, "beat_add")
  /\ UNCHANGED <<in_use, seed, heartbeat, panic_msg, envVars, cur, idx, reg, calm>>

BeatStore(t) ==
  LET s == sentinel[cur[t]] IN
  /\ pc[t] = "beat_store"
  /\ step' = [step EXCEPT ![s] = reg[t] + 1]
  /\ tls' = [tls EXCEPT ![t] = s]
  /\ GoTo(t, "beat_add")
  /\ UNCHANGED <<in_use, seed, heartbeat, panic_msg, envVars, cur, idx, reg, calm>>

\* The atomic_fetch_add of heartbeat.
BeatAdd(t) ==
  LET s == sentinel[cur[t]] IN
  /\ pc[t] = "beat_add"
  /\ heartbeat' = [heartbeat EXCEPT ![s] = @ + 1]
  /\ beats' = [beats EXCEPT ![cur[t]] = @ + 1]
  /\ GoTo(t, "playing")
  /\ UNCHANGED <<in_use, seed, step, panic_msg, sentinel, env, tls, cur, idx, reg, calm>>

\* The game yields at a prompt, or with NULL because it is over.
Yield(t) ==
  /\ pc[t] = "playing"
  /\ \E after \in {"idle", "done"} : env' = [env EXCEPT ![cur[t]] = after]
  /\ GoTo(t, "idle")
  /\ UNCHANGED <<slotVars, sentinel, beats, tls, cur, idx, reg, calm>>

\* panic(): the text goes to the environment's slot or, when it has none, to
\* the slot this thread last beat; really_done() then ends the game.  In
\* nle_start the environment has no slot yet, and is registered all the same.
Panic(t) ==
  LET s == IF sentinel[cur[t]] # None THEN sentinel[cur[t]] ELSE tls[t] IN
  /\ pc[t] \in {"starting", "playing"}
  /\ panic_msg' = IF s = None THEN panic_msg ELSE [panic_msg EXCEPT ![s] = cur[t]]
  /\ IF pc[t] = "playing"
       THEN /\ env' = [env EXCEPT ![cur[t]] = "done"]
            /\ GoTo(t, "idle")
            /\ UNCHANGED <<idx, calm>>
       ELSE /\ idx' = [idx EXCEPT ![t] = 0]
            /\ calm' = [calm EXCEPT ![t] = TRUE]
            /\ GoTo(t, "scan")
            /\ UNCHANGED env
  /\ UNCHANGED <<in_use, seed, heartbeat, step, sentinel, beats, tls, cur, reg>>

-----------------------------------------------------------------------------
(* nle_end: the slot is given back first; only this thread's g_tls can be  *)
(* cleared.                                                                *)

NleEnd(t, e) ==
  LET s == sentinel[e] IN
  /\ pc[t] = "idle" /\ env[e] \in {"idle", "done"}
  /\ env' = [env EXCEPT ![e] = "ended"]
  /\ sentinel' = [sentinel EXCEPT ![e] = None]
  /\ IF s = None
       THEN UNCHANGED <<in_use, tls, calm>>
       ELSE /\ tls' = IF tls[t] = s THEN [tls EXCEPT ![t] = None] ELSE tls
            /\ in_use' = [in_use EXCEPT ![s] = 0]
            /\ calm' = [u \in Threads |-> FALSE]
  /\ UNCHANGED <<seed, heartbeat, step, panic_msg, beats, pc, cur, idx, reg>>

-----------------------------------------------------------------------------
Register(t) ==
  \/ BeginRegister(t) \/ Claim(t) \/ Skip(t) \/ RegistryFull(t)
  \/ Fill(t) \/ Publish(t)

Beat(t) == BeatLoad(t) \/ BeatStore(t) \/ BeatAdd(t)

Next ==
  \E t \in Threads :
    \/ \E e \in Envs : NleStart(t, e) \/ NleStep(t, e) \/ NleEnd(t, e)
    \/ Register(t) \/ Beat(t) \/ Yield(t) \/ Panic(t)

Spec == Init /\ [][Next]_vars
-----------------------------------------------------------------------------
(***************************************************************************)
(* Properties                                                              *)
(***************************************************************************)

\* Every variable keeps its type; in_use never leaves the three values the
\* registration protocol of nle_sentinel_register uses.
TypeOK ==
  /\ in_use    \in [Slots -> 0 .. 2]
  /\ seed      \in [Slots -> Envs \cup {None}]
  /\ heartbeat \in [Slots -> Nat]
  /\ step      \in [Slots -> Nat]
  /\ panic_msg \in [Slots -> Envs \cup {None}]
  /\ tls       \in [Threads -> Slots \cup {None}]
  /\ sentinel  \in [Envs -> Slots \cup {None}]
  /\ env       \in [Envs -> {"new", "busy", "idle", "done", "ended"}]
  /\ beats     \in [Envs -> Nat]
  /\ pc        \in [Threads -> {"idle", "starting", "scan", "fill", "publish",
                               "beat", "beat_store", "beat_add", "playing"}]
  /\ cur       \in [Threads -> Envs \cup {None}]
  /\ idx       \in [Threads -> 0 .. Cap]
  /\ reg       \in [Threads -> Nat]
  /\ calm      \in [Threads -> BOOLEAN]

Claiming(t)  == pc[t] \in {"fill", "publish"}
Operating(t) == pc[t] # "idle"
Beating(t)   == pc[t] \in {"beat", "beat_store", "beat_add"}

\* No two environments ever share a slot, and a slot being claimed is nobody
\* else's, however registrations, ends and scans of different threads overlap.
SlotExclusive ==
  /\ \A d, e \in Envs : sentinel[d] # None /\ sentinel[d] = sentinel[e] => d = e
  /\ \A t \in Threads : Claiming(t) =>
       /\ in_use[idx[t]] = 2
       /\ \A e \in Envs : sentinel[e] # idx[t]
       /\ \A u \in Threads : Claiming(u) /\ idx[u] = idx[t] => u = t

\* A published slot describes the environment that holds it: the report's seed
\* is that environment's and its heartbeat is the number of steps it began, so
\* no reuse of a slot loses or inherits a beat.
SlotDescribesOwner ==
  \A e \in Envs : sentinel[e] # None =>
    /\ in_use[sentinel[e]] = 1
    /\ seed[sentinel[e]] = e
    /\ heartbeat[sentinel[e]] = beats[e]

\* step, which is loaded and stored by separate accesses, still counts every
\* beat: it is ahead of heartbeat only between the two writes of one beat.
StepCountsBeats ==
  \A e \in Envs : sentinel[e] # None =>
    step[sentinel[e]] = heartbeat[sentinel[e]]
      + (IF \E t \in Threads : cur[t] = e /\ pc[t] = "beat_add" THEN 1 ELSE 0)

\* While a thread runs the game of a registered environment inside nle_step, a
\* fault on that thread is reported against this environment (dump_report
\* reads g_tls), even when the environment or the slot moved between threads.
FaultNamesEnv ==
  \A t \in Threads :
    pc[t] = "playing" /\ sentinel[cur[t]] # None =>
      /\ tls[t] = sentinel[cur[t]]
      /\ seed[tls[t]] = cur[t]

\* If no slot was given back since a scan began, the slots the scan has passed
\* are still taken: a NULL from nle_sentinel_register then means "registry full".
FullMeansFull ==
  \A t \in Threads :
    pc[t] = "scan" /\ calm[t] => \A s \in Slots : s < idx[t] => in_use[s] # 0

\* A reader of published slots sees the registry of module EnvRegistry: slots
\* appear complete, their counts grow by one and they vanish as a whole.
Registry == INSTANCE EnvRegistry WITH
  NoEnv <- None,
  owner <- [s \in Slots |-> IF in_use[s] = 1 THEN seed[s] ELSE None],
  count <- [s \in Slots |-> IF in_use[s] = 1 THEN heartbeat[s] ELSE 0]

ImplementsRegistry == Registry!Spec

\* What docs/crash-hang-sentinel-design.md says of panic(): the message is
\* copied into the current environment's slot, so a slot holds no other
\* environment's panic.
PanicInOwnSlot ==
  \A s \in Slots : in_use[s] = 1 => panic_msg[s] \in {None, seed[s]}
=============================================================================
