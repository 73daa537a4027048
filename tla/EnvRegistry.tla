----------------------------- MODULE EnvRegistry -----------------------------
(***************************************************************************)
(* What the sentinel registry of nle_sentinel.c promises to a reader that  *)
(* only looks at published slots: a table of slots, each free or owned by  *)
(* one environment, with the number of steps its owner began.  Acquiring,  *)
(* beating and releasing a slot are single steps here; the many shared     *)
(* memory accesses they take are in module Sentinel, which implements it.  *)
(***************************************************************************)
EXTENDS Naturals

CONSTANTS
  Slots,    \* the indices of g_slots
  Envs,     \* the environments
  NoEnv     \* owner of a free slot

VARIABLES
  owner,    \* [Slots -> Envs \cup {NoEnv}]
  count     \* [Slots -> Nat], steps begun by the owner

vars == <<owner, count>>

Init ==
  /\ owner = [s \in Slots |-> NoEnv]
  /\ count = [s \in Slots |-> 0]

\* A free slot becomes the slot of an environment that has none.
Acquire(s, e) ==
  /\ owner[s] = NoEnv
  /\ \A r \in Slots : owner[r] # e
  /\ owner' = [owner EXCEPT ![s] = e]
  /\ UNCHANGED count

\* The owner begins one more step.
Advance(s) ==
  /\ owner[s] # NoEnv
  /\ count' = [count EXCEPT ![s] = @ + 1]
  /\ UNCHANGED owner

\* The owner ends; the slot and its count are free for reuse.
Release(s) ==
  /\ owner[s] # NoEnv
  /\ owner' = [owner EXCEPT ![s] = NoEnv]
  /\ count' = [count EXCEPT ![s] = 0]

Next ==
  \E s \in Slots :
    \/ \E e \in Envs : Acquire(s, e)
    \/ Advance(s)
    \/ Release(s)

Spec == Init /\ [][Next]_vars
=============================================================================
