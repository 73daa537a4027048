------------------------------ MODULE Deadlines ------------------------------
(***************************************************************************)
(* What the timers of timeout.c promise to the rest of the game: an object *)
(* may have one running timer per timeout function, which keeps its due    *)
(* time wherever the object and the hero go, until it is stopped or goes   *)
(* off, and never goes off early.  That timers are kept in a sorted list,  *)
(* and written to level files and read back, is not seen here: module      *)
(* TimerQueue implements this one.                                         *)
(***************************************************************************)
EXTENDS Integers

CONSTANTS
  Objs,    \* objects
  Funcs,   \* indices of timeout functions
  Off      \* no timer is running

VARIABLES
  now,     \* monstermoves
  due      \* [Objs \X Funcs -> Int \cup {Off}]

vars == <<now, due>>

Init == now \in Nat /\ due = [x \in Objs \X Funcs |-> Off]

Tick == now' = now + 1 /\ UNCHANGED due

\* A timer is started for any time, past or future.
Start(x) ==
  /\ due[x] = Off
  /\ due'[x] \in Int /\ due' = [due EXCEPT ![x] = due'[x]]
  /\ UNCHANGED now

\* A timer is stopped before it goes off.
Stop(x) ==
  /\ due[x] # Off
  /\ due' = [due EXCEPT ![x] = Off]
  /\ UNCHANGED now

\* An object without timers gets those of another.
Split(o, p) ==
  /\ \A f \in Funcs : due[<<p, f>>] = Off
  /\ due' = [x \in Objs \X Funcs |-> IF x[1] = p THEN due[<<o, x[2]>>] ELSE due[x]]
  /\ UNCHANGED now

\* An object ceases to be, and with it its timers.
End(o) ==
  /\ due' = [x \in Objs \X Funcs |-> IF x[1] = o THEN Off ELSE due[x]]
  /\ UNCHANGED now

\* The timer of o for f goes off, at its time or later.  The object is unchanged,
\* destroyed, or has another timer (again) that is due later.
GoOff(o, f) ==
  LET fired == [due EXCEPT ![<<o, f>>] = Off] IN
  /\ due[<<o, f>>] # Off /\ due[<<o, f>>] <= now
  /\ \/ due' = fired
     \/ due' = [x \in Objs \X Funcs |-> IF x[1] = o THEN Off ELSE due[x]]
     \/ \E g \in Funcs :
          LET x == <<o, g>> IN
          /\ fired[x] = Off /\ due'[x] # Off /\ due'[x] > now
          /\ due' = [fired EXCEPT ![x] = due'[x]]
  /\ UNCHANGED now

Next ==
  \/ Tick
  \/ \E o \in Objs : End(o) \/ \E p \in Objs : Split(o, p)
  \/ \E o \in Objs, f \in Funcs : Start(<<o, f>>) \/ Stop(<<o, f>>) \/ GoOff(o, f)

Spec == Init /\ [][Next]_vars
=============================================================================
