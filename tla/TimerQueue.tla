------------------------------ MODULE TimerQueue ------------------------------
(***************************************************************************)
(* The timers of objects (timeout.c), with what moves objects and levels   *)
(* (mkobj.c, do.c) as far as timers depend on it.  The active timers are a *)
(* list ordered by due time; those of objects that stay on a level leave   *)
(* it when the hero does, are written to the level's file, and return to   *)
(* the list with the level.  obj->timed counts the timers of an object,    *)
(* and an object is deleted without a look at the list when it is 0.       *)
(***************************************************************************)
EXTENDS Lists, Integers, Sequences, SequencesExt, FiniteSets

CONSTANTS
  Objs,      \* objects
  Funcs,     \* indices of timeout functions
  Levels,    \* levels
  Delays,    \* the values of start_timer's argument when
  MaxTime,   \* bound on monstermoves
  Off        \* no timer is running

ASSUME TimeAssumption == MaxTime \in Nat \ {0} /\ Delays \subseteq Int /\ Off \notin Int

VARIABLES
  now,     \* monstermoves
  cur,     \* the level the hero is on
  where,   \* obj->where: "free", "hero" (carried), "level", "migrating"
  lev,     \* the level an object is on, or migrates to
  timed,   \* obj->timed
  queue,   \* timer_base
  store,   \* [Levels -> the timers in the level's file]
  running  \* run_timers is at work

objVars == <<where, lev>>
vars == <<now, cur, objVars, timed, queue, store, running>>

Timer == [obj : Objs, func : Funcs, due : Int]

Init ==
  /\ now = 1 /\ cur \in Levels
  /\ where = [o \in Objs |-> "free"] /\ lev = [o \in Objs |-> cur]
  /\ timed = [o \in Objs |-> 0]
  /\ queue = <<>> /\ store = [l \in Levels |-> <<>>]
  /\ running = FALSE

\* Mutant: a timer is put at the head of the list.
InsertFirst(q, tm) == <<tm>> \o q

\* insert_timer: before the first timer that is not sooner.
Insert(q, tm) ==
  LET i == CHOOSE k \in 1 .. Len(q) + 1 :
             /\ \A j \in 1 .. k - 1 : q[j].due < tm.due
             /\ k = Len(q) + 1 \/ q[k].due >= tm.due
  IN InsertAt(q, i, tm)

\* The timers of the list s are inserted into q one after the other.
InsertAll(q, s) ==
  LET merged[i \in 1 .. Len(s) + 1] ==
        IF i = 1 THEN q ELSE Insert(merged[i - 1], s[i - 1])
  IN merged[Len(s) + 1]

Has(q, o, f) == \E i \in DOMAIN q : q[i].obj = o /\ q[i].func = f

\* The timers of o, and one of them.
TimersOf(o) == {tm \in Timer : tm.obj = o}
TimerFor(o, f) == {tm \in Timer : tm.obj = o /\ tm.func = f}

\* Of the list q, the timers of o, and the timers of other objects.
Of(q, o) == Filter(q, TimersOf(o))
Without(q, o) == Filter(q, Timer \ TimersOf(o))

\* The object can be reached by the code: it is carried or on this level.
Here(o) == where[o] \in {"hero", "level"} /\ lev[o] = cur

-----------------------------------------------------------------------------
(* Objects come, move and go.                                              *)

\* A new object, not timed yet, on the floor.
Create(o) ==
  /\ ~running /\ where[o] = "free"
  /\ where' = [where EXCEPT ![o] = "level"] /\ lev' = [lev EXCEPT ![o] = cur]
  /\ UNCHANGED <<now, cur, timed, queue, store, running>>

\* The hero picks it up or drops it.
Carry(o) ==
  /\ ~running /\ Here(o)
  /\ where' = [where EXCEPT ![o] = IF @ = "hero" THEN "level" ELSE "hero"]
  /\ UNCHANGED <<now, cur, lev, timed, queue, store, running>>

\* It falls down a hole: on its way to level l until the hero comes there.
Migrate(o, l) ==
  /\ ~running /\ Here(o) /\ l # cur
  /\ where' = [where EXCEPT ![o] = "migrating"] /\ lev' = [lev EXCEPT ![o] = l]
  /\ UNCHANGED <<now, cur, timed, queue, store, running>>

\* dealloc_obj, with its check of obj->timed, and obj_stop_timers.
Free(o, q) ==
  /\ where' = [where EXCEPT ![o] = "free"] /\ UNCHANGED lev
  /\ queue' = IF timed[o] > 0 THEN Without(q, o) ELSE q
  /\ timed' = [timed EXCEPT ![o] = 0]

Delete(o) ==
  /\ ~running /\ Here(o)
  /\ Free(o, queue)
  /\ UNCHANGED <<now, cur, store, running>>

\* For each timer of the list s one for p, due at the same time.
Clones(s, p) == [i \in DOMAIN s |-> [obj |-> p, func |-> s[i].func, due |-> s[i].due]]

\* Mutant: splitobj keeps the count it copied with the object's structure.
SplitObjCopiesTimed(o, p) ==
  LET clones == Clones(Of(queue, o), p) IN
  /\ ~running /\ Here(o) /\ where[p] = "free"
  /\ where' = [where EXCEPT ![p] = where[o]] /\ lev' = [lev EXCEPT ![p] = cur]
  /\ queue' = IF timed[o] = 0 THEN queue ELSE InsertAll(queue, clones)
  /\ timed' = [timed EXCEPT ![p] = timed[o] + (IF timed[o] = 0 THEN 0 ELSE Len(clones))]
  /\ UNCHANGED <<now, cur, store, running>>

\* splitobj: the new part of the stack is not timed until obj_split_timers has
\* started a timer for it for each one of the stack.
SplitObj(o, p) ==
  LET clones == Clones(Of(queue, o), p) IN
  /\ ~running /\ Here(o) /\ where[p] = "free"
  /\ where' = [where EXCEPT ![p] = where[o]] /\ lev' = [lev EXCEPT ![p] = cur]
  /\ queue' = IF timed[o] = 0 THEN queue ELSE InsertAll(queue, clones)
  /\ timed' = [timed EXCEPT ![p] = IF timed[o] = 0 THEN 0 ELSE Len(clones)]
  /\ UNCHANGED <<now, cur, store, running>>

-----------------------------------------------------------------------------
(* start_timer and stop_timer                                              *)

\* The list and the count after start_timer; a duplicate is refused.
Started(q, o, f, when) ==
  IF Has(q, o, f) THEN q ELSE Insert(q, [obj |-> o, func |-> f, due |-> now + when])

StartTimer(o, f, when) ==
  /\ ~running /\ Here(o)
  /\ queue' = Started(queue, o, f, when)
  /\ timed' = [timed EXCEPT ![o] = IF Has(queue, o, f) THEN @ ELSE @ + 1]
  /\ UNCHANGED <<now, cur, objVars, store, running>>

\* Mutant: the count is lowered even when there is no such timer.
StopTimerUnfound(o, f) ==
  /\ ~running /\ Here(o)
  /\ queue' = Filter(queue, Timer \ TimerFor(o, f))
  /\ timed' = [timed EXCEPT ![o] = @ - 1]
  /\ UNCHANGED <<now, cur, objVars, store, running>>

StopTimer(o, f) ==
  /\ ~running /\ Here(o) /\ Has(queue, o, f)
  /\ queue' = Filter(queue, Timer \ TimerFor(o, f))
  /\ timed' = [timed EXCEPT ![o] = @ - 1]
  /\ UNCHANGED <<now, cur, objVars, store, running>>

-----------------------------------------------------------------------------
(* A turn, and run_timers                                                  *)

\* nh_timeout returns before run_timers while the hero is praying.
Tick ==
  /\ ~running /\ now < MaxTime
  /\ now' = now + 1
  /\ running' \in BOOLEAN
  /\ UNCHANGED <<cur, objVars, timed, queue, store>>

\* The function of the timer that went off leaves the object alone, destroys it,
\* or starts a timer for it for a later turn.
Effect(o, q) ==
  \/ queue' = q /\ timed' = [timed EXCEPT ![o] = @ - 1] /\ UNCHANGED objVars
  \/ /\ where' = [where EXCEPT ![o] = "free"] /\ UNCHANGED lev
     /\ queue' = IF timed[o] > 1 THEN Without(q, o) ELSE q
     /\ timed' = [timed EXCEPT ![o] = 0]
  \/ \E f \in Funcs, when \in Delays :
       /\ when >= 1 /\ ~Has(q, o, f)
       /\ queue' = Started(q, o, f, when)
       /\ UNCHANGED <<timed, objVars>>

\* Mutant: a timer goes off a turn early.
FireEarly ==
  /\ running /\ queue # <<>> /\ Head(queue).due <= now + 1
  /\ Effect(Head(queue).obj, Tail(queue))
  /\ UNCHANGED <<now, cur, store, running>>

\* The first timer is due: it leaves the list, and its function is called.
Fire ==
  /\ running /\ queue # <<>> /\ Head(queue).due <= now
  /\ Effect(Head(queue).obj, Tail(queue))
  /\ UNCHANGED <<now, cur, store, running>>

RunDone ==
  /\ running /\ (queue # <<>> => Head(queue).due > now)
  /\ running' = FALSE
  /\ UNCHANGED <<now, cur, objVars, timed, queue, store>>

-----------------------------------------------------------------------------
(* A level change: save_timers and restore_timers with RANGE_LEVEL          *)

\* timer_is_local: the object (obj_is_local) stays where the level is saved.
LocalTimers == {tm \in Timer : where[tm.obj] = "level"}

\* Mutant: the timers of objects on their way are saved with the level too.
GotoLevelSavesMigrating(l) ==
  LET stays == {tm \in Timer : where[tm.obj] # "hero"}
      kept == Filter(queue, Timer \ stays) IN
  /\ ~running /\ l # cur
  /\ store' = [store EXCEPT ![cur] = Filter(queue, stays), ![l] = <<>>]
  /\ queue' = InsertAll(kept, store[l])
  /\ cur' = l
  /\ where' = [o \in Objs |-> IF where[o] = "migrating" /\ lev[o] = l THEN "level" ELSE where[o]]
  /\ lev' = [o \in Objs |-> IF where[o] = "hero" THEN l ELSE lev[o]]
  /\ running' = TRUE
  /\ UNCHANGED <<now, timed>>

\* The local timers are written with the level and freed, those in the file of
\* the new level are inserted; what was migrating there is delivered; then the
\* timers that went off in the meantime run.
GotoLevel(l) ==
  LET kept == Filter(queue, Timer \ LocalTimers) IN
  /\ ~running /\ l # cur
  /\ store' = [store EXCEPT ![cur] = Filter(queue, LocalTimers), ![l] = <<>>]
  /\ queue' = InsertAll(kept, store[l])
  /\ cur' = l
  /\ where' = [o \in Objs |-> IF where[o] = "migrating" /\ lev[o] = l THEN "level" ELSE where[o]]
  /\ lev' = [o \in Objs |-> IF where[o] = "hero" THEN l ELSE lev[o]]
  /\ running' = TRUE
  /\ UNCHANGED <<now, timed>>

-----------------------------------------------------------------------------
Next ==
  \/ Tick \/ Fire \/ RunDone
  \/ \E o \in Objs :
       \/ Create(o) \/ Carry(o) \/ Delete(o)
       \/ \E l \in Levels : Migrate(o, l)
       \/ \E p \in Objs : SplitObj(o, p)
       \/ \E f \in Funcs : StopTimer(o, f) \/ \E w \in Delays : StartTimer(o, f, w)
  \/ \E l \in Levels : GotoLevel(l)

Spec == Init /\ [][Next]_vars

-----------------------------------------------------------------------------
(***************************************************************************)
(* Properties                                                              *)
(***************************************************************************)

\* The list, the files and the objects keep their types.
TypeOK ==
  /\ now \in 1 .. MaxTime /\ cur \in Levels /\ running \in BOOLEAN
  /\ where \in [Objs -> {"free", "hero", "level", "migrating"}]
  /\ lev \in [Objs -> Levels] /\ timed \in [Objs -> Nat]
  /\ queue \in Seq(Timer) /\ store \in [Levels -> Seq(Timer)]

\* All timers, in the list or in a file.
AllTimers == ToSet(queue) \cup UNION { ToSet(store[l]) : l \in Levels }

\* obj->timed is the number of the object's timers, also while they are in a
\* level's file: else dealloc_obj leaves a timer behind that points to freed
\* memory, or the check of timer_sanity_check fails.
TimedCountsTimers ==
  \A o \in Objs : timed[o] = Cardinality({ tm \in AllTimers : tm.obj = o })

\* Each timer is where its object is: a timer in the list belongs to an object
\* in memory, one in a level's file to an object of that level, so that no
\* pointer in the list dangles and relink_timers finds every object.
TimersFollowObjects ==
  /\ \A i \in DOMAIN queue :
       LET o == queue[i].obj IN
         where[o] \in {"hero", "migrating"} \/ (where[o] = "level" /\ lev[o] = cur)
  /\ \A l \in Levels : \A i \in DOMAIN store[l] :
       where[store[l][i].obj] = "level" /\ lev[store[l][i].obj] = l /\ l # cur

\* When run_timers is done, nothing in the list is overdue, although it only
\* looks at the first timer, and timers were merged into the list from a file
\* and started and stopped by the functions it called.
RunClearsOverdue ==
  [][running /\ ~running' => \A i \in DOMAIN queue : queue[i].due > now]_vars

\* The list and the files implement Deadlines: a timer keeps its due time from
\* file to file and never goes off early or twice.
DueTimes(T) ==
  [x \in Objs \X Funcs |->
     IF \E tm \in T : tm.obj = x[1] /\ tm.func = x[2]
       THEN (CHOOSE tm \in T : tm.obj = x[1] /\ tm.func = x[2]).due
       ELSE Off]

Deadline == INSTANCE Deadlines WITH due <- DueTimes(AllTimers)

ImplementsDeadlines == Deadline!Spec
=============================================================================
