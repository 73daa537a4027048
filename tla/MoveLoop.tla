------------------------------- MODULE MoveLoop -------------------------------
(***************************************************************************)
(* The main loop (allmain.c, moveloop) and the list of monsters (mon.c).   *)
(* Hero and monsters spend rations of movement; a pass of movemon walks the *)
(* list fmon with a saved successor while the handlers of the monsters      *)
(* insert into the list, kill each other, leave the level and send others   *)
(* off it.  A dead monster stays on the list until dmonsfree, and purge     *)
(* counts it; one that is sent away goes to migrating_mons.  A game that    *)
(* shows --More-- is suspended where it stands, and the host may then call  *)
(* nle_save_level, which purges the list.                                   *)
(***************************************************************************)
EXTENDS Lists, Integers, SequencesExt, FiniteSets

CONSTANTS
  Mons,        \* structs monst
  Guards,      \* those in use for vault guards
  Null,        \* the null pointer
  NormalSpeed, \* NORMAL_SPEED, 12 in the code
  Rations,     \* what mcalcmove returns for a monster
  Speeds,      \* the hero's speed in its own form, with Fast and Very_fast
  Loads,       \* the values of wtcap that occur
  MaxMoves,    \* bound on the movement of a monster
  MaxHelpless, \* bound on the turns the hero is helpless, and on repeat counts
  MaxForm,     \* bound on u.mtimedone
  SaveAtMore   \* the host saves levels at a --More-- too, not only at commands

ASSUME MoveAssumption ==
  /\ IsFiniteSet(Mons) /\ Guards \subseteq Mons /\ Null \notin Mons /\ NormalSpeed \in Nat \ {0}
  /\ Rations \subseteq Nat /\ Speeds \subseteq Nat \ {0} /\ Loads \subseteq 0 .. 4
  /\ MaxHelpless \in Nat /\ MaxForm \in Nat /\ SaveAtMore \in BOOLEAN

VARIABLES
  level,    \* fmon; migrating_mons; the monsters; iflags.purge_monsters
  at,       \* where moveloop is: pass, act, turn, ration, tick, play,
            \* command, occupation, over
  cur,      \* movemon's mtmp
  nmtmp,    \* movemon's nmtmp
  scan,     \* somebody_can_move
  movement, \* youmonst.movement
  multi,    \* multi, and the turns left of an occupation
  form,     \* u.mtimedone of a form that cannot move, 0 in a form that can
  goto,     \* u.utotype # 0
  owed,     \* history: who could act when the pass began and did not yet
  late,     \* history: who came to the list since the pass began
  walk      \* history: "astray" when the saved successor was itself sent to
            \* migrating_mons, "early" when u.utotype ended the pass and no level
            \* change followed, else "whole"

loop == <<at, cur, nmtmp, scan>>
hero == <<movement, multi, form>>
seen == <<owed, late, walk>>
vars == <<level, loop, hero, goto, seen>>

Nobody == [life |-> "free", moves |-> 0, isgd |-> FALSE, parked |-> FALSE]

OnList(lv) == ToSet(lv.fmon)
Living(lv) == {m \in OnList(lv) : lv.mon[m].life = "live" /\ ~lv.mon[m].parked}
Unused(lv) == {m \in Mons : lv.mon[m].life = "free"}
Makable(lv) == Unused(lv) \ Guards
Able(lv)   == {m \in Living(lv) : lv.mon[m].moves >= NormalSpeed}

\* DEADMONSTER(mtmp) and not mtmp->isgd: what dmonsfree takes away.
Purgeable(lv) == {m \in OnList(lv) : lv.mon[m].life = "dead" /\ ~lv.mon[m].isgd}

First(lv) == IF lv.fmon = <<>> THEN Null ELSE Head(lv.fmon)

NextIn(s, m) ==
  LET i == CHOOSE k \in DOMAIN s : s[k] = m
  IN IF i = Len(s) THEN Null ELSE s[i + 1]

\* mtmp->nmon, on whichever list the monster is.
After(lv, m) == NextIn(IF lv.mon[m].life = "away" THEN lv.migr ELSE lv.fmon, m)

\* dmonsfree: the dead leave the list and are deallocated.
Purged(lv) ==
  [fmon  |-> Filter(lv.fmon, Mons \ Purgeable(lv)),
   migr  |-> lv.migr,
   mon   |-> [m \in Mons |-> IF m \in Purgeable(lv) THEN Nobody ELSE lv.mon[m]],
   purge |-> 0]

\* Mutant: the dead leave the list at once.
DetachedFreed(lv, m) ==
  [lv EXCEPT !.mon[m] = Nobody, !.fmon = Filter(@, Mons \ {m})]

\* m_detach: the monster is dead, stays on the list, and is counted (what is left
\* of its movement is not read again).
Detached(lv, m) ==
  [lv EXCEPT !.mon[m] = [Nobody EXCEPT !.life = "dead"], !.purge = @ + 1]

\* Mutant: mondead goes on to m_detach.
ParkedCounted(lv, m) ==
  [lv EXCEPT !.mon[m] = [life |-> "dead", moves |-> 0, isgd |-> TRUE, parked |-> TRUE],
             !.purge = @ + 1]

\* grddead without success: a guard whose corridor remains is dead, not counted.
Parked(lv, m) ==
  [lv EXCEPT !.mon[m] = [life |-> "dead", moves |-> 0, isgd |-> TRUE, parked |-> TRUE]]

\* mondead, mongone: what the death of m may leave.
Deaths(lv, m) ==
  {Detached(lv, m)} \cup (IF lv.mon[m].isgd THEN {Parked(lv, m)} ELSE {})

\* makemon, clone_mon: a new monster is at the head of the list.
Born(lv, m, moves, isgd) ==
  [lv EXCEPT !.fmon = <<m>> \o @,
             !.mon[m] = [life |-> "live", moves |-> moves, isgd |-> isgd, parked |-> FALSE]]

\* Who may be sent off the level: a monster on the map that is no guard.
Movable(lv) == {m \in Living(lv) : ~lv.mon[m].isgd}

\* Mutant: the monster migrates and stays on the list.
LeftLinked(lv, m) ==
  [lv EXCEPT !.migr = <<m>> \o @, !.mon[m] = [@ EXCEPT !.life = "away"]]

\* relmon to the head of migrating_mons: the monster keeps its movement.
Left(lv, m) ==
  [lv EXCEPT !.fmon = Filter(@, Mons \ {m}), !.migr = <<m>> \o @,
             !.mon[m] = [@ EXCEPT !.life = "away"]]

\* mon_arrive: it is back, at the head of the list.
Back(lv, m) ==
  [lv EXCEPT !.fmon = <<m>> \o @, !.migr = Filter(@, Mons \ {m}),
             !.mon[m] = [@ EXCEPT !.life = "live"]]

\* What a level holds when the hero comes (getlev): monsters, and a vault guard who
\* lives, is parked, or died and waits for its corridor to go.
Dwellers == {[Nobody EXCEPT !.life = "live", !.moves = n] : n \in {0, NormalSpeed}}
DwellingGuards ==
  {[life |-> "live", moves |-> 0, isgd |-> TRUE, parked |-> p] : p \in BOOLEAN}
    \cup {[life |-> "dead", moves |-> 0, isgd |-> TRUE, parked |-> TRUE]}
Dwelling(S) ==
  {f \in [S -> Dwellers \cup DwellingGuards] : \A m \in S : f[m].isgd <=> m \in Guards}

\* goto_level: on the list are those that follow the hero, those that were on their
\* way to that level and those that dwell there; whoever has to leave (the Wizard
\* who stays behind, a monster without a place) migrates, and the old level's
\* others are written to its file.
Arrived(old, here, leave, dwelling) ==
  LET there(m) ==
        CASE m \in here  -> IF old.mon[m].life = "free" THEN dwelling[m]
                           ELSE [old.mon[m] EXCEPT !.life = "live"]
          [] m \in leave -> [old.mon[m] EXCEPT !.life = "away"]
          [] m \in OnList(old) \ (here \cup leave) -> Nobody
          [] OTHER -> old.mon[m]
  IN [fmon  |-> SetToSeq(here),
      migr  |-> SetToSeq(leave) \o Filter(old.migr, Mons \ (here \cup leave)),
      mon   |-> [m \in Mons |-> there(m)],
      purge |-> old.purge]

\* The dead of the old level are purged before.
Arrivals(lv) ==
  LET old == IF lv.purge # 0 THEN Purged(lv) ELSE lv
      comers == Movable(old) \cup {m \in Mons : old.mon[m].life \in {"free", "away"}}
  IN UNION {{Arrived(old, here, leave, dwelling) :
               leave \in SUBSET (comers \ here), dwelling \in Dwelling(here \cap Unused(old))} :
            here \in SUBSET comers}

Init ==
  /\ \E S \in SUBSET (Mons \ Guards) :
       level = [fmon |-> SetToSeq(S), migr |-> <<>>, purge |-> 0,
                mon |-> [m \in Mons |-> IF m \in S THEN [Nobody EXCEPT !.life = "live"]
                                        ELSE Nobody]]
  /\ at = "play" /\ cur = Null /\ nmtmp = Null /\ scan = FALSE
  /\ movement = NormalSpeed /\ multi = 0 /\ form = 0 /\ goto = FALSE
  /\ owed = {} /\ late = {} /\ walk = "whole"

\* A call of movemon begins.
BeginPass(lv) ==
  /\ at' = "pass" /\ cur' = First(lv) /\ nmtmp' = Null /\ scan' = FALSE
  /\ owed' = Able(lv) /\ late' = {} /\ walk' = "whole"

\* The hero's move, or a new turn after a pass that went so.
At(place, came, went) ==
  /\ at' = place /\ cur' = Null /\ nmtmp' = Null /\ scan' = FALSE
  /\ owed' = {} /\ late' = came /\ walk' = went

-----------------------------------------------------------------------------
(* A pass of movemon. *)

InPass == at = "pass" /\ cur # Null /\ ~goto
GuardTurn(m) == level.mon[m].isgd /\ level.mon[m].parked
CanAct(m) == level.mon[m].life # "dead" /\ level.mon[m].moves >= NormalSpeed

\* The successor is saved, and gd_move of a parked guard begins.
BeginGuard ==
  /\ InPass /\ GuardTurn(cur)
  /\ nmtmp' = After(level, cur) /\ at' = "act"
  /\ UNCHANGED <<level, cur, scan, hero, goto, seen>>

Skip ==
  /\ InPass /\ ~GuardTurn(cur) /\ ~CanAct(cur)
  /\ cur' = After(level, cur)
  /\ UNCHANGED <<level, at, nmtmp, scan, hero, goto, seen>>

CanMoveAgain(m) == level.mon[m].moves - NormalSpeed >= NormalSpeed
\* Mutant: only the last monster decides whether there is another pass.
LastMoves(m) == scan' = CanMoveAgain(m)
Rescan(m) == scan' = (scan \/ CanMoveAgain(m))

\* The successor is saved, the ration is taken, and the handler starts.
BeginAct ==
  /\ InPass /\ ~GuardTurn(cur) /\ CanAct(cur)
  /\ level' = [level EXCEPT !.mon[cur].moves = @ - NormalSpeed]
  /\ Rescan(cur)
  /\ nmtmp' = After(level, cur)
  /\ at' = "act" /\ owed' = owed \ {cur}
  /\ UNCHANGED <<cur, hero, goto, late, walk>>

\* (A walk that went astray moves monsters of migrating_mons as well.)
Acting == at = "act" /\ level.mon[cur].life # "dead" /\ ~GuardTurn(cur)

ActKill ==
  /\ Acting
  /\ \E m \in Living(level) : level' \in Deaths(level, m)
  /\ UNCHANGED <<loop, hero, goto, seen>>

\* Summoned, revived or split off (gremlins copy the movement they have left).
ActSpawn ==
  /\ Acting
  /\ \E m \in Makable(level) :
       /\ \E moves \in {0, level.mon[cur].moves} :
            level' = Born(level, m, moves, FALSE)
       /\ late' = late \cup {m}
  /\ UNCHANGED <<loop, hero, goto, owed, walk>>

\* Mutant: the successor is read after the monster was moved to migrating_mons.
ActLeaveLate ==
  /\ Acting /\ cur \in Movable(level)
  /\ level' = Left(level, cur)
  /\ cur' = After(level', cur) /\ nmtmp' = Null /\ at' = "pass"
  /\ UNCHANGED <<scan, hero, goto, seen>>

\* The monster itself leaves the level, and its handler returns.
ActLeave ==
  /\ Acting /\ cur \in Movable(level)
  /\ level' = Left(level, cur)
  /\ cur' = nmtmp /\ nmtmp' = Null /\ at' = "pass"
  /\ UNCHANGED <<scan, hero, goto, seen>>

\* m_into_limbo of another: one in the way of a guard or in its corridor when that
\* goes (gd_mv_monaway, clear_fcorr, which the death of a guard calls too), or one
\* that finds no place (mnexto, mnearto).
ActLimbo ==
  /\ at = "act"
  /\ \E m \in Movable(level) \ {cur} :
       level' = Left(level, m) /\ walk' = IF m = nmtmp THEN "astray" ELSE walk
  /\ UNCHANGED <<loop, hero, goto, owed, late>>

\* gd_move: a guard who is done waits at <0,0> for its corridor to go.
ActPark ==
  /\ Acting /\ level.mon[cur].isgd
  /\ level' = [level EXCEPT !.mon[cur] = [@ EXCEPT !.parked = TRUE, !.moves = 0]]
  /\ UNCHANGED <<loop, hero, goto, seen>>

\* gd_move of a parked guard: the corridor is gone, and isgd is cleared.
GuardGone ==
  /\ at = "act" /\ GuardTurn(cur)
  /\ level' = Detached(level, cur)
  /\ UNCHANGED <<loop, hero, goto, seen>>

\* Mutant: the walk starts over after each monster.
ActEndsAtHead ==
  /\ at = "act" /\ cur' = First(level) /\ nmtmp' = Null /\ at' = "pass"
  /\ UNCHANGED <<level, scan, hero, goto, seen>>

ActEnds ==
  /\ at = "act" /\ cur' = nmtmp /\ nmtmp' = Null /\ at' = "pass"
  /\ UNCHANGED <<level, scan, hero, goto, seen>>

\* The pass ends early for a hero who is to leave the level, and deferred_goto
\* follows the purge.  The monsters of the new level wait for the next turn.
EndPassGoto ==
  /\ at = "pass" /\ goto
  /\ level' \in Arrivals(Purged(level)) /\ goto' = FALSE
  /\ cur' = Null /\ scan' = FALSE /\ owed' = {} /\ late' = OnList(level')
  /\ UNCHANGED <<at, nmtmp, hero, walk>>

\* The same, but the hero stays: deferred_goto finds it on that level already, or
\* goto_level returns (no Amulet, a mysterious force, no file).
EndPassStay ==
  /\ at = "pass" /\ goto
  /\ level' = Purged(level) /\ goto' = FALSE
  /\ cur' = Null /\ scan' = FALSE /\ walk' = "early"
  /\ UNCHANGED <<at, nmtmp, hero, owed, late>>

\* The end of movemon, and what moveloop does with its result.
EndPass ==
  /\ at = "pass" /\ cur = Null /\ ~goto
  /\ level' = Purged(level)
  /\ \/ movement >= NormalSpeed /\ At("play", {}, "whole")
     \/ movement < NormalSpeed /\ scan /\ BeginPass(level')
     \/ movement < NormalSpeed /\ ~scan /\ At("turn", late, walk)
  /\ UNCHANGED <<hero, goto>>

-----------------------------------------------------------------------------
(* A new turn, when both hero and monsters are out of steam. *)

\* mcalcdistress (a monster that cannot move may drown, or find no place), the
\* rations of the monsters, and a new monster without one.  An engulfer that changes shape here
\* expels the hero, who may step on a level teleporter: that is left out, since
\* level_tele then frees the list under mcalcdistress (see the README).
Turn ==
  /\ at = "turn" /\ at' = "ration" /\ late' = {} /\ walk' = "whole"
  /\ \E lv \in {level} \cup (UNION {Deaths(level, m) : m \in Living(level)})
              \cup {Left(level, m) : m \in Movable(level)} :
     \E ration \in [Living(lv) -> Rations] :
       LET fed == [lv EXCEPT !.mon = [m \in Mons |->
                     IF m \in Living(lv) THEN [lv.mon[m] EXCEPT !.moves = @ + ration[m]]
                     ELSE lv.mon[m]]]
       IN /\ \A m \in Living(lv) : fed.mon[m].moves <= MaxMoves
          /\ level' \in {fed} \cup {Born(fed, m, 0, FALSE) : m \in Makable(fed)}
  /\ UNCHANGED <<cur, nmtmp, scan, hero, goto, owed>>

\* Mutant: what the load takes is rounded up.
BurdenedUp(amt, wtcap) == IF wtcap = 0 THEN amt ELSE amt - (amt * (wtcap + 4) + 7) \div 8

\* What the load leaves of an amount of movement.
Burdened(amt, wtcap) ==
  CASE wtcap = 0 -> amt
    [] wtcap = 1 -> amt - amt \div 4
    [] wtcap = 2 -> amt - amt \div 2
    [] wtcap = 3 -> amt - (amt * 3) \div 4
    [] wtcap = 4 -> amt - (amt * 7) \div 8

\* The countdown of helplessness is one of turns, not of the hero's moves.
Recover(n) == IF n < 0 THEN n + 1 ELSE n

\* nh_timeout: u.mtimedone && !--u.mtimedone ends in rehumanize.
Expired(n) == IF n > 0 THEN n - 1 ELSE 0

\* The hero's ration: its own or its steed's, none in a form that cannot move.
Rationed(amounts) ==
  /\ at = "ration" /\ at' = "tick"
  /\ \E amt \in amounts, wtcap \in Loads : movement' = movement + Burdened(amt, wtcap)
  /\ UNCHANGED <<level, cur, nmtmp, scan, multi, form, goto, seen>>

Ration == Rationed(IF form > 0 THEN {0} ELSE Speeds \cup Rations)

\* Once a turn: nh_timeout and, last of all, the countdown of helplessness, whose
\* end takes a level change that is flagged.
Tick ==
  /\ at = "tick" /\ ~(multi = -1 /\ goto)
  /\ form' \in {Expired(form), MaxForm} /\ multi' = Recover(multi)
  /\ \/ movement < NormalSpeed /\ BeginPass(level)
     \/ movement >= NormalSpeed /\ At("play", {}, "whole")
  /\ UNCHANGED <<level, movement, goto>>

-----------------------------------------------------------------------------
(* The hero's move. *)

\* rhack waits for a key: the game is suspended.
AtPrompt == at = "play" /\ multi = 0

Rhack ==
  /\ AtPrompt /\ at' = "command"
  /\ \/ multi' \in (-MaxHelpless) .. MaxHelpless /\ UNCHANGED form
     \/ form' = MaxForm /\ UNCHANGED multi
  /\ UNCHANGED <<level, cur, nmtmp, scan, movement, goto, seen>>

\* A repeated command or an occupation goes on, or is given up.
Continue ==
  /\ at = "play" /\ multi > 0
  /\ multi' \in {0, multi - 1} /\ at' \in {"command", "occupation"}
  /\ UNCHANGED <<level, cur, nmtmp, scan, movement, form, goto, seen>>

\* The hero is helpless: only a level change that is flagged is carried out.
Helpless ==
  /\ at = "play" /\ multi < 0 /\ at' = "command"
  /\ UNCHANGED <<level, cur, nmtmp, scan, hero, goto, seen>>

\* nomul: the hero is made helpless (in a handler, when it faints or passes out in
\* the turn, in an occupation), or loses the count of a repeated command.
Nomul ==
  /\ Acting \/ at = "tick" \/ (at \in {"command", "occupation"} /\ multi >= 0)
  /\ multi' \in (-MaxHelpless) .. 0 /\ multi' < multi
  /\ UNCHANGED <<level, loop, movement, form, goto, seen>>

\* What the turn and the hero do to the monsters: a death, a birth (of a guard in
\* invault, once a turn), one sent off the level, and, in the turn, the Wizard who
\* comes back (resurrect).
Event ==
  /\ at \in {"tick", "command", "occupation"}
  /\ \/ \E m \in Living(level) : level' \in Deaths(level, m)
     \/ \E m \in Makable(level) : level' = Born(level, m, 0, FALSE)
     \/ at = "tick" /\ \E m \in Unused(level) \cap Guards : level' = Born(level, m, 0, TRUE)
     \/ \E m \in Movable(level) : level' = Left(level, m)
     \/ at = "tick" /\ \E m \in ToSet(level.migr) : level' = Back(level, m)
  /\ UNCHANGED <<loop, hero, goto, seen>>

\* schedule_goto (nle_goto_depth too, at a --More--): the flag waits for the end
\* of movemon, of helplessness, or of the next command.
Schedule ==
  /\ at \in {"act", "tick", "occupation"}
  /\ ~goto /\ goto' = TRUE
  /\ UNCHANGED <<level, loop, hero, seen>>

\* goto_level outside of movemon: from the command itself, from level_tele, which
\* does not wait unless mon_moving, after unmul, or as the flag demands.  It may
\* return without a change of level.
GotoLevel ==
  /\ at \in {"tick", "command", "occupation"}
  /\ level' \in Arrivals(level) \cup {level} /\ goto' = FALSE
  /\ UNCHANGED <<loop, hero, seen>>

\* Time passes, or the command was free (context.move); moveloop does not look at
\* u.utotype after an occupation.
Pay ==
  /\ at \in {"command", "occupation"} /\ ~(at = "command" /\ goto)
  /\ \/ movement' = movement - NormalSpeed /\ BeginPass(level)
     \/ at = "command" /\ multi >= 0 /\ At("play", {}, "whole") /\ UNCHANGED movement
  /\ UNCHANGED <<level, multi, form, goto>>

\* freedynamicdata.
NoLevel == [fmon |-> <<>>, migr |-> <<>>, purge |-> 0, mon |-> [m \in Mons |-> Nobody]]

\* done, or a panic of relmon for a monster that moves on migrating_mons and leaves
\* again (after a panic nothing is freed, nor read again).
HeroDies ==
  /\ at \in {"act", "tick", "command", "occupation"}
  /\ At("over", {}, "whole") /\ level' = NoLevel
  /\ UNCHANGED <<hero, goto>>

Over == at = "over" /\ UNCHANGED vars

-----------------------------------------------------------------------------
(* Calls of the host while the game is suspended. *)

\* nle_save_level: savelev purges the list before it writes it.
HostSaveLevel ==
  /\ AtPrompt \/ (SaveAtMore /\ at = "act")
  /\ level.purge # 0 /\ level' = Purged(level)
  /\ UNCHANGED <<loop, hero, goto, seen>>

\* nle_goto_depth, nle_goto_abs.
HostGoto ==
  /\ AtPrompt /\ ~goto /\ goto' = TRUE
  /\ UNCHANGED <<level, loop, hero, seen>>

Next ==
  \/ BeginGuard \/ Skip \/ BeginAct \/ EndPassGoto \/ EndPassStay \/ EndPass
  \/ ActKill \/ ActSpawn \/ ActLeave \/ ActLimbo \/ ActPark \/ GuardGone \/ ActEnds
  \/ Turn \/ Ration \/ Tick
  \/ Rhack \/ Continue \/ Helpless \/ Nomul \/ Event \/ Schedule \/ GotoLevel \/ Pay \/ HeroDies
  \/ HostSaveLevel \/ HostGoto \/ Over

Spec == Init /\ [][Next]_vars

\* The program runs until the game is suspended at a prompt for a command: weak
\* fairness of the steps that move control, written out since TLC would list all
\* of them to see that one is enabled.  (What happens within a handler leaves at
\* and cur alone, so handlers return.)
Fairness == []<>(AtPrompt \/ at = "over") \/ []<><<TRUE>>_<<at, cur>>

FairSpec == Spec /\ Fairness

-----------------------------------------------------------------------------
(* Properties. *)

\* Each monster that lives or waits for the purge is once on fmon, each that was
\* sent away once on migrating_mons, and the hero gets its move only with a whole
\* ration.
TypeOK ==
  /\ level \in [fmon : Seq(Mons), migr : Seq(Mons), purge : Nat,
               mon : [Mons -> [life : {"free", "live", "dead", "away"}, moves : Nat,
                               isgd : BOOLEAN, parked : BOOLEAN]]]
  /\ IsInjective(level.fmon) /\ IsInjective(level.migr)
  /\ \A m \in Mons : m \in OnList(level) <=> level.mon[m].life \in {"live", "dead"}
  /\ \A m \in Mons : m \in ToSet(level.migr) <=> level.mon[m].life = "away"
  /\ at \in {"pass", "act", "turn", "ration", "tick", "play", "command", "occupation", "over"}
  /\ cur \in Mons \cup {Null} /\ nmtmp \in Mons \cup {Null}
  /\ scan \in BOOLEAN /\ goto \in BOOLEAN
  /\ movement \in Nat /\ (at = "play" => movement >= NormalSpeed)
  /\ multi \in (-MaxHelpless) .. MaxHelpless /\ form \in 0 .. MaxForm
  /\ owed \subseteq Mons /\ late \subseteq Mons /\ walk \in {"whole", "astray", "early"}

\* The count of pending purges is the number of dead monsters on the list, at
\* every moment: else dmonsfree complains (impossible: "removed doesn't match").
\* A parked guard, dead or not, is not among them until its corridor is gone.
PurgeMatches == level.purge = Cardinality(Purgeable(level))

\* What movemon takes for the next monster.
Cursor == IF at = "act" THEN nmtmp ELSE cur

\* The walk never stands on a struct that was deallocated, whatever the handlers
\* and the host did meanwhile, and it leaves fmon in one way only: its saved
\* successor was sent to migrating_mons while another monster moved, which the
\* comment before the loop of movemon believes impossible.  It then goes on along
\* migrating_mons to the end.
CursorAlive ==
  at \in {"pass", "act"} =>
    Cursor \in {Null} \cup (IF walk = "astray" THEN ToSet(level.migr) ELSE OnList(level))

\* Every monster that could act when the pass began gets its move in it, unless
\* it dies, leaves, or the hero does, whatever the others do to the list: those
\* still to act lie ahead of the cursor.  Only a pass whose saved successor was
\* itself sent away, or one that u.utotype ended though the hero stays, skips any.
NobodyIsSkipped ==
  LET Ahead(m) == \E i, j \in DOMAIN level.fmon :
                    i <= j /\ level.fmon[i] = Cursor /\ level.fmon[j] = m
  IN at \in {"pass", "act"} /\ walk = "whole" => \A m \in owed \cap Living(level) : Ahead(m)

\* moveloop's "both hero and monsters are out of steam this round" at a new turn:
\* it is true of the hero, and of all monsters but those that came to the list
\* during the last pass, unless that pass skipped some in one of these two ways.
OutOfSteam ==
  at = "turn" => /\ movement < NormalSpeed
                 /\ Able(level) \subseteq late \/ walk # "whole"

\* No monster acts twice in one pass, unless the walk went astray to those that
\* have left.
OnceInPass == [][BeginAct => cur \in owed \/ walk = "astray"]_vars

\* The game asks for a command again, or the hero dies, under any load and from any
\* number of turns of helplessness or in a form that cannot move: as long as the
\* hero is not made helpless, or given such a form, again and again, and does not
\* depend for ever on a steed, which may get no ration in any turn.
HeroIsAsked ==
  /\ <>[][/\ at \in {"act", "tick"} /\ multi' < 0 => multi' >= multi
          /\ at = "tick" => form' = Expired(form)]_vars
  /\ SF_vars(form = 0 /\ Rationed(Speeds))
  => []<>(AtPrompt \/ at = "over")
=============================================================================
