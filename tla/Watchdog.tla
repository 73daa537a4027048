------------------------------ MODULE Watchdog ------------------------------
(***************************************************************************)
(* The watchdog thread and the crash handler of nle_sentinel.c, beside the *)
(* threads of module Sentinel.  The watchdog polls the sum of the          *)
(* published heartbeats twice a period and aborts the process when the sum *)
(* has not changed for a period; a fault, and the watchdog's own abort,    *)
(* enter crash_handler, which reports and lets the process die.            *)
(*                                                                         *)
(* Time is counted in polls: half_us is half of the period for every       *)
(* accepted NLE_WATCHDOG_SECS, so stalled_us reaches the period at the     *)
(* second unchanged poll.                                                  *)
(***************************************************************************)
EXTENDS Sentinel

CONSTANT Dog     \* the watchdog thread

ASSUME DogAssumption == Dog \notin Threads /\ None \notin Nat

Agents == Threads \cup {Dog}
StallPolls == 2

VARIABLES
  wpc,        \* the watchdog: "check", "add", "judge", "sleep", "abort"
  widx,       \* the slot it looks at
  wsum,       \* now, so far
  last,       \* the sum it compares with, None before the first poll
  stalled,    \* polls since the sum changed
  fired,      \* g_signal_fired is set
  handler,    \* [Agents -> "none", "entered", "dump", "raise"]
  reported,   \* a report was written to its end
  exit,       \* "no", "signal" (died of the signal) or "_exit"
  hung,       \* the worker threads never run again
  \* history, to state what a stall is:
  beatSince,  \* a step began since last was set
  beatBefore, \* ... and before the current poll began
  freedSince, \* a slot was released since the poll that set last began
  freedNow    \* a slot was released since the current poll began

dogVars   == <<wpc, widx, wsum, last, stalled>>
crashVars == <<fired, handler, reported, exit>>
ghostVars == <<beatSince, beatBefore, freedSince, freedNow>>
wvars     == <<vars, dogVars, crashVars, ghostVars, hung>>

WInit ==
  /\ Init
  /\ wpc = "check" /\ widx = 0 /\ wsum = 0 /\ last = None /\ stalled = 0
  /\ fired = FALSE /\ handler = [a \in Agents |-> "none"]
  /\ reported = FALSE /\ exit = "no" /\ hung = FALSE
  /\ beatSince = FALSE /\ beatBefore = FALSE
  /\ freedSince = FALSE /\ freedNow = FALSE

-----------------------------------------------------------------------------
(* watchdog_main                                                           *)

\* nle_sentinel_total_heartbeat: in_use of a slot is read first ...
PollCheck ==
  /\ wpc = "check"
  /\ IF widx = Cap THEN wpc' = "judge" /\ UNCHANGED widx
     ELSE IF in_use[widx] = 1 THEN wpc' = "add" /\ UNCHANGED widx
     ELSE widx' = widx + 1 /\ UNCHANGED wpc
  /\ UNCHANGED <<vars, wsum, last, stalled, crashVars, ghostVars, hung>>

\* Mutant: the sum is overwritten by each slot.
PollAddOverwrites ==
  /\ wpc = "add"
  /\ wsum' = heartbeat[widx]
  /\ widx' = widx + 1
  /\ wpc' = "check"
  /\ UNCHANGED <<vars, last, stalled, crashVars, ghostVars, hung>>

\* ... and its heartbeat in a second access.
PollAdd ==
  /\ wpc = "add"
  /\ wsum' = wsum + heartbeat[widx]
  /\ widx' = widx + 1
  /\ wpc' = "check"
  /\ UNCHANGED <<vars, last, stalled, crashVars, ghostVars, hung>>

\* The sum moved, or this is the first poll.
Progress ==
  /\ wpc = "judge" /\ wsum # last
  /\ last' = wsum /\ stalled' = 0 /\ wpc' = "sleep"
  /\ beatSince' = FALSE /\ freedSince' = freedNow
  /\ UNCHANGED <<vars, widx, wsum, crashVars, hung, beatBefore, freedNow>>

\* Nothing has beaten: not a stall.
NothingLive ==
  /\ wpc = "judge" /\ wsum = last /\ wsum = 0
  /\ wpc' = "sleep"
  /\ UNCHANGED <<vars, widx, wsum, last, stalled, crashVars, ghostVars, hung>>

\* An unchanged sum; after a whole period the report is written and abort called.
Stall ==
  /\ wpc = "judge" /\ wsum = last /\ wsum # 0
  /\ stalled' = stalled + 1
  /\ IF stalled' < StallPolls
       THEN wpc' = "sleep" /\ UNCHANGED crashVars
       ELSE /\ wpc' = "abort" /\ reported' = TRUE
            /\ handler' = [handler EXCEPT ![Dog] = "entered"]
            /\ UNCHANGED <<fired, exit>>
  /\ UNCHANGED <<vars, widx, wsum, last, ghostVars, hung>>

\* Mutant: the loop over the slots is not started anew.
WakeAtEnd ==
  /\ wpc = "sleep"
  /\ wpc' = "check" /\ wsum' = 0
  /\ beatBefore' = beatSince /\ freedNow' = FALSE
  /\ UNCHANGED <<vars, widx, last, stalled, crashVars, hung, beatSince, freedSince>>

\* usleep returns.
Wake ==
  /\ wpc = "sleep"
  /\ wpc' = "check" /\ widx' = 0 /\ wsum' = 0
  /\ beatBefore' = beatSince /\ freedNow' = FALSE
  /\ UNCHANGED <<vars, last, stalled, crashVars, hung, beatSince, freedSince>>

WatchdogStep == PollCheck \/ PollAdd \/ Progress \/ NothingLive \/ Stall \/ Wake

-----------------------------------------------------------------------------
(* crash_handler                                                           *)

\* A thread that runs game code faults.
Fault(t) ==
  /\ pc[t] \in {"starting", "playing"} /\ handler[t] = "none" /\ ~hung
  /\ handler' = [handler EXCEPT ![t] = "entered"]
  /\ UNCHANGED <<vars, dogVars, fired, reported, exit, ghostVars, hung>>

\* g_signal_fired is set: another report is under way, and the process leaves.
SecondFault(a) ==
  /\ handler[a] = "entered" /\ fired
  /\ exit' = "_exit"
  /\ UNCHANGED <<vars, dogVars, fired, handler, reported, ghostVars, hung>>

\* g_signal_fired is read as unset (and set by a later access).
FirstFault(a) ==
  /\ handler[a] = "entered" /\ ~fired
  /\ handler' = [handler EXCEPT ![a] = "mark"]
  /\ UNCHANGED <<vars, dogVars, fired, reported, exit, ghostVars, hung>>

\* Mutant: the signal is raised again before the report is written.
MarkRaises(a) ==
  /\ handler[a] = "mark"
  /\ fired' = TRUE
  /\ handler' = [handler EXCEPT ![a] = "raise"]
  /\ UNCHANGED <<vars, dogVars, reported, exit, ghostVars, hung>>

Mark(a) ==
  /\ handler[a] = "mark"
  /\ fired' = TRUE
  /\ handler' = [handler EXCEPT ![a] = "dump"]
  /\ UNCHANGED <<vars, dogVars, reported, exit, ghostVars, hung>>

\* dump_report to stderr and to the breadcrumb file.
Dump(a) ==
  /\ handler[a] = "dump"
  /\ reported' = TRUE
  /\ handler' = [handler EXCEPT ![a] = "raise"]
  /\ UNCHANGED <<vars, dogVars, fired, exit, ghostVars, hung>>

\* The default disposition is restored and the signal raised again.
Raise(a) ==
  /\ handler[a] = "raise"
  /\ exit' = "signal"
  /\ UNCHANGED <<vars, dogVars, fired, handler, reported, ghostVars, hung>>

CrashHandler(a) ==
  FirstFault(a) \/ SecondFault(a) \/ Mark(a) \/ Dump(a) \/ Raise(a)

-----------------------------------------------------------------------------
(* The worker threads run on, unless they hang or are in the handler.      *)

WorkerStep(t) ==
  /\ ~hung /\ handler[t] = "none"
  /\ \/ \E e \in Envs : NleStart(t, e) \/ NleStep(t, e) \/ NleEnd(t, e)
     \/ Register(t) \/ Beat(t) \/ Yield(t)
  /\ beatSince' = (beatSince \/ beats' # beats)
  /\ LET freed == \E s \in Slots : in_use[s] = 1 /\ in_use'[s] = 0 IN
       /\ freedSince' = (freedSince \/ freed)
       /\ freedNow' = (freedNow \/ freed)
  /\ UNCHANGED <<dogVars, crashVars, hung, beatBefore>>

\* Every worker stops for good: a deadlock of the whole process.
Hang ==
  /\ ~hung
  /\ \A t \in Threads : handler[t] = "none"
  /\ hung' = TRUE
  /\ UNCHANGED <<vars, dogVars, crashVars, ghostVars>>

WNext ==
  /\ exit = "no"
  /\ \/ handler[Dog] = "none" /\ WatchdogStep
     \/ Hang
     \/ \E t \in Threads : WorkerStep(t) \/ Fault(t)
     \/ \E a \in Agents : CrashHandler(a)

\* The kernel keeps scheduling the detached watchdog thread and a thread in the
\* signal handler; nothing is assumed of the workers.
WFair ==
  /\ WF_wvars(exit = "no" /\ handler[Dog] = "none" /\ WatchdogStep)
  /\ \A a \in Agents : WF_wvars(exit = "no" /\ CrashHandler(a))

WSpec == WInit /\ [][WNext]_wvars /\ WFair

-----------------------------------------------------------------------------
(***************************************************************************)
(* Properties                                                              *)
(***************************************************************************)

\* The watchdog's and the handler's variables keep their types.
WTypeOK ==
  /\ TypeOK
  /\ wpc \in {"check", "add", "judge", "sleep", "abort"}
  /\ widx \in 0 .. Cap /\ wsum \in Nat /\ last \in Nat \cup {None}
  /\ stalled \in 0 .. StallPolls
  /\ fired \in BOOLEAN /\ reported \in BOOLEAN /\ hung \in BOOLEAN
  /\ handler \in [Agents -> {"none", "entered", "mark", "dump", "raise"}]
  /\ exit \in {"no", "signal", "_exit"}
  /\ {beatSince, beatBefore, freedSince, freedNow} \subseteq BOOLEAN

\* When no slot was released since the reference poll began, an abort means
\* that no environment began a step between the two polls it compares, although
\* each poll adds up the slots one after the other while the workers run.
AbortMeansStall ==
  wpc = "abort" /\ ~freedSince => ~beatBefore

\* The published heartbeats the sum ranges over.
LiveBeats == { s \in Slots : in_use[s] = 1 /\ heartbeat[s] > 0 }

\* A process whose workers all stop after some live environment has beaten ends
\* within finitely many polls, instead of hanging silently.
HangIsReported == (hung /\ LiveBeats # {}) ~> (exit # "no")

\* A process that dies of its signal has left a whole report first, whoever
\* faulted and however the handlers of several threads overlap.
DeathIsReported == exit = "signal" => reported
=============================================================================
