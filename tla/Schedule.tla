------------------------------ MODULE Schedule ------------------------------
(***************************************************************************)
(* internal/daemon/schedule.go and the sleep of Daemon.Run: how long the   *)
(* loop sleeps, what ends the sleep, and whether the evaluation after it   *)
(* forces a fresh draw.  Daemon.tla leaves that choice open.               *)
(*                                                                         *)
(* Time is counted in slots; rotations fall on whole slots, and the clock  *)
(* is always read between two of them: wall = t stands for some moment     *)
(* after t and before t + 1.  Two clocks matter, because time.Now carries  *)
(* both: the wall clock, and the monotonic clock that timers follow and    *)
(* that may stand still while the machine is suspended.  The calendar      *)
(* says where the days begin, and they need not be equally long.           *)
(***************************************************************************)
EXTENDS Integers, Sequences

CONSTANTS
  DayLength,         \* slots in a usual day
  Midnight,          \* the midnight before each moment, by the local calendar...
  NextMidnight,      \* ... and the one after it
  Schedules,         \* what config files say of the daemon's schedule
  CountsSleep,       \* whether the monotonic clock counts suspended time
  Suspends,          \* whether the machine may be suspended
  MaxTime            \* bound on both clocks

ASSUME ScheduleAssumption ==
  /\ DayLength \in Nat \ {0}
  /\ Schedules \subseteq
       [at : Seq(0 .. DayLength - 1), interval : Nat, refresh : Nat \ {0}]
  /\ \A s \in Schedules :
       /\ s.at # <<>> /\ (s.interval > 0 => Len(s.at) = 1)
       /\ \A i, j \in DOMAIN s.at : i < j => s.at[i] < s.at[j]
  /\ CountsSleep \in BOOLEAN /\ Suspends \in BOOLEAN
  /\ MaxTime \in Nat /\ DayLength <= MaxTime + 1
  /\ {Midnight, NextMidnight} \subseteq [0 .. MaxTime -> Nat]
  /\ \A t \in 0 .. MaxTime : Midnight[t] <= t /\ t < NextMidnight[t]
  /\ \A t, u \in 0 .. MaxTime :
       t <= u => IF u < NextMidnight[t] THEN Midnight[u] = Midnight[t]
                 ELSE Midnight[u] >= NextMidnight[t]

VARIABLES
  wall, mono,        \* the two readings of time.Now
  schedule,          \* rotation_at, rotation_interval (0 is list mode) and
                     \* refresh_interval of d.cfg
  pc,                \* "evaluate", "plan" or "sleep"
  force,             \* the argument of the evaluation
  wake, isRotation,  \* when the loop means to wake, and for what
  sleep, deadline,   \* for how long, and when by the monotonic clock
  since,             \* history: since when every rotation is owed a forced draw
  evaluated          \* history: when the last evaluation began, by mono

vars == <<wall, mono, schedule, pc, force, wake, isRotation, sleep, deadline,
          since, evaluated>>

plan == <<wake, isRotation, sleep, deadline>>

-----------------------------------------------------------------------------
\* Anchor mode: the first of anchor, anchor + interval, ... after now, where
\* the anchor is the one of now's own day.
NextFromAnchor(now) ==
  LET anchor == Midnight[now] + schedule.at[1]
      k == (now - anchor) \div schedule.interval + 1
  IN  IF anchor > now THEN anchor ELSE anchor + k * schedule.interval

\* Mutant: not before now, instead of after.
LaterTodayOrNow(now) == {i \in DOMAIN schedule.at : Midnight[now] + schedule.at[i] >= now}

LaterToday(now) == {i \in DOMAIN schedule.at : Midnight[now] + schedule.at[i] > now}

\* Mutant: tomorrow begins a usual day's length after today, AddDate forgotten.
NextFromListUsual(now) ==
  IF LaterToday(now) # {}
  THEN Midnight[now] + schedule.at[CHOOSE i \in LaterToday(now) : \A j \in LaterToday(now) : i <= j]
  ELSE Midnight[now] + DayLength + schedule.at[1]

\* List mode: the first of today's offsets after now, or tomorrow's first.
NextFromList(now) ==
  IF LaterToday(now) # {}
  THEN Midnight[now] + schedule.at[CHOOSE i \in LaterToday(now) : \A j \in LaterToday(now) : i <= j]
  ELSE NextMidnight[now] + schedule.at[1]

NextRotation(now) ==
  IF schedule.interval > 0 THEN NextFromAnchor(now) ELSE NextFromList(now)

\* Mutant: more than the sleep, instead of at least.
DriftedMore(lateness, slept) == slept > 0 /\ lateness > slept

\* The end of the sleep came late by at least the sleep itself.
Drifted(lateness, slept) == slept > 0 /\ lateness >= slept

-----------------------------------------------------------------------------
\* Run evaluates first.
Init ==
  /\ wall \in 0 .. DayLength - 1
  /\ mono = 0
  /\ schedule \in Schedules
  /\ pc = "evaluate"
  /\ force = FALSE
  /\ wake = wall /\ isRotation = FALSE /\ sleep = 0 /\ deadline = 0
  /\ since = wall
  /\ evaluated = 0

EvaluateReturns ==
  /\ pc = "evaluate"
  /\ pc' = "plan"
  /\ UNCHANGED <<wall, mono, schedule, force, plan, since, evaluated>>

\* Mutant: the loop sleeps until the rotation, however far.
PlanRotation ==
  /\ pc = "plan"
  /\ wake' = NextRotation(wall)
  /\ isRotation' = TRUE
  /\ sleep' = wake' - wall
  /\ deadline' = mono + sleep'
  /\ pc' = "sleep"
  /\ UNCHANGED <<wall, mono, schedule, force, since, evaluated>>

\* The top of the loop: the rotation if it comes before the safety net.  The
\* safety net lies between two slots, like the reading it is counted from.
Plan ==
  /\ pc = "plan"
  /\ LET rot == NextRotation(wall)
         safety == wall + schedule.refresh
     IN  /\ isRotation' = (rot <= safety)
         /\ wake' = IF rot <= safety THEN rot ELSE safety
  /\ sleep' = wake' - wall
  /\ deadline' = mono + sleep'
  /\ pc' = "sleep"
  /\ UNCHANGED <<wall, mono, schedule, force, since, evaluated>>

\* A rotation has no monotonic reading, so its lateness is counted by the wall
\* clock; the safety net's is counted by the monotonic clock.
Lateness == IF isRotation THEN wall - wake ELSE mono - deadline

Evaluate(forced) ==
  /\ pc' = "evaluate"
  /\ force' = forced
  /\ evaluated' = mono
  /\ UNCHANGED <<wall, mono, plan>>

TimerFires ==
  /\ pc = "sleep"
  /\ mono >= deadline
  /\ Evaluate(isRotation \/ Drifted(Lateness, sleep))
  /\ since' = IF force' THEN wall ELSE since
  /\ UNCHANGED schedule

\* kickCh, wakeCh.  select takes any case that is ready: the timer may be due as
\* well.
KickArrives ==
  /\ pc = "sleep"
  /\ Evaluate(TRUE)
  /\ since' = wall
  /\ UNCHANGED schedule

\* A rotation is due, and the select may take something else.
Due == isRotation /\ mono >= deadline

\* reloadCh, with the same schedule or another one.  Taken in place of a rotation
\* that is due, it is the rotation's end: the next one is planned after now.
ReloadArrives ==
  /\ pc = "sleep"
  /\ Evaluate(FALSE)
  /\ schedule' \in Schedules
  /\ since' = IF schedule' = schedule /\ ~Due THEN since ELSE wall

\* A slot goes by: asleep, unless the timer is due, or during an evaluation
\* that is slow, which may lose the rotation in that slot.
Tick ==
  /\ \/ /\ pc = "sleep" /\ mono < deadline
        /\ UNCHANGED since
     \/ /\ pc = "evaluate" /\ evaluated = mono
        /\ since' = wall + 1
  /\ wall < MaxTime
  /\ wall' = wall + 1
  /\ mono' = mono + 1
  /\ UNCHANGED <<schedule, pc, force, plan, evaluated>>

\* The machine is suspended and resumes some slots later; the rotations in
\* between are owed to nobody.
Suspend ==
  /\ Suspends
  /\ pc = "sleep"
  /\ \E resumed \in wall + 1 .. MaxTime :
       /\ wall' = resumed
       /\ mono' = IF CountsSleep THEN mono + (resumed - wall) ELSE mono
       /\ since' = resumed
  /\ UNCHANGED <<schedule, pc, force, plan, evaluated>>

Next ==
  \/ EvaluateReturns \/ Plan
  \/ TimerFires \/ KickArrives \/ ReloadArrives
  \/ Tick \/ Suspend

Spec == Init /\ [][Next]_vars

-----------------------------------------------------------------------------
(* Properties *)

\* Every variable has its type; a sleep lasts at least a slot.
TypeOK ==
  /\ wall \in 0 .. MaxTime /\ mono \in Nat
  /\ schedule \in Schedules
  /\ pc \in {"evaluate", "plan", "sleep"}
  /\ force \in BOOLEAN /\ isRotation \in BOOLEAN
  /\ wake \in Nat /\ sleep \in Nat /\ deadline \in Nat
  /\ pc = "sleep" => sleep > 0
  /\ since \in Nat /\ evaluated \in Nat

\* The moments the config file names, counted from local midnight: each listed
\* offset, or the anchor and every interval after it until the next anchor.
Anchor(m) ==
  LET today == Midnight[m] + schedule.at[1]
  IN  IF today <= m \/ Midnight[m] = 0 THEN today
      ELSE Midnight[Midnight[m] - 1] + schedule.at[1]

Named(m) ==
  IF schedule.interval = 0
  THEN \E i \in DOMAIN schedule.at : m = Midnight[m] + schedule.at[i]
  ELSE Anchor(m) <= m /\ (m - Anchor(m)) % schedule.interval = 0

\* Rotations fire at the moments named: the loop is never asleep with one
\* behind it for which no draw has been forced, however kicks, reloads, new
\* schedules, midnights and safety nets have cut its sleep into pieces.
\* Excepted are moments in a suspend or in the middle of an evaluation, and one
\* that a reload has overtaken (Due), which the code evaluates unforced.
RotationServed ==
  pc = "sleep" /\ mono < deadline => \A m \in since + 1 .. wall : ~Named(m)

\* The safety net: an awake daemon evaluates at least every refresh_interval.
SafetyNetHolds ==
  pc = "sleep" /\ mono <= deadline => mono - evaluated <= schedule.refresh + 1

\* A timer that fires at least the length of its sleep late by the wall clock,
\* as after a suspend, is followed by a forced draw.
DriftForces ==
  [][TimerFires /\ wall - wake >= sleep => force']_vars

\* The timer forces a draw at the moments that the config file names and after
\* such a suspend, and at no others: a safety net in time leaves the wallpaper
\* of the day alone.  (drift_uncounted: unless the monotonic clock stops.)
TimerForces ==
  [][TimerFires => (force' <=> Named(wake) \/ wall - wake >= sleep)]_vars
=============================================================================
