------------------------------ MODULE Seasoned ------------------------------
(***************************************************************************)
(* The whole program on one machine: the daemon and `seasoned run` or      *)
(* `seasoned next` commands (a v1 timer, the user), over one state file,   *)
(* one config file and one screen.                                         *)
(***************************************************************************)
EXTENDS Daemon

CONSTANTS
  Proc, Commands,
  Overlap      \* whether commands may run while a daemon does

ASSUME SeasonedAssumption == Overlap \in BOOLEAN

VARIABLES run, done

O == INSTANCE OneShot

daemonOnly == <<crashes, pc, cfg, mem, frame, channels, watch, owed, read, missed>>

SeasonedInit ==
  /\ Init
  /\ O!InitRun
  /\ done = {}

\* One daemon step; with Overlap FALSE a daemon waits for commands to end.
DaemonStep ==
  /\ UNCHANGED run
  /\ \/ /\ Save
        /\ done' = O!SavedFor(done, day)
     \/ /\ Start
        /\ Overlap \/ \A p \in Proc : run[p].pc = "idle"
        /\ UNCHANGED done
     \/ /\ \/ LoadState \/ LoadFails \/ SelectDone
           \/ Resolve \/ Apply \/ ApplyFails \/ SaveFails
           \/ Loop \/ Watcher \/ Environment
        /\ UNCHANGED done

\* One command step; with Overlap FALSE a command finds the machine to itself.
CommandStep ==
  /\ UNCHANGED daemonOnly
  /\ \E p \in Proc :
       \/ /\ O!RunLoad(p)
          /\ Overlap \/ (pc = "off" /\ \A q \in Proc : run[q].pc = "idle")
       \/ O!RunResolve(p)
       \/ O!RunApply(p) \/ O!RunApplyFails(p)
       \/ O!RunSave(p) \/ O!RunSaveFails(p)
       \/ O!RunKilled(p)

SeasonedNext == DaemonStep \/ CommandStep

SeasonedSpec == SeasonedInit /\ [][SeasonedNext]_<<vars, run, done>>

-----------------------------------------------------------------------------
(* Properties *)

\* The screen is what the file says, but for failures, kills and a process
\* that is between Apply and Save.
ScreenAgrees ==
  /\ ~torn
  /\ pc \notin {"apply", "save"}
  /\ \A p \in Proc : run[p].pc \notin {"apply", "save"}
  => desktop = Load(disk).path

\* A timer beside a daemon is harmless: once the timer's `run` has recorded the
\* day, an evaluation of the daemon that begins then and is not forced applies
\* nothing.  (The daemon's first evaluation, and one without anything to
\* remember, are left out: what matters is the record of an earlier day.)
TimerHarmless ==
  [][Resolve /\ watcher # "none" /\ mem # EmptyRecord /\ ~force /\ AppliedOn(Load(disk), day')
       => pc' # "apply"]_<<vars, run, done>>
=============================================================================
