------------------------------ MODULE OneShot ------------------------------
(***************************************************************************)
(* cmd/seasoned: `seasoned run` and `seasoned next`, any number of         *)
(* processes at a time.  Each loads the config and the state file, makes   *)
(* one decision, applies it and saves the record; nothing holds a lock     *)
(* between the load and the save.                                          *)
(***************************************************************************)
EXTENDS Core

CONSTANTS
  Proc,        \* processes that may run at the same time
  Commands     \* subset of {"run", "next"}: the commands the user and timers give

ASSUME OneShotAssumption == Commands \subseteq {"run", "next"}

VARIABLES
  today, disk, desktop,
  cfgFile,     \* what config.Load would make of the config file
  run,         \* the local variables of cmdRun, by process
  torn,        \* history: a draw reached the screen but not the file
  shown,       \* history: recorded draws by source, latest first
  done         \* history: the days for which a record was saved, and none for an
               \* earlier day since

vars == <<today, disk, desktop, cfgFile, run, torn, shown, done>>

-----------------------------------------------------------------------------
Idle ==
  [pc |-> "idle", cfg |-> CHOOSE c \in Config : TRUE, mem |-> EmptyRecord,
   force |-> FALSE, day |-> 1, dec |-> Nothing, already |-> {}]

InitRun == run = [p \in Proc |-> Idle]

\* done once a record for day has been saved: it hides those for later days.
SavedFor(days, day) == {d \in days : d < day} \cup {day}

Init ==
  /\ today = 1
  /\ disk \in {Missing, Corrupt}
  /\ desktop = NoFile
  /\ cfgFile \in Config
  /\ InitRun
  /\ torn = FALSE
  /\ shown = [src \in Source |-> <<>>]
  /\ done = {}

\* Mutant: a state file that is not read; the command starts from nothing.
RunLoadNothing(p) ==
  /\ run[p].pc = "idle"
  /\ cfgFile \in Config
  /\ \E command \in Commands :
       run' = [run EXCEPT ![p].pc = "loaded", ![p].cfg = cfgFile, ![p].mem = EmptyRecord,
                          ![p].force = (command = "next"), ![p].already = done]
  /\ UNCHANGED <<today, disk, desktop, cfgFile, torn, shown, done>>

\* loadConfig and state.Load.  already is history: the days that were done
\* before the command was given.
RunLoad(p) ==
  /\ run[p].pc = "idle"
  /\ cfgFile \in Config
  /\ \E command \in Commands :
       run' = [run EXCEPT ![p].pc = "loaded", ![p].cfg = cfgFile, ![p].mem = Load(disk),
                          ![p].force = (command = "next"), ![p].already = done]
  /\ UNCHANGED <<today, disk, desktop, cfgFile, torn, shown, done>>

\* time.Now and ResolveForDate; no decision and a reused one both end the
\* process, and so does --dry-run.
RunResolve(p) ==
  /\ run[p].pc = "loaded"
  /\ \/ run' = [run EXCEPT ![p] = Idle]
     \/ \E files \in Scans[SourceOf[run[p].cfg][today]] :
        \E d \in ResolveForDate(run[p].cfg, run[p].mem, today, run[p].force, files) :
          /\ ~d.reused
          /\ run' = [run EXCEPT ![p].pc = "apply", ![p].day = today, ![p].dec = d]
  /\ UNCHANGED <<today, disk, desktop, cfgFile, torn, shown, done>>

RunApply(p) ==
  /\ run[p].pc = "apply"
  /\ desktop' = run[p].dec.path
  /\ run' = [run EXCEPT ![p].pc = "save"]
  /\ UNCHANGED <<today, disk, cfgFile, torn, shown, done>>

\* Mutant: the error of Apply is dropped.
RunApplyErrorIgnored(p) ==
  /\ run[p].pc = "apply"
  /\ desktop' \in {desktop, run[p].dec.path}
  /\ run' = [run EXCEPT ![p].pc = "save"]
  /\ UNCHANGED <<today, disk, cfgFile, torn, shown, done>>

\* The backend fails, before or after the screen changed.
RunApplyFails(p) ==
  /\ run[p].pc = "apply"
  /\ desktop' \in {desktop, run[p].dec.path}
  /\ torn' = (torn \/ desktop' # desktop)
  /\ run' = [run EXCEPT ![p] = Idle]
  /\ UNCHANGED <<today, disk, cfgFile, shown, done>>

\* Record and Save: the file becomes the record that was loaded, extended.
RunSave(p) ==
  /\ run[p].pc = "save"
  /\ LET d == run[p].dec IN
       /\ disk' = Recorded(run[p].mem, run[p].day, d)
       /\ shown' = Extended(shown, d)
  /\ torn' = FALSE
  /\ done' = SavedFor(done, run[p].day)
  /\ run' = [run EXCEPT ![p] = Idle]
  /\ UNCHANGED <<today, desktop, cfgFile>>

RunSaveFails(p) ==
  /\ run[p].pc = "save"
  /\ torn' = TRUE
  /\ run' = [run EXCEPT ![p] = Idle]
  /\ UNCHANGED <<today, disk, desktop, cfgFile, shown, done>>

RunKilled(p) ==
  /\ run[p].pc # "idle"
  /\ torn' = (torn \/ run[p].pc = "save")
  /\ run' = [run EXCEPT ![p] = Idle]
  /\ UNCHANGED <<today, disk, desktop, cfgFile, shown, done>>

Tick ==
  /\ today < MaxDay
  /\ today' = today + 1
  /\ UNCHANGED <<disk, desktop, cfgFile, run, torn, shown, done>>

Command(p) ==
  \/ RunLoad(p) \/ RunResolve(p)
  \/ RunApply(p) \/ RunApplyFails(p)
  \/ RunSave(p) \/ RunSaveFails(p)
  \/ RunKilled(p)

Next == Tick \/ \E p \in Proc : Command(p)

Spec == Init /\ [][Next]_vars

-----------------------------------------------------------------------------
(* Properties *)

\* Every local variable of a command has its type, and dec holds a decision
\* while Apply and Save use it.
RunTypeOK ==
  /\ run \in [Proc -> [pc : {"idle", "loaded", "apply", "save"}, cfg : Config,
                       mem : Record, force : BOOLEAN, day : Day,
                       dec : Decision \cup {Nothing}, already : SUBSET Day]]
  /\ \A p \in Proc : run[p].pc \in {"apply", "save"} => run[p].dec \in Decision
  /\ done \subseteq Day

\* And so do the machine's.
TypeOK ==
  /\ RunTypeOK
  /\ today \in Day /\ disk \in StateFile /\ desktop \in File \cup {NoFile}
  /\ cfgFile \in Config /\ torn \in BOOLEAN
  /\ shown \in [Source -> Seq(File)]

\* `run` is idempotent per calendar day, however many commands run: one given
\* after a record for its day was saved applies nothing, unless a command that
\* began on an earlier day has put its own record over it.
RunIdempotent ==
  \A p \in Proc :
    run[p].pc \in {"apply", "save"} /\ ~run[p].force => run[p].day \notin run[p].already
=============================================================================
