--------------------------- MODULE SeasonedProofs ---------------------------
(***************************************************************************)
(* The whole program, for any number of commands and a daemon that take    *)
(* turns: the screen agrees with the file, and the file is one history of  *)
(* atomic draws.  (Where they overlap neither holds: two_daemons.cfg and   *)
(* overlap_reapply.cfg.)                                                   *)
(***************************************************************************)
EXTENDS Seasoned, DaemonProofs

USE DEF machine, frame, channels, watch, history

-----------------------------------------------------------------------------
(* The invariant *)

\* The local variables of a command.
LocalType ==
  [pc : {"idle", "loaded", "apply", "save"}, cfg : Config, mem : Record,
   force : BOOLEAN, day : Day, dec : Decision \cup {Nothing}, already : SUBSET Day]

\* Who has begun has the machine to itself.
Turns ==
  /\ pc # "off" => \A p \in Proc : run[p].pc = "idle"
  /\ \A p, q \in Proc : run[p].pc # "idle" /\ run[q].pc # "idle" => p = q

\* So what a command has loaded is what the file holds, what it has decided is
\* what the file, its configuration and its day allow, and what it has applied
\* is on screen.
Own(l) ==
  /\ l.pc # "idle" => l.mem = Load(disk)
  /\ l.pc \in {"apply", "save"} =>
       /\ l.dec \in Decision /\ ~l.dec.reused
       /\ Load(disk).date <= l.day /\ l.day <= today
       /\ \E files \in Scans[SourceOf[l.cfg][l.day]] :
            l.dec \in ResolveForDate(l.cfg, Load(disk), l.day, l.force, files)
  /\ l.pc = "save" => desktop = l.dec.path

Commanded ==
  /\ run \in [Proc -> LocalType] /\ done \subseteq Day
  /\ Turns
  /\ \A p \in Proc : Own(run[p])

\* The daemon knows as much of its own decision.
Looped == TypeOK /\ MemoryMirrorsDisk /\ DecisionStillHolds /\ DateInv

\* The screen shows what the file says, but between an Apply and its Save.
Screened ==
  /\ /\ ~torn /\ pc # "save"
     /\ \A p \in Proc : run[p].pc # "save"
     => desktop = Load(disk).path
  /\ pc = "save" => desktop = dec.path

TurnsInv == Looped /\ Screened /\ Commanded

-----------------------------------------------------------------------------
(* The commands' operators *)

\* OneShot's operators are Core's.
LEMMA CommandOperators ==
  /\ O!Nothing = Nothing /\ O!EmptyRecord = EmptyRecord
  /\ \A file : O!Load(file) = Load(file)
  /\ \A c, st, t, f, files : O!ResolveForDate(c, st, t, f, files) = ResolveForDate(c, st, t, f, files)
  /\ \A st, t, d : O!Recorded(st, t, d) = Recorded(st, t, d)
  /\ \A s, d : O!Extended(s, d) = Extended(s, d)
<1>1. O!EmptyRecord = EmptyRecord /\ O!Nothing = Nothing
  BY DEF O!EmptyRecord, EmptyRecord, O!NoDay, NoDay, O!Nothing, Nothing
<1>2. \A file : O!Load(file) = Load(file)
  BY <1>1 DEF O!Load, Load
<1>3. \A n : O!ExcludeN(n) = ExcludeN(n)
  BY DEF O!ExcludeN, ExcludeN
<1>4. \A recent, n : O!Excluded(recent, n) = Excluded(recent, n)
  BY <1>3 DEF O!Excluded, Excluded
<1>5. \A S : O!Cardinality(S) = Cardinality(S)
  BY DEF O!Cardinality, Cardinality
<1>6. \A src, files, recent : O!Candidates(src, files, recent) = Candidates(src, files, recent)
  BY <1>4, <1>5 DEF O!Candidates, Candidates, O!Fresh, Fresh
<1>7. \A src, st, files : O!Draws(src, st, files) = Draws(src, st, files)
  BY <1>5, <1>6 DEF O!Draws, Draws
<1>8. ASSUME NEW c, NEW st, NEW t, NEW f, NEW files
      PROVE  O!ResolveForDate(c, st, t, f, files) = ResolveForDate(c, st, t, f, files)
  BY <1>7 DEF O!ResolveForDate, ResolveForDate, O!AppliedOn, AppliedOn, O!Reuse, Reuse
<1>9. \A recent, latest : O!Without(recent, latest) = Without(recent, latest)
  BY DEF O!Without, Without, O!CutOut, CutOut
<1>10. \A s, n : O!AtMost(s, n) = AtMost(s, n)
  BY DEF O!AtMost, AtMost
<1>11. \A recent, latest, n : O!Trim(recent, latest, n) = Trim(recent, latest, n)
  BY <1>3, <1>9, <1>10 DEF O!Trim, Trim, O!HistoryLimit, HistoryLimit
<1>12. ASSUME NEW st, NEW t, NEW d
       PROVE  O!Recorded(st, t, d) = Recorded(st, t, d)
  BY <1>11 DEF O!Recorded, Recorded
<1>13. ASSUME NEW s, NEW d
       PROVE  O!Extended(s, d) = Extended(s, d)
  BY <1>10 DEF O!Extended, Extended
<1> QED
  BY <1>1, <1>2, <1>8, <1>12, <1>13

\* With a configuration, a process has something to start from.
LEMMA IdleLocals ==
  ASSUME NEW c \in Config
  PROVE  O!Idle \in LocalType /\ O!Idle.pc = "idle"
<1>1. (CHOOSE x \in Config : TRUE) \in Config
  OBVIOUS
<1>2. EmptyRecord \in Record /\ 1 \in Day
  BY LoadType, CoreAssumption DEF Day
<1>3. O!Idle = [pc |-> "idle", cfg |-> CHOOSE x \in Config : TRUE, mem |-> EmptyRecord,
                force |-> FALSE, day |-> 1, dec |-> Nothing, already |-> {}]
  BY CommandOperators DEF O!Idle
<1> QED
  BY <1>1, <1>2, <1>3 DEF LocalType

-----------------------------------------------------------------------------
(* The daemon's turn *)

\* While there is no process, only a start changes more than the day.
LEMMA OffFrame ==
  ASSUME pc = "off", [Next]_vars
  PROVE  Start \/ UNCHANGED <<pc, disk, desktop, torn>>
BY DEF Next, Process, Evaluation, Loop, Watcher, Environment, vars,
       LoadState, LoadFails, SelectDone, Resolve, Now, Apply, ApplyFails, Save, SaveFails,
       SpawnWatchers, SelectTimer, SelectKick, SelectWake, SelectReload, Evaluate,
       ReloadConfig, Attach, AttachFails, OnEvent, DebounceFires, StopWatch,
       Tick, EditConfig, Kick, Reload, Wake, Terminate, Crash

\* The day only moves on.
LEMMA DayMovesOn ==
  ASSUME TypeOK, [Next]_vars
  PROVE  today \in Nat /\ today' \in Nat /\ today <= today'
<1>1. today \in Nat
  BY CoreAssumption DEF TypeOK, MachineType, Day
<1>2. Tick \/ UNCHANGED today
  BY DEF Next, Process, Evaluation, Loop, Watcher, Environment, vars, Start,
         LoadState, LoadFails, SelectDone, Resolve, Now, Apply, ApplyFails, Save, SaveFails,
         SpawnWatchers, SelectTimer, SelectKick, SelectWake, SelectReload, Evaluate,
         ReloadConfig, Attach, AttachFails, OnEvent, DebounceFires, StopWatch,
         EditConfig, Kick, Reload, Wake, Terminate, Crash
<1>3. CASE Tick
  BY <1>1, <1>3 DEF Tick
<1>4. CASE UNCHANGED today
  BY <1>1, <1>4
<1> QED
  BY <1>2, <1>3, <1>4

\* A step of the daemon's is a step of Daemon.
LEMMA DaemonSteps ==
  ASSUME DaemonStep
  PROVE  Next /\ run' = run
BY DEF DaemonStep, Next, Process, Evaluation

\* What the daemon knows of itself does not depend on the commands.
LEMMA LoopedStep ==
  ASSUME Looped, [Next]_vars
  PROVE  Looped'
BY TypeStep, MemoryStep, DecisionStep, DateStep DEF Looped

\* The daemon's turn leaves what a command knows as it is: there is none, or
\* there is no daemon.
LEMMA DaemonKeeps ==
  ASSUME Overlap = FALSE, TurnsInv, DaemonStep
  PROVE  TurnsInv'
<1>1. [Next]_vars /\ run' = run
  BY DaemonSteps
<1>2. Looped'
  BY <1>1, LoopedStep DEF TurnsInv
<1>3. done' \subseteq Day
  <2>1. done \subseteq Day /\ day \in Day
    BY DEF TurnsInv, Commanded, Looped, TypeOK, LoopType
  <2>2. done' = done \/ done' = O!SavedFor(done, day)
    BY DEF DaemonStep
  <2> QED
    BY <2>1, <2>2 DEF O!SavedFor
<1>4. CASE \A p \in Proc : run[p].pc = "idle"
  <2>1. ScreenInv
    BY <1>4 DEF TurnsInv, Screened, ScreenInv
  <2>2. ScreenInv'
    BY <1>1, <2>1, ScreenStep DEF TurnsInv, Looped
  <2>3. Screened'
    BY <2>2 DEF Screened, ScreenInv
  <2>4. Commanded'
    BY <1>1, <1>3, <1>4 DEF TurnsInv, Commanded, Turns, Own
  <2> QED
    BY <1>2, <2>3, <2>4 DEF TurnsInv
<1>5. CASE \E p \in Proc : run[p].pc # "idle"
  <2>1. pc = "off"
    BY <1>5 DEF TurnsInv, Commanded, Turns
  <2>2. ~Start
    BY <1>5, <2>1 DEF DaemonStep, Save, Start, LoadState, LoadFails, SelectDone,
                      Resolve, Now, Apply, ApplyFails, SaveFails, Loop, Watcher, Environment,
                      SpawnWatchers, SelectTimer, SelectKick, SelectWake, SelectReload,
                      ReloadConfig, Attach, AttachFails, OnEvent, DebounceFires, StopWatch,
                      Tick, EditConfig, Kick, Reload, Wake, Terminate, Crash
  <2>3. UNCHANGED <<pc, disk, desktop, torn>>
    BY <1>1, <2>1, <2>2, OffFrame
  <2>4. Screened'
    BY <1>1, <2>1, <2>3 DEF TurnsInv, Screened
  <2>5. ASSUME NEW p \in Proc
        PROVE  Own(run[p])'
    <3>1. today \in Nat /\ today' \in Nat /\ today <= today' /\ run[p].day \in Nat
      BY <1>1, DayMovesOn, CoreAssumption DEF TurnsInv, Looped, Commanded, LocalType, Day
    <3>2. Own(run[p])
      BY DEF TurnsInv, Commanded
    <3> QED
      BY <1>1, <2>3, <3>1, <3>2 DEF Own
  <2>6. Commanded'
    BY <1>1, <1>3, <2>1, <2>3, <2>5 DEF TurnsInv, Commanded, Turns
  <2> QED
    BY <1>2, <2>4, <2>6 DEF TurnsInv
<1> QED
  BY <1>4, <1>5

-----------------------------------------------------------------------------
(* A command's turn *)

\* A command that takes a step has the machine to itself, before and after.
LEMMA CommandAlone ==
  ASSUME Overlap = FALSE, TurnsInv, CommandStep
  PROVE  \E p \in Proc :
           /\ O!Command(p)
           /\ pc = "off" /\ UNCHANGED daemonOnly
           /\ \A q \in Proc : run[q].pc # "idle" => q = p
<1>1. PICK p \in Proc :
        \/ /\ O!RunLoad(p)
           /\ pc = "off" /\ \A q \in Proc : run[q].pc = "idle"
        \/ O!RunResolve(p)
        \/ O!RunApply(p) \/ O!RunApplyFails(p)
        \/ O!RunSave(p) \/ O!RunSaveFails(p)
        \/ O!RunKilled(p)
  BY DEF CommandStep
<1>2. O!Command(p) /\ UNCHANGED daemonOnly
  BY <1>1 DEF O!Command, CommandStep
<1>3. CASE O!RunLoad(p) /\ pc = "off" /\ \A q \in Proc : run[q].pc = "idle"
  BY <1>2, <1>3
<1>4. CASE run[p].pc # "idle"
  BY <1>2, <1>4 DEF TurnsInv, Commanded, Turns
<1> QED
  BY <1>1, <1>3, <1>4 DEF O!RunResolve, O!RunApply, O!RunApplyFails, O!RunSave, O!RunSaveFails,
                          O!RunKilled

\* What a step must come to: new locals for the process, a machine of the right
\* types, and a screen that agrees with the file unless p is yet to save.
Outcome(p, l) ==
  /\ l \in LocalType /\ run' = [run EXCEPT ![p] = l]
  /\ today' = today /\ cfgFile' = cfgFile
  /\ disk' \in StateFile /\ desktop' \in File \cup {NoFile} /\ torn' \in BOOLEAN
  /\ shown' \in [Source -> Seq(File)] /\ done' \subseteq Day
  /\ Load(disk').date <= today
  /\ Own(l)'
  /\ ~torn' /\ l.pc # "save" => desktop' = Load(disk').path

\* That is enough: the others are idle, and so is the daemon.
LEMMA OutcomeKeeps ==
  ASSUME TurnsInv, NEW p \in Proc, NEW l, Outcome(p, l),
         pc = "off", UNCHANGED daemonOnly,
         \A q \in Proc : run[q].pc # "idle" => q = p
  PROVE  TurnsInv'
<1> USE DEF TurnsInv
<1>1. pc' = "off" /\ UNCHANGED <<crashes, cfg, mem, force, day, dec, reloadCh, kickCh, wakeCh,
                                 cancelled, watcher, event, debounce, owed, read, missed>>
  BY DEF daemonOnly
<1>2. TypeOK'
  BY <1>1 DEF Looped, TypeOK, MachineType, LoopType, ChannelType, HistoryType, Outcome
<1>3. Looped'
  BY <1>1, <1>2 DEF Looped, MemoryMirrorsDisk, Running, DecisionStillHolds, DateInv, Outcome
<1>4. run' \in [Proc -> LocalType] /\ run'[p] = l /\ \A q \in Proc \ {p} : run'[q] = run[q]
  BY DEF Commanded, Outcome
<1>5. \A q \in Proc \ {p} : run'[q].pc = "idle"
  BY <1>4
<1>6. Screened'
  BY <1>1, <1>4 DEF Screened, Outcome
<1>7. \A q \in Proc : Own(run[q])'
  BY <1>4, <1>5 DEF Own, Outcome
<1>8. Turns'
  BY <1>1, <1>5 DEF Turns
<1> QED
  BY <1>3, <1>4, <1>6, <1>7, <1>8 DEF Commanded, Outcome

\* A command ends without a record.
LEMMA CommandEnds ==
  ASSUME TurnsInv, NEW p \in Proc, pc = "off",
         run' = [run EXCEPT ![p] = O!Idle], UNCHANGED <<today, cfgFile, disk, shown, done>>,
         desktop' \in File \cup {NoFile}, torn' \in BOOLEAN,
         ~torn' => desktop' = Load(disk).path
  PROVE  Outcome(p, O!Idle)
<1>1. O!Idle \in LocalType /\ O!Idle.pc = "idle"
  BY IdleLocals DEF TurnsInv, Looped, TypeOK, LoopType
<1>2. Load(disk') = Load(disk) /\ Load(disk).date <= today
  BY DEF TurnsInv, Looped, DateInv
<1>3. Own(O!Idle)'
  BY <1>1 DEF Own
<1>4. disk' \in StateFile /\ shown' \in [Source -> Seq(File)] /\ done' \subseteq Day
  BY DEF TurnsInv, Looped, Commanded, TypeOK, MachineType, HistoryType
<1> QED
  BY <1>1, <1>2, <1>3, <1>4 DEF Outcome

\* Every step of a command that is alone comes to that.
LEMMA CommandOutcome ==
  ASSUME TurnsInv, NEW p \in Proc, O!Command(p), pc = "off",
         \A q \in Proc : run[q].pc # "idle" => q = p
  PROVE  \E l : Outcome(p, l)
<1>1. /\ run \in [Proc -> LocalType] /\ run[p] \in LocalType /\ Own(run[p]) /\ done \subseteq Day
      /\ today \in Day /\ disk \in StateFile /\ desktop \in File \cup {NoFile} /\ torn \in BOOLEAN
      /\ shown \in [Source -> Seq(File)]
  BY DEF TurnsInv, Looped, Commanded, TypeOK, MachineType, HistoryType
<1>2. Load(disk) \in Record /\ Load(disk).date <= today
  BY <1>1, LoadType DEF TurnsInv, Looped, DateInv
<1>3. run[p].pc # "save" /\ ~torn => desktop = Load(disk).path
  BY DEF TurnsInv, Screened
<1>4. CASE O!RunLoad(p)
  <2>1. PICK command \in Commands :
          run' = [run EXCEPT ![p].pc = "loaded", ![p].cfg = cfgFile, ![p].mem = Load(disk),
                             ![p].force = (command = "next"), ![p].already = done]
    BY <1>4, CommandOperators DEF O!RunLoad
  <2>0. PICK l : l = [run[p] EXCEPT !.pc = "loaded", !.cfg = cfgFile, !.mem = Load(disk),
                                    !.force = (command = "next"), !.already = done]
    OBVIOUS
  <2>2. /\ run[p].pc = "idle" /\ cfgFile \in Config
        /\ UNCHANGED <<today, disk, desktop, cfgFile, torn, shown, done>>
    BY <1>4 DEF O!RunLoad
  <2>3. /\ l \in LocalType /\ l.pc = "loaded" /\ l.mem = Load(disk)
        /\ run' = [run EXCEPT ![p] = l]
    BY <1>1, <1>2, <2>0, <2>1, <2>2 DEF LocalType
  <2>4. Own(l)'
    BY <2>2, <2>3 DEF Own
  <2>5. Outcome(p, l)
    BY <1>1, <1>2, <1>3, <2>2, <2>3, <2>4 DEF Outcome
  <2> QED
    BY <2>5
<1>5. CASE O!RunResolve(p)
  <2>1. /\ run[p].pc = "loaded" /\ UNCHANGED <<today, disk, desktop, cfgFile, torn, shown, done>>
    BY <1>5 DEF O!RunResolve
  <2>2. CASE run' = [run EXCEPT ![p] = O!Idle]
    BY <1>1, <1>3, <2>1, <2>2, CommandEnds
  <2>3. CASE \E files \in Scans[SourceOf[run[p].cfg][today]] :
             \E d \in ResolveForDate(run[p].cfg, run[p].mem, today, run[p].force, files) :
               /\ ~d.reused
               /\ run' = [run EXCEPT ![p].pc = "apply", ![p].day = today, ![p].dec = d]
    <3>1. PICK files \in Scans[SourceOf[run[p].cfg][today]] :
            \E d \in ResolveForDate(run[p].cfg, run[p].mem, today, run[p].force, files) :
              /\ ~d.reused
              /\ run' = [run EXCEPT ![p].pc = "apply", ![p].day = today, ![p].dec = d]
      BY <2>3
    <3>2. PICK d \in ResolveForDate(run[p].cfg, run[p].mem, today, run[p].force, files) :
            /\ ~d.reused
            /\ run' = [run EXCEPT ![p].pc = "apply", ![p].day = today, ![p].dec = d]
      BY <3>1
    <3>3. d \in Decision
      BY <1>1, <3>2, DrawType DEF LocalType
    <3>0. PICK l : l = [run[p] EXCEPT !.pc = "apply", !.day = today, !.dec = d]
      OBVIOUS
    <3>4. /\ l \in LocalType /\ l.pc = "apply" /\ l.mem = run[p].mem /\ l.day = today /\ l.dec = d
          /\ l.cfg = run[p].cfg /\ l.force = run[p].force /\ run' = [run EXCEPT ![p] = l]
      BY <1>1, <3>0, <3>2, <3>3 DEF LocalType
    <3>5. run[p].mem = Load(disk)
      BY <1>1, <2>1 DEF Own
    <3>6. today <= today
      BY <1>1, CoreAssumption DEF Day
    <3>7. Own(l)'
      BY <1>2, <2>1, <3>2, <3>3, <3>4, <3>5, <3>6 DEF Own
    <3>8. Outcome(p, l)
      BY <1>1, <1>2, <1>3, <2>1, <3>4, <3>7 DEF Outcome
    <3> QED
      BY <3>8
  <2> QED
    BY <1>5, <2>2, <2>3, CommandOperators DEF O!RunResolve
<1>6. CASE O!RunApply(p)
  <2>0. PICK l : l = [run[p] EXCEPT !.pc = "save"]
    OBVIOUS
  <2>1. /\ run[p].pc = "apply" /\ desktop' = run[p].dec.path
        /\ UNCHANGED <<today, disk, cfgFile, torn, shown, done>>
    BY <1>6 DEF O!RunApply
  <2>2. /\ l \in LocalType /\ l.pc = "save" /\ l.mem = run[p].mem /\ l.day = run[p].day
        /\ l.dec = run[p].dec /\ l.cfg = run[p].cfg /\ l.force = run[p].force
        /\ run' = [run EXCEPT ![p] = l]
    BY <1>1, <1>6, <2>0 DEF O!RunApply, LocalType
  <2>3. Own(l)'
    BY <1>1, <2>1, <2>2 DEF Own
  <2>4. desktop' \in File
    BY <1>1, <2>1 DEF Own, Decision
  <2>5. Outcome(p, l)
    BY <1>1, <1>2, <2>1, <2>2, <2>3, <2>4 DEF Outcome
  <2> QED
    BY <2>5
<1>7. CASE O!RunApplyFails(p)
  <2>1. /\ run[p].pc = "apply" /\ desktop' \in {desktop, run[p].dec.path}
        /\ torn' = (torn \/ desktop' # desktop)
        /\ run' = [run EXCEPT ![p] = O!Idle]
        /\ UNCHANGED <<today, disk, cfgFile, shown, done>>
    BY <1>7 DEF O!RunApplyFails
  <2>2. desktop' \in File \cup {NoFile} /\ torn' \in BOOLEAN
    BY <1>1, <2>1 DEF Own, Decision
  <2>3. ~torn' => desktop' = Load(disk).path
    BY <1>3, <2>1
  <2> QED
    BY <2>1, <2>2, <2>3, CommandEnds
<1>8. CASE O!RunSave(p)
  <2>1. /\ run[p].pc = "save" /\ run' = [run EXCEPT ![p] = O!Idle]
        /\ disk' = Recorded(run[p].mem, run[p].day, run[p].dec)
        /\ shown' = Extended(shown, run[p].dec)
        /\ torn' = FALSE /\ done' = O!SavedFor(done, run[p].day)
        /\ UNCHANGED <<today, desktop, cfgFile>>
    BY <1>8, CommandOperators DEF O!RunSave
  <2>2. /\ run[p].dec \in Decision /\ run[p].day <= today /\ desktop = run[p].dec.path
        /\ run[p].mem \in Record /\ run[p].day \in Day
    BY <1>1, <2>1 DEF Own, LocalType
  <2>3. /\ disk' \in Record /\ disk'.path = run[p].dec.path /\ disk'.date = run[p].day
    BY <2>1, <2>2, RecordedType
  <2>4. Load(disk') = disk' /\ disk' \in StateFile
    BY <2>3, LoadType DEF StateFile
  <2>5. shown' \in [Source -> Seq(File)]
    BY <1>1, <2>1, <2>2, ExtendedType
  <2>6. done' \subseteq Day
    BY <1>1, <2>1, <2>2 DEF O!SavedFor
  <2>7. O!Idle \in LocalType /\ O!Idle.pc = "idle"
    BY IdleLocals DEF TurnsInv, Looped, TypeOK, LoopType
  <2>8. Own(O!Idle)'
    BY <2>7 DEF Own
  <2>9. Outcome(p, O!Idle)
    BY <1>1, <2>1, <2>2, <2>3, <2>4, <2>5, <2>6, <2>7, <2>8 DEF Outcome
  <2> QED
    BY <2>9
<1>9. CASE O!RunSaveFails(p) \/ O!RunKilled(p)
  <2>1. /\ run' = [run EXCEPT ![p] = O!Idle]
        /\ torn' = TRUE \/ (torn' = (torn \/ run[p].pc = "save"))
        /\ UNCHANGED <<today, disk, desktop, cfgFile, shown, done>>
    BY <1>9 DEF O!RunSaveFails, O!RunKilled
  <2>2. torn' \in BOOLEAN /\ (~torn' => desktop' = Load(disk).path)
    BY <1>1, <1>3, <2>1
  <2> QED
    BY <1>1, <2>1, <2>2, CommandEnds
<1> QED
  BY <1>4, <1>5, <1>6, <1>7, <1>8, <1>9 DEF O!Command

\* So a command's turn leaves the invariant as it is.
LEMMA CommandKeeps ==
  ASSUME Overlap = FALSE, TurnsInv, CommandStep
  PROVE  TurnsInv'
<1>1. PICK p \in Proc :
        /\ O!Command(p)
        /\ pc = "off" /\ UNCHANGED daemonOnly
        /\ \A q \in Proc : run[q].pc # "idle" => q = p
  BY CommandAlone
<1>2. PICK l : Outcome(p, l)
  BY <1>1, CommandOutcome
<1> QED
  BY <1>1, <1>2, OutcomeKeeps

-----------------------------------------------------------------------------
(* The program *)

\* The program starts out with a daemon and commands that have not begun.
LEMMA TurnsInit == SeasonedInit => TurnsInv
<1> SUFFICES ASSUME SeasonedInit PROVE TurnsInv
  OBVIOUS
<1>1. Init /\ done = {} /\ run = [p \in Proc |-> O!Idle]
  BY DEF SeasonedInit, O!InitRun
<1>2. TypeOK /\ cfg \in Config
  BY <1>1, InitTypes DEF TypeOK, LoopType
<1>3. Load(disk) = EmptyRecord
  BY <1>1, LoadType DEF Init
<1>4. Looped
  BY <1>1, <1>2, <1>3
  DEF Looped, Init, MemoryMirrorsDisk, Running, DecisionStillHolds, DateInv, EmptyRecord, NoDay
<1>5. Screened
  BY <1>1, <1>3 DEF Init, Screened, EmptyRecord
<1>6. O!Idle \in LocalType /\ O!Idle.pc = "idle"
  BY <1>2, IdleLocals
<1>7. run \in [Proc -> LocalType] /\ \A p \in Proc : run[p].pc = "idle"
  BY <1>1, <1>6
<1>8. Commanded
  BY <1>1, <1>7 DEF Commanded, Turns, Own
<1> QED
  BY <1>4, <1>5, <1>8 DEF TurnsInv

\* No step of either breaks in on the other.
LEMMA TurnsStep ==
  ASSUME Overlap = FALSE, TurnsInv, [SeasonedNext]_<<vars, run, done>>
  PROVE  TurnsInv'
<1>1. CASE UNCHANGED <<vars, run, done>>
  <2>1. [Next]_vars /\ UNCHANGED <<vars, run, done>>
    BY <1>1
  <2>2. Looped'
    BY <2>1, LoopedStep DEF TurnsInv
  <2>3. UNCHANGED <<pc, disk, desktop, torn, today, dec, run, done>>
    BY <1>1 DEF vars
  <2> QED
    BY <2>2, <2>3 DEF TurnsInv, Screened, Commanded, Turns, Own
<1> QED
  BY <1>1, DaemonKeeps, CommandKeeps DEF SeasonedNext

\* For processes that take turns: whoever has begun has the machine to itself,
\* and what it has loaded, decided and applied is still what it finds.
THEOREM TakingTurns ==
  ASSUME Overlap = FALSE
  PROVE  SeasonedSpec => []TurnsInv
<1> QED
  BY TurnsInit, TurnsStep, PTL DEF SeasonedSpec

\* The screen of the program agrees with its file: after failures and kills, too,
\* once a draw has been recorded (the Apply and Save of core and of the daemon).
THEOREM ScreenAgreement ==
  ASSUME Overlap = FALSE
  PROVE  SeasonedSpec => []ScreenAgrees
<1>1. TurnsInv => ScreenAgrees
  BY DEF TurnsInv, Screened, ScreenAgrees
<1> QED
  BY <1>1, TakingTurns, PTL

\* The daemon and the commands together implement History: the draws that one
\* saves extend the ones that the other has saved.
THEOREM OneHistory ==
  ASSUME Overlap = FALSE
  PROVE  SeasonedSpec => HistorySpec
<1>1. SeasonedInit => H!Init
  BY LoadType, SameOperators DEF SeasonedInit, Init, H!Init
<1>2. TurnsInv /\ [SeasonedNext]_<<vars, run, done>> => [H!Next]_H!vars
  <2> SUFFICES ASSUME TurnsInv, [SeasonedNext]_<<vars, run, done>>
               PROVE  [H!Next]_H!vars
    OBVIOUS
  <2>1. CASE [Next]_vars
    BY <2>1, DrawStep DEF TurnsInv, Looped
  <2>2. CASE CommandStep
    <3>1. PICK p \in Proc : O!Command(p)
      BY <2>2, CommandAlone
    <3>2. CASE O!RunSave(p)
      <4>1. /\ run[p].pc = "save" /\ UNCHANGED today
            /\ disk' = Recorded(run[p].mem, run[p].day, run[p].dec)
        BY <3>2, CommandOperators DEF O!RunSave
      <4>2. run[p] \in LocalType /\ Own(run[p])
        BY DEF TurnsInv, Commanded
      <4>3. /\ run[p].mem = Load(disk) /\ run[p].mem \in Record /\ run[p].cfg \in Config
            /\ run[p].force \in BOOLEAN /\ run[p].day \in Day /\ run[p].dec \in Decision
            /\ ~run[p].dec.reused /\ Load(disk).date <= run[p].day /\ run[p].day <= today
        BY <4>1, <4>2 DEF Own, LocalType
      <4>4. PICK files \in Scans[SourceOf[run[p].cfg][run[p].day]] :
              run[p].dec \in ResolveForDate(run[p].cfg, Load(disk), run[p].day, run[p].force, files)
        BY <4>1, <4>2 DEF Own
      <4>5. Load(disk') = Recorded(Load(disk), run[p].day, run[p].dec)
        BY <4>1, <4>3, RecordedType, LoadType
      <4>6. H!Draw
        BY <4>1, <4>3, <4>4, <4>5, SameOperators DEF H!Draw
      <4> QED
        BY <4>6 DEF H!Next
    <3>3. CASE ~O!RunSave(p)
      <4>1. UNCHANGED <<disk, today>>
        BY <3>1, <3>3 DEF O!Command, O!RunLoad, O!RunResolve, O!RunApply, O!RunApplyFails,
                          O!RunSaveFails, O!RunKilled
      <4> QED
        BY <4>1 DEF H!vars
    <3> QED
      BY <3>2, <3>3
  <2> QED
    BY <2>1, <2>2, DaemonSteps DEF SeasonedNext
<1> QED
  BY <1>1, <1>2, TakingTurns, PTL DEF SeasonedSpec, HistorySpec, H!Spec
=============================================================================
