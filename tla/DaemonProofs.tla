---------------------------- MODULE DaemonProofs ----------------------------
(***************************************************************************)
(* The safety properties of Daemon, for every configuration, calendar,     *)
(* pool, signal and edit, and any number of crashes.  Each invariant is    *)
(* proved by itself, from the ones before it.                              *)
(***************************************************************************)
EXTENDS Daemon, CoreProofs

USE DEF machine, frame, channels, watch, history

-----------------------------------------------------------------------------
(* Types *)

\* The daemon starts out with every variable typed.
LEMMA InitTypes == Init => TypeOK
<1> SUFFICES ASSUME Init PROVE TypeOK
  OBVIOUS
<1>1. 1 \in Day
  BY CoreAssumption DEF Day
<1>2. mem \in Record /\ disk \in StateFile
  BY LoadType DEF Init, StateFile
<1>3. shown \in [Source -> Seq(File)]
  BY DEF Init
<1> QED
  BY <1>1, <1>2, <1>3, DaemonAssumption
  DEF Init, TypeOK, MachineType, LoopType, ChannelType, HistoryType, ConfigFile, Down

\* No step puts anything but a day, a state file, a wallpaper and a config
\* file on the machine.
LEMMA MachineStep == TypeOK /\ [Next]_vars => MachineType'
<1> SUFFICES ASSUME TypeOK, [Next]_vars PROVE MachineType'
  OBVIOUS
<1> USE DEF TypeOK, MachineType
<1>1. CASE Tick
  BY <1>1, CoreAssumption DEF Tick, Day
<1>2. CASE Apply
  BY <1>2 DEF Apply, LoopType, Decision
<1>3. CASE ApplyFails
  BY <1>3 DEF ApplyFails, LoopType, Decision
<1>4. CASE Save
  <2>1. Recorded(mem, day, dec) \in Record
    BY <1>4, RecordedType DEF Save, LoopType
  <2> QED
    BY <1>4, <2>1 DEF Save, StateFile
<1>5. CASE EditConfig
  BY <1>5, DaemonAssumption DEF EditConfig
<1>6. CASE Crash
  BY <1>6 DEF Crash
<1>7. CASE UNCHANGED <<today, disk, desktop, cfgFile, crashes>>
  BY <1>7
<1> QED
  BY <1>1, <1>2, <1>3, <1>4, <1>5, <1>6, <1>7
  DEF Next, Process, Evaluation, Loop, Watcher, Environment, vars,
      Start, LoadState, LoadFails, SelectDone, Resolve, Now, SaveFails,
      SpawnWatchers, SelectTimer, SelectKick, SelectWake, SelectReload, Evaluate,
      ReloadConfig, Attach, AttachFails, OnEvent, DebounceFires, StopWatch,
      Kick, Reload, Wake, Terminate

\* No step leaves the loop with an untyped frame: Apply and Save find a decision
\* that Resolve has made, of a day that has begun.
LEMMA LoopStep == TypeOK /\ [Next]_vars => LoopType'
<1> SUFFICES ASSUME TypeOK, [Next]_vars PROVE LoopType'
  OBVIOUS
<1> USE DEF TypeOK, LoopType, Down, Running
<1>0. 1 \in Day /\ Day \subseteq Nat
  BY CoreAssumption DEF Day
<1>1. CASE Start
  BY <1>1 DEF Start, ConfigFile
<1>2. CASE LoadState
  BY <1>2, LoadType DEF LoadState, MachineType
<1>3. CASE Gone
  BY <1>0, <1>3, LoadType DEF Gone
<1>4. CASE Resolve
  <2>1. PICK files \in Scans[SourceOf[cfg][today]] :
          \/ Return
          \/ \E d \in ResolveForDate(cfg, mem, today, force, files) :
               ~d.reused /\ pc' = "apply" /\ dec' = d /\ UNCHANGED force
    BY <1>4 DEF Resolve, Now
  <2>2. CASE Return
    BY <1>4, <2>2 DEF Resolve, Now, Return, MachineType
  <2>3. CASE \E d \in ResolveForDate(cfg, mem, today, force, files) :
               ~d.reused /\ pc' = "apply" /\ dec' = d /\ UNCHANGED force
    <3>1. dec' \in Decision
      BY <2>3, DrawType DEF MachineType
    <3> QED
      BY <1>0, <1>4, <2>3, <3>1 DEF Resolve, Now, MachineType
  <2> QED
    BY <2>1, <2>2, <2>3
<1>5. CASE Apply
  BY <1>5 DEF Apply
<1>6. CASE ApplyFails \/ SaveFails
  BY <1>6 DEF ApplyFails, SaveFails, Return
<1>7. CASE Save
  <2>1. Recorded(mem, day, dec) \in Record
    BY <1>7, RecordedType DEF Save
  <2> QED
    BY <1>7, <2>1 DEF Save, Return
<1>8. CASE Loop
  BY <1>8 DEF Loop, SpawnWatchers, SelectTimer, SelectKick, SelectWake, SelectReload,
              ReloadConfig, Evaluate
<1>9. CASE Tick
  BY <1>0, <1>9 DEF Tick, MachineType
<1>10. CASE UNCHANGED <<today, pc, cfg, mem, force, day, dec>>
  BY <1>10
<1> QED
  BY <1>1, <1>2, <1>3, <1>4, <1>5, <1>6, <1>7, <1>8, <1>9, <1>10
  DEF Next, Process, Evaluation, Watcher, Environment, vars, LoadFails, SelectDone, Crash,
      Attach, AttachFails, OnEvent, DebounceFires, StopWatch,
      EditConfig, Kick, Reload, Wake, Terminate

\* No step puts anything but a token in a channel.
LEMMA ChannelStep == TypeOK /\ [Next]_vars => ChannelType'
<1> SUFFICES ASSUME TypeOK, [Next]_vars PROVE ChannelType'
  OBVIOUS
<1> USE DEF TypeOK, ChannelType
<1>1. CASE Gone
  BY <1>1 DEF Gone
<1>2. CASE Loop
  <2>1. CASE SpawnWatchers \/ ReloadConfig
    BY <2>1 DEF SpawnWatchers, ReloadConfig
  <2>2. CASE SelectTimer \/ SelectKick \/ SelectWake
    BY <2>2 DEF SelectTimer, SelectKick, SelectWake, Evaluate
  <2>3. CASE SelectReload
    BY <2>3 DEF SelectReload
  <2> QED
    BY <1>2, <2>1, <2>2, <2>3 DEF Loop
<1>3. CASE Watcher
  BY <1>3 DEF Watcher, Attach, AttachFails, OnEvent, DebounceFires, StopWatch
<1>4. CASE EditConfig \/ Kick \/ Reload \/ Wake \/ Terminate
  BY <1>4 DEF EditConfig, Kick, Reload, Wake, Terminate
<1>5. CASE UNCHANGED <<channels, watch>>
  BY <1>5
<1> QED
  BY <1>1, <1>2, <1>3, <1>4, <1>5
  DEF Next, Process, Evaluation, Environment, vars, Start, LoadState, LoadFails, SelectDone,
      Resolve, Now, Apply, ApplyFails, Save, SaveFails, Crash, Tick

\* The history variables keep their types.
LEMMA HistoryStep == TypeOK /\ [Next]_vars => HistoryType'
<1> SUFFICES ASSUME TypeOK, [Next]_vars PROVE HistoryType'
  OBVIOUS
<1> USE DEF TypeOK, HistoryType
<1>1. CASE Start \/ ReloadConfig \/ Attach
  BY <1>1 DEF Start, ReloadConfig, Attach, MachineType
<1>2. CASE LoadFails \/ SelectDone \/ Crash
  BY <1>2 DEF LoadFails, SelectDone, Crash, Gone
<1>3. CASE Resolve
  BY <1>3 DEF Resolve, Now
<1>4. CASE ApplyFails \/ SaveFails \/ Kick
  BY <1>4 DEF ApplyFails, SaveFails, Kick
<1>5. CASE Save
  <2>1. Extended(shown, dec) \in [Source -> Seq(File)]
    BY <1>5, ExtendedType DEF Save, LoopType
  <2> QED
    BY <1>5, <2>1 DEF Save
<1>6. CASE UNCHANGED history
  BY <1>6
<1> QED
  BY <1>1, <1>2, <1>3, <1>4, <1>5, <1>6
  DEF Next, Process, Evaluation, Loop, Watcher, Environment, vars, LoadState, Apply,
      SpawnWatchers, SelectTimer, SelectKick, SelectWake, SelectReload, Evaluate,
      AttachFails, OnEvent, DebounceFires, StopWatch,
      Tick, EditConfig, Reload, Wake, Terminate

\* So no step leaves a variable untyped.
LEMMA TypeStep == TypeOK /\ [Next]_vars => TypeOK'
BY MachineStep, LoopStep, ChannelStep, HistoryStep DEF TypeOK

\* Every variable has its type in every reachable state.
THEOREM Typing == Spec => []TypeOK
<1>1. Init => TypeOK
  BY InitTypes
<1>2. TypeOK /\ [Next]_vars => TypeOK'
  BY TypeStep
<1> QED
  BY <1>1, <1>2, PTL DEF Spec

-----------------------------------------------------------------------------
(* The record in memory and the record on disk *)

\* Nothing but Save writes the state file.
LEMMA DiskFrame == [Next]_vars => Save \/ UNCHANGED disk
BY DEF Next, Process, Evaluation, Loop, Watcher, Environment, vars,
       Start, LoadState, LoadFails, SelectDone, Resolve, Now, Apply, ApplyFails, SaveFails,
       SpawnWatchers, SelectTimer, SelectKick, SelectWake, SelectReload, Evaluate,
       ReloadConfig, Attach, AttachFails, OnEvent, DebounceFires, StopWatch,
       Tick, EditConfig, Kick, Reload, Wake, Terminate, Crash

\* No step of the process tells d.state and the file apart.
LEMMA MemoryStep == TypeOK /\ MemoryMirrorsDisk /\ [Next]_vars => MemoryMirrorsDisk'
<1> SUFFICES ASSUME TypeOK, MemoryMirrorsDisk, [Next]_vars PROVE MemoryMirrorsDisk'
  OBVIOUS
<1> USE DEF MemoryMirrorsDisk, Running
<1>1. CASE LoadState
  BY <1>1 DEF LoadState
<1>2. CASE Save
  <2>1. Recorded(mem, day, dec) \in Record
    BY <1>2, RecordedType DEF Save, TypeOK, LoopType
  <2> QED
    BY <1>2, <2>1, LoadType DEF Save
<1>3. CASE Start \/ Gone
  BY <1>3 DEF Start, Gone
<1>4. CASE pc \in Running /\ UNCHANGED <<mem, disk>>
  BY <1>4
<1>5. CASE UNCHANGED <<pc, mem, disk>>
  BY <1>5
<1> QED
  BY <1>1, <1>2, <1>3, <1>4, <1>5
  DEF Next, Process, Evaluation, Loop, Watcher, Environment, vars,
      LoadFails, SelectDone, Resolve, Now, Apply, ApplyFails, SaveFails,
      SpawnWatchers, SelectTimer, SelectKick, SelectWake, SelectReload, Evaluate,
      ReloadConfig, Attach, AttachFails, OnEvent, DebounceFires, StopWatch,
      Tick, EditConfig, Kick, Reload, Wake, Terminate, Crash

\* d.state is at every point of a run what a reader of state.json would load.
THEOREM MemoryIsDisk == Spec => []MemoryMirrorsDisk
<1>1. Init => MemoryMirrorsDisk
  BY DEF Init, MemoryMirrorsDisk, Running
<1>2. TypeOK /\ MemoryMirrorsDisk /\ [Next]_vars => MemoryMirrorsDisk'
  BY MemoryStep
<1> QED
  BY <1>1, <1>2, Typing, PTL DEF Spec

\* No step leaves a decision that the file does not allow any more.
LEMMA DecisionStep ==
  TypeOK /\ MemoryMirrorsDisk /\ DecisionStillHolds /\ [Next]_vars => DecisionStillHolds'
<1> SUFFICES ASSUME TypeOK, MemoryMirrorsDisk, DecisionStillHolds, [Next]_vars,
                    pc' \in {"apply", "save"}
             PROVE  /\ ~dec'.reused
                    /\ \E files \in Scans[SourceOf[cfg'][day']] :
                         dec' \in ResolveForDate(cfg', Load(disk'), day', force', files)
  BY DEF DecisionStillHolds
<1>1. CASE Resolve
  <2>1. PICK files \in Scans[SourceOf[cfg][today]] :
          \/ Return
          \/ \E d \in ResolveForDate(cfg, mem, today, force, files) :
               ~d.reused /\ pc' = "apply" /\ dec' = d /\ UNCHANGED force
    BY <1>1 DEF Resolve, Now
  <2>2. ~Return
    BY DEF Return
  <2>3. mem = Load(disk)
    BY <1>1 DEF Resolve, Now, MemoryMirrorsDisk, Running
  <2>4. /\ ~dec'.reused
        /\ dec' \in ResolveForDate(cfg, Load(disk), today, force, files)
        /\ UNCHANGED <<force, cfg, disk>> /\ day' = today
    BY <1>1, <2>1, <2>2, <2>3 DEF Resolve, Now
  <2> QED
    BY <2>4
<1>2. CASE pc \in {"apply", "save"} /\ UNCHANGED <<cfg, disk, day, force, dec>>
  BY <1>2 DEF DecisionStillHolds
<1> QED
  BY <1>1, <1>2
  DEF Next, Process, Evaluation, Loop, Watcher, Environment, vars, Gone, Return,
      Start, LoadState, LoadFails, SelectDone, Apply, ApplyFails, Save, SaveFails,
      SpawnWatchers, SelectTimer, SelectKick, SelectWake, SelectReload, Evaluate,
      ReloadConfig, Attach, AttachFails, OnEvent, DebounceFires, StopWatch,
      Tick, EditConfig, Kick, Reload, Wake, Terminate, Crash

\* What evaluate records is what the file, the configuration and the day it
\* was resolved for allow at the moment it is recorded.
THEOREM DecisionHolds == Spec => []DecisionStillHolds
<1>1. Init => DecisionStillHolds
  BY DEF Init, DecisionStillHolds
<1>2. TypeOK /\ MemoryMirrorsDisk /\ DecisionStillHolds /\ [Next]_vars => DecisionStillHolds'
  BY DecisionStep
<1> QED
  BY <1>1, <1>2, Typing, MemoryIsDisk, PTL DEF Spec

\* So an unforced evaluation leaves a day alone that the file has a draw for.
THEOREM OncePerDay == Spec => []NoRedundantApply
<1>1. TypeOK /\ DecisionStillHolds => NoRedundantApply
  <2> SUFFICES ASSUME TypeOK, DecisionStillHolds, pc \in {"apply", "save"}
               PROVE  ~(~force /\ AppliedOn(Load(disk), day))
    BY DEF NoRedundantApply
  <2>1. PICK files \in Scans[SourceOf[cfg][day]] :
          ~dec.reused /\ dec \in ResolveForDate(cfg, Load(disk), day, force, files)
    BY DEF DecisionStillHolds
  <2>2. /\ cfg \in Config /\ day \in Day /\ force \in BOOLEAN
        /\ Load(disk) \in Record
    BY LoadType DEF TypeOK, LoopType, MachineType
  <2> QED
    BY <2>1, <2>2, DrawType
<1> QED
  BY <1>1, Typing, DecisionHolds, PTL

\* The lists of recent draws in the file are short and without repetition.
THEOREM RecentsDistinct == Spec => []RecentDistinct
<1>1. Init => RecentDistinct
  <2> SUFFICES ASSUME Init, NEW src \in Source PROVE RecentList(Load(disk).recent[src])
    BY DEF RecentDistinct
  <2>1. Load(disk).recent[src] = <<>>
    BY LoadType DEF Init, EmptyRecord
  <2> QED
    BY <2>1, PickerAssumption DEF RecentList
<1>2. TypeOK /\ MemoryMirrorsDisk /\ RecentDistinct /\ [Next]_vars => RecentDistinct'
  <2> SUFFICES ASSUME TypeOK, MemoryMirrorsDisk, RecentDistinct, [Next]_vars
               PROVE  RecentDistinct'
    OBVIOUS
  <2>1. CASE Save
    <3>1. mem \in Record /\ dec \in Decision /\ day \in Day
      BY <2>1 DEF Save, TypeOK, LoopType
    <3>2. mem = Load(disk) /\ disk' = Recorded(mem, day, dec)
      BY <2>1 DEF Save, MemoryMirrorsDisk, Running
    <3>3. Load(disk') = Recorded(mem, day, dec)
      BY <3>1, <3>2, RecordedType, LoadType
    <3> QED
      BY <3>1, <3>2, <3>3, RecordedDistinct DEF RecentDistinct
  <2>2. CASE UNCHANGED disk
    BY <2>2 DEF RecentDistinct
  <2> QED
    BY <2>1, <2>2, DiskFrame
<1> QED
  BY <1>1, <1>2, Typing, MemoryIsDisk, PTL DEF Spec

\* The strengthening of NoRepeat: every list of recent draws in the file names
\* the latest recorded draws of its source, as many as are always excluded.
DrawsInStep == \A src \in Source : InStep(src, Load(disk).recent[src], shown[src])

\* Where RelKey tells files apart, no wallpaper comes back to the recorded
\* draws of a source within as many draws as every one of its pools excludes.
THEOREM NoRepeats ==
  ASSUME RelKeyInjective
  PROVE  Spec => []NoRepeat
<1>1. Init => DrawsInStep
  <2> SUFFICES ASSUME Init, NEW src \in Source
               PROVE  InStep(src, Load(disk).recent[src], shown[src])
    BY DEF DrawsInStep
  <2>1. Load(disk).recent[src] = <<>> /\ shown[src] = <<>>
    BY LoadType DEF Init, EmptyRecord
  <2> QED
    BY <2>1 DEF InStep
<1>2. TypeOK /\ MemoryMirrorsDisk /\ DecisionStillHolds /\ DrawsInStep /\ [Next]_vars
        => DrawsInStep'
  <2> SUFFICES ASSUME TypeOK, MemoryMirrorsDisk, DecisionStillHolds, DrawsInStep, [Next]_vars
               PROVE  DrawsInStep'
    OBVIOUS
  <2>1. CASE Save
    <3>1. /\ mem \in Record /\ dec \in Decision /\ day \in Day /\ cfg \in Config
          /\ force \in BOOLEAN /\ shown \in [Source -> Seq(File)]
      BY <2>1 DEF Save, TypeOK, LoopType, HistoryType
    <3>2. Load(disk') = Recorded(mem, day, dec) /\ mem = Load(disk)
      BY <2>1, <3>1, RecordedType, LoadType DEF Save, MemoryMirrorsDisk, Running
    <3>3. PICK files \in Scans[SourceOf[cfg][day]] :
            ~dec.reused /\ dec \in ResolveForDate(cfg, mem, day, force, files)
      BY <2>1, <3>2 DEF Save, DecisionStillHolds
    <3>4. ~(~force /\ AppliedOn(mem, day)) /\ dec.src = SourceOf[cfg][day] /\ dec.src \in Source
      BY <3>1, <3>3, DrawType DEF Decision
    <3>5. /\ dec.pool = Cardinality(files)
          /\ dec.path \in Candidates(dec.src, files, mem.recent[dec.src])
      BY <3>3, <3>4 DEF ResolveForDate, Draws
    <3>6. shown' = Extended(shown, dec)
      BY <2>1 DEF Save
    <3>7. mem.recent \in [Source -> Seq(Key)]
      BY <3>1 DEF Record
    <3>8. CASE dec.pool > 1
      <4>1. InStep(dec.src, Trim(mem.recent[dec.src], RelKey[dec.src][dec.path], dec.pool),
                            AtMost(<<dec.path>> \o shown[dec.src], HistoryCap + 1))
        <5>1. InStep(dec.src, mem.recent[dec.src], shown[dec.src])
          BY <3>2, <3>4 DEF DrawsInStep
        <5> QED
          BY <3>1, <3>4, <3>5, <3>7, <3>8, <5>1, InStepKept
      <4>2. /\ Load(disk').recent = [mem.recent EXCEPT ![dec.src] =
                                       Trim(@, RelKey[dec.src][dec.path], dec.pool)]
            /\ shown' = [shown EXCEPT ![dec.src] = AtMost(<<dec.path>> \o @, HistoryCap + 1)]
        BY <3>2, <3>6, <3>8 DEF Recorded, Extended
      <4>3. ASSUME NEW src \in Source
            PROVE  InStep(src, Load(disk').recent[src], shown'[src])
        <5>1. CASE src = dec.src
          BY <3>1, <3>7, <4>1, <4>2, <5>1
        <5>2. CASE src # dec.src
          BY <3>1, <3>2, <3>7, <4>2, <5>2 DEF DrawsInStep
        <5> QED
          BY <5>1, <5>2
      <4> QED
        BY <4>3 DEF DrawsInStep
    <3>9. CASE ~(dec.pool > 1)
      <4>1. Load(disk').recent = Load(disk).recent /\ shown' = shown
        BY <3>2, <3>6, <3>9 DEF Recorded, Extended
      <4> QED
        BY <4>1 DEF DrawsInStep
    <3> QED
      BY <3>8, <3>9
  <2>2. CASE UNCHANGED <<disk, shown>>
    BY <2>2 DEF DrawsInStep
  <2> QED
    BY <2>1, <2>2
    DEF Next, Process, Evaluation, Loop, Watcher, Environment, vars, Gone,
        Start, LoadState, LoadFails, SelectDone, Resolve, Now, Apply, ApplyFails, SaveFails,
        SpawnWatchers, SelectTimer, SelectKick, SelectWake, SelectReload, Evaluate,
        ReloadConfig, Attach, AttachFails, OnEvent, DebounceFires, StopWatch,
        Tick, EditConfig, Kick, Reload, Wake, Terminate, Crash
<1>3. DrawsInStep => NoRepeat
  BY DEF DrawsInStep, InStep, NoRepeat, NoRepeatIn
<1> QED
  BY <1>1, <1>2, <1>3, Typing, MemoryIsDisk, DecisionHolds, PTL DEF Spec

-----------------------------------------------------------------------------
(* The screen *)

\* The strengthening: what the screen shows between Apply and Save.
ScreenInv ==
  /\ pc # "save" /\ ~torn => desktop = Load(disk).path
  /\ pc = "save" => desktop = dec.path

\* No step of the process parts the screen from it.
LEMMA ScreenStep == TypeOK /\ ScreenInv /\ [Next]_vars => ScreenInv'
<1> SUFFICES ASSUME TypeOK, ScreenInv, [Next]_vars PROVE ScreenInv'
  OBVIOUS
<1> USE DEF ScreenInv
<1>1. CASE Apply
  BY <1>1 DEF Apply
<1>2. CASE ApplyFails
  BY <1>2 DEF ApplyFails, Return
<1>3. CASE Save
  <2>1. /\ Recorded(mem, day, dec) \in Record
        /\ Recorded(mem, day, dec).path = dec.path
    BY <1>3, RecordedType DEF Save, TypeOK, LoopType
  <2> QED
    BY <1>3, <2>1, LoadType DEF Save, Return
<1>4. CASE SaveFails
  BY <1>4 DEF SaveFails, Return
<1>5. CASE Crash
  BY <1>5 DEF Crash, Gone
<1>6. CASE pc # "save" /\ pc' # "save" /\ UNCHANGED <<desktop, disk, torn>>
  BY <1>6
<1>7. CASE UNCHANGED <<pc, desktop, disk, torn, dec>>
  BY <1>7
<1> QED
  BY <1>1, <1>2, <1>3, <1>4, <1>5, <1>6, <1>7
  DEF Next, Process, Evaluation, Loop, Watcher, Environment, vars, Gone, Return,
      Start, LoadState, LoadFails, SelectDone, Resolve, Now,
      SpawnWatchers, SelectTimer, SelectKick, SelectWake, SelectReload, Evaluate,
      ReloadConfig, Attach, AttachFails, OnEvent, DebounceFires, StopWatch,
      Tick, EditConfig, Kick, Reload, Wake, Terminate

\* Outside Apply and Save the screen and the file agree, unless something failed.
THEOREM ScreenRecorded == Spec => []ScreenOnRecord
<1>1. Init => ScreenInv
  BY LoadType DEF Init, ScreenInv, EmptyRecord
<1>2. TypeOK /\ ScreenInv /\ [Next]_vars => ScreenInv'
  BY ScreenStep
<1>3. ScreenInv => ScreenOnRecord
  BY DEF ScreenInv, ScreenOnRecord
<1> QED
  BY <1>1, <1>2, <1>3, Typing, PTL DEF Spec

-----------------------------------------------------------------------------
(* Requests *)

\* An accepted kick waits in its channel or is about to be served.
THEOREM KicksKept == Spec => []KickNotLost
<1>1. Init => KickNotLost
  BY DEF Init, KickNotLost
<1>2. KickNotLost /\ [Next]_vars => KickNotLost'
  <2> SUFFICES ASSUME KickNotLost, [Next]_vars, owed'
               PROVE  kickCh' \/ (pc' = "resolve" /\ force')
    BY DEF KickNotLost
  <2> USE DEF KickNotLost
  <2>1. CASE Resolve
    BY <2>1 DEF Resolve, Now
  <2>2. CASE SelectTimer \/ SelectWake \/ SelectReload
    BY <2>2 DEF SelectTimer, SelectWake, SelectReload, Evaluate
  <2>3. CASE SelectKick
    BY <2>3 DEF SelectKick, Evaluate
  <2>4. CASE Kick
    BY <2>4 DEF Kick
  <2>5. CASE pc # "resolve" /\ UNCHANGED <<owed, kickCh>>
    BY <2>5
  <2>6. CASE UNCHANGED <<owed, kickCh, pc, force>>
    BY <2>6
  <2>7. CASE Gone
    BY <2>7 DEF Gone
  <2> QED
    BY <2>1, <2>2, <2>3, <2>4, <2>5, <2>6, <2>7
    DEF Next, Process, Evaluation, Loop, Watcher, Environment, vars,
        Start, LoadState, LoadFails, SelectDone, Apply, ApplyFails, Save, SaveFails,
        SpawnWatchers, ReloadConfig,
        Attach, AttachFails, OnEvent, DebounceFires, StopWatch,
        Tick, EditConfig, Reload, Wake, Terminate, Crash
<1> QED
  BY <1>1, <1>2, PTL DEF Spec

\* Unread content of a watched config file has something under way for it.
THEOREM EditsNoticed == Spec => []EditNoticed
<1>1. Init => EditNoticed
  BY DEF Init, EditNoticed
<1>2. EditNoticed /\ [Next]_vars => EditNoticed'
  <2> SUFFICES ASSUME EditNoticed, [Next]_vars,
                      watcher' = "watching", ~missed', cfgFile' # read'
               PROVE  event' \/ debounce' \/ reloadCh' \/ pc' = "reload"
    BY DEF EditNoticed
  <2> USE DEF EditNoticed
  <2>1. CASE Start \/ ReloadConfig
    BY <2>1 DEF Start, ReloadConfig
  <2>2. CASE Gone
    BY <2>2 DEF Gone
  <2>3. CASE SelectReload
    BY <2>3 DEF SelectReload
  <2>4. CASE SpawnWatchers \/ Attach \/ AttachFails \/ StopWatch
    BY <2>4 DEF SpawnWatchers, Attach, AttachFails, StopWatch
  <2>5. CASE OnEvent \/ DebounceFires
    BY <2>5 DEF OnEvent, DebounceFires
  <2>6. CASE EditConfig
    BY <2>6 DEF EditConfig
  <2>7. CASE Reload
    BY <2>7 DEF Reload
  <2>8. CASE pc # "reload" /\ UNCHANGED <<watcher, missed, cfgFile, read, event, debounce, reloadCh>>
    BY <2>8
  <2>9. CASE UNCHANGED <<pc, watcher, missed, cfgFile, read, event, debounce, reloadCh>>
    BY <2>9
  <2> QED
    BY <2>1, <2>2, <2>3, <2>4, <2>5, <2>6, <2>7, <2>8, <2>9
    DEF Next, Process, Evaluation, Loop, Watcher, Environment, vars,
        LoadState, LoadFails, SelectDone, Resolve, Now, Apply, ApplyFails, Save, SaveFails,
        SelectTimer, SelectKick, SelectWake, Evaluate,
        Tick, Kick, Wake, Terminate, Crash
<1> QED
  BY <1>1, <1>2, PTL DEF Spec

-----------------------------------------------------------------------------
(* Refinement *)

\* The file never holds a date ahead of the evaluation that is under way, nor
\* ahead of the calendar.
DateInv ==
  /\ Load(disk).date <= today
  /\ pc \in {"apply", "save"} => Load(disk).date <= day

\* No step takes a date back.
LEMMA DateStep == TypeOK /\ DateInv /\ [Next]_vars => DateInv'
<1> SUFFICES ASSUME TypeOK, DateInv, [Next]_vars PROVE DateInv'
  OBVIOUS
<1> USE DEF DateInv
<1>0. Load(disk).date \in Nat /\ today \in Nat /\ day \in Nat
  <2>1. Load(disk) \in Record /\ today \in Day /\ day \in Day
    BY LoadType DEF TypeOK, MachineType, LoopType
  <2>2. Day \subseteq Nat /\ NoDay \in Nat
    BY CoreAssumption DEF Day, NoDay
  <2> QED
    BY <2>1, <2>2 DEF Record
<1>1. CASE Resolve
  BY <1>1 DEF Resolve, Now
<1>2. CASE Save
  <2>1. Recorded(mem, day, dec) \in Record /\ Recorded(mem, day, dec).date = day
    BY <1>2, RecordedType DEF Save, TypeOK, LoopType
  <2>2. day <= today
    BY <1>2 DEF Save, TypeOK, LoopType
  <2> QED
    BY <1>2, <2>1, <2>2, LoadType DEF Save, Return
<1>3. CASE Tick
  BY <1>0, <1>3 DEF Tick
<1>4. CASE pc' \notin {"apply", "save"} /\ UNCHANGED <<disk, today>>
  BY <1>4
<1>5. CASE Apply
  BY <1>5 DEF Apply
<1>6. CASE UNCHANGED <<pc, disk, day, today>>
  BY <1>6
<1> QED
  BY <1>1, <1>2, <1>3, <1>4, <1>5, <1>6
  DEF Next, Process, Evaluation, Loop, Watcher, Environment, vars, Gone, Return,
      Start, LoadState, LoadFails, SelectDone, ApplyFails, SaveFails,
      SpawnWatchers, SelectTimer, SelectKick, SelectWake, SelectReload, Evaluate,
      ReloadConfig, Attach, AttachFails, OnEvent, DebounceFires, StopWatch,
      EditConfig, Kick, Reload, Wake, Terminate, Crash

\* The dates the process carries never run ahead of the calendar, nor behind
\* the last recorded one.
THEOREM DatesInOrder == Spec => []DateInv
<1>1. Init => DateInv
  BY LoadType DEF Init, DateInv, EmptyRecord, NoDay
<1>2. TypeOK /\ DateInv /\ [Next]_vars => DateInv'
  BY DateStep
<1> QED
  BY <1>1, <1>2, Typing, PTL DEF Spec

\* History's operators are Core's.
LEMMA SameOperators ==
  /\ H!Day = Day
  /\ H!EmptyRecord = EmptyRecord
  /\ \A c, st, t, f, files : H!ResolveForDate(c, st, t, f, files) = ResolveForDate(c, st, t, f, files)
  /\ \A st, t, d : H!Recorded(st, t, d) = Recorded(st, t, d)
<1>1. H!Day = Day /\ H!EmptyRecord = EmptyRecord
  BY DEF H!Day, Day, H!EmptyRecord, EmptyRecord, H!NoDay, NoDay
<1>2. \A n : H!ExcludeN(n) = ExcludeN(n)
  BY DEF H!ExcludeN, ExcludeN
<1>3. \A recent, n : H!Excluded(recent, n) = Excluded(recent, n)
  BY <1>2 DEF H!Excluded, Excluded
<1>10. \A S : H!Cardinality(S) = Cardinality(S)
  BY DEF H!Cardinality, Cardinality
<1>4. \A src, files, recent : H!Candidates(src, files, recent) = Candidates(src, files, recent)
  BY <1>10, <1>3 DEF H!Candidates, Candidates, H!Fresh, Fresh
<1>5. \A src, st, files : H!Draws(src, st, files) = Draws(src, st, files)
  BY <1>10, <1>4 DEF H!Draws, Draws
<1>6. ASSUME NEW c, NEW st, NEW t, NEW f, NEW files
      PROVE  H!ResolveForDate(c, st, t, f, files) = ResolveForDate(c, st, t, f, files)
  BY <1>5 DEF H!ResolveForDate, ResolveForDate, H!AppliedOn, AppliedOn, H!Reuse, Reuse
<1>7. \A recent, latest : H!Without(recent, latest) = Without(recent, latest)
  BY DEF H!Without, Without, H!CutOut, CutOut
<1>8. \A recent, latest, n : H!Trim(recent, latest, n) = Trim(recent, latest, n)
  BY <1>2, <1>7 DEF H!Trim, Trim, H!AtMost, AtMost, H!HistoryLimit, HistoryLimit
<1>9. ASSUME NEW st, NEW t, NEW d
      PROVE  H!Recorded(st, t, d) = Recorded(st, t, d)
  BY <1>8 DEF H!Recorded, Recorded
<1> QED
  BY <1>1, <1>6, <1>9

\* Every step of the process is a draw, a new day or nothing to the file.
LEMMA DrawStep ==
  TypeOK /\ MemoryMirrorsDisk /\ DecisionStillHolds /\ DateInv /\ [Next]_vars
    => [H!Next]_H!vars
<1> SUFFICES ASSUME TypeOK, MemoryMirrorsDisk, DecisionStillHolds, DateInv, [Next]_vars
             PROVE  [H!Next]_H!vars
  OBVIOUS
<1>1. CASE Save
  <2>1. /\ mem \in Record /\ dec \in Decision /\ day \in Day /\ cfg \in Config
        /\ force \in BOOLEAN /\ day <= today
    BY <1>1 DEF Save, TypeOK, LoopType
  <2>2. Load(disk') = Recorded(Load(disk), day, dec)
    BY <1>1, <2>1, RecordedType, LoadType DEF Save, MemoryMirrorsDisk, Running
  <2>3. PICK files \in Scans[SourceOf[cfg][day]] :
          dec \in ResolveForDate(cfg, Load(disk), day, force, files)
    BY <1>1 DEF Save, DecisionStillHolds
  <2>4. ~dec.reused /\ Load(disk).date <= day /\ UNCHANGED today
    BY <1>1 DEF Save, DecisionStillHolds, DateInv
  <2>5. H!Draw
    BY <2>1, <2>2, <2>3, <2>4, SameOperators DEF H!Draw
  <2> QED
    BY <2>5 DEF H!Next
<1>2. CASE Tick
  BY <1>2 DEF Tick, H!Next, H!Tick
<1>3. CASE UNCHANGED <<disk, today>>
  BY <1>3 DEF H!vars
<1> QED
  BY <1>1, <1>2, <1>3
  DEF Next, Process, Evaluation, Loop, Watcher, Environment, vars, Gone,
      Start, LoadState, LoadFails, SelectDone, Resolve, Now, Apply, ApplyFails, SaveFails,
      SpawnWatchers, SelectTimer, SelectKick, SelectWake, SelectReload, Evaluate,
      ReloadConfig, Attach, AttachFails, OnEvent, DebounceFires, StopWatch,
      EditConfig, Kick, Reload, Wake, Terminate, Crash

\* The daemon implements History: what it leaves in the state file is what
\* atomic draws, one after the other, would have left.
THEOREM Refinement == Spec => HistorySpec
<1>1. Init => H!Init
  BY LoadType, SameOperators DEF Init, H!Init
<1>2. TypeOK /\ MemoryMirrorsDisk /\ DecisionStillHolds /\ DateInv /\ [Next]_vars
        => [H!Next]_H!vars
  BY DrawStep
<1> QED
  BY <1>1, <1>2, Typing, MemoryIsDisk, DecisionHolds, DatesInOrder, PTL
  DEF Spec, HistorySpec, H!Spec
=============================================================================
