---------------------------- MODULE SetterProofs ----------------------------
(* Proofs about OneShot and Setter: however many commands overlap, over how- *)
(* ever many days, `run` is idempotent; and an Apply that succeeds has set   *)
(* every surface, whichever of its commands failed and when.                 *)
EXTENDS Setter, CoreProofs

-----------------------------------------------------------------------------
(* OneShot: types *)

\* Where a command stands between two of its steps.
LocalType ==
  [pc : {"idle", "loaded", "apply", "save"}, cfg : Config, mem : Record,
   force : BOOLEAN, day : Day, dec : Decision \cup {Nothing}, already : SUBSET Day]

\* Days are numbers, from 1 on.
LEMMA DayType == Day \subseteq Nat \ {0} /\ 1 \in Day
BY CoreAssumption DEF Day

\* With a configuration, a process has something to start from.
LEMMA IdleType ==
  ASSUME NEW c \in Config
  PROVE  Idle \in LocalType /\ Idle.pc = "idle"
<1>1. (CHOOSE x \in Config : TRUE) \in Config
  OBVIOUS
<1>2. EmptyRecord \in Record /\ 1 \in Day
  BY LoadType, DayType
<1> QED
  BY <1>1, <1>2 DEF Idle, LocalType

\* A process's own variables keep their types through all it does.
LEMMA RunStep ==
  ASSUME TypeOK, NEW p \in Proc, Command(p)
  PROVE  RunTypeOK'
<1> USE DEF TypeOK
<1>1. run \in [Proc -> LocalType] /\ run[p] \in LocalType
  BY DEF RunTypeOK, LocalType
<1>2. Idle \in LocalType /\ Idle.pc = "idle"
  BY IdleType
<1>3. done' \subseteq Day
  BY <1>1 DEF RunTypeOK, Command, RunLoad, RunResolve, RunApply, RunApplyFails, RunSave,
              RunSaveFails, RunKilled, SavedFor, LocalType
<1> SUFFICES \E l \in LocalType : /\ run' = [run EXCEPT ![p] = l]
                                  /\ l.pc \in {"apply", "save"} => l.dec \in Decision
  BY <1>1, <1>3 DEF RunTypeOK, LocalType
<1>4. CASE RunLoad(p)
  <2>1. PICK command \in Commands :
          run' = [run EXCEPT ![p].pc = "loaded", ![p].cfg = cfgFile, ![p].mem = Load(disk),
                             ![p].force = (command = "next"), ![p].already = done]
    BY <1>4 DEF RunLoad
  <2> DEFINE l == [run[p] EXCEPT !.pc = "loaded", !.cfg = cfgFile, !.mem = Load(disk),
                                 !.force = (command = "next"), !.already = done]
  <2>2. Load(disk) \in Record /\ done \subseteq Day /\ cfgFile \in Config
    BY LoadType DEF RunTypeOK
  <2>3. l \in LocalType /\ l.pc = "loaded"
    BY <1>1, <2>2 DEF LocalType
  <2>4. run' = [run EXCEPT ![p] = l]
    BY <1>1, <2>1 DEF LocalType
  <2> QED
    BY <2>3, <2>4
<1>5. CASE RunResolve(p)
  <2>1. CASE run' = [run EXCEPT ![p] = Idle]
    BY <1>2, <2>1
  <2>2. CASE \E files \in Scans[SourceOf[run[p].cfg][today]] :
             \E d \in ResolveForDate(run[p].cfg, run[p].mem, today, run[p].force, files) :
               /\ ~d.reused
               /\ run' = [run EXCEPT ![p].pc = "apply", ![p].day = today, ![p].dec = d]
    <3>0. PICK files \in Scans[SourceOf[run[p].cfg][today]] :
            \E d \in ResolveForDate(run[p].cfg, run[p].mem, today, run[p].force, files) :
              /\ ~d.reused
              /\ run' = [run EXCEPT ![p].pc = "apply", ![p].day = today, ![p].dec = d]
      BY <2>2
    <3>1. PICK d \in ResolveForDate(run[p].cfg, run[p].mem, today, run[p].force, files) :
            /\ ~d.reused
            /\ run' = [run EXCEPT ![p].pc = "apply", ![p].day = today, ![p].dec = d]
      BY <3>0
    <3>2. d \in Decision
      BY <1>1, <3>1, DrawType DEF LocalType
    <3> DEFINE l == [run[p] EXCEPT !.pc = "apply", !.day = today, !.dec = d]
    <3>3. l \in LocalType /\ l.dec = d
      BY <1>1, <3>2 DEF LocalType
    <3>4. run' = [run EXCEPT ![p] = l]
      BY <1>1, <3>1 DEF LocalType
    <3> QED
      BY <3>2, <3>3, <3>4
  <2> QED
    BY <1>5, <2>1, <2>2 DEF RunResolve
<1>6. CASE RunApply(p)
  <2> DEFINE l == [run[p] EXCEPT !.pc = "save"]
  <2>1. l \in LocalType /\ l.dec = run[p].dec
    BY <1>1 DEF LocalType
  <2>2. run' = [run EXCEPT ![p] = l] /\ run[p].dec \in Decision
    BY <1>1, <1>6 DEF RunApply, RunTypeOK, LocalType
  <2> QED
    BY <2>1, <2>2
<1>7. CASE RunApplyFails(p) \/ RunSave(p) \/ RunSaveFails(p) \/ RunKilled(p)
  BY <1>2, <1>7 DEF RunApplyFails, RunSave, RunSaveFails, RunKilled
<1> QED
  BY <1>4, <1>5, <1>6, <1>7 DEF Command

\* So do the machine's.
LEMMA MachineStep ==
  ASSUME TypeOK, NEW p \in Proc, Command(p)
  PROVE  /\ today' = today /\ today' \in Day /\ disk' \in StateFile
         /\ desktop' \in File \cup {NoFile} /\ cfgFile' = cfgFile /\ torn' \in BOOLEAN
         /\ shown' \in [Source -> Seq(File)]
<1> USE DEF TypeOK
<1>1. run[p].pc \in {"apply", "save"} => run[p].dec \in Decision /\ run[p].dec.path \in File
  BY DEF RunTypeOK, Decision
<1>2. CASE RunSave(p)
  <2>1. run[p].mem \in Record /\ run[p].day \in Day
    BY DEF RunTypeOK
  <2>2. Recorded(run[p].mem, run[p].day, run[p].dec) \in StateFile
    BY <1>1, <1>2, <2>1, RecordedType DEF RunSave, StateFile
  <2>3. Extended(shown, run[p].dec) \in [Source -> Seq(File)]
    BY <1>1, <1>2, ExtendedType DEF RunSave
  <2> QED
    BY <1>2, <2>2, <2>3 DEF RunSave
<1>3. CASE RunApply(p) \/ RunApplyFails(p)
  BY <1>1, <1>3 DEF RunApply, RunApplyFails
<1>4. CASE RunLoad(p) \/ RunResolve(p) \/ RunSaveFails(p) \/ RunKilled(p)
  BY <1>4 DEF RunLoad, RunResolve, RunSaveFails, RunKilled
<1> QED
  BY <1>2, <1>3, <1>4 DEF Command

\* Every variable keeps its type, and Apply and Save always find a decision.
THEOREM OneShotTyping == Spec => []TypeOK
<1>1. Init => TypeOK
  <2> SUFFICES ASSUME Init PROVE TypeOK
    OBVIOUS
  <2>1. Idle \in LocalType /\ Idle.pc = "idle"
    BY IdleType DEF Init
  <2>2. RunTypeOK
    BY <2>1 DEF Init, InitRun, RunTypeOK, LocalType
  <2>3. disk \in StateFile /\ 1 \in Day
    BY DayType DEF Init, StateFile
  <2>4. shown \in [Source -> Seq(File)]
    BY DEF Init
  <2>5. today \in Day /\ desktop \in File \cup {NoFile} /\ cfgFile \in Config /\ torn \in BOOLEAN
    BY <2>3 DEF Init
  <2> QED
    BY <2>2, <2>3, <2>4, <2>5 DEF TypeOK
<1>2. TypeOK /\ [Next]_vars => TypeOK'
  <2> SUFFICES ASSUME TypeOK, [Next]_vars
               PROVE  TypeOK'
    OBVIOUS
  <2>1. CASE Tick
    <3>1. today' \in Day
      BY <2>1, CoreAssumption DEF Tick, TypeOK, Day
    <3> QED
      BY <2>1, <3>1 DEF Tick, TypeOK, RunTypeOK
  <2>2. ASSUME NEW p \in Proc, Command(p)
        PROVE  TypeOK'
    <3>1. RunTypeOK'
      BY <2>2, RunStep
    <3> QED
      BY <2>2, <3>1, MachineStep DEF TypeOK
  <2>3. CASE UNCHANGED vars
    BY <2>3 DEF vars, TypeOK, RunTypeOK
  <2> QED
    BY <2>1, <2>2, <2>3 DEF Next
<1> QED
  BY <1>1, <1>2, PTL DEF Spec

-----------------------------------------------------------------------------
(* Idempotence *)

\* A record st is the last of those saved for days, and none is for a day to come.
LastOf(st, days) ==
  /\ \A d \in days : d <= st.date
  /\ st.date <= today
  /\ st.date # NoDay => st.path # NoFile

\* The file holds the last record that was saved, a command's copy the last one
\* before it began; and what a command sets out to apply was not done by then.
DoneInv ==
  /\ LastOf(Load(disk), done)
  /\ \A p \in Proc :
       /\ run[p].pc = "loaded" => LastOf(run[p].mem, run[p].already)
       /\ run[p].pc \in {"apply", "save"} =>
            /\ run[p].day <= today
            /\ ~run[p].force => run[p].day \notin run[p].already

\* A step of a command keeps what it has loaded as late as what was saved before.
LEMMA DoneStep ==
  ASSUME TypeOK, DoneInv, NEW p \in Proc, Command(p)
  PROVE  DoneInv'
<1>0. /\ today \in Day /\ today' = today /\ run \in [Proc -> LocalType]
      /\ Day \subseteq Nat \ {0} /\ done \subseteq Day
  BY MachineStep, DayType DEF TypeOK, RunTypeOK, LocalType
<1>1. \A st, days : LastOf(st, days)' <=> LastOf(st, days)
  BY <1>0 DEF LastOf
<1>2. CASE RunLoad(p)
  <2>1. /\ run'[p].pc = "loaded" /\ run'[p].mem = Load(disk) /\ run'[p].already = done
        /\ disk' = disk /\ done' = done /\ \A q \in Proc \ {p} : run'[q] = run[q]
    BY <1>0, <1>2 DEF RunLoad, LocalType
  <2> QED
    BY <1>0, <1>1, <2>1 DEF DoneInv, LastOf
<1>3. CASE RunResolve(p)
  <2>1. disk' = disk /\ done' = done /\ \A q \in Proc \ {p} : run'[q] = run[q]
    BY <1>0, <1>3 DEF RunResolve
  <2>2. CASE run' = [run EXCEPT ![p] = Idle]
    BY <1>0, <1>1, <2>1, <2>2 DEF DoneInv, LastOf, Idle
  <2>3. CASE \E files \in Scans[SourceOf[run[p].cfg][today]] :
             \E d \in ResolveForDate(run[p].cfg, run[p].mem, today, run[p].force, files) :
               /\ ~d.reused
               /\ run' = [run EXCEPT ![p].pc = "apply", ![p].day = today, ![p].dec = d]
    <3>0. PICK files \in Scans[SourceOf[run[p].cfg][today]] :
            \E d \in ResolveForDate(run[p].cfg, run[p].mem, today, run[p].force, files) :
              /\ ~d.reused
              /\ run' = [run EXCEPT ![p].pc = "apply", ![p].day = today, ![p].dec = d]
      BY <2>3
    <3>1. PICK d \in ResolveForDate(run[p].cfg, run[p].mem, today, run[p].force, files) :
            /\ ~d.reused
            /\ run' = [run EXCEPT ![p].pc = "apply", ![p].day = today, ![p].dec = d]
      BY <3>0
    <3>2. /\ run[p].cfg \in Config /\ run[p].mem \in Record /\ run[p].force \in BOOLEAN
          /\ run[p].already \subseteq Day /\ run[p].mem.date \in Day \cup {NoDay}
      BY <1>0 DEF LocalType, Record
    <3>3. ~(~run[p].force /\ AppliedOn(run[p].mem, today))
      BY <1>0, <3>1, <3>2, DrawType
    <3>4. LastOf(run[p].mem, run[p].already)
      BY <1>3 DEF RunResolve, DoneInv
    <3>5. ~run[p].force => today \notin run[p].already
      <4> SUFFICES ASSUME today \in run[p].already
                   PROVE  AppliedOn(run[p].mem, today)
        BY <3>3
      <4>1. run[p].mem.date = today
        BY <1>0, <3>2, <3>4 DEF LastOf, NoDay
      <4> QED
        BY <1>0, <3>4, <4>1 DEF LastOf, AppliedOn, NoDay
    <3>6. /\ run'[p].pc = "apply" /\ run'[p].day = today
          /\ run'[p].force = run[p].force /\ run'[p].already = run[p].already
      BY <1>0, <3>1 DEF LocalType
    <3> QED
      BY <1>0, <1>1, <2>1, <3>5, <3>6 DEF DoneInv
  <2> QED
    BY <1>3, <2>2, <2>3 DEF RunResolve
<1>4. CASE RunApply(p)
  <2>1. /\ run'[p].pc = "save" /\ run'[p].day = run[p].day /\ run[p].pc = "apply"
        /\ run'[p].force = run[p].force /\ run'[p].already = run[p].already
        /\ disk' = disk /\ done' = done /\ \A q \in Proc \ {p} : run'[q] = run[q]
    BY <1>0, <1>4 DEF RunApply, LocalType
  <2> QED
    BY <1>0, <1>1, <2>1 DEF DoneInv
<1>5. CASE RunSave(p)
  <2>1. /\ run[p].pc = "save" /\ run'[p].pc = "idle"
        /\ disk' = Recorded(run[p].mem, run[p].day, run[p].dec)
        /\ done' = SavedFor(done, run[p].day) /\ \A q \in Proc \ {p} : run'[q] = run[q]
    BY <1>0, <1>5 DEF RunSave, Idle
  <2>2. run[p].mem \in Record /\ run[p].day \in Day /\ run[p].dec \in Decision
    BY <1>0, <2>1 DEF LocalType, TypeOK, RunTypeOK
  <2>3. /\ Load(disk') = disk' /\ disk'.date = run[p].day /\ disk'.path # NoFile
    BY <2>1, <2>2, RecordedType, LoadType, CoreAssumption DEF Decision
  <2>4. run[p].day <= today /\ run[p].day \in Nat
    BY <1>0, <2>1, <2>2 DEF DoneInv
  <2>5. \A d \in done' : d <= run[p].day
    BY <1>0, <2>1, <2>4 DEF SavedFor
  <2>6. LastOf(Load(disk'), done')
    BY <2>3, <2>4, <2>5 DEF LastOf
  <2>7. LastOf(Load(disk), done)'
    BY <1>0, <2>6 DEF LastOf, Load
  <2> QED
    BY <1>0, <1>1, <2>1, <2>7 DEF DoneInv
<1>6. CASE RunApplyFails(p) \/ RunSaveFails(p) \/ RunKilled(p)
  <2>1. /\ run'[p].pc = "idle" /\ disk' = disk /\ done' = done
        /\ \A q \in Proc \ {p} : run'[q] = run[q]
    BY <1>0, <1>6 DEF RunApplyFails, RunSaveFails, RunKilled, Idle
  <2> QED
    BY <1>0, <1>1, <2>1 DEF DoneInv, LastOf
<1> QED
  BY <1>2, <1>3, <1>4, <1>5, <1>6 DEF Command

\* `run` is idempotent per calendar day, for any number of commands that overlap
\* in any way, fail and are killed.
THEOREM Idempotence == Spec => []RunIdempotent
<1>1. Init => DoneInv
  <2> SUFFICES ASSUME Init PROVE DoneInv
    OBVIOUS
  <2>1. Load(disk) = EmptyRecord
    BY LoadType DEF Init
  <2>2. Idle.pc = "idle"
    BY DEF Idle
  <2> QED
    BY <2>1, <2>2 DEF Init, InitRun, DoneInv, LastOf, EmptyRecord, NoDay
<1>2. TypeOK /\ DoneInv /\ [Next]_vars => DoneInv'
  <2> SUFFICES ASSUME TypeOK, DoneInv, [Next]_vars
               PROVE  DoneInv'
    OBVIOUS
  <2>0. run \in [Proc -> LocalType]
    BY DEF TypeOK, RunTypeOK, LocalType
  <2>1. CASE Tick
    <3>1. /\ today \in Nat /\ today' = today + 1 /\ disk' = disk /\ run' = run /\ done' = done
      BY <2>1, DayType DEF Tick, TypeOK
    <3>2. Load(disk).date \in Nat /\ \A p \in Proc : run[p].mem.date \in Nat /\ run[p].day \in Nat
      <4>1. \A st \in Record : st.date \in Nat
        <5> TAKE st \in Record
        <5>1. st.date \in Day \cup {0}
          BY DEF Record, NoDay
        <5>2. Day \cup {0} \subseteq Nat
          BY DayType
        <5> QED
          BY <5>1, <5>2
      <4>2. Load(disk) \in Record
        BY LoadType DEF TypeOK
      <4>3. \A p \in Proc : run[p].mem \in Record /\ run[p].day \in Nat
        BY <2>0, DayType DEF LocalType
      <4> QED
        BY <4>1, <4>2, <4>3
    <3> QED
      BY <3>1, <3>2 DEF DoneInv, LastOf
  <2>2. CASE \E p \in Proc : Command(p)
    BY <2>2, DoneStep
  <2>3. CASE UNCHANGED vars
    BY <2>3 DEF vars, DoneInv, LastOf
  <2> QED
    BY <2>1, <2>2, <2>3 DEF Next
<1>3. DoneInv => RunIdempotent
  BY DEF DoneInv, RunIdempotent
<1> QED
  BY <1>1, <1>2, <1>3, OneShotTyping, PTL DEF Spec


-----------------------------------------------------------------------------
(* Refinement *)

\* Whatever a command of a backend does, it is one step of the process, or none.
LEMMA ApplySteps ==
  ASSUME NEW p \in Proc, ApplyStep(p)
  PROVE  RunApply(p) \/ RunApplyFails(p) \/ RunSave(p) \/ RunSaveFails(p) \/ UNCHANGED vars
<1>1. CASE NewFails(p)
  BY <1>1 DEF NewFails
<1>2. CASE Succeeds(p)
  BY <1>2 DEF Succeeds
<1>3. ASSUME NEW painted, NEW expired, Failed(p, painted, expired)
      PROVE  RunApply(p) \/ RunApplyFails(p) \/ UNCHANGED vars
  BY <1>3 DEF Failed
<1>4. CASE Fails(p)
  BY <1>3, <1>4 DEF Fails
<1>5. CASE Expires(p)
  BY <1>3, <1>5 DEF Expires, Deadline, Outlives
<1>6. CASE NotStarted(p)
  BY <1>3, <1>6 DEF NotStarted
<1>7. CASE ReturnsError(p)
  BY <1>7 DEF ReturnsError
<1>8. CASE ReturnsAndSaves(p)
  BY <1>8 DEF ReturnsAndSaves
<1> QED
  BY <1>1, <1>2, <1>4, <1>5, <1>6, <1>7, <1>8 DEF ApplyStep

\* Every step of a setter is a step of the commands, or none to them.
LEMMA StepIsOneShot == [SetterNext]_setterVars => [Next]_vars
<1> SUFFICES ASSUME [SetterNext]_setterVars
             PROVE  [Next]_vars
  OBVIOUS
<1>1. CASE Other
  BY <1>1 DEF Other, Next, Command
<1>2. ASSUME NEW p \in Proc, Begin(p) \/ ApplyStep(p) \/ Killed(p)
      PROVE  Next \/ UNCHANGED vars
  BY <1>2, ApplySteps DEF Begin, Killed, Next, Command
<1>3. CASE UNCHANGED setterVars
  BY <1>3 DEF setterVars
<1> QED
  BY <1>1, <1>2, <1>3 DEF SetterNext

\* The steps of Setter are steps of OneShot or leave its variables alone, by the
\* way they are composed: what is proved of OneShot can be cited here.
LEMMA SetterSteps == SetterSpec => Spec
<1>1. SetterInit => Init
  BY DEF SetterInit
<1> QED
  BY <1>1, StepIsOneShot, PTL DEF SetterSpec, Spec

-----------------------------------------------------------------------------
(* Success *)

JobType == [at : Nat \ {0}, failed : BOOLEAN, expired : BOOLEAN, outlived : BOOLEAN]

Reaction == {"stop", "remember", "ignore"}

\* A backend's commands are a list, and each has one of three reactions.
LEMMA ScriptType ==
  ASSUME host \in Hosts
  PROVE  /\ Len(Steps) \in Nat /\ DOMAIN Steps = 1 .. Len(Steps)
         /\ \A i \in DOMAIN Steps : Steps[i].onError \in Reaction
         /\ Backend[host] = NoBackend => Steps = <<>>
<1> DEFINE Cmds == {Cmd(s, e) : s \in SUBSET (Panels \cup {Desktop}), e \in Reaction}
           surfaces == Panels \cup {Desktop}
<1>1. \A c \in Cmds : c.onError \in Reaction
  BY DEF Cmd
<1>2. \A s \in SUBSET (Panels \cup {Desktop}) : \A e \in Reaction : Cmd(s, e) \in Cmds
  OBVIOUS
<1>3. Listed \in Seq(surfaces)
  <2>1. IsFiniteSet(surfaces)
    BY PanelsAssumption, FS_Singleton, FS_Union
  <2> HIDE DEF surfaces
  <2>2. Cardinality(surfaces) \in Nat
    BY <2>1, FS_CardinalityType
  <2>3. PICK f \in [1 .. Cardinality(surfaces) -> surfaces] : IsInjective(f)
    BY <2>1, FS_CardinalityType DEF ExistsBijection, Bijection, Injection, IsInjective
  <2>4. SetToSeq(surfaces) \in [1 .. Cardinality(surfaces) -> surfaces]
    BY <2>3 DEF SetToSeq
  <2>5. SetToSeq(surfaces) \in Seq(surfaces)
    BY <2>2, <2>4
  <2>6. Listed = SetToSeq(surfaces)
    BY DEF Listed, surfaces
  <2> QED
    BY <2>5, <2>6
<1>4. Script(Backend[host]) \in Seq(Cmds)
  <2>1. {"stop", "remember", "ignore"} = Reaction
    BY DEF Reaction
  <2>2. /\ Cmd({}, "stop") \in Cmds /\ Cmd(Panels \cup {Desktop}, "stop") \in Cmds
        /\ Cmd({Desktop}, "stop") \in Cmds /\ Cmd(Panels, "ignore") \in Cmds
        /\ \A s \in surfaces : Cmd({s}, "remember") \in Cmds
    <3> HIDE DEF Cmds
    <3> QED
      BY <1>2, <2>1
  <2> HIDE DEF Cmds, surfaces
  <2>3. [i \in DOMAIN Listed |-> Cmd({Listed[i]}, "remember")] \in Seq(Cmds)
    <3>1. Listed \in Seq(surfaces)
      BY <1>3
    <3>2. /\ Len(Listed) \in Nat /\ DOMAIN Listed = 1 .. Len(Listed)
          /\ \A i \in DOMAIN Listed : Listed[i] \in surfaces
      BY <3>1
    <3>3. \A i \in DOMAIN Listed : Cmd({Listed[i]}, "remember") \in Cmds
      BY <2>2, <3>2
    <3>4. [i \in DOMAIN Listed |-> Cmd({Listed[i]}, "remember")] \in [1 .. Len(Listed) -> Cmds]
      BY <3>2, <3>3
    <3> QED
      BY <3>2, <3>4
  <2>4. <<Cmd({}, "stop")>> \o [i \in DOMAIN Listed |-> Cmd({Listed[i]}, "remember")] \in Seq(Cmds)
    BY <2>2, <2>3
  <2> QED
    BY <2>2, <2>4 DEF Script
<1>5. Steps = Script(Backend[host])
  BY DEF Steps, StepsOn
<1>6. Backend[host] = NoBackend => Steps = <<>>
  BY <1>5 DEF Script, NoBackend
<1> QED
  <2> HIDE DEF Cmds
  <2> QED
    BY <1>1, <1>4, <1>5, <1>6

\* The surfaces that a command of the list has set, and which Apply must not
\* leave to luck, show p's wallpaper.
SetBy(i, p) ==
  Steps[i].onError # "ignore" =>
    /\ Desktop \in Steps[i].sets => desktop = run[p].dec.path
    /\ \A s \in Steps[i].sets \cap Panels : panels[s] = run[p].dec.path

\* An Apply that has overlapped no other is the only one, and all its commands
\* so far have left their mark, unless an error is remembered.
JobInv ==
  /\ host \in Hosts /\ alone \subseteq Proc
  /\ run \in [Proc -> LocalType]
  /\ job \in [Proc -> JobType]
  /\ \A p \in Proc : p \notin InApply \/ Steps = <<>> => job[p] = NewJob
  /\ \A p \in alone : p \in InApply =>
       /\ InApply = {p}
       /\ ~job[p].failed => \A i \in DOMAIN Steps : i < job[p].at => SetBy(i, p)

\* An Apply begins at the first command and without an error.
LEMMA NewJobType == NewJob \in JobType /\ NewJob.at = 1 /\ ~NewJob.failed
BY DEF NewJob, JobType

\* At the end of its Apply a process leaves; nobody else's surfaces change.
LEMMA EndKeeps ==
  ASSUME JobInv, NEW p \in Proc, run' \in [Proc -> LocalType], host' = host, alone' = alone,
         run' = [run EXCEPT ![p] = Idle], job' = [job EXCEPT ![p] = NewJob],
         p \in InApply \/ (UNCHANGED <<desktop, panels>>)
  PROVE  JobInv'
<1> USE DEF JobInv
<1>1. Idle.pc = "idle"
  BY DEF Idle
<1>2. InApply' = InApply \ {p}
  BY <1>1 DEF InApply
<1>3. Steps' = Steps
  BY DEF Steps
<1>4. \A q \in Proc \ {p} : run'[q] = run[q] /\ job'[q] = job[q]
  OBVIOUS
<1>5. job' \in [Proc -> JobType] /\ job'[p] = NewJob
  BY NewJobType
<1>6. \A q \in Proc : q \notin InApply' \/ Steps' = <<>> => job'[q] = NewJob
  BY <1>2, <1>3, <1>4, <1>5
<1>7. ASSUME NEW q \in alone', q \in InApply'
      PROVE  /\ InApply' = {q}
             /\ ~job'[q].failed => \A i \in DOMAIN Steps' : i < job'[q].at => SetBy(i, q)'
  <2>1. q # p /\ InApply = {q} /\ q \in alone /\ q \in Proc
    BY <1>2, <1>7 DEF InApply
  <2>2. UNCHANGED <<desktop, panels>> /\ InApply' = {q}
    BY <1>2, <2>1
  <2>3. run'[q].dec.path = run[q].dec.path /\ job'[q] = job[q]
    BY <1>4, <2>1
  <2>4. ~job[q].failed => \A i \in DOMAIN Steps : i < job[q].at => SetBy(i, q)
    BY <2>1
  <2> QED
    BY <1>3, <2>2, <2>3, <2>4 DEF SetBy
<1> QED
  BY <1>5, <1>6, <1>7

\* A command of p that has painted some surfaces, all of its own if it counts,
\* and has not ended Apply.
LEMMA CommandKeeps ==
  ASSUME JobInv, NEW p \in Proc, NEW painted, Applying(p), Paint(p, painted),
         run' \in [Proc -> LocalType], host' = host, alone' = alone,
         job' \in [Proc -> JobType], \A q \in Proc \ {p} : job'[q] = job[q],
         job'[p].at = job[p].at + 1,
         ~job'[p].failed => ~job[p].failed /\ (painted = Step(p).sets \/ Step(p).onError = "ignore"),
         IF Desktop \in painted THEN RunApply(p) ELSE UNCHANGED vars
  PROVE  JobInv'
<1> USE DEF JobInv
<1>1. Steps' = Steps /\ p \in InApply
  BY DEF Steps, Applying
<1>2. /\ \A q \in Proc \ {p} : run'[q] = run[q]
      /\ run'[p].pc \in {"apply", "save"} /\ run'[p].dec = run[p].dec
      /\ desktop' = IF Desktop \in painted THEN run[p].dec.path ELSE desktop
  <2>1. CASE Desktop \in painted
    BY <2>1 DEF RunApply, LocalType
  <2>2. CASE Desktop \notin painted
    BY <1>1, <2>2 DEF vars, InApply
  <2> QED
    BY <2>1, <2>2
<1>3. InApply' = InApply
  BY <1>1, <1>2 DEF InApply
<1>4. Len(Steps) \in Nat /\ DOMAIN Steps = 1 .. Len(Steps) /\ Steps # <<>>
  BY ScriptType DEF Applying, JobType
<1>5. \A q \in Proc : q \notin InApply' \/ Steps' = <<>> => job'[q] = NewJob
  BY <1>1, <1>3, <1>4
<1>6. ASSUME NEW q \in alone', q \in InApply'
      PROVE  /\ InApply' = {q}
             /\ ~job'[q].failed => \A i \in DOMAIN Steps' : i < job'[q].at => SetBy(i, q)'
  <2>1. q = p /\ InApply' = {q} /\ p \in alone
    BY <1>1, <1>3, <1>6
  <2> SUFFICES ASSUME ~job'[p].failed, NEW i \in DOMAIN Steps, i < job'[p].at,
                      Steps[i].onError # "ignore"
               PROVE  /\ Desktop \in Steps[i].sets => desktop' = run[p].dec.path
                      /\ \A s \in Steps[i].sets \cap Panels : panels'[s] = run[p].dec.path
    BY <1>1, <1>2, <2>1 DEF SetBy
  <2>2. \A s \in Panels : panels'[s] = IF s \in painted THEN run[p].dec.path ELSE panels[s]
    BY DEF Paint
  <2>3. CASE i < job[p].at
    <3>1. SetBy(i, p)
      BY <1>1, <2>1, <2>3
    <3> QED
      BY <1>2, <2>2, <3>1 DEF SetBy
  <2>4. CASE i = job[p].at
    <3>1. painted = Steps[i].sets
      BY <2>4 DEF Step
    <3> QED
      BY <1>2, <2>2, <3>1
  <2>5. i \in Nat /\ job[p].at \in Nat
    BY <1>4 DEF JobType
  <2> QED
    BY <2>3, <2>4, <2>5
<1> QED
  BY <1>5, <1>6

\* A new Apply counts as alone only if it is.
LEMMA BeginKeeps ==
  ASSUME JobInv, NEW p \in Proc, Begin(p), run' \in [Proc -> LocalType]
  PROVE  JobInv'
<1> USE DEF JobInv
<1>1. /\ run[p].pc = "loaded" /\ \A q \in Proc \ {p} : run'[q] = run[q]
      /\ UNCHANGED <<desktop, panels, host, job>>
      /\ run'[p].pc = "apply" \/ run' = [run EXCEPT ![p] = Idle]
  BY DEF Begin, RunResolve, LocalType
<1>2. p \notin InApply /\ job[p] = NewJob /\ Steps' = Steps
  BY <1>1 DEF InApply, Steps
<1>3. CASE run' = [run EXCEPT ![p] = Idle]
  <2>1. alone' = alone
    BY <1>3 DEF Begin, Idle
  <2>2. job' = [job EXCEPT ![p] = NewJob]
    BY <1>1, <1>2
  <2>3. JobInv /\ UNCHANGED <<desktop, panels, host>>
    BY <1>1
  <2> HIDE DEF JobInv
  <2> QED
    BY <1>3, <2>1, <2>2, <2>3, EndKeeps
<1>4. CASE run'[p].pc = "apply"
  <2>1. InApply' = InApply \cup {p}
    BY <1>1, <1>4 DEF InApply
  <2>2. CASE InApply = {}
    <3>1. InApply' = {p} /\ alone' = alone \cup {p}
      BY <1>2, <1>4, <2>1, <2>2 DEF Begin
    <3>2. \A i \in DOMAIN Steps : ~(i < job[p].at)
      <4>1. DOMAIN Steps = 1 .. Len(Steps) /\ Len(Steps) \in Nat
        BY ScriptType
      <4> QED
        BY <1>2, <4>1, NewJobType
    <3>3. alone' \subseteq Proc /\ UNCHANGED <<host, job>>
      BY <1>1, <3>1
    <3>4. \A q \in Proc : q \notin InApply' \/ Steps' = <<>> => job'[q] = NewJob
      BY <1>1, <1>2, <3>1, <2>2
    <3>5. ASSUME NEW q \in alone', q \in InApply'
          PROVE  /\ InApply' = {q}
                 /\ ~job'[q].failed => \A i \in DOMAIN Steps' : i < job'[q].at => SetBy(i, q)'
      <4>1. q = p
        BY <3>1, <3>5
      <4> QED
        BY <1>2, <3>1, <3>2, <3>3, <4>1
    <3> QED
      BY <3>3, <3>4, <3>5
  <2>3. CASE InApply # {}
    <3>1. alone' = alone \ InApply'
      BY <1>2, <1>4, <2>1, <2>3 DEF Begin
    <3>2. \A q \in alone' : q \notin InApply'
      BY <3>1
    <3>3. alone' \subseteq Proc
      BY <3>1
    <3> QED
      BY <1>1, <1>2, <2>1, <3>2, <3>3
  <2> QED
    BY <2>2, <2>3
<1> QED
  BY <1>1, <1>3, <1>4

\* A command that fails ends Apply, is remembered, or did not count.
LEMMA FailedKeeps ==
  ASSUME JobInv, NEW p \in Proc, NEW painted, NEW expired \in BOOLEAN,
         Failed(p, painted, expired), run' \in [Proc -> LocalType]
  PROVE  JobInv'
<1>1. host' = host /\ alone' = alone /\ Applying(p) /\ p \in InApply
  BY DEF Failed, Applying
<1>2. CASE Step(p).onError = "stop"
  BY <1>1, <1>2, EndKeeps DEF Failed, RunApplyFails
<1>3. CASE Step(p).onError # "stop"
  <2>1. job[p] \in JobType /\ job \in [Proc -> JobType]
    BY DEF JobInv
  <2>2. job' = [job EXCEPT ![p].at = @ + 1, ![p].expired = expired,
                           ![p].failed = @ \/ Step(p).onError = "remember"]
    BY <1>3 DEF Failed
  <2>3. Step(p).onError \in Reaction
    <3>1. job[p].at \in DOMAIN Steps
      BY <1>1, <2>1, ScriptType DEF Applying, JobType, JobInv
    <3> QED
      BY <3>1, ScriptType DEF Step, JobInv
  <2>4. /\ job'[p].at = job[p].at + 1 /\ job'[p].outlived = job[p].outlived
        /\ job'[p].failed = (job[p].failed \/ Step(p).onError = "remember")
        /\ job'[p].expired = expired
        /\ job'[p] = [at |-> job[p].at + 1, expired |-> expired, outlived |-> job[p].outlived,
                      failed |-> (job[p].failed \/ Step(p).onError = "remember")]
        /\ \A q \in Proc \ {p} : job'[q] = job[q]
    BY <2>1, <2>2 DEF JobType
  <2>5. job' \in [Proc -> JobType]
    <3>1. job[p].at + 1 \in Nat \ {0}
      BY <2>1 DEF JobType
    <3>2. job'[p] \in JobType
      BY <2>1, <2>4, <3>1 DEF JobType
    <3> QED
      BY <2>1, <2>2, <2>4, <3>2
  <2>6. ~job'[p].failed => ~job[p].failed /\ Step(p).onError = "ignore"
    BY <1>3, <2>3, <2>4 DEF Reaction
  <2>7. Paint(p, painted) /\ IF Desktop \in painted THEN RunApply(p) ELSE UNCHANGED vars
    BY <1>3 DEF Failed
  <2> QED
    BY <1>1, <2>4, <2>5, <2>6, <2>7, CommandKeeps
<1> QED
  BY <1>2, <1>3

\* What is known of an Apply that is alone survives each step of any process.
LEMMA JobStep ==
  ASSUME TypeOK, JobInv, NEW p \in Proc, Begin(p) \/ ApplyStep(p) \/ Killed(p),
         run' \in [Proc -> LocalType]
  PROVE  JobInv'
<1>1. CASE Begin(p)
  BY <1>1, BeginKeeps
<1>2. CASE Killed(p)
  <2>1. p \in InApply \/ UNCHANGED <<desktop, panels>>
    BY <1>2 DEF Killed, RunKilled
  <2> QED
    BY <1>2, <2>1, EndKeeps DEF Killed, RunKilled
<1>3. CASE NewFails(p)
  <2>1. /\ run' = [run EXCEPT ![p] = Idle] /\ UNCHANGED <<desktop, panels, host, alone, job>>
        /\ Backend[host] = NoBackend
    BY <1>3 DEF NewFails, RunApplyFails
  <2>2. job[p] = NewJob /\ job \in [Proc -> JobType]
    BY <2>1, ScriptType DEF JobInv
  <2>3. job' = [job EXCEPT ![p] = NewJob]
    BY <2>1, <2>2
  <2> QED
    BY <2>1, <2>3, EndKeeps
<1>4. CASE Succeeds(p)
  <2>1. /\ job \in [Proc -> JobType] /\ job[p] \in JobType
        /\ job' = [job EXCEPT ![p].at = @ + 1, ![p].outlived = FALSE]
    BY <1>4 DEF JobInv, Succeeds
  <2>2. /\ job'[p].at = job[p].at + 1 /\ job'[p].failed = job[p].failed
        /\ job'[p] = [at |-> job[p].at + 1, failed |-> job[p].failed,
                      expired |-> job[p].expired, outlived |-> FALSE]
        /\ \A q \in Proc \ {p} : job'[q] = job[q]
    BY <2>1 DEF JobType
  <2>3. job' \in [Proc -> JobType]
    <3>1. job[p].at + 1 \in Nat \ {0}
      BY <2>1 DEF JobType
    <3>2. job'[p] \in JobType
      BY <2>1, <2>2, <3>1 DEF JobType
    <3> QED
      BY <2>1, <2>2, <3>2
  <2> DEFINE painted == Step(p).sets
  <2>4. /\ Applying(p) /\ Paint(p, painted) /\ host' = host /\ alone' = alone
        /\ IF Desktop \in painted THEN RunApply(p) ELSE UNCHANGED vars
    BY <1>4 DEF Succeeds
  <2>5. ~job'[p].failed => ~job[p].failed /\ (painted = Step(p).sets \/ Step(p).onError = "ignore")
    BY <2>2
  <2> HIDE DEF painted
  <2> QED
    BY <2>2, <2>3, <2>4, <2>5, CommandKeeps
<1>5. CASE Fails(p) \/ Deadline(p) \/ NotStarted(p)
  <2>1. job[p].expired \in BOOLEAN
    BY DEF JobInv, JobType
  <2>2. \E painted : \E expired \in BOOLEAN : Failed(p, painted, expired)
    BY <1>5, <2>1 DEF Fails, Deadline, NotStarted
  <2> QED
    BY <2>2, FailedKeeps
<1>6. CASE Outlives(p)
  <2>1. /\ UNCHANGED <<vars, host, panels, alone>> /\ Applying(p)
        /\ job \in [Proc -> JobType] /\ job[p] \in JobType /\ p \in InApply
        /\ job' = [job EXCEPT ![p].expired = TRUE, ![p].outlived = TRUE]
    BY <1>6 DEF JobInv, Outlives, Applying
  <2>2. /\ job' \in [Proc -> JobType] /\ Steps' = Steps /\ InApply' = InApply
        /\ \A q \in Proc : job'[q].at = job[q].at /\ job'[q].failed = job[q].failed
        /\ \A q \in Proc \ {p} : job'[q] = job[q]
    BY <2>1 DEF JobType, Steps, InApply, vars
  <2>3. Steps # <<>>
    BY <2>1, ScriptType DEF Applying, JobType, JobInv
  <2>4. \A i, q : SetBy(i, q)' <=> SetBy(i, q)
    BY <2>1, <2>2 DEF SetBy, vars
  <2>5. \A q \in Proc : q \notin InApply' \/ Steps' = <<>> => job'[q] = NewJob
    BY <2>1, <2>2, <2>3 DEF JobInv
  <2>6. ASSUME NEW q \in alone', q \in InApply'
        PROVE  /\ InApply' = {q}
               /\ ~job'[q].failed => \A i \in DOMAIN Steps' : i < job'[q].at => SetBy(i, q)'
    BY <2>1, <2>2, <2>4, <2>6 DEF JobInv
  <2> QED
    BY <2>1, <2>2, <2>5, <2>6 DEF JobInv
<1>7. CASE ReturnsError(p) \/ ReturnsAndSaves(p)
  <2>1. /\ run' = [run EXCEPT ![p] = Idle] /\ job' = [job EXCEPT ![p] = NewJob]
        /\ host' = host /\ alone' = alone /\ p \in InApply
    BY <1>7 DEF ReturnsError, ReturnsAndSaves, RunApplyFails, RunSave, RunSaveFails
  <2> QED
    BY <2>1, EndKeeps
<1> QED
  BY <1>1, <1>2, <1>3, <1>4, <1>5, <1>6, <1>7 DEF ApplyStep, Expires

\* On every machine and for any number of processes: an Apply that overlapped no
\* other and reports success has set every surface that counts.
THEOREM SuccessIsShown == SetterSpec => []SuccessShown
<1>1. SetterSpec => []TypeOK
  BY SetterSteps, OneShotTyping, PTL
<1>2. SetterInit /\ TypeOK => JobInv
  <2> SUFFICES ASSUME SetterInit, TypeOK PROVE JobInv
    OBVIOUS
  <2>1. run \in [Proc -> LocalType]
    BY DEF TypeOK, RunTypeOK, LocalType
  <2> QED
    BY <2>1, NewJobType DEF SetterInit, JobInv
<1>3. TypeOK /\ TypeOK' /\ JobInv /\ [SetterNext]_setterVars => JobInv'
  <2> SUFFICES ASSUME TypeOK, TypeOK', JobInv, [SetterNext]_setterVars
               PROVE  JobInv'
    OBVIOUS
  <2>1. run' \in [Proc -> LocalType]
    BY DEF TypeOK, RunTypeOK, LocalType
  <2>2. CASE Other
    <3>1. /\ UNCHANGED <<desktop, host, panels, job, alone>> /\ Steps' = Steps
          /\ \A q \in Proc : q \in InApply \/ q \in InApply' => run'[q] = run[q]
      <4>1. UNCHANGED <<desktop, host, panels, job, alone>> /\ Steps' = Steps
        BY <2>2 DEF Other, Tick, RunLoad, Steps
      <4>2. CASE Tick
        BY <4>1, <4>2 DEF Tick
      <4>3. ASSUME NEW p \in Proc, RunLoad(p)
            PROVE  \A q \in Proc : q \in InApply \/ q \in InApply' => run'[q] = run[q]
        <5>1. run[p].pc = "idle" /\ run'[p].pc = "loaded"
          BY <2>1, <4>3 DEF RunLoad, JobInv, LocalType
        <5>2. \A q \in Proc \ {p} : run'[q] = run[q]
          BY <4>3 DEF RunLoad, JobInv
        <5>3. p \notin InApply /\ p \notin InApply'
          BY <5>1 DEF InApply
        <5> QED
          BY <5>2, <5>3
      <4> QED
        BY <2>2, <4>1, <4>2, <4>3 DEF Other
    <3>2. InApply' = InApply
      BY <3>1 DEF InApply
    <3>3. \A q \in InApply : \A i : SetBy(i, q)' <=> SetBy(i, q)
      BY <3>1 DEF SetBy, InApply
    <3>4. \A q \in Proc : q \notin InApply' \/ Steps' = <<>> => job'[q] = NewJob
      BY <3>1, <3>2 DEF JobInv
    <3>5. ASSUME NEW q \in alone', q \in InApply'
          PROVE  /\ InApply' = {q}
                 /\ ~job'[q].failed => \A i \in DOMAIN Steps' : i < job'[q].at => SetBy(i, q)'
      BY <3>1, <3>2, <3>3, <3>5 DEF JobInv
    <3> QED
      BY <2>1, <3>1, <3>4, <3>5 DEF JobInv
  <2>3. ASSUME NEW p \in Proc, Begin(p) \/ ApplyStep(p) \/ Killed(p)
        PROVE  JobInv'
    BY <2>1, <2>3, JobStep
  <2>4. CASE UNCHANGED setterVars
    BY <2>4 DEF setterVars, vars, JobInv, InApply, Steps, SetBy
  <2> QED
    BY <2>2, <2>3, <2>4 DEF SetterNext
<1>4. JobInv => SuccessShown
  <2> SUFFICES ASSUME JobInv, NEW p \in alone, p \in InApply, ~Applying(p), ~job[p].failed,
                      NEW i \in DOMAIN Steps
               PROVE  SetBy(i, p)
    BY DEF SuccessShown, SetBy
  <2>1. i < job[p].at
    BY ScriptType DEF Applying, JobInv, JobType
  <2> QED
    BY <2>1 DEF JobInv
<1> QED
  BY <1>1, <1>2, <1>3, <1>4, PTL DEF SetterSpec
=============================================================================
