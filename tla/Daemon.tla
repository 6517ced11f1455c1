------------------------------- MODULE Daemon -------------------------------
(***************************************************************************)
(* internal/daemon: the event loop of one `seasoned daemon`, from the      *)
(* first load of the configuration to the end of the process, with the     *)
(* goroutines that feed it: the signal handler (or the sentinel watcher,   *)
(* or D-Bus), which post to one-slot channels, and the config watcher,     *)
(* which turns file events into a debounced Reload.                        *)
(*                                                                         *)
(* Time is the calendar day; which of a rotation, a drift or the safety    *)
(* net ended a sleep is a free choice here (Schedule.tla makes it).        *)
(***************************************************************************)
EXTENDS Core

CONSTANTS
  Watched,     \* the configurations with daemon.watch_config
  Invalid,     \* content of the config file that reload() rejects
  Signals,     \* the signals that may come
  Edits,       \* what an editor may leave in the config file
  MaxCrashes   \* bound on the number of crashes

ConfigFile == Config \cup {Invalid}
Signal == {"kick", "reload", "wake", "terminate"}

ASSUME DaemonAssumption ==
  /\ Watched \subseteq Config
  /\ Invalid \notin Config
  /\ Signals \subseteq Signal
  /\ Edits \subseteq ConfigFile
  /\ MaxCrashes \in Nat

VARIABLES
  \* the machine
  today,       \* the local calendar day
  disk,        \* state.json
  desktop,     \* the wallpaper on screen
  cfgFile,     \* what config.Load would make of the config file
  crashes,     \* crashes so far
  \* the loop of Run and the frame of evaluate
  pc,
  cfg,         \* d.cfg (d.setter goes with it)
  mem,         \* d.state
  force, day, dec,
  \* d.reloadCh, d.kickCh, d.wakeCh, and ctx
  reloadCh, kickCh, wakeCh, cancelled,
  \* the config watcher: its goroutine, an unread event, the debounce timer
  watcher, event, debounce,
  \* history variables, read by the properties only
  owed,        \* a kick was accepted and no forced draw has started since
  read,        \* the content of the config file that was last read
  missed,      \* the config file changed between the first read and the watch
  torn,        \* a draw reached the screen but not the file
  shown        \* shown[src]: the recorded draws from src, latest first

machine  == <<today, disk, desktop, cfgFile, crashes>>
frame    == <<force, day, dec>>
channels == <<reloadCh, kickCh, wakeCh, cancelled>>
watch    == <<watcher, event, debounce>>
history  == <<owed, read, missed, torn, shown>>

vars == <<today, disk, desktop, cfgFile, crashes, pc, cfg, mem, force, day, dec,
          reloadCh, kickCh, wakeCh, cancelled, watcher, event, debounce,
          owed, read, missed, torn, shown>>

-----------------------------------------------------------------------------
Down    == {"off", "load"}               \* before New has returned
Running == {"resolve", "apply", "save", "spawn", "select", "reload"}

Init ==
  /\ today = 1
  /\ disk \in {Missing, Corrupt}
  /\ desktop = NoFile
  /\ cfgFile \in Config
  /\ crashes = 0
  /\ pc = "off"
  /\ cfg = cfgFile
  /\ mem = EmptyRecord
  /\ force = FALSE /\ day = 1 /\ dec = Nothing
  /\ reloadCh = FALSE /\ kickCh = FALSE /\ wakeCh = FALSE /\ cancelled = FALSE
  /\ watcher = "none" /\ event = FALSE /\ debounce = FALSE
  /\ owed = FALSE /\ read = cfgFile /\ missed = FALSE /\ torn = FALSE
  /\ shown = [src \in Source |-> <<>>]

-----------------------------------------------------------------------------
(* Start and end of the process *)

\* cmdDaemon up to New: the config is loaded (an invalid one ends the process
\* there and then) and the channels are fresh.
Start ==
  /\ pc = "off"
  /\ cfgFile \in Config
  /\ pc' = "load"
  /\ cfg' = cfgFile
  /\ read' = cfgFile
  /\ missed' = FALSE
  /\ UNCHANGED <<machine, mem, frame, channels, watch, owed, torn, shown>>

\* New reads the state file once; Run then evaluates before anything else.
LoadState ==
  /\ pc = "load"
  /\ mem' = Load(disk)
  /\ force' = FALSE
  /\ pc' = "resolve"
  /\ UNCHANGED <<machine, cfg, day, dec, channels, watch, history>>

\* What is left of the process when it ends: nothing but the files.
Gone ==
  /\ pc' = "off"
  /\ mem' = EmptyRecord
  /\ force' = FALSE /\ day' = 1 /\ dec' = Nothing
  /\ reloadCh' = FALSE /\ kickCh' = FALSE /\ wakeCh' = FALSE /\ cancelled' = FALSE
  /\ watcher' = "none" /\ event' = FALSE /\ debounce' = FALSE
  /\ owed' = FALSE
  /\ UNCHANGED <<cfg, read, missed, shown>>

\* state.Load fails on anything but a missing file: New gives up.
LoadFails ==
  /\ pc = "load"
  /\ Gone
  /\ UNCHANGED <<machine, torn>>

\* Killed, at any point; a draw that is on screen may be on no record.
Crash ==
  /\ pc # "off"
  /\ crashes < MaxCrashes
  /\ crashes' = crashes + 1
  /\ Gone
  /\ torn' = (torn \/ pc = "save")
  /\ UNCHANGED <<today, disk, desktop, cfgFile>>

-----------------------------------------------------------------------------
(* evaluate *)

\* evaluate returns: at first to the spawning of the watchers, then to select.
Return ==
  /\ pc' = IF watcher = "none" THEN "spawn" ELSE "select"
  /\ force' = FALSE
  /\ dec' = Nothing

\* Mutant: an evaluation that is not forced keeps the date of the last one.
NowKept == IF force THEN today ELSE day

\* d.clock.Now(), as evaluate asks for it.
Now == today

\* The clock is read once, here; the decision is made from memory.
Resolve ==
  /\ pc = "resolve"
  /\ day' = Now
  /\ \E files \in Scans[SourceOf[cfg][Now]] :
       LET decisions == ResolveForDate(cfg, mem, Now, force, files) IN
       \/ /\ decisions = {} \/ \E d \in decisions : d.reused
          /\ Return
       \/ \E d \in decisions :
            /\ ~d.reused
            /\ pc' = "apply"
            /\ dec' = d
            /\ UNCHANGED force
  /\ owed' = (owed /\ ~force)
  /\ UNCHANGED <<machine, cfg, mem, channels, watch, read, missed, torn, shown>>

\* Mutant: the clock is read again after Apply, for Record.
ApplyThenNow ==
  /\ pc = "apply"
  /\ desktop' = dec.path
  /\ day' = today
  /\ pc' = "save"
  /\ UNCHANGED <<today, disk, cfgFile, crashes, cfg, mem, force, dec, channels, watch, history>>

\* The backend's Apply is done.
Apply ==
  /\ pc = "apply"
  /\ desktop' = dec.path
  /\ pc' = "save"
  /\ UNCHANGED <<today, disk, cfgFile, crashes, cfg, mem, frame, channels, watch, history>>

\* Or it failed, timed out or was cancelled, before or after the screen changed.
ApplyFails ==
  /\ pc = "apply"
  /\ desktop' \in {desktop, dec.path}
  /\ torn' = (torn \/ desktop' # desktop)
  /\ Return
  /\ UNCHANGED <<today, disk, cfgFile, crashes, cfg, mem, day, channels, watch,
                 owed, read, missed, shown>>

\* Record, Save and the assignment to d.state.
Save ==
  /\ pc = "save"
  /\ LET next == Recorded(mem, day, dec) IN
       /\ disk' = next
       /\ mem' = next
  /\ torn' = FALSE
  /\ shown' = Extended(shown, dec)
  /\ Return
  /\ UNCHANGED <<today, desktop, cfgFile, crashes, cfg, day, channels, watch,
                 owed, read, missed>>

\* Mutant: d.state is assigned before Save is known to succeed.
SaveFailsRemembered ==
  /\ pc = "save"
  /\ torn' = TRUE
  /\ mem' = Recorded(mem, day, dec)
  /\ Return
  /\ UNCHANGED <<machine, cfg, day, channels, watch, owed, read, missed, shown>>

\* The temporary file or the rename fails: neither the file nor d.state changes.
SaveFails ==
  /\ pc = "save"
  /\ torn' = TRUE
  /\ Return
  /\ UNCHANGED <<machine, cfg, mem, day, channels, watch, owed, read, missed, shown>>

-----------------------------------------------------------------------------
(* The loop *)

\* After the first evaluation, the config watcher starts if the config says so.
SpawnWatchers ==
  /\ pc = "spawn"
  /\ pc' = "select"
  /\ watcher' = IF cfg \in Watched THEN "starting" ELSE "disabled"
  /\ UNCHANGED <<machine, cfg, mem, frame, channels, event, debounce, history>>

Evaluate(forced) ==
  /\ pc' = "resolve"
  /\ force' = forced
  /\ UNCHANGED <<machine, cfg, mem, day, dec, watch, history>>

\* The sleep is over: a rotation or a drift forces a draw, the safety net
\* does not.
SelectTimer ==
  /\ pc = "select"
  /\ \E isRotation, drifted \in BOOLEAN : Evaluate(isRotation \/ drifted)
  /\ UNCHANGED channels

SelectKick ==
  /\ pc = "select" /\ kickCh
  /\ kickCh' = FALSE
  /\ Evaluate(TRUE)
  /\ UNCHANGED <<reloadCh, wakeCh, cancelled>>

SelectWake ==
  /\ pc = "select" /\ wakeCh
  /\ wakeCh' = FALSE
  /\ Evaluate(TRUE)
  /\ UNCHANGED <<reloadCh, kickCh, cancelled>>

SelectReload ==
  /\ pc = "select" /\ reloadCh
  /\ reloadCh' = FALSE
  /\ pc' = "reload"
  /\ UNCHANGED <<machine, cfg, mem, frame, kickCh, wakeCh, cancelled, watch, history>>

\* reload(): the new config if it is valid, the old one otherwise; then an
\* unforced evaluation in either case.
ReloadConfig ==
  /\ pc = "reload"
  /\ cfg' = IF cfgFile \in Config THEN cfgFile ELSE cfg
  /\ read' = cfgFile
  /\ missed' = FALSE
  /\ pc' = "resolve"
  /\ force' = FALSE
  /\ UNCHANGED <<machine, mem, day, dec, channels, watch, owed, torn, shown>>

\* Mutant: `break` where `return` is meant, which leaves only the select.
SelectDoneBreak ==
  /\ pc = "select" /\ cancelled
  /\ UNCHANGED vars

SelectDone ==
  /\ pc = "select" /\ cancelled
  /\ Gone
  /\ UNCHANGED <<machine, torn>>

-----------------------------------------------------------------------------
(* watchConfig *)

\* fsnotify is subscribed: from here on an edit raises an event.
Attach ==
  /\ watcher = "starting"
  /\ watcher' = "watching"
  /\ missed' = (cfgFile # read)
  /\ UNCHANGED <<machine, pc, cfg, mem, frame, channels, event, debounce, owed, read, torn, shown>>

\* No watcher, or no watch on the directory: the goroutine ends with a warning.
AttachFails ==
  /\ watcher = "starting"
  /\ watcher' = "stopped"
  /\ UNCHANGED <<machine, pc, cfg, mem, frame, channels, event, debounce, history>>

\* fire(): every event restarts the quiet period.
OnEvent ==
  /\ watcher = "watching" /\ event
  /\ event' = FALSE
  /\ debounce' = TRUE
  /\ UNCHANGED <<machine, pc, cfg, mem, frame, channels, watcher, history>>

\* Mutant: reloadCh has no buffer, and the send succeeds only while select waits.
DebounceFiresUnbuffered ==
  /\ debounce
  /\ debounce' = FALSE
  /\ reloadCh' = (reloadCh \/ pc = "select")
  /\ UNCHANGED <<machine, pc, cfg, mem, frame, kickCh, wakeCh, cancelled, watcher, event, history>>

\* The quiet period is over: Reload, a non-blocking send.
DebounceFires ==
  /\ debounce
  /\ debounce' = FALSE
  /\ reloadCh' = TRUE
  /\ UNCHANGED <<machine, pc, cfg, mem, frame, kickCh, wakeCh, cancelled, watcher, event, history>>

\* ctx.Done in watchConfig: the timer is stopped.
StopWatch ==
  /\ watcher = "watching" /\ cancelled
  /\ watcher' = "stopped"
  /\ event' = FALSE
  /\ debounce' = FALSE
  /\ UNCHANGED <<machine, pc, cfg, mem, frame, channels, history>>

-----------------------------------------------------------------------------
(* The environment *)

Tick ==
  /\ today < MaxDay
  /\ today' = today + 1
  /\ UNCHANGED <<disk, desktop, cfgFile, crashes, pc, cfg, mem, frame, channels, watch, history>>

\* An editor leaves other content behind, for a moment or for good.
EditConfig ==
  /\ cfgFile' \in Edits \ {cfgFile}
  /\ event' = (event \/ watcher = "watching")
  /\ UNCHANGED <<today, disk, desktop, crashes, pc, cfg, mem, frame, channels,
                 watcher, debounce, history>>

\* Mutant: kickCh has no buffer, and the send succeeds only while select waits.
KickUnbuffered ==
  /\ "kick" \in Signals
  /\ pc \in Running
  /\ kickCh' = (kickCh \/ pc = "select")
  /\ owed' = TRUE
  /\ UNCHANGED <<machine, pc, cfg, mem, frame, reloadCh, wakeCh, cancelled, watch,
                 read, missed, torn, shown>>

\* SIGUSR1 or a kick file: nudge(d.kickCh), from another goroutine, which may
\* not have noticed a shutdown yet.
Kick ==
  /\ "kick" \in Signals
  /\ pc \in Running
  /\ kickCh' = TRUE
  /\ owed' = TRUE
  /\ UNCHANGED <<machine, pc, cfg, mem, frame, reloadCh, wakeCh, cancelled, watch,
                 read, missed, torn, shown>>

\* SIGHUP or a reload file.
Reload ==
  /\ "reload" \in Signals
  /\ pc \in Running
  /\ reloadCh' = TRUE
  /\ UNCHANGED <<machine, pc, cfg, mem, frame, kickCh, wakeCh, cancelled, watch, history>>

\* SIGUSR2, or PrepareForSleep(false) on D-Bus.
Wake ==
  /\ "wake" \in Signals
  /\ pc \in Running
  /\ wakeCh' = TRUE
  /\ UNCHANGED <<machine, pc, cfg, mem, frame, reloadCh, kickCh, cancelled, watch, history>>

\* SIGTERM or SIGINT.
Terminate ==
  /\ "terminate" \in Signals
  /\ pc \in Running
  /\ cancelled' = TRUE
  /\ UNCHANGED <<machine, pc, cfg, mem, frame, reloadCh, kickCh, wakeCh, watch, history>>

-----------------------------------------------------------------------------
Process == Start \/ LoadState \/ LoadFails \/ SelectDone

Evaluation == Resolve \/ Apply \/ ApplyFails \/ Save \/ SaveFails

Loop ==
  \/ SpawnWatchers
  \/ SelectTimer \/ SelectKick \/ SelectWake \/ SelectReload
  \/ ReloadConfig

Watcher == Attach \/ AttachFails \/ OnEvent \/ DebounceFires \/ StopWatch

Environment == Tick \/ EditConfig \/ Kick \/ Reload \/ Wake \/ Terminate \/ Crash

Next == Process \/ Evaluation \/ Loop \/ Watcher \/ Environment

Spec == Init /\ [][Next]_vars

\* The machine runs the process: every step of the loop that does not wait is
\* taken, Apply returns (it has 30 s), a sleep ends.  select chooses at random
\* among the ready channels, so one that is ready time and again is chosen.
Fairness ==
  /\ WF_vars(LoadState \/ LoadFails)
  /\ WF_vars(Evaluation)
  /\ WF_vars(SpawnWatchers) /\ WF_vars(ReloadConfig)
  /\ WF_vars(SelectTimer)
  /\ SF_vars(SelectKick) /\ SF_vars(SelectWake)
  /\ SF_vars(SelectReload) /\ SF_vars(SelectDone)
  /\ WF_vars(Attach \/ AttachFails)
  /\ WF_vars(OnEvent) /\ WF_vars(DebounceFires) /\ WF_vars(StopWatch)

FairSpec == Spec /\ Fairness

-----------------------------------------------------------------------------
(* Properties *)

MachineType ==
  /\ today \in Day /\ disk \in StateFile /\ desktop \in File \cup {NoFile}
  /\ cfgFile \in ConfigFile /\ crashes \in Nat

LoopType ==
  /\ pc \in Down \cup Running
  /\ cfg \in Config /\ mem \in Record /\ force \in BOOLEAN /\ day \in Day
  /\ dec \in Decision \cup {Nothing}
  /\ pc \in {"apply", "save"} => dec \in Decision /\ day <= today

ChannelType ==
  /\ reloadCh \in BOOLEAN /\ kickCh \in BOOLEAN /\ wakeCh \in BOOLEAN
  /\ cancelled \in BOOLEAN
  /\ watcher \in {"none", "starting", "disabled", "watching", "stopped"}
  /\ event \in BOOLEAN /\ debounce \in BOOLEAN

HistoryType ==
  /\ owed \in BOOLEAN /\ read \in ConfigFile /\ missed \in BOOLEAN
  /\ torn \in BOOLEAN
  /\ shown \in [Source -> Seq(File)]

\* Every variable has its type, and dec and day hold a resolved decision
\* while Apply and Save use them.
TypeOK == MachineType /\ LoopType /\ ChannelType /\ HistoryType

\* d.state is read from the file once, in New, and then carried in memory:
\* at no point of a run, after no failed Apply or Save and no crash, does it
\* differ from what a reader of the file would load.
MemoryMirrorsDisk == pc \in Running => mem = Load(disk)

\* evaluate resolves, waits up to 30 s for Apply and then records: the
\* decision it records is still one that the file's record, the configuration
\* in force and the day it was made for allow.
DecisionStillHolds ==
  pc \in {"apply", "save"} =>
    /\ ~dec.reused
    /\ \E files \in Scans[SourceOf[cfg][day]] :
         dec \in ResolveForDate(cfg, Load(disk), day, force, files)

\* An evaluation that was not forced (start-up, reload, safety net) never
\* changes the wallpaper of a day for which the file holds an applied one.
NoRedundantApply ==
  pc \in {"apply", "save"} /\ ~force => ~AppliedOn(Load(disk), day)

\* Between evaluations the screen shows what the file says was applied, unless
\* a failed Apply, a failed Save or a crash came between the two.
ScreenOnRecord ==
  pc \notin {"apply", "save"} /\ ~torn => desktop = Load(disk).path

\* The lists of recent draws in the file stay short and without repetition.
RecentDistinct ==
  \A src \in Source : RecentList(Load(disk).recent[src])

\* A kick is accepted by a non-blocking send while the loop may be anywhere:
\* until a forced draw has started, it is in the channel or that draw is the
\* next thing the loop does.
KickNotLost ==
  owed => kickCh \/ (pc = "resolve" /\ force)

\* While the config is watched, content of the config file that has not been
\* read has an event, a quiet period, a token or a reload under way for it,
\* unless it got there before the watch did (missed).
EditNoticed ==
  /\ watcher = "watching" /\ ~missed
  /\ cfgFile # read
  => event \/ debounce \/ reloadCh \/ pc = "reload"

\* No wallpaper comes back to a source's recorded draws within the number of
\* draws its pool excludes, across reloads, other sources' draws, failed applies and saves,
\* crashes and restarts.
NoRepeat == NoRepeatIn(shown)

\* The state file, as the daemon writes it, is a history of atomic draws.
H == INSTANCE History WITH record <- Load(disk)
HistorySpec == H!Spec

\* Every accepted kick leads to a forced draw, or the process ends.
KickServed == owed ~> ~owed

\* A configuration that stays in the watched file comes into force for good.
EditTakesEffect ==
  \A c \in Config :
    <>[](cfgFile = c /\ watcher = "watching" /\ ~missed) => <>[](cfg = c)

\* A running daemon evaluates every day that lasts.
NewDayNoticed ==
  \A d \in Day :
    today = d /\ pc \in Running ~> day = d \/ today # d \/ pc = "off"

\* A shutdown signal ends the process, whatever else keeps arriving.
ShutsDown == cancelled ~> pc = "off"
=============================================================================
