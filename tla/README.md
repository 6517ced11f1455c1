# Verification of seasoned-wallpaper in TLA+

This directory models `seasoned`, a wallpaper changer written in Go: a one-shot
command and a daemon that draw a file from a folder, hand it to the desktop and
remember what was drawn. It holds TLA+ modules translated from the source, TLC
configurations that check them on small instances, and TLAPS proofs of what
matters most for every instance.

Line numbers refer to the repository's `src/`; paths below leave out
`internal/` where no confusion is possible.

## The system

| component | state it keeps | operations | interacts with |
|---|---|---|---|
| daemon loop (`daemon/daemon.go`) | `d.cfg`, `d.state`, `d.setter`, three one-slot channels, the frame of `evaluate` | `New`, `Run`, `evaluate`, `reload`, `Reload`/`Kick`/`Wake` | everything below |
| config watcher (`daemon/watch_config.go`) | subscription, debounce timer | attach, event, fire, stop | posts to `reloadCh` |
| schedule (`daemon/schedule.go`) | none (pure) | `NextRotation`, `Drifted` | the sleep of `Run` |
| signals, D-Bus, sentinel files (`daemon/signals_unix.go`, `dbus_linux.go`, `sentinel.go`) | a signal channel; a control directory | one nudge per event; cancellation | post to the loop's channels |
| resolution (`core/core.go`) | none (pure) | `ResolveForDate`, `Record` | picker, season, state |
| picker (`picker/picker.go`) | none (pure) | `Pick`, `Trim` | the file system |
| state file (`state/state.go`) | `state.json`: date, path, recent draws by source | `Load`, `Save` (temporary file and rename) | shared by daemon and commands, without a lock |
| one-shot commands (`cmd/seasoned/main.go`) | locals of `cmdRun` | `run`, `next`; read-only: `preview`, `detect`, `seasons` | state file, setter |
| pidfile and control (`pidfile/`, `cmd/seasoned/daemon_cmd.go`, `signal_unix.go`) | the pidfile, its flock | `Acquire`, `Release`; `reload`, `kick`, `daemon --status` | daemons exclude each other; clients find one |
| seasons (`season/season.go`) | parsed seasons | `Parse`, `Match`, `CheckConflicts`, `NextMatch` | config, core |
| config (`config/config.go`) | the parsed file | `Load` | start and `reload` |
| setter (`setter/`) | none; the desktop | `New`, `Apply` | external programs, one after the other, within 30 s |

What is hard here, and what correctness means:

* **Memory against file.** The daemon reads `state.json` once and then decides
  from memory. It is right as long as nothing else writes the file.
* **A decision that outlives its premises.** `evaluate` reads the clock, may
  wait 30 s for `Apply`, and then records. Kicks, reloads, midnight and shutdown
  can come in between; `Apply`, `Save` or the process can fail at each point.
* **Lossy channels.** Nudges are non-blocking sends to one-slot channels, and
  file events are debounced. Requests may be merged, never lost.
* **Starvation.** Shutdown is one of five cases of a `select`.
* **Clocks.** Rotations are wall-clock moments, timers run on the monotonic
  clock, and drift detection compares the two.
* **Files as messages.** A control file is a request that outlives the process;
  it is watched, swept, answered and removed, in steps that a second touch of
  it may fall between.
* **Several commands, one answer.** A backend sets its screens one by one, and
  the timeout or a failure may come at each of them.
* **File locks.** flock is on the inode, the clients go by path and pid.
* **Calendars.** Overlap of seasons is decided by other code than matching.
  Midnights are not always 24 hours apart.
* **Trust.** `NextRotation` does not check the schedule it is given; `Load` has
  to, field by field and with defaults.

## Modules

| module | models | state | actions |
|---|---|---|---|
| `Picker` | `picker.Pick`, `Trim` | – | operators |
| `Core` | `core`, `state` | – | operators: `ResolveForDate`, `Recorded`, `Load` |
| `History` | abstract: what the state file promises | `record`, `today` | `Draw`, `Tick` |
| `Daemon` | `daemon.go`, `watch_config.go` and what feeds them | machine, loop, channels, watcher | one per step of `New`, `Run`, `evaluate`, `reload`, `watchConfig`, per nudge, and per failure |
| `Control` | `signals_unix.go` and `sentinel.go`, composed with the loop | the channel of signals, the control directory and its events, the watcher | one per step of the handler, of `watchSentinel`, `sweepControl` and `handleControl`, and per failure; touches and signals |
| `OneShot` | `cmdRun`, any number of processes | locals of each process | load, resolve, apply, save, their failures, kill |
| `Setter` | `setter/`: `New` and `Apply`, for the processes of `OneShot` | the machine, its further screens, the frame of each `Apply` | a command succeeds, fails, is killed by the timeout, is not started, or outlives it; `Apply` returns |
| `Seasoned` | daemon and commands over one state file | both | one step of either |
| `Schedule` | `schedule.go` and the sleep of `Run` | two clocks, a calendar, the planned wake | plan, timer, interrupts, suspend |
| `Pidfile` | `pidfile`, `cmdDaemon`, `signalDaemon` | inodes, locks, processes, one client | one per system call |
| `Season` | `season.go` | a configuration, the day | the days go by |
| `Config` | `config.Load`, `populate` and what they call, `season.Parse` | a file | operators |
| `MC...` | instances for TLC | | |
| `...Proofs` | theorems and proofs | | |

`Daemon`, `OneShot` and `History` extend `Core`, which extends `Picker`;
`Seasoned` extends `Daemon` and instantiates `OneShot` over the same machine.
`Control` extends `Daemon` and is composed of its actions: whatever the signal
handler and the control directory do to the loop is one of `Daemon`'s nudges.
`Setter` extends `OneShot` in the same way: the command of a backend that sets
the desktop is `OneShot`'s `RunApply` or `RunApplyFails`. That each refines what
it extends therefore holds by construction, and is used, but not claimed as a
result. `Config` extends `Season`.
`Daemon` (and with it `Seasoned`) instantiates `History` with the record read
from the file: `record <- Load(disk)`. `Schedule` decides what `Daemon!SelectTimer`
leaves open, namely why a sleep ended. `Pidfile` stands for itself: what it
shows about one daemon at a time is what lets `Daemon` have only one.

How code maps to actions:

* `pc` in `Daemon` is the place where the loop's goroutine waits or may be
  interrupted: `"off"` and `"load"` (before `New` has read the state),
  `"resolve"`, `"apply"`, `"save"` (in `evaluate`), `"spawn"`, `"select"` and
  `"reload"`. What happens between two such places, with nobody looking, is one
  action. `Save` is `core.Record`, `state.Save` and the assignment to `d.state`;
  the rename makes it atomic for readers, and a crash before the rename is
  `Crash` at `"save"`, a crash after it `Crash` after `Save`.
* Randomness is a choice from `Candidates`; the directory walk is a choice from
  `Scans[src]`, so that files appear and disappear between draws. An empty scan
  stands for every error of `Pick`.
* A configuration is a model value. All that matters of it to `Daemon` is
  `SourceOf[cfg][day]` (`resolveSource`) and whether it is `Watched`. Content
  that `reload()` rejects, because it does not load or has no backend, is
  `Invalid`.
* Where an operator of `Config` may fail it returns the set of its results, and
  `{}` is the error; `Load` is the product of its parts, so that one error
  rejects the file.
* In `Setter` a backend is a list of commands, each with the screens it sets and
  what `Apply` does when it fails: give up (`"stop"`), remember the first error
  and go on (`"remember"`, xfconf), or go on (`"ignore"`, GNOME's dark
  wallpaper). `pc = "save"` of `OneShot` begins when the desktop is set; `Applying`
  says whether commands are left.
* Operators marked as mutants in a comment are wrong versions of the definition
  that follows them. Nothing uses them; substituted, each makes a run fail,
  which shows that the run's property depends on that part of the code.
* Variables marked as history are read by properties only: `owed`, `read`,
  `missed`, `torn`, `shown`, `done`, `since`, `evaluated`, `gap`, `raced`, `asked`,
  `stuck`, `alone`.

## Runs

Run `tlc -config <run>.cfg <module>` in this directory.

| run | module | what it shows |
|---|---|---|
| `draws` | `MCDaemon` | the daemon alone with its file: memory is the file; a decision still holds when it is recorded; no redundant apply; the screen agrees with the record; no early repeat; short recent lists without repetition; the file is a `History`. Two sources whose pools have four files, one and none, two configurations that are edited and reloaded, two days, one crash. |
| `events` | `MCDaemon` | kicks, shutdowns, edits (invalid ones too) and midnight at any point of the loop: no kick lost, no edit unnoticed; and as liveness: kicks are served, a settled edit comes into force, shutdown ends the process, each day that lasts is evaluated. |
| `control` | `MCControl` | signals and control files at any time, with failures, shutdown, a crash and a restart: no request is forgotten by a watcher that works, and one with nothing to do has left no file behind that it could remove; and as liveness: a kick file leads to a forced draw, a SIGTERM that got into the channel ends the process. |
| `taking_turns` | `MCSeasoned` | daemon and commands one after the other, failing and killed anywhere: the screen is what the file says, and the file is a `History`. |
| `commands` | `MCOneShot` | two commands at once, across midnight, on machines with a backend of each kind: `run` is idempotent; an `Apply` that reports success has set what it should; and every `Apply` ends, but for the commands the context cannot end. |
| `rotations` | `MCSchedule` | a list and an anchor schedule, either of which a reload may bring, and a day that is a slot short; kicks and reloads at any time, also when the timer is due: every rotation is served, the safety net holds, and the timer forces a draw exactly at the moments named and after a late wake-up (if the monotonic clock counts suspends). |
| `pidfile` | `MCPidfile` | three daemons and a client, with pids reused: types and locks; the locked file names its holder; unless a `Release` raced, one daemon, and the client finds it. |
| `seasons` | `MCSeason` | every pair of seasons, every season on its own, right or wrong, and daemon blocks around every limit: conflicts are exactly shared days in a tier; the winner of an accepted file outranks every other season that matches; `NextMatch` is the first matching day; a file that loads has a schedule `NextRotation` can work with and no season without a day. |

Four more runs each refute one statement of the repository's documentation,
quoted in `PROJECT.json` under `findings`:

| run | module | what the code does |
|---|---|---|
| `overlap_reapply` | `MCSeasoned` | on the second day a timer's `seasoned run` comes first: the daemon, whose copy of the record is the first day's, changes the wallpaper again, unforced |
| `two_daemons` | `MCPidfile` | `Release` removes a file that another daemon has locked since |
| `anchor_evening` | `MCSchedule` | an evening anchor leaves a gap after midnight |
| `drift_uncounted` | `MCSchedule` | a safety-net timer that fires after a suspend, in which the monotonic clock stopped, forces nothing |

### What the properties except

Each exception is something the code really does; the property says that
nothing else goes wrong.

* `EditNoticed` and `EditTakesEffect` except `missed`: `watchConfig` attaches
  after the first evaluation, which may take 30 s, and does not read the config
  again, so that an edit made in between waits for the next one.
* `RunIdempotent` excepts a record of an earlier day saved over a later one
  (`SavedFor`): `evaluate` and `cmdRun` read the clock before `Apply` and record
  that day after it, so that a slow one that spans midnight, with a `run` of the
  new day in between, sets the recorded date back.
* `RotationServed` excepts the moments in a suspend or in a slow evaluation
  (`since`): the next rotation is counted from the end of an evaluation, and an
  unforced one (a reload) that straddles a rotation loses it. It also excepts a
  rotation that a reload overtakes (`Due`): when both are ready, `select` may
  take the reload, whose evaluation is not forced, and the next rotation is
  planned strictly after now. Its rotations are counted from midnight, as the
  comment at `schedule.go:16` has them.
* `TimerForces` speaks of the timer only. After a resume a reload that is ready
  too may be taken in its place, and the drift is then never looked at.
* `NextMatchIsFirst` excepts an annual 02-29, which is 03-01 in common years.
* `RequestUnderWay` and `DirectorySwept` except `stuck`: the files that the
  watcher failed to list or to remove and that nobody has touched since.
* `SuccessShown` excepts an `Apply` that another process's has overlapped
  (`alone`): the last one to reach each screen decides, and it need not be the
  last one to save. It says nothing of commands whose failure is ignored.
* `ApplyEnds` excepts `outlived`: the Windows call does not look at the context,
  and a child that the user's own shell command leaves behind keeps open the
  pipe that `CombinedOutput` reads to its end (`setter.go:52`).
* `OneDaemonUnlessRaced` and `ClientFindsDaemon` except `raced`, which is
  `two_daemons`. `ClientFindsDaemon` asks for a daemon that serves all the while
  (`gap`): otherwise a kick sent between `Acquire` and `InstallSignals` ends the
  daemon (`SendFatal`), and one sent after a crash may reach the program that
  has the pid now (`SendAstray`).
* `Daemon` is alone with its files. With `Overlap` TRUE in `Seasoned`, a running
  daemon also repeats a wallpaper that `seasoned next` has just recorded, and
  overwrites that record.
* `ScreenOnRecord` excepts `torn`. With swaybg, which stays in the foreground
  until the 30 s are over, every draw is: it is shown and never recorded.

### Seen on the way

Facts about the code that no property states, or that the model takes as given:

* `README.md:144` has a rotation interval of 30 minutes as the minimum where
  `config.go:34` has one minute.
* `NextMatch` gives 03-01 for an annual 02-29 in common years
  (`season.go:144`, `:163`).
* `README.md:140` promises clock times, and `today.Add(off)` (`schedule.go:33`)
  counts hours from midnight: on a day of 23 or 25 hours a rotation is an hour off,
  and on a short day one in the last hour falls behind midnight, where a loop
  that wakes in time serves it and a later reload may lose it. `OffsetsFit`
  names the assumption that no offset is that late.
* `seasoned reload` and then `seasoned kick` may be served in the other order:
  they go to different channels.
* A resume may draw twice, once for the late timer and once for D-Bus; or not at
  all, where there is no D-Bus and an edit of the config is noticed just then.
* `wallpaper_dir` is tested for being empty before its variables are expanded
  (`config.go:137`).

### Bounds

* `MaxDay` is 2: every property about days relates two of them at most.
* `HistoryCap` is 5 in the code. `draws` uses 2, so that the cap and half the
  pool of four are the same length; the commands' runs keep 5, where half the
  pool is the smaller bound; `events` uses 1, since only the order of events
  matters to it. The proofs have no bound.
* Files: four in a pool make `ExcludeN` 2, the least at which the order of the
  recent list matters. A season's pool of one file, or none, is at the edge of
  halving. In `taking_turns` the folder goes from three files to two, to none
  and back; that a list cut short by a smaller pool loses nothing a draw always
  excludes is proved for every pool (`InStepKept`).
* `MaxCrashes` is 1 where a crash matters: a second one finds the machine as the
  first did, with another file, which the choice of draws already covers.
  `shown` keeps one entry more than any exclusion is long.
* `control`: one folder with one file, since only the moment of a draw matters;
  a channel of two signals (four in the code), which a third finds full; one
  kind of file, `kick`: another kind shares nothing with it but the order of
  events, and the theorems hold for both. An unread event of a file stands for
  those that follow it, since reading one is as good as reading them all. One
  crash, with files left behind, and any number of orderly ends.
* `commands`: seven machines, so that there is a backend of each shape (none,
  two commands of which the second sets all, two that set one each, a list, one
  that stays in the foreground, two that outlive the context); one screen besides
  the desktop. Commands are `run` only; `next` is in `taking_turns`. The
  theorems have no bound on either.
* `Signals` and `Edits` are chosen so that `draws` and `events`
  together have every signal; `reload` and a config event share a channel, `wake`
  differs from `kick` in its channel only. In `events` the file goes from one
  configuration to the other, and back and forth between that and an invalid one.
* `Proc`: three daemons let one release a file, one lock it and one create it
  anew; two, one of which starts again, already suffice for `two_daemons`.
  Inodes: as many as processes. Commands: two, the least that overlap.
* `Schedule`: days of twelve slots and one of eleven, two and a half days; three
  rotations at unequal distances, or a third of a day from an anchor; a safety net shorter
  than some distances and longer than others. `MaxTime` bounds both clocks.
* `Season`: a year of three short months, one of them with a leap day, a common
  and a leap year, every pair of seasons on it. The code compares month and day numbers only, so that the lengths of real
  months add nothing.
* `Config`: every way to write one season, good and bad; lists of up to three
  times at the ends of the day, wrong ones and repeated ones among them, since a
  sort and the removal of duplicates compare two at a time; durations at the limit
  and below it.
* Symmetry is used for process names and inodes, which the modules never order.

CHECK_DEADLOCK is off in the runs of `Season` only, where the calendar ends.
Elsewhere deadlock is checked: a daemon can always be started, tick or sleep.

### Fairness

`FairSpec` assumes of the loop what Go and the operating system give: a step
that does not wait is taken (weak fairness of evaluation, reload, spawning and
the watcher's steps), `Apply` returns because its context ends after 30 s, a
timer that is set fires. `select` picks uniformly among its ready cases, so a
case that is ready again and again is picked: strong fairness of `SelectKick`,
`SelectWake`, `SelectReload` and `SelectDone`. Nothing is assumed of users:
no signal, edit, crash or start is fair, and neither is the calendar. Leads-to
properties therefore end in "or the process is off" or "or the day is over".

`ControlFairness` adds the two goroutines of `Control`: the handler reads its
channel, and `watchSentinel` takes its steps. That `select` in it prefers neither
the events nor the end of the context is not needed: what it does after the end
is promised to nobody. `SetterFairness` is the timer of the context and what
`exec` does when it ends: no command of a backend is assumed to end by itself.

## Proofs

`tlapm CoreProofs.tla`, and so on; every theorem holds for every value of
the constants that meets the modules' named assumptions and the hypotheses
that it states. Every invariant and every action property of the runs that pass is
a theorem, and so is the refinement of `History` by the daemon and by the whole
program; what is left to TLC is liveness.

* `CoreProofs`: of the picker, bounds of `ExcludeN`; `Trim` gives a list without
  repetition, no longer than the cap (`TrimRecentList`, over `Removal` and
  `WithoutType`); if keys are distinct, exclusion never exhausts a pool
  (`NeverExhausted`), so the code's fallback is unreachable. Of the state file,
  the types of `Load`, draws and records; `InStepKept`, the lemma behind
  `NoRepeats`.
* `DaemonProofs`: type correctness (`Typing`), then
  * `MemoryIsDisk` by induction over the steps; only `Save` changes the file
    (`DiskFrame`), and it sets both alike. `DecisionHolds` and `OncePerDay`
    rest on it.
  * `RecentsDistinct` from `TrimRecentList`.
  * `NoRepeats` needs more than the property: `NoRepeat` speaks of the recorded
    draws, the code of the keys in the file. The strengthening `DrawsInStep`
    says that the first keys of the file's list are the keys of the latest
    draws, as far back as the pool always excludes. Whether a draw of a smaller
    pool, which cuts the list, keeps it so is `InStepKept`. It assumes
    `RelKeyInjective`.
  * `ScreenRecorded` from `ScreenInv`, which adds what holds inside an
    evaluation: at `"save"` the screen shows the decision.
  * `KicksKept`, `EditsNoticed`: the case that matters is a second nudge
    while the first is being taken, and an edit while the previous one is
    being read.
  * `DatesInOrder` and, with it and `MemoryIsDisk`, `Refinement`: the daemon
    implements `History` (`Init` maps to `Init`, each step to `Draw`, `Tick`
    or a stutter).
* `SeasonedProofs`: daemon and commands that take turns (`Overlap` is FALSE:
  a command starts only while nothing else runs, as a user who has no daemon or
  stops it has it; with `Overlap` TRUE `overlap_reapply` refutes that all is
  well). `TakingTurns` is the invariant, in three parts: `Looped`, what is known
  of the daemon alone; `Screened`; and `Commanded`, which says that a command
  under way is the only process there is, that the record it has loaded is
  still the file's, and its decision one that the record allows. The daemon's
  steps keep the first by the lemmas of `DaemonProofs` (`MemoryStep`,
  `DecisionStep`, `DateStep` and `DrawStep` speak of a step, not of a behaviour,
  so that they hold in any composition). `ScreenAgreement` and `OneHistory`,
  the refinement of `History` by the whole program, follow.
* `PidfileProofs`: `Typing`, which ties every lock to a program counter;
  `FileNamesHolder` over `Named` (from `WritePid` to `Unlock` the file a
  process has open names it); `OneDaemonOrRace` over `SameFile`: until a
  `Release` has removed the path of a file that another process had open, all
  open files are the file at the path, so there is one lock. The step that
  needs the argument is `Remove` itself: if nobody has the file at the path open,
  `SameFile` says that nobody has any open, and the next `Open` makes a new one.
  Without the exception `two_daemons` refutes it. `DaemonIsFound` is about the
  client, over `OnItsWay`: between its steps, what it has read (that the file
  exists, its content, the pid) is still true of a daemon that serves, as long
  as one has served since it began.
* `ControlProofs`: `ControlSteps` says that the actions are `Daemon`'s, so that
  its invariants can be cited (`KicksStillKept` is one of them).
  `RequestsKept` and `DirectoryIsSwept` rest on `ControlInv`, whose parts say
  what the two properties leave out: that the watcher starts with the config's
  and finds every touched file in the directory (`Together`); that a file
  touched while it is being handled has an event of its own, so that its removal
  loses nothing (`Again`); and that whatever is in the directory is being
  handled, will be, or could not be (`Swept`).
* `ScheduleProofs`: `Typing`; `SafetyNet` over `NetInv`, which bounds the
  deadline of a sleep. If suspends count, the two clocks never part
  (`ClocksAgree`). `Served` is the main one: `OwedInv` says that no moment
  named since the last forced draw lies between it and the end of the sleep,
  unless it is that end. It needs that the least later offset, or tomorrow's
  first, or the next step of the anchor's grid, is the next moment named
  (`RotationFirst`), which is an argument about the calendar. Its hypotheses are about the calendar and the configuration. No offset
  lies beyond the end of a day (`OffsetsFit`). With an interval, the grids that
  two days count from their anchors meet, at midnight or at the second anchor
  (`AnchorsFit`: the interval divides the day, or what the anchor leaves of it, and
  the anchor comes within the day's first interval): then `NextRotation`, which
  counts from the anchor of now's own day, skips no step of the grid of the day
  before (`AnchorFirst`). `anchor_evening` shows that it does when they do not meet.
  And suspends count, or there are none. `TimerIsExact` is about the timer: over
  `WakeInv`, which says that a sleep is to a rotation if and only if its end is a
  moment named. One half is `RotationFirst` again, the other is that
  `NextRotation` gives a moment that is named, on its own day or on the next
  (`RotationNamed`), for which every offset has to lie inside its day
  (`OffsetsInside`). The instance of `rotations` meets all these hypotheses.
* `SeasonProofs`, of `Season` and `Config`, for every calendar and every file:
  * `TheWinnerOutranks`: `Match` gives a season of the best tier, and without
    conflicts there is one of that tier (`NoConflictNoTie`, from
    `SharedDayConflicts`: what shares a day, by `matches`, is what
    `CheckConflicts` refuses, by its walk through a leap year).
  * `RangeDays`, under both, is that the walk of `annualRangeDays`, one day after
    the other, visits what the comparisons of `matches` accept. `NextDayFollows`:
    the next day is the least one after a day. `WalkForm`: so the walk passes no day
    by, and it ends, because a year's days are finitely many and it would meet one
    of them twice (`YearIsFinite` and the pigeonhole principle).
  * `RefusedForADay`, the converse, and `NoSeasonIsDead` need that the calendar
    has a leap year (`LeapYears # {}`), as any eight years
    of ours have: two seasons on 02-29 share no other day.
  * `TheNextDay`: `NextMatch` is compared with every later day, by cases of the four kinds and,
    for annual ones, of the year's end. `NextAnnualForm` is where the leap day is excepted.
  * `ScheduleLoads`: what a file loads as is a schedule that `NextRotation` can
    trust. The two loops of `parseRotationAt` are recursive functions of the
    number of turns. `LoopRuns` shows that such a function exists, `Upward` is
    induction as a statement about a set; both rest on the least-number
    principle. The loops' invariants are then as in a book: distinct, with the
    same range (`DeduplicatedForm`); ascending, with the same range (`SortedForm`,
    with `PlaceForm` for where the inner loop stops).
* `SetterProofs`: of the commands, `OneShotTyping` and `Idempotence`: what a
  process has loaded is at least as late as every record it was given after. Of
  the backends, `SuccessIsShown` over `JobInv`: of an `Apply` that is alone, every command so
  far has left its mark, unless an error is remembered.

Only model-checked: liveness under fairness, which is out of the prover's reach
(`KickServed`, `EditTakesEffect`, `ShutsDown`, `NewDayNoticed`, `KickFileServed`,
`TermHeard`, `ApplyEnds`). Of
rotations on a monotonic clock that stops in a suspend nothing is claimed, by
theorem or by run.

The hypotheses beyond the named assumptions, and why they are there:

| hypothesis | theorems | why |
|---|---|---|
| `RelKeyInjective` | `NoRepeats`, `NeverExhausted` | files of a folder have different relative paths; a name that begins with two dots may share a key (Not modelled) |
| `Overlap = FALSE` | those of `SeasonedProofs` | the state file has no lock; `overlap_reapply` |
| `LeapYears # {}` | `RefusedForADay`, `NoSeasonIsDead` | the walk of `CheckConflicts` is through a leap year |
| `CountsSleep \/ ~Suspends` | `TimerIsExact`, `Served` | `drift_uncounted` |
| `OffsetsFit`, `AnchorsFit` | `Served` | a short day may end before its last offset; `anchor_evening` |
| `OffsetsInside`, `AnchorsFit` | `TimerIsExact` | the same; an offset at the very end of a day is the next day's midnight, which is not named |

## Assumptions

* The calendar does not go back. A user who sets the clock back does so.
* The calendar of `Schedule` is a division of time into days that each have a
  midnight; when an hour is repeated or left out does not matter beyond that.
* `Record` writes whole or not at all: the rename of `Save` is atomic, as POSIX
  has it; durability across power failure is not claimed (`Save` does not sync).
* In `Daemon`, one daemon at a time (see `Pidfile`), and alone with its files;
  `Seasoned` drops the latter, and `Overlap` decides whether commands may run
  while a daemon does.
* In `Schedule` an evaluation lasts up to one slot, and a `select` with a timer
  that is due takes one of the cases that are ready within the slot (`Tick`).
* fsnotify raises an event for a file that is created and for one that is
  truncated while the directory is watched, in the order of the touches.
* A command of a backend that succeeds has set its screens; one that fails may
  have set any of them. The children of a `seasoned` that is killed do nothing
  more.
* At most one client (`kick` or `reload`) at a time: clients do not interact.

## Not modelled, and why

* The text of the setter's commands (quoting, URIs, the parsing of a user's
  template beyond whether it parses), and what the programs do with it.
* The queue of godbus and the filtering of its messages: `Wake` may come at any
  time in `Daemon`.
* The decoding of YAML, default paths and the expansion of variables in them.
* Windows locking: `LockFileEx` has other rules than flock, and the repository
  does not say which of them it relies on.
* Packaging scripts; `preview`, `detect`, `seasons` and `version`, which change
  nothing (what `seasons` asks of the calendar is `NextMatch`); logging.
* A second failure of `Apply` in the daemon is not told apart by backend: the
  daemon calls `Apply` as the commands do, which is one step to what it
  remembers: it succeeds, or fails with or without effect.
* `RelKey`'s path arithmetic: a constant function. Two files may share a key
  only when a name begins with two dots.

## Plan

Done: the core (`Picker`, `Core`, `History`, `Daemon`, `OneShot`, `Seasoned`),
the front ends (`Control`), the backends (`Setter`), the schedule with its
calendar, the pidfile, the seasons and the loading of the configuration; the
proofs above. In order of weight, what is left:

1. Composition of `Pidfile` with `Daemon`: `Acquire` before `New`, the end of
   `Run` before `Release`; with it, that a SIGUSR1 from `seasoned kick` is the
   `SendSignal` of `Control`.
2. Composition of `Config` with `Schedule`: `ScheduleLoads` says of the times in
   seconds what `ScheduleAssumption` says of slots; an instance of one by the
   other would make it one statement.
3. Proofs: what holds of `Seasoned` when daemon and commands overlap, beyond the
   record's own bounds (`RecentDistinct`, `DatesInOrder` as far as it goes).
