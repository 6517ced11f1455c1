------------------------------- MODULE Setter -------------------------------
(***************************************************************************)
(* internal/setter: which backend New chooses on a host, and Apply command *)
(* by command, for the processes of OneShot.  A backend runs external      *)
(* programs one after the other; each may fail, with or without effect,    *)
(* and the 30 s of the context may end at each.                            *)
(*                                                                         *)
(* desktop is the surface a user looks at; panels are the others: further  *)
(* monitors, or GNOME's dark wallpaper.  For OneShot, Apply is done with   *)
(* the screen ("save") once desktop is set; here it goes on to the other   *)
(* commands and may still fail.                                            *)
(***************************************************************************)
EXTENDS OneShot, SequencesExt

CONSTANTS
  Hosts,       \* the machines the program runs on
  Panels       \* the surfaces besides the desktop

ASSUME SetterAssumption ==
  Hosts \subseteq
    [os : {"linux", "darwin", "windows"}, command : {"unset", "good", "malformed"}, wayland : BOOLEAN,
     desktop : SUBSET STRING, installed : SUBSET STRING]

ASSUME PanelsAssumption == IsFiniteSet(Panels)

VARIABLES
  host,        \* the machine
  panels,      \* the wallpapers of the other surfaces
  job,         \* the frame of Apply, by process
  alone        \* history: the processes whose Apply has overlapped no other

setterVars == <<vars, host, panels, job, alone>>

-----------------------------------------------------------------------------
(* newPlatform *)

\* What is tried, in this order: a backend, the desktops it is for (all of
\* them if none is named), and the program it needs.
Tried ==
  <<[name |-> "swww", on |-> {"hyprland", "wlroots"}, tool |-> "swww"],
    [name |-> "hyprpaper", on |-> {"hyprland"}, tool |-> "hyprctl"],
    [name |-> "swaybg", on |-> {"sway"}, tool |-> "swaybg"],
    [name |-> "gnome", on |-> {"gnome", "unity"}, tool |-> "gsettings"],
    [name |-> "plasma", on |-> {"kde", "plasma"}, tool |-> "plasma-apply-wallpaperimage"],
    [name |-> "xfce", on |-> {"xfce"}, tool |-> "xfconf-query"],
    [name |-> "mate", on |-> {"mate"}, tool |-> "gsettings"],
    [name |-> "cinnamon", on |-> {"cinnamon"}, tool |-> "gsettings"],
    [name |-> "feh", on |-> {}, tool |-> "feh"]>>

\* wlroots counts in a Wayland session only.
Suits(t, h) ==
  /\ t.tool \in h.installed
  /\ \/ t.on = {}
     \/ \E d \in t.on \cap h.desktop : d = "wlroots" => h.wayland

NoBackend == "none"

Backend ==
  [h \in Hosts |->
     IF h.os # "linux" THEN h.os
     ELSE IF h.command = "malformed" THEN NoBackend
     ELSE IF h.command = "good" THEN "custom"
     ELSE LET suiting == {i \in DOMAIN Tried : Suits(Tried[i], h)}
          IN  IF suiting = {} THEN NoBackend
              ELSE Tried[CHOOSE i \in suiting : \A j \in suiting : i <= j].name]

-----------------------------------------------------------------------------
(* The commands of a backend *)

Desktop == "desktop"

\* What a command sets, and what Apply does when it fails: give up, remember
\* the error and go on, or go on.
Cmd(sets, onError) == [sets |-> sets, onError |-> onError]

\* xfconf-query first lists the surfaces, and it is an error if there is none.
Listed == SetToSeq(Panels \cup {Desktop})

Script(backend) ==
  CASE backend = NoBackend -> <<>>
    [] backend = "hyprpaper" ->
         <<Cmd({}, "stop"), Cmd(Panels \cup {Desktop}, "stop")>>
    [] backend = "gnome" ->
         <<Cmd({Desktop}, "stop"), Cmd(Panels, "ignore")>>
    [] backend = "xfce" ->
         <<Cmd({}, "stop")>> \o [i \in DOMAIN Listed |-> Cmd({Listed[i]}, "remember")]
    [] OTHER -> <<Cmd(Panels \cup {Desktop}, "stop")>>

StepsOn == [h \in Hosts |-> Script(Backend[h])]
Steps == StepsOn[host]

\* swaybg stays in the foreground, and shows the wallpaper as long as it does.
Foreground == Backend[host] = "swaybg"

\* The end of the context does not end Apply: the Windows call does not look at
\* it, and a child that the user's shell command leaves behind keeps the pipe
\* open that CombinedOutput reads to its end.
Unbound == Backend[host] \in {"windows", "custom"}

-----------------------------------------------------------------------------
(* Apply *)

NewJob == [at |-> 1, failed |-> FALSE, expired |-> FALSE, outlived |-> FALSE]

InApply == {p \in Proc : run[p].pc \in {"apply", "save"}}
Applying(p) == p \in InApply /\ job[p].at <= Len(Steps)
Step(p) == Steps[job[p].at]

SetterInit ==
  /\ Init
  /\ host \in Hosts
  /\ panels = [s \in Panels |-> NoFile]
  /\ job = [p \in Proc |-> NewJob]
  /\ alone = {}

\* cmdRun up to Apply.
Begin(p) ==
  /\ RunResolve(p)
  /\ LET others == InApply \ {p} IN
       alone' = IF run'[p].pc # "apply" THEN alone
                ELSE IF others = {} THEN alone \cup {p} ELSE alone \ (others \cup {p})
  /\ UNCHANGED <<host, panels, job>>

\* New finds no backend, or cannot parse the user's command.
NewFails(p) ==
  /\ Backend[host] = NoBackend
  /\ RunApplyFails(p) /\ desktop' = desktop
  /\ UNCHANGED <<host, panels, job, alone>>

\* The surfaces show p's wallpaper.
Paint(p, surfaces) ==
  panels' = [s \in Panels |-> IF s \in surfaces THEN run[p].dec.path ELSE panels[s]]

\* Mutant: the last command decides, not the first that failed.
SucceedsForgetting(p) ==
  /\ Applying(p) /\ ~Foreground
  /\ job[p].expired => job[p].outlived
  /\ Paint(p, Step(p).sets)
  /\ IF Desktop \in Step(p).sets THEN RunApply(p) ELSE UNCHANGED vars
  /\ job' = [job EXCEPT ![p].at = @ + 1, ![p].failed = FALSE, ![p].outlived = FALSE]
  /\ UNCHANGED <<host, alone>>

\* A command has done its work.
Succeeds(p) ==
  /\ Applying(p) /\ ~Foreground
  /\ job[p].expired => job[p].outlived
  /\ Paint(p, Step(p).sets)
  /\ IF Desktop \in Step(p).sets THEN RunApply(p) ELSE UNCHANGED vars
  /\ job' = [job EXCEPT ![p].at = @ + 1, ![p].outlived = FALSE]
  /\ UNCHANGED <<host, alone>>

\* A command has failed after it has painted some surfaces.
Failed(p, painted, expired) ==
  /\ Applying(p)
  /\ Paint(p, painted)
  /\ IF Step(p).onError = "stop"
     THEN /\ RunApplyFails(p)
          /\ desktop' = IF Desktop \in painted THEN run[p].dec.path ELSE desktop
          /\ job' = [job EXCEPT ![p] = NewJob]
     ELSE /\ IF Desktop \in painted THEN RunApply(p) ELSE UNCHANGED vars
          /\ job' = [job EXCEPT ![p].at = @ + 1, ![p].expired = expired,
                                ![p].failed = @ \/ Step(p).onError = "remember"]
  /\ UNCHANGED <<host, alone>>

Fails(p) ==
  /\ ~Foreground
  /\ job[p].expired => job[p].outlived
  /\ Applying(p) /\ \E painted \in SUBSET Step(p).sets : Failed(p, painted, job[p].expired)

\* Mutant: only the first command is tied to the context.
DeadlineOfFirst(p) ==
  /\ Applying(p) /\ job[p].at = 1 /\ ~job[p].expired /\ Backend[host] # "windows"
  /\ \E painted \in SUBSET Step(p).sets : Failed(p, painted, TRUE)

\* The 30 s are over, and the command of the moment is killed...
Deadline(p) ==
  /\ Applying(p) /\ ~job[p].expired /\ Backend[host] # "windows"
  /\ \E painted \in SUBSET Step(p).sets : Failed(p, painted, TRUE)

\* ... and the ones after it are not started...
NotStarted(p) ==
  /\ job[p].expired /\ ~job[p].outlived
  /\ Failed(p, {}, TRUE)

\* ... or the command goes on.
Outlives(p) ==
  /\ Applying(p) /\ ~job[p].expired /\ Unbound
  /\ job' = [job EXCEPT ![p].expired = TRUE, ![p].outlived = TRUE]
  /\ UNCHANGED <<vars, host, panels, alone>>

Expires(p) == Deadline(p) \/ Outlives(p)

\* Apply returns the first error, whether desktop was set or not.
ReturnsError(p) ==
  /\ p \in InApply /\ ~Applying(p) /\ job[p].failed
  /\ IF run[p].pc = "apply" THEN RunApplyFails(p) /\ desktop' = desktop ELSE RunSaveFails(p)
  /\ job' = [job EXCEPT ![p] = NewJob]
  /\ UNCHANGED <<host, panels, alone>>

\* Apply returns, and the record is saved or not.
ReturnsAndSaves(p) ==
  /\ p \in InApply /\ ~Applying(p) /\ ~job[p].failed
  /\ RunSave(p) \/ RunSaveFails(p)
  /\ job' = [job EXCEPT ![p] = NewJob]
  /\ UNCHANGED <<host, panels, alone>>

Killed(p) ==
  /\ RunKilled(p)
  /\ job' = [job EXCEPT ![p] = NewJob]
  /\ UNCHANGED <<host, panels, alone>>

Other ==
  /\ Tick \/ \E p \in Proc : RunLoad(p)
  /\ UNCHANGED <<host, panels, job, alone>>

ApplyStep(p) ==
  \/ NewFails(p)
  \/ Succeeds(p) \/ Fails(p)
  \/ Expires(p) \/ NotStarted(p)
  \/ ReturnsError(p) \/ ReturnsAndSaves(p)

SetterNext == Other \/ \E p \in Proc : Begin(p) \/ ApplyStep(p) \/ Killed(p)

\* A command need not end by itself.  The timer of the context does, and what
\* happens after that is up to Go, not to the command.
SetterFairness ==
  \A p \in Proc : WF_setterVars(Expires(p) \/ NotStarted(p))

SetterSpec == SetterInit /\ [][SetterNext]_setterVars /\ SetterFairness

-----------------------------------------------------------------------------
(* Properties *)

\* An Apply that reports success, and so is recorded, has set every surface that
\* the backend does not leave to luck, whichever of its commands failed and
\* when, unless another process changed them meanwhile.
SuccessShown ==
  \A p \in alone :
    p \in InApply /\ ~Applying(p) /\ ~job[p].failed =>
      \A i \in DOMAIN Steps : Steps[i].onError # "ignore" =>
        /\ Desktop \in Steps[i].sets => desktop = run[p].dec.path
        /\ \A s \in Steps[i].sets \cap Panels : panels[s] = run[p].dec.path

\* Every Apply ends, but for the commands that the context does not.
ApplyEnds == \A p \in Proc : Applying(p) ~> ~Applying(p) \/ job[p].outlived
=============================================================================
