------------------------------ MODULE Control -------------------------------
(***************************************************************************)
(* The ways into a running daemon, composed with its loop: the signal      *)
(* handler with its channel of SigCap signals (signals_unix.go), and the   *)
(* control directory (sentinel.go), where a file named "kick" or "reload"  *)
(* asks for a nudge and is removed when it was made.                       *)
(*                                                                         *)
(* Every nudge is a step of Daemon.  A request that waits in a channel of  *)
(* os/signal or fsnotify ends with the process, a file does not.           *)
(***************************************************************************)
EXTENDS Daemon, Functions

CONSTANTS
  Posix,       \* the signals that are sent to the process
  SigCap,      \* the capacity of the handler's channel
  Kind,        \* the files that are touched in the control directory
  Sentinel     \* the configurations with daemon.sentinel_fallback

ASSUME ControlAssumption ==
  /\ Posix \subseteq Signals
  /\ SigCap \in Nat \ {0}
  /\ Kind \subseteq Signals \cap {"kick", "reload"}
  /\ Sentinel \subseteq Config

VARIABLES
  sigs,        \* the channel of os/signal
  files,       \* the files in the control directory
  events,      \* the directory's unread Create and Write events, one a file
  sentinel,    \* where watchSentinel is
  todo,        \* what the sweep has listed and not handled yet
  handling,    \* the file whose nudge is made and which is not removed yet
  \* history variables
  asked,       \* the files touched since their last nudge
  stuck        \* the files that could not be removed, or listed, since they were touched

frontEnds   == <<sigs, files, events, sentinel, todo, handling, asked, stuck>>
controlVars == <<vars, frontEnds>>

NoKind == "no kind"

ControlInit ==
  /\ Init
  /\ sigs = <<>>
  /\ files \in SUBSET Kind /\ asked = files /\ stuck = {}
  /\ events = <<>> /\ sentinel = "none" /\ todo = {} /\ handling = NoKind

-----------------------------------------------------------------------------
(* The process *)

\* Run spawns watchSentinel if the configuration it started with says so.
SpawnAll ==
  /\ SpawnWatchers
  /\ sentinel' = IF cfg \in Sentinel THEN "starting" ELSE "disabled"
  /\ UNCHANGED <<sigs, files, events, todo, handling, asked, stuck>>

\* The process ends, in order or not.  The files stay, and are all that does.
End ==
  /\ LoadFails \/ SelectDone \/ Crash
  /\ sigs' = <<>> /\ events' = <<>>
  /\ sentinel' = "none" /\ todo' = {} /\ handling' = NoKind
  /\ asked' = asked \cap files
  /\ UNCHANGED <<files, stuck>>

\* Everything else that Daemon does by itself.
DaemonAlone ==
  /\ \/ Start \/ LoadState \/ Evaluation
     \/ SelectTimer \/ SelectKick \/ SelectWake \/ SelectReload \/ ReloadConfig
     \/ Watcher \/ Tick \/ EditConfig
  /\ UNCHANGED frontEnds

-----------------------------------------------------------------------------
(* Signals *)

\* Mutant: a send to the channel that grows it beyond its capacity.
SendSignalUnbounded(s) ==
  /\ pc \in Running
  /\ sigs' = IF Len(sigs) <= SigCap THEN Append(sigs, s) ELSE sigs
  /\ UNCHANGED <<vars, files, events, sentinel, todo, handling, asked, stuck>>

\* os/signal does not wait: a signal that finds the channel full is dropped.
SendSignal(s) ==
  /\ pc \in Running
  /\ sigs' = IF Len(sigs) < SigCap THEN Append(sigs, s) ELSE sigs
  /\ UNCHANGED <<vars, files, events, sentinel, todo, handling, asked, stuck>>

\* What the handlers call.
Nudge(s) ==
  \/ s = "kick" /\ Kick
  \/ s = "reload" /\ Reload
  \/ s = "wake" /\ Wake

\* Mutant: the handler returns on SIGTERM, but does not cancel.
HandleSignalUncancelled ==
  /\ ~cancelled /\ sigs # <<>>
  /\ \/ Nudge(Head(sigs))
     \/ Head(sigs) = "terminate" /\ UNCHANGED vars
  /\ sigs' = Tail(sigs)
  /\ UNCHANGED <<files, events, sentinel, todo, handling, asked, stuck>>

\* The handler's goroutine, which returns once the context is cancelled.
HandleSignal ==
  /\ ~cancelled /\ sigs # <<>>
  /\ \/ Nudge(Head(sigs))
     \/ Head(sigs) = "terminate" /\ Terminate
  /\ sigs' = Tail(sigs)
  /\ UNCHANGED <<files, events, sentinel, todo, handling, asked, stuck>>

-----------------------------------------------------------------------------
(* The control directory *)

\* Mutant: the directory is listed before it is watched.
SubscribedAfterSweep == sentinel = "watching"

\* w.Add has returned: the directory's events reach w.Events.
Subscribed == sentinel \in {"added", "sweeping", "watching"}

\* An unread event stands for the ones that follow it: reading one is as good
\* as reading them all, since the file is there or not for each of them.
Raised(k) == IF k \in Range(events) THEN events ELSE Append(events, k)

\* Mutant: only the creation of a file counts, not a write to one that is there.
TouchCreatesOnly(k) ==
  /\ files' = files \cup {k}
  /\ events' = IF Subscribed /\ k \notin files THEN Raised(k) ELSE events
  /\ asked' = asked \cup {k}
  /\ stuck' = stuck \ {k}
  /\ UNCHANGED <<vars, sigs, sentinel, todo, handling>>

\* TouchControl, by a user or a client, whether a daemon runs or not: the file
\* is created or truncated, and either raises an event.
Touch(k) ==
  /\ files' = files \cup {k}
  /\ events' = IF Subscribed THEN Raised(k) ELSE events
  /\ asked' = asked \cup {k}
  /\ stuck' = stuck \ {k}
  /\ UNCHANGED <<vars, sigs, sentinel, todo, handling>>

Add ==
  /\ sentinel = "starting"
  /\ sentinel' = "added"
  /\ UNCHANGED <<vars, sigs, files, events, todo, handling, asked, stuck>>

\* No directory, no watcher or no watch: the goroutine ends with a warning.
AddFails ==
  /\ sentinel = "starting"
  /\ sentinel' = "stopped"
  /\ UNCHANGED <<vars, sigs, files, events, todo, handling, asked, stuck>>

\* sweepControl cannot list the directory and sweeps nothing.
ListFails ==
  /\ sentinel = "added"
  /\ sentinel' = "watching"
  /\ stuck' = stuck \cup files
  /\ UNCHANGED <<vars, sigs, files, events, todo, handling, asked>>

\* sweepControl lists the directory, once.
List ==
  /\ sentinel = "added"
  /\ sentinel' = "sweeping"
  /\ todo' = files
  /\ UNCHANGED <<vars, sigs, files, events, handling, asked, stuck>>

\* handleControl up to the removal.
Handle(k) ==
  /\ handling = NoKind
  /\ Nudge(k)
  /\ handling' = k
  /\ asked' = asked \ {k}
  /\ UNCHANGED <<sigs, files, sentinel, stuck>>

Sweep ==
  /\ sentinel = "sweeping"
  /\ \E k \in todo : Handle(k) /\ todo' = todo \ {k}
  /\ UNCHANGED events

SweepDone ==
  /\ sentinel = "sweeping" /\ todo = {} /\ handling = NoKind
  /\ sentinel' = "watching"
  /\ UNCHANGED <<vars, sigs, files, events, todo, handling, asked, stuck>>

ReadEvent ==
  /\ sentinel = "watching" /\ events # <<>>
  /\ Handle(Head(events))
  /\ events' = Tail(events)
  /\ UNCHANGED todo

\* os.Remove; that the file is gone already is no error.
Remove ==
  /\ handling # NoKind
  /\ files' = files \ {handling}
  /\ handling' = NoKind
  /\ stuck' = stuck \ {handling}
  /\ UNCHANGED <<vars, sigs, events, sentinel, todo, asked>>

\* The file cannot be removed, say because its writer has it open on Windows.
RemoveFails ==
  /\ handling \in files
  /\ handling' = NoKind
  /\ stuck' = stuck \cup {handling}
  /\ UNCHANGED <<vars, sigs, files, events, sentinel, todo, asked>>

\* ctx.Done in watchSentinel, which a sweep does not look at.
StopSentinel ==
  /\ sentinel = "watching" /\ handling = NoKind /\ cancelled
  /\ sentinel' = "stopped"
  /\ events' = <<>>
  /\ UNCHANGED <<vars, sigs, files, todo, handling, asked, stuck>>

-----------------------------------------------------------------------------
SentinelStep ==
  \/ Add \/ AddFails \/ List \/ ListFails
  \/ Sweep \/ SweepDone \/ ReadEvent
  \/ Remove \/ RemoveFails

ControlNext ==
  \/ DaemonAlone \/ SpawnAll \/ End
  \/ (\E s \in Posix : SendSignal(s)) \/ HandleSignal
  \/ (\E k \in Kind : Touch(k)) \/ SentinelStep \/ StopSentinel

\* The goroutines run.  That watchSentinel notices the end of the context is not
\* needed.
ControlFairness ==
  /\ Fairness
  /\ WF_controlVars(HandleSignal)
  /\ WF_controlVars(SentinelStep)

ControlSpec == ControlInit /\ [][ControlNext]_controlVars /\ ControlFairness

-----------------------------------------------------------------------------
(* Properties *)

\* Types; the channel never holds more than it can, and a file under way is one
\* that the watcher knows.
ControlTypeOK ==
  /\ sigs \in Seq(Posix) /\ Len(sigs) <= SigCap
  /\ events \in Seq(Kind) /\ IsInjective(events)
  /\ files \subseteq Kind /\ todo \subseteq Kind /\ handling \in Kind \cup {NoKind}
  /\ asked \subseteq Kind /\ stuck \subseteq files
  /\ sentinel \in {"none", "starting", "disabled", "added", "sweeping", "watching", "stopped"}

\* A touched file that has not been answered has something under way for it as
\* long as the watcher listens: an event it has yet to read, a place in the
\* sweep, or the sweep itself.  Touches fall between w.Add and the listing,
\* between the listing and the nudge, and between the nudge and the removal,
\* which takes the new file with the old.
RequestUnderWay ==
  \A k \in asked \ stuck :
    /\ sentinel = "added" => k \in files
    /\ sentinel = "sweeping" => k \in todo \/ k \in Range(events)
    /\ sentinel = "watching" => k \in Range(events)

\* A watcher with nothing to do leaves no file behind for the next start to
\* answer again, but those it failed to list or to remove.
DirectorySwept ==
  sentinel = "watching" /\ handling = NoKind /\ events = <<>> => files \subseteq stuck

\* A kick file leads to a forced draw if the daemon listens and does not end,
\* whatever else is touched and sent.
KickFileServed ==
  "kick" \in asked \ stuck /\ sentinel \in {"sweeping", "watching"}
    ~> (pc = "resolve" /\ force) \/ pc = "off"

\* A SIGTERM that was not dropped ends the process.
TermHeard == "terminate" \in Range(sigs) ~> pc = "off"
=============================================================================
