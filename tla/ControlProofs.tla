---------------------------- MODULE ControlProofs ---------------------------
(* Proofs about Control: a control file that nobody has answered yet is not  *)
(* forgotten.  The actions of Control are made of Daemon's, so that what is  *)
(* proved of the one carries over to the other.                              *)
EXTENDS Control, DaemonProofs

-----------------------------------------------------------------------------
(* What carries over from Daemon *)

\* Every nudge is one of Daemon's.
LEMMA NudgeIsDaemons == \A s : Nudge(s) => Kick \/ Reload \/ Wake
BY DEF Nudge

\* So is every step of the front ends, unless it leaves the loop alone.
LEMMA StepIsDaemons == [ControlNext]_controlVars => [Next]_vars
<1> SUFFICES ASSUME [ControlNext]_controlVars
             PROVE  [Next]_vars
  OBVIOUS
<1> USE DEF Next
<1>1. CASE DaemonAlone
  BY <1>1 DEF DaemonAlone, Process, Loop, Environment
<1>2. CASE SpawnAll
  BY <1>2 DEF SpawnAll, Loop
<1>3. CASE End
  BY <1>3 DEF End, Process, Environment
<1>4. ASSUME NEW s \in Posix, SendSignal(s)
      PROVE  [Next]_vars
  BY <1>4 DEF SendSignal
<1>5. CASE HandleSignal
  BY <1>5, NudgeIsDaemons DEF HandleSignal, Environment
<1>6. ASSUME NEW k \in Kind, Touch(k)
      PROVE  [Next]_vars
  BY <1>6 DEF Touch
<1>7. ASSUME NEW k, Handle(k)
      PROVE  [Next]_vars
  BY <1>7, NudgeIsDaemons DEF Handle, Environment
<1>8. CASE SentinelStep
  BY <1>7, <1>8
  DEF SentinelStep, Add, AddFails, List, ListFails, Sweep, SweepDone, ReadEvent, Remove, RemoveFails
<1>9. CASE StopSentinel
  BY <1>9 DEF StopSentinel
<1>10. CASE UNCHANGED controlVars
  BY <1>10 DEF controlVars
<1> QED
  BY <1>1, <1>2, <1>3, <1>4, <1>5, <1>6, <1>8, <1>9, <1>10 DEF ControlNext

\* So are the steps of a behaviour, by the way they are composed: the invariants
\* that are proved of Daemon can be cited here.
LEMMA ControlSteps == ControlSpec => Spec
<1>1. ControlInit => Init
  BY DEF ControlInit
<1> QED
  BY <1>1, StepIsDaemons, PTL DEF ControlSpec, Spec

\* A kick from any of them is in its channel or about to be drawn for.
COROLLARY KicksStillKept == ControlSpec => []KickNotLost
BY ControlSteps, KicksKept, PTL

-----------------------------------------------------------------------------
(* The lists of events *)

\* The watcher that handles nothing handles no file of any kind.
LEMMA KindIsKind == NoKind \notin Kind
BY ControlAssumption DEF NoKind

\* Taking the first event loses no other.
LEMMA RangeOfTail ==
  ASSUME NEW S, NEW s \in Seq(S), s # <<>>
  PROVE  /\ Head(s) \in S /\ Tail(s) \in Seq(S)
         /\ Range(s) \subseteq Range(Tail(s)) \cup {Head(s)}
         /\ IsInjective(s) => IsInjective(Tail(s))
<1>1. /\ Len(s) \in Nat \ {0} /\ Len(Tail(s)) = Len(s) - 1
      /\ DOMAIN s = 1 .. Len(s) /\ DOMAIN Tail(s) = 1 .. Len(Tail(s))
      /\ \A i \in 1 .. Len(Tail(s)) : Tail(s)[i] = s[i + 1]
      /\ Head(s) = s[1] /\ Head(s) \in S /\ Tail(s) \in Seq(S)
  OBVIOUS
<1>2. ASSUME NEW i \in DOMAIN s
      PROVE  s[i] \in Range(Tail(s)) \cup {Head(s)}
  <2>1. CASE i = 1
    BY <1>1, <2>1
  <2>2. CASE i # 1
    <3>1. i - 1 \in DOMAIN Tail(s) /\ Tail(s)[i - 1] = s[i]
      BY <1>1, <2>2
    <3> QED
      BY <3>1 DEF Range
  <2> QED
    BY <2>1, <2>2
<1>3. ASSUME IsInjective(s), NEW i \in DOMAIN Tail(s), NEW j \in DOMAIN Tail(s), Tail(s)[i] = Tail(s)[j]
      PROVE  i = j
  <2>1. i + 1 \in DOMAIN s /\ j + 1 \in DOMAIN s /\ s[i + 1] = s[j + 1] /\ i \in Nat /\ j \in Nat
    BY <1>1, <1>3
  <2>2. i + 1 = j + 1
    BY <1>3, <2>1 DEF IsInjective
  <2> QED
    BY <2>1, <2>2
<1> QED
  BY <1>1, <1>2, <1>3 DEF Range, IsInjective

\* Raising an event loses none and repeats none.
LEMMA RangeOfRaised ==
  ASSUME NEW k \in Kind, events \in Seq(Kind), IsInjective(events)
  PROVE  /\ Raised(k) \in Seq(Kind) /\ IsInjective(Raised(k))
         /\ Range(events) \cup {k} \subseteq Range(Raised(k))
<1>1. CASE k \in Range(events)
  BY <1>1 DEF Raised
<1>2. CASE k \notin Range(events)
  <2> DEFINE more == Append(events, k)
  <2>1. /\ Len(events) \in Nat /\ DOMAIN events = 1 .. Len(events)
        /\ DOMAIN more = 1 .. Len(events) + 1 /\ more \in Seq(Kind)
        /\ \A i \in 1 .. Len(events) : more[i] = events[i]
        /\ more[Len(events) + 1] = k
    OBVIOUS
  <2>2. Raised(k) = more
    BY <1>2 DEF Raised
  <2>3. \A i \in DOMAIN events : events[i] # k
    BY <1>2 DEF Range
  <2> HIDE DEF more
  <2>4. IsInjective(more)
    BY <2>1, <2>3 DEF IsInjective
  <2>5. Range(events) \cup {k} \subseteq Range(more)
    <3>1. \A i \in DOMAIN events : i \in DOMAIN more /\ more[i] = events[i]
      BY <2>1
    <3>2. Len(events) + 1 \in DOMAIN more
      BY <2>1
    <3> QED
      BY <2>1, <3>1, <3>2 DEF Range
  <2> QED
    BY <2>1, <2>2, <2>4, <2>5
<1> QED
  BY <1>1, <1>2

-----------------------------------------------------------------------------
(* Types *)

\* No step of signals, files or loop leaves a variable untyped.
LEMMA ControlTypeStep == ControlTypeOK /\ [ControlNext]_controlVars => ControlTypeOK'
<1> SUFFICES ASSUME ControlTypeOK, [ControlNext]_controlVars
             PROVE  ControlTypeOK'
  OBVIOUS
<1> USE DEF ControlTypeOK
<1>1. CASE DaemonAlone
  BY <1>1 DEF DaemonAlone, frontEnds
<1>2. CASE SpawnAll
  BY <1>2 DEF SpawnAll
<1>3. CASE End
  <2>1. IsInjective(<<>>)
    BY DEF IsInjective
  <2> QED
    BY <1>3, <2>1, ControlAssumption DEF End
<1>4. ASSUME NEW s \in Posix, SendSignal(s)
      PROVE  ControlTypeOK'
  BY <1>4, ControlAssumption DEF SendSignal
<1>5. CASE HandleSignal
  <2>1. /\ sigs # <<>> /\ sigs' = Tail(sigs)
        /\ UNCHANGED <<files, events, sentinel, todo, handling, asked, stuck>>
    BY <1>5 DEF HandleSignal
  <2>2. Tail(sigs) \in Seq(Posix) /\ Len(Tail(sigs)) <= SigCap
    BY <2>1, ControlAssumption
  <2> QED
    BY <2>1, <2>2
<1>6. ASSUME NEW k \in Kind, Touch(k)
      PROVE  ControlTypeOK'
  BY <1>6, RangeOfRaised DEF Touch
<1>7. CASE Add \/ AddFails \/ List \/ ListFails \/ SweepDone
  BY <1>7 DEF Add, AddFails, List, ListFails, SweepDone
<1>8. CASE Sweep
  BY <1>8 DEF Sweep, Handle
<1>9. CASE ReadEvent
  BY <1>9, RangeOfTail DEF ReadEvent, Handle
<1>10. CASE Remove \/ RemoveFails
  BY <1>10 DEF Remove, RemoveFails
<1>11. CASE StopSentinel
  <2>1. IsInjective(<<>>)
    BY DEF IsInjective
  <2> QED
    BY <1>11, <2>1 DEF StopSentinel
<1>12. CASE UNCHANGED controlVars
  BY <1>12 DEF controlVars, frontEnds
<1> QED
  BY <1>1, <1>2, <1>3, <1>4, <1>5, <1>6, <1>7, <1>8, <1>9, <1>10, <1>11, <1>12
  DEF ControlNext, SentinelStep

\* The channel of signals keeps to its capacity, no event is kept twice and a
\* file that could not be handled is there, for every choice of signals, files
\* and capacity.
THEOREM ControlTyping == ControlSpec => []ControlTypeOK
<1>1. ControlInit => ControlTypeOK
  BY ControlAssumption DEF ControlInit, ControlTypeOK, IsInjective
<1> QED
  BY <1>1, ControlTypeStep, PTL DEF ControlSpec

-----------------------------------------------------------------------------
(* Control files *)

\* The watchers of the config and of the control directory start together, and
\* until then no touched file is missing from the directory.
Together ==
  /\ sentinel = "none" <=> watcher = "none"
  /\ pc \in {"off", "load", "spawn"} => watcher = "none"
  /\ sentinel \in {"none", "starting", "disabled", "added"} => asked \subseteq files /\ handling = NoKind

\* A file that is being handled and was touched again has a watcher that works.
Again == handling \in asked => handling \notin stuck

\* Whatever is in the directory is being handled, will be, or could not be.
Swept ==
  /\ sentinel = "sweeping" => files \subseteq stuck \cup {handling} \cup Range(events) \cup todo
  /\ sentinel = "watching" => files \subseteq stuck \cup {handling} \cup Range(events)

ControlInv == Together /\ Again /\ RequestUnderWay /\ Swept

\* What the loop does to the watcher of the config.
LEMMA LoopFrame ==
  /\ Together
  /\ DaemonAlone \/ UNCHANGED controlVars \/ HandleSignal
       \/ \E k : Nudge(k) /\ UNCHANGED <<sentinel>>
  => /\ watcher' = "none" <=> watcher = "none"
     /\ pc' \in {"off", "load", "spawn"} => watcher' = "none"
<1> SUFFICES ASSUME Together,
                    \/ DaemonAlone \/ UNCHANGED controlVars \/ HandleSignal
                    \/ \E k : Nudge(k) /\ UNCHANGED <<sentinel>>
             PROVE  /\ watcher' = "none" <=> watcher = "none"
                    /\ pc' \in {"off", "load", "spawn"} => watcher' = "none"
  OBVIOUS
<1> USE DEF Together, machine, frame, channels, watch, history
<1>1. CASE Start \/ LoadState \/ ReloadConfig
  BY <1>1 DEF Start, LoadState, ReloadConfig
<1>2. CASE Evaluation
  BY <1>2 DEF Evaluation, Resolve, Apply, ApplyFails, Save, SaveFails, Return
<1>3. CASE SelectTimer \/ SelectKick \/ SelectWake \/ SelectReload
  BY <1>3 DEF SelectTimer, SelectKick, SelectWake, SelectReload, Evaluate
<1>4. CASE Watcher
  BY <1>4 DEF Watcher, Attach, AttachFails, OnEvent, DebounceFires, StopWatch
<1>5. CASE Tick \/ EditConfig
  BY <1>5 DEF Tick, EditConfig
<1>6. CASE \E k : Nudge(k)
  BY <1>6 DEF Nudge, Kick, Reload, Wake
<1>7. CASE HandleSignal
  BY <1>6, <1>7 DEF HandleSignal, Terminate
<1>8. CASE UNCHANGED controlVars
  BY <1>8 DEF controlVars, vars
<1> QED
  BY <1>1, <1>2, <1>3, <1>4, <1>5, <1>6, <1>7, <1>8 DEF DaemonAlone

\* Nothing but the watcher and those who touch its files changes what it has to
\* do.
LEMMA QuietKeeps ==
  ASSUME ControlInv, DaemonAlone \/ UNCHANGED controlVars \/ HandleSignal \/ \E s \in Posix : SendSignal(s)
  PROVE  ControlInv'
<1>1. UNCHANGED <<files, events, sentinel, todo, handling, asked, stuck>>
  BY DEF DaemonAlone, HandleSignal, SendSignal, controlVars, frontEnds
<1>2. /\ watcher' = "none" <=> watcher = "none"
      /\ pc' \in {"off", "load", "spawn"} => watcher' = "none"
  <2>1. CASE \E s \in Posix : SendSignal(s)
    BY <2>1 DEF SendSignal, vars, ControlInv, Together
  <2> QED
    BY <2>1, LoopFrame DEF ControlInv
<1> QED
  BY <1>1, <1>2 DEF ControlInv, Together, Again, RequestUnderWay, Swept

\* A touch, at whatever moment of the watcher's work.
LEMMA TouchKeeps ==
  ASSUME ControlTypeOK, ControlInv, NEW k \in Kind, Touch(k)
  PROVE  ControlInv'
<1>1. /\ files' = files \cup {k} /\ asked' = asked \cup {k} /\ stuck' = stuck \ {k}
      /\ UNCHANGED <<vars, sentinel, todo, handling>>
      /\ Subscribed => Range(events) \cup {k} \subseteq Range(events')
  BY RangeOfRaised DEF Touch, ControlTypeOK
<1>2. Together'
  BY <1>1 DEF ControlInv, Together, vars
<1>3. Again'
  BY <1>1 DEF ControlInv, Again
<1>4. RequestUnderWay'
  BY <1>1 DEF ControlInv, RequestUnderWay, Subscribed
<1>5. Swept'
  BY <1>1 DEF ControlInv, Swept, Subscribed
<1> QED
  BY <1>2, <1>3, <1>4, <1>5 DEF ControlInv

\* A nudge settles what was asked before it, and no more.
LEMMA HandleKeeps ==
  ASSUME ControlTypeOK, ControlInv, NEW k \in Kind, Handle(k),
         \/ sentinel = "sweeping" /\ todo' = todo \ {k} /\ events' = events
         \/ sentinel = "watching" /\ Range(events) \subseteq Range(events') \cup {k} /\ todo' = todo
  PROVE  ControlInv'
<1>1. /\ asked' = asked \ {k} /\ handling' = k /\ handling = NoKind
      /\ UNCHANGED <<files, sentinel, stuck>>
  BY DEF Handle
<1>2. Together'
  <2>1. /\ watcher' = "none" <=> watcher = "none"
        /\ pc' \in {"off", "load", "spawn"} => watcher' = "none"
    BY LoopFrame DEF Handle, ControlInv
  <2> QED
    BY <1>1, <2>1 DEF ControlInv, Together
<1>3. Again'
  BY <1>1 DEF Again
<1>4. RequestUnderWay'
  BY <1>1 DEF ControlInv, RequestUnderWay
<1>5. Swept'
  <2>1. NoKind \notin files
    BY KindIsKind DEF ControlTypeOK
  <2> QED
    BY <1>1, <2>1 DEF ControlInv, Swept
<1> QED
  BY <1>2, <1>3, <1>4, <1>5 DEF ControlInv

\* The rest of what the watcher does.
LEMMA WatcherKeeps ==
  ASSUME ControlTypeOK, ControlInv,
         \/ Add \/ AddFails \/ List \/ ListFails \/ SweepDone
         \/ Remove \/ RemoveFails \/ StopSentinel
  PROVE  ControlInv'
<1>1. NoKind \notin asked /\ NoKind \notin files
  BY KindIsKind DEF ControlTypeOK
<1>2. vars' = vars
  BY DEF Add, AddFails, List, ListFails, SweepDone, Remove, RemoveFails, StopSentinel
<1>3. watcher' = watcher /\ pc' = pc
  BY <1>2 DEF vars
<1> USE DEF ControlInv, Together, Again, RequestUnderWay, Swept
<1>4. CASE Add \/ AddFails
  BY <1>1, <1>3, <1>4 DEF Add, AddFails
<1>5. CASE List \/ ListFails
  BY <1>1, <1>3, <1>5 DEF List, ListFails
<1>6. CASE SweepDone
  BY <1>1, <1>3, <1>6 DEF SweepDone
<1>7. CASE Remove
  <2>1. Together'
    BY <1>3, <1>7 DEF Remove
  <2>2. Again'
    BY <1>1, <1>7 DEF Remove
  <2>3. RequestUnderWay'
    BY <1>7 DEF Remove
  <2>4. Swept'
    BY <1>7 DEF Remove
  <2> QED
    BY <2>1, <2>2, <2>3, <2>4
<1>8. CASE RemoveFails
  <2>1. Together'
    BY <1>3, <1>1, <1>8, KindIsKind DEF RemoveFails, ControlTypeOK
  <2>2. Again'
    BY <1>1, <1>8 DEF RemoveFails
  <2>3. RequestUnderWay'
    BY <1>8 DEF RemoveFails
  <2>4. Swept'
    BY <1>8 DEF RemoveFails
  <2> QED
    BY <2>1, <2>2, <2>3, <2>4
<1>9. CASE StopSentinel
  BY <1>1, <1>3, <1>9 DEF StopSentinel
<1> QED
  BY <1>4, <1>5, <1>6, <1>7, <1>8, <1>9

\* So is every step of the whole.
LEMMA ControlStep == ControlTypeOK /\ ControlInv /\ [ControlNext]_controlVars => ControlInv'
<1> SUFFICES ASSUME ControlTypeOK, ControlInv, [ControlNext]_controlVars
             PROVE  ControlInv'
  OBVIOUS
<1>1. NoKind \notin asked
  BY KindIsKind DEF ControlTypeOK
<1>2. CASE SpawnAll
  <2>1. watcher = "none" /\ sentinel = "none" /\ watcher' # "none" /\ pc' = "select"
    BY <1>2 DEF SpawnAll, SpawnWatchers, ControlInv, Together
  <2>2. sentinel' \in {"starting", "disabled"} /\ UNCHANGED <<files, handling, asked, stuck>>
    BY <1>2 DEF SpawnAll
  <2> QED
    BY <2>1, <2>2 DEF ControlInv, Together, Again, RequestUnderWay, Swept
<1>3. CASE End
  <2>1. pc' = "off" /\ watcher' = "none"
    BY <1>3 DEF End, LoadFails, SelectDone, Crash, Gone
  <2>2. sentinel' = "none" /\ handling' = NoKind /\ asked' = asked \cap files /\ files' = files
    BY <1>3 DEF End
  <2> QED
    BY <1>1, <2>1, <2>2 DEF ControlInv, Together, Again, RequestUnderWay, Swept
<1>4. CASE Sweep
  <2>1. PICK k \in todo : Handle(k) /\ todo' = todo \ {k}
    BY <1>4 DEF Sweep
  <2> QED
    BY <1>4, <2>1, HandleKeeps DEF Sweep, ControlTypeOK
<1>5. CASE ReadEvent
  <2>1. events \in Seq(Kind) /\ events # <<>>
    BY <1>5 DEF ReadEvent, ControlTypeOK
  <2>2. Head(events) \in Kind /\ Range(events) \subseteq Range(Tail(events)) \cup {Head(events)}
    BY <2>1, RangeOfTail
  <2> QED
    BY <1>5, <2>2, HandleKeeps DEF ReadEvent
<1>6. CASE \E k \in Kind : Touch(k)
  BY <1>6, TouchKeeps
<1> QED
  BY <1>2, <1>3, <1>4, <1>5, <1>6, QuietKeeps, WatcherKeeps DEF ControlNext, SentinelStep

\* The invariant of the control directory holds in every reachable state.
LEMMA ControlAlways == ControlSpec => []ControlInv
<1>1. ControlInit => ControlInv
  BY KindIsKind
  DEF ControlInit, Init, ControlInv, Together, Again, RequestUnderWay, Swept
<1> QED
  BY <1>1, ControlStep, ControlTyping, PTL DEF ControlSpec

\* Whenever the files are touched, and whatever the watcher fails to do: one
\* that nobody has answered has an event, a place in the sweep, or the sweep
\* before it.
THEOREM RequestsKept == ControlSpec => []RequestUnderWay
BY ControlAlways, PTL DEF ControlInv

\* A watcher that has nothing to do has left no file that it could remove.
THEOREM DirectoryIsSwept == ControlSpec => []DirectorySwept
<1>1. ControlTypeOK /\ ControlInv => DirectorySwept
  <2> SUFFICES ASSUME ControlTypeOK, ControlInv, sentinel = "watching", handling = NoKind,
                      events = <<>>
               PROVE  files \subseteq stuck
    BY DEF DirectorySwept
  <2>1. Range(events) = {}
    BY DEF Range
  <2>2. NoKind \notin files
    BY KindIsKind DEF ControlTypeOK
  <2> QED
    BY <2>1, <2>2 DEF ControlInv, Swept
<1> QED
  BY <1>1, ControlAlways, ControlTyping, PTL
=============================================================================
