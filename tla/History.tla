------------------------------ MODULE History ------------------------------
(***************************************************************************)
(* What the state file promises, whoever writes it: the record only ever   *)
(* changes by one completed draw at a time, and every draw was resolved    *)
(* against the very record it extends.  No draw is lost, none is recorded  *)
(* twice, no list of recent draws is rebuilt from an older copy, and the   *)
(* date never goes back.                                                   *)
(***************************************************************************)
EXTENDS Core

VARIABLES
  record,   \* what a reader of the state file would load
  today     \* the local calendar day

vars == <<record, today>>

Init ==
  /\ record = EmptyRecord
  /\ today = 1

Tick ==
  /\ today < MaxDay
  /\ today' = today + 1
  /\ UNCHANGED record

\* A draw for a day that has begun and is not before the last recorded one.
Draw ==
  \E cfg \in Config, day \in Day, force \in BOOLEAN :
    \E files \in Scans[SourceOf[cfg][day]] :
      \E d \in ResolveForDate(cfg, record, day, force, files) :
        /\ ~d.reused
        /\ record.date <= day /\ day <= today
        /\ record' = Recorded(record, day, d)
        /\ UNCHANGED today

Next == Tick \/ Draw

Spec == Init /\ [][Next]_vars
=============================================================================
