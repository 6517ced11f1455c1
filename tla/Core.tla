-------------------------------- MODULE Core --------------------------------
(***************************************************************************)
(* internal/core and internal/state: the persisted record, what a date     *)
(* resolves to given a configuration and a record, and the record after    *)
(* the decision has been applied.  Both front ends, the daemon and the     *)
(* one-shot command, go through these operators.                           *)
(***************************************************************************)
EXTENDS Picker

CONSTANTS
  Config,      \* configurations that load and have a backend
  SourceOf,    \* SourceOf[cfg][day]: the matching season's path or wallpaper_dir
  Scans,       \* Scans[src]: the file sets a scan of src may find
  MaxDay,      \* bound on the calendar
  NoFile,      \* the empty path
  Missing,     \* the state file does not exist
  Corrupt      \* the state file does not parse

Day == 1 .. MaxDay
NoDay == 0                      \* the empty date string

ASSUME CoreAssumption ==
  /\ MaxDay \in Nat \ {0}
  /\ SourceOf \in [Config -> [Day -> Source]]
  /\ Scans \in [Source -> SUBSET (SUBSET File)]
  /\ \A src \in Source : \A files \in Scans[src] : IsFiniteSet(files)
  /\ NoFile \notin File

-----------------------------------------------------------------------------
Record ==
  [date : Day \cup {NoDay}, path : File \cup {NoFile}, recent : [Source -> Seq(Key)]]

EmptyRecord ==
  [date |-> NoDay, path |-> NoFile, recent |-> [src \in Source |-> <<>>]]

ASSUME StateFileAssumption == Missing \notin Record /\ Corrupt \notin Record

\* state.Load: a missing or corrupt file reads as the empty record.
StateFile == Record \cup {Missing, Corrupt}
Load(file) == IF file \in {Missing, Corrupt} THEN EmptyRecord ELSE file

-----------------------------------------------------------------------------
\* A decision: the file, the source whose history it extends, the pool size,
\* and whether it is only the record of what was already applied that day.
Decision == [path : File, src : Source, pool : Nat, reused : BOOLEAN]

AppliedOn(st, day) == st.date = day /\ st.path # NoFile

Reuse(cfg, st, day) ==
  [path |-> st.path, src |-> SourceOf[cfg][day], pool |-> 0, reused |-> TRUE]

\* Mutant: an empty folder yields the empty path and no error.
DrawsOrNothing(src, st, files) ==
  {[path |-> f, src |-> src, pool |-> Cardinality(files), reused |-> FALSE] :
      f \in IF files = {} THEN {NoFile} ELSE Candidates(src, files, st.recent[src])}

Draws(src, st, files) ==
  {[path |-> f, src |-> src, pool |-> Cardinality(files), reused |-> FALSE] :
      f \in Candidates(src, files, st.recent[src])}

\* Mutant: the short-circuit for a day already done is missing.
ResolveAlways(cfg, st, day, force, files) == Draws(SourceOf[cfg][day], st, files)

\* The decisions for day when a scan of its source finds files; none at all
\* when it finds nothing (no such path, no matching file): ResolveForDate's
\* error.
ResolveForDate(cfg, st, day, force, files) ==
  IF ~force /\ AppliedOn(st, day)
  THEN {Reuse(cfg, st, day)}
  ELSE Draws(SourceOf[cfg][day], st, files)

\* Mutant: the path is only recorded along with the recent draws.
RecordedWithPool(st, day, d) ==
  IF d.pool > 1
  THEN [date |-> day, path |-> d.path,
        recent |-> [st.recent EXCEPT ![d.src] = Trim(@, RelKey[d.src][d.path], d.pool)]]
  ELSE [st EXCEPT !.date = day]

\* core.Record: the record after decision d has been applied on day.
Recorded(st, day, d) ==
  [date   |-> day,
   path   |-> d.path,
   recent |-> IF d.pool > 1
              THEN [st.recent EXCEPT ![d.src] = Trim(@, RelKey[d.src][d.path], d.pool)]
              ELSE st.recent]

-----------------------------------------------------------------------------
(* What the front ends share besides: a decision not yet made, and a history *)
(* of recorded draws, for the properties.                                    *)

Nothing ==
  [path |-> NoFile, src |-> CHOOSE src \in Source : TRUE, pool |-> 0, reused |-> FALSE]

\* One more recorded draw, latest first, as far back as any property looks.
Extended(shown, d) ==
  IF d.pool > 1
  THEN [shown EXCEPT ![d.src] = AtMost(<<d.path>> \o @, HistoryCap + 1)]
  ELSE shown

\* Every pool of src with a choice excludes the last k draws.
AlwaysExcluded(src, k) ==
  \A files \in Scans[src] :
    Cardinality(files) > 1 => k <= ExcludeN(Cardinality(files))

\* Then no wallpaper comes back within k draws of its source.
NoRepeatIn(shown) ==
  \A src \in Source : \A i, j \in DOMAIN shown[src] :
    i < j /\ AlwaysExcluded(src, j - 1) => shown[src][i] # shown[src][j]
=============================================================================
