------------------------------- MODULE Picker -------------------------------
(***************************************************************************)
(* internal/picker: one random draw from the files of a source, with the   *)
(* sources's most recent draws excluded, and the list of recent draws that *)
(* the draw leaves behind.  The random generator is the choice of a member *)
(* of Candidates; the directory walk (scanDir) is the set files handed in. *)
(***************************************************************************)
EXTENDS Integers, Sequences, FiniteSets

CONSTANTS
  Source,      \* what Pick is pointed at: wallpaper_dir or a season's path
  File,        \* absolute paths of wallpapers
  Key,         \* paths relative to a source, as the state file stores them
  RelKey,      \* RelKey[src][file], picker.RelKey
  HistoryCap   \* the literal 5 of Pick and Trim

ASSUME PickerAssumption ==
  /\ RelKey \in [Source -> [File -> Key]]
  /\ HistoryCap \in Nat \ {0}

-----------------------------------------------------------------------------
\* min(5, floor(n / 2)): how many recent draws a pool of n files excludes.
ExcludeN(n) == IF n \div 2 > HistoryCap THEN HistoryCap ELSE n \div 2

\* Mutant: the loop over recent stops one entry early.
ExcludedOneShort(recent, n) ==
  {recent[i] : i \in {j \in DOMAIN recent : j < ExcludeN(n)}}

\* The keys the next draw from a pool of n files may not return.
Excluded(recent, n) ==
  {recent[i] : i \in {j \in DOMAIN recent : j <= ExcludeN(n)}}

Fresh(src, files, recent) ==
  {f \in files : RelKey[src][f] \notin Excluded(recent, Cardinality(files))}

\* What the draw is made from.  Excluding everything excludes nothing.
Candidates(src, files, recent) ==
  IF Fresh(src, files, recent) = {} THEN files ELSE Fresh(src, files, recent)

-----------------------------------------------------------------------------
\* Mutant: latest is not counted.
HistoryLimitOneMore(n) == ExcludeN(n) + 1

\* How many draws a pool of n files remembers: never fewer than one.
HistoryLimit(n) == IF ExcludeN(n) < 1 THEN 1 ELSE ExcludeN(n)

CutOut(s, at) == SubSeq(s, 1, at - 1) \o SubSeq(s, at + 1, Len(s))

\* recent without latest.  The lists Trim writes hold a key at most once
\* (RecentList), so there is at most one place to drop.
Without(recent, latest) ==
  IF \E i \in DOMAIN recent : recent[i] = latest
  THEN CutOut(recent, CHOOSE i \in DOMAIN recent : recent[i] = latest)
  ELSE recent

AtMost(s, n) == IF Len(s) <= n THEN s ELSE SubSeq(s, 1, n)

Trim(recent, latest, n) ==
  <<latest>> \o AtMost(Without(recent, latest), HistoryLimit(n) - 1)

-----------------------------------------------------------------------------
\* The shapes a list of recent draws has: short, and without repetition.
RecentList(recent) ==
  /\ recent \in Seq(Key)
  /\ Len(recent) <= HistoryCap
  /\ \A i, j \in DOMAIN recent : recent[i] = recent[j] => i = j

\* RelKey names a file within its source, except for files below a directory
\* whose name starts with two dots, which are all known by their base name.
RelKeyInjective ==
  \A src \in Source : \A f, g \in File : RelKey[src][f] = RelKey[src][g] => f = g
=============================================================================
