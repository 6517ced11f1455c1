------------------------------- MODULE Config -------------------------------
(***************************************************************************)
(* internal/config: what Load makes of a config file, and so what the rest *)
(* of the program may rely on.  The file is given as the decoder leaves    *)
(* it, with fields that are Absent and text that is Bad.  An operator that *)
(* may fail returns the set of its results: {} is an error, which rejects  *)
(* the file.  Durations and offsets are in seconds.                        *)
(***************************************************************************)
EXTENDS Season, SequencesExt

CONSTANTS
  Absent,      \* a field the file does not have
  Bad,         \* text that does not parse
  Raws         \* the files that are loaded

Minute == 60
Hour == 60 * Minute

MinRotationInterval == Minute

Optional(S) == S \cup {Absent}

\* rawSeason; "date" is a date, "range" two.
RawSeason ==
  LET Text == Date \cup MonthDay \cup {Bad}
  IN  [path : Optional(STRING), date : Optional(Text), range : Optional(Text \X Text)]

\* rawDaemon; a scalar rotation_at is a sequence of one.
RawDaemon ==
  [refresh_interval : Optional(Int \cup {Bad}),
   rotation_at : Optional(Seq((Nat \X Nat) \cup {Bad}) \cup {Bad}),
   rotation_interval : Optional(Int \cup {Bad}),
   watch_config : Optional(BOOLEAN),
   sentinel_fallback : Optional(BOOLEAN)]

RawConfig ==
  [wallpaper_dir : Optional(STRING), extensions : Optional({Bad}),
   seasons : Seq(RawSeason), daemon : Optional(RawDaemon)]

ASSUME ConfigAssumption == Raws \subseteq RawConfig

-----------------------------------------------------------------------------
(* season.Parse *)

ParseDate(date) ==
  IF date \in MonthDay THEN {[kind |-> "annual date", start |-> date]}
  ELSE IF date \in Date THEN {[kind |-> "specific date", start |-> date]}
  ELSE {}

\* Mutant: a range of one year may end before it starts.
ParseRangeUnordered(start, end) ==
  IF start \in MonthDay /\ end \in MonthDay
  THEN {[kind |-> "annual range", start |-> start, end |-> end]}
  ELSE IF start \in Date /\ end \in Date
  THEN {[kind |-> "specific range", start |-> start, end |-> end]}
  ELSE {}

\* Both ends are annual or both are of a year, and then in order.
ParseRange(start, end) ==
  IF start \in MonthDay /\ end \in MonthDay
  THEN {[kind |-> "annual range", start |-> start, end |-> end]}
  ELSE IF start \in Date /\ end \in Date /\ NotAfter(start, end)
  THEN {[kind |-> "specific range", start |-> start, end |-> end]}
  ELSE {}

Parse(raw) ==
  IF raw.path = Absent \/ (raw.date = Absent <=> raw.range = Absent) THEN {}
  ELSE IF raw.date # Absent THEN ParseDate(raw.date)
  ELSE ParseRange(raw.range[1], raw.range[2])

-----------------------------------------------------------------------------
(* The daemon block *)

\* parseClockTime.
ParseClockTime(text) ==
  IF text \in (0 .. 23) \X (0 .. 59) THEN {text[1] * Hour + text[2] * Minute} ELSE {}

\* The times that are not among the earlier ones.
Deduplicated(offsets) ==
  LET out[n \in 0 .. Len(offsets)] ==
        IF n = 0 THEN <<>>
        ELSE IF offsets[n] \in Range(out[n - 1]) THEN out[n - 1]
        ELSE Append(out[n - 1], offsets[n])
  IN  out[Len(offsets)]

\* Mutant: an inner loop that moves an offset past one other at most.
PlaceNextTo(out, d) == IF out # <<>> /\ Last(out) > d THEN Len(out) - 1 ELSE Len(out)

\* The inner loop of the sort: how many offsets stay before d, which moves to
\* the left as long as the one before it is greater.
Place(out, d) ==
  CHOOSE i \in 0 .. Len(out) :
    (i = 0 \/ out[i] <= d) /\ \A j \in i + 1 .. Len(out) : out[j] > d

\* The insertion sort.
Sorted(offsets) ==
  LET out[n \in 0 .. Len(offsets)] ==
        IF n = 0 THEN <<>>
        ELSE InsertAt(out[n - 1], Place(out[n - 1], offsets[n]) + 1, offsets[n])
  IN  out[Len(offsets)]

ParseRotationAt(at) ==
  IF at = Bad \/ at = <<>> THEN {}
  ELSE LET parsed == [i \in DOMAIN at |-> ParseClockTime(at[i])]
       IN  IF {} \in Range(parsed) THEN {}
           ELSE {Sorted(Deduplicated([i \in DOMAIN at |-> CHOOSE d \in parsed[i] : TRUE]))}

\* A duration of at least least, unless the field is absent.
ParseDuration(text, least, default) ==
  IF text = Absent THEN {default} ELSE {d \in {text} \ {Bad} : d >= least}

\* defaultDaemon.
DefaultDaemon ==
  [refresh |-> 6 * Hour, at |-> <<3 * Hour>>, interval |-> 0,
   watch |-> TRUE, sentinel |-> FALSE]

Default(value, default) == IF value = Absent THEN default ELSE value

\* A list of times with an interval is refused, but not times left out.
LoadDaemon(raw) ==
  {d \in [refresh : ParseDuration(raw.refresh_interval, Minute, DefaultDaemon.refresh),
          at : IF raw.rotation_at = Absent
               THEN {DefaultDaemon.at} ELSE ParseRotationAt(raw.rotation_at),
          interval : ParseDuration(raw.rotation_interval, MinRotationInterval,
                                   DefaultDaemon.interval),
          watch : {Default(raw.watch_config, DefaultDaemon.watch)},
          sentinel : {Default(raw.sentinel_fallback, DefaultDaemon.sentinel)}] :
     d.interval > 0 /\ raw.rotation_at # Absent => Len(d.at) <= 1}

-----------------------------------------------------------------------------
\* The seasons of a file, if each of them parses...
ParseSeasons(raws) ==
  LET parsed == [i \in DOMAIN raws |-> Parse(raws[i])]
  IN  IF {} \in Range(parsed) THEN {}
      ELSE {[i \in DOMAIN raws |-> CHOOSE s \in parsed[i] : TRUE]}

\* ... and no two of them conflict.
LoadSeasons(raws) == {seasons \in ParseSeasons(raws) : ~Conflicting(seasons)}

\* Load and populate.
Load(raw) ==
  IF raw.wallpaper_dir = Absent \/ raw.extensions = Bad THEN {}
  ELSE [seasons : LoadSeasons(raw.seasons),
        daemon : IF raw.daemon = Absent THEN {DefaultDaemon} ELSE LoadDaemon(raw.daemon)]

-----------------------------------------------------------------------------
(* A file that is loaded, with the seasons that are checked for conflicts, and *)
(* the days going by.                                                          *)

VARIABLE raw

ConfigInit ==
  /\ raw \in Raws
  /\ specs \in IF ParseSeasons(raw.seasons) = {} THEN {<<>>} ELSE ParseSeasons(raw.seasons)
  /\ FirstDay

ConfigSpec == ConfigInit /\ [][Next /\ UNCHANGED raw]_<<specs, today, raw>>

-----------------------------------------------------------------------------
(* Properties *)

\* The schedule of a file that loads is one that NextRotation can work with:
\* the times it names, each once and in order, within a day, at least one of
\* them and only one if there is an interval; and neither the interval nor the
\* safety net lets the loop spin.
LoadedSchedulable ==
  \A cfg \in Load(raw) :
    LET d == cfg.daemon
        given == raw.daemon # Absent /\ raw.daemon.rotation_at # Absent
    IN  /\ d.at # <<>> /\ Range(d.at) \subseteq 0 .. 24 * Hour - 1
        /\ \A i, j \in DOMAIN d.at : i < j => d.at[i] < d.at[j]
        /\ given => Range(d.at) = UNION {ParseClockTime(t) : t \in Range(raw.daemon.rotation_at)}
        /\ d.interval # 0 => d.interval >= Minute /\ Len(d.at) = 1
        /\ d.refresh >= Minute

\* No season of a file that loads is dead: each has a day on which it matches.
NoDeadSeason ==
  \A cfg \in Load(raw) : \A i \in DOMAIN cfg.seasons :
    \E date \in Date : Matches(cfg.seasons[i], date)
=============================================================================
