------------------------------ MODULE MCSeason ------------------------------
(* Instances of Config and Season for TLC: years of three months and five   *)
(* days, with a leap day at the end of the second month of year 2.          *)
EXTENDS Config

ThreeMonths == <<2, 1, 2>>

File(seasons, daemon) ==
  [wallpaper_dir |-> "/w", extensions |-> Absent, seasons |-> seasons, daemon |-> daemon]

RawOf(s) ==
  IF "end" \in DOMAIN s
  THEN [path |-> "/w/fall", date |-> Absent, range |-> <<s.start, s.end>>]
  ELSE [path |-> "/w/fall", date |-> s.start, range |-> Absent]

\* Every pair of seasons that parse.
Pairs == {File(<<RawOf(a), RawOf(b)>>, Absent) : a, b \in Season}

\* Every season, right or wrong, on its own.
Singles ==
  LET Text == Date \cup MonthDay \cup {Bad}
  IN  {File(<<s>>, Absent) :
         s \in [path : {"/w/fall", Absent}, date : Text \cup {Absent}, range : {Absent}]
               \cup [path : {"/w/fall"}, date : {Absent, <<1, 1>>}, range : Text \X Text]}

\* Blocks with times around the ends of the day, in any order and repeated, and
\* durations around the least that is allowed.
Blocks ==
  LET Time == {<<0, 0>>, <<3, 0>>, <<23, 59>>, <<24, 0>>, <<5, 60>>}
      Duration == {Absent, Bad, 59, 60}
  IN  {File(<<>>, d) :
         d \in [refresh_interval : Duration, rotation_interval : Duration,
                rotation_at : {Absent, Bad} \cup UNION {[1 .. n -> Time] : n \in 0 .. 3},
                watch_config : {FALSE}, sentinel_fallback : {Absent}]}

Incomplete ==
  {[File(<<>>, Absent) EXCEPT !.wallpaper_dir = Absent], [File(<<>>, Absent) EXCEPT !.extensions = Bad]}

Files == Pairs \cup Singles \cup Blocks \cup Incomplete
=============================================================================
