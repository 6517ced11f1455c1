------------------------------- MODULE Season -------------------------------
(***************************************************************************)
(* internal/season: which of the configured seasons a date falls in, which *)
(* sets of seasons the config may not hold, and when a season comes next.  *)
(*                                                                         *)
(* The calendar is a parameter: a year of Length months, one of which is a *)
(* day longer in a leap year.                                              *)
(***************************************************************************)
EXTENDS Integers, Sequences, FiniteSets

CONSTANTS
  FirstYear, LastYear,   \* what the calendar covers
  LeapYears,
  Length,      \* Length[m]: the days of month m in a common year
  LeapMonth    \* February

ASSUME SeasonAssumption ==
  /\ FirstYear \in Nat /\ LastYear \in Nat /\ FirstYear <= LastYear
  /\ LeapYears \subseteq FirstYear .. LastYear
  /\ Length \in Seq(Nat \ {0}) /\ LeapMonth \in DOMAIN Length

Years == FirstYear .. LastYear
Month == DOMAIN Length
DaysIn(leap, m) == Length[m] + (IF leap /\ m = LeapMonth THEN 1 ELSE 0)

\* The month-days of a leap year: validMonthDay checks MM-DD against one.
MonthDay == UNION {{<<m, d>> : d \in 1 .. DaysIn(TRUE, m)} : m \in Month}

Date ==
  UNION {{<<y, m, d>> : d \in 1 .. DaysIn(y \in LeapYears, m)} : y \in Years, m \in Month}

\* cmpMD and cmpYMD, negative or zero.
NotAfterMD(a, b) == a[1] < b[1] \/ (a[1] = b[1] /\ a[2] <= b[2])
NotAfter(a, b) == a[1] < b[1] \/ (a[1] = b[1] /\ NotAfterMD(Tail(a), Tail(b)))

-----------------------------------------------------------------------------
\* A season holds start and end: dates if it is specific, month-days if it is
\* annual; a single date is both.  Parse lets a specific range not end before
\* it starts, and an annual one end wherever it likes.
Kind == {"specific date", "annual date", "specific range", "annual range"}

Season ==
  [kind : {"specific date"}, start : Date] \cup
  [kind : {"annual date"}, start : MonthDay] \cup
  {s \in [kind : {"specific range"}, start : Date, end : Date] : NotAfter(s.start, s.end)} \cup
  [kind : {"annual range"}, start : MonthDay, end : MonthDay]

Priority(kind) ==
  CASE kind = "specific date" -> 1 [] kind = "annual date" -> 2
    [] kind = "specific range" -> 3 [] kind = "annual range" -> 4

\* Mutant: a range that wraps the year's end needs both halves.
AnnualRangeContainsBoth(start, end, md) == NotAfterMD(start, md) /\ NotAfterMD(md, end)

AnnualRangeContains(start, end, md) ==
  IF NotAfterMD(start, end)
  THEN NotAfterMD(start, md) /\ NotAfterMD(md, end)
  ELSE NotAfterMD(start, md) \/ NotAfterMD(md, end)

Matches(s, date) ==
  \/ s.kind = "specific date" /\ date = s.start
  \/ s.kind = "annual date" /\ Tail(date) = s.start
  \/ s.kind = "specific range" /\ NotAfter(s.start, date) /\ NotAfter(date, s.end)
  \/ s.kind = "annual range" /\ AnnualRangeContains(s.start, s.end, Tail(date))

\* The index of the season that wins, or 0: the first of the best tier.
Match(date, specs) ==
  LET matching == {i \in DOMAIN specs : Matches(specs[i], date)}
      before(i, j) == \/ Priority(specs[i].kind) < Priority(specs[j].kind)
                      \/ Priority(specs[i].kind) = Priority(specs[j].kind) /\ i <= j
  IN  IF matching = {} THEN 0
      ELSE CHOOSE i \in matching : \A j \in matching : before(i, j)

-----------------------------------------------------------------------------
\* t.AddDate(0, 0, 1) in a leap year, whose last day is followed by one that
\* is after all of it.
NextDay(md) ==
  IF md[2] < DaysIn(TRUE, md[1]) THEN <<md[1], md[2] + 1>> ELSE <<md[1] + 1, 1>>

\* Mutant: t.Before(end) for !t.After(end).
WalkBefore(from, to) ==
  LET t[n \in 0 .. Cardinality(MonthDay)] ==
        IF n = 0 THEN from
        ELSE IF NotAfterMD(t[n - 1], to) THEN NextDay(t[n - 1]) ELSE t[n - 1]
  IN  {md \in {t[n] : n \in DOMAIN t} : NotAfterMD(md, to) /\ md # to}

\* A loop of annualRangeDays: t[n] is the day that n turns lead to, and the days
\* not after the last one are put out.  No walk is longer than a year.
Walk(from, to) ==
  LET t[n \in 0 .. Cardinality(MonthDay)] ==
        IF n = 0 THEN from
        ELSE IF NotAfterMD(t[n - 1], to) THEN NextDay(t[n - 1]) ELSE t[n - 1]
  IN  {md \in {t[n] : n \in DOMAIN t} : NotAfterMD(md, to)}

YearEnd == <<Len(Length), DaysIn(TRUE, Len(Length))>>

\* annualRangeDays: the month-days of a range, walked through a leap year.
AnnualRangeDays(start, end) ==
  IF NotAfterMD(start, end) THEN Walk(start, end)
  ELSE Walk(start, YearEnd) \cup Walk(<<1, 1>>, end)

Conflict(a, b) ==
  /\ a.kind = b.kind
  /\ CASE a.kind \in {"specific date", "annual date"} -> a.start = b.start
       [] a.kind = "specific range" -> NotAfter(b.start, a.end) /\ NotAfter(a.start, b.end)
       [] a.kind = "annual range" ->
            AnnualRangeDays(a.start, a.end) \cap AnnualRangeDays(b.start, b.end) # {}

\* CheckConflicts: the config is rejected.
Conflicting(specs) ==
  \E i, j \in DOMAIN specs : i < j /\ Conflict(specs[i], specs[j])

-----------------------------------------------------------------------------
\* time.Date carries a day the month does not have over to the next month.
MkDate(y, md) ==
  IF md[2] <= DaysIn(y \in LeapYears, md[1])
  THEN <<y>> \o md
  ELSE <<y, md[1] + 1, md[2] - DaysIn(y \in LeapYears, md[1])>>

Never == <<>>

\* This year's day if it is not over, or next year's.
NextAnnual(md, from) ==
  IF NotAfter(from, MkDate(from[1], md)) THEN MkDate(from[1], md) ELSE MkDate(from[1] + 1, md)

\* Mutant: a range that has begun comes next when it begins again.
NextMatchStart(s, from) ==
  CASE s.kind = "specific date" -> IF NotAfter(from, s.start) THEN s.start ELSE Never
    [] s.kind \in {"annual date", "annual range"} -> NextAnnual(s.start, from)
    [] s.kind = "specific range" ->
         IF ~NotAfter(from, s.end) THEN Never
         ELSE IF NotAfter(from, s.start) THEN s.start ELSE from

NextMatch(s, from) ==
  CASE s.kind = "specific date" -> IF NotAfter(from, s.start) THEN s.start ELSE Never
    [] s.kind = "annual date" -> NextAnnual(s.start, from)
    [] s.kind = "specific range" ->
         IF ~NotAfter(from, s.end) THEN Never
         ELSE IF NotAfter(from, s.start) THEN s.start ELSE from
    [] s.kind = "annual range" ->
         IF Matches(s, from) THEN from ELSE NextAnnual(s.start, from)

-----------------------------------------------------------------------------
(* A configuration, and the days going by. *)

VARIABLES
  specs,       \* cfg.Seasons, before CheckConflicts
  today

FirstDay == today \in {d \in Date : \A e \in Date : NotAfter(d, e)}

Tomorrow ==
  /\ \E d \in Date : ~NotAfter(d, today)
  /\ today' = CHOOSE d \in Date :
       /\ ~NotAfter(d, today)
       /\ \A e \in Date : ~NotAfter(e, today) => NotAfter(d, e)
  /\ UNCHANGED specs

Next == Tomorrow

-----------------------------------------------------------------------------
(* Properties *)

\* In a configuration that is accepted the winner outranks every other season
\* that matches: which of them wins does not depend on their order in the file.
WinnerOutranks ==
  LET winner == Match(today, specs) IN
    ~Conflicting(specs) =>
      \A i \in DOMAIN specs : Matches(specs[i], today) =>
        /\ winner # 0
        /\ i = winner \/ Priority(specs[winner].kind) < Priority(specs[i].kind)

\* A configuration is rejected only for a day two of its seasons share.
ConflictsAreReal ==
  Conflicting(specs) =>
    \E i, j \in DOMAIN specs :
      /\ i # j
      /\ \/ \E date \in Date : Matches(specs[i], date) /\ Matches(specs[j], date)
         \/ \E md \in MonthDay :
              /\ specs[i].kind = "annual range" /\ specs[j].kind = "annual range"
              /\ AnnualRangeContains(specs[i].start, specs[i].end, md)
              /\ AnnualRangeContains(specs[j].start, specs[j].end, md)

\* What `seasons` should list for a season: the first day from today on which
\* it matches.  (Days beyond the calendar are not looked at.)
FirstMatch(s, next) ==
  /\ next \in Date => Matches(s, next)
  /\ \A date \in Date :
       NotAfter(today, date) /\ Matches(s, date) => next # Never /\ NotAfter(next, date)

IsAnnual(s) == s.kind \in {"annual date", "annual range"}
InEveryYear(md) == md[2] <= DaysIn(FALSE, md[1])

\* `seasons` lists that day: a range that has begun comes next today, one that
\* wraps the year's end is found on both sides of it, a day gone by is next
\* year's.  Seasons that start on the leap day are excepted: NextAnnual gives the
\* day after it in a common year.
NextMatchIsFirst ==
  \A i \in DOMAIN specs :
    (IsAnnual(specs[i]) => InEveryYear(specs[i].start)) =>
      FirstMatch(specs[i], NextMatch(specs[i], today))
=============================================================================
