---------------------------- MODULE SeasonProofs ----------------------------
(***************************************************************************)
(* Proofs about Season and Config, for every calendar and every config     *)
(* file: the seasons that a day falls in and the one that wins, the        *)
(* conflict check, the next day of a season, the schedule of the daemon.   *)
(***************************************************************************)
EXTENDS Config, FiniteSetTheorems, SequenceTheorems, WellFoundedInduction, TLAPS

-----------------------------------------------------------------------------
(* The calendar's order *)

\* The least-number principle, for a set.
LEMMA LeastNat ==
  ASSUME NEW S \in SUBSET Nat, S # {}
  PROVE  \E n \in S : \A k \in S : n <= k
<1> DEFINE R == OpToRel(<, Nat)
<1>1. IsWellFoundedOn(R, Nat)
  BY NatLessThanWellFounded
<1>2. \A x, y \in Nat : <<y, x>> \in R <=> y < x
  BY DEF OpToRel
<1> HIDE DEF R
<1>3. PICK n \in S : \A k \in S : ~(<<k, n>> \in R)
  BY <1>1, WFMin
<1>4. \A k \in S : ~(k < n) /\ k \in Nat
  BY <1>2, <1>3
<1> QED
  BY <1>3, <1>4

\* A month-day is a pair of numbers,
LEMMA MonthDayForm ==
  ASSUME NEW md \in MonthDay
  PROVE  /\ md = <<md[1], md[2]>> /\ md[1] \in Month /\ md[1] \in Nat
         /\ md[2] \in Nat /\ 1 <= md[2] /\ md[2] <= DaysIn(TRUE, md[1])
<1>1. PICK m \in Month : \E d \in 1 .. DaysIn(TRUE, m) : md = <<m, d>>
  BY DEF MonthDay
<1>2. PICK d \in 1 .. DaysIn(TRUE, m) : md = <<m, d>>
  BY <1>1
<1>3. m \in Nat /\ Length[m] \in Nat
  BY SeasonAssumption, LenProperties, ElementOfSeq DEF Month
<1>4. d \in Nat /\ 1 <= d /\ d <= DaysIn(TRUE, m)
  BY <1>3 DEF DaysIn
<1> QED
  BY <1>2, <1>3, <1>4

\* and a date is a year and a month-day.
LEMMA DateForm ==
  ASSUME NEW date \in Date
  PROVE  /\ date = <<date[1], date[2], date[3]>> /\ Tail(date) = <<date[2], date[3]>>
         /\ date[1] \in Years /\ date[1] \in Nat /\ Tail(date) \in MonthDay
<1>1. PICK y \in Years, m \in Month : \E d \in 1 .. DaysIn(y \in LeapYears, m) : date = <<y, m, d>>
  BY DEF Date
<1>2. PICK d \in 1 .. DaysIn(y \in LeapYears, m) : date = <<y, m, d>>
  BY <1>1
<1>3. m \in Nat /\ Length[m] \in Nat
  BY SeasonAssumption, LenProperties, ElementOfSeq DEF Month
<1>4. d \in 1 .. DaysIn(TRUE, m)
  BY <1>3 DEF DaysIn
<1>5. <<m, d>> \in MonthDay
  <2>1. <<m, d>> \in {<<m, e>> : e \in 1 .. DaysIn(TRUE, m)}
    BY <1>4
  <2> QED
    BY <2>1, Zenon DEF MonthDay
<1>6. Tail(date) = <<m, d>>
  BY <1>2
<1>7. y \in Nat
  BY SeasonAssumption DEF Years
<1>8. date[1] = y /\ date[2] = m /\ date[3] = d
  BY <1>2
<1> QED
  BY <1>2, <1>5, <1>6, <1>7, <1>8

\* A month-day that every year has is a date of every year; one of a leap year
\* is a date of that year.
LEMMA InYear ==
  ASSUME NEW md \in MonthDay, NEW y \in Years, y \in LeapYears \/ InEveryYear(md)
  PROVE  <<y, md[1], md[2]>> \in Date /\ Tail(<<y, md[1], md[2]>>) = md
<1>1. /\ md = <<md[1], md[2]>> /\ md[1] \in Month
      /\ md[2] \in Nat /\ 1 <= md[2] /\ md[2] <= DaysIn(TRUE, md[1])
  BY MonthDayForm
<1>2. Length[md[1]] \in Nat
  BY <1>1, SeasonAssumption, LenProperties, ElementOfSeq DEF Month
<1>3. md[2] \in 1 .. DaysIn(y \in LeapYears, md[1])
  BY <1>1, <1>2 DEF DaysIn, InEveryYear
<1>4. <<y, md[1], md[2]>> \in Date
  <2>1. <<y, md[1], md[2]>> \in {<<y, md[1], d>> : d \in 1 .. DaysIn(y \in LeapYears, md[1])}
    BY <1>3
  <2> DEFINE Days(x, m) == {<<x, m, d>> : d \in 1 .. DaysIn(x \in LeapYears, m)}
  <2>2. Days(y, md[1]) \in {Days(x, m) : x \in Years, m \in Month}
    <3> HIDE DEF Days
    <3> QED
      BY <1>1
  <2>3. Date = UNION {Days(x, m) : x \in Years, m \in Month}
    BY DEF Date
  <2>4. <<y, md[1], md[2]>> \in Days(y, md[1])
    BY <2>1
  <2> HIDE DEF Days
  <2> QED
    BY <2>2, <2>3, <2>4
<1>5. Tail(<<y, md[1], md[2]>>) = <<md[1], md[2]>>
  OBVIOUS
<1> QED
  BY <1>1, <1>4, <1>5

\* cmpMD is a total order of the month-days,
LEMMA MonthDayOrder ==
  ASSUME NEW a \in MonthDay, NEW b \in MonthDay, NEW c \in MonthDay
  PROVE  /\ NotAfterMD(a, a)
         /\ NotAfterMD(a, b) \/ NotAfterMD(b, a)
         /\ NotAfterMD(a, b) /\ NotAfterMD(b, c) => NotAfterMD(a, c)
         /\ NotAfterMD(a, b) /\ NotAfterMD(b, a) => a = b
<1>1. \A md \in {a, b, c} : md = <<md[1], md[2]>> /\ md[1] \in Nat /\ md[2] \in Nat
  BY MonthDayForm
<1> QED
  BY <1>1 DEF NotAfterMD

\* and cmpYMD one of the dates.
LEMMA DateOrder ==
  ASSUME NEW a \in Date, NEW b \in Date, NEW c \in Date
  PROVE  /\ NotAfter(a, a)
         /\ NotAfter(a, b) \/ NotAfter(b, a)
         /\ NotAfter(a, b) /\ NotAfter(b, c) => NotAfter(a, c)
         /\ NotAfter(a, b) /\ NotAfter(b, a) => a = b
<1>1. \A d \in {a, b, c} : d = <<d[1], d[2], d[3]>> /\ Tail(d) = <<d[2], d[3]>> /\ d[1] \in Nat
  BY DateForm
<1>2. Tail(a) \in MonthDay /\ Tail(b) \in MonthDay /\ Tail(c) \in MonthDay
  BY DateForm
<1>3. NotAfter(a, a)
  BY <1>2, MonthDayOrder DEF NotAfter
<1>4. NotAfter(a, b) \/ NotAfter(b, a)
  <2>1. NotAfterMD(Tail(a), Tail(b)) \/ NotAfterMD(Tail(b), Tail(a))
    BY <1>2, MonthDayOrder
  <2> QED
    BY <1>1, <2>1 DEF NotAfter
<1>5. NotAfter(a, b) /\ NotAfter(b, c) => NotAfter(a, c)
  <2>1. NotAfterMD(Tail(a), Tail(b)) /\ NotAfterMD(Tail(b), Tail(c))
          => NotAfterMD(Tail(a), Tail(c))
    BY <1>2, MonthDayOrder
  <2> QED
    BY <1>1, <2>1 DEF NotAfter
<1>6. NotAfter(a, b) /\ NotAfter(b, a) => a = b
  <2>1. NotAfterMD(Tail(a), Tail(b)) /\ NotAfterMD(Tail(b), Tail(a)) => Tail(a) = Tail(b)
    BY <1>2, MonthDayOrder
  <2>2. NotAfter(a, b) /\ NotAfter(b, a) => a[1] = b[1] /\ Tail(a) = Tail(b)
    BY <1>1, <2>1 DEF NotAfter
  <2>3. Tail(a) = <<a[2], a[3]>> /\ Tail(b) = <<b[2], b[3]>>
    BY DateForm
  <2>4. <<a[2], a[3]>> = <<b[2], b[3]>> => a[2] = b[2] /\ a[3] = b[3]
    OBVIOUS
  <2> QED
    BY <1>1, <2>2, <2>3, <2>4
<1> QED
  BY <1>3, <1>4, <1>5, <1>6

-----------------------------------------------------------------------------
(* Loops *)

\* Induction up to a number, for a set.
LEMMA Upward ==
  ASSUME NEW n \in Nat, NEW S, 0 \in S, \A k \in 1 .. n : k - 1 \in S => k \in S
  PROVE  \A k \in 0 .. n : k \in S
<1> DEFINE missing == {k \in 0 .. n : k \notin S}
<1>1. SUFFICES ASSUME missing # {} PROVE FALSE
  OBVIOUS
<1>2. missing \in SUBSET Nat
  OBVIOUS
<1>3. PICK k \in missing : \A j \in missing : k <= j
  <2> HIDE DEF missing
  <2> QED
    BY <1>1, <1>2, LeastNat
<1>4. k \in 1 .. n /\ k - 1 \in 0 .. n /\ k - 1 \notin missing
  BY <1>2, <1>3
<1> QED
  BY <1>3, <1>4

\* The states of a loop, by the turns it has made, from base; what a turn makes
\* of a state is a function of the turn and the state.
LoopStates(n, T, base, turn, out) ==
  /\ out \in [0 .. n -> T] /\ out[0] = base
  /\ \A k \in 1 .. n : out[k] = turn[<<k, out[k - 1]>>]

\* There are such states, for any number of turns.
LEMMA LoopRuns ==
  ASSUME NEW T, NEW n \in Nat, NEW base \in T, NEW turn \in [(1 .. n) \X T -> T]
  PROVE  \E out : LoopStates(n, T, base, turn, out)
<1> DEFINE S == {k \in 0 .. n : \E out : LoopStates(k, T, base, turn, out)}
<1>1. 0 \in S
  <2>1. LoopStates(0, T, base, turn, [j \in 0 .. 0 |-> base])
    BY DEF LoopStates
  <2> QED
    BY <2>1
<1>2. ASSUME NEW k \in 1 .. n, k - 1 \in S
      PROVE  k \in S
  <2>1. PICK before : LoopStates(k - 1, T, base, turn, before)
    BY <1>2
  <2> DEFINE last == turn[<<k, before[k - 1]>>]
             out == [j \in 0 .. k |-> IF j = k THEN last ELSE before[j]]
  <2>2. before[k - 1] \in T /\ last \in T
    BY <2>1 DEF LoopStates
  <2>3. out \in [0 .. k -> T] /\ out[0] = base
    BY <2>1, <2>2 DEF LoopStates
  <2>4. ASSUME NEW j \in 1 .. k
        PROVE  out[j] = turn[<<j, out[j - 1]>>]
    <3>1. CASE j = k
      <4>1. out[j] = last /\ out[j - 1] = before[k - 1]
        BY <3>1
      <4> QED
        BY <3>1, <4>1
    <3>2. CASE j # k
      <4>1. j \in 1 .. k - 1 /\ out[j] = before[j] /\ out[j - 1] = before[j - 1]
        BY <3>2
      <4> HIDE DEF out
      <4> QED
        BY <2>1, <4>1 DEF LoopStates
    <3> QED
      BY <3>1, <3>2
  <2> HIDE DEF out
  <2>5. LoopStates(k, T, base, turn, out)
    BY <2>3, <2>4 DEF LoopStates
  <2>6. k \in 0 .. n
    OBVIOUS
  <2> QED
    BY <2>5, <2>6
<1>3. \A k \in 0 .. n : k \in S
  <2> HIDE DEF S
  <2> QED
    BY <1>1, <1>2, Upward
<1> QED
  BY <1>3

-----------------------------------------------------------------------------
(* The walk of annualRangeDays *)

\* The months of a leap year, and its month-days.
LeapDays(m) == Length[m] + (IF m = LeapMonth THEN 1 ELSE 0)

LEMMA LeapYearForm ==
  /\ Len(Length) \in Nat \ {0} /\ Month = 1 .. Len(Length)
  /\ \A m \in Month : LeapDays(m) \in Nat \ {0}
  /\ \A m \in Month : \A d \in 1 .. LeapDays(m) : <<m, d>> \in MonthDay
  /\ \A md \in MonthDay :
       md = <<md[1], md[2]>> /\ md[1] \in Month /\ md[2] \in 1 .. LeapDays(md[1])
  /\ YearEnd = <<Len(Length), LeapDays(Len(Length))>>
<1>1. Len(Length) \in Nat \ {0} /\ Month = 1 .. Len(Length)
  BY SeasonAssumption, LenProperties DEF Month
<1>2. ASSUME NEW m \in Month
      PROVE  LeapDays(m) \in Nat \ {0}
  <2>1. Length[m] \in Nat \ {0}
    BY <1>1, SeasonAssumption, ElementOfSeq
  <2> QED
    BY <2>1 DEF LeapDays
<1>3. \A m : DaysIn(TRUE, m) = LeapDays(m)
  BY DEF DaysIn, LeapDays
<1>4. ASSUME NEW m \in Month, NEW d \in 1 .. LeapDays(m)
      PROVE  <<m, d>> \in MonthDay
  <2>1. d \in 1 .. DaysIn(TRUE, m)
    BY <1>3
  <2>2. <<m, d>> \in {<<m, e>> : e \in 1 .. DaysIn(TRUE, m)}
    BY <2>1
  <2> QED
    BY <2>2, Zenon DEF MonthDay
<1>5. ASSUME NEW md \in MonthDay
      PROVE  md = <<md[1], md[2]>> /\ md[1] \in Month /\ md[2] \in 1 .. LeapDays(md[1])
  <2>1. PICK m \in Month : \E d \in 1 .. DaysIn(TRUE, m) : md = <<m, d>>
    BY DEF MonthDay
  <2>2. PICK d \in 1 .. LeapDays(m) : md = <<m, d>>
    BY <1>3, <2>1
  <2>3. md[1] = m /\ md[2] = d
    BY <2>2
  <2> QED
    BY <2>2, <2>3
<1>6. YearEnd = <<Len(Length), LeapDays(Len(Length))>>
  BY DEF YearEnd, DaysIn, LeapDays
<1> QED
  BY <1>1, <1>2, <1>4, <1>5, <1>6

\* A year has a number of days.
LEMMA YearIsFinite == IsFiniteSet(MonthDay)
<1> DEFINE Days(m) == {<<m, d>> : d \in 1 .. LeapDays(m)}
           months == {Days(m) : m \in Month}
           f == [m \in Month |-> Days(m)]
<1>1. ASSUME NEW m \in Month
      PROVE  IsFiniteSet(Days(m))
  <2> DEFINE g == [d \in 1 .. LeapDays(m) |-> <<m, d>>]
  <2>1. g \in Surjection(1 .. LeapDays(m), Days(m))
    BY DEF Surjection
  <2>2. LeapDays(m) \in Int
    BY LeapYearForm
  <2>3. IsFiniteSet(1 .. LeapDays(m))
    BY <2>2, FS_Interval
  <2> HIDE DEF g, Days
  <2> QED
    BY <2>1, <2>3, FS_Surjection
<1>2. IsFiniteSet(months)
  <2>1. f \in Surjection(Month, months)
    <3> HIDE DEF Days
    <3> QED
      BY DEF Surjection
  <2>2. Month = 1 .. Len(Length) /\ Len(Length) \in Int
    BY LeapYearForm
  <2>3. IsFiniteSet(Month)
    BY <2>2, FS_Interval
  <2> HIDE DEF f, months
  <2> QED
    BY <2>1, <2>3, FS_Surjection
<1>3. \A S \in months : IsFiniteSet(S)
  <2> HIDE DEF Days
  <2> QED
    BY <1>1
<1>4. MonthDay \subseteq UNION months
  <2>1. ASSUME NEW md \in MonthDay
        PROVE  md \in Days(md[1]) /\ md[1] \in Month
    BY LeapYearForm
  <2> HIDE DEF Days
  <2> QED
    BY <2>1
<1> HIDE DEF months
<1>5. IsFiniteSet(UNION months)
  BY <1>2, <1>3, FS_UNION
<1> QED
  BY <1>4, <1>5, FS_Subset

\* The day after the last of the year, where a walk may end.
Beyond == <<Len(Length) + 1, 1>>
Walked == MonthDay \cup {Beyond}

\* The order reaches it.
LEMMA WalkedOrder ==
  ASSUME NEW a \in Walked, NEW b \in Walked, NEW c \in Walked
  PROVE  /\ NotAfterMD(a, a)
         /\ NotAfterMD(a, b) \/ NotAfterMD(b, a)
         /\ NotAfterMD(a, b) /\ NotAfterMD(b, c) => NotAfterMD(a, c)
         /\ NotAfterMD(a, b) /\ NotAfterMD(b, a) => a = b
<1>1. ASSUME NEW md \in Walked
      PROVE  md = <<md[1], md[2]>> /\ md[1] \in Nat /\ md[2] \in Nat
  <2>1. CASE md \in MonthDay
    BY <2>1, MonthDayForm
  <2>2. CASE md = <<Len(Length) + 1, 1>>
    BY <2>2, LeapYearForm
  <2> QED
    BY <2>1, <2>2 DEF Walked, Beyond
<1>2. \A md \in {a, b, c} : md = <<md[1], md[2]>> /\ md[1] \in Nat /\ md[2] \in Nat
  BY <1>1
<1> QED
  BY <1>2 DEF NotAfterMD

LEMMA BeyondIsLast ==
  ASSUME NEW md \in MonthDay
  PROVE  ~NotAfterMD(Beyond, md)
<1>1. Len(Length) \in Nat /\ md[1] \in 1 .. Len(Length)
  BY LeapYearForm
<1> QED
  BY <1>1 DEF NotAfterMD, Beyond

\* NextDay is the least day that is after another.
LEMMA NextDayFollows ==
  ASSUME NEW md \in MonthDay
  PROVE  /\ NextDay(md) \in Walked /\ ~NotAfterMD(NextDay(md), md)
         /\ \A b \in MonthDay : NotAfterMD(b, md) \/ NotAfterMD(NextDay(md), b)
<1>1. /\ md = <<md[1], md[2]>> /\ md[1] \in Month /\ md[1] \in 1 .. Len(Length)
      /\ md[2] \in 1 .. LeapDays(md[1]) /\ Len(Length) \in Nat /\ LeapDays(md[1]) \in Nat
  BY LeapYearForm
<1>2. NextDay(md) = IF md[2] < LeapDays(md[1]) THEN <<md[1], md[2] + 1>> ELSE <<md[1] + 1, 1>>
  <2>1. DaysIn(TRUE, md[1]) = LeapDays(md[1])
    BY DEF DaysIn, LeapDays
  <2> QED
    BY <2>1, Zenon DEF NextDay
<1>3. \A b \in MonthDay : b[1] \in Nat /\ b[2] \in Nat /\ b[2] >= 1 /\ b[2] <= LeapDays(b[1])
  <2>1. \A b \in MonthDay : b[1] \in Month /\ b[2] \in 1 .. LeapDays(b[1]) /\ LeapDays(b[1]) \in Nat
    BY LeapYearForm
  <2>2. \A m \in Month : m \in Nat
    BY LeapYearForm
  <2> QED
    BY <2>1, <2>2
<1>4. CASE md[2] < LeapDays(md[1])
  <2>1. NextDay(md) = <<md[1], md[2] + 1>> /\ md[2] + 1 \in 1 .. LeapDays(md[1])
    BY <1>1, <1>2, <1>4
  <2>2. NextDay(md) \in MonthDay
    BY <1>1, <2>1, LeapYearForm
  <2> QED
    BY <1>1, <1>3, <2>1, <2>2 DEF NotAfterMD, Walked
<1>5. CASE md[2] = LeapDays(md[1])
  <2>1. NextDay(md) = <<md[1] + 1, 1>>
    BY <1>1, <1>2, <1>5
  <2>2. NextDay(md) \in Walked
    <3>1. CASE md[1] + 1 \in Month
      <4>1. 1 \in 1 .. LeapDays(md[1] + 1)
        BY <3>1, LeapYearForm
      <4> QED
        BY <2>1, <3>1, <4>1, LeapYearForm DEF Walked
    <3>2. CASE md[1] + 1 \notin Month
      <4>1. md[1] = Len(Length)
        BY <1>1, <3>2, LeapYearForm
      <4> QED
        BY <2>1, <4>1 DEF Walked, Beyond
    <3> QED
      BY <3>1, <3>2
  <2>3. ASSUME NEW b \in MonthDay
        PROVE  NotAfterMD(b, md) \/ NotAfterMD(NextDay(md), b)
    <3>1. b[1] \in Nat /\ b[2] \in Nat /\ b[2] >= 1 /\ b[2] <= LeapDays(b[1])
      BY <1>3
    <3>2. b[1] = md[1] => b[2] <= md[2]
      BY <1>5, <3>1
    <3> QED
      BY <1>1, <2>1, <3>1, <3>2 DEF NotAfterMD
  <2> QED
    BY <1>1, <2>1, <2>2, <2>3 DEF NotAfterMD
<1> QED
  BY <1>1, <1>4, <1>5

\* The states of the walk.
WalkLoop(from, to, t) ==
  t = [n \in 0 .. Cardinality(MonthDay) |->
         IF n = 0 THEN from
         ELSE IF NotAfterMD(t[n - 1], to) THEN NextDay(t[n - 1]) ELSE t[n - 1]]

\* They are defined, and the days they reach up to the last are the result.
LEMMA WalkRuns ==
  ASSUME NEW from \in MonthDay, NEW to \in MonthDay
  PROVE  \E t : /\ WalkLoop(from, to, t)
                /\ Walk(from, to) = {md \in {t[n] : n \in DOMAIN t} : NotAfterMD(md, to)}
<1> DEFINE N == Cardinality(MonthDay)
           turn == [p \in (1 .. N) \X Walked |->
                      IF NotAfterMD(p[2], to) THEN NextDay(p[2]) ELSE p[2]]
<1>1. N \in Nat
  BY YearIsFinite, FS_CardinalityType
<1>2. turn \in [(1 .. N) \X Walked -> Walked] /\ from \in Walked
  <2>1. ASSUME NEW md \in Walked, NotAfterMD(md, to)
        PROVE  NextDay(md) \in Walked
    BY <2>1, BeyondIsLast, NextDayFollows DEF Walked
  <2> QED
    BY <2>1 DEF Walked
<1> HIDE DEF turn
<1>3. PICK f : LoopStates(N, Walked, from, turn, f)
  <2> HIDE DEF N
  <2> QED
    BY <1>1, <1>2, LoopRuns
<1>4. ASSUME NEW k \in 0 .. N, k # 0
      PROVE  f[k] = IF NotAfterMD(f[k - 1], to) THEN NextDay(f[k - 1]) ELSE f[k - 1]
  <2>1. k \in 1 .. N /\ f[k - 1] \in Walked /\ f[k] = turn[<<k, f[k - 1]>>]
    <3> HIDE DEF N
    <3>1. k \in 1 .. N /\ k - 1 \in 0 .. N
      BY <1>1, <1>4
    <3> QED
      BY <1>3, <3>1 DEF LoopStates
  <2> QED
    BY <2>1 DEF turn
<1>5. WalkLoop(from, to, f)
  BY <1>1, <1>3, <1>4 DEF WalkLoop, LoopStates
<1> DEFINE t == CHOOSE g : WalkLoop(from, to, g)
<1>6. WalkLoop(from, to, t)
  BY <1>5
<1>7. Walk(from, to) = {md \in {t[n] : n \in DOMAIN t} : NotAfterMD(md, to)}
  BY DEF Walk, WalkLoop
<1> QED
  BY <1>6, <1>7

\* The walk visits the days from the one to the other, and no others: it ends.
LEMMA WalkForm ==
  ASSUME NEW from \in MonthDay, NEW to \in MonthDay
  PROVE  Walk(from, to) = {md \in MonthDay : NotAfterMD(from, md) /\ NotAfterMD(md, to)}
<1> DEFINE N == Cardinality(MonthDay)
<1>1. N \in Nat
  BY YearIsFinite, FS_CardinalityType
<1>2. PICK t : /\ WalkLoop(from, to, t)
               /\ Walk(from, to) = {md \in {t[n] : n \in DOMAIN t} : NotAfterMD(md, to)}
  BY WalkRuns
<1>3. /\ DOMAIN t = 0 .. N /\ t[0] = from
      /\ \A k \in 1 .. N : t[k] = IF NotAfterMD(t[k - 1], to) THEN NextDay(t[k - 1]) ELSE t[k - 1]
  <2> DEFINE turn(k) == IF NotAfterMD(t[k - 1], to) THEN NextDay(t[k - 1]) ELSE t[k - 1]
  <2>1. t = [k \in 0 .. N |-> IF k = 0 THEN from ELSE turn(k)]
    BY <1>2, Zenon DEF WalkLoop
  <2>2. 0 \in 0 .. N /\ \A k \in 1 .. N : k \in 0 .. N /\ k # 0
    BY <1>1
  <2> HIDE DEF N, turn
  <2>3. DOMAIN t = 0 .. N /\ t[0] = from /\ \A k \in 1 .. N : t[k] = turn(k)
    BY <2>1, <2>2
  <2> QED
    BY <2>3 DEF turn
<1> HIDE DEF N
<1>4. \A n \in 0 .. N : t[n] \in Walked /\ NotAfterMD(from, t[n])
  <2> DEFINE S == {n \in 0 .. N : t[n] \in Walked /\ NotAfterMD(from, t[n])}
  <2>1. 0 \in S
    BY <1>1, <1>3, WalkedOrder DEF Walked
  <2>2. ASSUME NEW k \in 1 .. N, k - 1 \in S
        PROVE  k \in S
    <3>1. k \in 0 .. N /\ t[k - 1] \in Walked /\ NotAfterMD(from, t[k - 1]) /\ from \in Walked
      BY <1>1, <2>2 DEF Walked
    <3>2. CASE NotAfterMD(t[k - 1], to)
      <4>1. t[k - 1] \in MonthDay /\ t[k] = NextDay(t[k - 1])
        BY <1>3, <3>1, <3>2, BeyondIsLast DEF Walked
      <4>2. NextDay(t[k - 1]) \in Walked /\ ~NotAfterMD(NextDay(t[k - 1]), t[k - 1])
        BY <4>1, NextDayFollows
      <4>3. NotAfterMD(from, NextDay(t[k - 1]))
        BY <3>1, <4>2, WalkedOrder
      <4> QED
        BY <3>1, <4>1, <4>2, <4>3
    <3>3. CASE ~NotAfterMD(t[k - 1], to)
      <4>1. t[k] = t[k - 1]
        BY <1>3, <3>3
      <4> QED
        BY <3>1, <4>1
    <3> QED
      BY <3>2, <3>3
  <2> HIDE DEF S
  <2>3. \A k \in 0 .. N : k \in S
    BY <1>1, <2>1, <2>2, Upward
  <2> QED
    BY <2>3 DEF S
<1>5. ASSUME NEW md \in Walk(from, to)
      PROVE  md \in MonthDay /\ NotAfterMD(from, md) /\ NotAfterMD(md, to)
  BY <1>2, <1>3, <1>4, BeyondIsLast DEF Walked
<1>6. ASSUME NEW md \in MonthDay, NotAfterMD(from, md), NotAfterMD(md, to)
      PROVE  md \in Walk(from, to)
  <2>1. SUFFICES ASSUME \A n \in 0 .. N : t[n] # md
                 PROVE  FALSE
    BY <1>2, <1>3, <1>6
  <2> DEFINE Before(n) == t[n] \in MonthDay /\ ~NotAfterMD(md, t[n])
  <2>2. ASSUME NEW a \in Walked, ~NotAfterMD(md, a)
        PROVE  a \in MonthDay /\ NotAfterMD(a, to)
    <3>1. NotAfterMD(a, md) /\ md \in Walked /\ to \in Walked
      BY <2>2, WalkedOrder DEF Walked
    <3> QED
      BY <1>6, <2>2, <3>1, WalkedOrder, BeyondIsLast DEF Walked
  <2>3. \A n \in 0 .. N : ~NotAfterMD(md, t[n])
    <3> DEFINE S == {n \in 0 .. N : ~NotAfterMD(md, t[n])}
    <3>1. 0 \in S
      BY <1>1, <1>3, <1>6, <2>1, MonthDayOrder
    <3>2. ASSUME NEW k \in 1 .. N, k - 1 \in S
          PROVE  k \in S
      <4>1. k \in 0 .. N /\ k - 1 \in 0 .. N /\ ~NotAfterMD(md, t[k - 1])
        BY <1>1, <3>2
      <4>2. t[k - 1] \in MonthDay /\ NotAfterMD(t[k - 1], to)
        BY <1>4, <2>2, <4>1
      <4>3. t[k] = NextDay(t[k - 1]) /\ t[k] \in Walked /\ t[k] # md
        BY <1>3, <1>4, <2>1, <4>1, <4>2
      <4>4. NotAfterMD(t[k], md)
        BY <4>1, <4>2, <4>3, NextDayFollows
      <4>5. ~NotAfterMD(md, t[k])
        BY <4>3, <4>4, WalkedOrder DEF Walked
      <4> QED
        BY <4>1, <4>5
    <3> HIDE DEF S
    <3>3. \A k \in 0 .. N : k \in S
      BY <1>1, <3>1, <3>2, Upward
    <3> QED
      BY <3>3 DEF S
  <2>4. \A n \in 0 .. N : t[n] \in MonthDay /\ NotAfterMD(t[n], to)
    BY <1>4, <2>2, <2>3
  <2>5. ASSUME NEW x \in 0 .. N, NEW y \in 0 .. N, x < y
        PROVE  t[x] # t[y]
    <3> DEFINE S == {n \in 0 .. N : x < n => ~NotAfterMD(t[n], t[x])}
    <3>1. 0 \in S
      BY <1>1
    <3>2. ASSUME NEW k \in 1 .. N, k - 1 \in S
          PROVE  k \in S
      <4>1. k \in 0 .. N /\ k - 1 \in 0 .. N /\ x \in Nat
        BY <1>1
      <4>2. t[k] = NextDay(t[k - 1]) /\ ~NotAfterMD(t[k], t[k - 1])
        BY <1>3, <2>4, <4>1, NextDayFollows
      <4>3. CASE x = k - 1
        BY <4>1, <4>2, <4>3
      <4>4. CASE x < k - 1
        <5>1. ~NotAfterMD(t[k - 1], t[x])
          BY <3>2, <4>4
        <5>2. t[k] \in MonthDay /\ t[k - 1] \in MonthDay /\ t[x] \in MonthDay
          BY <2>4, <4>1
        <5>3. ~NotAfterMD(t[k], t[x])
          BY <4>2, <5>1, <5>2, MonthDayOrder
        <5> QED
          BY <4>1, <5>3
      <4>5. CASE ~(x < k)
        BY <4>1, <4>5
      <4> QED
        BY <4>1, <4>3, <4>4, <4>5
    <3> HIDE DEF S
    <3>3. \A k \in 0 .. N : k \in S
      BY <1>1, <3>1, <3>2, Upward
    <3>4. ~NotAfterMD(t[y], t[x])
      BY <2>5, <3>3 DEF S
    <3> QED
      BY <2>4, <3>4, MonthDayOrder
  <2>6. PICK x, y \in 0 .. N : x # y /\ t[x] = t[y]
    <3> DEFINE s == [n \in 0 .. N |-> t[n]]
    <3>1. s \in [0 .. N -> MonthDay]
      BY <2>4
    <3>2. IsFiniteSet(0 .. N) /\ Cardinality(0 .. N) = N + 1
      BY <1>1, FS_Interval
    <3>3. Cardinality(MonthDay) < Cardinality(0 .. N)
      BY <1>1, <3>2 DEF N
    <3>4. PICK x, y \in 0 .. N : x # y /\ s[x] = s[y]
      <4> HIDE DEF s
      <4> QED
        BY <3>1, <3>2, <3>3, YearIsFinite, FS_PigeonHole
    <3> QED
      BY <3>4
  <2> QED
    BY <1>1, <2>5, <2>6
<1> QED
  BY <1>5, <1>6

\* The year that is walked through.
LEMMA YearEnds ==
  /\ YearEnd \in MonthDay /\ <<1, 1>> \in MonthDay
  /\ \A md \in MonthDay : NotAfterMD(<<1, 1>>, md) /\ NotAfterMD(md, YearEnd)
<1> DEFINE l == Len(Length)
<1>1. l \in Nat \ {0} /\ l \in Month /\ 1 \in Month /\ LeapDays(l) \in Nat \ {0} /\ YearEnd = <<l, LeapDays(l)>>
  BY LeapYearForm
<1>2. 1 \in 1 .. LeapDays(1) /\ LeapDays(l) \in 1 .. LeapDays(l)
  BY <1>1, LeapYearForm
<1>3. YearEnd \in MonthDay /\ <<1, 1>> \in MonthDay
  BY <1>1, <1>2, LeapYearForm
<1>4. ASSUME NEW md \in MonthDay
      PROVE  NotAfterMD(<<1, 1>>, md) /\ NotAfterMD(md, YearEnd)
  <2>1. md[1] \in 1 .. l /\ md[2] \in 1 .. LeapDays(md[1]) /\ LeapDays(md[1]) \in Nat
    BY LeapYearForm
  <2>2. md[1] = l => md[2] <= LeapDays(l)
    BY <2>1
  <2> HIDE DEF l
  <2> QED
    BY <1>1, <2>1, <2>2 DEF NotAfterMD
<1> QED
  BY <1>3, <1>4

\* It visits the month-days that matches tests for.
LEMMA RangeDays ==
  ASSUME NEW start \in MonthDay, NEW end \in MonthDay
  PROVE  AnnualRangeDays(start, end) = {md \in MonthDay : AnnualRangeContains(start, end, md)}
<1>1. CASE NotAfterMD(start, end)
  BY <1>1, WalkForm DEF AnnualRangeDays, AnnualRangeContains
<1>2. CASE ~NotAfterMD(start, end)
  <2>1. Walk(start, YearEnd) = {md \in MonthDay : NotAfterMD(start, md) /\ NotAfterMD(md, YearEnd)}
    BY YearEnds, WalkForm
  <2>2. Walk(<<1, 1>>, end) = {md \in MonthDay : NotAfterMD(<<1, 1>>, md) /\ NotAfterMD(md, end)}
    BY YearEnds, WalkForm
  <2>3. /\ Walk(start, YearEnd) = {md \in MonthDay : NotAfterMD(start, md)}
        /\ Walk(<<1, 1>>, end) = {md \in MonthDay : NotAfterMD(md, end)}
    BY <2>1, <2>2, YearEnds
  <2>4. AnnualRangeDays(start, end) = Walk(start, YearEnd) \cup Walk(<<1, 1>>, end)
    BY <1>2 DEF AnnualRangeDays
  <2> QED
    BY <1>2, <2>3, <2>4 DEF AnnualRangeContains
<1> QED
  BY <1>1, <1>2

-----------------------------------------------------------------------------
(* Seasons that share a day *)

\* What a season holds, by its kind.
LEMMA SeasonForm ==
  ASSUME NEW s \in Season
  PROVE  /\ s.kind \in Kind
         /\ s.kind = "specific date" => s.start \in Date
         /\ s.kind = "annual date" => s.start \in MonthDay
         /\ s.kind = "specific range" =>
              s.start \in Date /\ s.end \in Date /\ NotAfter(s.start, s.end)
         /\ s.kind = "annual range" => s.start \in MonthDay /\ s.end \in MonthDay
BY DEF Season, Kind

\* CheckConflicts finds every two seasons of a tier that share a day,
LEMMA SharedDayConflicts ==
  ASSUME NEW a \in Season, NEW b \in Season, a.kind = b.kind,
         NEW date \in Date, Matches(a, date), Matches(b, date)
  PROVE  Conflict(a, b)
<1>1. CASE a.kind \in {"specific date", "annual date"}
  BY <1>1 DEF Matches, Conflict
<1>2. CASE a.kind = "specific range"
  <2>1. /\ a.start \in Date /\ a.end \in Date /\ b.start \in Date /\ b.end \in Date
        /\ NotAfter(a.start, date) /\ NotAfter(date, a.end)
        /\ NotAfter(b.start, date) /\ NotAfter(date, b.end)
    BY <1>2, SeasonForm DEF Matches
  <2>2. NotAfter(b.start, a.end) /\ NotAfter(a.start, b.end)
    BY <2>1, DateOrder
  <2> QED
    BY <1>2, <2>2 DEF Conflict
<1>3. CASE a.kind = "annual range"
  <2>1. Tail(date) \in MonthDay
    BY DateForm
  <2>2. /\ AnnualRangeContains(a.start, a.end, Tail(date))
        /\ AnnualRangeContains(b.start, b.end, Tail(date))
    BY <1>3 DEF Matches
  <2>3. a.start \in MonthDay /\ a.end \in MonthDay /\ b.start \in MonthDay /\ b.end \in MonthDay
    BY <1>3, SeasonForm
  <2>4. AnnualRangeDays(a.start, a.end) \cap AnnualRangeDays(b.start, b.end) # {}
    BY <2>1, <2>2, <2>3, RangeDays
  <2> QED
    BY <1>3, <2>4 DEF Conflict
<1> QED
  BY <1>1, <1>2, <1>3, SeasonForm DEF Kind

\* The days two seasons share: dates, or month-days of two annual ranges.
ShareDay(a, b) ==
  \/ \E date \in Date : Matches(a, date) /\ Matches(b, date)
  \/ \E md \in MonthDay :
       /\ a.kind = "annual range" /\ b.kind = "annual range"
       /\ AnnualRangeContains(a.start, a.end, md)
       /\ AnnualRangeContains(b.start, b.end, md)

\* and nothing else, in a calendar that has a leap year.
LEMMA ConflictSharesDay ==
  ASSUME LeapYears # {}, NEW a \in Season, NEW b \in Season, Conflict(a, b)
  PROVE  ShareDay(a, b)
<1>0. a.kind = b.kind
  BY DEF Conflict
<1>1. CASE a.kind = "specific date"
  <2>1. a.start \in Date /\ b.start = a.start
    BY <1>1, SeasonForm DEF Conflict
  <2>2. Matches(a, a.start) /\ Matches(b, a.start)
    BY <1>0, <1>1, <2>1 DEF Matches
  <2> QED
    BY <2>1, <2>2 DEF ShareDay
<1>2. CASE a.kind = "annual date"
  <2>1. a.start \in MonthDay /\ b.start = a.start
    BY <1>2, SeasonForm DEF Conflict
  <2>2. PICK y \in LeapYears : y \in Years
    BY SeasonAssumption DEF Years
  <2> DEFINE date == <<y, a.start[1], a.start[2]>>
  <2>3. date \in Date /\ Tail(date) = a.start
    BY <2>1, <2>2, InYear
  <2> HIDE DEF date
  <2>4. Matches(a, date) /\ Matches(b, date)
    BY <1>0, <1>2, <2>1, <2>3 DEF Matches
  <2> QED
    BY <2>3, <2>4 DEF ShareDay
<1>3. CASE a.kind = "specific range"
  <2>1. /\ a.start \in Date /\ a.end \in Date /\ NotAfter(a.start, a.end)
        /\ b.start \in Date /\ b.end \in Date /\ NotAfter(b.start, b.end)
        /\ NotAfter(b.start, a.end) /\ NotAfter(a.start, b.end)
    BY <1>0, <1>3, SeasonForm DEF Conflict
  <2>2. NotAfter(a.start, a.start) /\ NotAfter(b.start, b.start)
    BY <2>1, DateOrder
  <2>3. CASE NotAfter(a.start, b.start)
    <3>1. Matches(a, b.start) /\ Matches(b, b.start)
      BY <1>0, <1>3, <2>1, <2>2, <2>3 DEF Matches
    <3> QED
      BY <2>1, <3>1 DEF ShareDay
  <2>4. CASE NotAfter(b.start, a.start)
    <3>1. Matches(a, a.start) /\ Matches(b, a.start)
      BY <1>0, <1>3, <2>1, <2>2, <2>4 DEF Matches
    <3> QED
      BY <2>1, <3>1 DEF ShareDay
  <2> QED
    BY <2>1, <2>3, <2>4, DateOrder
<1>4. CASE a.kind = "annual range"
  <2>1. AnnualRangeDays(a.start, a.end) \cap AnnualRangeDays(b.start, b.end) # {}
    BY <1>4 DEF Conflict
  <2>2. a.start \in MonthDay /\ a.end \in MonthDay /\ b.start \in MonthDay /\ b.end \in MonthDay
    BY <1>0, <1>4, SeasonForm
  <2> QED
    BY <1>0, <1>4, <2>1, <2>2, RangeDays DEF ShareDay
<1> QED
  BY <1>1, <1>2, <1>3, <1>4, SeasonForm DEF Kind

-----------------------------------------------------------------------------
(* The season that wins *)

\* Each kind is a tier of its own.
LEMMA Tiers ==
  ASSUME NEW k \in Kind, NEW l \in Kind
  PROVE  Priority(k) \in Nat /\ (Priority(k) = Priority(l) => k = l)
<1>1. \A h \in Kind :
        \/ (h = "specific date" /\ Priority(h) = 1)
        \/ (h = "annual date" /\ Priority(h) = 2)
        \/ (h = "specific range" /\ Priority(h) = 3)
        \/ (h = "annual range" /\ Priority(h) = 4)
  BY Zenon DEF Priority, Kind
<1>2. \A h \in Kind : Priority(h) \in {1, 2, 3, 4}
  BY <1>1, Zenon
<1>3. \A h \in Kind : Priority(h) = 1 => h = "specific date"
  <2>1. 1 # 2 /\ 1 # 3 /\ 1 # 4
    OBVIOUS
  <2> QED
    BY <1>1, <2>1, Zenon
<1>4. \A h \in Kind : Priority(h) = 2 => h = "annual date"
  <2>1. 2 # 1 /\ 2 # 3 /\ 2 # 4
    OBVIOUS
  <2> QED
    BY <1>1, <2>1, Zenon
<1>5. \A h \in Kind : Priority(h) = 3 => h = "specific range"
  <2>1. 3 # 1 /\ 3 # 2 /\ 3 # 4
    OBVIOUS
  <2> QED
    BY <1>1, <2>1, Zenon
<1>6. \A h \in Kind : Priority(h) = 4 => h = "annual range"
  <2>1. 4 # 1 /\ 4 # 2 /\ 4 # 3
    OBVIOUS
  <2> QED
    BY <1>1, <2>1, Zenon
<1>7. Priority(k) = Priority(l) => k = l
  <2>1. CASE Priority(k) = 1
    BY <1>3, <2>1, Zenon
  <2>2. CASE Priority(k) = 2
    BY <1>4, <2>2, Zenon
  <2>3. CASE Priority(k) = 3
    BY <1>5, <2>3, Zenon
  <2>4. CASE Priority(k) = 4
    BY <1>6, <2>4, Zenon
  <2> QED
    BY <1>2, <2>1, <2>2, <2>3, <2>4, Zenon
<1>8. {1, 2, 3, 4} \subseteq Nat
  OBVIOUS
<1>9. Priority(k) \in Nat
  BY <1>2, <1>8, Zenon
<1> QED
  BY <1>7, <1>9

\* Match returns one that matches, of the best tier and first in it.
LEMMA MatchBest ==
  ASSUME NEW seasons \in Seq(Season), NEW date,
         NEW i \in DOMAIN seasons, Matches(seasons[i], date)
  PROVE  LET w == Match(date, seasons) IN
           /\ w \in DOMAIN seasons /\ Matches(seasons[w], date)
           /\ \A j \in DOMAIN seasons : Matches(seasons[j], date) =>
                \/ Priority(seasons[w].kind) < Priority(seasons[j].kind)
                \/ Priority(seasons[w].kind) = Priority(seasons[j].kind) /\ w <= j
<1> DEFINE matching == {j \in DOMAIN seasons : Matches(seasons[j], date)}
           before(h, j) == \/ Priority(seasons[h].kind) < Priority(seasons[j].kind)
                           \/ Priority(seasons[h].kind) = Priority(seasons[j].kind) /\ h <= j
           tiers == {Priority(seasons[j].kind) : j \in matching}
<1>1. \A j \in matching : j \in Nat /\ Priority(seasons[j].kind) \in Nat
  <2> SUFFICES ASSUME NEW j \in DOMAIN seasons PROVE j \in Nat /\ Priority(seasons[j].kind) \in Nat
    OBVIOUS
  <2>1. j \in Nat /\ seasons[j] \in Season
    BY LenProperties, ElementOfSeq
  <2> QED
    BY <2>1, SeasonForm, Tiers
<1>2. PICK t \in tiers : \A u \in tiers : t <= u
  BY <1>1, LeastNat
<1> DEFINE best == {j \in matching : Priority(seasons[j].kind) = t}
<1>3. PICK w \in best : \A j \in best : w <= j
  BY <1>1, LeastNat
<1>4. w \in matching /\ \A j \in matching : before(w, j)
  <2>1. w \in matching /\ Priority(seasons[w].kind) = t
    OBVIOUS
  <2>2. ASSUME NEW j \in matching
        PROVE  before(w, j)
    <3>1. Priority(seasons[j].kind) \in Nat /\ t \in Nat /\ t <= Priority(seasons[j].kind)
      BY <1>1, <1>2
    <3>2. CASE Priority(seasons[j].kind) = t
      BY <1>3, <2>1, <3>2
    <3>3. CASE t < Priority(seasons[j].kind)
      BY <2>1, <3>3
    <3> QED
      BY <3>1, <3>2, <3>3
  <2> QED
    BY <2>1, <2>2
<1>5. Match(date, seasons) = CHOOSE h \in matching : \A j \in matching : before(h, j)
  BY DEF Match
<1> HIDE DEF matching, before
<1>6. LET h == Match(date, seasons) IN h \in matching /\ \A j \in matching : before(h, j)
  BY <1>4, <1>5
<1> QED
  BY <1>6 DEF matching, before

\* In a list without conflicts the one that wins outranks the others.
LEMMA NoConflictNoTie ==
  ASSUME NEW seasons \in Seq(Season), ~Conflicting(seasons), NEW date \in Date,
         NEW i \in DOMAIN seasons, Matches(seasons[i], date)
  PROVE  LET w == Match(date, seasons) IN
           /\ w # 0
           /\ i = w \/ Priority(seasons[w].kind) < Priority(seasons[i].kind)
<1> DEFINE w == Match(date, seasons)
<1>1. /\ w \in DOMAIN seasons /\ Matches(seasons[w], date)
      /\ \/ Priority(seasons[w].kind) < Priority(seasons[i].kind)
         \/ Priority(seasons[w].kind) = Priority(seasons[i].kind) /\ w <= i
  BY MatchBest
<1> HIDE DEF w
<1>2. w \in Nat /\ w # 0 /\ i \in Nat /\ seasons[w] \in Season /\ seasons[i] \in Season
  BY <1>1, LenProperties, ElementOfSeq
<1>3. ASSUME Priority(seasons[w].kind) = Priority(seasons[i].kind), w < i
      PROVE  FALSE
  <2>1. seasons[w].kind = seasons[i].kind
    BY <1>2, <1>3, SeasonForm, Tiers
  <2>2. Conflict(seasons[w], seasons[i])
    BY <1>1, <1>2, <2>1, SharedDayConflicts
  <2> QED
    BY <1>1, <1>3, <2>2 DEF Conflicting
<1>4. w # 0 /\ (i = w \/ Priority(seasons[w].kind) < Priority(seasons[i].kind))
  BY <1>1, <1>2, <1>3
<1> QED
  BY <1>4 DEF w

-----------------------------------------------------------------------------
(* The next day of a season *)

\* The year after one that is before another is not after it.
LEMMA Successor ==
  ASSUME NEW x \in Nat, NEW y \in Nat, x < y
  PROVE  x + 1 < y \/ x + 1 = y
OBVIOUS

\* A year put before a month-day.
LEMMA YearFirst ==
  ASSUME NEW y \in Nat, NEW m \in Nat, NEW d \in Nat
  PROVE  <<y>> \o <<m, d>> = <<y, m, d>>
<1> DEFINE s == <<y>>
           p == <<m, d>>
           r == <<y, m, d>>
<1>1. s \in Seq(Nat) /\ Len(s) = 1 /\ s[1] = y
  OBVIOUS
<1>2. p \in Seq(Nat) /\ Len(p) = 2 /\ p[1] = m /\ p[2] = d
  OBVIOUS
<1>3. r \in Seq(Nat) /\ Len(r) = 3 /\ r[1] = y /\ r[2] = m /\ r[3] = d
  OBVIOUS
<1> HIDE DEF s, p, r
<1>4. /\ s \o p \in Seq(Nat) /\ Len(s \o p) = Len(s) + Len(p)
      /\ \A i \in 1 .. Len(s) + Len(p) : (s \o p)[i] = IF i <= Len(s) THEN s[i] ELSE p[i - Len(s)]
  BY <1>1, <1>2, ConcatProperties, Zenon
<1>5. \A i \in 1 .. 3 : (s \o p)[i] = r[i]
  BY <1>1, <1>2, <1>3, <1>4
<1>6. Len(s \o p) = 3
  BY <1>1, <1>2, <1>4
<1>7. s \o p = r
  BY <1>3, <1>4, <1>5, <1>6, SeqEqual
<1> QED
  BY <1>7 DEF s, p, r

\* NextAnnual is in this year if the month-day is still to come, and otherwise
\* in the next, for a month-day that every year has.
LEMMA NextAnnualForm ==
  ASSUME NEW md \in MonthDay, InEveryYear(md), NEW from \in Date
  PROVE  LET next == NextAnnual(md, from) IN
           /\ Tail(next) = md /\ next # Never
           /\ \/ NotAfterMD(Tail(from), md) /\ next[1] = from[1]
              \/ ~NotAfterMD(Tail(from), md) /\ next[1] = from[1] + 1
<1>1. /\ md = <<md[1], md[2]>> /\ md[1] \in Month /\ md[1] \in Nat /\ md[2] \in Nat
  BY MonthDayForm
<1>2. Length[md[1]] \in Nat
  BY <1>1, SeasonAssumption, LenProperties, ElementOfSeq DEF Month
<1>3. \A y \in Nat : MkDate(y, md) = <<y, md[1], md[2]>>
  <2> SUFFICES ASSUME NEW y \in Nat PROVE MkDate(y, md) = <<y, md[1], md[2]>>
    OBVIOUS
  <2>1. md[2] <= DaysIn(y \in LeapYears, md[1])
    BY <1>1, <1>2 DEF DaysIn, InEveryYear
  <2>2. MkDate(y, md) = <<y>> \o md
    BY <2>1 DEF MkDate
  <2> QED
    BY <1>1, <2>2, YearFirst
<1>4. \A y \in Nat : /\ MkDate(y, md)[1] = y /\ Tail(MkDate(y, md)) = md
                     /\ MkDate(y, md) # Never
  <2> SUFFICES ASSUME NEW y \in Nat
               PROVE  /\ MkDate(y, md)[1] = y /\ Tail(MkDate(y, md)) = md
                      /\ MkDate(y, md) # Never
    OBVIOUS
  <2>1. <<y, md[1], md[2]>>[1] = y /\ Tail(<<y, md[1], md[2]>>) = <<md[1], md[2]>>
    OBVIOUS
  <2>2. <<y, md[1], md[2]>> # <<>>
    OBVIOUS
  <2> QED
    BY <1>1, <1>3, <2>1, <2>2, Zenon DEF Never
<1>5. from[1] \in Nat /\ from[1] + 1 \in Nat
  BY DateForm
<1>6. NotAfter(from, MkDate(from[1], md)) <=> NotAfterMD(Tail(from), md)
  <2> DEFINE this == MkDate(from[1], md)
  <2>1. this[1] = from[1] /\ Tail(this) = md
    BY <1>4, <1>5
  <2> HIDE DEF this
  <2>2. ~(from[1] < this[1])
    BY <1>5, <2>1
  <2>3. NotAfter(from, this) <=> NotAfterMD(Tail(from), md)
    BY <2>1, <2>2, Zenon DEF NotAfter
  <2> QED
    BY <2>3 DEF this
<1> QED
  BY <1>4, <1>5, <1>6 DEF NextAnnual

\* No date is Never.
LEMMA NeverIsNoDate == Never \notin Date
<1> SUFFICES ASSUME Never \in Date PROVE FALSE
  OBVIOUS
<1>1. Never = <<Never[1], Never[2], Never[3]>>
  BY DateForm
<1> QED
  BY <1>1 DEF Never

\* FirstMatch, from any day.
FirstMatchFrom(from, s, next) ==
  /\ next \in Date => Matches(s, next)
  /\ \A date \in Date : NotAfter(from, date) /\ Matches(s, date) => next # Never /\ NotAfter(next, date)

\* NextMatch of a season without an annual range,
LEMMA NextOfDate ==
  ASSUME NEW s \in Season, NEW from \in Date, s.kind = "annual date", InEveryYear(s.start)
  PROVE  FirstMatchFrom(from, s, NextMatch(s, from))
<1> DEFINE next == NextMatch(s, from)
<1>0. s.start \in MonthDay /\ next = NextAnnual(s.start, from)
  BY SeasonForm DEF NextMatch
<1>1. /\ Tail(next) = s.start /\ next # Never
      /\ \/ NotAfterMD(Tail(from), s.start) /\ next[1] = from[1]
         \/ ~NotAfterMD(Tail(from), s.start) /\ next[1] = from[1] + 1
  BY <1>0, NextAnnualForm, Zenon
<1> HIDE DEF next
<1>2. Matches(s, next)
  BY <1>1 DEF Matches
<1>3. ASSUME NEW date \in Date, NotAfter(from, date), Matches(s, date)
      PROVE  NotAfter(next, date)
  <2>1. Tail(date) = s.start
    BY <1>3 DEF Matches
  <2>2. from[1] \in Nat /\ date[1] \in Nat
    BY DateForm
  <2>3. NotAfterMD(s.start, s.start)
    BY <1>0, MonthDayOrder
  <2>4. from[1] < date[1] \/ (from[1] = date[1] /\ NotAfterMD(Tail(from), s.start))
    BY <1>3, <2>1, Zenon DEF NotAfter
  <2>5. next[1] < date[1] \/ next[1] = date[1]
    <3>1. CASE NotAfterMD(Tail(from), s.start) /\ next[1] = from[1]
      BY <2>4, <3>1
    <3>2. CASE ~NotAfterMD(Tail(from), s.start) /\ next[1] = from[1] + 1
      <4>1. from[1] < date[1]
        BY <2>4, <3>2, Zenon
      <4>2. next[1] = from[1] + 1
        BY <3>2
      <4> QED
        BY <2>2, <4>1, <4>2, Successor, Zenon
    <3> QED
      BY <1>1, <3>1, <3>2, Zenon
  <2> QED
    BY <1>1, <2>1, <2>3, <2>5, Zenon DEF NotAfter
<1>4. FirstMatchFrom(from, s, next)
  BY <1>1, <1>2, <1>3 DEF FirstMatchFrom
<1> QED
  BY <1>4 DEF next

\* that of a day and of a range of one year,
LEMMA NextOfSpecific ==
  ASSUME NEW s \in Season, NEW from \in Date, s.kind \in {"specific date", "specific range"}
  PROVE  FirstMatchFrom(from, s, NextMatch(s, from))
<1> DEFINE last == IF s.kind = "specific date" THEN s.start ELSE s.end
           next == NextMatch(s, from)
<1>1. s.start \in Date /\ last \in Date /\ NotAfter(s.start, last)
  BY SeasonForm, DateOrder
<1>2. \A date \in Date : Matches(s, date) <=> NotAfter(s.start, date) /\ NotAfter(date, last)
  <2>1. CASE s.kind = "specific date"
    BY <1>1, <2>1, DateOrder DEF Matches
  <2>2. CASE s.kind = "specific range"
    BY <2>2 DEF Matches
  <2> QED
    BY <2>1, <2>2
<1>3. \/ ~NotAfter(from, last) /\ next = Never
      \/ NotAfter(from, s.start) /\ next = s.start
      \/ NotAfter(s.start, from) /\ NotAfter(from, last) /\ next = from
  <2>1. CASE s.kind = "specific date"
    BY <2>1 DEF NextMatch
  <2>2. CASE s.kind = "specific range"
    BY <1>1, <2>2, DateOrder DEF NextMatch
  <2> QED
    BY <2>1, <2>2
<1> HIDE DEF last, next
<1>4. ASSUME ~NotAfter(from, last) /\ next = Never
      PROVE  FirstMatchFrom(from, s, next)
  <2>1. \A date \in Date : ~(NotAfter(from, date) /\ Matches(s, date))
    BY <1>1, <1>2, <1>4, DateOrder
  <2> QED
    BY <1>4, <2>1, NeverIsNoDate DEF FirstMatchFrom
<1>5. ASSUME NotAfter(from, s.start) /\ next = s.start
      PROVE  FirstMatchFrom(from, s, next)
  <2>1. Matches(s, next)
    BY <1>1, <1>2, <1>5, DateOrder
  <2>2. \A date \in Date : Matches(s, date) => NotAfter(next, date)
    BY <1>2, <1>5
  <2> QED
    BY <1>1, <1>5, <2>1, <2>2, NeverIsNoDate DEF FirstMatchFrom
<1>6. ASSUME NotAfter(s.start, from) /\ NotAfter(from, last) /\ next = from
      PROVE  FirstMatchFrom(from, s, next)
  <2>1. Matches(s, next)
    BY <1>2, <1>6
  <2> QED
    BY <1>6, <2>1, NeverIsNoDate DEF FirstMatchFrom
<1> QED
  BY <1>3, <1>4, <1>5, <1>6 DEF next

\* and that of an annual range, which may wrap the year's end.
LEMMA NextOfRange ==
  ASSUME NEW s \in Season, NEW from \in Date, s.kind = "annual range", InEveryYear(s.start)
  PROVE  FirstMatchFrom(from, s, NextMatch(s, from))
<1> DEFINE next == NextMatch(s, from)
<1>0. s.start \in MonthDay /\ s.end \in MonthDay
  BY SeasonForm
<1>1. CASE Matches(s, from)
  <2>1. next = from
    BY <1>1 DEF NextMatch
  <2> HIDE DEF next
  <2>2. FirstMatchFrom(from, s, next)
    BY <1>1, <2>1, NeverIsNoDate DEF FirstMatchFrom
  <2> QED
    BY <2>2 DEF next
<1>2. CASE ~Matches(s, from)
  <2>1. next = NextAnnual(s.start, from)
    BY <1>2 DEF NextMatch
  <2>2. /\ Tail(next) = s.start /\ next # Never
        /\ \/ NotAfterMD(Tail(from), s.start) /\ next[1] = from[1]
           \/ ~NotAfterMD(Tail(from), s.start) /\ next[1] = from[1] + 1
    BY <1>0, <2>1, NextAnnualForm, Zenon
  <2> HIDE DEF next
  <2>3. AnnualRangeContains(s.start, s.end, s.start)
    BY <1>0, MonthDayOrder DEF AnnualRangeContains
  <2>4. Matches(s, next)
    BY <2>2, <2>3 DEF Matches
  <2>5. ASSUME NEW date \in Date, NotAfter(from, date), Matches(s, date)
        PROVE  NotAfter(next, date)
    <3>1. AnnualRangeContains(s.start, s.end, Tail(date))
      BY <2>5 DEF Matches
    <3>2. ~AnnualRangeContains(s.start, s.end, Tail(from))
      BY <1>2 DEF Matches
    <3>3. from[1] \in Nat /\ date[1] \in Nat /\ Tail(from) \in MonthDay /\ Tail(date) \in MonthDay
      BY DateForm
    <3>4. from[1] < date[1] \/ (from[1] = date[1] /\ NotAfterMD(Tail(from), Tail(date)))
      BY <2>5, Zenon DEF NotAfter
    \* In from's own year the range is entered at its start.
    <3>5. NotAfterMD(Tail(from), Tail(date)) =>
            NotAfterMD(Tail(from), s.start) /\ NotAfterMD(s.start, Tail(date))
      BY <1>0, <3>1, <3>2, <3>3, MonthDayOrder DEF AnnualRangeContains
    <3>6. CASE NotAfterMD(Tail(from), s.start) /\ next[1] = from[1]
      BY <2>2, <3>4, <3>5, <3>6, Zenon DEF NotAfter
    \* Past the start and not in the range: the range does not wrap.
    <3>7. CASE ~NotAfterMD(Tail(from), s.start) /\ next[1] = from[1] + 1
      <4>1. from[1] < date[1]
        BY <3>4, <3>5, <3>7, Zenon
      <4>2. next[1] = from[1] + 1
        BY <3>7
      <4>3. next[1] < date[1] \/ next[1] = date[1]
        BY <3>3, <4>1, <4>2, Successor, Zenon
      <4>4. NotAfterMD(s.start, Tail(date))
        BY <1>0, <3>1, <3>2, <3>3, <3>7, MonthDayOrder DEF AnnualRangeContains
      <4> QED
        BY <2>2, <4>3, <4>4, Zenon DEF NotAfter
    <3> QED
      BY <2>2, <3>6, <3>7, Zenon
  <2>6. FirstMatchFrom(from, s, next)
    BY <2>2, <2>4, <2>5 DEF FirstMatchFrom
  <2> QED
    BY <2>6 DEF next
<1> QED
  BY <1>1, <1>2

-----------------------------------------------------------------------------
(* A season's days *)

\* Every season has a day, in a calendar that has a leap year.
LEMMA SeasonHasDay ==
  ASSUME LeapYears # {}, NEW s \in Season
  PROVE  \E date \in Date : Matches(s, date)
<1>1. CASE s.kind \in {"specific date", "specific range"}
  <2>1. s.start \in Date /\ Matches(s, s.start)
    BY <1>1, SeasonForm, DateOrder DEF Matches
  <2> QED
    BY <2>1
<1>2. CASE s.kind \in {"annual date", "annual range"}
  <2>1. s.start \in MonthDay
    BY <1>2, SeasonForm
  <2>2. PICK y \in LeapYears : y \in Years
    BY SeasonAssumption DEF Years
  <2> DEFINE date == <<y, s.start[1], s.start[2]>>
  <2>3. date \in Date /\ Tail(date) = s.start
    BY <2>1, <2>2, InYear
  <2> HIDE DEF date
  <2>4. Matches(s, date)
    BY <1>2, <2>1, <2>3, SeasonForm, MonthDayOrder DEF Matches, AnnualRangeContains
  <2> QED
    BY <2>3, <2>4
<1> QED
  BY <1>1, <1>2, SeasonForm DEF Kind

\* The first of some dates.
LEMMA LeastDate ==
  ASSUME NEW S \in SUBSET Date, S # {}
  PROVE  \E d \in S : \A e \in S : NotAfter(d, e)
<1>1. \A d \in S : /\ d[1] \in Nat /\ d[2] \in Nat /\ d[3] \in Nat
                   /\ Tail(d)[1] = d[2] /\ Tail(d)[2] = d[3]
  <2> SUFFICES ASSUME NEW d \in S
               PROVE  /\ d[1] \in Nat /\ d[2] \in Nat /\ d[3] \in Nat
                      /\ Tail(d)[1] = d[2] /\ Tail(d)[2] = d[3]
    OBVIOUS
  <2>1. Tail(d) = <<d[2], d[3]>> /\ d[1] \in Nat /\ Tail(d) \in MonthDay
    BY DateForm
  <2>2. Tail(d)[1] \in Nat /\ Tail(d)[2] \in Nat
    BY <2>1, MonthDayForm
  <2>3. <<d[2], d[3]>>[1] = d[2] /\ <<d[2], d[3]>>[2] = d[3]
    OBVIOUS
  <2> QED
    BY <2>1, <2>2, <2>3, Zenon
<1> DEFINE years == {d[1] : d \in S}
<1>2. PICK y \in years : \A k \in years : y <= k
  <2>1. years \in SUBSET Nat /\ years # {}
    BY <1>1
  <2> QED
    BY <2>1, LeastNat, Zenon
<1> DEFINE ofYear == {d \in S : d[1] = y}
           months == {d[2] : d \in ofYear}
<1>3. PICK m \in months : \A k \in months : m <= k
  <2>1. months \in SUBSET Nat /\ months # {}
    BY <1>1
  <2> QED
    BY <2>1, LeastNat, Zenon
<1> DEFINE ofMonth == {d \in ofYear : d[2] = m}
           days == {d[3] : d \in ofMonth}
<1>4. PICK n \in days : \A k \in days : n <= k
  <2>1. days \in SUBSET Nat /\ days # {}
    BY <1>1
  <2> QED
    BY <2>1, LeastNat, Zenon
<1>5. PICK d \in S : d[1] = y /\ d[2] = m /\ d[3] = n
  OBVIOUS
<1>6. ASSUME NEW e \in S
      PROVE  NotAfter(d, e)
  <2>1. y <= e[1] /\ y \in Nat /\ m \in Nat /\ n \in Nat
    BY <1>1, <1>2, <1>5
  <2>2. e[1] = y => m <= e[2]
    BY <1>3
  <2>3. e[1] = y /\ e[2] = m => n <= e[3]
    BY <1>4
  <2> HIDE DEF years, months, days, ofYear, ofMonth
  <2>4. \/ d[1] < e[1]
        \/ d[1] = e[1] /\ d[2] < e[2]
        \/ d[1] = e[1] /\ d[2] = e[2] /\ d[3] <= e[3]
    BY <1>1, <1>5, <2>1, <2>2, <2>3
  <2> QED
    BY <1>1, <2>4 DEF NotAfter, NotAfterMD
<1> QED
  BY <1>6

\* A season that parses is one, and so are the seasons of a file.
LEMMA ParseIsSeason ==
  ASSUME NEW r
  PROVE  Parse(r) \subseteq Season
<1>1. \A date : ParseDate(date) \subseteq Season
  <2> SUFFICES ASSUME NEW date PROVE ParseDate(date) \subseteq Season
    OBVIOUS
  <2>1. CASE date \in MonthDay
    <3>1. [kind |-> "annual date", start |-> date] \in Season
      BY <2>1 DEF Season
    <3> QED
      BY <2>1, <3>1, Zenon DEF ParseDate
  <2>2. CASE date \in Date
    <3>1. [kind |-> "specific date", start |-> date] \in Season
      BY <2>2 DEF Season
    <3> QED
      BY <2>1, <2>2, <3>1, Zenon DEF ParseDate
  <2> QED
    BY <2>1, <2>2, Zenon DEF ParseDate
<1>2. \A start, end : ParseRange(start, end) \subseteq Season
  <2> SUFFICES ASSUME NEW start, NEW end PROVE ParseRange(start, end) \subseteq Season
    OBVIOUS
  <2>1. CASE start \in MonthDay /\ end \in MonthDay
    <3>1. [kind |-> "annual range", start |-> start, end |-> end] \in Season
      BY <2>1 DEF Season
    <3> QED
      BY <2>1, <3>1, Zenon DEF ParseRange
  <2>2. CASE start \in Date /\ end \in Date /\ NotAfter(start, end)
    <3>1. [kind |-> "specific range", start |-> start, end |-> end] \in Season
      BY <2>2 DEF Season
    <3> QED
      BY <2>1, <2>2, <3>1, Zenon DEF ParseRange
  <2> QED
    BY <2>1, <2>2, Zenon DEF ParseRange
<1> QED
  BY <1>1, <1>2, Zenon DEF Parse

\* The seasons of a file parse one by one.
LEMMA SeasonsParsed ==
  ASSUME NEW raws, NEW n \in Nat, DOMAIN raws = 1 .. n, NEW seasons \in ParseSeasons(raws)
  PROVE  seasons \in Seq(Season)
<1> DEFINE parsed == [i \in DOMAIN raws |-> Parse(raws[i])]
           results == [i \in DOMAIN raws |-> CHOOSE s \in parsed[i] : TRUE]
<1>1. {} \notin Range(parsed) /\ seasons = results
  BY DEF ParseSeasons
<1>2. \A i \in 1 .. n : results[i] \in Season
  <2> SUFFICES ASSUME NEW i \in 1 .. n PROVE results[i] \in Season
    OBVIOUS
  <2>1. parsed[i] # {}
    BY <1>1 DEF Range
  <2>2. results[i] \in parsed[i]
    BY <2>1
  <2> QED
    BY <2>2, ParseIsSeason
<1>3. results \in [1 .. n -> Season]
  BY <1>2
<1> QED
  BY <1>1, <1>3

-----------------------------------------------------------------------------
(* The times of a rotation *)

\* A list without repetition, and one in order.
Distinct(offsets) == \A i, j \in 1 .. Len(offsets) : i # j => offsets[i] # offsets[j]
Ascending(offsets) == \A i, j \in 1 .. Len(offsets) : i < j => offsets[i] < offsets[j]

\* The states of the loop that leaves out repeated times.
DeduplicateLoop(offsets, out) ==
  out = [n \in 0 .. Len(offsets) |->
           IF n = 0 THEN <<>>
           ELSE IF offsets[n] \in Range(out[n - 1]) THEN out[n - 1]
           ELSE Append(out[n - 1], offsets[n])]

\* They are defined, and the last one is the result.
LEMMA DeduplicateRuns ==
  ASSUME NEW offsets \in Seq(Nat)
  PROVE  \E out : DeduplicateLoop(offsets, out) /\ Deduplicated(offsets) = out[Len(offsets)]
<1> DEFINE n == Len(offsets)
           turn == [p \in (1 .. n) \X Seq(Nat) |->
                      IF offsets[p[1]] \in Range(p[2]) THEN p[2] ELSE Append(p[2], offsets[p[1]])]
<1>1. n \in Nat /\ \A k \in 1 .. n : offsets[k] \in Nat
  BY LenProperties
<1>2. turn \in [(1 .. n) \X Seq(Nat) -> Seq(Nat)] /\ <<>> \in Seq(Nat)
  BY <1>1, AppendProperties
<1> HIDE DEF turn
<1>3. PICK f : LoopStates(n, Seq(Nat), <<>>, turn, f)
  <2> HIDE DEF n
  <2> QED
    BY <1>1, <1>2, LoopRuns
<1>4. ASSUME NEW k \in 0 .. n, k # 0
      PROVE  f[k] = IF offsets[k] \in Range(f[k - 1]) THEN f[k - 1]
                    ELSE Append(f[k - 1], offsets[k])
  <2>1. k \in 1 .. n /\ f[k - 1] \in Seq(Nat) /\ f[k] = turn[<<k, f[k - 1]>>]
    <3> HIDE DEF n
    <3>1. k \in 1 .. n /\ k - 1 \in 0 .. n
      BY <1>1, <1>4
    <3> QED
      BY <1>3, <3>1 DEF LoopStates
  <2> QED
    BY <2>1 DEF turn
<1>5. DeduplicateLoop(offsets, f)
  BY <1>1, <1>3, <1>4 DEF DeduplicateLoop, LoopStates
<1> DEFINE out == CHOOSE g : DeduplicateLoop(offsets, g)
<1>6. DeduplicateLoop(offsets, out)
  BY <1>5
<1>7. Deduplicated(offsets) = out[Len(offsets)]
  BY DEF Deduplicated, DeduplicateLoop
<1> QED
  BY <1>6, <1>7

\* A turn adds a time to those before it.
LEMMA AppendNew ==
  ASSUME NEW before \in Seq(Nat), Distinct(before), NEW d \in Nat, d \notin Range(before)
  PROVE  /\ Append(before, d) \in Seq(Nat) /\ Range(Append(before, d)) = Range(before) \cup {d}
         /\ Distinct(Append(before, d))
<1> DEFINE after == Append(before, d)
           l == Len(before)
<1>1. /\ after \in Seq(Nat) /\ Len(after) = l + 1 /\ l \in Nat
      /\ \A i \in 1 .. l : after[i] = before[i]
      /\ after[l + 1] = d
  BY AppendProperties, LenProperties
<1> HIDE DEF after
<1>2. /\ Range(after) = {after[i] : i \in 1 .. Len(after)}
      /\ Range(before) = {before[i] : i \in 1 .. l}
  BY <1>1, RangeEquality
<1> HIDE DEF l
<1>3. \A i \in 1 .. l + 1 : i \in 1 .. l \/ i = l + 1
  BY <1>1
<1>4. Range(after) = Range(before) \cup {d}
  BY <1>1, <1>2, <1>3
<1>5. \A i \in 1 .. l : before[i] # d
  BY <1>2
<1>6. Distinct(after)
  <2> SUFFICES ASSUME NEW i \in 1 .. l + 1, NEW j \in 1 .. l + 1, i # j
               PROVE  after[i] # after[j]
    BY <1>1 DEF Distinct
  <2> QED
    BY <1>1, <1>3, <1>5 DEF Distinct, l
<1> QED
  BY <1>1, <1>4, <1>6 DEF after

\* Deduplicated keeps the times, each of them once.
LEMMA DeduplicatedForm ==
  ASSUME NEW offsets \in Seq(Nat)
  PROVE  /\ Deduplicated(offsets) \in Seq(Nat)
         /\ Range(Deduplicated(offsets)) = Range(offsets)
         /\ Distinct(Deduplicated(offsets))
<1> DEFINE n == Len(offsets)
<1>1. n \in Nat /\ \A k \in 1 .. n : offsets[k] \in Nat
  BY LenProperties
<1>2. PICK out : DeduplicateLoop(offsets, out) /\ Deduplicated(offsets) = out[n]
  BY DeduplicateRuns
<1>3. \A k \in 1 .. n : k \in 0 .. n /\ k # 0
  BY <1>1
<1> DEFINE Good(k) == /\ out[k] \in Seq(Nat) /\ Range(out[k]) = {offsets[j] : j \in 1 .. k}
                      /\ Distinct(out[k])
           S == {k \in 0 .. n : Good(k)}
<1>4. 0 \in S
  <2>1. out[0] = <<>>
    BY <1>1, <1>2 DEF DeduplicateLoop
  <2>2. <<>> \in Seq(Nat) /\ Range(<<>>) = {} /\ Distinct(<<>>)
    BY DEF Range, Distinct
  <2>3. {offsets[j] : j \in 1 .. 0} = {}
    OBVIOUS
  <2>4. Good(0)
    BY <2>1, <2>2, <2>3
  <2> QED
    BY <1>1, <2>4
<1>5. ASSUME NEW k \in 1 .. n, k - 1 \in S
      PROVE  k \in S
  <2> DEFINE before == out[k - 1]
             d == offsets[k]
  <2>1. out[k] = IF d \in Range(before) THEN before ELSE Append(before, d)
    <3>1. k \in 0 .. n /\ k # 0
      BY <1>3
    <3> QED
      BY <1>2, <3>1, Zenon DEF DeduplicateLoop
  <2>2. /\ before \in Seq(Nat) /\ Range(before) = {offsets[j] : j \in 1 .. k - 1}
        /\ Distinct(before) /\ d \in Nat
    BY <1>1, <1>5
  <2>3. {offsets[j] : j \in 1 .. k} = {offsets[j] : j \in 1 .. k - 1} \cup {d}
    BY <1>1
  <2> HIDE DEF before, d
  <2>4. CASE d \in Range(before)
    <3>1. out[k] = before /\ {offsets[j] : j \in 1 .. k} = Range(before)
      BY <2>1, <2>2, <2>3, <2>4
    <3>2. Good(k)
      BY <2>2, <3>1
    <3> QED
      BY <1>3, <3>2
  <2>5. CASE d \notin Range(before)
    <3>1. out[k] = Append(before, d) /\ {offsets[j] : j \in 1 .. k} = Range(before) \cup {d}
      BY <2>1, <2>2, <2>3, <2>5
    <3>2. Good(k)
      BY <2>2, <2>5, <3>1, AppendNew
    <3> QED
      BY <1>3, <3>2
  <2> QED
    BY <2>4, <2>5
<1>6. Good(n)
  <2>1. \A k \in 0 .. n : k \in S
    <3> HIDE DEF S, n
    <3> QED
      BY <1>1, <1>4, <1>5, Upward
  <2>2. n \in S
    <3> HIDE DEF S, n
    <3> QED
      BY <1>1, <2>1
  <2> QED
    BY <2>2
<1> QED
  BY <1>2, <1>6, RangeEquality

\* The inner loop stops, after the last time that is not greater.
LEMMA PlaceForm ==
  ASSUME NEW out \in Seq(Nat), NEW d \in Nat
  PROVE  /\ Place(out, d) \in 0 .. Len(out)
         /\ Place(out, d) = 0 \/ out[Place(out, d)] <= d
         /\ \A j \in Place(out, d) + 1 .. Len(out) : out[j] > d
<1> DEFINE l == Len(out)
           S == {i \in 0 .. l : \A j \in i + 1 .. l : out[j] > d}
<1>1. l \in Nat /\ \A j \in 1 .. l : out[j] \in Nat
  BY LenProperties
<1> HIDE DEF l
<1>2. S \in SUBSET Nat /\ l \in S
  BY <1>1
<1>3. PICK i \in S : \A k \in S : i <= k
  <2> HIDE DEF S
  <2> QED
    BY <1>2, LeastNat
<1>4. i = 0 \/ out[i] <= d
  <2> SUFFICES ASSUME i # 0, ~(out[i] <= d) PROVE FALSE
    OBVIOUS
  <2>1. i \in 1 .. l /\ i - 1 \in 0 .. l /\ out[i] > d
    BY <1>1, <1>2
  <2>2. \A j \in (i - 1) + 1 .. l : j = i \/ j \in i + 1 .. l
    BY <1>1, <2>1
  <2>3. \A j \in (i - 1) + 1 .. l : out[j] > d
    BY <2>1, <2>2
  <2>4. i - 1 \in S
    BY <2>1, <2>3
  <2> QED
    BY <1>3, <2>1, <2>4
<1>5. i \in 0 .. l /\ (i = 0 \/ out[i] <= d) /\ \A j \in i + 1 .. l : out[j] > d
  BY <1>4
<1> QED
  BY <1>5 DEF Place, l

\* A time that is put into a list after p others.
LEMMA InsertForm ==
  ASSUME NEW out \in Seq(Nat), NEW d \in Nat, NEW p \in 0 .. Len(out)
  PROVE  /\ InsertAt(out, p + 1, d) \in Seq(Nat) /\ Len(InsertAt(out, p + 1, d)) = Len(out) + 1
         /\ \A j \in 1 .. Len(out) + 1 :
              InsertAt(out, p + 1, d)[j]
                = IF j <= p THEN out[j] ELSE IF j = p + 1 THEN d ELSE out[j - 1]
<1> DEFINE l == Len(out)
           low == SubSeq(out, 1, p)
           high == SubSeq(out, p + 1, l)
           head == low \o <<d>>
<1>1. l \in Nat /\ p \in 0 .. l /\ p \in Nat /\ \A j \in 1 .. l : out[j] \in Nat
  BY LenProperties
<1>2. low \in Seq(Nat) /\ Len(low) = p /\ \A j \in 1 .. p : low[j] = out[j]
  <2> HIDE DEF l
  <2>1. \A j \in 1 .. p : out[j] \in Nat
    BY <1>1
  <2>2. /\ SubSeq(out, 1, p) \in Seq(Nat)
        /\ Len(SubSeq(out, 1, p)) = IF 1 <= p THEN p - 1 + 1 ELSE 0
        /\ \A i \in 1 .. p - 1 + 1 : SubSeq(out, 1, p)[i] = out[1 + i - 1]
    BY <1>1, <2>1, SubSeqProperties
  <2> QED
    BY <1>1, <2>2
<1>3. high \in Seq(Nat) /\ Len(high) = l - p /\ \A j \in 1 .. l - p : high[j] = out[p + j]
  <2> HIDE DEF l
  <2>1. \A j \in p + 1 .. l : out[j] \in Nat
    BY <1>1
  <2>2. /\ SubSeq(out, p + 1, l) \in Seq(Nat)
        /\ Len(SubSeq(out, p + 1, l)) = IF p + 1 <= l THEN l - (p + 1) + 1 ELSE 0
        /\ \A i \in 1 .. l - (p + 1) + 1 : SubSeq(out, p + 1, l)[i] = out[p + 1 + i - 1]
    BY <1>1, <2>1, SubSeqProperties
  <2> QED
    BY <1>1, <2>2
<1>4. InsertAt(out, p + 1, d) = head \o high
  <2>1. (p + 1) - 1 = p
    BY <1>1
  <2> QED
    BY <2>1, Zenon DEF InsertAt
<1> HIDE DEF l, low, high
<1>5. <<d>> \in Seq(Nat) /\ Len(<<d>>) = 1 /\ <<d>>[1] = d
  OBVIOUS
<1>6. head \in Seq(Nat) /\ Len(head) = p + 1
      /\ \A j \in 1 .. p + 1 : head[j] = IF j <= p THEN out[j] ELSE d
  BY <1>1, <1>2, <1>5, ConcatProperties
<1> HIDE DEF head
<1>7. /\ head \o high \in Seq(Nat) /\ Len(head \o high) = p + 1 + (l - p)
      /\ \A j \in 1 .. p + 1 + (l - p) :
           (head \o high)[j] = IF j <= p + 1 THEN head[j] ELSE high[j - (p + 1)]
  <2>1. /\ head \o high \in Seq(Nat) /\ Len(head \o high) = Len(head) + Len(high)
        /\ \A j \in 1 .. Len(head) + Len(high) :
             (head \o high)[j] = IF j <= Len(head) THEN head[j] ELSE high[j - Len(head)]
    BY <1>3, <1>6, ConcatProperties
  <2> QED
    BY <1>3, <1>6, <2>1, Zenon
<1>8. p + 1 + (l - p) = l + 1
  BY <1>1
<1>9. ASSUME NEW j \in 1 .. l + 1
      PROVE  (head \o high)[j] = IF j <= p THEN out[j] ELSE IF j = p + 1 THEN d ELSE out[j - 1]
  <2>0. /\ j \in Nat /\ p \in Nat /\ j \in 1 .. p + 1 + (l - p)
        /\ (head \o high)[j] = IF j <= p + 1 THEN head[j] ELSE high[j - (p + 1)]
    BY <1>1, <1>7, <1>8
  <2>1. CASE j <= p + 1
    BY <1>6, <2>0, <2>1
  <2>2. CASE ~(j <= p + 1)
    <3>1. j - (p + 1) \in 1 .. l - p /\ p + (j - (p + 1)) = j - 1
      BY <1>1, <2>2
    <3>2. (head \o high)[j] = out[j - 1]
      BY <1>3, <2>0, <2>2, <3>1
    <3>3. ~(j <= p) /\ j # p + 1
      BY <2>0, <2>2
    <3> QED
      BY <3>2, <3>3, Zenon
  <2> QED
    BY <2>1, <2>2
<1> QED
  BY <1>4, <1>7, <1>8, <1>9 DEF l

\* A turn of the sort keeps the list in order and adds the time to it.
LEMMA InsertInOrder ==
  ASSUME NEW before \in Seq(Nat), Ascending(before), NEW d \in Nat, d \notin Range(before)
  PROVE  LET after == InsertAt(before, Place(before, d) + 1, d)
         IN  /\ after \in Seq(Nat) /\ Range(after) = Range(before) \cup {d}
             /\ Ascending(after)
<1> DEFINE l == Len(before)
           p == Place(before, d)
           after == InsertAt(before, p + 1, d)
<1>1. l \in Nat /\ \A j \in 1 .. l : before[j] \in Nat
  BY LenProperties
<1>2. /\ p \in 0 .. l /\ p \in Nat /\ (p = 0 \/ before[p] <= d)
      /\ \A j \in p + 1 .. l : before[j] > d
  BY PlaceForm
<1>3. /\ after \in Seq(Nat) /\ Len(after) = l + 1
      /\ \A j \in 1 .. l + 1 :
           after[j] = IF j <= p THEN before[j] ELSE IF j = p + 1 THEN d ELSE before[j - 1]
  <2> HIDE DEF p
  <2> QED
    BY <1>2, InsertForm
<1> HIDE DEF p, after
<1>4. /\ Range(after) = {after[i] : i \in 1 .. l + 1}
      /\ Range(before) = {before[i] : i \in 1 .. l}
  BY <1>3, RangeEquality
<1> HIDE DEF l
<1>5. Range(after) = Range(before) \cup {d}
  <2>1. ASSUME NEW i \in 1 .. l + 1
        PROVE  after[i] \in Range(before) \cup {d}
    BY <1>1, <1>2, <1>3, <1>4
  <2>2. ASSUME NEW i \in 1 .. l
        PROVE  before[i] \in Range(after)
    <3>1. CASE i <= p
      BY <1>1, <1>2, <1>3, <1>4, <3>1
    <3>2. CASE i > p
      <4>1. i + 1 \in 1 .. l + 1 /\ ~(i + 1 <= p) /\ i + 1 # p + 1 /\ (i + 1) - 1 = i
        BY <1>1, <1>2, <3>2
      <4> QED
        BY <1>3, <1>4, <4>1
    <3> QED
      BY <1>1, <1>2, <3>1, <3>2
  <2>3. d \in Range(after)
    <3>1. p + 1 \in 1 .. l + 1 /\ ~(p + 1 <= p)
      BY <1>1, <1>2
    <3> QED
      BY <1>3, <1>4, <3>1
  <2> QED
    BY <1>4, <2>1, <2>2, <2>3
<1>6. \A i, j \in 1 .. l : i < j => before[i] < before[j]
  BY DEF Ascending, l
<1>7. \A j \in 1 .. l : j <= p => before[j] < d
  <2> SUFFICES ASSUME NEW j \in 1 .. l, j <= p PROVE before[j] < d
    OBVIOUS
  <2>1. p \in 1 .. l /\ before[p] <= d /\ before[p] \in Nat /\ before[p] # d /\ before[j] \in Nat
    BY <1>1, <1>2, <1>4
  <2>2. j = p \/ before[j] < before[p]
    BY <1>2, <1>6, <2>1
  <2> QED
    BY <2>1, <2>2
<1>8. Ascending(after)
  <2> SUFFICES ASSUME NEW i \in 1 .. l + 1, NEW j \in 1 .. l + 1, i < j
               PROVE  after[i] < after[j]
    BY <1>3 DEF Ascending
  <2>1. CASE j <= p
    <3>1. i \in 1 .. l /\ j \in 1 .. l /\ i <= p
      BY <1>1, <1>2, <2>1
    <3>2. after[i] = before[i] /\ after[j] = before[j]
      BY <1>3, <2>1, <3>1
    <3> QED
      BY <1>6, <3>1, <3>2
  <2>2. CASE j = p + 1
    <3>1. i \in 1 .. l /\ i <= p /\ ~(j <= p)
      BY <1>1, <1>2, <2>2
    <3>2. after[i] = before[i] /\ after[j] = d
      BY <1>3, <2>2, <3>1
    <3> QED
      BY <1>7, <3>1, <3>2
  <2>3. CASE j > p + 1
    <3>1. j - 1 \in p + 1 .. l /\ after[j] = before[j - 1]
      BY <1>1, <1>2, <1>3, <2>3
    <3>2. CASE i <= p
      <4>1. i \in 1 .. l /\ j - 1 \in 1 .. l /\ i < j - 1
        BY <1>1, <1>2, <3>1, <3>2
      <4>2. after[i] = before[i]
        BY <1>3, <3>2
      <4> QED
        BY <1>6, <3>1, <4>1, <4>2
    <3>3. CASE i = p + 1
      BY <1>1, <1>2, <1>3, <3>1, <3>3
    <3>4. CASE i > p + 1
      <4>1. i - 1 \in 1 .. l /\ j - 1 \in 1 .. l /\ i - 1 < j - 1 /\ ~(i <= p) /\ i # p + 1
        BY <1>1, <1>2, <3>1, <3>4
      <4>2. after[i] = before[i - 1]
        BY <1>3, <4>1
      <4> QED
        BY <1>6, <3>1, <4>1, <4>2
    <3> QED
      BY <1>2, <3>2, <3>3, <3>4
  <2> QED
    BY <1>2, <2>1, <2>2, <2>3
<1> QED
  BY <1>3, <1>5, <1>8 DEF after, p

\* The states of the sort's outer loop.
SortLoop(offsets, out) ==
  out = [n \in 0 .. Len(offsets) |->
           IF n = 0 THEN <<>>
           ELSE InsertAt(out[n - 1], Place(out[n - 1], offsets[n]) + 1, offsets[n])]

\* They are defined, and the last one is the result.
LEMMA SortRuns ==
  ASSUME NEW offsets \in Seq(Nat)
  PROVE  \E out : SortLoop(offsets, out) /\ Sorted(offsets) = out[Len(offsets)]
<1> DEFINE n == Len(offsets)
           turn == [p \in (1 .. n) \X Seq(Nat) |->
                      InsertAt(p[2], Place(p[2], offsets[p[1]]) + 1, offsets[p[1]])]
<1>1. n \in Nat /\ \A k \in 1 .. n : offsets[k] \in Nat
  BY LenProperties
<1>2. turn \in [(1 .. n) \X Seq(Nat) -> Seq(Nat)] /\ <<>> \in Seq(Nat)
  <2>1. ASSUME NEW k \in 1 .. n, NEW s \in Seq(Nat)
        PROVE  InsertAt(s, Place(s, offsets[k]) + 1, offsets[k]) \in Seq(Nat)
    <3>1. offsets[k] \in Nat
      BY <1>1
    <3>2. Place(s, offsets[k]) \in 0 .. Len(s)
      BY <3>1, PlaceForm
    <3> QED
      BY <3>1, <3>2, InsertForm
  <2> QED
    BY <2>1
<1> HIDE DEF turn
<1>3. PICK f : LoopStates(n, Seq(Nat), <<>>, turn, f)
  <2> HIDE DEF n
  <2> QED
    BY <1>1, <1>2, LoopRuns
<1>4. ASSUME NEW k \in 0 .. n, k # 0
      PROVE  f[k] = InsertAt(f[k - 1], Place(f[k - 1], offsets[k]) + 1, offsets[k])
  <2>1. k \in 1 .. n /\ f[k - 1] \in Seq(Nat) /\ f[k] = turn[<<k, f[k - 1]>>]
    <3> HIDE DEF n
    <3>1. k \in 1 .. n /\ k - 1 \in 0 .. n
      BY <1>1, <1>4
    <3> QED
      BY <1>3, <3>1 DEF LoopStates
  <2> QED
    BY <2>1 DEF turn
<1>5. SortLoop(offsets, f)
  BY <1>1, <1>3, <1>4 DEF SortLoop, LoopStates
<1> DEFINE out == CHOOSE g : SortLoop(offsets, g)
<1>6. SortLoop(offsets, out)
  BY <1>5
<1>7. Sorted(offsets) = out[Len(offsets)]
  BY DEF Sorted, SortLoop
<1> QED
  BY <1>6, <1>7

\* Sorted keeps the times of a list without repetition, and puts them in order.
LEMMA SortedForm ==
  ASSUME NEW offsets \in Seq(Nat), Distinct(offsets)
  PROVE  /\ Sorted(offsets) \in Seq(Nat) /\ Range(Sorted(offsets)) = Range(offsets)
         /\ Ascending(Sorted(offsets))
<1> DEFINE n == Len(offsets)
<1>1. n \in Nat /\ \A k \in 1 .. n : offsets[k] \in Nat
  BY LenProperties
<1>2. PICK out : SortLoop(offsets, out) /\ Sorted(offsets) = out[n]
  BY SortRuns
<1>3. \A k \in 1 .. n : k \in 0 .. n /\ k # 0
  BY <1>1
<1> DEFINE Good(k) == /\ out[k] \in Seq(Nat) /\ Range(out[k]) = {offsets[j] : j \in 1 .. k}
                      /\ Ascending(out[k])
           S == {k \in 0 .. n : Good(k)}
<1>4. 0 \in S
  <2>1. out[0] = <<>>
    BY <1>1, <1>2 DEF SortLoop
  <2>2. <<>> \in Seq(Nat) /\ Range(<<>>) = {} /\ Ascending(<<>>)
    BY DEF Range, Ascending
  <2>3. {offsets[j] : j \in 1 .. 0} = {}
    OBVIOUS
  <2>4. Good(0)
    BY <2>1, <2>2, <2>3
  <2> QED
    BY <1>1, <2>4
<1>5. ASSUME NEW k \in 1 .. n, k - 1 \in S
      PROVE  k \in S
  <2> DEFINE before == out[k - 1]
             d == offsets[k]
  <2>1. out[k] = InsertAt(before, Place(before, d) + 1, d)
    <3>1. k \in 0 .. n /\ k # 0
      BY <1>3
    <3> QED
      BY <1>2, <3>1, Zenon DEF SortLoop
  <2>2. /\ before \in Seq(Nat) /\ Range(before) = {offsets[j] : j \in 1 .. k - 1}
        /\ Ascending(before) /\ d \in Nat
    BY <1>1, <1>5
  <2>3. {offsets[j] : j \in 1 .. k} = {offsets[j] : j \in 1 .. k - 1} \cup {d}
    BY <1>1
  <2>4. \A j \in 1 .. k - 1 : offsets[j] # d
    BY <1>1 DEF Distinct
  <2> HIDE DEF before, d
  <2>5. d \notin Range(before) /\ {offsets[j] : j \in 1 .. k} = Range(before) \cup {d}
    BY <2>2, <2>3, <2>4
  <2>6. Good(k)
    BY <2>1, <2>2, <2>5, InsertInOrder
  <2> QED
    BY <1>3, <2>6
<1>6. Good(n)
  <2>1. \A k \in 0 .. n : k \in S
    <3> HIDE DEF S, n
    <3> QED
      BY <1>1, <1>4, <1>5, Upward
  <2>2. n \in S
    <3> HIDE DEF S, n
    <3> QED
      BY <1>1, <2>1
  <2> QED
    BY <2>2
<1> QED
  BY <1>2, <1>6, RangeEquality

\* A minute of the day, in seconds.
LEMMA SecondOfDay ==
  ASSUME NEW h \in 0 .. 23, NEW m \in 0 .. 59
  PROVE  h * Hour + m * Minute \in 0 .. 24 * Hour - 1
<1> DEFINE s == h * 3600 + m * 60
           last == 24 * Hour - 1
<1>1. h \in Int /\ m \in Int /\ 0 <= h /\ h <= 23 /\ 0 <= m /\ m <= 59
  OBVIOUS
<1>2. s \in Int /\ 0 <= s /\ s <= 86399
  BY <1>1
<1>3. h * Hour + m * Minute = s /\ last = 86399
  BY DEF Hour, Minute
<1> HIDE DEF s, last
<1>4. last \in Int /\ s <= last
  BY <1>2, <1>3
<1>5. s \in 0 .. last
  BY <1>2, <1>4
<1> QED
  BY <1>3, <1>5 DEF last

\* A text has one time, of the day, or none.
LEMMA ClockTime ==
  ASSUME NEW text, NEW d \in ParseClockTime(text)
  PROVE  d \in 0 .. 24 * Hour - 1 /\ d \in Nat /\ ParseClockTime(text) = {d}
<1>1. text \in (0 .. 23) \X (0 .. 59) /\ d = text[1] * Hour + text[2] * Minute
  BY DEF ParseClockTime
<1>2. text[1] \in 0 .. 23 /\ text[2] \in 0 .. 59
  BY <1>1
<1>3. d \in 0 .. 24 * Hour - 1
  BY <1>1, <1>2, SecondOfDay
<1>4. d \in Nat
  BY <1>3
<1> QED
  BY <1>1, <1>3, <1>4 DEF ParseClockTime

\* The list that a daemon block loads with: each of its times once and in order.
LEMMA RotationTimes ==
  ASSUME NEW T, NEW at \in Seq(T), NEW times \in ParseRotationAt(at)
  PROVE  /\ times \in Seq(Nat) /\ times # <<>> /\ Range(times) \subseteq 0 .. 24 * Hour - 1
         /\ Ascending(times)
         /\ Range(times) = UNION {ParseClockTime(t) : t \in Range(at)}
<1> DEFINE parsed == [i \in DOMAIN at |-> ParseClockTime(at[i])]
           given == [i \in DOMAIN at |-> CHOOSE d \in parsed[i] : TRUE]
<1>1. at # <<>> /\ {} \notin Range(parsed) /\ times = Sorted(Deduplicated(given))
  BY DEF ParseRotationAt
<1>2. DOMAIN at = 1 .. Len(at) /\ Len(at) \in Nat /\ Len(at) # 0
  BY <1>1, LenProperties, EmptySeq
<1>3. ASSUME NEW i \in DOMAIN at
      PROVE  /\ given[i] \in 0 .. 24 * Hour - 1 /\ given[i] \in Nat
             /\ ParseClockTime(at[i]) = {given[i]}
  <2>1. parsed[i] # {}
    BY <1>1 DEF Range
  <2>2. given[i] \in ParseClockTime(at[i])
    BY <2>1
  <2> HIDE DEF given
  <2> QED
    BY <2>2, ClockTime
<1>4. given \in Seq(Nat) /\ Len(given) = Len(at)
  <2>1. given \in [1 .. Len(at) -> Nat]
    <3>1. DOMAIN given = 1 .. Len(at) /\ given = [i \in 1 .. Len(at) |-> given[i]]
      BY <1>2
    <3>2. \A i \in 1 .. Len(at) : given[i] \in Nat
      BY <1>2, <1>3
    <3> HIDE DEF given
    <3> QED
      BY <3>1, <3>2
  <2> HIDE DEF given
  <2> QED
    BY <1>2, <2>1, IsASeq, LenProperties
<1> HIDE DEF given, parsed
<1>5. /\ times \in Seq(Nat) /\ Ascending(times) /\ Range(times) = Range(given)
  BY <1>1, <1>4, DeduplicatedForm, SortedForm
<1>6. /\ Range(given) = {given[i] : i \in 1 .. Len(at)}
      /\ Range(at) = {at[i] : i \in 1 .. Len(at)}
  BY <1>4, RangeEquality
<1>7. Range(given) = UNION {ParseClockTime(t) : t \in Range(at)}
  <2>1. ASSUME NEW i \in 1 .. Len(at)
        PROVE  at[i] \in Range(at) /\ given[i] \in ParseClockTime(at[i])
    BY <1>2, <1>3, <1>6
  <2>2. ASSUME NEW t \in Range(at), NEW d \in ParseClockTime(t)
        PROVE  d \in Range(given)
    <3>1. PICK i \in 1 .. Len(at) : t = at[i]
      BY <1>6
    <3>2. d = given[i]
      BY <1>2, <1>3, <3>1
    <3> QED
      BY <1>6, <3>2
  <2> QED
    BY <1>6, <2>1, <2>2
<1>8. Range(given) \subseteq 0 .. 24 * Hour - 1
  BY <1>2, <1>3, <1>6
<1>9. times # <<>>
  <2>1. given[1] \in Range(times)
    BY <1>2, <1>5, <1>6
  <2>2. Range(<<>>) = {}
    BY DEF Range
  <2> QED
    BY <2>1, <2>2
<1> QED
  BY <1>5, <1>7, <1>8, <1>9

\* The default schedule of a file without a daemon block, or without times.
LEMMA DefaultForm ==
  /\ DefaultDaemon.at = <<3 * Hour>> /\ DefaultDaemon.at \in Seq(Nat)
  /\ DefaultDaemon.at # <<>> /\ Len(DefaultDaemon.at) = 1
  /\ Range(DefaultDaemon.at) \subseteq 0 .. 24 * Hour - 1 /\ Ascending(DefaultDaemon.at)
  /\ \A i, j \in DOMAIN DefaultDaemon.at : i < j => DefaultDaemon.at[i] < DefaultDaemon.at[j]
  /\ DefaultDaemon.interval = 0 /\ DefaultDaemon.refresh >= Minute
<1> DEFINE at == DefaultDaemon.at
<1>1. at = <<3 * Hour>> /\ DefaultDaemon.interval = 0 /\ DefaultDaemon.refresh = 6 * Hour
  BY DEF DefaultDaemon
<1>2. 3 * Hour \in Nat /\ 6 * Hour >= Minute
  BY DEF Hour, Minute
<1> HIDE DEF at
<1>3. at \in Seq(Nat) /\ Len(at) = 1 /\ at # <<>> /\ DOMAIN at = 1 .. 1 /\ at[1] = 3 * Hour
  BY <1>1, <1>2
<1>4. Range(at) = {3 * Hour}
  BY <1>3 DEF Range
<1>5. 3 * Hour = 3 * Hour + 0 * Minute
  BY DEF Hour, Minute
<1>6. 3 * Hour \in 0 .. 24 * Hour - 1
  BY <1>5, SecondOfDay
<1>7. Range(at) \subseteq 0 .. 24 * Hour - 1
  BY <1>4, <1>6
<1>8. Ascending(at) /\ \A i, j \in DOMAIN at : i < j => at[i] < at[j]
  BY <1>3 DEF Ascending
<1> QED
  BY <1>1, <1>2, <1>3, <1>7, <1>8 DEF at

\* What a daemon block loads as, given or not.
LEMMA DaemonForm ==
  ASSUME NEW file \in RawDaemon, NEW d \in LoadDaemon(file)
  PROVE  /\ d.at \in Seq(Nat) /\ d.at # <<>> /\ Range(d.at) \subseteq 0 .. 24 * Hour - 1
         /\ Ascending(d.at)
         /\ file.rotation_at # Absent
              => Range(d.at) = UNION {ParseClockTime(t) : t \in Range(file.rotation_at)}
         /\ d.interval # 0 => d.interval >= Minute /\ Len(d.at) = 1
         /\ d.refresh >= Minute
<1>1. /\ d.refresh \in ParseDuration(file.refresh_interval, Minute, DefaultDaemon.refresh)
      /\ d.at \in IF file.rotation_at = Absent
                  THEN {DefaultDaemon.at} ELSE ParseRotationAt(file.rotation_at)
      /\ d.interval \in ParseDuration(file.rotation_interval, MinRotationInterval,
                                      DefaultDaemon.interval)
      /\ d.interval > 0 /\ file.rotation_at # Absent => Len(d.at) <= 1
  BY Zenon DEF LoadDaemon
<1>2. d.refresh >= Minute
  BY <1>1 DEF ParseDuration, DefaultDaemon, Minute, Hour
<1>3. d.interval # 0 => d.interval >= Minute
  BY <1>1 DEF ParseDuration, DefaultDaemon, MinRotationInterval
<1>4. d.interval # 0 => d.interval > 0
  <2>1. d.interval \in Int
    <3>1. file.rotation_interval \in Optional(Int \cup {Bad})
      BY DEF RawDaemon
    <3> QED
      BY <1>1, <3>1 DEF ParseDuration, DefaultDaemon, Optional
  <2> QED
    BY <1>3, <2>1 DEF Minute
<1>5. CASE file.rotation_at = Absent
  <2>1. d.at = DefaultDaemon.at
    BY <1>1, <1>5
  <2> QED
    BY <1>2, <1>3, <1>5, <2>1, DefaultForm
<1>6. CASE file.rotation_at # Absent
  <2>1. d.at \in ParseRotationAt(file.rotation_at)
    BY <1>1, <1>6
  <2>2. file.rotation_at # Bad
    BY <2>1 DEF ParseRotationAt
  <2>3. file.rotation_at \in Seq((Nat \X Nat) \cup {Bad})
    <3>1. file.rotation_at \in Optional(Seq((Nat \X Nat) \cup {Bad}) \cup {Bad})
      BY DEF RawDaemon
    <3> QED
      BY <1>6, <2>2, <3>1, Zenon DEF Optional
  <2>4. /\ d.at \in Seq(Nat) /\ d.at # <<>> /\ Range(d.at) \subseteq 0 .. 24 * Hour - 1
        /\ Ascending(d.at)
        /\ Range(d.at) = UNION {ParseClockTime(t) : t \in Range(file.rotation_at)}
    BY <2>1, <2>3, RotationTimes
  <2>5. d.interval # 0 => Len(d.at) = 1
    <3>1. Len(d.at) \in Nat /\ Len(d.at) # 0
      BY <2>4, LenProperties, EmptySeq
    <3>2. d.interval # 0 => Len(d.at) <= 1
      BY <1>1, <1>4, <1>6
    <3> DEFINE l == Len(d.at)
    <3>3. l \in Nat /\ l # 0 /\ (d.interval # 0 => l <= 1)
      BY <3>1, <3>2
    <3> HIDE DEF l
    <3>4. d.interval # 0 => l = 1
      BY <3>3
    <3> QED
      BY <3>4 DEF l
  <2> QED
    BY <1>2, <1>3, <2>4, <2>5
<1> QED
  BY <1>5, <1>6

-----------------------------------------------------------------------------
(* A file and the days *)

\* The seasons of the file are seasons, and each day is one of the calendar.
SeasonType == raw \in Raws /\ specs \in Seq(Season) /\ today \in Date

\* What ParseSeasons makes of a file is a list of seasons.
LEMMA FileSeasons ==
  ASSUME NEW file \in Raws, NEW seasons \in ParseSeasons(file.seasons)
  PROVE  seasons \in Seq(Season)
<1>1. file.seasons \in Seq(RawSeason)
  BY ConfigAssumption DEF RawConfig
<1> QED
  BY <1>1, LenProperties, SeasonsParsed

\* A file and its first day are typed,
LEMMA SeasonTypeInit == ConfigInit => SeasonType
<1> SUFFICES ASSUME ConfigInit PROVE SeasonType
  OBVIOUS
<1>1. raw \in Raws /\ today \in Date
  BY DEF ConfigInit, FirstDay
<1>2. specs \in Seq(Season)
  <2>1. CASE ParseSeasons(raw.seasons) = {}
    BY <2>1 DEF ConfigInit
  <2>2. CASE ParseSeasons(raw.seasons) # {}
    BY <1>1, <2>2, FileSeasons DEF ConfigInit
  <2> QED
    BY <2>1, <2>2
<1> QED
  BY <1>1, <1>2 DEF SeasonType

\* and so is every day after it.
LEMMA SeasonTypeStep ==
  ASSUME SeasonType, [Next /\ UNCHANGED raw]_<<specs, today, raw>>
  PROVE  SeasonType'
<1>1. CASE UNCHANGED <<specs, today, raw>>
  BY <1>1 DEF SeasonType
<1>2. CASE Next /\ UNCHANGED raw
  <2> DEFINE later == {d \in Date : ~NotAfter(d, today)}
  <2>1. /\ later # {} /\ specs' = specs
        /\ today' = CHOOSE d \in Date : /\ ~NotAfter(d, today)
                                        /\ \A e \in Date : ~NotAfter(e, today) => NotAfter(d, e)
    BY <1>2 DEF Next, Tomorrow
  <2>2. PICK d \in later : \A e \in later : NotAfter(d, e)
    BY <2>1, LeastDate
  <2>3. today' \in Date
    BY <2>1, <2>2
  <2> QED
    BY <1>2, <2>1, <2>3 DEF SeasonType
<1> QED
  BY <1>1, <1>2

\* The seasons that Load checks, and the day, have their types in every state.
THEOREM SeasonTyping == ConfigSpec => []SeasonType
<1> QED
  BY SeasonTypeInit, SeasonTypeStep, PTL DEF ConfigSpec

\* In a file that is accepted the order of the seasons does not decide which of
\* them wins (Match, CheckConflicts): the winner outranks the others of the day.
THEOREM TheWinnerOutranks == ConfigSpec => []WinnerOutranks
<1>1. SeasonType => WinnerOutranks
  BY NoConflictNoTie, Zenon DEF SeasonType, WinnerOutranks
<1> QED
  BY <1>1, SeasonTyping, PTL

\* CheckConflicts refuses a file only for seasons that do share a day, in a
\* calendar that has a leap year: two seasons on the leap day share no other.
THEOREM RefusedForADay ==
  ASSUME LeapYears # {}
  PROVE  ConfigSpec => []ConflictsAreReal
<1>1. SeasonType => ConflictsAreReal
  <2> SUFFICES ASSUME SeasonType, Conflicting(specs)
               PROVE  \E i, j \in DOMAIN specs : i # j /\ ShareDay(specs[i], specs[j])
    BY DEF ConflictsAreReal, ShareDay
  <2>1. PICK i, j \in DOMAIN specs : i < j /\ Conflict(specs[i], specs[j])
    BY DEF Conflicting
  <2>2. i \in Nat /\ j \in Nat /\ specs[i] \in Season /\ specs[j] \in Season
    BY LenProperties, ElementOfSeq DEF SeasonType
  <2>3. ShareDay(specs[i], specs[j])
    BY <2>1, <2>2, ConflictSharesDay
  <2> QED
    BY <2>1, <2>2, <2>3
<1> QED
  BY <1>1, SeasonTyping, PTL

\* NextMatch gives the first day from today on which a season matches, unless it
\* is annual and starts on the leap day.
THEOREM TheNextDay == ConfigSpec => []NextMatchIsFirst
<1>1. SeasonType => NextMatchIsFirst
  <2> SUFFICES ASSUME SeasonType, NEW i \in DOMAIN specs,
                      IsAnnual(specs[i]) => InEveryYear(specs[i].start)
               PROVE  FirstMatch(specs[i], NextMatch(specs[i], today))
    BY DEF NextMatchIsFirst
  <2>1. specs[i] \in Season /\ specs[i].kind \in Kind /\ today \in Date
    BY LenProperties, ElementOfSeq, SeasonForm DEF SeasonType
  <2>2. FirstMatchFrom(today, specs[i], NextMatch(specs[i], today))
    <3>1. CASE specs[i].kind \in {"specific date", "specific range"}
      BY <2>1, <3>1, NextOfSpecific
    <3>2. CASE specs[i].kind = "annual date"
      BY <2>1, <3>2, NextOfDate DEF IsAnnual
    <3>3. CASE specs[i].kind = "annual range"
      BY <2>1, <3>3, NextOfRange DEF IsAnnual
    <3> QED
      BY <2>1, <3>1, <3>2, <3>3 DEF Kind
  <2> QED
    BY <2>2 DEF FirstMatch, FirstMatchFrom
<1> QED
  BY <1>1, SeasonTyping, PTL

\* Parse lets no season through that never comes, in a calendar that has a leap
\* year.
THEOREM NoSeasonIsDead ==
  ASSUME LeapYears # {}
  PROVE  ConfigSpec => []NoDeadSeason
<1>1. SeasonType => NoDeadSeason
  <2> SUFFICES ASSUME SeasonType, NEW cfg \in Load(raw), NEW i \in DOMAIN cfg.seasons
               PROVE  \E date \in Date : Matches(cfg.seasons[i], date)
    BY DEF NoDeadSeason
  <2>1. cfg.seasons \in ParseSeasons(raw.seasons)
    BY DEF Load, LoadSeasons
  <2>2. cfg.seasons \in Seq(Season)
    BY <2>1, FileSeasons DEF SeasonType
  <2>3. cfg.seasons[i] \in Season
    BY <2>2, LenProperties, ElementOfSeq
  <2> QED
    BY <2>3, SeasonHasDay
<1> QED
  BY <1>1, SeasonTyping, PTL

\* The schedule of a file that loads is one NextRotation can work with, for every
\* file: parseRotationAt's loops, the limits of populate and the defaults.
THEOREM ScheduleLoads == ConfigSpec => []LoadedSchedulable
<1>1. raw \in Raws => LoadedSchedulable
  <2> SUFFICES ASSUME raw \in Raws, NEW cfg \in Load(raw)
               PROVE  LET d == cfg.daemon
                          given == raw.daemon # Absent /\ raw.daemon.rotation_at # Absent
                      IN  /\ d.at # <<>> /\ Range(d.at) \subseteq 0 .. 24 * Hour - 1
                          /\ \A i, j \in DOMAIN d.at : i < j => d.at[i] < d.at[j]
                          /\ given => Range(d.at)
                                        = UNION {ParseClockTime(t) : t \in Range(raw.daemon.rotation_at)}
                          /\ d.interval # 0 => d.interval >= Minute /\ Len(d.at) = 1
                          /\ d.refresh >= Minute
    BY DEF LoadedSchedulable
  <2> DEFINE d == cfg.daemon
  <2>1. d \in IF raw.daemon = Absent THEN {DefaultDaemon} ELSE LoadDaemon(raw.daemon)
    BY Zenon DEF Load
  <2>2. raw.daemon \in Optional(RawDaemon)
    BY ConfigAssumption DEF RawConfig
  <2> HIDE DEF d
  <2>3. CASE raw.daemon = Absent
    <3>1. d = DefaultDaemon
      BY <2>1, <2>3
    <3> QED
      BY <2>3, <3>1, DefaultForm DEF Ascending, d
  <2>4. CASE raw.daemon # Absent
    <3>1. raw.daemon \in RawDaemon /\ d \in LoadDaemon(raw.daemon)
      BY <2>1, <2>2, <2>4 DEF Optional
    <3>2. /\ d.at \in Seq(Nat) /\ d.at # <<>> /\ Range(d.at) \subseteq 0 .. 24 * Hour - 1
          /\ Ascending(d.at)
          /\ raw.daemon.rotation_at # Absent
               => Range(d.at) = UNION {ParseClockTime(t) : t \in Range(raw.daemon.rotation_at)}
          /\ d.interval # 0 => d.interval >= Minute /\ Len(d.at) = 1
          /\ d.refresh >= Minute
      BY <3>1, DaemonForm
    <3>3. \A i, j \in DOMAIN d.at : i < j => d.at[i] < d.at[j]
      BY <3>2, LenProperties DEF Ascending
    <3> QED
      BY <3>2, <3>3, Zenon DEF d
  <2> QED
    BY <2>3, <2>4
<1> QED
  BY <1>1, SeasonTyping, PTL DEF SeasonType
=============================================================================
