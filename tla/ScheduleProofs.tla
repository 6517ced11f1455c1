--------------------------- MODULE ScheduleProofs ---------------------------
(* Proofs about Schedule: the next rotation is the first moment named after  *)
(* now, the loop's sleep never misses one, and the safety net holds.         *)
EXTENDS Schedule, TLAPS, WellFoundedInduction

Time == 0 .. MaxTime

\* A set of naturals has a least member.
LEMMA Least ==
  ASSUME NEW T \in SUBSET Nat, T # {}
  PROVE  \E x \in T : \A y \in T : x <= y
<1>1. IsWellFoundedOn({ss \in Nat \X Nat : ss[1] < ss[2]}, Nat)
  BY NatLessThanWellFounded DEF OpToRel
<1>2. PICK x \in T : \A y \in T : ~(<<y, x>> \in {ss \in Nat \X Nat : ss[1] < ss[2]})
  BY <1>1, WFMin
<1>3. \A y \in T : ~(y < x)
  BY <1>2
<1> QED
  BY <1>3

\* What the configuration says of a schedule.
LEMMA ScheduleType ==
  ASSUME schedule \in Schedules
  PROVE  /\ schedule.interval \in Nat /\ schedule.refresh \in Nat \ {0}
         /\ schedule.at \in Seq(Nat) /\ Len(schedule.at) \in Nat \ {0}
         /\ DOMAIN schedule.at = 1 .. Len(schedule.at)
         /\ \A i \in DOMAIN schedule.at : schedule.at[i] \in Nat
         /\ \A i, j \in DOMAIN schedule.at : i < j => schedule.at[i] < schedule.at[j]
<1>1. schedule \in [at : Seq(0 .. DayLength - 1), interval : Nat, refresh : Nat \ {0}]
  BY ScheduleAssumption
<1>2. /\ schedule.at # <<>>
      /\ \A i, j \in DOMAIN schedule.at : i < j => schedule.at[i] < schedule.at[j]
  BY ScheduleAssumption
<1>3. schedule.at \in Seq(Nat) /\ \A i \in DOMAIN schedule.at : schedule.at[i] \in Nat
  BY SMTT(30), <1>1, ScheduleAssumption
<1> QED
  BY <1>1, <1>2, <1>3

\* In list mode, what NextRotation returns: an offset of today that is the
\* first after now, or tomorrow's first.
LEMMA ListRotation ==
  ASSUME schedule \in Schedules, NEW now \in Time
  PROVE  \/ \E i \in DOMAIN schedule.at :
              /\ NextFromList(now) = Midnight[now] + schedule.at[i]
              /\ Midnight[now] + schedule.at[i] > now
              /\ \A j \in DOMAIN schedule.at :
                   Midnight[now] + schedule.at[j] > now => i <= j
         \/ /\ NextFromList(now) = NextMidnight[now] + schedule.at[1]
            /\ \A j \in DOMAIN schedule.at : ~(Midnight[now] + schedule.at[j] > now)
<1> DEFINE later == LaterToday(now)
<1>1. later \in SUBSET Nat
  BY ScheduleType DEF LaterToday
<1>2. CASE later = {}
  BY <1>2 DEF NextFromList, LaterToday
<1>3. CASE later # {}
  <2>1. \E x \in later : \A y \in later : x <= y
    <3> HIDE DEF later
    <3> QED
      BY <1>1, <1>3, Least
  <2> DEFINE i == CHOOSE x \in later : \A y \in later : x <= y
  <2>2. i \in later /\ \A y \in later : i <= y
    BY <2>1
  <2>3. NextFromList(now) = Midnight[now] + schedule.at[i]
    BY <1>3 DEF NextFromList
  <2> HIDE DEF i
  <2> QED
    BY <2>2, <2>3 DEF LaterToday
<1> QED
  BY <1>2, <1>3

\* A step of the anchor's grid beyond a moment.
LEMMA GridStep ==
  ASSUME NEW a \in Nat, NEW b \in Nat \ {0}
  PROVE  a < (a \div b + 1) * b /\ (a \div b + 1) * b \in Nat
OBVIOUS

\* The next rotation is after now.
LEMMA RotationLater ==
  ASSUME schedule \in Schedules, NEW now \in Time
  PROVE  NextRotation(now) \in Nat /\ NextRotation(now) > now
<1>1. /\ Midnight[now] \in Nat /\ NextMidnight[now] \in Nat /\ now \in Nat
      /\ Midnight[now] <= now /\ now < NextMidnight[now]
  BY ScheduleAssumption DEF Time
<1>2. CASE schedule.interval = 0
  BY <1>1, <1>2, ScheduleType, ListRotation DEF NextRotation
<1>3. CASE schedule.interval > 0
  <2> DEFINE anchor == Midnight[now] + schedule.at[1]
             k == (now - anchor) \div schedule.interval + 1
  <2>1. anchor \in Nat
    BY <1>1, ScheduleType
  <2>2. NextRotation(now) = IF anchor > now THEN anchor ELSE anchor + k * schedule.interval
    BY <1>3 DEF NextRotation, NextFromAnchor
  <2>3. CASE anchor > now
    BY <2>1, <2>2, <2>3
  <2>4. CASE ~(anchor > now)
    <3>1. now - anchor \in Nat /\ schedule.interval \in Nat \ {0}
      BY <1>1, <1>3, <2>1, <2>4, ScheduleType
    <3>2. now - anchor < k * schedule.interval /\ k * schedule.interval \in Nat
      BY <3>1, GridStep
    <3> HIDE DEF anchor, k
    <3> DEFINE step == k * schedule.interval
    <3>3. NextRotation(now) = anchor + step
      BY <2>2, <2>4
    <3>4. step \in Nat /\ now - anchor < step
      BY <3>2
    <3> HIDE DEF step
    <3> QED
      BY <1>1, <2>1, <3>3, <3>4
  <2> QED
    BY <2>3, <2>4
<1> QED
  BY <1>2, <1>3, ScheduleType

-----------------------------------------------------------------------------
(* Types, and the safety net *)

\* Every variable keeps its type, and the loop never sleeps for no time at all.
THEOREM Typing == Spec => []TypeOK
<1>1. Init => TypeOK
  <2>1. DayLength \in Nat /\ MaxTime \in Nat /\ DayLength <= MaxTime + 1
    BY ScheduleAssumption
  <2>2. Init => wall \in 0 .. MaxTime /\ wall \in Nat
    BY <2>1 DEF Init
  <2>3. Init => /\ mono \in Nat /\ wake \in Nat /\ sleep \in Nat /\ deadline \in Nat
                /\ since \in Nat /\ evaluated \in Nat
    BY <2>2 DEF Init
  <2>4. Init => /\ schedule \in Schedules /\ pc = "evaluate"
                /\ force \in BOOLEAN /\ isRotation \in BOOLEAN
    BY DEF Init
  <2> QED
    BY <2>2, <2>3, <2>4 DEF TypeOK
<1>2. TypeOK /\ [Next]_vars => TypeOK'
  <2> SUFFICES ASSUME TypeOK, [Next]_vars
               PROVE  TypeOK'
    OBVIOUS
  <2>0. MaxTime \in Nat /\ wall \in Nat
    BY ScheduleAssumption DEF TypeOK
  <2> USE DEF TypeOK
  <2>1. CASE EvaluateReturns
    BY <2>1 DEF EvaluateReturns, plan
  <2>2. CASE Plan
    <3>1. schedule \in Schedules /\ wall \in Time
      BY DEF Time
    <3>2. NextRotation(wall) \in Nat /\ NextRotation(wall) > wall
      BY <3>1, RotationLater
    <3>3. wall \in Nat /\ schedule.refresh \in Nat \ {0}
      BY <3>1, ScheduleType, ScheduleAssumption DEF Time
    <3> QED
      BY <2>2, <3>2, <3>3 DEF Plan
  <2>3. CASE TimerFires
    BY <2>0, <2>3 DEF TimerFires, Evaluate, plan, Drifted
  <2>4. CASE KickArrives
    BY <2>4 DEF KickArrives, Evaluate, plan
  <2>5. CASE ReloadArrives
    BY <2>0, <2>5 DEF ReloadArrives, Evaluate, plan
  <2>6. CASE Tick
    BY <2>0, <2>6 DEF Tick, plan
  <2>7. CASE Suspend
    BY <2>0, <2>7 DEF Suspend, plan
  <2>8. CASE UNCHANGED vars
    BY <2>8 DEF vars
  <2> QED
    BY <2>1, <2>2, <2>3, <2>4, <2>5, <2>6, <2>7, <2>8 DEF Next
<1> QED
  BY <1>1, <1>2, PTL DEF Spec

\* An evaluation takes a slot at most here, and no sleep is planned beyond the
\* safety net.
NetInv ==
  /\ pc # "sleep" => mono <= evaluated + 1
  /\ pc = "sleep" => deadline <= evaluated + schedule.refresh + 1

\* An awake daemon evaluates at least every refresh_interval, whatever the
\* schedule, the kicks and the reloads.
THEOREM SafetyNet == Spec => []SafetyNetHolds
<1>1. Init => NetInv
  BY DEF Init, NetInv
<1>2. TypeOK /\ NetInv /\ [Next]_vars => NetInv'
  <2> SUFFICES ASSUME TypeOK, NetInv, [Next]_vars
               PROVE  NetInv'
    OBVIOUS
  <2> USE DEF TypeOK, NetInv
  <2>1. CASE EvaluateReturns
    BY <2>1 DEF EvaluateReturns, plan
  <2>2. CASE Plan
    <3>1. schedule \in Schedules /\ wall \in Time
      BY DEF Time
    <3>2. NextRotation(wall) \in Nat /\ NextRotation(wall) > wall
      BY <3>1, RotationLater
    <3>3. wall \in Nat /\ schedule.refresh \in Nat \ {0}
      BY <3>1, ScheduleType, ScheduleAssumption DEF Time
    <3> QED
      BY <2>2, <3>2, <3>3 DEF Plan
  <2>3. CASE TimerFires \/ KickArrives \/ ReloadArrives
    BY <2>3 DEF TimerFires, KickArrives, ReloadArrives, Evaluate
  <2>4. CASE Tick
    BY <2>4, ScheduleType DEF Tick, plan
  <2>5. CASE Suspend
    BY <2>5, ScheduleType DEF Suspend, plan
  <2>6. CASE UNCHANGED vars
    BY <2>6 DEF vars
  <2> QED
    BY <2>1, <2>2, <2>3, <2>4, <2>5, <2>6 DEF Next
<1>3. TypeOK /\ NetInv => SafetyNetHolds
  BY ScheduleType DEF TypeOK, NetInv, SafetyNetHolds
<1> QED
  BY <1>1, <1>2, <1>3, Typing, PTL DEF Spec

-----------------------------------------------------------------------------
(* Suspends *)

\* Both clocks are as far from the end of the sleep, unless only one of them
\* goes on in a suspend.
ClocksAgree == pc = "sleep" => wall - wake = mono - deadline

\* With a monotonic clock that counts suspends, or without any, they agree.
LEMMA Clocks ==
  ASSUME CountsSleep \/ ~Suspends
  PROVE  Spec => []ClocksAgree
<1>1. Init => ClocksAgree
  BY DEF Init, ClocksAgree
<1>2. TypeOK /\ ClocksAgree /\ [Next]_vars => ClocksAgree'
  <2> SUFFICES ASSUME TypeOK, ClocksAgree, [Next]_vars
               PROVE  ClocksAgree'
    OBVIOUS
  <2> USE DEF TypeOK, ClocksAgree
  <2>1. CASE EvaluateReturns \/ TimerFires \/ KickArrives \/ ReloadArrives
    BY <2>1 DEF EvaluateReturns, TimerFires, KickArrives, ReloadArrives, Evaluate
  <2>2. CASE Plan
    <3>1. schedule \in Schedules /\ wall \in Time
      BY DEF Time
    <3>2. NextRotation(wall) \in Nat
      BY <3>1, RotationLater
    <3>3. wall \in Nat /\ schedule.refresh \in Nat
      BY <3>1, ScheduleType, ScheduleAssumption DEF Time
    <3> QED
      BY <2>2, <3>2, <3>3 DEF Plan
  <2>3. CASE Tick
    BY <2>3, ScheduleAssumption DEF Tick, plan
  <2>4. CASE Suspend
    BY <2>4, ScheduleAssumption DEF Suspend, plan
  <2>5. CASE UNCHANGED vars
    BY <2>5 DEF vars
  <2> QED
    BY <2>1, <2>2, <2>3, <2>4, <2>5 DEF Next
<1> QED
  BY <1>1, <1>2, Typing, PTL DEF Spec

-----------------------------------------------------------------------------
(* Rotations *)

\* No offset lies beyond the end of a day, however short.
OffsetsFit ==
  \A s \in Schedules : \A i \in DOMAIN s.at : \A t \in Time :
    Midnight[t] + s.at[i] <= NextMidnight[t]

\* The interval divides each day, or what the anchor leaves of it, and the
\* anchor comes before the day's first interval is over: the grids of two days
\* meet at midnight or at the anchor.
AnchorsFit ==
  \A s \in Schedules : s.interval > 0 =>
    /\ s.at[1] <= s.interval
    /\ \A t \in Time :
         \/ (NextMidnight[t] - Midnight[t]) % s.interval = 0
         \/ (NextMidnight[t] - (Midnight[t] + s.at[1])) % s.interval = 0

\* A day begins before a moment of it and ends after it.
LEMMA DayForm ==
  ASSUME NEW t \in Time
  PROVE  /\ t \in Nat /\ MaxTime \in Nat /\ t <= MaxTime
         /\ Midnight[t] \in Nat /\ NextMidnight[t] \in Nat
         /\ Midnight[t] <= t /\ t < NextMidnight[t]
BY ScheduleAssumption DEF Time

\* An anchor and its interval are numbers.
LEMMA AnchorForm ==
  ASSUME schedule \in Schedules, schedule.interval > 0
  PROVE  schedule.at[1] \in Nat /\ schedule.interval \in Nat \ {0} /\ 1 \in DOMAIN schedule.at
BY ScheduleType

\* The days follow one another.
LEMMA Calendar ==
  ASSUME NEW t \in Time, NEW u \in Time, t <= u
  PROVE  /\ Midnight[t] \in Nat /\ NextMidnight[t] \in Nat /\ Midnight[u] \in Nat
         /\ Midnight[u] <= u
         /\ Midnight[u] = Midnight[t] \/ Midnight[u] >= NextMidnight[t]
BY ScheduleAssumption DEF Time

\* A midnight is the first moment of its day, and the one before it belongs to
\* the day that it ends.
LEMMA DayBounds ==
  ASSUME NEW t \in Time
  PROVE  /\ Midnight[t] \in Time /\ Midnight[Midnight[t]] = Midnight[t]
         /\ NextMidnight[Midnight[t]] > t
         /\ Midnight[t] # 0 => /\ Midnight[t] - 1 \in Time
                               /\ NextMidnight[Midnight[t] - 1] = Midnight[t]
<1> DEFINE d == Midnight[t]
<1>1. t \in Nat /\ MaxTime \in Nat /\ t <= MaxTime /\ d \in Nat /\ d <= t
  BY ScheduleAssumption DEF Time
<1>2. d \in Time
  BY <1>1 DEF Time
<1> HIDE DEF d
<1>3. /\ Midnight[d] \in Nat /\ NextMidnight[d] \in Nat /\ Midnight[d] <= d /\ d < NextMidnight[d]
      /\ IF t < NextMidnight[d] THEN Midnight[t] = Midnight[d] ELSE Midnight[t] >= NextMidnight[d]
  BY <1>1, <1>2, ScheduleAssumption DEF Time
<1>4. Midnight[d] = d /\ t < NextMidnight[d]
  BY <1>1, <1>3 DEF d
<1>5. ASSUME d # 0
      PROVE  d - 1 \in Time /\ NextMidnight[d - 1] = d
  <2> DEFINE e == d - 1
  <2>1. e \in Time /\ e \in Nat /\ e < d
    BY <1>1, <1>5 DEF Time
  <2> HIDE DEF e
  <2>2. /\ Midnight[e] \in Nat /\ NextMidnight[e] \in Nat /\ Midnight[e] <= e /\ e < NextMidnight[e]
        /\ IF d < NextMidnight[e] THEN Midnight[d] = Midnight[e] ELSE Midnight[d] >= NextMidnight[e]
    BY <1>1, <1>2, <2>1, ScheduleAssumption DEF Time
  <2>3. NextMidnight[e] = d
    BY <1>1, <1>4, <2>1, <2>2 DEF e
  <2> QED
    BY <2>1, <2>3 DEF e
<1> QED
  BY <1>2, <1>4, <1>5 DEF d

\* There is no step of a grid between two that follow each other.
LEMMA Grid ==
  ASSUME NEW p \in Nat, NEW x \in Nat, NEW i \in Nat \ {0}, p < x, x % i = 0
  PROVE  (p \div i + 1) * i <= x
<1>1. /\ x = (x \div i) * i /\ x \div i \in Nat
      /\ p \div i \in Nat /\ (p \div i) * i <= p
  OBVIOUS
<1> DEFINE q == x \div i
           r == p \div i
<1>2. q \in Nat /\ r \in Nat /\ x = q * i /\ r * i <= p
  BY <1>1
<1> HIDE DEF q, r
<1>3. r * i < q * i
  BY <1>2
<1>4. r < q
  <2>1. SUFFICES ASSUME q <= r PROVE q * i <= r * i
    BY <1>2, <1>3
  <2> QED
    BY <1>2, <2>1
<1>5. (r + 1) * i <= q * i
  BY <1>2, <1>4
<1> QED
  BY <1>2, <1>5 DEF q, r

\* In list mode NextRotation passes over no moment that is named.
LEMMA ListFirst ==
  ASSUME OffsetsFit, schedule \in Schedules, schedule.interval = 0,
         NEW now \in Time, NEW m \in Time, now < m, m < NextRotation(now)
  PROVE  ~Named(m)
<1> SUFFICES ASSUME NEW j \in DOMAIN schedule.at, m = Midnight[m] + schedule.at[j]
             PROVE  FALSE
  BY DEF Named
<1>1. NextFromList(now) > m /\ now \in Nat /\ m \in Nat
  BY ScheduleAssumption DEF NextRotation, Time
<1>2. /\ Midnight[now] \in Nat /\ NextMidnight[now] \in Nat /\ Midnight[m] \in Nat
      /\ Midnight[m] = Midnight[now] \/ Midnight[m] >= NextMidnight[now]
  BY <1>1, Calendar
<1>3. /\ j \in Nat /\ 1 \in DOMAIN schedule.at /\ 1 <= j
      /\ schedule.at[1] \in Nat /\ schedule.at[j] \in Nat /\ schedule.at[1] <= schedule.at[j]
  BY ScheduleType
<1>4. CASE \E i \in DOMAIN schedule.at :
             /\ NextFromList(now) = Midnight[now] + schedule.at[i]
             /\ \A k \in DOMAIN schedule.at :
                  Midnight[now] + schedule.at[k] > now => i <= k
  <2>1. PICK i \in DOMAIN schedule.at :
               /\ NextFromList(now) = Midnight[now] + schedule.at[i]
               /\ \A k \in DOMAIN schedule.at :
                    Midnight[now] + schedule.at[k] > now => i <= k
    BY <1>4
  <2>2. i \in Nat /\ schedule.at[i] \in Nat
    BY ScheduleType
  <2>3. CASE Midnight[m] = Midnight[now]
    <3>1. i <= j
      BY <2>1, <2>3
    <3>2. schedule.at[i] <= schedule.at[j]
      BY SMTT(30), <1>3, <2>2, <3>1, ScheduleType
    <3> QED
      BY <1>1, <1>2, <1>3, <2>1, <2>2, <2>3, <3>2
  <2>4. CASE Midnight[m] >= NextMidnight[now]
    <3>1. Midnight[now] + schedule.at[i] <= NextMidnight[now]
      BY DEF OffsetsFit
    <3> QED
      BY <1>1, <1>2, <1>3, <2>1, <2>2, <2>4, <3>1
  <2> QED
    BY <1>2, <2>3, <2>4
<1>5. CASE /\ NextFromList(now) = NextMidnight[now] + schedule.at[1]
           /\ \A k \in DOMAIN schedule.at : ~(Midnight[now] + schedule.at[k] > now)
  <2>1. ~(Midnight[now] + schedule.at[j] > now)
    BY <1>5
  <2> QED
    BY <1>1, <1>2, <1>3, <1>5, <2>1
<1> QED
  BY <1>4, <1>5, ListRotation

\* The grid of a day's anchor, and the one of the day before while the anchor
\* is ahead.
LEMMA NamedInGrid ==
  ASSUME schedule \in Schedules, schedule.interval > 0, NEW m \in Time, Named(m)
  PROVE  \/ /\ Midnight[m] + schedule.at[1] <= m
            /\ (m - (Midnight[m] + schedule.at[1])) % schedule.interval = 0
         \/ /\ m < Midnight[m] + schedule.at[1] /\ Midnight[m] # 0
            /\ Midnight[Midnight[m] - 1] + schedule.at[1] <= m
            /\ (m - (Midnight[Midnight[m] - 1] + schedule.at[1])) % schedule.interval = 0
<1>1. schedule.interval # 0 /\ schedule.at[1] \in Nat /\ Midnight[m] \in Nat /\ m \in Nat
  <2>1. schedule.interval # 0 /\ schedule.at[1] \in Nat
    BY ScheduleType
  <2>2. Midnight[m] \in Nat /\ m \in Nat
    BY DayForm
  <2> QED
    BY <2>1, <2>2
<1>2. Anchor(m) <= m /\ (m - Anchor(m)) % schedule.interval = 0
  BY <1>1 DEF Named
<1>3. CASE Midnight[m] + schedule.at[1] <= m \/ Midnight[m] = 0
  BY <1>2, <1>3 DEF Anchor
<1>4. CASE ~(Midnight[m] + schedule.at[1] <= m \/ Midnight[m] = 0)
  BY <1>1, <1>2, <1>4 DEF Anchor
<1> QED
  BY <1>3, <1>4

\* After midnight nothing is named until the anchor of the day.
LEMMA BeforeAnchor ==
  ASSUME OffsetsFit, AnchorsFit, schedule \in Schedules, schedule.interval > 0,
         NEW m \in Time, Midnight[m] < m, m < Midnight[m] + schedule.at[1]
  PROVE  ~Named(m)
<1> DEFINE a == schedule.at[1]
           i == schedule.interval
           d == Midnight[m]
           y == Midnight[d - 1]
<1>1. SUFFICES ASSUME Named(m) PROVE FALSE
  OBVIOUS
<1>2. m \in Nat /\ a \in Nat /\ i \in Nat \ {0} /\ d \in Nat /\ d < m /\ m < d + a
  BY AnchorForm, DayForm
<1>3. d # 0 /\ y + a <= m /\ (m - (y + a)) % i = 0
  BY <1>1, <1>2, NamedInGrid
<1>4. d - 1 \in Time /\ NextMidnight[d - 1] = d /\ y \in Nat
  BY <1>3, DayBounds, DayForm
<1>5. y + a <= d
  BY <1>4, AnchorForm DEF OffsetsFit
<1>6. a <= i /\ ((d - y) % i = 0 \/ (d - (y + a)) % i = 0)
  BY <1>4 DEF AnchorsFit
<1> HIDE DEF a, i, d, y
<1> DEFINE x == m - (y + a)
<1>7. x \in Nat /\ x % i = 0 /\ (x \div i + 1) * i = x + i
  <2>1. x \in Nat /\ x % i = 0
    BY <1>2, <1>3, <1>4
  <2> HIDE DEF x
  <2>2. x = (x \div i) * i /\ x \div i \in Nat
    BY <1>2, <2>1
  <2>3. (x \div i + 1) * i = (x \div i) * i + i
    BY <1>2, <2>2
  <2> QED
    BY <2>1, <2>2, <2>3
<1>8. CASE (d - y) % i = 0
  <2> DEFINE l == d - y
  <2>1. l \in Nat /\ x < l /\ l % i = 0
    BY <1>2, <1>4, <1>5, <1>8
  <2> HIDE DEF l, x
  <2>2. x + i <= l
    BY <1>2, <1>7, <2>1, Grid
  <2> QED
    BY <1>2, <1>4, <1>6, <2>2 DEF l, x
<1>9. CASE (d - (y + a)) % i = 0
  <2> DEFINE l == d - (y + a)
  <2>1. l \in Nat /\ l < x /\ l % i = 0
    BY <1>2, <1>4, <1>5, <1>9
  <2> HIDE DEF l, x
  <2>2. (l \div i + 1) * i <= x
    BY <1>2, <1>7, <2>1, Grid
  <2>3. (l \div i + 1) * i = l + i
    <3>1. l = (l \div i) * i /\ l \div i \in Nat
      BY <1>2, <2>1
    <3> QED
      BY <1>2, <3>1
  <2> QED
    BY <1>2, <1>4, <1>6, <2>2, <2>3 DEF l, x
<1> QED
  BY <1>6, <1>8, <1>9

\* A step of a grid is a step of the grid.
LEMMA Multiple ==
  ASSUME NEW k \in Nat, NEW i \in Nat \ {0}
  PROVE  (k * i) % i = 0
<1> DEFINE x == k * i
<1>1. x \in Nat
  OBVIOUS
<1> DEFINE q == x \div i
           r == x % i
<1>2. x = q * i + r /\ q \in Nat /\ r \in Nat /\ r < i
  <2> HIDE DEF x
  <2> QED
    BY <1>1
<1> HIDE DEF q, r
<1>3. k * i = q * i + r
  BY <1>2
<1>4. ~(k < q)
  <2>1. SUFFICES ASSUME k < q PROVE k * i < q * i
    BY <1>2, <1>3
  <2>2. (k + 1) * i <= q * i /\ (k + 1) * i = k * i + i
    BY <1>2, <2>1
  <2> QED
    BY <1>2, <2>2
<1>5. ~(q < k)
  <2>1. SUFFICES ASSUME q < k PROVE q * i + i <= k * i
    BY <1>2, <1>3
  <2>2. (q + 1) * i <= k * i /\ (q + 1) * i = q * i + i
    BY <1>2, <2>1
  <2> QED
    BY <2>2
<1>6. q = k
  BY <1>2, <1>4, <1>5
<1>7. r = 0
  BY <1>2, <1>3, <1>6
<1> QED
  BY <1>7 DEF r, x

\* In anchor mode the next rotation is the day's anchor or a step of its grid,
\* which does not go beyond the anchor of the next day.
LEMMA AnchorStep ==
  ASSUME OffsetsFit, AnchorsFit, schedule \in Schedules, schedule.interval > 0, NEW now \in Time
  PROVE  LET anchor == Midnight[now] + schedule.at[1]
             next == NextRotation(now)
         IN  \/ anchor > now /\ next = anchor
             \/ /\ anchor <= now /\ now < next /\ next \in Nat
                /\ next <= NextMidnight[now] + schedule.at[1]
                /\ (next - anchor) % schedule.interval = 0
<1> DEFINE a == schedule.at[1]
           i == schedule.interval
           d == Midnight[now]
           n == NextMidnight[now]
           next == NextRotation(now)
           p == now - (d + a)
           g == (p \div i + 1) * i
<1>1. /\ now \in Nat /\ a \in Nat /\ i \in Nat \ {0} /\ d \in Nat /\ n \in Nat
      /\ d <= now /\ now < n /\ next \in Nat /\ now < next
  BY AnchorForm, RotationLater, DayForm
<1>2. next = IF d + a > now THEN d + a ELSE d + a + g
  BY DEF NextRotation, NextFromAnchor
<1>3. d + a <= n
  BY AnchorForm DEF OffsetsFit
<1>4. a <= i /\ ((n - d) % i = 0 \/ (n - (d + a)) % i = 0)
  BY DEF AnchorsFit
<1>5. CASE d + a > now
  BY <1>2, <1>5
<1>6. CASE ~(d + a > now)
  <2>1. p \in Nat /\ p < n - (d + a)
    BY <1>1, <1>6
  <2>2. g \in Nat /\ g % i = 0
    <3> HIDE DEF p, i
    <3>1. p \div i + 1 \in Nat
      BY <1>1, <2>1
    <3> QED
      BY <1>1, <2>1, <3>1, GridStep, Multiple
  <2>3. \A x \in Nat : p < x /\ x % i = 0 => g <= x
    <3> HIDE DEF p, i
    <3> QED
      BY <1>1, <2>1, Grid
  <2>4. next = d + a + g
    BY <1>2, <1>6
  <2> HIDE DEF g, next
  <2>5. next <= n + a
    <3>1. CASE (n - d) % i = 0
      <4> DEFINE x == n - d
      <4>1. x \in Nat /\ p < x /\ x % i = 0
        BY <1>1, <2>1, <3>1
      <4> HIDE DEF x
      <4>2. g <= x
        BY <2>3, <4>1
      <4> QED
        BY <1>1, <2>2, <2>4, <4>2 DEF x
    <3>2. CASE (n - (d + a)) % i = 0
      <4> DEFINE x == n - (d + a)
      <4>1. x \in Nat /\ p < x /\ x % i = 0
        BY <1>1, <1>3, <2>1, <3>2
      <4> HIDE DEF x
      <4>2. g <= x
        BY <2>3, <4>1
      <4> QED
        BY <1>1, <2>2, <2>4, <4>2 DEF x
    <3> QED
      BY <1>4, <3>1, <3>2
  <2>6. next - (d + a) = g /\ d + a <= now
    BY <1>1, <1>6, <2>2, <2>4
  <2>7. (next - (d + a)) % i = 0
    BY <2>2, <2>6
  <2> QED
    BY <1>1, <2>5, <2>6, <2>7 DEF next
<1> QED
  BY <1>5, <1>6

\* In anchor mode, too, NextRotation passes over no moment that is named.
LEMMA AnchorFirst ==
  ASSUME OffsetsFit, AnchorsFit, schedule \in Schedules, schedule.interval > 0,
         NEW now \in Time, NEW m \in Time, now < m, m < NextRotation(now)
  PROVE  ~Named(m)
<1> DEFINE a == schedule.at[1]
           i == schedule.interval
           d == Midnight[now]
           n == NextMidnight[now]
           next == NextRotation(now)
           k == (now - (d + a)) \div i + 1
<1>1. SUFFICES ASSUME Named(m) PROVE FALSE
  OBVIOUS
<1>2. /\ now \in Nat /\ m \in Nat /\ a \in Nat /\ i \in Nat \ {0} /\ d \in Nat /\ n \in Nat
      /\ d <= now /\ now < n /\ d + a <= n /\ next \in Nat
  <2>1. d + a <= n
    BY AnchorForm DEF OffsetsFit
  <2> QED
    BY <2>1, AnchorForm, RotationLater, DayForm
<1>3. next = IF d + a > now THEN d + a ELSE d + a + k * i
  BY DEF NextRotation, NextFromAnchor
<1>4. Midnight[m] \in Nat /\ Midnight[m] <= m /\ (Midnight[m] = d \/ Midnight[m] >= n)
  BY <1>2, Calendar
<1>5. Midnight[m] = d => m < n
  <2>1. IF m < n THEN Midnight[m] = d ELSE Midnight[m] >= n
    BY <1>2, ScheduleAssumption DEF Time
  <2> QED
    BY <1>2, <2>1
<1>6. Midnight[m] < m => Midnight[m] + a <= m
  BY <1>1, <1>2, <1>4, BeforeAnchor
<1>7. CASE d + a > now
  BY <1>2, <1>3, <1>4, <1>6, <1>7
<1>8. CASE ~(d + a > now)
  <2> DEFINE p == now - (d + a)
             g == (p \div i + 1) * i
  <2>1. p \in Nat /\ next = d + a + g /\ g \in Nat
    <3>1. p \in Nat
      BY <1>2, <1>8
    <3>2. g \in Nat
      <4> HIDE DEF p
      <4> QED
        BY <1>2, <3>1, GridStep
    <3> QED
      BY <1>3, <1>8, <3>1, <3>2
  <2>2. \A x \in Nat : p < x /\ x % i = 0 => g <= x
    <3> HIDE DEF p, i
    <3> QED
      BY <1>2, <2>1, Grid
  <2> HIDE DEF p, g, k
  <2>3. CASE Midnight[m] = d
    <3>1. m \in Nat /\ d + a <= m
      BY <1>2, <1>8
    <3>2. (m - (d + a)) % i = 0
      BY <1>1, <1>2, <2>3, <3>1, NamedInGrid
    <3> DEFINE x == m - (d + a)
    <3>3. x \in Nat /\ p < x /\ x % i = 0
      BY <1>2, <3>1, <3>2 DEF p
    <3> HIDE DEF x
    <3>4. g <= x
      BY <2>2, <3>3
    <3> QED
      BY <1>2, <2>1, <3>1, <3>4 DEF x
  <2>4. CASE Midnight[m] >= n
    <3>1. next <= n + a
      BY <1>8, AnchorStep
    <3>2. m < n + a /\ n <= m /\ n \in Time
      <4>1. m < n + a /\ n <= m
        <5> HIDE DEF a, i, d, n, next
        <5> QED
          BY <1>2, <1>4, <2>4, <3>1 DEF next
      <4> QED
        BY <1>2, <4>1, DayForm DEF Time
    <3>3. Midnight[n] = n
      <4>1. Midnight[n] >= n
        BY <1>2, <3>2, ScheduleAssumption DEF Time
      <4> QED
        BY <1>2, <3>2, <4>1, DayForm
    <3>4. Midnight[m] = n
      <4>1. n + a <= NextMidnight[n]
        BY <3>2, <3>3, AnchorForm DEF OffsetsFit
      <4>2. m < NextMidnight[n]
        BY <1>2, <3>2, <4>1, DayForm
      <4> QED
        BY <1>2, <1>4, <3>2, <3>3, <4>2, Calendar
    <3>5. m = n /\ m < n + a /\ n # 0
      BY <1>2, <1>4, <1>6, <3>2, <3>4
    <3>6. Midnight[n - 1] = d
      <4>1. n - 1 \in Time /\ now <= n - 1 /\ NextMidnight[n - 1] = n
        BY <1>2, <3>2, <3>3, <3>5, DayBounds
      <4> QED
        BY <1>2, <4>1, Calendar, DayForm
    <3>7. (m - (d + a)) % i = 0
      BY <1>1, <1>2, <3>4, <3>5, <3>6, NamedInGrid
    <3> DEFINE x == m - (d + a)
    <3>8. x \in Nat /\ p < x /\ x % i = 0
      BY <1>2, <3>5, <3>7 DEF p
    <3> HIDE DEF x
    <3>9. g <= x
      BY <2>2, <3>8
    <3> QED
      BY <1>2, <2>1, <3>9 DEF x
  <2> QED
    BY <1>4, <2>3, <2>4
<1> QED
  BY <1>7, <1>8

\* NextRotation passes over no moment that is named.
LEMMA RotationFirst ==
  ASSUME OffsetsFit, AnchorsFit, schedule \in Schedules,
         NEW now \in Time, NEW m \in Time, now < m, m < NextRotation(now)
  PROVE  ~Named(m)
<1>1. schedule.interval = 0 \/ schedule.interval > 0
  BY ScheduleType
<1> QED
  BY <1>1, ListFirst, AnchorFirst

\* Every moment named since the last forced draw is ahead of the loop's sleep,
\* or is the rotation that ends it.
OwedInv ==
  /\ since <= wall
  /\ pc # "sleep" => \A m \in Time : since < m /\ m <= wall => ~Named(m)
  /\ pc = "sleep" =>
       /\ mono > deadline => since = wall
       /\ \A m \in Time : since < m /\ m < wake => ~Named(m)
       /\ ~isRotation => \A m \in Time : since < m /\ m = wake => ~Named(m)

\* A day's rotations, listed or counted from an anchor, are served in full:
\* asleep before its timer is due, the loop has forced a draw after every moment
\* named, whatever kicks, reloads, safety nets and midnights came in between.
THEOREM Served ==
  ASSUME OffsetsFit, AnchorsFit, CountsSleep \/ ~Suspends
  PROVE  Spec => []RotationServed
<1>1. Init => OwedInv
  <2>1. Init => wall \in Nat
    BY ScheduleAssumption DEF Init
  <2> QED
    BY <2>1, ScheduleAssumption DEF Init, OwedInv, Time
<1>2. TypeOK /\ ClocksAgree /\ OwedInv /\ [Next]_vars => OwedInv'
  <2> SUFFICES ASSUME TypeOK, ClocksAgree, OwedInv, [Next]_vars
               PROVE  OwedInv'
    OBVIOUS
  <2>0. /\ wall \in Nat /\ mono \in Nat /\ since \in Nat /\ wake \in Nat /\ deadline \in Nat
        /\ Time \subseteq Nat /\ MaxTime \in Nat /\ wall \in Time
        /\ schedule \in Schedules /\ schedule.refresh \in Nat
    BY ScheduleAssumption, ScheduleType DEF TypeOK, Time
  <2>1. CASE EvaluateReturns
    BY <2>1 DEF EvaluateReturns, OwedInv, Named, Anchor
  <2>2. CASE Plan
    <3> DEFINE rot == NextRotation(wall)
    <3>1. rot \in Nat /\ rot > wall
      BY <2>0, RotationLater
    <3>2. \A m \in Time : wall < m /\ m < rot => ~Named(m)
      BY <2>0, RotationFirst
    <3>3. /\ wake' \in Nat /\ wake' <= rot /\ (~isRotation' => wake' < rot)
          /\ ~(mono' > deadline') /\ since' = since /\ wall' = wall /\ pc' = "sleep"
          /\ schedule' = schedule
      <4>1. /\ isRotation' = (rot <= wall + schedule.refresh)
            /\ wake' = IF rot <= wall + schedule.refresh THEN rot ELSE wall + schedule.refresh
            /\ deadline' = mono + (wake' - wall) /\ mono' = mono /\ since' = since
            /\ wall' = wall /\ pc' = "sleep" /\ schedule' = schedule
        BY <2>2 DEF Plan
      <4> HIDE DEF rot
      <4>2. schedule.refresh > 0
        BY <2>0, ScheduleType
      <4>3. CASE rot <= wall + schedule.refresh
        <5>1. isRotation'
          BY <4>1, <4>3
        <5>2. wake' = rot /\ ~(mono' > deadline')
          BY <2>0, <3>1, <4>1, <4>3
        <5> QED
          BY <3>1, <4>1, <5>1, <5>2
      <4>4. CASE ~(rot <= wall + schedule.refresh)
        BY <2>0, <3>1, <4>1, <4>2, <4>4
      <4> QED
        BY <4>3, <4>4
    <3>4. /\ pc # "sleep" /\ since <= wall
          /\ \A m \in Time : since < m /\ m <= wall => ~Named(m)
      BY <2>2 DEF Plan, OwedInv
    <3>5. \A m \in Time : Named(m)' <=> Named(m)
      BY <3>3 DEF Named, Anchor
    <3> HIDE DEF rot
    <3>6. \A m \in Time : since < m /\ m < rot => ~Named(m)
      BY <2>0, <3>1, <3>2, <3>4
    <3>7. \A m \in Time : since' < m /\ m < wake' => ~Named(m)'
      BY <2>0, <3>1, <3>3, <3>5, <3>6
    <3>8. ~isRotation' => \A m \in Time : since' < m /\ m = wake' => ~Named(m)'
      BY <2>0, <3>1, <3>3, <3>5, <3>6
    <3> QED
      BY <3>3, <3>4, <3>7, <3>8 DEF OwedInv
  <2>3. CASE TimerFires
    <3>1. /\ pc' = "evaluate" /\ wall' = wall /\ schedule' = schedule /\ mono >= deadline
          /\ since' = IF force' THEN wall ELSE since
          /\ isRotation => force'
          /\ since <= wall /\ pc = "sleep"
      BY <2>3 DEF TimerFires, Evaluate, OwedInv
    <3>2. \A m \in Time : Named(m)' <=> Named(m)
      BY <3>1 DEF Named, Anchor
    <3>3. CASE since' = wall
      BY <2>0, <3>1, <3>3 DEF OwedInv
    <3>4. CASE since' = since /\ ~isRotation /\ since # wall
      <4>1. ~(mono > deadline) /\ wall = wake
        BY <2>0, <3>1, <3>4 DEF OwedInv, ClocksAgree
      <4>2. \A m \in Time : since < m /\ m <= wall => ~Named(m)
        BY <2>0, <3>1, <3>4, <4>1 DEF OwedInv
      <4> QED
        BY <3>1, <3>2, <3>4, <4>2 DEF OwedInv
    <3> QED
      BY <3>1, <3>3, <3>4
  <2>4. CASE KickArrives
    BY <2>0, <2>4 DEF KickArrives, Evaluate, OwedInv
  <2>5. CASE ReloadArrives
    <3>1. /\ pc' = "evaluate" /\ wall' = wall /\ pc = "sleep" /\ since <= wall
          /\ since' = IF schedule' = schedule /\ ~(isRotation /\ mono >= deadline)
                      THEN since ELSE wall
      BY <2>5 DEF ReloadArrives, Evaluate, Due, OwedInv
    <3>2. CASE since' = wall
      BY <2>0, <3>1, <3>2 DEF OwedInv
    <3>3. CASE schedule' = schedule /\ since' = since /\ since # wall
      <4>1. \A m \in Time : Named(m)' <=> Named(m)
        BY <3>3 DEF Named, Anchor
      <4>2. wall - wake = mono - deadline /\ ~(mono > deadline)
        BY <2>0, <3>1, <3>3 DEF ClocksAgree, OwedInv
      <4>3. CASE mono < deadline
        <5>1. wall < wake
          BY <2>0, <4>2, <4>3
        <5> QED
          BY <2>0, <3>1, <3>3, <4>1, <5>1 DEF OwedInv
      <4>4. CASE mono = deadline /\ ~isRotation
        <5>1. wall = wake
          BY <2>0, <4>2, <4>4
        <5> QED
          BY <2>0, <3>1, <3>3, <4>1, <4>4, <5>1 DEF OwedInv
      <4> QED
        BY <2>0, <3>1, <3>3, <4>2, <4>3, <4>4
    <3> QED
      BY <3>1, <3>2, <3>3
  <2>6. CASE Tick
    <3>1. /\ pc' = pc /\ wake' = wake /\ deadline' = deadline /\ isRotation' = isRotation
          /\ schedule' = schedule /\ wall' = wall + 1 /\ mono' = mono + 1
          /\ \/ pc = "sleep" /\ mono < deadline /\ since' = since
             \/ pc # "sleep" /\ since' = wall'
      BY <2>6 DEF Tick, plan
    <3>2. \A m \in Time : Named(m)' <=> Named(m)
      BY <3>1 DEF Named, Anchor
    <3>3. CASE pc = "sleep"
      BY <2>0, <3>1, <3>2, <3>3 DEF OwedInv
    <3>4. CASE pc # "sleep"
      BY <2>0, <3>1, <3>4 DEF OwedInv
    <3> QED
      BY <3>3, <3>4
  <2>7. CASE Suspend
    <3>1. /\ pc' = pc /\ pc = "sleep" /\ wake' = wake /\ isRotation' = isRotation
          /\ schedule' = schedule /\ since' = wall' /\ wall' \in Nat /\ wall < wall'
      BY <2>0, <2>7 DEF Suspend, plan
    <3>2. \A m \in Time : Named(m)' <=> Named(m)
      BY <3>1 DEF Named, Anchor
    <3>3. since <= wall
      BY DEF OwedInv
    <3> QED
      BY <2>0, <3>1, <3>2, <3>3 DEF OwedInv
  <2>8. CASE UNCHANGED vars
    BY <2>8 DEF vars, OwedInv, Named, Anchor
  <2> QED
    BY <2>1, <2>2, <2>3, <2>4, <2>5, <2>6, <2>7, <2>8 DEF Next
<1>3. TypeOK /\ ClocksAgree /\ OwedInv => RotationServed
  <2> SUFFICES ASSUME TypeOK, ClocksAgree, OwedInv, pc = "sleep", mono < deadline,
                      NEW m \in since + 1 .. wall
               PROVE  ~Named(m)
    BY DEF RotationServed
  <2>1. wall \in Nat /\ since \in Nat /\ wake \in Nat /\ MaxTime \in Nat /\ wall <= MaxTime
    BY ScheduleAssumption DEF TypeOK
  <2>2. m \in Time /\ since < m /\ m < wake
    BY <2>1 DEF ClocksAgree, TypeOK, Time
  <2> QED
    BY <2>2 DEF OwedInv
<1> QED
  BY <1>1, <1>2, <1>3, Typing, Clocks, PTL DEF Spec

-----------------------------------------------------------------------------
(* Forced draws *)

\* No offset lies at or beyond the end of a day, however short.
OffsetsInside ==
  \A s \in Schedules : \A i \in DOMAIN s.at : \A t \in Time :
    Midnight[t] + s.at[i] < NextMidnight[t]

\* That is more than RotationFirst asks for.
LEMMA InsideFits == ASSUME OffsetsInside PROVE OffsetsFit
<1>1. ASSUME NEW s \in Schedules, NEW i \in DOMAIN s.at, NEW t \in Time
      PROVE  Midnight[t] + s.at[i] <= NextMidnight[t]
  <2>1. Midnight[t] + s.at[i] < NextMidnight[t]
    BY DEF OffsetsInside
  <2>2. s \in [at : Seq(0 .. DayLength - 1), interval : Nat, refresh : Nat \ {0}]
    BY ScheduleAssumption
  <2>3. s.at[i] \in Nat
    BY SMTT(30), <2>2, ScheduleAssumption
  <2> QED
    BY <2>1, <2>3, DayForm
<1> QED
  BY <1>1 DEF OffsetsFit

\* Each offset belongs to the day it is counted from,
LEMMA OffsetOfDay ==
  ASSUME OffsetsInside, schedule \in Schedules, NEW d \in Time, Midnight[d] = d,
         NEW i \in DOMAIN schedule.at, NEW m \in Time, d <= m, m <= d + schedule.at[i]
  PROVE  Midnight[m] = d
<1>1. d + schedule.at[i] < NextMidnight[d]
  BY DEF OffsetsInside
<1>2. schedule.at[i] \in Nat /\ d \in Nat /\ m \in Nat
  BY ScheduleType, DayForm
<1>3. m < NextMidnight[d]
  BY <1>1, <1>2, DayForm
<1> QED
  BY <1>2, <1>3, ScheduleAssumption DEF Time

\* and the midnight after a moment, if it is in reach, begins a day.
LEMMA NextDayBegins ==
  ASSUME NEW t \in Time, NEW m \in Time, NextMidnight[t] <= m
  PROVE  /\ NextMidnight[t] \in Time /\ Midnight[NextMidnight[t]] = NextMidnight[t]
         /\ NextMidnight[t] # 0 /\ Midnight[NextMidnight[t] - 1] = Midnight[t]
<1> DEFINE n == NextMidnight[t]
<1>1. n \in Time /\ n \in Nat /\ t \in Nat /\ t < n /\ n # 0 /\ n <= MaxTime /\ MaxTime \in Nat
  <2>1. MaxTime \in Nat /\ m \in Nat /\ m <= MaxTime
    BY DayForm
  <2>2. n \in Nat /\ t \in Nat /\ t < n /\ n <= m
    BY DayForm
  <2> HIDE DEF n
  <2> QED
    BY <2>1, <2>2 DEF Time
<1>2. Midnight[n] = n
  <2> HIDE DEF n
  <2>1. Midnight[n] >= n
    BY <1>1, ScheduleAssumption DEF n, Time
  <2> QED
    BY <1>1, <2>1, DayForm
<1>3. Midnight[n - 1] = Midnight[t]
  <2>1. n - 1 \in Time /\ t <= n - 1 /\ n - 1 < n
    <3> HIDE DEF n
    <3> QED
      BY <1>1 DEF Time
  <2> DEFINE e == n - 1
  <2>2. e \in Time /\ t <= e /\ e < NextMidnight[t]
    BY <2>1
  <2> HIDE DEF e
  <2>3. Midnight[e] = Midnight[t]
    BY <1>1, <2>2, ScheduleAssumption DEF Time
  <2> QED
    BY <2>3 DEF e
<1> QED
  BY <1>1, <1>2, <1>3

\* NextRotation gives a moment that is named,
LEMMA RotationNamed ==
  ASSUME OffsetsInside, AnchorsFit, schedule \in Schedules,
         NEW now \in Time, NextRotation(now) \in Time
  PROVE  Named(NextRotation(now))
<1> DEFINE m == NextRotation(now)
           d == Midnight[now]
           n == NextMidnight[now]
<1>1. /\ now \in Nat /\ m \in Nat /\ now < m /\ d \in Nat /\ n \in Nat /\ d <= now
      /\ d \in Time /\ Midnight[d] = d
  BY RotationLater, DayForm, DayBounds
<1>2. OffsetsFit
  BY InsideFits
<1>3. 1 \in DOMAIN schedule.at /\ schedule.at[1] \in Nat
  BY ScheduleType
<1>4. CASE schedule.interval = 0
  <2>1. m = NextFromList(now)
    BY <1>4 DEF NextRotation
  <2>2. CASE \E i \in DOMAIN schedule.at : m = d + schedule.at[i]
    <3>1. PICK i \in DOMAIN schedule.at : m = d + schedule.at[i]
      BY <2>2
    <3> HIDE DEF m, d
    <3>2. Midnight[m] = d
      BY <1>1, <3>1, OffsetOfDay DEF m
    <3> QED
      BY <1>4, <3>1, <3>2 DEF m, Named
  <2>3. CASE m = n + schedule.at[1]
    <3>1. n <= m
      BY <1>1, <1>3, <2>3
    <3>2. n \in Time /\ Midnight[n] = n
      BY <3>1, NextDayBegins
    <3> HIDE DEF m, n
    <3>3. Midnight[m] = n
      BY <1>1, <1>3, <2>3, <3>1, <3>2, OffsetOfDay DEF m
    <3> QED
      BY <1>3, <1>4, <2>3, <3>3 DEF m, Named
  <2> QED
    BY <2>1, <2>2, <2>3, ListRotation
<1>5. CASE schedule.interval > 0
  <2> DEFINE a == schedule.at[1]
  <2>1. schedule.interval # 0 /\ schedule.interval \in Nat \ {0} /\ d + a < n
    BY <1>3, <1>5, ScheduleType DEF OffsetsInside
  <2>2. CASE m = d + a /\ d + a > now
    <3> HIDE DEF m, d
    <3>1. Midnight[m] = d
      BY <1>1, <1>3, <2>2, OffsetOfDay DEF m
    <3>2. Anchor(m) = m
      BY <1>1, <1>3, <2>2, <3>1 DEF Anchor
    <3>3. (m - m) % schedule.interval = 0
      BY <1>1, <2>1
    <3> QED
      BY <1>1, <2>1, <3>2, <3>3 DEF m, Named
  <2>3. CASE d + a <= now /\ m <= n + a /\ (m - (d + a)) % schedule.interval = 0
    <3>1. CASE m < n
      <4>1. Midnight[m] = d
        <5> HIDE DEF m
        <5> QED
          BY <1>1, <3>1, ScheduleAssumption DEF m, Time
      <4> HIDE DEF m, d
      <4>2. Anchor(m) = d + a
        BY <1>1, <1>3, <2>3, <4>1 DEF Anchor
      <4> QED
        BY <1>1, <1>3, <2>1, <2>3, <4>2 DEF m, Named
    <3>2. CASE n <= m
      <4>1. n \in Time /\ Midnight[n] = n /\ n # 0 /\ Midnight[n - 1] = d
        BY <3>2, NextDayBegins
      <4> HIDE DEF m, n, d
      <4>2. Midnight[m] = n
        BY <1>1, <1>3, <2>3, <3>2, <4>1, OffsetOfDay DEF m
      <4>3. CASE m = n + a
        <5>1. Anchor(m) = m
          BY <1>1, <1>3, <4>2, <4>3 DEF Anchor
        <5>2. (m - m) % schedule.interval = 0
          BY <1>1, <2>1
        <5> QED
          BY <1>1, <2>1, <5>1, <5>2 DEF m, Named
      <4>4. CASE m < n + a
        <5>1. Anchor(m) = d + a
          BY <1>1, <1>3, <4>1, <4>2, <4>4 DEF Anchor
        <5> QED
          BY <1>1, <1>3, <2>1, <2>3, <5>1 DEF m, Named
      <4> QED
        BY <1>1, <1>3, <2>3, <4>3, <4>4
    <3> QED
      BY <1>1, <3>1, <3>2
  <2> QED
    BY <1>2, <1>5, <2>2, <2>3, AnchorStep
<1> QED
  BY <1>4, <1>5, ScheduleType

\* and the loop means to wake for a rotation exactly when it wakes at one.
WakeInv == pc = "sleep" /\ wake \in Time => (isRotation <=> Named(wake))

\* With a monotonic clock that counts suspends, or without any suspend, the
\* timer forces a draw at every moment named that it is set for, after every
\* sleep that has lasted twice its length, and at no other time: the safety net
\* and a rotation are told apart in the plan, an overrun by the clocks.
THEOREM TimerIsExact ==
  ASSUME OffsetsInside, AnchorsFit, CountsSleep \/ ~Suspends
  PROVE  Spec => TimerForces
<1>0. OffsetsFit
  BY InsideFits
<1>1. Init => WakeInv
  BY DEF Init, WakeInv
<1>2. TypeOK /\ WakeInv /\ [Next]_vars => WakeInv'
  <2> SUFFICES ASSUME TypeOK, WakeInv, [Next]_vars
               PROVE  WakeInv'
    OBVIOUS
  <2>1. CASE EvaluateReturns \/ TimerFires \/ KickArrives \/ ReloadArrives
    BY <2>1 DEF EvaluateReturns, TimerFires, KickArrives, ReloadArrives, Evaluate, WakeInv
  <2>2. CASE Plan
    <3> DEFINE rot == NextRotation(wall)
    <3>1. wall \in Time /\ wall \in Nat /\ schedule \in Schedules /\ schedule.refresh \in Nat \ {0}
      BY ScheduleType, ScheduleAssumption DEF TypeOK, Time
    <3>2. rot \in Nat /\ wall < rot
      BY <3>1, RotationLater
    <3>3. /\ schedule' = schedule
          /\ isRotation' = (rot <= wall + schedule.refresh)
          /\ wake' = IF rot <= wall + schedule.refresh THEN rot ELSE wall + schedule.refresh
      BY <2>2 DEF Plan
    <3>4. \A m \in Time : Named(m)' <=> Named(m)
      BY <3>3 DEF Named, Anchor
    <3>5. SUFFICES ASSUME wake' \in Time PROVE isRotation' <=> Named(wake')
      BY <3>3, <3>4 DEF WakeInv, Named, Anchor
    <3>6. CASE rot <= wall + schedule.refresh
      <4>1. wake' = rot
        BY <3>3, <3>6
      <4>2. Named(rot)
        BY <3>1, <3>5, <4>1, RotationNamed
      <4> HIDE DEF rot
      <4> QED
        BY <3>3, <3>6, <4>1, <4>2
    <3>7. CASE ~(rot <= wall + schedule.refresh)
      <4> DEFINE m == wall + schedule.refresh
      <4>1. wake' = m
        BY <3>3, <3>7
      <4>2. m \in Time /\ wall < m /\ m < rot
        BY <3>1, <3>2, <3>5, <3>7, <4>1
      <4> HIDE DEF m
      <4>3. ~Named(m)
        BY <1>0, <3>1, <4>2, RotationFirst
      <4> HIDE DEF rot
      <4> QED
        BY <3>3, <3>7, <4>1, <4>3
    <3> QED
      BY <3>6, <3>7
  <2>3. CASE Tick \/ Suspend \/ UNCHANGED vars
    <3>1. pc' = pc /\ wake' = wake /\ isRotation' = isRotation /\ schedule' = schedule
      BY <2>3 DEF Tick, Suspend, vars, plan
    <3> QED
      BY <3>1 DEF WakeInv, Named, Anchor
  <2> QED
    BY <2>1, <2>2, <2>3 DEF Next
<1>3. TypeOK /\ ClocksAgree /\ WakeInv /\ [Next]_vars
        => [TimerFires => (force' <=> Named(wake) \/ wall - wake >= sleep)]_vars
  <2> SUFFICES ASSUME TypeOK, ClocksAgree, WakeInv, TimerFires
               PROVE  force' <=> Named(wake) \/ wall - wake >= sleep
    OBVIOUS
  <2>1. /\ wall \in Nat /\ wall <= MaxTime /\ MaxTime \in Nat /\ wake \in Nat
        /\ mono \in Nat /\ deadline \in Nat /\ sleep \in Nat /\ sleep > 0 /\ pc = "sleep"
    BY ScheduleAssumption DEF TypeOK, TimerFires
  <2>2. wall - wake = mono - deadline /\ mono >= deadline
    BY <2>1 DEF ClocksAgree, TimerFires
  <2>3. wake \in Time
    BY <2>1, <2>2 DEF Time
  <2>4. isRotation <=> Named(wake)
    BY <2>1, <2>3 DEF WakeInv
  <2>5. Lateness = wall - wake
    BY <2>2 DEF Lateness
  <2>6. force' = (isRotation \/ wall - wake >= sleep)
    BY <2>1, <2>5 DEF TimerFires, Evaluate, Drifted
  <2> QED
    BY <2>4, <2>6
<1> QED
  BY <1>1, <1>2, <1>3, Typing, Clocks, PTL DEF Spec, TimerForces
=============================================================================
