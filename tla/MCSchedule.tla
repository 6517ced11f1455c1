----------------------------- MODULE MCSchedule -----------------------------
(* Instances of Schedule for TLC. *)
EXTENDS Schedule

\* The second day is a slot short, as in spring.
Midnights == {0, 12, 23, 35, 47, 59}
MCMidnight == [t \in 0 .. MaxTime |-> CHOOSE m \in Midnights : m <= t /\ \A n \in Midnights : n <= t => n <= m]
MCNextMidnight == [t \in 0 .. MaxTime |-> CHOOSE m \in Midnights : m > t /\ \A n \in Midnights : n > t => n >= m]

\* Three times a day, at unequal distances; or every third of a day from an
\* anchor early in the day.
DayTime ==
  {[at |-> <<1, 6, 10>>, interval |-> 0, refresh |-> 3],
   [at |-> <<3>>, interval |-> 4, refresh |-> 2]}

\* Every third of a day from an anchor late in the day.
Evening == {[at |-> <<10>>, interval |-> 4, refresh |-> 3]}

\* A daemon that starts in the slot of that anchor.
EveningSpec == Init /\ wall = 10 /\ [][Next]_vars
=============================================================================
