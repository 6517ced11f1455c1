----------------------------- MODULE CoreProofs -----------------------------
(***************************************************************************)
(* What a draw and the list it leaves behind look like, for every pool and *)
(* every bound on the history; the types of Core's operators; and what a   *)
(* recorded draw does to the recent draws of its source.                   *)
(***************************************************************************)
EXTENDS Core, FiniteSetTheorems, SequenceTheorems, TLAPS

-----------------------------------------------------------------------------
(* Picker: the draw and the list *)

\* The exclusion is a number, at most half the pool and at most HistoryCap.
LEMMA ExcludeBound ==
  ASSUME NEW n \in Nat
  PROVE  /\ ExcludeN(n) \in 0 .. HistoryCap
         /\ 2 * ExcludeN(n) <= n
         /\ HistoryLimit(n) \in 1 .. HistoryCap
BY PickerAssumption DEF ExcludeN, HistoryLimit

\* Taking one entry out closes the gap.
LEMMA Removal ==
  ASSUME NEW S, NEW s \in Seq(S), NEW at \in 1 .. Len(s)
  PROVE  /\ CutOut(s, at) \in Seq(S)
         /\ Len(CutOut(s, at)) = Len(s) - 1
         /\ \A i \in 1 .. Len(s) - 1 : CutOut(s, at)[i] = s[IF i < at THEN i ELSE i + 1]
<1> DEFINE a == SubSeq(s, 1, at - 1)
           b == SubSeq(s, at + 1, Len(s))
<1>1. /\ Len(s) \in Nat /\ at \in Int /\ 1 <= at /\ at <= Len(s)
      /\ \A i \in 1 .. Len(s) : s[i] \in S
  BY LenProperties
<1>2. /\ a \in Seq(S) /\ Len(a) = at - 1
      /\ \A i \in 1 .. at - 1 : a[i] = s[i]
  <2>1. \A i \in 1 .. at - 1 : s[i] \in S
    BY <1>1
  <2>2. at - 1 \in Int /\ (1 <= at - 1 \/ at - 1 = 0)
    BY <1>1
  <2> QED
    BY <2>1, <2>2, SubSeqProperties
<1>3. /\ b \in Seq(S) /\ Len(b) = Len(s) - at
      /\ \A i \in 1 .. Len(s) - at : b[i] = s[at + i]
  <2>1. \A i \in at + 1 .. Len(s) : s[i] \in S
    BY <1>1
  <2>2. at + 1 \in Int /\ Len(s) \in Int /\ (at + 1 <= Len(s) \/ at = Len(s))
    BY <1>1
  <2>3. Len(s) - (at + 1) + 1 = Len(s) - at
    BY <1>1
  <2>4. /\ b \in Seq(S)
        /\ Len(b) = IF at + 1 <= Len(s) THEN Len(s) - (at + 1) + 1 ELSE 0
        /\ \A i \in 1 .. Len(s) - (at + 1) + 1 : b[i] = s[(at + 1) + i - 1]
    BY <2>1, <2>2, SubSeqProperties
  <2> HIDE DEF b
  <2>5. Len(b) = Len(s) - at
    BY <1>1, <2>2, <2>4
  <2>6. ASSUME NEW i \in 1 .. Len(s) - at
        PROVE  b[i] = s[at + i]
    <3>1. i \in 1 .. Len(s) - (at + 1) + 1 /\ (at + 1) + i - 1 = at + i
      BY <1>1, <2>3
    <3> QED
      BY <3>1, <2>4
  <2> QED
    BY <2>4, <2>5, <2>6
<1> HIDE DEF a, b
<1>4. /\ a \o b \in Seq(S) /\ Len(a \o b) = Len(s) - 1
      /\ \A i \in 1 .. Len(s) - 1 :
           (a \o b)[i] = IF i <= at - 1 THEN a[i] ELSE b[i - (at - 1)]
  <2>1. Len(a) + Len(b) = Len(s) - 1
    BY <1>1, <1>2, <1>3
  <2>2. /\ a \o b \in Seq(S) /\ Len(a \o b) = Len(a) + Len(b)
        /\ \A i \in 1 .. Len(a) + Len(b) :
             (a \o b)[i] = IF i <= Len(a) THEN a[i] ELSE b[i - Len(a)]
    BY <1>2, <1>3, ConcatProperties
  <2> QED
    BY <2>1, <2>2, <1>2
<1>5. ASSUME NEW i \in 1 .. Len(s) - 1
      PROVE  (a \o b)[i] = s[IF i < at THEN i ELSE i + 1]
  <2>1. i \in Int /\ 1 <= i /\ i <= Len(s) - 1
    BY <1>1
  <2>2. CASE i < at
    <3>1. i \in 1 .. at - 1 /\ i <= at - 1
      BY <2>1, <2>2, <1>1
    <3> QED
      BY <2>2, <3>1, <1>2, <1>4
  <2>3. CASE ~(i < at)
    <3>1. /\ i - (at - 1) \in 1 .. Len(s) - at
          /\ at + (i - (at - 1)) = i + 1
          /\ ~(i <= at - 1)
      BY <2>1, <2>3, <1>1
    <3>2. (a \o b)[i] = b[i - (at - 1)]
      BY <3>1, <1>4
    <3> QED
      BY <2>3, <3>1, <3>2, <1>3
  <2> QED
    BY <2>2, <2>3
<1> QED
  BY <1>4, <1>5 DEF a, b, CutOut

\* Dropping a key leaves a list of keys, no longer, in the same order.
LEMMA WithoutType ==
  ASSUME NEW recent \in Seq(Key), NEW latest \in Key
  PROVE  /\ Without(recent, latest) \in Seq(Key)
         /\ Len(Without(recent, latest)) <= Len(recent)
<1>1. CASE ~ \E i \in DOMAIN recent : recent[i] = latest
  BY <1>1 DEF Without
<1>2. CASE \E i \in DOMAIN recent : recent[i] = latest
  <2> DEFINE at == CHOOSE i \in DOMAIN recent : recent[i] = latest
  <2>1. at \in 1 .. Len(recent) /\ Len(recent) \in Nat
    BY <1>2, LenProperties
  <2>2. Without(recent, latest) = CutOut(recent, at)
    BY <1>2 DEF Without
  <2> HIDE DEF at
  <2> QED
    BY <2>1, <2>2, Removal
<1> QED
  BY <1>1, <1>2

\* A prefix of a list is a list.
LEMMA AtMostType ==
  ASSUME NEW S, NEW s \in Seq(S), NEW n \in Nat
  PROVE  /\ AtMost(s, n) \in Seq(S)
         /\ Len(AtMost(s, n)) <= n
         /\ Len(AtMost(s, n)) <= Len(s)
         /\ Len(s) <= n => AtMost(s, n) = s
         /\ Len(s) > n => Len(AtMost(s, n)) = n
         /\ \A i \in DOMAIN AtMost(s, n) : AtMost(s, n)[i] = s[i]
BY DEF AtMost

\* Trim turns a list of keys into a list of keys.
LEMMA TrimType ==
  ASSUME NEW recent \in Seq(Key), NEW latest \in Key, NEW n \in Nat
  PROVE  Trim(recent, latest, n) \in Seq(Key)
<1> DEFINE k == HistoryLimit(n) - 1
<1>1. k \in Nat
  <2>1. HistoryLimit(n) \in 1 .. HistoryCap
    BY ExcludeBound
  <2> QED
    BY <2>1, PickerAssumption
<1>2. Without(recent, latest) \in Seq(Key)
  BY WithoutType
<1> HIDE DEF k
<1>3. AtMost(Without(recent, latest), k) \in Seq(Key)
  BY <1>1, <1>2, AtMostType
<1> QED
  BY <1>3 DEF Trim, k

\* Trim turns a list of recent draws into a list of recent draws that starts
\* with the latest: at most HistoryCap keys, none of them twice.
LEMMA TrimRecentList ==
  ASSUME NEW recent, RecentList(recent), NEW latest \in Key, NEW n \in Nat
  PROVE  /\ RecentList(Trim(recent, latest, n))
         /\ Trim(recent, latest, n)[1] = latest
<1> DEFINE older == Without(recent, latest)
           tail == AtMost(older, HistoryLimit(n) - 1)
<1>1. recent \in Seq(Key) /\ HistoryLimit(n) \in 1 .. HistoryCap
  BY ExcludeBound DEF RecentList
<1>2. older \in Seq(Key)
  BY <1>1, WithoutType
<1>3. /\ \A i \in DOMAIN older : older[i] # latest
      /\ \A i, j \in DOMAIN older : older[i] = older[j] => i = j
  <2>1. CASE ~ \E i \in DOMAIN recent : recent[i] = latest
    BY <2>1 DEF Without, RecentList
  <2>2. CASE \E i \in DOMAIN recent : recent[i] = latest
    <3> DEFINE at == CHOOSE i \in DOMAIN recent : recent[i] = latest
    <3>1. at \in 1 .. Len(recent) /\ recent[at] = latest
      BY <2>2, <1>1
    <3>2. older = CutOut(recent, at)
      BY <2>2 DEF Without
    <3> HIDE DEF at
    <3>3. /\ Len(older) = Len(recent) - 1
          /\ \A i \in 1 .. Len(recent) - 1 :
               older[i] = recent[IF i < at THEN i ELSE i + 1]
      BY <3>1, <3>2, <1>1, Removal
    <3> HIDE DEF older
    <3> DEFINE from(i) == IF i < at THEN i ELSE i + 1
    <3>4. ASSUME NEW i \in DOMAIN older
          PROVE  from(i) \in DOMAIN recent /\ from(i) # at /\ older[i] = recent[from(i)]
      BY <3>1, <3>3, <1>1, <1>2
    <3>5. \A i, j \in DOMAIN older : from(i) = from(j) => i = j
      BY <3>1, <3>3, <1>1, <1>2
    <3> HIDE DEF from
    <3> QED
      BY <3>1, <3>4, <3>5 DEF RecentList
  <2> QED
    BY <2>1, <2>2
<1> HIDE DEF older
<1>4. /\ tail \in Seq(Key)
      /\ Len(tail) <= HistoryCap - 1
      /\ Len(tail) <= Len(older)
      /\ \A i \in DOMAIN tail : tail[i] = older[i]
  <2> DEFINE k == HistoryLimit(n) - 1
  <2>1. k \in Nat /\ k <= HistoryCap - 1
    BY <1>1, PickerAssumption
  <2> HIDE DEF k
  <2>2. /\ AtMost(older, k) \in Seq(Key)
        /\ Len(AtMost(older, k)) <= k
        /\ Len(AtMost(older, k)) <= Len(older)
        /\ \A i \in DOMAIN AtMost(older, k) : AtMost(older, k)[i] = older[i]
    BY <1>2, <2>1, AtMostType
  <2>3. /\ tail \in Seq(Key)
        /\ Len(tail) <= k
        /\ Len(tail) <= Len(older)
        /\ \A i \in DOMAIN tail : tail[i] = older[i]
    BY <2>2 DEF k
  <2>4. Len(tail) \in Nat
    BY <2>3, LenProperties
  <2> HIDE DEF tail
  <2> QED
    BY <2>1, <2>3, <2>4, PickerAssumption
<1>5. Trim(recent, latest, n) = <<latest>> \o tail
  BY DEF Trim, older
<1> HIDE DEF tail
<1> DEFINE trimmed == <<latest>> \o tail
<1>6. /\ trimmed \in Seq(Key)
      /\ Len(trimmed) = Len(tail) + 1
      /\ trimmed[1] = latest
      /\ \A i \in 2 .. Len(trimmed) : trimmed[i] = tail[i - 1]
  BY <1>4
<1> HIDE DEF trimmed
<1>7. \A i \in 2 .. Len(trimmed) :
        i - 1 \in DOMAIN older /\ i - 1 \in DOMAIN tail /\ trimmed[i] = older[i - 1]
  BY <1>2, <1>4, <1>6
<1>8. \A i, j \in DOMAIN trimmed : trimmed[i] = trimmed[j] => i = j
  BY <1>3, <1>6, <1>7
<1>9. Len(trimmed) <= HistoryCap
  BY <1>4, <1>6, PickerAssumption
<1> QED
  BY <1>5, <1>6, <1>8, <1>9 DEF RecentList, trimmed

\* Where RelKey tells the files of a pool apart, the exclusion leaves a choice:
\* the case in which Pick falls back to the whole pool does not arise.
THEOREM NeverExhausted ==
  ASSUME NEW src \in Source, NEW files \in SUBSET File, IsFiniteSet(files), files # {},
         NEW recent \in Seq(Key), RelKeyInjective
  PROVE  /\ Fresh(src, files, recent) # {}
         /\ Candidates(src, files, recent) = Fresh(src, files, recent)
<1> DEFINE n == Cardinality(files)
           m == ExcludeN(n)
           slot == [f \in files |-> CHOOSE i \in DOMAIN recent :
                                      i <= m /\ recent[i] = RelKey[src][f]]
<1>1. n \in Nat /\ n # 0
  BY FS_CardinalityType, FS_EmptySet
<1>2. m \in Nat /\ m < n
  <2> HIDE DEF n
  <2>1. m \in 0 .. HistoryCap /\ 2 * m <= n
    BY <1>1, ExcludeBound
  <2> QED
    BY <1>1, <2>1, PickerAssumption
<1> SUFFICES ASSUME Fresh(src, files, recent) = {} PROVE FALSE
  BY DEF Candidates
<1>3. ASSUME NEW f \in files
      PROVE  slot[f] \in 1 .. m /\ recent[slot[f]] = RelKey[src][f]
  <2>1. RelKey[src][f] \in Excluded(recent, n)
    BY DEF Fresh
  <2>2. PICK i \in DOMAIN recent : i <= m /\ recent[i] = RelKey[src][f]
    BY <2>1 DEF Excluded
  <2>3. slot[f] \in DOMAIN recent /\ slot[f] <= m /\ recent[slot[f]] = RelKey[src][f]
    BY <2>2
  <2> QED
    BY <2>3, <1>2, LenProperties
<1> HIDE DEF slot
<1>4. slot \in Injection(files, 1 .. m)
  <2>1. slot \in [files -> 1 .. m]
    BY <1>3 DEF slot
  <2>2. \A f, g \in files : slot[f] = slot[g] => f = g
    BY <1>3 DEF RelKeyInjective
  <2> QED
    BY <2>1, <2>2 DEF Injection, IsInjective
<1>5. IsFiniteSet(1 .. m) /\ Cardinality(1 .. m) = m
  BY <1>2, FS_Interval
<1>6. n <= m
  BY <1>4, <1>5, FS_Injection DEF ExistsInjection
<1> QED
  BY <1>1, <1>2, <1>6

-----------------------------------------------------------------------------
(* Core: the record *)

\* What state.Load makes of a state file.
LEMMA LoadType ==
  /\ EmptyRecord \in Record
  /\ \A file \in StateFile : Load(file) \in Record
  /\ \A st \in Record : Load(st) = st
  /\ \A file \in {Missing, Corrupt} : Load(file) = EmptyRecord
<1>1. EmptyRecord \in Record
  BY CoreAssumption DEF EmptyRecord, Record, NoDay
<1> QED
  BY <1>1, StateFileAssumption DEF Load, StateFile

\* What ResolveForDate returns when it is not the day's record again.
LEMMA DrawType ==
  ASSUME NEW c \in Config, NEW st \in Record, NEW t \in Day, NEW f \in BOOLEAN,
         NEW files \in Scans[SourceOf[c][t]],
         NEW d \in ResolveForDate(c, st, t, f, files), ~d.reused
  PROVE  /\ d \in Decision
         /\ d.src = SourceOf[c][t]
         /\ ~(~f /\ AppliedOn(st, t))
<1>1. SourceOf[c][t] \in Source
  BY CoreAssumption
<1>2. files \subseteq File /\ Cardinality(files) \in Nat
  <2>1. files \in SUBSET File /\ IsFiniteSet(files)
    BY <1>1, CoreAssumption
  <2> QED
    BY <2>1, FS_CardinalityType
<1>3. ~(~f /\ AppliedOn(st, t))
  BY DEF ResolveForDate, Reuse
<1>4. d \in Draws(SourceOf[c][t], st, files)
  BY <1>3 DEF ResolveForDate
<1>5. \A g \in Candidates(SourceOf[c][t], files, st.recent[SourceOf[c][t]]) : g \in files
  BY DEF Candidates, Fresh
<1>6. PICK g \in files :
        d = [path |-> g, src |-> SourceOf[c][t], pool |-> Cardinality(files), reused |-> FALSE]
  BY <1>4, <1>5 DEF Draws
<1> QED
  BY <1>1, <1>2, <1>3, <1>6 DEF Decision

\* The record after a draw is a record of that draw.
LEMMA RecordedType ==
  ASSUME NEW st \in Record, NEW t \in Day, NEW d \in Decision
  PROVE  /\ Recorded(st, t, d) \in Record
         /\ Recorded(st, t, d).date = t
         /\ Recorded(st, t, d).path = d.path
<1>1. /\ st.recent \in [Source -> Seq(Key)]
      /\ d.path \in File /\ d.src \in Source /\ d.pool \in Nat
  BY DEF Record, Decision
<1>2. RelKey[d.src][d.path] \in Key
  BY <1>1, PickerAssumption
<1>3. Trim(st.recent[d.src], RelKey[d.src][d.path], d.pool) \in Seq(Key)
  BY <1>1, <1>2, TrimType
<1> QED
  BY <1>1, <1>3 DEF Recorded, Record

\* And its lists of recent draws are such lists if the old record's were.
LEMMA RecordedDistinct ==
  ASSUME NEW st \in Record, NEW t \in Day, NEW d \in Decision,
         \A src \in Source : RecentList(st.recent[src])
  PROVE  \A src \in Source : RecentList(Recorded(st, t, d).recent[src])
<1>1. /\ st.recent \in [Source -> Seq(Key)]
      /\ d.path \in File /\ d.src \in Source /\ d.pool \in Nat
  BY DEF Record, Decision
<1>2. RelKey[d.src][d.path] \in Key
  BY <1>1, PickerAssumption
<1>3. RecentList(Trim(st.recent[d.src], RelKey[d.src][d.path], d.pool))
  BY <1>1, <1>2, TrimRecentList
<1> QED
  BY <1>1, <1>3 DEF Recorded

\* The history of recorded draws stays a sequence of files per source.
LEMMA ExtendedType ==
  ASSUME NEW s \in [Source -> Seq(File)], NEW d \in Decision
  PROVE  Extended(s, d) \in [Source -> Seq(File)]
<1>1. d.src \in Source /\ d.path \in File
  BY DEF Decision
<1>2. <<d.path>> \o s[d.src] \in Seq(File)
  BY <1>1
<1>3. HistoryCap + 1 \in Nat
  BY PickerAssumption
<1>4. AtMost(<<d.path>> \o s[d.src], HistoryCap + 1) \in Seq(File)
  BY <1>2, <1>3, AtMostType
<1> QED
  BY <1>1, <1>4 DEF Extended

-----------------------------------------------------------------------------
(* Why no wallpaper comes back too soon *)

\* The list of recent draws r of a source and its recorded draws s, latest
\* first: r names the latest ones, and all that some pool always excludes.
InStep(src, r, s) ==
  /\ \A i \in DOMAIN r : i \in DOMAIN s /\ r[i] = RelKey[src][s[i]]
  /\ \A j \in DOMAIN s : AlwaysExcluded(src, j) => j \in DOMAIN r
  /\ \A i, j \in DOMAIN s : i < j /\ AlwaysExcluded(src, j - 1) => s[i] # s[j]

\* A further position is excluded only if all nearer ones are.
LEMMA AlwaysExcludedDown ==
  ASSUME NEW src \in Source, NEW j \in Nat \ {0}, AlwaysExcluded(src, j)
  PROVE  AlwaysExcluded(src, j - 1)
<1> SUFFICES ASSUME NEW files \in Scans[src], Cardinality(files) > 1
             PROVE  j - 1 <= ExcludeN(Cardinality(files))
  BY DEF AlwaysExcluded
<1>1. Cardinality(files) \in Nat
  <2>1. IsFiniteSet(files)
    BY CoreAssumption
  <2> QED
    BY <2>1, FS_CardinalityType
<1>2. j <= ExcludeN(Cardinality(files)) /\ ExcludeN(Cardinality(files)) \in Nat
  BY <1>1, ExcludeBound, PickerAssumption DEF AlwaysExcluded
<1> QED
  BY <1>2

\* Trim in terms of positions, for a draw the exclusion allowed.
LEMMA TrimPositions ==
  ASSUME NEW r \in Seq(Key), NEW k \in Key, NEW n \in Nat, n > 1,
         k \notin Excluded(r, n)
  PROVE  LET t == Trim(r, k, n)
         IN  /\ t \in Seq(Key)
             /\ t[1] = k
             /\ 1 <= Len(t) /\ Len(t) <= ExcludeN(n) /\ Len(t) <= Len(r) + 1
             /\ Len(t) = ExcludeN(n) \/ Len(t) = Len(r) + 1
             /\ \A i \in 2 .. Len(t) : t[i] = r[i - 1]
<1> DEFINE m == ExcludeN(n)
           older == Without(r, k)
           t == Trim(r, k, n)
<1>1. m \in Nat /\ 1 <= m /\ m <= HistoryCap /\ HistoryLimit(n) = m
  BY PickerAssumption DEF ExcludeN, HistoryLimit
<1>2. Len(r) \in Nat
  BY LenProperties
<1>3. /\ older \in Seq(Key) /\ Len(older) \in Nat /\ Len(older) <= Len(r)
      /\ Len(older) = Len(r) \/ m <= Len(older)
      /\ \A i \in 1 .. Len(older) : i <= m => older[i] = r[i]
  <2>1. CASE ~ \E i \in DOMAIN r : r[i] = k
    <3>1. older = r
      BY <2>1 DEF Without
    <3> QED
      BY <3>1, <1>2
  <2>2. CASE \E i \in DOMAIN r : r[i] = k
    <3> DEFINE at == CHOOSE i \in DOMAIN r : r[i] = k
    <3>1. at \in 1 .. Len(r) /\ r[at] = k
      BY <2>2, LenProperties
    <3>2. older = CutOut(r, at)
      BY <2>2 DEF Without
    <3> HIDE DEF at, older
    <3>3. ~(at <= m)
      BY <3>1, LenProperties DEF Excluded
    <3>4. /\ older \in Seq(Key) /\ Len(older) = Len(r) - 1
          /\ \A i \in 1 .. Len(r) - 1 : older[i] = r[IF i < at THEN i ELSE i + 1]
      BY <3>1, <3>2, Removal
    <3>5. ASSUME NEW i \in 1 .. Len(older), i <= m PROVE older[i] = r[i]
      <4>1. i < at
        BY <1>1, <1>2, <3>1, <3>3, <3>4, <3>5
      <4> QED
        BY <4>1, <3>4, <3>5
    <3> HIDE DEF m
    <3> QED
      BY <1>1, <1>2, <3>1, <3>3, <3>4, <3>5
  <2> QED
    BY <2>1, <2>2
<1> HIDE DEF older
<1> DEFINE tail == AtMost(older, m - 1)
<1>4. t = <<k>> \o tail
  BY <1>1 DEF Trim, older
<1> HIDE DEF m, t
<1>5. /\ tail \in Seq(Key) /\ Len(tail) <= m - 1 /\ Len(tail) <= Len(older)
      /\ Len(tail) = m - 1 \/ Len(tail) = Len(older)
      /\ \A i \in DOMAIN tail : tail[i] = older[i]
  <2> DEFINE l == m - 1
  <2>1. l \in Nat
    BY <1>1
  <2> HIDE DEF l
  <2>2. /\ AtMost(older, l) \in Seq(Key)
        /\ Len(AtMost(older, l)) <= l /\ Len(AtMost(older, l)) <= Len(older)
        /\ Len(older) <= l => AtMost(older, l) = older
        /\ Len(older) > l => Len(AtMost(older, l)) = l
        /\ \A i \in DOMAIN AtMost(older, l) : AtMost(older, l)[i] = older[i]
    BY <1>3, <2>1, AtMostType
  <2>3. Len(older) <= l \/ Len(older) > l
    BY <1>3, <2>1
  <2> QED
    BY <2>2, <2>3 DEF l
<1> HIDE DEF tail
<1>6. Len(tail) \in Nat
  BY <1>5, LenProperties
<1>7. /\ t \in Seq(Key) /\ Len(t) = Len(tail) + 1 /\ t[1] = k
      /\ \A i \in 2 .. Len(t) : t[i] = tail[i - 1]
  BY <1>4, <1>5
<1>8. ASSUME NEW i \in 2 .. Len(t) PROVE t[i] = r[i - 1]
  <2>1. i - 1 \in DOMAIN tail /\ i - 1 \in 1 .. Len(older) /\ i - 1 <= m
    BY <1>1, <1>3, <1>5, <1>6, <1>7, LenProperties
  <2> QED
    BY <2>1, <1>3, <1>5, <1>7
<1>9. Len(t) = m \/ Len(t) = Len(r) + 1
  BY <1>1, <1>2, <1>3, <1>5, <1>6, <1>7
<1>10. 1 <= Len(t) /\ Len(t) <= m /\ Len(t) <= Len(r) + 1
  BY <1>1, <1>2, <1>3, <1>5, <1>6, <1>7
<1> QED
  BY <1>7, <1>8, <1>9, <1>10 DEF t, m

\* A recorded draw from a pool with a choice keeps list and draws in step.
LEMMA InStepKept ==
  ASSUME RelKeyInjective,
         NEW src \in Source, NEW files \in Scans[src], Cardinality(files) > 1,
         NEW r \in Seq(Key), NEW s \in Seq(File), InStep(src, r, s),
         NEW f \in Candidates(src, files, r)
  PROVE  InStep(src, Trim(r, RelKey[src][f], Cardinality(files)),
                AtMost(<<f>> \o s, HistoryCap + 1))
<1> DEFINE n == Cardinality(files)
           k == RelKey[src][f]
           m == ExcludeN(n)
           t == Trim(r, k, n)
           u == AtMost(<<f>> \o s, HistoryCap + 1)
<1>1. files \subseteq File /\ IsFiniteSet(files) /\ n \in Nat /\ n > 1 /\ files # {}
  <2>1. files \in SUBSET File /\ IsFiniteSet(files)
    BY CoreAssumption
  <2> QED
    BY <2>1, FS_CardinalityType, FS_EmptySet
<1>2. f \in Fresh(src, files, r)
  BY <1>1, NeverExhausted
<1>3. f \in File /\ k \in Key /\ k \notin Excluded(r, n)
  BY <1>1, <1>2, PickerAssumption DEF Fresh
<1> HIDE DEF n, k
<1>4. /\ t \in Seq(Key)
      /\ t[1] = k
      /\ 1 <= Len(t) /\ Len(t) <= m /\ Len(t) <= Len(r) + 1
      /\ Len(t) = m \/ Len(t) = Len(r) + 1
      /\ \A i \in 2 .. Len(t) : t[i] = r[i - 1]
  BY <1>1, <1>3, TrimPositions
<1> HIDE DEF t
<1>5. /\ m \in Nat /\ m <= HistoryCap /\ HistoryCap \in Nat
      /\ Len(r) \in Nat /\ Len(s) \in Nat /\ Len(t) \in Nat
  <2>1. m \in 0 .. HistoryCap
    BY <1>1, ExcludeBound
  <2> HIDE DEF m
  <2>2. m \in Nat /\ m <= HistoryCap /\ HistoryCap \in Nat
    BY <2>1, PickerAssumption
  <2>3. Len(r) \in Nat /\ Len(s) \in Nat /\ Len(t) \in Nat
    BY <1>4, LenProperties
  <2> QED
    BY <2>2, <2>3
<1>6. \A j : AlwaysExcluded(src, j) => j <= m
  BY <1>1 DEF AlwaysExcluded, n
<1> HIDE DEF m
<1>7. /\ u \in Seq(File) /\ Len(u) \in Nat
      /\ Len(u) <= Len(s) + 1 /\ Len(u) <= HistoryCap + 1
      /\ Len(u) = Len(s) + 1 \/ Len(u) = HistoryCap + 1
      /\ u[1] = f /\ 1 <= Len(u)
      /\ \A i \in 2 .. Len(u) : u[i] = s[i - 1]
  <2> DEFINE w == <<f>> \o s
             h == HistoryCap + 1
  <2>1. /\ w \in Seq(File) /\ Len(w) = Len(s) + 1 /\ w[1] = f
        /\ \A i \in 2 .. Len(w) : w[i] = s[i - 1]
    BY <1>3
  <2>2. h \in Nat /\ 1 <= h
    BY <1>5
  <2> HIDE DEF w, h
  <2>3. /\ AtMost(w, h) \in Seq(File)
        /\ Len(AtMost(w, h)) <= h /\ Len(AtMost(w, h)) <= Len(w)
        /\ Len(w) <= h => AtMost(w, h) = w
        /\ Len(w) > h => Len(AtMost(w, h)) = h
        /\ \A i \in DOMAIN AtMost(w, h) : AtMost(w, h)[i] = w[i]
    BY <2>1, <2>2, AtMostType
  <2> DEFINE v == AtMost(w, h)
  <2>4. u = v
    BY DEF w, h
  <2> HIDE DEF u, v
  <2>5. v \in Seq(File) /\ Len(v) <= h /\ Len(v) <= Len(w)
        /\ (Len(v) = Len(w) \/ Len(v) = h)
        /\ \A i \in 1 .. Len(v) : v[i] = w[i]
    BY <1>5, <2>1, <2>2, <2>3, LenProperties DEF v
  <2>6. Len(v) \in Nat /\ 1 <= Len(v)
    BY <1>5, <2>1, <2>2, <2>5, LenProperties
  <2>7. \A i \in 2 .. Len(v) : v[i] = s[i - 1]
    BY <1>5, <2>1, <2>5, <2>6
  <2> QED
    BY <2>1, <2>4, <2>5, <2>6, <2>7 DEF h
<1> HIDE DEF u
\* The list names the latest draws.
<1>8. ASSUME NEW i \in DOMAIN t
      PROVE  i \in DOMAIN u /\ t[i] = RelKey[src][u[i]]
  <2>1. i \in Nat /\ 1 <= i /\ i <= Len(t)
    BY <1>4, <1>5, LenProperties
  <2>2. CASE i = 1
    BY <2>2, <1>4, <1>7, LenProperties DEF k
  <2>3. CASE i # 1
    <3>1. i \in 2 .. Len(t) /\ i - 1 \in 1 .. Len(r)
      BY <2>1, <2>3, <1>4, <1>5
    <3>2. i - 1 \in DOMAIN s /\ r[i - 1] = RelKey[src][s[i - 1]]
      BY <3>1, LenProperties DEF InStep
    <3>3. i - 1 <= Len(s)
      BY <3>2, LenProperties
    <3>4. i \in 2 .. Len(u)
      BY <2>1, <2>3, <3>3, <1>4, <1>5, <1>7
    <3> QED
      BY <3>1, <3>2, <3>4, <1>4, <1>7, LenProperties
  <2> QED
    BY <2>2, <2>3
\* It names all that are always excluded.
<1>9. ASSUME NEW j \in DOMAIN u, AlwaysExcluded(src, j)
      PROVE  j \in DOMAIN t
  <2>1. j \in Nat /\ 1 <= j /\ j <= Len(u) /\ j <= m
    BY <1>6, <1>7, <1>9, LenProperties
  <2>2. CASE j = 1
    BY <2>2, <1>4, <1>5, LenProperties
  <2>3. CASE j # 1
    <3>1. AlwaysExcluded(src, j - 1)
      BY <1>9, <2>1, AlwaysExcludedDown
    <3>2. j - 1 \in 1 .. Len(s)
      BY <2>1, <2>3, <1>5, <1>7
    <3>3. j - 1 \in DOMAIN r
      BY <3>1, <3>2, LenProperties DEF InStep
    <3>4. j - 1 <= Len(r)
      BY <3>3, LenProperties
    <3>5. j <= Len(t)
      BY <2>1, <3>4, <1>4, <1>5
    <3> QED
      BY <2>1, <3>5, <1>4, LenProperties
  <2> QED
    BY <2>2, <2>3
\* And the draws are apart.
<1>10. ASSUME NEW i \in DOMAIN u, NEW j \in DOMAIN u, i < j, AlwaysExcluded(src, j - 1)
       PROVE  u[i] # u[j]
  <2>1. i \in Nat /\ 1 <= i /\ j \in Nat /\ j <= Len(u) /\ 2 <= j
    BY <1>7, <1>10, LenProperties
  <2>2. j - 1 \in 1 .. Len(s) /\ u[j] = s[j - 1]
    BY <2>1, <1>5, <1>7
  <2>3. CASE i = 1
    <3>1. j - 1 \in DOMAIN r /\ r[j - 1] = RelKey[src][s[j - 1]]
      BY <2>2, <1>10, LenProperties DEF InStep
    <3>2. j - 1 <= m
      BY <1>10, <1>6
    <3>3. r[j - 1] \in Excluded(r, n)
      BY <3>1, <3>2 DEF Excluded, m
    <3> QED
      BY <2>2, <2>3, <3>1, <3>3, <1>3, <1>7 DEF k
  <2>4. CASE i # 1
    <3>0. 2 <= i /\ i < j /\ i <= Len(u)
      BY <2>1, <2>4, <1>7, <1>10
    <3>1. i - 1 \in 1 .. Len(s) /\ i - 1 < j - 1 /\ u[i] = s[i - 1]
      BY SMTT(30), <3>0, <2>1, <1>5, <1>7
    <3>2. AlwaysExcluded(src, (j - 1) - 1)
      BY <2>1, <1>10, AlwaysExcludedDown
    <3> QED
      BY <2>2, <3>1, <3>2, LenProperties DEF InStep
  <2> QED
    BY <2>3, <2>4
<1> QED
  BY <1>8, <1>9, <1>10 DEF InStep, t, u, n, k
=============================================================================
