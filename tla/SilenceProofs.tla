--------------------------- MODULE SilenceProofs ----------------------------
(***************************************************************************)
(* The theorem about SilenceDetect, for every number of channels, every    *)
(* minimum length and every sequence of frames.                            *)
(***************************************************************************)
EXTENDS SilenceDetect, SequenceLemmas, SequenceTheorems

-----------------------------------------------------------------------------
(***************************************************************************)
(* One call of process_frame() is a fold over the samples of a frame.      *)
(***************************************************************************)

\* The recursive function that FoldLeft() is made from, which is well defined.
IsFold(f, base, w, N) ==
  f = [S \in SUBSET (1 .. N) |-> IF S = {} THEN base
                                 ELSE Sample(f[S \ {Max(S)}], w[Max(S)])]

LEMMA FoldExists ==
  ASSUME NEW base, NEW w, NEW N \in Nat
  PROVE  \E f : IsFold(f, base, w, N)
<1> DEFINE F(f, n) == [S \in SUBSET (1 .. n) |-> IF S = {} THEN base
                                                ELSE Sample(f[S \ {Max(S)}], w[Max(S)])]
           Ex(n) == \E f : f = F(f, n)
           R == {n \in Nat : Ex(n)}
<1>1. 0 \in R
  <2> DEFINE g == F(base, 0)
  <2>1. SUBSET (1 .. 0) = {{}}
    OBVIOUS
  <2>2. g = F(g, 0)
    BY <2>1
  <2> QED
    BY <2>2
<1>2. ASSUME NEW n \in Nat, n \in R PROVE n + 1 \in R
  <2>1. PICK f : f = F(f, n)
    BY <1>2
  <2>2. \A S \in SUBSET (1 .. n + 1) : S # {} => S \ {Max(S)} \in SUBSET (1 .. n)
    <3> SUFFICES ASSUME NEW S \in SUBSET (1 .. n + 1), S # {} PROVE S \ {Max(S)} \in SUBSET (1 .. n)
      OBVIOUS
    <3>1. CASE n + 1 \in S
      <4>1. \A y \in S : n + 1 >= y
        OBVIOUS
      <4>2. Max(S) \in S /\ \A y \in S : Max(S) >= y
        BY <3>1, <4>1 DEF Max
      <4>3. Max(S) \in 1 .. n + 1 /\ Max(S) >= n + 1
        BY <3>1, <4>2
      <4>4. Max(S) = n + 1
        BY <4>3
      <4> QED
        BY <4>4
    <3>2. CASE n + 1 \notin S
      <4>1. S \subseteq 1 .. n
        BY <3>2
      <4> QED
        BY <4>1
    <3> QED
      BY <3>1, <3>2
  <2> DEFINE g == F(f, n + 1)
             h == F(f, n)
  <2>3. f = h
    BY <2>1
  <2>4. \A S \in SUBSET (1 .. n) : S \in SUBSET (1 .. n + 1) /\ h[S] = g[S]
    OBVIOUS
  <2> HIDE DEF h
  <2>5. \A S \in SUBSET (1 .. n) : g[S] = f[S]
    BY <2>3, <2>4
  <2> HIDE DEF g
  <2>6. \A S \in SUBSET (1 .. n + 1) : S # {} => g[S \ {Max(S)}] = f[S \ {Max(S)}]
    BY <2>2, <2>5
  <2>7. F(f, n + 1) = F(g, n + 1)
    BY <2>6
  <2>8. g = F(g, n + 1)
    BY <2>7 DEF g
  <2>9. Ex(n + 1)
    BY <2>8
  <2> HIDE DEF Ex
  <2> QED
    BY <2>9
<1> HIDE DEF R
<1>3. N \in R
  BY <1>1, <1>2, InductionOverNat
<1>4. PICK f : f = F(f, N)
  BY <1>3 DEF R
<1>5. IsFold(f, base, w, N)
  BY <1>4 DEF IsFold
<1> QED
  BY <1>5

\* FoldLeft() takes the samples from the first to the last.
Folded(base, w) == FoldLeft(Sample, base, w)

\* The states of the detector after each of the first N samples.
Unfolds(g, base, w, N) ==
  /\ g[0] = base
  /\ \A i \in 1 .. N : g[i] = Sample(g[i - 1], w[i])
  /\ Folded(base, w) = g[N]

LEMMA FoldIs ==
  ASSUME NEW base, NEW w, NEW N \in Nat, DOMAIN w = 1 .. N
  PROVE  \E g : Unfolds(g, base, w, N)
<1> DEFINE fold == CHOOSE f : IsFold(f, base, w, N)
           g == [i \in 0 .. N |-> fold[1 .. i]]
<1>1. IsFold(fold, base, w, N)
  <2> HIDE DEF fold
  <2>1. \E f : IsFold(f, base, w, N)
    BY FoldExists
  <2> QED
    BY <2>1 DEF fold
<1>2. Folded(base, w) = fold[1 .. N]
  BY DEF Folded, FoldLeft, MapThenFoldSet, IsFold
<1> HIDE DEF fold
<1>3. \A S \in SUBSET (1 .. N) : fold[S] = IF S = {} THEN base
                                           ELSE Sample(fold[S \ {Max(S)}], w[Max(S)])
  BY <1>1 DEF IsFold
<1>4. ASSUME NEW i \in 1 .. N PROVE g[i] = Sample(g[i - 1], w[i])
  <2>1. 1 .. i \in SUBSET (1 .. N) /\ i \in 1 .. i /\ \A y \in 1 .. i : i >= y
    OBVIOUS
  <2>2. Max(1 .. i) \in 1 .. i /\ \A y \in 1 .. i : Max(1 .. i) >= y
    BY <2>1 DEF Max
  <2>3. Max(1 .. i) = i
    BY <2>1, <2>2
  <2>4. (1 .. i) \ {i} = 1 .. i - 1
    OBVIOUS
  <2>5. fold[1 .. i] = Sample(fold[1 .. i - 1], w[i])
    BY <1>3, <2>1, <2>3, <2>4
  <2>6. i \in 0 .. N /\ i - 1 \in 0 .. N
    OBVIOUS
  <2> QED
    BY <2>5, <2>6
<1>5. g[0] = base
  <2>1. 1 .. 0 = {} /\ {} \in SUBSET (1 .. N)
    OBVIOUS
  <2>2. fold[{}] = base
    BY <1>3, <2>1
  <2> QED
    BY <2>1, <2>2
<1>6. g[N] = fold[1 .. N]
  OBVIOUS
<1> HIDE DEF g
<1>7. Unfolds(g, base, w, N)
  BY <1>2, <1>4, <1>5, <1>6 DEF Unfolds
<1> QED
  BY <1>7

-----------------------------------------------------------------------------
(***************************************************************************)
(* What the detector knows after some samples, whatever frames they came   *)
(* in, and what one more sample changes.                                   *)
(***************************************************************************)
Intervals == [start : Nat, length : Nat]
Statuses == [total : Nat, zero_count : Nat, interval : Intervals, ready : BOOLEAN]

\* The silences among the first m samples of w that are long enough and end.
Ended(w, m) ==
  {i \in Intervals :
     /\ i.length >= config.minimum_length
     /\ i.start + i.length < m
     /\ \A k \in i.start + 1 .. i.start + i.length : w[k]
     /\ i.start = 0 \/ ~w[i.start]
     /\ ~w[i.start + i.length + 1]}

\* The intervals of list are those of S, in the order of time.
Lists(list, S) ==
  /\ list \in Seq(Intervals)
  /\ ToSet(list) = S
  /\ \A j, k \in 1 .. Len(list) : j < k =>
       list[j].start + list[j].length < list[k].start

\* The detector knows the silence that the first m samples end with.
Knows(s, w, m) ==
  /\ s \in Statuses /\ m \in Nat
  /\ s.total = m /\ s.zero_count <= m
  /\ \A k \in m - s.zero_count + 1 .. m : w[k]
  /\ s.zero_count = m \/ ~w[m - s.zero_count]
  /\ s.zero_count > 0 => s.interval.start = m - s.zero_count

\* A sample that is silent makes the silence at the end longer.
LEMMA SilenceStep ==
  ASSUME NEW s, NEW w, NEW m, Knows(s, w, m), w[m + 1] = TRUE, s.ready = FALSE,
         config.minimum_length \in Nat
  PROVE  /\ Knows(Sample(s, TRUE), w, m + 1)
         /\ Sample(s, TRUE).ready = FALSE
         /\ Ended(w, m + 1) = Ended(w, m)
<1> DEFINE t == Sample(s, TRUE)
<1>1. /\ s \in Statuses /\ m \in Nat /\ s.total = m /\ s.zero_count \in Nat /\ s.zero_count <= m
      /\ s.interval \in Intervals
  BY DEF Knows, Statuses
<1>2. /\ t \in Statuses /\ t.total = m + 1 /\ t.zero_count = s.zero_count + 1
      /\ t.ready = s.ready
      /\ t.interval = IF s.zero_count = 0 THEN Interval(m, 0) ELSE s.interval
  <2> DEFINE i == IF s.zero_count = 0 THEN Interval(m, 0) ELSE s.interval
  <2>1. i \in Intervals
    BY <1>1 DEF Interval, Intervals
  <2>2. t = [[s EXCEPT !.interval = i, !.zero_count = @ + 1] EXCEPT !.total = @ + 1]
    BY <1>1 DEF Sample, Silence
  <2> HIDE DEF i, t
  <2>3. /\ t \in Statuses /\ t.total = m + 1 /\ t.zero_count = s.zero_count + 1
        /\ t.ready = s.ready /\ t.interval = i
    <3>1. t = [total |-> m + 1, zero_count |-> s.zero_count + 1, interval |-> i, ready |-> s.ready]
      BY <1>1, <2>2 DEF Statuses
    <3>2. s.ready \in BOOLEAN
      BY <1>1 DEF Statuses
    <3> QED
      BY <1>1, <2>1, <3>1, <3>2 DEF Statuses
  <2> QED
    BY <2>3 DEF i
<1> HIDE DEF t
<1>3. \A k \in (m + 1) - t.zero_count + 1 .. m + 1 : w[k]
  <2>1. \A k \in (m + 1) - t.zero_count + 1 .. m + 1 :
          k = m + 1 \/ k \in m - s.zero_count + 1 .. m
    BY <1>1, <1>2
  <2> QED
    BY <2>1 DEF Knows
<1>4. (m + 1) - t.zero_count = m - s.zero_count
  BY <1>1, <1>2
<1>5. t.zero_count = m + 1 \/ ~w[(m + 1) - t.zero_count]
  BY <1>1, <1>2, <1>4 DEF Knows
<1>6. t.interval.start = (m + 1) - t.zero_count
  BY <1>1, <1>2, <1>4 DEF Knows, Interval
<1>7. Knows(t, w, m + 1)
  BY <1>1, <1>2, <1>3, <1>5, <1>6 DEF Knows
<1>8. ASSUME NEW i \in Intervals
      PROVE  i \in Ended(w, m + 1) <=> i \in Ended(w, m)
  <2>1. i.start \in Nat /\ i.length \in Nat
    BY DEF Intervals
  <2>2. i.start + i.length = m => w[i.start + i.length + 1]
    OBVIOUS
  <2>3. i.start + i.length < m + 1 <=> i.start + i.length < m \/ i.start + i.length = m
    BY <1>1, <2>1
  <2> QED
    BY <2>2, <2>3 DEF Ended
<1>9. Ended(w, m + 1) = Ended(w, m)
  BY <1>8 DEF Ended
<1> QED
  BY <1>2, <1>7, <1>9 DEF t

\* A silence that ends at m starts where the detector says.
LEMMA OneEnd ==
  ASSUME NEW s, NEW w, NEW m, Knows(s, w, m), NEW i \in Intervals,
         i.start + i.length = m, i.length > 0,
         \A k \in i.start + 1 .. i.start + i.length : w[k],
         i.start = 0 \/ ~w[i.start]
  PROVE  i.start = m - s.zero_count /\ i.length = s.zero_count
<1> DEFINE z == s.zero_count
<1>1. i.start \in Nat /\ i.length \in Nat /\ m \in Nat /\ z \in Nat /\ z <= m
  BY DEF Intervals, Knows, Statuses
<1>2. \A k \in m - z + 1 .. m : w[k]
  BY DEF Knows
<1>3. z = m \/ ~w[m - z]
  BY DEF Knows
<1> HIDE DEF z
<1>4. ~ (i.length < z)
  <2> SUFFICES ASSUME i.length < z PROVE FALSE
    OBVIOUS
  <2>1. i.start # 0 /\ i.start \in m - z + 1 .. m
    BY <1>1
  <2> QED
    BY <1>2, <2>1
<1>5. ~ (z < i.length)
  <2> SUFFICES ASSUME z < i.length PROVE FALSE
    OBVIOUS
  <2>1. z # m /\ m - z \in i.start + 1 .. i.start + i.length
    BY <1>1
  <2> QED
    BY <1>3, <2>1
<1> QED
  BY <1>1, <1>4, <1>5 DEF z

\* The silence at the end of the first m samples, if it is long enough.
Known(s, m) ==
  IF s.zero_count >= config.minimum_length THEN {Interval(m - s.zero_count, s.zero_count)}
  ELSE {}

LEMMA KnownIs ==
  ASSUME NEW s, NEW w, NEW m, Knows(s, w, m), config.minimum_length \in Nat \ {0}
  PROVE  Known(s, m)
           = {i \in Intervals :
                /\ i.length >= config.minimum_length
                /\ i.start + i.length = m
                /\ \A k \in i.start + 1 .. i.start + i.length : w[k]
                /\ i.start = 0 \/ ~w[i.start]}
<1> DEFINE I == Interval(m - s.zero_count, s.zero_count)
           Q(i) == /\ i.length >= config.minimum_length
                   /\ i.start + i.length = m
                   /\ \A k \in i.start + 1 .. i.start + i.length : w[k]
                   /\ i.start = 0 \/ ~w[i.start]
<1>1. m \in Nat /\ s.zero_count \in Nat /\ s.zero_count <= m
  BY DEF Knows, Statuses
<1>2. /\ I \in Intervals /\ I.start = m - s.zero_count /\ I.length = s.zero_count
      /\ I.start + I.length = m
  BY <1>1 DEF Interval, Intervals
<1>3. ASSUME NEW i \in Intervals, Q(i) PROVE i = I /\ s.zero_count >= config.minimum_length
  <2>1. i.length \in Nat /\ i.length > 0
    BY <1>3 DEF Intervals
  <2>2. i.start = m - s.zero_count /\ i.length = s.zero_count
    BY <1>3, <2>1, OneEnd
  <2>3. i = Interval(i.start, i.length)
    BY DEF Intervals, Interval
  <2> QED
    BY <1>3, <2>2, <2>3
<1>4. s.zero_count >= config.minimum_length => Q(I)
  <2> HIDE DEF I
  <2>1. \A k \in I.start + 1 .. I.start + I.length : w[k]
    BY <1>2 DEF Knows
  <2>2. I.start = 0 \/ ~w[I.start]
    BY <1>1, <1>2 DEF Knows
  <2> QED
    BY <1>2, <2>1, <2>2
<1>5. {i \in Intervals : Q(i)} = Known(s, m)
  <2> HIDE DEF Q
  <2> QED
    BY <1>2, <1>3, <1>4 DEF Known, I
<1> QED
  BY <1>5

\* What ends with sample m + 1 is the silence before it.
OneMoreEnds(s, w, m) == Ended(w, m + 1) = Ended(w, m) \cup Known(s, m)

\* A sample that is not silent ends the silence before it.
LEMMA SignalStep ==
  ASSUME NEW s, NEW w, NEW m, Knows(s, w, m), w[m + 1] = FALSE,
         config.minimum_length \in Nat \ {0}
  PROVE  /\ Knows(Sample(s, FALSE), w, m + 1)
         /\ Sample(s, FALSE).zero_count = 0
         /\ s.zero_count >= config.minimum_length =>
              /\ Sample(s, FALSE).ready
              /\ Sample(s, FALSE).interval = Interval(m - s.zero_count, s.zero_count)
         /\ ~ (s.zero_count >= config.minimum_length) =>
              /\ Sample(s, FALSE).ready = s.ready
              /\ Sample(s, FALSE).interval = s.interval
         /\ OneMoreEnds(s, w, m)
<1> DEFINE t == Sample(s, FALSE)
           long == s.zero_count >= config.minimum_length
<1>1. /\ s \in Statuses /\ m \in Nat /\ s.total = m /\ s.zero_count \in Nat /\ s.zero_count <= m
      /\ s.interval \in Intervals
  BY DEF Knows, Statuses
<1>2. long \in BOOLEAN
  OBVIOUS
<1>3. /\ t \in Statuses /\ t.total = m + 1 /\ t.zero_count = 0
      /\ t.ready = (s.ready \/ long)
      /\ t.interval = [s.interval EXCEPT !.length = IF long THEN s.zero_count ELSE @]
  <2> DEFINE i == [s.interval EXCEPT !.length = IF long THEN s.zero_count ELSE @]
  <2>1. i \in Intervals
    BY <1>1 DEF Intervals
  <2>2. t = [[s EXCEPT !.interval = i, !.ready = @ \/ long, !.zero_count = 0]
                EXCEPT !.total = @ + 1]
    BY <1>1 DEF Sample, Signal
  <2> HIDE DEF i, t, long
  <2>3. /\ t \in Statuses /\ t.total = m + 1 /\ t.zero_count = 0
        /\ t.ready = (s.ready \/ long) /\ t.interval = i
    <3> DEFINE r == s.ready \/ long
    <3>1. t = [total |-> m + 1, zero_count |-> 0, interval |-> i, ready |-> r]
      BY <1>1, <2>2 DEF Statuses
    <3>2. r \in BOOLEAN
      BY <1>1, <1>2 DEF Statuses
    <3> HIDE DEF r
    <3>3. t \in Statuses /\ t.total = m + 1 /\ t.zero_count = 0 /\ t.ready = r /\ t.interval = i
      BY <1>1, <2>1, <3>1, <3>2 DEF Statuses
    <3> QED
      BY <3>3 DEF r
  <2> QED
    BY <2>3 DEF i
<1> HIDE DEF t
<1>4. Knows(t, w, m + 1)
  <2>1. (m + 1) - t.zero_count = m + 1 /\ t.zero_count <= m + 1 /\ m + 1 \in Nat
    BY <1>1, <1>3
  <2>2. \A k \in (m + 1) - t.zero_count + 1 .. m + 1 : w[k]
    BY <1>1, <2>1
  <2> QED
    BY <1>3, <2>1, <2>2 DEF Knows
<1>5. long => t.ready /\ t.interval = Interval(m - s.zero_count, s.zero_count)
  <2> SUFFICES ASSUME long
               PROVE  t.ready /\ t.interval = Interval(m - s.zero_count, s.zero_count)
    OBVIOUS
  <2>1. s.zero_count > 0
    BY <1>1
  <2>2. s.interval.start = m - s.zero_count
    BY <2>1 DEF Knows
  <2>3. t.interval = Interval(m - s.zero_count, s.zero_count) /\ t.ready
    BY <1>1, <1>3, <2>2 DEF Interval, Intervals
  <2> QED
    BY <2>3
<1>6. ~long => t.ready = s.ready /\ t.interval = s.interval
  <2> SUFFICES ASSUME ~long PROVE t.ready = s.ready /\ t.interval = s.interval
    OBVIOUS
  <2>1. t.interval = s.interval
    BY <1>1, <1>3 DEF Intervals
  <2>2. t.ready = s.ready
    BY <1>1, <1>3 DEF Statuses
  <2> QED
    BY <2>1, <2>2
<1>7. ASSUME NEW i \in Intervals
      PROVE  i \in Ended(w, m + 1) <=> i \in Ended(w, m) \/ i \in Known(s, m)
  <2>1. i.start \in Nat /\ i.length \in Nat
    BY DEF Intervals
  <2>2. i.start + i.length < m + 1 <=> i.start + i.length < m \/ i.start + i.length = m
    BY <1>1, <2>1
  <2>3. i.start + i.length = m => ~w[i.start + i.length + 1]
    OBVIOUS
  <2>4. i \in Known(s, m) <=> /\ i.length >= config.minimum_length
                              /\ i.start + i.length = m
                              /\ \A k \in i.start + 1 .. i.start + i.length : w[k]
                              /\ i.start = 0 \/ ~w[i.start]
    BY KnownIs
  <2> QED
    BY <2>2, <2>3, <2>4 DEF Ended
<1>8. Known(s, m) \subseteq Intervals
  BY KnownIs
<1>9. Ended(w, m + 1) = Ended(w, m) \cup Known(s, m)
  BY <1>7, <1>8 DEF Ended
<1> QED
  BY <1>3, <1>4, <1>5, <1>6, <1>9 DEF t, OneMoreEnds

\* An interval that is later than all is put at the end.
LEMMA ListsOneMore ==
  ASSUME NEW list, NEW w, NEW m \in Nat, Lists(list, Ended(w, m)),
         NEW i \in Intervals, i.length > 0, i.start + i.length >= m,
         i.start = 0 \/ ~w[i.start],
         \A k \in i.start + 1 .. i.start + i.length : w[k]
  PROVE  Lists(Append(list, i), Ended(w, m) \cup {i})
<1> DEFINE n == Len(list)
           r == Append(list, i)
<1>1. /\ list \in Seq(Intervals) /\ n \in Nat /\ r \in Seq(Intervals) /\ Len(r) = n + 1
      /\ r[n + 1] = i /\ \A j \in 1 .. n : r[j] = list[j] /\ list[j] \in Intervals
  BY DEF Lists
<1>2. ToSet(r) = ToSet(list) \cup {i}
  BY <1>1, ToSetAppend
<1>3. ASSUME NEW j \in 1 .. n PROVE list[j].start + list[j].length < i.start
  <2> DEFINE e == list[j]
  <2>1. e \in Ended(w, m)
    BY <1>1 DEF Lists, ToSet
  <2>2. /\ e \in Intervals /\ e.start + e.length < m /\ ~w[e.start + e.length + 1]
    BY <2>1 DEF Ended
  <2> HIDE DEF e
  <2>3. e.start \in Nat /\ e.length \in Nat /\ i.start \in Nat /\ i.length \in Nat
    BY <2>2 DEF Intervals
  <2>4. e.start + e.length + 1 \notin i.start + 1 .. i.start + i.length
    BY <2>2
  <2> DEFINE x == e.start + e.length
             y == i.start + i.length
  <2>5. x \in Nat /\ y \in Nat /\ x < m /\ m <= y /\ x + 1 \notin i.start + 1 .. y
    <3>1. x \in Nat /\ y \in Nat
      BY <2>3
    <3>2. x < m /\ m <= y
      BY <2>2
    <3>3. x + 1 \notin i.start + 1 .. y
      BY <2>4
    <3> QED
      BY <3>1, <3>2, <3>3
  <2> HIDE DEF x, y
  <2>6. x < i.start
    BY <2>3, <2>5
  <2> QED
    BY <2>6 DEF e, x
<1> HIDE DEF n, r
<1>4. ASSUME NEW j \in 1 .. n + 1, NEW k \in 1 .. n + 1, j < k
      PROVE  r[j].start + r[j].length < r[k].start
  <2>1. j \in 1 .. n
    BY <1>1, <1>4
  <2>2. CASE k = n + 1
    BY <1>1, <1>3, <2>1, <2>2
  <2>3. CASE k # n + 1
    <3>1. k \in 1 .. n
      BY <1>1, <2>3
    <3> QED
      BY <1>1, <1>4, <2>1, <3>1 DEF Lists, n
  <2> QED
    BY <2>2, <2>3
<1>5. ToSet(list) = Ended(w, m)
  BY DEF Lists
<1> QED
  BY <1>1, <1>2, <1>4, <1>5 DEF Lists, r

\* What the detector knows after m samples, of which it has listed those in list.
Follows(s, w, m) ==
  /\ Knows(s, w, m)
  /\ s.ready => m > 0 /\ ~w[m] /\ s.zero_count = 0
  /\ Lists(Reported(s), Ended(w, m))

\* One sample.  A silent one may not follow while an interval is ready, as the
\* silence that it starts would overwrite it.
LEMMA SampleStep ==
  ASSUME NEW s, NEW w, NEW m, Follows(s, w, m), w[m + 1] \in BOOLEAN,
         w[m + 1] => ~s.ready, config.minimum_length \in Nat \ {0}
  PROVE  Follows(Sample(s, w[m + 1]), w, m + 1)
<1> DEFINE t == Sample(s, w[m + 1])
<1>1. Knows(s, w, m) /\ Lists(Reported(s), Ended(w, m)) /\ m \in Nat
      /\ s.zero_count \in Nat /\ s.zero_count <= m
  BY DEF Follows, Knows, Statuses
<1>2. CASE w[m + 1]
  <2>1. w[m + 1] = TRUE /\ ~s.ready
    BY <1>2
  <2>2. t = Sample(s, TRUE)
    BY <2>1
  <2> HIDE DEF t
  <2>3. Knows(t, w, m + 1) /\ ~t.ready /\ Ended(w, m + 1) = Ended(w, m)
    <3>1. config.minimum_length \in Nat
      OBVIOUS
    <3>2. s.ready = FALSE
      BY <1>1, <2>1 DEF Knows, Statuses
    <3>3. /\ Knows(Sample(s, TRUE), w, m + 1)
          /\ Sample(s, TRUE).ready = FALSE
          /\ Ended(w, m + 1) = Ended(w, m)
      BY <1>1, <2>1, <3>1, <3>2, SilenceStep
    <3> QED
      BY <2>2, <3>3
  <2>4. Reported(t) = Reported(s)
    BY <2>1, <2>3 DEF Reported
  <2> QED
    BY <1>1, <2>3, <2>4 DEF Follows, t
<1>3. CASE ~w[m + 1]
  <2>1. w[m + 1] = FALSE
    BY <1>3
  <2>2. t = Sample(s, FALSE)
    BY <2>1
  <2> HIDE DEF t
  <2>3. /\ Knows(t, w, m + 1) /\ t.zero_count = 0
        /\ Ended(w, m + 1) = Ended(w, m) \cup Known(s, m)
    <3>1. Knows(t, w, m + 1)
      BY <1>1, <2>1, <2>2, SignalStep
    <3>2. t.zero_count = 0
      BY <1>1, <2>1, <2>2, SignalStep
    <3>3. Ended(w, m + 1) = Ended(w, m) \cup Known(s, m)
      <4>1. OneMoreEnds(s, w, m)
        BY <1>1, <2>1, SignalStep
      <4> QED
        BY <4>1 DEF OneMoreEnds
    <3> QED
      BY <3>1, <3>2, <3>3
  <2>4. Lists(Reported(t), Ended(w, m + 1))
    <3>1. CASE s.zero_count >= config.minimum_length
      <4> DEFINE i == Interval(m - s.zero_count, s.zero_count)
      <4>1. ~s.ready
        BY <1>1, <3>1 DEF Follows
      <4>2. t.ready /\ t.interval = i
        BY <1>1, <2>1, <2>2, <3>1, SignalStep
      <4>3. Known(s, m) = {i}
        BY <3>1 DEF Known
      <4> HIDE DEF i
      <4>4. /\ i \in Intervals /\ i.length >= config.minimum_length
            /\ i.start + i.length = m
            /\ \A k \in i.start + 1 .. i.start + i.length : w[k]
            /\ i.start = 0 \/ ~w[i.start]
        BY <1>1, <4>3, KnownIs
      <4>5. i.length > 0 /\ i.start + i.length >= m
        BY <1>1, <4>4 DEF Intervals
      <4>6. Reported(s) = intervals /\ Reported(t) = Append(intervals, i)
        BY <4>1, <4>2 DEF Reported
      <4>7. Lists(Append(intervals, i), Ended(w, m) \cup {i})
        BY <1>1, <1>3, <4>4, <4>5, <4>6, ListsOneMore
      <4> QED
        BY <2>3, <4>3, <4>6, <4>7
    <3>2. CASE ~ (s.zero_count >= config.minimum_length)
      <4>1. t.ready = s.ready /\ t.interval = s.interval
        BY <1>1, <2>1, <2>2, <3>2, SignalStep
      <4>2. Known(s, m) = {}
        BY <3>2 DEF Known
      <4>3. Reported(t) = Reported(s)
        BY <4>1 DEF Reported
      <4>4. Ended(w, m + 1) = Ended(w, m)
        BY <2>3, <4>2
      <4> QED
        BY <1>1, <4>3, <4>4
    <3> QED
      BY <3>1, <3>2
  <2>5. m + 1 > 0
    BY <1>1
  <2>6. Follows(t, w, m + 1)
    BY <1>3, <2>3, <2>4, <2>5 DEF Follows
  <2> QED
    BY <2>6 DEF t
<1> QED
  BY <1>2, <1>3

\* Later samples change nothing of what is known of the first m.
LEMMA SamePrefix ==
  ASSUME NEW w, NEW v, NEW m \in Nat, \A k \in 1 .. m : w[k] = v[k]
  PROVE  /\ Ended(w, m) = Ended(v, m)
         /\ \A s : Knows(s, v, m) => Knows(s, w, m)
<1>1. ASSUME NEW i \in Intervals PROVE i \in Ended(w, m) <=> i \in Ended(v, m)
  <2>1. i.start \in Nat /\ i.length \in Nat
    BY DEF Intervals
  <2> SUFFICES ASSUME i.start + i.length < m PROVE i \in Ended(w, m) <=> i \in Ended(v, m)
    BY DEF Ended
  <2>2. \A k \in i.start + 1 .. i.start + i.length : w[k] = v[k]
    BY <2>1
  <2>3. w[i.start + i.length + 1] = v[i.start + i.length + 1]
    BY <2>1
  <2>4. i.start # 0 => w[i.start] = v[i.start]
    BY <2>1
  <2> QED
    BY <2>2, <2>3, <2>4 DEF Ended
<1>2. ASSUME NEW s, Knows(s, v, m) PROVE Knows(s, w, m)
  <2>1. s.zero_count \in Nat /\ s.zero_count <= m
    BY <1>2 DEF Knows, Statuses
  <2>2. \A k \in m - s.zero_count + 1 .. m : w[k] = v[k]
    BY <2>1
  <2>3. s.zero_count # m => w[m - s.zero_count] = v[m - s.zero_count]
    BY <2>1
  <2> QED
    BY <1>2, <2>2, <2>3 DEF Knows
<1> QED
  BY <1>1, <1>2 DEF Ended

LEMMA TestedIs ==
  ASSUME NEW frame, NEW n \in Nat, frame \in [1 .. n -> BOOLEAN]
  PROVE  /\ Tested(frame) \in Seq(BOOLEAN) /\ Len(Tested(frame)) = n
         /\ DOMAIN Tested(frame) = 1 .. n
         /\ \A c \in 1 .. n - 1 : Tested(frame)[c + 1] => Tested(frame)[c]
<1> DEFINE f == Tested(frame)
<1>1. f = [c \in 1 .. n |-> \A d \in 1 .. c : frame[d]]
  BY DEF Tested
<1>2. f \in [1 .. n -> BOOLEAN]
  BY <1>1
<1>3. f \in Seq(BOOLEAN) /\ Len(f) = n
  BY <1>2
<1>4. ASSUME NEW c \in 1 .. n - 1, f[c + 1] PROVE f[c]
  <2>1. c \in 1 .. n /\ c + 1 \in 1 .. n /\ \A d \in 1 .. c : d \in 1 .. c + 1
    OBVIOUS
  <2>2. \A d \in 1 .. c + 1 : frame[d]
    BY <1>1, <1>4, <2>1
  <2>3. \A d \in 1 .. c : frame[d]
    BY <2>1, <2>2
  <2> QED
    BY <1>1, <2>1, <2>3
<1> QED
  BY <1>2, <1>3, <1>4

LEMMA FrameStep ==
  ASSUME NEW n \in Nat, NEW frame \in [1 .. n -> BOOLEAN], config.minimum_length \in Nat \ {0},
         NEW v \in Seq(BOOLEAN), Knows(status, v, Len(v)), Lists(intervals, Ended(v, Len(v)))
  PROVE  LET w == v \o Tested(frame)
         IN  w \in Seq(BOOLEAN) /\ Follows(ProcessFrame(status, frame), w, Len(w))
<1> DEFINE f == Tested(frame)
           w == v \o f
           m == Len(v)
           s == [status EXCEPT !.ready = FALSE]
<1>1. /\ f \in Seq(BOOLEAN) /\ Len(f) = n /\ DOMAIN f = 1 .. n
      /\ \A c \in 1 .. n - 1 : f[c + 1] => f[c]
  BY TestedIs
<1> HIDE DEF f
<1>2. /\ w \in Seq(BOOLEAN) /\ Len(w) = m + n /\ m \in Nat
      /\ \A k \in 1 .. m : w[k] = v[k]
      /\ \A c \in 1 .. n : w[m + c] = f[c] /\ f[c] \in BOOLEAN
  <2>1. f \in Seq(BOOLEAN) /\ v \in Seq(BOOLEAN)
    BY <1>1
  <2>2. w \in Seq(BOOLEAN)
    BY <2>1
  <2>3. /\ Len(w) = Len(v) + Len(f)
        /\ \A k \in 1 .. Len(v) + Len(f) : w[k] = IF k <= Len(v) THEN v[k] ELSE f[k - Len(v)]
    BY <2>1, ConcatProperties
  <2>4. m \in Nat /\ Len(v) = m
    OBVIOUS
  <2>5. \A c \in 1 .. n : f[c] \in BOOLEAN
    BY <1>1
  <2> HIDE DEF w, m
  <2>6. \A k \in 1 .. m : w[k] = v[k]
    BY <1>1, <2>3, <2>4
  <2>7. ASSUME NEW c \in 1 .. n PROVE w[m + c] = f[c]
    <3>1. m + c \in 1 .. m + n /\ ~ (m + c <= m) /\ (m + c) - m = c
      BY <2>4
    <3> QED
      BY <1>1, <2>3, <2>4, <3>1
  <2> QED
    BY <1>1, <2>2, <2>3, <2>4, <2>5, <2>6, <2>7
<1> HIDE DEF w, m
<1>3. Knows(s, w, m) /\ ~s.ready
  <2>1. Knows(s, v, m) /\ ~s.ready
    BY DEF Knows, Statuses, m
  <2> QED
    BY <1>2, <2>1, SamePrefix
<1>4. Follows(s, w, m)
  <2>1. Reported(s) = intervals
    BY <1>3 DEF Reported
  <2>2. Ended(w, m) = Ended(v, m)
    BY <1>2, SamePrefix
  <2>3. Lists(Reported(s), Ended(w, m))
    BY <2>1, <2>2 DEF m
  <2> QED
    BY <1>3, <2>3 DEF Follows
<1> HIDE DEF s
<1>5. PICK g : /\ g[0] = s
               /\ \A i \in 1 .. n : g[i] = Sample(g[i - 1], f[i])
               /\ Folded(s, f) = g[n]
  <2>1. \E g : Unfolds(g, s, f, n)
    BY <1>1, FoldIs
  <2> QED
    BY <2>1 DEF Unfolds
<1> DEFINE S == {i \in Nat : i <= n => Follows(g[i], w, m + i)}
<1>6. 0 \in S
  <2>1. m + 0 = m
    BY <1>2
  <2> QED
    BY <1>4, <1>5, <2>1
<1>7. ASSUME NEW i \in Nat, i \in S PROVE i + 1 \in S
  <2> SUFFICES ASSUME i + 1 <= n PROVE Follows(g[i + 1], w, m + (i + 1))
    OBVIOUS
  <2> DEFINE x == g[i]
             k == m + i
  <2>1. Follows(x, w, k)
    BY <1>7
  <2>2. k + 1 = m + (i + 1) /\ i + 1 \in 1 .. n /\ (i + 1) - 1 = i
    BY <1>2
  <2>3. g[i + 1] = Sample(x, f[i + 1])
    BY <1>5, <2>2
  <2>4. w[k + 1] = f[i + 1] /\ w[k + 1] \in BOOLEAN
    BY <1>2, <2>2
  <2>5. w[k + 1] => ~x.ready
    <3>1. CASE i = 0
      BY <1>3, <1>5, <3>1
    <3>2. CASE i # 0
      <4>1. i \in 1 .. n - 1 /\ i \in 1 .. n
        BY <2>2, <3>2
      <4>2. f[i + 1] => f[i]
        BY <1>1, <4>1
      <4>3. w[k] = f[i]
        BY <1>2, <4>1
      <4>4. x.ready => ~w[k]
        BY <2>1 DEF Follows
      <4> QED
        BY <2>4, <4>2, <4>3, <4>4
    <3> QED
      BY <3>1, <3>2
  <2> HIDE DEF x, k
  <2>6. Follows(Sample(x, w[k + 1]), w, k + 1)
    BY <2>1, <2>4, <2>5, SampleStep
  <2> QED
    BY <2>2, <2>3, <2>4, <2>6
<1> HIDE DEF S
<1>8. n \in S
  BY <1>6, <1>7, InductionOverNat
<1>9. Follows(g[n], w, m + n)
  BY <1>8 DEF S
<1>10. ProcessFrame(status, frame) = g[n]
  BY <1>5 DEF ProcessFrame, Folded, s, f
<1> QED
  BY <1>2, <1>9, <1>10 DEF w, f

-----------------------------------------------------------------------------
(***************************************************************************)
(* The end of the input: finish() adds the silence that is still open, or  *)
(* repeats the last.                                                       *)
(***************************************************************************)
\* LongSilences of the samples w in phase p.
Long(w, p) ==
  {i \in [start : 0 .. Len(w), length : config.minimum_length .. Len(w)] :
     /\ i.start + i.length <= Len(w)
     /\ \A k \in i.start + 1 .. i.start + i.length : w[k]
     /\ i.start = 0 \/ ~w[i.start]
     /\ IF i.start + i.length + 1 \in DOMAIN w THEN ~w[i.start + i.length + 1] ELSE p = "done"}

LEMMA LongIs ==
  ASSUME NEW w \in Seq(BOOLEAN), config.minimum_length \in Nat \ {0},
         NEW s, Knows(s, w, Len(w)), NEW p
  PROVE  Long(w, p) = IF p = "done" THEN Ended(w, Len(w)) \cup Known(s, Len(w))
                      ELSE Ended(w, Len(w))
<1> DEFINE m == Len(w)
<1>1. m \in Nat /\ DOMAIN w = 1 .. m
  OBVIOUS
<1>2. ASSUME NEW i \in Intervals
      PROVE  i \in Long(w, p) <=> \/ i \in Ended(w, m)
                                  \/ p = "done" /\ i \in Known(s, m)
  <2> DEFINE Q == /\ \A k \in i.start + 1 .. i.start + i.length : w[k]
                  /\ i.start = 0 \/ ~w[i.start]
             e == i.start + i.length
  <2>1. i.start \in Nat /\ i.length \in Nat /\ e \in Nat
    BY DEF Intervals
  <2>2. i \in Known(s, m) <=> i.length >= config.minimum_length /\ e = m /\ Q
    BY KnownIs
  <2>3. i \in Ended(w, m) <=> i.length >= config.minimum_length /\ e < m /\ Q /\ ~w[e + 1]
    BY DEF Ended
  <2>4. i \in Long(w, p) <=> /\ i \in [start : 0 .. m, length : config.minimum_length .. m]
                             /\ e <= m /\ Q
                             /\ IF e + 1 \in 1 .. m THEN ~w[e + 1] ELSE p = "done"
    BY <1>1 DEF Long
  <2> HIDE DEF Q
  <2>5. e <= m => (i \in [start : 0 .. m, length : config.minimum_length .. m]
                     <=> i.length >= config.minimum_length)
    BY <1>1, <2>1 DEF Intervals
  <2> HIDE DEF e, m
  <2>6. CASE e < m
    <3>1. e + 1 \in 1 .. m /\ e <= m /\ e # m
      BY <1>1, <2>1, <2>6
    <3> QED
      BY <2>2, <2>3, <2>4, <2>5, <2>6, <3>1
  <2>7. CASE e = m
    <3>1. e + 1 \notin 1 .. m /\ e <= m /\ ~ (e < m)
      BY <1>1, <2>1, <2>7
    <3> QED
      BY <2>2, <2>3, <2>4, <2>5, <2>7, <3>1
  <2>8. CASE e > m
    <3>1. ~ (e <= m) /\ ~ (e < m) /\ e # m
      BY <1>1, <2>1, <2>8
    <3> QED
      BY <2>2, <2>3, <2>4, <3>1
  <2> QED
    BY <1>1, <2>1, <2>6, <2>7, <2>8
<1>3. Long(w, p) \subseteq Intervals
  BY <1>1 DEF Long, Intervals
<1>4. Ended(w, m) \subseteq Intervals
  BY DEF Ended
<1>5. Known(s, m) \subseteq Intervals
  BY KnownIs
<1> HIDE DEF m
<1>6. CASE p = "done"
  <2>1. Long(w, p) = Ended(w, m) \cup Known(s, m)
    BY <1>2, <1>3, <1>4, <1>5, <1>6
  <2> QED
    BY <1>6, <2>1 DEF m
<1>7. CASE p # "done"
  <2>1. Long(w, p) = Ended(w, m)
    BY <1>2, <1>3, <1>4, <1>7
  <2> QED
    BY <1>7, <2>1 DEF m
<1> QED
  BY <1>6, <1>7

\* The list that finish() leaves: in order, but for an interval that is there twice.
Finished(list, S) ==
  /\ ToSet(list) = S
  /\ \A j, k \in DOMAIN list : j < k =>
       \/ list[j].start + list[j].length < list[k].start
       \/ k = Len(list) /\ j = k - 1 /\ list[j] = list[k]

LEMMA FinishStep ==
  ASSUME NEW w \in Seq(BOOLEAN), config.minimum_length \in Nat \ {0},
         Knows(status, w, Len(w)), Lists(intervals, Ended(w, Len(w))),
         status.ready => /\ status.zero_count = 0 /\ intervals # <<>>
                         /\ intervals[Len(intervals)] = status.interval
  PROVE  Finished(Reported(Signal(status)), Ended(w, Len(w)) \cup Known(status, Len(w)))
<1> DEFINE m == Len(w)
           s == status
           t == Signal(s)
           n == Len(intervals)
<1>1. /\ m \in Nat /\ Knows(s, w, m) /\ s \in Statuses /\ s.zero_count \in Nat /\ s.zero_count <= m
      /\ s.interval \in Intervals /\ s.ready \in BOOLEAN
  BY DEF Knows, Statuses
<1>2. /\ intervals \in Seq(Intervals) /\ n \in Nat /\ DOMAIN intervals = 1 .. n
      /\ ToSet(intervals) = Ended(w, m)
      /\ \A j, k \in 1 .. n : j < k => intervals[j].start + intervals[j].length < intervals[k].start
  BY DEF Lists
<1>3. CASE s.zero_count >= config.minimum_length
  <2> DEFINE i == Interval(m - s.zero_count, s.zero_count)
             r == Append(intervals, i)
  <2>1. ~s.ready
    BY <1>1, <1>3
  <2>2. t.ready = TRUE /\ t.interval = [s.interval EXCEPT !.length = s.zero_count]
    BY <1>1, <1>3 DEF Signal, Statuses
  <2>3. s.interval.start = m - s.zero_count
    BY <1>1, <1>3 DEF Knows
  <2>4. t.interval = i
    BY <1>1, <2>2, <2>3 DEF Interval, Intervals
  <2>5. Reported(t) = r
    BY <2>2, <2>4 DEF Reported
  <2>6. Known(s, m) = {i}
    BY <1>3 DEF Known
  <2> HIDE DEF i
  <2>7. /\ i \in Intervals /\ i.length >= config.minimum_length
        /\ i.start + i.length = m
        /\ \A k \in i.start + 1 .. i.start + i.length : w[k]
        /\ i.start = 0 \/ ~w[i.start]
    BY <1>1, <2>6, KnownIs
  <2>8. i.length > 0 /\ i.start + i.length >= m
    BY <1>1, <2>7 DEF Intervals
  <2>9. Lists(r, Ended(w, m) \cup {i})
    BY <1>1, <2>7, <2>8, ListsOneMore
  <2>10. DOMAIN r = 1 .. Len(r)
    BY <2>9 DEF Lists
  <2> HIDE DEF r, n, m, s, t
  <2>11. Finished(r, Ended(w, m) \cup Known(s, m))
    BY <2>6, <2>9, <2>10 DEF Finished, Lists
  <2> QED
    BY <2>5, <2>11 DEF m, s, t
<1>4. CASE ~ (s.zero_count >= config.minimum_length)
  <2>1. Known(s, m) = {}
    BY <1>4 DEF Known
  <2>2. t.ready = s.ready
    BY <1>1, <1>4 DEF Signal, Statuses
  <2>3. t.interval = s.interval
    BY <1>1, <1>4 DEF Signal, Statuses, Intervals
  <2>4. CASE ~s.ready
    <3>1. Reported(t) = intervals
      BY <2>2, <2>4 DEF Reported
    <3>2. Finished(intervals, Ended(w, m))
      BY <1>2 DEF Finished
    <3> QED
      BY <2>1, <3>1, <3>2
  <2>5. CASE s.ready
    <3> DEFINE i == s.interval
               r == Append(intervals, i)
    <3>1. Reported(t) = r
      BY <2>2, <2>3, <2>5 DEF Reported
    <3>2. n # 0 /\ intervals[n] = i /\ i \in Intervals
      BY <1>1, <1>2, <2>5
    <3> HIDE DEF i
    <3>3. /\ r \in Seq(Intervals) /\ Len(r) = n + 1 /\ DOMAIN r = 1 .. n + 1 /\ r[n + 1] = i
          /\ \A j \in 1 .. n : r[j] = intervals[j] /\ intervals[j] \in Intervals
      BY <1>2, <3>2
    <3>4. ToSet(r) = Ended(w, m)
      <4>1. ToSet(r) = ToSet(intervals) \cup {i}
        BY <1>2, ToSetAppend
      <4>2. n \in 1 .. n
        BY <1>2, <3>2
      <4>3. i \in ToSet(intervals)
        BY <1>2, <3>2, <4>2 DEF ToSet
      <4> QED
        BY <1>2, <4>1, <4>3
    <3> HIDE DEF r, n, m, s, t
    <3>5. ASSUME NEW j \in 1 .. n + 1, NEW k \in 1 .. n + 1, j < k
          PROVE  \/ r[j].start + r[j].length < r[k].start
                 \/ k = n + 1 /\ j = k - 1 /\ r[j] = r[k]
      <4>1. j \in 1 .. n
        BY <1>2, <3>5
      <4>2. CASE k # n + 1
        <5>1. k \in 1 .. n
          BY <1>2, <4>2
        <5> QED
          BY <1>2, <3>3, <3>5, <4>1, <5>1
      <4>3. CASE k = n + 1 /\ j = n
        <5>1. j = k - 1 /\ r[j] = r[k]
          BY <1>2, <3>2, <3>3, <4>1, <4>3
        <5> QED
          BY <4>3, <5>1
      <4>4. CASE k = n + 1 /\ j # n
        <5>1. j < n /\ n \in 1 .. n
          BY <1>2, <4>1, <4>4
        <5>2. intervals[j].start + intervals[j].length < i.start
          BY <1>2, <3>2, <4>1, <5>1
        <5> QED
          BY <3>3, <4>1, <4>4, <5>2
      <4> QED
        BY <4>2, <4>3, <4>4
    <3>6. Finished(r, Ended(w, m))
      BY <3>3, <3>4, <3>5 DEF Finished
    <3> QED
      BY <2>1, <3>1, <3>6 DEF m, s, t
  <2> QED
    BY <2>4, <2>5
<1> QED
  BY <1>3, <1>4

-----------------------------------------------------------------------------
(***************************************************************************)
(* The inductive invariant.  Before the end, the intervals are the silences *)
(* that have ended, and the one that is ready is the last of them.         *)
(***************************************************************************)
SilenceInv ==
  /\ config \in Configs
  /\ frames \in Seq([1 .. config.channels -> BOOLEAN])
  /\ phase \in {"new", "run", "done"}
  /\ phase = "new" => frames = <<>> /\ intervals = <<>>
  /\ phase # "done" =>
       /\ Knows(status, Samples, Len(Samples))
       /\ status.ready => /\ status.zero_count = 0 /\ intervals # <<>>
                          /\ intervals[Len(intervals)] = status.interval
       /\ Lists(intervals, Ended(Samples, Len(Samples)))
  /\ phase = "done" => Finished(intervals, LongSilences)

LEMMA ConfigIs ==
  ASSUME config \in Configs
  PROVE  config.channels \in Nat /\ config.minimum_length \in Nat \ {0}
BY ConfigsAssumption

\* The samples of one more frame come after the others.
LEMMA SamplesGrow ==
  ASSUME NEW n \in Nat, NEW fs \in Seq([1 .. n -> BOOLEAN]), NEW f \in [1 .. n -> BOOLEAN]
  PROVE  LET all(s) == FlattenSeq([k \in DOMAIN s |-> Tested(s[k])])
         IN  all(fs) \in Seq(BOOLEAN) /\ all(Append(fs, f)) = all(fs) \o Tested(f)
<1> DEFINE F == [1 .. n -> BOOLEAN]
           q == [k \in DOMAIN fs |-> Tested(fs[k])]
           gs == Append(fs, f)
           r == [k \in DOMAIN gs |-> Tested(gs[k])]
           N == Len(fs)
<1>1. \A g \in F : Tested(g) \in Seq(BOOLEAN)
  BY TestedIs
<1>2. fs \in Seq(F) /\ f \in F
  OBVIOUS
<1> HIDE DEF F
<1>3. /\ N \in Nat /\ DOMAIN fs = 1 .. N /\ DOMAIN gs = 1 .. N + 1 /\ gs[N + 1] = f
      /\ \A k \in 1 .. N : gs[k] = fs[k] /\ fs[k] \in F
  BY <1>2
<1>4. q = [k \in 1 .. N |-> Tested(fs[k])] /\ r = [k \in 1 .. N + 1 |-> Tested(gs[k])]
  BY <1>3
<1> HIDE DEF q, r, gs, N
<1>5. q \in [1 .. N -> Seq(BOOLEAN)] /\ r \in [1 .. N + 1 -> Seq(BOOLEAN)]
  BY <1>1, <1>2, <1>3, <1>4
<1>6. /\ q \in Seq(Seq(BOOLEAN)) /\ Len(q) = N
      /\ r \in Seq(Seq(BOOLEAN)) /\ Len(r) = N + 1
  <2> DEFINE B == Seq(BOOLEAN)
  <2>1. q \in [1 .. N -> B] /\ r \in [1 .. N + 1 -> B] /\ N \in Nat /\ N + 1 \in Nat
    BY <1>3, <1>5
  <2> HIDE DEF B
  <2>2. q \in Seq(B) /\ r \in Seq(B) /\ Len(q) = N /\ Len(r) = N + 1
    BY <2>1
  <2> QED
    BY <2>2 DEF B
<1> DEFINE T == Seq(BOOLEAN)
           a == Append(q, Tested(f))
<1>7. Tested(f) \in T /\ q \in Seq(T) /\ r \in Seq(T)
  BY <1>1, <1>2, <1>6
<1> HIDE DEF T
<1>8. /\ a \in Seq(T) /\ Len(a) = N + 1 /\ a[N + 1] = Tested(f)
      /\ \A k \in 1 .. N : a[k] = q[k]
  BY <1>3, <1>6, <1>7
<1>9. \A k \in 1 .. N + 1 : k = N + 1 \/ k \in 1 .. N
  BY <1>3
<1>10. \A k \in 1 .. N + 1 : r[k] = a[k]
  BY <1>3, <1>4, <1>8, <1>9
<1>11. r = a
  BY <1>6, <1>7, <1>8, <1>10, SeqEqual
<1>12. FlattenSeq(q) \in Seq(BOOLEAN) /\ FlattenSeq(a) = FlattenSeq(q) \o Tested(f)
  BY <1>7, FlattenAppend DEF T
<1> QED
  BY <1>11, <1>12 DEF q, r, gs

LEMMA SilenceInit == Init => SilenceInv
<1> SUFFICES ASSUME Init PROVE SilenceInv
  OBVIOUS
<1>1. /\ config \in Configs /\ frames = <<>> /\ intervals = <<>> /\ phase = "new"
      /\ status = NewStatus
  BY DEF Init
<1>2. Samples = <<>> /\ Len(Samples) = 0
  BY <1>1 DEF Samples, FlattenSeq
<1>3. status \in Statuses /\ status.total = 0 /\ status.zero_count = 0 /\ status.ready = FALSE
  BY <1>1 DEF NewStatus, Statuses, Intervals, Interval
<1>4. Knows(status, Samples, 0)
  BY <1>3 DEF Knows
<1>5. Ended(Samples, 0) = {}
  BY DEF Ended, Intervals
<1>6. Lists(intervals, {})
  BY <1>1 DEF Lists, ToSet
<1>7. frames \in Seq([1 .. config.channels -> BOOLEAN])
  BY <1>1
<1> QED
  BY <1>1, <1>2, <1>3, <1>4, <1>5, <1>6, <1>7 DEF SilenceInv

LEMMA SamplesAre ==
  ASSUME config.channels \in Nat, frames \in Seq([1 .. config.channels -> BOOLEAN])
  PROVE  Samples \in Seq(BOOLEAN)
<1> DEFINE n == config.channels
           f == [c \in 1 .. n |-> TRUE]
<1>1. f \in [1 .. n -> BOOLEAN] /\ n \in Nat /\ frames \in Seq([1 .. n -> BOOLEAN])
  OBVIOUS
<1> HIDE DEF n, f
<1>2. FlattenSeq([k \in DOMAIN frames |-> Tested(frames[k])]) \in Seq(BOOLEAN)
  BY <1>1, SamplesGrow
<1> QED
  BY <1>2 DEF Samples

LEMMA SilenceStay ==
  ASSUME SilenceInv, UNCHANGED vars
  PROVE  SilenceInv'
<1>1. /\ config' = config /\ frames' = frames /\ status' = status /\ intervals' = intervals
      /\ phase' = phase
  BY DEF vars
<1>2. Samples' = Samples /\ LongSilences' = LongSilences
  BY <1>1 DEF Samples, LongSilences, Stops
<1>3. Ended(Samples, Len(Samples))' = Ended(Samples, Len(Samples))
  BY <1>1, <1>2 DEF Ended
<1> QED
  BY <1>1, <1>2, <1>3 DEF SilenceInv

LEMMA SilenceInitialise ==
  ASSUME SilenceInv, Initialise
  PROVE  SilenceInv'
<1>1. /\ phase = "new" /\ phase' = "run" /\ status' = NewStatus
      /\ config' = config /\ frames' = frames /\ intervals' = intervals
      /\ frames = <<>> /\ intervals = <<>>
  BY DEF Initialise, SilenceInv
<1>2. config \in Configs /\ frames \in Seq([1 .. config.channels -> BOOLEAN])
  BY DEF SilenceInv
<1>3. Samples = <<>> /\ Len(Samples) = 0
  BY <1>1 DEF Samples, FlattenSeq
<1>4. Samples' = Samples
  BY <1>1 DEF Samples
<1>5. NewStatus \in Statuses /\ NewStatus.total = 0 /\ NewStatus.zero_count = 0
      /\ NewStatus.ready = FALSE
  BY DEF NewStatus, Statuses, Intervals, Interval
<1>6. Knows(status', Samples, 0)
  BY <1>1, <1>5 DEF Knows
<1>7. Ended(Samples, Len(Samples))' = Ended(Samples, Len(Samples))
  BY <1>1, <1>4 DEF Ended
<1>8. Lists(intervals, Ended(Samples, Len(Samples)))
  BY <1>1 DEF SilenceInv
<1> QED
  BY <1>1, <1>2, <1>3, <1>4, <1>5, <1>6, <1>7, <1>8 DEF SilenceInv

LEMMA SilenceProcess ==
  ASSUME SilenceInv, Process
  PROVE  SilenceInv'
<1> DEFINE n == config.channels
           v == Samples
<1>1. phase = "run" /\ phase' = "run" /\ config' = config
  BY DEF Process
<1>2. PICK frame \in [1 .. n -> BOOLEAN] :
        /\ frames' = Append(frames, frame)
        /\ status' = ProcessFrame(status, frame)
        /\ intervals' = Reported(status')
  BY DEF Process
<1>3. /\ config \in Configs /\ frames \in Seq([1 .. n -> BOOLEAN])
      /\ Knows(status, v, Len(v)) /\ Lists(intervals, Ended(v, Len(v)))
  BY <1>1 DEF SilenceInv
<1>4. n \in Nat /\ config.minimum_length \in Nat \ {0}
  BY <1>3, ConfigIs
<1> DEFINE w == v \o Tested(frame)
<1>5. v \in Seq(BOOLEAN) /\ Samples' = w
  <2>1. Samples = FlattenSeq([k \in DOMAIN frames |-> Tested(frames[k])])
    BY DEF Samples
  <2>2. Samples' = FlattenSeq([k \in DOMAIN Append(frames, frame) |->
                                 Tested(Append(frames, frame)[k])])
    BY <1>2 DEF Samples
  <2> HIDE DEF n
  <2> QED
    BY <1>2, <1>3, <1>4, <2>1, <2>2, SamplesGrow
<1> HIDE DEF v
<1>6. w \in Seq(BOOLEAN) /\ Follows(ProcessFrame(status, frame), w, Len(w))
  BY <1>3, <1>4, <1>5, FrameStep
<1> DEFINE t == ProcessFrame(status, frame)
<1>7. /\ Knows(t, w, Len(w))
      /\ t.ready => t.zero_count = 0
      /\ Lists(Reported(t), Ended(w, Len(w)))
  BY <1>6 DEF Follows
<1> HIDE DEF t, w
<1>8. status' = t /\ intervals' = Reported(t)
  BY <1>2 DEF t
<1>9. Ended(Samples, Len(Samples))' = Ended(w, Len(w))
  BY <1>1, <1>5 DEF Ended
<1>10. t.ready => intervals' # <<>> /\ intervals'[Len(intervals')] = t.interval
  <2> SUFFICES ASSUME t.ready PROVE intervals' # <<>> /\ intervals'[Len(intervals')] = t.interval
    OBVIOUS
  <2> DEFINE i == t.interval
  <2>1. intervals' = Append(intervals, i)
    BY <1>8 DEF Reported
  <2>2. intervals \in Seq(Intervals) /\ i \in Intervals
    BY <1>3, <1>7 DEF Lists, Knows, Statuses
  <2> HIDE DEF i
  <2>3. Append(intervals, i) # <<>> /\ Append(intervals, i)[Len(Append(intervals, i))] = i
    BY <2>2
  <2> QED
    BY <2>1, <2>3 DEF i
<1>11. frames' \in Seq([1 .. n -> BOOLEAN])
  BY <1>2, <1>3
<1> QED
  BY <1>1, <1>3, <1>5, <1>7, <1>8, <1>9, <1>10, <1>11 DEF SilenceInv

LEMMA SilenceFinalise ==
  ASSUME SilenceInv, Finalise
  PROVE  SilenceInv'
<1> DEFINE w == Samples
           n == config.channels
<1>1. /\ phase = "run" /\ phase' = "done" /\ config' = config /\ frames' = frames
      /\ intervals' = Reported(Signal(status))
  BY DEF Finalise, Reported
<1>2. /\ config \in Configs /\ frames \in Seq([1 .. n -> BOOLEAN])
      /\ Knows(status, w, Len(w)) /\ Lists(intervals, Ended(w, Len(w)))
      /\ status.ready => /\ status.zero_count = 0 /\ intervals # <<>>
                         /\ intervals[Len(intervals)] = status.interval
  BY <1>1 DEF SilenceInv
<1>3. n \in Nat /\ config.minimum_length \in Nat \ {0}
  BY <1>2, ConfigIs
<1>4. w \in Seq(BOOLEAN)
  BY <1>2, <1>3, SamplesAre
<1>5. LongSilences' = Long(w, "done")
  BY <1>1 DEF LongSilences, Long, Stops, Samples
<1> HIDE DEF w
<1>6. Long(w, "done") = Ended(w, Len(w)) \cup Known(status, Len(w))
  BY <1>2, <1>3, <1>4, LongIs
<1>7. Finished(Reported(Signal(status)), Ended(w, Len(w)) \cup Known(status, Len(w)))
  BY <1>2, <1>3, <1>4, FinishStep
<1>8. Finished(intervals', LongSilences')
  BY <1>1, <1>5, <1>6, <1>7
<1> QED
  BY <1>1, <1>2, <1>8 DEF SilenceInv

LEMMA SilenceNext ==
  ASSUME SilenceInv, [Next]_vars
  PROVE  SilenceInv'
BY SilenceInitialise, SilenceProcess, SilenceFinalise, SilenceStay DEF Next

LEMMA SilenceInvariant == Spec => []SilenceInv
<1>1. SilenceInv /\ [Next]_vars => SilenceInv'
  BY SilenceNext
<1> QED
  BY SilenceInit, <1>1, PTL DEF Spec

\* SilenceDetector finds what is silent for long enough and nothing else, in
\* order, for any number of channels and samples: each interval is a silence of
\* full length, between two sounds or the ends of the file, and no silence is
\* missed.  Only the last may be there twice, after finish().
THEOREM SilencesAreFound == Spec => []IntervalsAreSilences
<1>1. SilenceInv => IntervalsAreSilences
  <2> SUFFICES ASSUME SilenceInv PROVE IntervalsAreSilences
    OBVIOUS
  <2> DEFINE w == Samples
             n == config.channels
  <2>1. CASE phase = "done"
    BY <2>1 DEF SilenceInv, Finished, IntervalsAreSilences
  <2>2. CASE phase # "done"
    <3>1. /\ config \in Configs /\ frames \in Seq([1 .. n -> BOOLEAN])
          /\ Knows(status, w, Len(w)) /\ Lists(intervals, Ended(w, Len(w)))
      BY <2>2 DEF SilenceInv
    <3>2. n \in Nat /\ config.minimum_length \in Nat \ {0}
      BY <3>1, ConfigIs
    <3>3. w \in Seq(BOOLEAN)
      BY <3>1, <3>2, SamplesAre
    <3>4. LongSilences = Long(w, phase)
      BY DEF LongSilences, Long, Stops, Samples
    <3> HIDE DEF w
    <3>5. Long(w, phase) = Ended(w, Len(w))
      BY <2>2, <3>1, <3>2, <3>3, LongIs
    <3>6. ToSet(intervals) = LongSilences
      BY <3>1, <3>4, <3>5 DEF Lists
    <3>7. \A j, k \in DOMAIN intervals : j < k =>
            intervals[j].start + intervals[j].length < intervals[k].start
      BY <3>1 DEF Lists
    <3> QED
      BY <3>6, <3>7 DEF IntervalsAreSilences
  <2> QED
    BY <2>1, <2>2
<1> QED
  BY <1>1, SilenceInvariant, PTL
=============================================================================
