---------------------------- MODULE BlockProofs -----------------------------
(***************************************************************************)
(* Theorems about BlockTimes, for every channel and every minimum          *)
(* duration.                                                               *)
(***************************************************************************)
EXTENDS BlockTimes, SequenceLemmas, SequenceTheorems

\* The blocks of s follow each other from time a to time b.
Spans(s, a, b) ==
  /\ s # <<>>
  /\ s[1].rtime = a
  /\ End(s[Len(s)]) = b
  /\ \A i \in 2 .. Len(s) : s[i].rtime = End(s[i - 1])

\* The same of blocks that are listed from the latest to the earliest.
BackSpans(s, a, b) ==
  /\ s # <<>>
  /\ s[Len(s)].rtime = a
  /\ End(s[1]) = b
  /\ \A i \in 2 .. Len(s) : s[i - 1].rtime = End(s[i])

LEMMA BlockTimesAre ==
  ASSUME NEW b \in Block
  PROVE  b.rtime \in Int /\ b.dur \in Nat /\ End(b) \in Int /\ End(b) = b.rtime + b.dur
BY DEF Block, End

LEMMA SpansTimes ==
  ASSUME NEW s \in Seq(Block), NEW a, NEW b, Spans(s, a, b)
  PROVE  a \in Int /\ b \in Int /\ Len(s) \in Nat \ {0}
<1>1. Len(s) \in Nat \ {0} /\ s[1] \in Block /\ s[Len(s)] \in Block
  BY DEF Spans
<1> QED
  BY <1>1, BlockTimesAre DEF Spans

LEMMA SpansConcat ==
  ASSUME NEW s \in Seq(Block), NEW t \in Seq(Block), NEW a, NEW b, NEW c,
         Spans(s, a, b), Spans(t, b, c)
  PROVE  Spans(s \o t, a, c)
<1> DEFINE m == Len(s)
           n == Len(t)
           u == s \o t
<1>1. m \in Nat \ {0} /\ n \in Nat \ {0}
  BY DEF Spans
<1>2. Len(u) = m + n /\ u # <<>>
  BY <1>1
<1>3. /\ \A i \in 1 .. m : u[i] = s[i]
      /\ \A i \in m + 1 .. m + n : u[i] = t[i - m]
  OBVIOUS
<1> HIDE DEF m, n, u
<1>4. u[1] = s[1] /\ u[m + n] = t[n] /\ u[m] = s[m] /\ u[m + 1] = t[1]
  <2>1. (m + n) - m = n /\ (m + 1) - m = 1
    BY <1>1
  <2> QED
    BY <1>1, <1>3, <2>1
<1>5. ASSUME NEW i \in 2 .. m + n PROVE u[i].rtime = End(u[i - 1])
  <2>1. CASE i <= m
    <3>1. u[i] = s[i] /\ u[i - 1] = s[i - 1]
      BY <1>1, <1>3, <2>1
    <3> QED
      BY <1>1, <2>1, <3>1 DEF Spans, m
  <2>2. CASE i = m + 1
    <3>1. i - 1 = m
      BY <1>1, <2>2
    <3> QED
      BY <1>4, <2>2, <3>1 DEF Spans, m
  <2>3. CASE i > m + 1
    <3>1. i - m \in 2 .. n /\ (i - 1) - m = (i - m) - 1
      BY <1>1, <2>3
    <3>2. u[i] = t[i - m] /\ u[i - 1] = t[(i - 1) - m]
      BY <1>1, <1>3, <2>3
    <3> QED
      BY <3>1, <3>2 DEF Spans, n
  <2> QED
    BY <1>1, <2>1, <2>2, <2>3
<1>6. u[1].rtime = a /\ End(u[m + n]) = c
  BY <1>4 DEF Spans, n
<1> QED
  BY <1>2, <1>5, <1>6 DEF Spans, u

LEMMA BackSpansConcat ==
  ASSUME NEW s \in Seq(Block), NEW t \in Seq(Block), NEW a, NEW b, NEW c,
         BackSpans(s, b, c), BackSpans(t, a, b)
  PROVE  BackSpans(s \o t, a, c)
<1> DEFINE m == Len(s)
           n == Len(t)
           u == s \o t
<1>1. m \in Nat \ {0} /\ n \in Nat \ {0}
  BY DEF BackSpans
<1>2. Len(u) = m + n /\ u # <<>>
  BY <1>1
<1>3. /\ \A i \in 1 .. m : u[i] = s[i]
      /\ \A i \in m + 1 .. m + n : u[i] = t[i - m]
  OBVIOUS
<1> HIDE DEF m, n, u
<1>4. u[1] = s[1] /\ u[m + n] = t[n] /\ u[m] = s[m] /\ u[m + 1] = t[1]
  <2>1. (m + n) - m = n /\ (m + 1) - m = 1
    BY <1>1
  <2> QED
    BY <1>1, <1>3, <2>1
<1>5. ASSUME NEW i \in 2 .. m + n PROVE u[i - 1].rtime = End(u[i])
  <2>1. CASE i <= m
    <3>1. u[i] = s[i] /\ u[i - 1] = s[i - 1]
      BY <1>1, <1>3, <2>1
    <3> QED
      BY <1>1, <2>1, <3>1 DEF BackSpans, m
  <2>2. CASE i = m + 1
    <3>1. i - 1 = m
      BY <1>1, <2>2
    <3> QED
      BY <1>4, <2>2, <3>1 DEF BackSpans, m
  <2>3. CASE i > m + 1
    <3>1. i - m \in 2 .. n /\ (i - 1) - m = (i - m) - 1
      BY <1>1, <2>3
    <3>2. u[i] = t[i - m] /\ u[i - 1] = t[(i - 1) - m]
      BY <1>1, <1>3, <2>3
    <3> QED
      BY <3>1, <3>2 DEF BackSpans, n
  <2> QED
    BY <1>1, <2>1, <2>2, <2>3
<1>6. u[m + n].rtime = a /\ End(u[1]) = c
  BY <1>4 DEF BackSpans, n
<1> QED
  BY <1>2, <1>5, <1>6 DEF BackSpans, u

LEMMA ReverseSpans ==
  ASSUME NEW s \in Seq(Block), NEW a, NEW b
  PROVE  /\ Reverse(s) \in Seq(Block)
         /\ BackSpans(s, a, b) => Spans(Reverse(s), a, b)
         /\ Spans(s, a, b) => BackSpans(Reverse(s), a, b)
<1> DEFINE n == Len(s)
           u == Reverse(s)
<1>1. n \in Nat /\ s \in [1 .. n -> Block]
  OBVIOUS
<1>2. u = [i \in 1 .. n |-> s[(n - i) + 1]]
  BY DEF Reverse
<1>3. u \in Seq(Block) /\ Len(u) = n
  BY <1>1, <1>2
<1>4. \A i \in 1 .. n : u[i] = s[(n - i) + 1]
  BY <1>2
<1>5. n # 0 => u[1] = s[n] /\ u[n] = s[1] /\ u # <<>>
  <2>1. (n - 1) + 1 = n /\ (n - n) + 1 = 1
    BY <1>1
  <2> QED
    BY <1>1, <1>3, <1>4, <2>1
<1>6. \A i \in 2 .. n : /\ (n - i) + 2 \in 2 .. n
                        /\ u[i] = s[((n - i) + 2) - 1]
                        /\ u[i - 1] = s[(n - i) + 2]
  <2>1. ASSUME NEW i \in 2 .. n
        PROVE  /\ (n - i) + 2 \in 2 .. n /\ ((n - i) + 2) - 1 = (n - i) + 1
               /\ (n - (i - 1)) + 1 = (n - i) + 2 /\ i \in 1 .. n /\ i - 1 \in 1 .. n
    BY <1>1
  <2> QED
    BY <1>4, <2>1
<1> HIDE DEF u
<1>7. s # <<>> => n # 0
  OBVIOUS
<1>8. ASSUME BackSpans(s, a, b) PROVE Spans(u, a, b)
  <2>1. n # 0 /\ s[n].rtime = a /\ End(s[1]) = b /\ \A j \in 2 .. n : s[j - 1].rtime = End(s[j])
    BY <1>7, <1>8 DEF BackSpans
  <2>2. ASSUME NEW i \in 2 .. n PROVE u[i].rtime = End(u[i - 1])
    <3>1. PICK j \in 2 .. n : u[i] = s[j - 1] /\ u[i - 1] = s[j]
      BY <1>6
    <3> QED
      BY <2>1, <3>1
  <2> QED
    BY <1>3, <1>5, <2>1, <2>2 DEF Spans
<1>9. ASSUME Spans(s, a, b) PROVE BackSpans(u, a, b)
  <2>1. n # 0 /\ s[1].rtime = a /\ End(s[n]) = b /\ \A j \in 2 .. n : s[j].rtime = End(s[j - 1])
    BY <1>7, <1>9 DEF Spans
  <2>2. \A i \in 2 .. n : u[i - 1].rtime = End(u[i])
    BY <1>6, <2>1
  <2> QED
    BY <1>3, <1>5, <2>1, <2>2 DEF BackSpans
<1> QED
  BY <1>3, <1>8, <1>9 DEF u

-----------------------------------------------------------------------------
(***************************************************************************)
(* Sums of durations.  Of blocks that follow each other it is the time     *)
(* they take from the first to the last, which is all that is needed here. *)
(***************************************************************************)
LEMMA TotalExists ==
  ASSUME NEW bs, NEW N \in Nat
  PROVE  \E f : f = [i \in 0 .. N |-> IF i = 0 THEN 0 ELSE f[i - 1] + bs[i].dur]
<1> DEFINE F(f, n) == [i \in 0 .. n |-> IF i = 0 THEN 0 ELSE f[i - 1] + bs[i].dur]
           Ex(n) == \E f : f = F(f, n)
           S == {n \in Nat : Ex(n)}
<1>1. 0 \in S
  <2> DEFINE f == [i \in 0 .. 0 |-> 0]
  <2>1. f = F(f, 0)
    OBVIOUS
  <2> QED
    BY <2>1
<1>2. ASSUME NEW n \in Nat, n \in S PROVE n + 1 \in S
  <2>1. PICK f : f = F(f, n)
    BY <1>2
  <2> DEFINE g == F(f, n + 1)
             h == F(f, n)
  <2>2. f = h
    BY <2>1
  <2>3. \A i \in 0 .. n : h[i] = g[i]
    OBVIOUS
  <2> HIDE DEF h
  <2>4. \A i \in 0 .. n + 1 : i # 0 => i - 1 \in 0 .. n
    OBVIOUS
  <2>5. \A i \in 0 .. n : g[i] = f[i]
    BY <2>2, <2>3
  <2> HIDE DEF g
  <2>6. \A i \in 0 .. n + 1 : i # 0 => g[i - 1] = f[i - 1]
    BY <2>4, <2>5
  <2>7. F(f, n + 1) = F(g, n + 1)
    BY <2>6
  <2>8. g = F(g, n + 1)
    BY <2>7 DEF g
  <2>9. Ex(n + 1)
    BY <2>8
  <2> HIDE DEF Ex
  <2> QED
    BY <2>9
<1> HIDE DEF S
<1>3. N \in S
  BY <1>1, <1>2, InductionOverNat
<1> QED
  BY <1>3 DEF S

LEMMA TotalIs ==
  ASSUME NEW bs \in Seq(Block)
  PROVE  \E f : /\ f[0] = 0
                /\ \A i \in 1 .. Len(bs) : f[i] = f[i - 1] + bs[i].dur
                /\ TotalDuration(bs) = f[Len(bs)]
<1> DEFINE F(f) == [i \in 0 .. Len(bs) |-> IF i = 0 THEN 0 ELSE f[i - 1] + bs[i].dur]
           total == CHOOSE f : f = F(f)
<1>1. total = F(total)
  <2>1. Len(bs) \in Nat
    OBVIOUS
  <2> QED
    BY <2>1, TotalExists
<1>2. TotalDuration(bs) = total[Len(bs)]
  BY DEF TotalDuration
<1> HIDE DEF total
<1>3. /\ total[0] = 0
      /\ \A i \in 1 .. Len(bs) : total[i] = total[i - 1] + bs[i].dur
  BY <1>1
<1> QED
  BY <1>2, <1>3

LEMMA TotalOfNone == TotalDuration(<<>>) = 0
<1>1. <<>> \in Seq(Block) /\ Len(<<>>) = 0
  OBVIOUS
<1> QED
  BY <1>1, TotalIs

LEMMA TotalSpan ==
  ASSUME NEW s \in Seq(Block), NEW a, NEW b, Spans(s, a, b)
  PROVE  TotalDuration(s) = b - a
<1> DEFINE n == Len(s)
<1>1. n \in Nat \ {0} /\ a \in Int /\ b \in Int
  BY SpansTimes
<1>2. PICK f : /\ f[0] = 0
               /\ \A i \in 1 .. n : f[i] = f[i - 1] + s[i].dur
               /\ TotalDuration(s) = f[n]
  BY TotalIs
<1>3. \A i \in 1 .. n : /\ s[i].rtime \in Int /\ s[i].dur \in Nat
                        /\ End(s[i]) = s[i].rtime + s[i].dur
  BY BlockTimesAre
<1>4. s[1].rtime = a /\ End(s[n]) = b /\ \A i \in 2 .. n : s[i].rtime = End(s[i - 1])
  BY DEF Spans
<1> HIDE DEF n
<1> DEFINE S == {k \in Nat : k \in 1 .. n => f[k] = End(s[k]) - a}
<1>5. 0 \in S
  OBVIOUS
<1>6. ASSUME NEW k \in Nat, k \in S PROVE k + 1 \in S
  <2>1. CASE k = 0
    <3>1. f[1] = f[0] + s[1].dur
      BY <1>1, <1>2
    <3> QED
      BY <1>1, <1>2, <1>3, <1>4, <2>1, <3>1
  <2>2. CASE k # 0 /\ k + 1 \in 1 .. n
    <3>1. k \in 1 .. n /\ k + 1 \in 2 .. n /\ (k + 1) - 1 = k
      BY <1>1, <2>2
    <3>2. f[k + 1] = f[k] + s[k + 1].dur /\ s[k + 1].rtime = End(s[k]) /\ f[k] = End(s[k]) - a
      BY <1>2, <1>4, <1>6, <2>2, <3>1
    <3> QED
      BY <1>1, <1>3, <2>2, <3>1, <3>2
  <2>3. CASE k + 1 \notin 1 .. n
    BY <2>3
  <2> QED
    BY <2>1, <2>2, <2>3
<1> HIDE DEF S
<1>7. n \in S
  BY <1>1, <1>5, <1>6, InductionOverNat
<1>8. f[n] = End(s[n]) - a
  BY <1>1, <1>7 DEF S
<1> QED
  BY <1>2, <1>4, <1>8

LEMMA TotalBackSpan ==
  ASSUME NEW s \in Seq(Block), NEW a, NEW b, BackSpans(s, a, b)
  PROVE  TotalDuration(s) = b - a /\ a \in Int /\ b \in Int
<1> DEFINE n == Len(s)
<1>1. n \in Nat \ {0}
  BY DEF BackSpans
<1>2. PICK f : /\ f[0] = 0
               /\ \A i \in 1 .. n : f[i] = f[i - 1] + s[i].dur
               /\ TotalDuration(s) = f[n]
  BY TotalIs
<1>3. \A i \in 1 .. n : /\ s[i].rtime \in Int /\ s[i].dur \in Nat
                        /\ End(s[i]) = s[i].rtime + s[i].dur
  BY BlockTimesAre
<1>4. s[n].rtime = a /\ End(s[1]) = b /\ \A i \in 2 .. n : s[i - 1].rtime = End(s[i])
  BY DEF BackSpans
<1> HIDE DEF n
<1>5. a \in Int /\ b \in Int
  BY <1>1, <1>3, <1>4
<1> DEFINE S == {k \in Nat : k \in 1 .. n => f[k] = b - s[k].rtime}
<1>6. 0 \in S
  OBVIOUS
<1>7. ASSUME NEW k \in Nat, k \in S PROVE k + 1 \in S
  <2>1. CASE k = 0
    <3>1. f[1] = f[0] + s[1].dur
      BY <1>1, <1>2
    <3>2. b = s[1].rtime + s[1].dur /\ s[1].rtime \in Int /\ s[1].dur \in Nat
      BY <1>1, <1>3, <1>4
    <3>3. f[1] = b - s[1].rtime
      BY <1>2, <3>1, <3>2
    <3> QED
      BY <2>1, <3>3
  <2>2. CASE k # 0 /\ k + 1 \in 1 .. n
    <3>1. k \in 1 .. n /\ k + 1 \in 2 .. n /\ (k + 1) - 1 = k
      BY <1>1, <2>2
    <3>2. f[k + 1] = f[k] + s[k + 1].dur /\ s[k].rtime = End(s[k + 1]) /\ f[k] = b - s[k].rtime
      BY <1>2, <1>4, <1>7, <2>2, <3>1
    <3>3. s[k].rtime = s[k + 1].rtime + s[k + 1].dur /\ s[k + 1].rtime \in Int /\ s[k + 1].dur \in Nat
      BY <1>3, <2>2, <3>2
    <3>4. f[k + 1] = b - s[k + 1].rtime
      BY <1>5, <3>2, <3>3
    <3> QED
      BY <3>4
  <2>3. CASE k + 1 \notin 1 .. n
    BY <2>3
  <2> QED
    BY <2>1, <2>2, <2>3
<1> HIDE DEF S
<1>8. n \in S
  BY <1>1, <1>6, <1>7, InductionOverNat
<1>9. f[n] = b - s[n].rtime
  BY <1>1, <1>8 DEF S
<1> QED
  BY <1>2, <1>4, <1>5, <1>9

\* No sum of durations is negative.
LEMMA TotalIsNat ==
  ASSUME NEW s \in Seq(Block)
  PROVE  TotalDuration(s) \in Nat
<1> DEFINE n == Len(s)
<1>1. PICK f : /\ f[0] = 0
               /\ \A i \in 1 .. n : f[i] = f[i - 1] + s[i].dur
               /\ TotalDuration(s) = f[n]
  BY TotalIs
<1>2. n \in Nat /\ \A i \in 1 .. n : s[i].dur \in Nat
  BY BlockTimesAre
<1> HIDE DEF n
<1> DEFINE S == {k \in Nat : k \in 0 .. n => f[k] \in Nat}
<1>3. 0 \in S
  BY <1>1
<1>4. ASSUME NEW k \in Nat, k \in S PROVE k + 1 \in S
  <2>1. CASE k + 1 \in 0 .. n
    <3>1. k \in 0 .. n /\ k + 1 \in 1 .. n /\ (k + 1) - 1 = k
      BY <1>2, <2>1
    <3>2. f[k + 1] = f[k] + s[k + 1].dur /\ f[k] \in Nat /\ s[k + 1].dur \in Nat
      BY <1>1, <1>2, <1>4, <3>1
    <3> QED
      BY <3>2
  <2>2. CASE k + 1 \notin 0 .. n
    BY <2>2
  <2> QED
    BY <2>1, <2>2
<1> HIDE DEF S
<1>5. n \in S
  BY <1>2, <1>3, <1>4, InductionOverNat
<1> QED
  BY <1>1, <1>2, <1>5 DEF S

-----------------------------------------------------------------------------
(***************************************************************************)
(* Parts of channels, possibly empty.                                      *)
(***************************************************************************)
Fills(s, a, b)     == IF s = <<>> THEN a = b ELSE Spans(s, a, b)
BackFills(s, a, b) == IF s = <<>> THEN a = b ELSE BackSpans(s, a, b)

LEMMA TotalFill ==
  ASSUME NEW s \in Seq(Block), NEW a \in Int, NEW b
  PROVE  /\ Fills(s, a, b) => TotalDuration(s) = b - a
         /\ BackFills(s, a, b) => TotalDuration(s) = b - a
<1>1. CASE s = <<>>
  BY <1>1, TotalOfNone DEF Fills, BackFills
<1>2. CASE s # <<>>
  BY <1>2, TotalSpan, TotalBackSpan DEF Fills, BackFills
<1> QED
  BY <1>1, <1>2

LEMMA OneBlock ==
  ASSUME NEW b \in Block
  PROVE  <<b>> \in Seq(Block) /\ Spans(<<b>>, b.rtime, End(b)) /\ BackSpans(<<b>>, b.rtime, End(b))
BY DEF Spans, BackSpans

LEMMA AppendIsOneMore ==
  ASSUME NEW s \in Seq(Block), NEW b \in Block
  PROVE  Append(s, b) = s \o <<b>> /\ Append(s, b) \in Seq(Block)
OBVIOUS

LEMMA AppendFills ==
  ASSUME NEW s \in Seq(Block), NEW b \in Block, NEW a, NEW c
  PROVE  /\ Fills(s, a, b.rtime) => Spans(Append(s, b), a, End(b))
         /\ BackFills(s, End(b), c) => BackSpans(Append(s, b), b.rtime, c)
<1>1. CASE s = <<>>
  <2>1. Append(s, b) = <<b>>
    BY <1>1
  <2> QED
    BY <1>1, <2>1, OneBlock DEF Fills, BackFills
<1>2. CASE s # <<>>
  BY <1>2, OneBlock, AppendIsOneMore, SpansConcat, BackSpansConcat DEF Fills, BackFills
<1> QED
  BY <1>1, <1>2

LEMMA ConcatFills ==
  ASSUME NEW s \in Seq(Block), NEW t \in Seq(Block), NEW a, NEW b, NEW c
  PROVE  /\ Fills(s, a, b) /\ Fills(t, b, c) => Fills(s \o t, a, c)
         /\ BackFills(s, b, c) /\ BackFills(t, a, b) => BackFills(s \o t, a, c)
<1>1. s \o <<>> = s /\ <<>> \o t = t
  OBVIOUS
<1>2. CASE s = <<>> \/ t = <<>>
  BY <1>1, <1>2 DEF Fills, BackFills
<1>3. CASE s # <<>> /\ t # <<>>
  <2>1. s \o t # <<>>
    BY <1>3
  <2> QED
    BY <1>3, <2>1, SpansConcat, BackSpansConcat DEF Fills, BackFills
<1> QED
  BY <1>2, <1>3

LEMMA ReverseFills ==
  ASSUME NEW s \in Seq(Block), NEW a, NEW b
  PROVE  /\ Fills(s, a, b) => BackFills(Reverse(s), a, b)
         /\ BackFills(s, a, b) => Fills(Reverse(s), a, b)
         /\ Reverse(s) \in Seq(Block) /\ (Reverse(s) = <<>> <=> s = <<>>)
<1>1. Reverse(s) \in Seq(Block) /\ Len(Reverse(s)) = Len(s)
  BY DEF Reverse
<1>2. Reverse(s) = <<>> <=> s = <<>>
  BY <1>1
<1> QED
  BY <1>1, <1>2, ReverseSpans DEF Fills, BackFills

LEMMA SubSpans ==
  ASSUME NEW s \in Seq(Block), NEW a, NEW b, Spans(s, a, b),
         NEW m \in 1 .. Len(s), NEW n \in m .. Len(s)
  PROVE  /\ SubSeq(s, m, n) \in Seq(Block) /\ Len(SubSeq(s, m, n)) = (n - m) + 1
         /\ Spans(SubSeq(s, m, n), s[m].rtime, End(s[n]))
<1> DEFINE t == SubSeq(s, m, n)
           k == (n - m) + 1
<1>1. Len(s) \in Nat /\ m \in Nat \ {0} /\ n \in Nat /\ k \in Nat \ {0}
  OBVIOUS
<1>2. t \in Seq(Block) /\ Len(t) = k /\ \A i \in 1 .. k : t[i] = s[m + i - 1]
  OBVIOUS
<1>3. m + 1 - 1 = m /\ m + k - 1 = n
  BY <1>1
<1>4. t # <<>> /\ t[1] = s[m] /\ t[k] = s[n]
  BY <1>1, <1>2, <1>3
<1>5. ASSUME NEW i \in 2 .. k PROVE t[i].rtime = End(t[i - 1])
  <2> DEFINE j == m + i - 1
  <2>1. j \in 2 .. Len(s) /\ m + (i - 1) - 1 = j - 1 /\ i \in 1 .. k /\ i - 1 \in 1 .. k
    BY <1>1
  <2>2. t[i] = s[j] /\ t[i - 1] = s[j - 1]
    BY <1>2, <2>1
  <2> HIDE DEF j
  <2> QED
    BY <2>1, <2>2 DEF Spans
<1> HIDE DEF t, k
<1> QED
  BY <1>2, <1>4, <1>5 DEF Spans, t, k

LEMMA FrontSpans ==
  ASSUME NEW s \in Seq(Block), NEW a, NEW b, Spans(s, a, b)
  PROVE  /\ Last(s) \in Block /\ End(Last(s)) = b
         /\ Front(s) \in Seq(Block) /\ Fills(Front(s), a, Last(s).rtime)
         /\ Len(Front(s)) = Len(s) - 1
<1>1. Len(s) \in Nat \ {0} /\ Last(s) = s[Len(s)] /\ Front(s) = SubSeq(s, 1, Len(s) - 1)
  BY SpansTimes DEF Last, Front
<1>2. Last(s) \in Block /\ End(Last(s)) = b
  BY <1>1 DEF Spans
<1>3. CASE Len(s) = 1
  <2>1. Front(s) = <<>>
    BY <1>1, <1>3
  <2> QED
    BY <1>1, <1>2, <1>3, <2>1 DEF Spans, Fills
<1>4. CASE Len(s) # 1
  <2> DEFINE n == Len(s)
  <2>0. n \in Nat \ {0} /\ n # 1
    BY <1>1, <1>4
  <2> HIDE DEF n
  <2>1. 1 \in 1 .. n /\ n - 1 \in 1 .. n /\ n \in 2 .. n
    BY <2>0
  <2> USE DEF n
  <2>2. /\ Front(s) \in Seq(Block) /\ Len(Front(s)) = ((Len(s) - 1) - 1) + 1
        /\ Spans(Front(s), s[1].rtime, End(s[Len(s) - 1]))
    BY <1>1, <2>1, SubSpans
  <2>3. s[1].rtime = a /\ End(s[Len(s) - 1]) = s[Len(s)].rtime
    BY <2>1 DEF Spans
  <2>4. Front(s) # <<>>
    BY <2>2 DEF Spans
  <2> QED
    BY <1>1, <1>2, <2>2, <2>3, <2>4 DEF Fills
<1> QED
  BY <1>3, <1>4

-----------------------------------------------------------------------------
(***************************************************************************)
(* Blocks that are cut, and blocks that are made of groups.                *)
(***************************************************************************)
LEMMA LerpIsInt ==
  ASSUME NEW p \in Int, NEW n \in Int, NEW k \in Int, NEW d \in Nat \ {0}
  PROVE  Lerp(p, n, k, d) \in Int
<1>1. (n - p) * k \in Int
  OBVIOUS
<1>2. \A x \in Int : x \div d \in Int
  OBVIOUS
<1> QED
  BY <1>1, <1>2 DEF Lerp

\* A block is cut after its start and no later than at its end; split() does
\* not throw, and never divides by zero.
LEMMA CutBlock ==
  ASSUME NEW b \in Block, NEW t \in Int, b.rtime < t, t <= End(b), NEW prior \in Seq(Block)
  PROVE  /\ ~Outside(b, t)
         /\ SplitFirst(prior, b, t) \in Block
         /\ SplitFirst(prior, b, t).rtime = b.rtime /\ End(SplitFirst(prior, b, t)) = t
         /\ SplitSecond(b, t) \in Block
         /\ SplitSecond(b, t).rtime = t /\ End(SplitSecond(b, t)) = End(b)
         /\ SplitSecond(b, t).dur = End(b) - t
<1>1. b.rtime \in Int /\ b.dur \in Nat /\ End(b) \in Int /\ End(b) = b.rtime + b.dur
  BY BlockTimesAre
<1>2. b.dur \in Nat \ {0} /\ t - b.rtime \in Nat /\ End(b) - t \in Nat
  <2>1. b.dur # 0
    BY <1>1
  <2>2. t - b.rtime \in Nat
    BY <1>1
  <2>3. End(b) - t \in Nat
    BY <1>1
  <2> QED
    BY <1>1, <2>1, <2>2, <2>3
<1>3. ~(t < b.rtime) /\ ~(t > End(b))
  BY <1>1
<1>4. ~Outside(b, t)
  BY <1>3 DEF Outside
<1> DEFINE cut == [b EXCEPT !.dur = t - b.rtime]
<1>5. cut \in Block /\ cut.rtime = b.rtime /\ End(cut) = t
  <2>1. PICK d \in Nat : d = t - b.rtime
    BY <1>2
  <2>2. cut = [b EXCEPT !.dur = d]
    BY <2>1
  <2> HIDE DEF cut
  <2>3. cut \in Block
    BY <2>2 DEF Block
  <2>4. cut.rtime = b.rtime /\ cut.dur = d
    BY <2>2 DEF Block
  <2> QED
    BY <1>1, <2>1, <2>3, <2>4 DEF End
<1>6. /\ SplitSecond(b, t) \in Block
      /\ SplitSecond(b, t).rtime = t /\ End(SplitSecond(b, t)) = End(b)
      /\ SplitSecond(b, t).dur = End(b) - t
  <2>1. PICK d \in Nat : d = End(b) - t
    BY <1>2
  <2> DEFINE e == [b EXCEPT !.rtime = t, !.dur = d]
  <2>2. SplitSecond(b, t) = e
    BY <2>1 DEF SplitSecond
  <2>3. e \in Block
    BY DEF Block
  <2>4. e.rtime = t /\ e.dur = d
    BY DEF Block
  <2> HIDE DEF e
  <2>5. End(e) = t + d
    BY <2>4 DEF End
  <2> QED
    BY <1>1, <2>1, <2>2, <2>3, <2>4, <2>5
<1> HIDE DEF cut
<1>7. prior # <<>> => prior[1] \in Block
  OBVIOUS
<1>8. prior # <<>> => Lerp(prior[1].v, b.v, t - b.rtime, b.dur) \in Int
  <2>1. b.v \in Int /\ (prior # <<>> => prior[1].v \in Int)
    BY <1>7 DEF Block
  <2> SUFFICES ASSUME prior # <<>> PROVE Lerp(prior[1].v, b.v, t - b.rtime, b.dur) \in Int
    OBVIOUS
  <2>2. t - b.rtime \in Int
    BY <1>2
  <2> QED
    BY <1>2, <2>1, <2>2, LerpIsInt
<1>9. \/ SplitFirst(prior, b, t) = cut
      \/ prior # <<>> /\ SplitFirst(prior, b, t) =
           [cut EXCEPT !.set = TRUE, !.v = Lerp(prior[1].v, b.v, t - b.rtime, b.dur)]
  BY DEF SplitFirst, cut
<1>10. SplitFirst(prior, b, t) \in Block
       /\ SplitFirst(prior, b, t).rtime = b.rtime /\ End(SplitFirst(prior, b, t)) = t
  <2>1. CASE SplitFirst(prior, b, t) = cut
    BY <1>5, <2>1
  <2>2. CASE SplitFirst(prior, b, t) # cut
    <3>1. PICK w \in Int : w = Lerp(prior[1].v, b.v, t - b.rtime, b.dur)
      BY <1>8, <1>9, <2>2
    <3> DEFINE e == [cut EXCEPT !.set = TRUE, !.v = w]
    <3>2. SplitFirst(prior, b, t) = e
      BY <1>9, <2>2, <3>1
    <3>3. e \in Block
      BY <1>5 DEF Block
    <3>4. e.rtime = cut.rtime /\ e.dur = cut.dur
      BY <1>5 DEF Block
    <3> HIDE DEF e
    <3> QED
      BY <1>5, <3>2, <3>3, <3>4 DEF End
  <2> QED
    BY <2>1, <2>2
<1> QED
  BY <1>4, <1>6, <1>10

LEMMA LastParameterIs ==
  ASSUME NEW group \in Seq(Block)
  PROVE  LastParameter(group).set \in BOOLEAN /\ LastParameter(group).v \in Int
<1> DEFINE I == {i \in 1 .. Len(group) : group[i].set}
           k == IF I # {} THEN Min(I) ELSE 0
<1>1. I # {} => Min(I) \in I
  <2> SUFFICES ASSUME I # {} PROVE Min(I) \in I
    OBVIOUS
  <2>1. I \subseteq Nat
    OBVIOUS
  <2> HIDE DEF I
  <2>2. PICK n \in I : \A m \in I : n <= m
    BY <2>1, LeastNat
  <2> QED
    BY <2>2 DEF Min
<1>2. LastParameter(group) = IF k = 0 THEN [set |-> FALSE, v |-> Default]
                                      ELSE [set |-> TRUE, v |-> group[k].v]
  BY DEF LastParameter, SelectInSeq
<1>3. k # 0 => group[k] \in Block
  BY <1>1
<1> HIDE DEF k
<1> QED
  BY <1>2, <1>3, BlockTimesAssumption DEF Block

LEMMA GroupIsBlock ==
  ASSUME NEW group \in Seq(Block), NEW a, NEW b, BackSpans(group, a, b)
  PROVE  /\ GroupToBlock(group) \in Block
         /\ GroupToBlock(group).rtime = a /\ End(GroupToBlock(group)) = b
         /\ GroupToBlock(group).dur = TotalDuration(group)
<1>1. a \in Int /\ b \in Int /\ TotalDuration(group) = b - a /\ TotalDuration(group) \in Nat
  BY TotalBackSpan, TotalIsNat
<1>2. Last(group).rtime = a
  BY DEF BackSpans, Last
<1>3. LastParameter(group).set \in BOOLEAN /\ LastParameter(group).v \in Int
  BY LastParameterIs
<1> QED
  BY <1>1, <1>2, <1>3 DEF GroupToBlock, Block, End

-----------------------------------------------------------------------------
(***************************************************************************)
(* The inductive invariant.  What remains goes from the start of the       *)
(* channel to Cut, and what was made of groups from there to its end.  A   *)
(* block that is too short was made of the last group, and then either     *)
(* nothing remains or exactly Interval; or of the one before it, and the   *)
(* last is just as long as Interval.                                       *)
(***************************************************************************)
Start == original[1].rtime
Stop  == End(original[Len(original)])
Cut   == IF resampled = <<>> THEN Stop ELSE Last(resampled).rtime

ShortOK ==
  \A i \in DOMAIN resampled : resampled[i].dur < Interval =>
    \/ i = Len(resampled) /\ (remaining = <<>> \/ TotalDuration(remaining) = Interval)
    \/ i = Len(resampled) - 1 /\ remaining = <<>> /\ Last(resampled).dur = Interval

BlockInv ==
  /\ original \in Inputs
  /\ blocks \in Seq(Block) /\ Spans(blocks, Start, Stop)
  /\ remaining \in Seq(Block) /\ resampled \in Seq(Block)
  /\ stage \in {"jump", "resample", "groups", "done"}
  /\ stage = "jump" => blocks = original
  /\ stage \in {"jump", "resample"} => resampled = <<>>
  /\ stage = "groups" => /\ Fills(remaining, Start, Cut) /\ BackFills(resampled, Cut, Stop)
                         /\ remaining # <<>> \/ resampled # <<>>
  /\ stage # "groups" => remaining = <<>>
  /\ ShortOK

\* The channel that was read.
LEMMA InputIs ==
  ASSUME original \in Inputs
  PROVE  /\ original \in Seq(Block) /\ original # <<>> /\ Spans(original, Start, Stop)
         /\ Start \in Int /\ Stop \in Int
         /\ \A i \in 1 .. Len(original) : original[i].interp <= original[i].dur
<1>1. /\ original \in Seq(Block) /\ original # <<>>
      /\ \A i \in DOMAIN original :
           /\ original[i].interp <= original[i].dur
           /\ i > 1 => original[i].rtime = original[i - 1].rtime + original[i - 1].dur
  BY BlockTimesAssumption
<1>2. \A i \in 2 .. Len(original) : original[i].rtime = End(original[i - 1])
  BY <1>1 DEF End
<1>3. Spans(original, Start, Stop)
  BY <1>1, <1>2 DEF Spans, Start, Stop
<1>4. Start \in Int /\ Stop \in Int
  BY <1>1, <1>3, SpansTimes
<1> QED
  BY <1>1, <1>3, <1>4

LEMMA CutIs ==
  ASSUME BlockInv, stage = "groups"
  PROVE  /\ Cut \in Int /\ Start \in Int
         /\ TotalDuration(remaining) = Cut - Start
         /\ remaining # <<>> => Spans(remaining, Start, Cut)
<1>1. Start \in Int /\ Stop \in Int
  BY InputIs DEF BlockInv
<1>2. Cut \in Int
  <2>1. CASE resampled = <<>>
    BY <1>1, <2>1 DEF Cut
  <2>2. CASE resampled # <<>>
    <3>1. BackSpans(resampled, Cut, Stop)
      BY <2>2 DEF BlockInv, BackFills
    <3> QED
      BY <3>1, TotalBackSpan DEF BlockInv
  <2> QED
    BY <2>1, <2>2
<1> QED
  BY <1>1, <1>2, TotalFill DEF BlockInv, Fills

-----------------------------------------------------------------------------
(***************************************************************************)
(* One group becomes one block.                                            *)
(***************************************************************************)
\* Less time is left on the stack, or the same time in fewer blocks.
LessRemains ==
  \/ TotalDuration(remaining') < TotalDuration(remaining)
  \/ TotalDuration(remaining') = TotalDuration(remaining) /\ Len(remaining') < Len(remaining)

LEMMA GroupStep ==
  ASSUME BlockInv, stage = "groups", remaining # <<>>,
         NEW group \in Seq(Block), NEW left \in Seq(Block), NEW t \in Int,
         Group(group, left), BackSpans(group, t, Cut), Fills(left, Start, t),
         left = <<>> \/ TotalDuration(group) >= Interval \/ TotalDuration(left) = Interval,
         TotalDuration(remaining) = Interval => left = <<>>,
         left = <<>> \/ TotalDuration(group) > 0
  PROVE  BlockInv' /\ LessRemains
<1> DEFINE b == GroupToBlock(group)
<1>1. b \in Block /\ b.rtime = t /\ End(b) = Cut /\ b.dur = TotalDuration(group)
  BY GroupIsBlock
<1>2. /\ resampled' = Append(resampled, b) /\ remaining' = left
      /\ original' = original /\ blocks' = blocks /\ stage' = stage
  BY DEF Group
<1> HIDE DEF b
<1>3. resampled \in Seq(Block) /\ remaining \in Seq(Block)
  BY DEF BlockInv
<1>4. /\ resampled' \in Seq(Block) /\ Len(resampled') = Len(resampled) + 1
      /\ Len(resampled) \in Nat /\ resampled' # <<>>
      /\ \A i \in 1 .. Len(resampled) : resampled'[i] = resampled[i]
      /\ resampled'[Len(resampled) + 1] = b
  <2>1. Append(resampled, b) \in Seq(Block) /\ Len(Append(resampled, b)) = Len(resampled) + 1
    BY <1>1, <1>3
  <2>2. Len(resampled) \in Nat
    BY <1>3
  <2>3. \A i \in 1 .. Len(resampled) : Append(resampled, b)[i] = resampled[i]
    BY <1>1, <1>3
  <2>4. Append(resampled, b)[Len(resampled) + 1] = b
    BY <1>1, <1>3
  <2>5. Append(resampled, b) # <<>>
    <3>1. Len(<<>>) = 0 /\ Len(resampled) + 1 # 0
      BY <2>2
    <3> QED
      BY <2>1, <3>1
  <2> QED
    BY <1>2, <2>1, <2>2, <2>3, <2>4, <2>5
<1>5. Start' = Start /\ Stop' = Stop
  BY <1>2 DEF Start, Stop
<1>6. Last(resampled') = b /\ Cut' = t
  BY <1>1, <1>4 DEF Cut, Last
<1>7. BackFills(resampled', t, Stop)
  <2>1. BackFills(resampled, End(b), Stop)
    BY <1>1 DEF BlockInv
  <2>2. BackSpans(Append(resampled, b), b.rtime, Stop)
    BY <1>1, <1>3, <2>1, AppendFills
  <2> QED
    BY <1>1, <1>2, <1>4, <2>2 DEF BackFills
<1>8. /\ Cut \in Int /\ Start \in Int /\ TotalDuration(remaining) = Cut - Start
      /\ TotalDuration(left) = t - Start
      /\ TotalDuration(group) = Cut - t
      /\ TotalDuration(remaining) \in Nat
  <2>1. Cut \in Int /\ Start \in Int /\ TotalDuration(remaining) = Cut - Start
    BY CutIs
  <2>2. TotalDuration(left) = t - Start
    BY <2>1, TotalFill
  <2>3. TotalDuration(group) = Cut - t
    BY TotalBackSpan
  <2> QED
    BY <1>3, <2>1, <2>2, <2>3, TotalIsNat
<1>9. Interval \in Nat \ {0}
  BY BlockTimesAssumption
<1>10. ShortOK'
  <2> SUFFICES ASSUME NEW i \in DOMAIN resampled', resampled'[i].dur < Interval
               PROVE  \/ i = Len(resampled') /\ (left = <<>> \/ TotalDuration(left) = Interval)
                      \/ i = Len(resampled') - 1 /\ left = <<>> /\ b.dur = Interval
    BY <1>2, <1>6 DEF ShortOK
  <2>1. CASE i = Len(resampled')
    <3>1. resampled'[i] = b
      BY <1>4, <2>1
    <3> QED
      BY <1>1, <1>8, <1>9, <2>1, <3>1
  <2>2. CASE i # Len(resampled')
    <3>1. i \in 1 .. Len(resampled) /\ i \in DOMAIN resampled /\ resampled[i].dur < Interval
      <4>1. DOMAIN resampled' = 1 .. Len(resampled) + 1 /\ DOMAIN resampled = 1 .. Len(resampled)
        BY <1>3, <1>4
      <4>2. i \in 1 .. Len(resampled)
        BY <1>4, <2>2, <4>1
      <4> QED
        BY <1>4, <4>1, <4>2
    <3>2. i = Len(resampled) /\ TotalDuration(remaining) = Interval
      BY <3>1 DEF BlockInv, ShortOK
    <3>3. left = <<>> /\ t = Start
      BY <3>2 DEF Fills
    <3>4. b.dur = Interval
      BY <1>1, <1>8, <3>2, <3>3
    <3> QED
      BY <1>4, <3>2, <3>3, <3>4
  <2> QED
    BY <2>1, <2>2
<1>11. BlockInv'
  BY <1>2, <1>4, <1>5, <1>6, <1>7, <1>10 DEF BlockInv
<1>12. LessRemains
  <2>1. CASE left = <<>>
    <3>1. TotalDuration(left) = 0 /\ Len(left) = 0
      BY <2>1, TotalOfNone
    <3>2. Len(remaining) > 0
      BY <1>3
    <3> QED
      BY <1>2, <1>8, <3>1, <3>2 DEF LessRemains
  <2>2. CASE left # <<>>
    <3>1. TotalDuration(left) < TotalDuration(remaining)
      BY <1>8, <2>2
    <3> QED
      BY <1>2, <3>1 DEF LessRemains
  <2> QED
    BY <2>1, <2>2
<1> QED
  BY <1>11, <1>12

LEMMA ConsumeAllStep ==
  ASSUME BlockInv, ConsumeAll
  PROVE  BlockInv' /\ LessRemains
<1>1. stage = "groups" /\ remaining # <<>> /\ Group(Reverse(remaining), <<>>)
  BY DEF ConsumeAll
<1>2. Start \in Int /\ Spans(remaining, Start, Cut) /\ remaining \in Seq(Block)
  BY <1>1, CutIs DEF BlockInv
<1>3. Reverse(remaining) \in Seq(Block) /\ BackSpans(Reverse(remaining), Start, Cut)
  BY <1>2, ReverseSpans
<1>4. <<>> \in Seq(Block) /\ Fills(<<>>, Start, Start)
  BY DEF Fills
<1> QED
  BY <1>1, <1>2, <1>3, <1>4, GroupStep

\* What a step finds on top of the stack.
LEMMA TopIs ==
  ASSUME BlockInv, stage = "groups", remaining # <<>>
  PROVE  /\ Last(remaining) \in Block /\ Front(remaining) \in Seq(Block)
         /\ End(Last(remaining)) = Cut
         /\ Fills(Front(remaining), Start, Last(remaining).rtime)
         /\ Last(remaining).rtime \in Int /\ Last(remaining).dur \in Nat
         /\ TotalDuration(Front(remaining)) = Last(remaining).rtime - Start
         /\ Last(remaining).dur = Cut - Last(remaining).rtime
         /\ TotalDuration(Front(remaining)) + Last(remaining).dur = TotalDuration(remaining)
         /\ TotalDuration(Front(remaining)) \in Nat
<1>1. /\ Cut \in Int /\ Start \in Int /\ TotalDuration(remaining) = Cut - Start
      /\ remaining \in Seq(Block) /\ Spans(remaining, Start, Cut)
  BY CutIs DEF BlockInv
<1>2. /\ Last(remaining) \in Block /\ Front(remaining) \in Seq(Block)
      /\ End(Last(remaining)) = Cut
      /\ Fills(Front(remaining), Start, Last(remaining).rtime)
  BY <1>1, FrontSpans
<1>3. /\ Last(remaining).rtime \in Int /\ Last(remaining).dur \in Nat
      /\ Cut = Last(remaining).rtime + Last(remaining).dur
  BY <1>2, BlockTimesAre
<1>4. TotalDuration(Front(remaining)) = Last(remaining).rtime - Start
  BY <1>1, <1>2, TotalFill
<1>5. TotalDuration(Front(remaining)) \in Nat
  BY <1>2, TotalIsNat
<1>6. /\ Last(remaining).dur = Cut - Last(remaining).rtime
      /\ TotalDuration(Front(remaining)) + Last(remaining).dur = TotalDuration(remaining)
  <2> DEFINE r == Last(remaining).rtime
             d == Last(remaining).dur
             f == TotalDuration(Front(remaining))
             n == TotalDuration(remaining)
  <2>1. r \in Int /\ d \in Nat /\ Cut = r + d /\ f = r - Start /\ n = Cut - Start
    BY <1>1, <1>3, <1>4
  <2> HIDE DEF r, d, f, n
  <2>2. d = Cut - r /\ f + d = n
    BY <1>1, <2>1
  <2> QED
    BY <2>2 DEF r, d, f, n
<1> QED
  BY <1>2, <1>3, <1>4, <1>5, <1>6

LEMMA ConsumeOneStep ==
  ASSUME BlockInv, ConsumeOne
  PROVE  BlockInv' /\ LessRemains
<1> DEFINE b == Last(remaining)
           left == Front(remaining)
<1>1. stage = "groups" /\ remaining # <<>> /\ b.dur > Interval /\ Group(<<b>>, left)
  BY DEF ConsumeOne, ConsumeOnePolicy, IsLarge
<1>2. /\ b \in Block /\ left \in Seq(Block) /\ End(b) = Cut /\ Fills(left, Start, b.rtime)
      /\ b.rtime \in Int /\ b.dur \in Nat
      /\ TotalDuration(left) + b.dur = TotalDuration(remaining) /\ TotalDuration(left) \in Nat
      /\ b.dur = Cut - b.rtime
  BY <1>1, TopIs
<1> HIDE DEF b, left
<1>3. <<b>> \in Seq(Block) /\ BackSpans(<<b>>, b.rtime, Cut)
  BY <1>2, OneBlock
<1>4. TotalDuration(<<b>>) = b.dur
  BY <1>2, <1>3, TotalBackSpan
<1>5. Interval \in Nat \ {0}
  BY BlockTimesAssumption
<1>6. TotalDuration(remaining) # Interval /\ TotalDuration(<<b>>) >= Interval
      /\ TotalDuration(<<b>>) > 0
  BY <1>1, <1>2, <1>4, <1>5
<1> QED
  BY <1>1, <1>2, <1>3, <1>6, GroupStep

LEMMA PriorIs ==
  ASSUME BlockInv, NEW left \in Seq(Block)
  PROVE  Prior(left) \in Seq(Block)
<1>1. blocks \in Seq(Block) /\ blocks # <<>> /\ blocks[1] \in Block
  BY DEF BlockInv, Spans
<1>2. LeadingZero \in Seq(Block)
  <2>1. <<blocks[1]>> \in Seq(Block) /\ <<>> \in Seq(Block)
    BY <1>1
  <2> QED
    BY <2>1 DEF LeadingZero
<1>3. left # <<>> => <<Last(left)>> \in Seq(Block)
  BY DEF Last
<1> QED
  BY <1>2, <1>3 DEF Prior

\* A group that is completed with the end of block b, on top of left, which
\* is cut at time t.
LEMMA GroupWithPartStep ==
  ASSUME BlockInv, stage = "groups", remaining # <<>>,
         NEW group \in Seq(Block), NEW left \in Seq(Block), NEW b \in Block, NEW t \in Int,
         GroupWithPart(group, b, t, left), BackFills(group, End(b), Cut),
         Fills(left, Start, b.rtime), b.rtime < t, t <= End(b),
         t < Cut, TotalDuration(remaining) > Interval,
         Cut - t >= Interval \/ t - Start = Interval
  PROVE  BlockInv' /\ LessRemains
<1> DEFINE first == SplitFirst(Prior(left), b, t)
           second == SplitSecond(b, t)
           g == Append(group, second)
           l == Append(left, first)
<1>1. Prior(left) \in Seq(Block)
  BY PriorIs
<1>2. /\ ~Outside(b, t)
      /\ first \in Block /\ first.rtime = b.rtime /\ End(first) = t
      /\ second \in Block /\ second.rtime = t /\ End(second) = End(b)
  BY <1>1, CutBlock
<1>3. Group(g, l)
  BY <1>2 DEF GroupWithPart
<1> HIDE DEF first, second
<1>4. g \in Seq(Block) /\ l \in Seq(Block)
  BY <1>2
<1>5. BackSpans(g, t, Cut)
  BY <1>2, AppendFills
<1>6. Spans(l, Start, t)
  BY <1>2, AppendFills
<1> HIDE DEF g, l
<1>7. l # <<>> /\ Fills(l, Start, t)
  BY <1>6 DEF Spans, Fills
<1>8. Cut \in Int /\ Start \in Int
  BY CutIs
<1>9. TotalDuration(g) = Cut - t /\ TotalDuration(l) = t - Start
  BY <1>4, <1>5, <1>6, TotalBackSpan, TotalSpan
<1>10. Interval \in Nat \ {0}
  BY BlockTimesAssumption
<1>11. TotalDuration(g) >= Interval \/ TotalDuration(l) = Interval
  BY <1>9
<1>12. TotalDuration(g) > 0
  BY <1>8, <1>9
<1>13. TotalDuration(remaining) # Interval
  BY <1>10, TotalIsNat DEF BlockInv
<1> QED
  BY <1>3, <1>4, <1>5, <1>7, <1>11, <1>12, <1>13, GroupStep

\* Block b, on top of left, is cut inside at time t, and its end goes to a group.
IsCut(group, b, t, left) ==
  /\ group \in Seq(Block) /\ left \in Seq(Block) /\ b \in Block /\ t \in Int
  /\ BackFills(group, End(b), Cut) /\ Fills(left, Start, b.rtime)
  /\ b.rtime < t /\ t <= End(b)
  /\ t < Cut /\ TotalDuration(remaining) > Interval
  /\ Cut - t >= Interval \/ t - Start = Interval

LEMMA GreedyCutIs ==
  ASSUME BlockInv, SplitGreedy
  PROVE  /\ stage = "groups" /\ remaining # <<>>
         /\ IsCut(<<>>, Last(remaining), GreedyCut(Last(remaining), Front(remaining)),
                  Front(remaining))
         /\ GroupWithPart(<<>>, Last(remaining), GreedyCut(Last(remaining), Front(remaining)),
                          Front(remaining))
<1> DEFINE b == Last(remaining)
           left == Front(remaining)
           t == GreedyCut(b, left)
           n == TotalDuration(left)
<1>1. /\ stage = "groups" /\ remaining # <<>>
      /\ b.dur > Interval
      /\ TotalDuration(remaining) - b.dur > 0 /\ TotalDuration(remaining) - b.dur < Interval
      /\ GroupWithPart(<<>>, b, t, left)
  BY DEF SplitGreedy, SplitGreedyPolicy, IsLarge
<1>2. /\ b \in Block /\ left \in Seq(Block) /\ End(b) = Cut /\ Fills(left, Start, b.rtime)
      /\ b.rtime \in Int /\ b.dur \in Nat
      /\ n = b.rtime - Start /\ n \in Nat
      /\ n + b.dur = TotalDuration(remaining)
      /\ b.dur = Cut - b.rtime
  BY <1>1, TopIs
<1>3. Cut \in Int /\ Start \in Int /\ Interval \in Nat \ {0}
  BY <1>1, CutIs, BlockTimesAssumption
<1>4. t = b.rtime + (Interval - n)
  BY DEF GreedyCut
<1> HIDE DEF b, left, t, n
<1> DEFINE r == b.rtime
           d == b.dur
           m == TotalDuration(remaining)
<1>5. /\ r \in Int /\ d \in Nat /\ n \in Nat /\ n = r - Start /\ n + d = m /\ d = Cut - r
      /\ d > Interval /\ m - d > 0 /\ m - d < Interval /\ t = r + (Interval - n)
  BY <1>1, <1>2, <1>4
<1> HIDE DEF r, d, m
<1>6. n > 0 /\ n < Interval /\ m > Interval
  BY <1>3, <1>5
<1>7. t \in Int /\ r < t /\ t < Cut
  BY <1>3, <1>5, <1>6
<1>8. t - Start = Interval
  BY <1>3, <1>5
<1> USE DEF r, m
<1>9. <<>> \in Seq(Block) /\ BackFills(<<>>, End(b), Cut)
  BY <1>2 DEF BackFills
<1>10. t <= End(b)
  BY <1>2, <1>3, <1>7
<1>11. IsCut(<<>>, b, t, left)
  BY <1>2, <1>6, <1>7, <1>8, <1>9, <1>10 DEF IsCut
<1> QED
  BY <1>1, <1>11 DEF b, t, left

LEMMA SplitGreedyStep ==
  ASSUME BlockInv, SplitGreedy
  PROVE  BlockInv' /\ LessRemains
<1> DEFINE b == Last(remaining)
           left == Front(remaining)
           t == GreedyCut(b, left)
<1>1. /\ stage = "groups" /\ remaining # <<>>
      /\ IsCut(<<>>, b, t, left) /\ GroupWithPart(<<>>, b, t, left)
  BY GreedyCutIs
<1> HIDE DEF b, left, t
<1> QED
  BY <1>1, GroupWithPartStep DEF IsCut

-----------------------------------------------------------------------------
(***************************************************************************)
(* The blocks that thrifty_add() takes from the top of the stack.          *)
(***************************************************************************)
Taken(s, k) == Reverse(SubSeq(s, Len(s) - k + 1, Len(s)))
Below(s, k) == SubSeq(s, 1, Len(s) - k)
TakenFrom(s, k) == IF k = 0 THEN End(s[Len(s)]) ELSE s[Len(s) - k + 1].rtime

LEMMA TakenIs ==
  ASSUME NEW s \in Seq(Block), NEW a, NEW b, Spans(s, a, b), NEW k \in 0 .. Len(s)
  PROVE  /\ Taken(s, k) \in Seq(Block) /\ BackFills(Taken(s, k), TakenFrom(s, k), b)
         /\ k # 0 => BackSpans(Taken(s, k), TakenFrom(s, k), b)
         /\ TakenFrom(s, k) \in Int
         /\ TotalDuration(Taken(s, k)) = b - TakenFrom(s, k)
<1>1. a \in Int /\ b \in Int /\ Len(s) \in Nat \ {0} /\ b = End(s[Len(s)])
  BY SpansTimes DEF Spans
<1>2. CASE k = 0
  <2>1. SubSeq(s, Len(s) - k + 1, Len(s)) = <<>>
    BY <1>1, <1>2
  <2>2. Taken(s, k) = <<>> /\ <<>> \in Seq(Block)
    <3> DEFINE e == <<>>
    <3>1. e \in Seq(Block) /\ e = <<>>
      OBVIOUS
    <3> HIDE DEF e
    <3>2. Reverse(e) = <<>>
      BY <3>1, ReverseFills
    <3> QED
      BY <2>1, <3>1, <3>2 DEF Taken
  <2>3. TakenFrom(s, k) = b
    BY <1>1, <1>2 DEF TakenFrom
  <2> QED
    <3>1. Taken(s, k) \in Seq(Block) /\ TotalDuration(Taken(s, k)) = 0
      BY <2>2, TotalOfNone
    <3>2. BackFills(Taken(s, k), TakenFrom(s, k), b)
      BY <2>2, <2>3 DEF BackFills
    <3>3. b - b = 0
      BY <1>1
    <3> QED
      BY <1>1, <1>2, <2>3, <3>1, <3>2, <3>3
<1>3. CASE k # 0
  <2> DEFINE m == Len(s) - k + 1
             n == Len(s)
  <2>1. m \in 1 .. Len(s) /\ n \in m .. Len(s)
    BY <1>1, <1>3
  <2> HIDE DEF m, n
  <2>2. SubSeq(s, m, n) \in Seq(Block) /\ Spans(SubSeq(s, m, n), s[m].rtime, End(s[n]))
    BY <2>1, SubSpans
  <2>3. Taken(s, k) = Reverse(SubSeq(s, m, n)) /\ TakenFrom(s, k) = s[m].rtime /\ End(s[n]) = b
    BY <1>1, <1>3 DEF Taken, TakenFrom, m, n
  <2>4. Taken(s, k) \in Seq(Block) /\ BackSpans(Taken(s, k), TakenFrom(s, k), b)
    BY <2>2, <2>3, ReverseSpans
  <2>5. BackFills(Taken(s, k), TakenFrom(s, k), b)
    BY <2>4 DEF BackFills, BackSpans
  <2> QED
    BY <2>4, <2>5, TotalBackSpan
<1> QED
  BY <1>2, <1>3

LEMMA BelowIs ==
  ASSUME NEW s \in Seq(Block), NEW a, NEW b, Spans(s, a, b), NEW k \in 0 .. Len(s)
  PROVE  /\ Below(s, k) \in Seq(Block)
         /\ k = Len(s) => Below(s, k) = <<>> /\ (k # 0 => TakenFrom(s, k) = a)
         /\ k # Len(s) => /\ Spans(Below(s, k), a, TakenFrom(s, k))
                          /\ Last(Below(s, k)) = s[Len(s) - k]
                          /\ s[Len(s) - k] \in Block
                          /\ End(s[Len(s) - k]) = TakenFrom(s, k)
<1>1. Len(s) \in Nat \ {0} /\ s[1].rtime = a
  BY SpansTimes DEF Spans
<1>2. CASE k = Len(s)
  <2>1. Len(s) - k = 0 /\ Len(s) - k + 1 = 1
    BY <1>1, <1>2
  <2>2. Below(s, k) = <<>>
    BY <2>1 DEF Below
  <2>3. k # 0 => TakenFrom(s, k) = a
    BY <1>1, <2>1 DEF TakenFrom
  <2>4. <<>> \in Seq(Block)
    OBVIOUS
  <2> QED
    BY <1>2, <2>2, <2>3, <2>4
<1>3. CASE k # Len(s)
  <2> DEFINE n == Len(s) - k
  <2>1. 1 \in 1 .. Len(s) /\ n \in 1 .. Len(s) /\ (n - 1) + 1 = n /\ n \in Nat \ {0}
    BY <1>1, <1>3
  <2>2. k # 0 => n + 1 \in 2 .. Len(s) /\ (n + 1) - 1 = n
    <3> DEFINE l == Len(s)
    <3>1. n = l - k /\ k \in Nat /\ l \in Nat
      BY <1>1
    <3> HIDE DEF n, l
    <3>2. k # 0 => n + 1 \in 2 .. l
      BY <2>1, <3>1
    <3>3. (n + 1) - 1 = n
      BY <2>1
    <3> QED
      BY <3>2, <3>3 DEF l
  <2>3. k = 0 => n = Len(s)
    BY <1>1
  <2> HIDE DEF n
  <2>4. /\ SubSeq(s, 1, n) \in Seq(Block) /\ Len(SubSeq(s, 1, n)) = (n - 1) + 1
        /\ Spans(SubSeq(s, 1, n), s[1].rtime, End(s[n]))
    BY <2>1, SubSpans
  <2>5. Below(s, k) = SubSeq(s, 1, n)
    BY DEF Below, n
  <2>6. End(s[n]) = TakenFrom(s, k)
    <3>1. CASE k = 0
      BY <2>3, <3>1 DEF TakenFrom
    <3>2. CASE k # 0
      <4>1. TakenFrom(s, k) = s[n + 1].rtime
        BY <3>2 DEF TakenFrom, n
      <4> QED
        BY <2>2, <3>2, <4>1 DEF Spans
    <3> QED
      BY <3>1, <3>2
  <2>7. Last(Below(s, k)) = s[n] /\ s[n] \in Block
    <3>1. Last(Below(s, k)) = SubSeq(s, 1, n)[n]
      BY <2>1, <2>4, <2>5 DEF Last
    <3>2. SubSeq(s, 1, n)[n] = s[n]
      BY <2>1
    <3> QED
      BY <2>1, <3>1, <3>2
  <2>8. Spans(Below(s, k), a, TakenFrom(s, k))
    BY <1>1, <2>4, <2>5, <2>6
  <2> QED
    BY <1>3, <2>4, <2>5, <2>6, <2>7, <2>8 DEF n
<1> QED
  BY <1>2, <1>3

\* The loop of thrifty_add() ends: there is a number of blocks that fit such
\* that no more do.
LEMMA FittingIs ==
  ASSUME BlockInv, stage = "groups", remaining # <<>>
  PROVE  /\ Fitting \in 0 .. Len(remaining)
         /\ TotalDuration(Taken(remaining, Fitting)) <= Interval
         /\ Fitting < Len(remaining) =>
              ~CanFit(Taken(remaining, Fitting), remaining[Len(remaining) - Fitting])
<1> DEFINE N == Len(remaining)
           Full(n) == n < N => ~CanFit(Taken(remaining, n), remaining[N - n])
           S == {n \in 0 .. N : Full(n)}
<1>1. /\ remaining \in Seq(Block) /\ Spans(remaining, Start, Cut)
      /\ Cut \in Int /\ N \in Nat \ {0}
  BY CutIs, SpansTimes DEF BlockInv
<1> HIDE DEF S
<1>0. ASSUME NEW k \in 0 .. N
      PROVE  /\ TotalDuration(Taken(remaining, k)) = Cut - TakenFrom(remaining, k)
             /\ TakenFrom(remaining, k) \in Int
             /\ k # N => /\ End(remaining[N - k]) = TakenFrom(remaining, k)
                         /\ remaining[N - k] \in Block
  BY <1>1, TakenIs, BelowIs
<1> USE DEF S
<1>2. N \in S
  BY <1>1
<1>3. PICK n \in S : \A m \in S : n <= m
  <2>1. S \subseteq Nat /\ S # {}
    BY <1>1, <1>2
  <2> HIDE DEF S
  <2> QED
    BY <2>1, LeastNat
<1>4. n \in 0 .. N /\ Full(n)
  BY <1>3
<1>5. TotalDuration(Taken(remaining, n)) <= Interval
  <2>1. CASE n = 0
    <3>1. TakenFrom(remaining, 0) = Cut
      BY <1>1 DEF TakenFrom, Spans
    <3>2. TotalDuration(Taken(remaining, 0)) = Cut - TakenFrom(remaining, 0)
      BY <1>1, TakenIs
    <3> QED
      BY <1>1, <2>1, <3>1, <3>2, BlockTimesAssumption
  <2>2. CASE n # 0
    <3> DEFINE m == n - 1
    <3>1. m \in 0 .. N /\ m < N /\ m < n /\ n = m + 1 /\ N - m = N - n + 1
          /\ N - m \in 1 .. N /\ m # N
      BY <1>1, <1>4, <2>2
    <3>2. m \notin S
      BY <1>1, <1>3, <3>1
    <3>3. CanFit(Taken(remaining, m), remaining[N - m])
      BY <3>1, <3>2
    <3> HIDE DEF m
    <3>4. /\ TotalDuration(Taken(remaining, m)) = Cut - TakenFrom(remaining, m)
          /\ TakenFrom(remaining, m) \in Int
      BY <1>0, <3>1
    <3>5. TotalDuration(Taken(remaining, n)) = Cut - TakenFrom(remaining, n)
      BY <1>0, <1>4
    <3>6. TakenFrom(remaining, n) = remaining[N - m].rtime
      <4>1. TakenFrom(remaining, n) = remaining[N - n + 1].rtime
        BY <2>2 DEF TakenFrom
      <4> QED
        BY <3>1, <4>1
    <3>7. End(remaining[N - m]) = TakenFrom(remaining, m) /\ remaining[N - m] \in Block
      BY <1>0, <3>1
    <3> DEFINE r == remaining[N - m].rtime
               d == remaining[N - m].dur
               e == TakenFrom(remaining, m)
    <3>8. r \in Int /\ d \in Nat /\ e = r + d /\ e \in Int
      BY <3>4, <3>7, BlockTimesAre
    <3>9. (Cut - e) + d <= Interval
      BY <3>3, <3>4 DEF CanFit
    <3> HIDE DEF r, d, e
    <3>10. Cut - r <= Interval
      BY <1>1, <3>8, <3>9, BlockTimesAssumption
    <3> QED
      BY <3>5, <3>6, <3>10 DEF r
  <2> QED
    BY <2>1, <2>2
<1> HIDE DEF N, S
<1>6. Fitting = CHOOSE k \in 0 .. N : /\ TotalDuration(Taken(remaining, k)) <= Interval
                                      /\ k < N => ~CanFit(Taken(remaining, k), remaining[N - k])
  BY DEF Fitting, Taken, N
<1> DEFINE P(k) == /\ TotalDuration(Taken(remaining, k)) <= Interval
                   /\ k < N => ~CanFit(Taken(remaining, k), remaining[N - k])
<1>7. P(n)
  BY <1>4, <1>5
<1>8. Fitting = CHOOSE k \in 0 .. N : P(k)
  BY <1>6
<1> HIDE DEF P
<1>9. Fitting \in 0 .. N /\ P(Fitting)
  BY <1>4, <1>7, <1>8
<1> QED
  BY <1>9 DEF P, N

\* The block that is cut is the last of those that are left.
Uncut(s, k) == Last(Below(s, k))

LEMMA ThriftyCutIs ==
  ASSUME BlockInv, SplitThrifty
  PROVE  /\ stage = "groups" /\ remaining # <<>>
         /\ Fitting \in 1 .. Len(remaining) - 1
         /\ Uncut(remaining, Fitting) = remaining[Len(remaining) - Fitting]
         /\ IsCut(Taken(remaining, Fitting), Uncut(remaining, Fitting),
                  ThriftyCut(Taken(remaining, Fitting)), Front(Below(remaining, Fitting)))
         /\ GroupWithPart(Taken(remaining, Fitting), Uncut(remaining, Fitting),
                          ThriftyCut(Taken(remaining, Fitting)),
                          Front(Below(remaining, Fitting)))
<1> DEFINE N == Len(remaining)
           n == Fitting
           group == Taken(remaining, n)
           below == Below(remaining, n)
           b == Last(below)
           e == TakenFrom(remaining, n)
           t == ThriftyCut(group)
<1>1. /\ stage = "groups" /\ remaining # <<>>
      /\ ~(Last(remaining).dur > Interval) /\ TotalDuration(remaining) >= 2 * Interval
  BY DEF SplitThrifty, SplitThriftyPolicy, IsLarge
<1>2. /\ below = <<>> => Group(group, <<>>)
      /\ below # <<>> => GroupWithPart(group, b, t, Front(below))
  BY DEF SplitThrifty, Taken, Below
<1>3. /\ remaining \in Seq(Block) /\ Spans(remaining, Start, Cut)
      /\ Cut \in Int /\ Start \in Int /\ N \in Nat \ {0}
      /\ TotalDuration(remaining) = Cut - Start
      /\ Interval \in Nat \ {0}
  BY <1>1, CutIs, SpansTimes, BlockTimesAssumption DEF BlockInv
<1>4. /\ n \in 0 .. N /\ TotalDuration(group) <= Interval
      /\ n < N => ~CanFit(group, remaining[N - n])
  BY <1>1, FittingIs
<1>5. /\ group \in Seq(Block) /\ BackFills(group, e, Cut)
      /\ n # 0 => BackSpans(group, e, Cut)
      /\ e \in Int /\ TotalDuration(group) = Cut - e
  BY <1>3, <1>4, TakenIs
<1>6. /\ below \in Seq(Block)
      /\ n = N /\ n # 0 => e = Start
      /\ n # N => /\ Spans(below, Start, e) /\ b = remaining[N - n] /\ End(b) = e
  BY <1>3, <1>4, BelowIs
<1>7. n # N
  <2> SUFFICES ASSUME n = N PROVE FALSE
    OBVIOUS
  <2>1. e = Start
    BY <1>3, <1>6
  <2> HIDE DEF e
  <2> QED
    BY <1>1, <1>3, <1>4, <1>5, <2>1
<1>8. b \in Block /\ Front(below) \in Seq(Block) /\ Fills(Front(below), Start, b.rtime)
  BY <1>6, <1>7, FrontSpans
<1> DEFINE r == b.rtime
           d == b.dur
<1>9. r \in Int /\ d \in Nat /\ e = r + d
  BY <1>6, <1>7, <1>8, BlockTimesAre
<1>10. (Cut - e) + d > Interval
  <2>1. n < N
    BY <1>3, <1>4, <1>7
  <2>2. ~CanFit(group, b)
    BY <1>4, <1>6, <2>1
  <2> HIDE DEF e, b, group, d
  <2>3. ~((Cut - e) + d <= Interval)
    BY <1>5, <2>2 DEF CanFit, d
  <2>4. Cut \in Int /\ e \in Int /\ d \in Nat /\ Interval \in Nat
    BY <1>3, <1>5, <1>9
  <2> QED
    BY <2>3, <2>4
<1>11. n # 0
  <2> SUFFICES ASSUME n = 0 PROVE FALSE
    OBVIOUS
  <2>1. b = Last(remaining) /\ e = Cut
    <3>1. N - 0 = N
      BY <1>3
    <3>2. b = remaining[N]
      BY <1>6, <1>7, <3>1
    <3>3. e = End(remaining[N])
      BY DEF TakenFrom
    <3> QED
      BY <1>3, <3>2, <3>3 DEF Spans, Last
  <2>2. ~(d > Interval)
    BY <1>1, <2>1
  <2> HIDE DEF e, d
  <2> QED
    BY <1>3, <1>9, <1>10, <2>1, <2>2
<1>12. BackSpans(group, e, Cut)
  BY <1>5, <1>11
<1>13. t = e - (Interval - (Cut - e))
  <2>1. Last(group).rtime = e
    BY <1>12 DEF BackSpans, Last
  <2>2. Interval - TotalDuration(group) >= 0 /\ Interval - TotalDuration(group) = Interval - (Cut - e)
    <3> HIDE DEF e, group
    <3> QED
      BY <1>3, <1>4, <1>5
  <2>3. Remaining(group) = Interval - (Cut - e)
    <3> HIDE DEF e, group
    <3> QED
      BY <1>3, <1>5, <2>2 DEF Remaining
  <2> QED
    BY <2>1, <2>3 DEF ThriftyCut
<1>14. TotalDuration(group) <= Interval /\ TotalDuration(group) = Cut - e
  BY <1>4, <1>5
<1>15. TotalDuration(remaining) > Interval
  BY <1>1, <1>3
<1>16. below # <<>>
  BY <1>6, <1>7 DEF Spans
<1>17. GroupWithPart(group, b, t, Front(below)) /\ End(b) = e
  BY <1>2, <1>6, <1>7, <1>16
<1> HIDE DEF e, t, r, d, group, b, below
<1>18. t \in Int /\ r < t /\ t <= e /\ t < Cut /\ Cut - t >= Interval
  <2>1. Cut - e <= Interval
    BY <1>14
  <2>2. t \in Int
    BY <1>3, <1>5, <1>13
  <2>3. r < t
    BY <1>3, <1>5, <1>9, <1>10, <1>13
  <2>4. t <= e
    BY <1>3, <1>5, <1>13, <2>1
  <2>5. Cut - t = Interval
    BY <1>3, <1>5, <1>13
  <2> QED
    BY <1>3, <2>2, <2>3, <2>4, <2>5
<1> USE DEF r
<1>19. IsCut(group, b, t, Front(below))
  <2> HIDE DEF t, group, b, below
  <2> QED
    BY <1>5, <1>8, <1>15, <1>17, <1>18 DEF IsCut
<1>20. n \in 1 .. N - 1
  <2> HIDE DEF n, N
  <2> QED
    BY <1>3, <1>4, <1>7, <1>11
<1>21. b = remaining[N - n]
  BY <1>6, <1>7
<1> QED
  BY <1>1, <1>17, <1>19, <1>20, <1>21 DEF b, t, group, below, Uncut

LEMMA SplitThriftyStep ==
  ASSUME BlockInv, SplitThrifty
  PROVE  BlockInv' /\ LessRemains
<1> DEFINE group == Taken(remaining, Fitting)
           b == Uncut(remaining, Fitting)
           t == ThriftyCut(group)
           left == Front(Below(remaining, Fitting))
<1>1. /\ stage = "groups" /\ remaining # <<>>
      /\ IsCut(group, b, t, left) /\ GroupWithPart(group, b, t, left)
  BY ThriftyCutIs
<1> HIDE DEF group, b, t, left
<1> QED
  BY <1>1, GroupWithPartStep DEF IsCut

-----------------------------------------------------------------------------
(***************************************************************************)
(* The processes before and after the groups.                              *)
(***************************************************************************)
LEMMA SplitJumpSpans ==
  ASSUME NEW b \in Block, b.interp <= b.dur
  PROVE  SplitJump(b) \in Seq(Block) /\ Spans(SplitJump(b), b.rtime, End(b))
<1>1. CASE ~ShouldBeSplit(b)
  BY <1>1, OneBlock DEF SplitJump
<1>2. CASE ShouldBeSplit(b)
  <2>1. b.rtime \in Int /\ b.dur \in Nat /\ b.interp \in Nat /\ End(b) = b.rtime + b.dur
    BY BlockTimesAre DEF Block
  <2>2. PICK i \in Nat : i = b.interp
    BY <2>1
  <2>3. PICK r \in Int : r = b.rtime + b.interp
    BY <2>1
  <2>4. PICK d \in Nat : d = b.dur - b.interp
    BY <2>1
  <2> DEFINE c == [b EXCEPT !.dur = i]
             e == [b EXCEPT !.rtime = r, !.dur = d]
  <2>5. SplitJump(b) = <<c, e>>
    BY <1>2, <2>2, <2>3, <2>4 DEF SplitJump
  <2>6. c \in Block /\ e \in Block
    BY DEF Block
  <2>7. c.rtime = b.rtime /\ c.dur = i /\ e.rtime = r /\ e.dur = d
    BY DEF Block
  <2> HIDE DEF c, e
  <2>8. End(c) = r
    BY <2>1, <2>2, <2>3, <2>7 DEF End
  <2>9. End(e) = End(b)
    BY <2>1, <2>2, <2>3, <2>4, <2>7 DEF End
  <2>10. <<c, e>> \in Seq(Block) /\ Len(<<c, e>>) = 2 /\ <<c, e>>[1] = c /\ <<c, e>>[2] = e
    BY <2>6
  <2>11. \A k \in 2 .. 2 : k = 2 /\ k - 1 = 1
    OBVIOUS
  <2>12. <<c, e>> # <<>>
    OBVIOUS
  <2>13. Spans(<<c, e>>, b.rtime, End(e))
    BY <2>7, <2>8, <2>10, <2>11, <2>12 DEF Spans
  <2> QED
    BY <2>5, <2>9, <2>10, <2>13
<1> QED
  BY <1>1, <1>2

LEMMA WithoutJumpSpans ==
  ASSUME NEW s \in Seq(Block), NEW a, NEW b, Spans(s, a, b)
  PROVE  WithoutJump(s) \in Seq(Block) /\ Spans(WithoutJump(s), a, b)
<1> DEFINE u == WithoutJump(s)
           n == Len(s)
<1>1. n \in Nat \ {0} /\ DOMAIN s = 1 .. n /\ \A i \in 1 .. n : s[i] \in Block
  BY SpansTimes
<1> DEFINE Plain(c) == [c EXCEPT !.jump = FALSE, !.interp = 0]
<1>2. u = [i \in 1 .. n |-> Plain(s[i])]
  BY <1>1 DEF WithoutJump
<1>3. \A c \in Block : Plain(c) \in Block /\ Plain(c).rtime = c.rtime /\ Plain(c).dur = c.dur
  BY DEF Block
<1> HIDE DEF u, n, Plain
<1>4. \A i \in 1 .. n : u[i] \in Block /\ u[i].rtime = s[i].rtime /\ u[i].dur = s[i].dur
  BY <1>1, <1>2, <1>3
<1>5. \A i \in 1 .. n : End(u[i]) = End(s[i])
  BY <1>4 DEF End
<1>6. u \in Seq(Block) /\ Len(u) = n /\ u # <<>>
  <2>1. u \in [1 .. n -> Block]
    <3>1. u = [i \in 1 .. n |-> u[i]]
      BY <1>2
    <3> QED
      BY <1>4, <3>1
  <2>2. u \in Seq(Block) /\ Len(u) = n
    BY <1>1, <2>1
  <2> QED
    BY <1>1, <2>2
<1>7. s[1].rtime = a /\ End(s[n]) = b /\ \A i \in 2 .. n : s[i].rtime = End(s[i - 1])
  BY DEF Spans, n
<1>8. 1 \in 1 .. n /\ n \in 1 .. n /\ \A i \in 2 .. n : i \in 1 .. n /\ i - 1 \in 1 .. n
  BY <1>1
<1>9. u[1].rtime = a /\ End(u[n]) = b
  BY <1>4, <1>5, <1>7, <1>8
<1>10. \A i \in 2 .. n : u[i].rtime = End(u[i - 1])
  BY <1>4, <1>5, <1>7, <1>8
<1> QED
  BY <1>6, <1>9, <1>10 DEF Spans, u

\* The pieces of all blocks, one after another.
LEMMA PiecesSpan ==
  ASSUME NEW s \in Seq(Block), NEW a, NEW b, Spans(s, a, b),
         \A i \in 1 .. Len(s) : s[i].interp <= s[i].dur
  PROVE  /\ FlattenSeq([i \in DOMAIN s |-> SplitJump(s[i])]) \in Seq(Block)
         /\ Spans(FlattenSeq([i \in DOMAIN s |-> SplitJump(s[i])]), a, b)
<1> DEFINE N == Len(s)
           p == [i \in DOMAIN s |-> SplitJump(s[i])]
<1>1. N \in Nat \ {0} /\ DOMAIN s = 1 .. N /\ \A i \in 1 .. N : s[i] \in Block
  BY SpansTimes
<1>2. /\ Len(p) = N
      /\ \A i \in 1 .. N : p[i] = SplitJump(s[i])
  BY <1>1
<1>3. \A i \in 1 .. N : p[i] \in Seq(Block) /\ Spans(p[i], s[i].rtime, End(s[i]))
  BY <1>1, <1>2, SplitJumpSpans
<1> HIDE DEF p
<1>4. PICK f : /\ f = [i \in 1 .. Len(p) |-> IF i = 1 THEN p[i] ELSE f[i - 1] \o p[i]]
               /\ FlattenSeq(p) = f[Len(p)]
  BY <1>1, <1>2, FlattenIs
<1>5. f[1] = p[1] /\ \A i \in 2 .. N : f[i] = f[i - 1] \o p[i]
  <2> HIDE DEF N
  <2>1. \A i \in 1 .. N : f[i] = IF i = 1 THEN p[i] ELSE f[i - 1] \o p[i]
    BY <1>2, <1>4
  <2>2. 1 \in 1 .. N /\ \A i \in 2 .. N : i \in 1 .. N /\ i # 1
    BY <1>1
  <2> QED
    BY <2>1, <2>2
<1>6. s[1].rtime = a /\ End(s[N]) = b /\ \A i \in 2 .. N : s[i].rtime = End(s[i - 1])
  BY DEF Spans
<1> HIDE DEF N
<1> DEFINE S == {k \in Nat : k \in 1 .. N => f[k] \in Seq(Block) /\ Spans(f[k], a, End(s[k]))}
<1>7. 0 \in S
  OBVIOUS
<1>8. ASSUME NEW k \in Nat, k \in S PROVE k + 1 \in S
  <2>1. CASE k = 0
    BY <1>1, <1>3, <1>5, <1>6, <2>1
  <2>2. CASE k # 0 /\ k + 1 \in 1 .. N
    <3>1. k \in 1 .. N /\ k + 1 \in 2 .. N /\ (k + 1) - 1 = k
      BY <1>1, <2>2
    <3>2. /\ f[k] \in Seq(Block) /\ Spans(f[k], a, End(s[k]))
          /\ f[k + 1] = f[k] \o p[k + 1]
          /\ p[k + 1] \in Seq(Block) /\ Spans(p[k + 1], End(s[k]), End(s[k + 1]))
      BY <1>3, <1>5, <1>6, <1>8, <2>2, <3>1
    <3>3. f[k + 1] \in Seq(Block) /\ Spans(f[k + 1], a, End(s[k + 1]))
      BY <3>2, SpansConcat
    <3> QED
      BY <3>3
  <2>3. CASE k + 1 \notin 1 .. N
    BY <2>3
  <2> QED
    BY <2>1, <2>2, <2>3
<1> HIDE DEF S
<1>9. N \in S
  BY <1>1, <1>7, <1>8, InductionOverNat
<1>10. f[N] \in Seq(Block) /\ Spans(f[N], a, b)
  BY <1>1, <1>6, <1>9 DEF S
<1> QED
  BY <1>2, <1>4, <1>10 DEF p

LEMMA RemoveJumpPositionStep ==
  ASSUME BlockInv, RemoveJumpPosition
  PROVE  BlockInv'
<1> DEFINE bs == IF Len(blocks) > 1 THEN FlattenSeq([i \in DOMAIN blocks |-> SplitJump(blocks[i])])
                                    ELSE blocks
<1>1. /\ stage = "jump" /\ stage' = "resample" /\ blocks' = WithoutJump(bs)
      /\ original' = original /\ remaining' = remaining /\ resampled' = resampled
  BY DEF RemoveJumpPosition
<1>2. /\ original \in Inputs /\ blocks = original /\ remaining = <<>> /\ resampled = <<>>
      /\ remaining \in Seq(Block) /\ resampled \in Seq(Block)
  BY <1>1 DEF BlockInv
<1>3. bs \in Seq(Block) /\ Spans(bs, Start, Stop)
  BY <1>2, InputIs, PiecesSpan
<1> HIDE DEF bs
<1>4. blocks' \in Seq(Block) /\ Spans(blocks', Start, Stop)
  BY <1>1, <1>3, WithoutJumpSpans
<1>5. Start' = Start /\ Stop' = Stop
  BY <1>1 DEF Start, Stop
<1>6. ShortOK'
  BY <1>1, <1>2 DEF ShortOK
<1> QED
  BY <1>1, <1>2, <1>4, <1>5, <1>6 DEF BlockInv

\* A leading block of zero length, if there is one, takes no time.
LEMMA LeadingZeroFills ==
  ASSUME BlockInv
  PROVE  /\ LeadingZero \in Seq(Block) /\ Fills(LeadingZero, Start, Start)
         /\ BackFills(LeadingZero, Start, Start)
         /\ LeadingZero # <<>> => Len(blocks) > 1 /\ End(blocks[1]) = Start
<1>1. blocks \in Seq(Block) /\ blocks # <<>> /\ blocks[1] \in Block /\ blocks[1].rtime = Start
  BY DEF BlockInv, Spans
<1>2. CASE Len(blocks) > 1 /\ Zero(blocks[1])
  <2>1. LeadingZero = <<blocks[1]>>
    BY <1>2 DEF LeadingZero
  <2>2. End(blocks[1]) = Start
    <3>1. blocks[1].dur = 0 /\ Start \in Int
      BY <1>1, <1>2, BlockTimesAre DEF Zero
    <3> QED
      BY <1>1, <3>1 DEF End
  <2>3. <<blocks[1]>> \in Seq(Block) /\ <<blocks[1]>> # <<>>
        /\ Spans(<<blocks[1]>>, Start, Start) /\ BackSpans(<<blocks[1]>>, Start, Start)
    BY <1>1, <2>2, OneBlock
  <2> QED
    BY <1>2, <2>1, <2>2, <2>3 DEF Fills, BackFills
<1>3. CASE ~(Len(blocks) > 1 /\ Zero(blocks[1]))
  <2>1. LeadingZero = <<>> /\ <<>> \in Seq(Block)
    BY <1>3 DEF LeadingZero
  <2> QED
    BY <2>1 DEF Fills, BackFills
<1> QED
  BY <1>2, <1>3

LEMMA StartResamplingStep ==
  ASSUME BlockInv, StartResampling
  PROVE  BlockInv'
<1>1. /\ stage = "resample"
      /\ original' = original /\ blocks' = blocks /\ resampled' = resampled
  BY DEF StartResampling
<1>2. /\ original \in Inputs /\ remaining = <<>> /\ resampled = <<>>
      /\ remaining \in Seq(Block) /\ resampled \in Seq(Block)
      /\ blocks \in Seq(Block) /\ Spans(blocks, Start, Stop)
  BY <1>1 DEF BlockInv
<1>3. Start' = Start /\ Stop' = Stop
  BY <1>1 DEF Start, Stop
<1>4. ShortOK'
  BY <1>1, <1>2 DEF ShortOK
<1>5. CASE Len(blocks) <= 1
  <2>1. stage' = "done" /\ remaining' = remaining
    BY <1>5 DEF StartResampling
  <2> QED
    BY <1>1, <1>2, <1>3, <1>4, <2>1 DEF BlockInv
<1>6. CASE ~(Len(blocks) <= 1)
  <2>1. /\ stage' = "groups"
        /\ remaining' = IF LeadingZero = <<>> THEN blocks ELSE Tail(blocks)
    BY <1>6 DEF StartResampling
  <2>2. remaining' \in Seq(Block) /\ Spans(remaining', Start, Stop)
    <3>1. CASE LeadingZero = <<>>
      BY <1>2, <2>1, <3>1
    <3>2. CASE LeadingZero # <<>>
      <4> DEFINE n == Len(blocks)
                 m == 2
      <4>1. n \in Nat /\ n > 1
        BY <1>2, <1>6
      <4>2. m \in 1 .. n /\ n \in m .. n /\ 2 \in 2 .. n
        BY <4>1
      <4> HIDE DEF m
      <4>3. SubSeq(blocks, m, n) \in Seq(Block) /\ Spans(SubSeq(blocks, m, n), blocks[m].rtime, End(blocks[n]))
        BY <1>2, <4>2, SubSpans
      <4>4. Tail(blocks) = SubSeq(blocks, m, n)
        BY <1>2, <4>1 DEF m
      <4>5. blocks[m].rtime = End(blocks[1])
        BY <1>2, <4>2 DEF Spans, m
      <4>6. End(blocks[1]) = Start /\ End(blocks[n]) = Stop
        BY <1>2, <3>2, LeadingZeroFills DEF Spans
      <4> QED
        BY <2>1, <3>2, <4>3, <4>4, <4>5, <4>6
    <3> QED
      BY <3>1, <3>2
  <2>3. remaining' # <<>> /\ Fills(remaining', Start, Stop)
    BY <2>2 DEF Fills, Spans
  <2>4. Cut' = Stop
    BY <1>1, <1>2, <1>3 DEF Cut
  <2>5. BackFills(resampled', Stop, Stop)
    BY <1>1, <1>2 DEF BackFills
  <2> QED
    BY <1>1, <1>2, <1>3, <1>4, <2>1, <2>2, <2>3, <2>4, <2>5 DEF BlockInv
<1> QED
  BY <1>5, <1>6

LEMMA FinishResamplingStep ==
  ASSUME BlockInv, FinishResampling
  PROVE  BlockInv'
<1>1. /\ stage = "groups" /\ remaining = <<>> /\ stage' = "done"
      /\ blocks' = Reverse(resampled \o LeadingZero)
      /\ original' = original /\ remaining' = remaining /\ resampled' = resampled
  BY DEF FinishResampling
<1>2. /\ original \in Inputs /\ resampled # <<>>
      /\ remaining \in Seq(Block) /\ resampled \in Seq(Block)
      /\ ShortOK
      /\ Start = Cut /\ BackFills(resampled, Cut, Stop)
  BY <1>1 DEF BlockInv, Fills
<1>3. /\ LeadingZero \in Seq(Block) /\ BackFills(LeadingZero, Start, Start)
  BY LeadingZeroFills
<1>4. Start' = Start /\ Stop' = Stop
  BY <1>1 DEF Start, Stop
<1> DEFINE u == resampled \o LeadingZero
<1>5. u \in Seq(Block) /\ u # <<>> /\ BackFills(u, Start, Stop)
  <2>1. u \in Seq(Block)
    BY <1>2, <1>3
  <2>2. u # <<>>
    BY <1>2, <1>3
  <2>3. BackFills(u, Start, Stop)
    BY <1>2, <1>3, ConcatFills
  <2> QED
    BY <2>1, <2>2, <2>3
<1> HIDE DEF u
<1>6. blocks' \in Seq(Block) /\ Spans(blocks', Start, Stop)
  <2>1. BackSpans(u, Start, Stop)
    BY <1>5 DEF BackFills
  <2> QED
    BY <1>1, <1>5, <2>1, ReverseSpans DEF u
<1>7. ShortOK'
  BY <1>1, <1>2 DEF ShortOK
<1> QED
  BY <1>1, <1>2, <1>4, <1>6, <1>7 DEF BlockInv

-----------------------------------------------------------------------------
(***************************************************************************)
(* The theorems.                                                           *)
(***************************************************************************)
LEMMA BlockInit == Init => BlockInv
<1> SUFFICES ASSUME Init PROVE BlockInv
  OBVIOUS
<1>1. /\ original \in Inputs /\ blocks = original /\ remaining = <<>> /\ resampled = <<>>
      /\ stage = "jump"
  BY DEF Init
<1>2. remaining \in Seq(Block) /\ resampled \in Seq(Block)
  BY <1>1
<1>3. ShortOK
  BY <1>1 DEF ShortOK
<1> QED
  BY <1>1, <1>2, <1>3, InputIs DEF BlockInv

LEMMA BlockStep == BlockInv /\ [Next]_vars => BlockInv'
<1> SUFFICES ASSUME BlockInv, [Next]_vars PROVE BlockInv'
  OBVIOUS
<1>1. CASE RemoveJumpPosition
  BY <1>1, RemoveJumpPositionStep
<1>2. CASE StartResampling
  BY <1>2, StartResamplingStep
<1>3. CASE ConsumeOne
  BY <1>3, ConsumeOneStep
<1>4. CASE SplitGreedy
  BY <1>4, SplitGreedyStep
<1>5. CASE SplitThrifty
  BY <1>5, SplitThriftyStep
<1>6. CASE ConsumeAll
  BY <1>6, ConsumeAllStep
<1>7. CASE FinishResampling
  BY <1>7, FinishResamplingStep
<1>8. CASE UNCHANGED vars
  <2>1. /\ original' = original /\ blocks' = blocks /\ remaining' = remaining
        /\ resampled' = resampled /\ stage' = stage
    BY <1>8 DEF vars
  <2>2. Start' = Start /\ Stop' = Stop /\ Cut' = Cut
    BY <2>1 DEF Start, Stop, Cut
  <2>3. ShortOK'
    BY <2>1 DEF ShortOK, BlockInv
  <2> QED
    BY <2>1, <2>2, <2>3 DEF BlockInv
<1> QED
  BY <1>1, <1>2, <1>3, <1>4, <1>5, <1>6, <1>7, <1>8 DEF Next, Returned

\* While blocks are converted, what remains and what was made of groups meet
\* at one time, and only the groups that may be short are.
THEOREM BlockInvariant == Spec => []BlockInv
  BY BlockInit, BlockStep, PTL DEF Spec

\* remove_jump_position and resample_blocks neither lose nor repeat any time
\* of a channel: before, between and after the groups, its blocks follow each
\* other from the start to the end of the input.
THEOREM BlocksStayContiguous == Spec => []BlocksContiguous
<1>1. BlockInv => BlocksContiguous
  <2> SUFFICES ASSUME BlockInv PROVE BlocksContiguous
    OBVIOUS
  <2>1. original \in Seq(Block) /\ original # <<>> /\ Last(original) = original[Len(original)]
    BY InputIs DEF BlockInv, Last
  <2>2. ASSUME NEW s, Spans(s, Start, Stop) PROVE Contiguous(s)
    BY <2>1, <2>2 DEF Contiguous, Spans, Start, Stop, Last
  <2>3. CASE stage = "groups"
    <3> DEFINE u == LeadingZero \o remaining
               w == u \o Reverse(resampled)
    <3>1. /\ remaining \in Seq(Block) /\ resampled \in Seq(Block)
          /\ Fills(remaining, Start, Cut) /\ BackFills(resampled, Cut, Stop)
          /\ remaining # <<>> \/ resampled # <<>>
      BY <2>3 DEF BlockInv
    <3>2. LeadingZero \in Seq(Block) /\ Fills(LeadingZero, Start, Start)
      BY LeadingZeroFills
    <3>3. /\ Reverse(resampled) \in Seq(Block) /\ Fills(Reverse(resampled), Cut, Stop)
          /\ Reverse(resampled) = <<>> <=> resampled = <<>>
      BY <3>1, ReverseFills
    <3>4. u \in Seq(Block) /\ Fills(u, Start, Cut) /\ (remaining # <<>> => u # <<>>)
      <4>1. u \in Seq(Block)
        BY <3>1, <3>2
      <4>2. Fills(u, Start, Cut)
        BY <3>1, <3>2, ConcatFills
      <4>3. remaining # <<>> => u # <<>>
        BY <3>1, <3>2
      <4> QED
        BY <4>1, <4>2, <4>3
    <3> HIDE DEF u
    <3>5. Fills(w, Start, Stop) /\ w # <<>>
      <4>1. Fills(w, Start, Stop)
        BY <3>1, <3>3, <3>4, ConcatFills
      <4>2. w # <<>>
        BY <3>1, <3>3, <3>4
      <4> QED
        BY <4>1, <4>2
    <3> HIDE DEF w
    <3>6. Contiguous(w)
      BY <2>2, <3>5 DEF Fills
    <3> QED
      BY <2>3, <3>6 DEF BlocksContiguous, u, w
  <2>4. CASE stage # "groups"
    BY <2>2, <2>4 DEF BlocksContiguous, BlockInv
  <2> QED
    BY <2>3, <2>4
<1> QED
  BY <1>1, BlockInvariant, PTL

\* The blocks that resample_blocks makes are at least as long as min_duration,
\* except the first and, when the first was completed with the start of it,
\* the second.
THEOREM ShortBlocksComeFirst == Spec => []OnlySecondIsShort
<1>1. BlockInv => OnlySecondIsShort
  <2> SUFFICES ASSUME BlockInv, stage = "done", NEW i \in ShortBlocks
               PROVE  i = Len(resampled) - 1 /\ Last(resampled).dur = Interval
    BY DEF OnlySecondIsShort
  <2>1. i \in DOMAIN resampled /\ i < Len(resampled) /\ resampled[i].dur < Interval
    BY DEF ShortBlocks
  <2>2. i # Len(resampled)
    BY <2>1 DEF BlockInv
  <2> QED
    BY <2>1, <2>2 DEF BlockInv, ShortOK
<1> QED
  BY <1>1, BlockInvariant, PTL

\* split() is never asked to cut a block at a time that is outside of it, so
\* that resample_blocks never throws.
THEOREM ResamplingSucceeds == Spec => [](stage # "threw")
<1>1. BlockInv => stage # "threw"
  BY DEF BlockInv
<1> QED
  BY <1>1, BlockInvariant, PTL

\* The loop of resample_blocks ends: each group leaves less time on the stack,
\* or the same time in fewer blocks.
THEOREM GroupsTakeBlocks == Spec => EachGroupTakes
<1> DEFINE Takes == stage = "groups" /\ stage' = "groups" => LessRemains
<1>1. BlockInv /\ [Next]_vars => [Takes]_vars
  <2> SUFFICES ASSUME BlockInv, Next, stage = "groups", stage' = "groups" PROVE LessRemains
    OBVIOUS
  <2>1. ~RemoveJumpPosition /\ ~StartResampling /\ ~FinishResampling /\ ~Returned
    BY DEF RemoveJumpPosition, StartResampling, FinishResampling, Returned
  <2> QED
    BY <2>1, ConsumeOneStep, SplitGreedyStep, SplitThriftyStep, ConsumeAllStep DEF Next
<1>2. Spec => [][Takes]_vars
  BY <1>1, BlockInvariant, PTL DEF Spec
<1> QED
  BY <1>2 DEF EachGroupTakes, LessRemains
-----------------------------------------------------------------------------
(***************************************************************************)
(* What is heard.  A point of the renderer is seen as its time and value,  *)
(* whatever the number of the block that it is taken from.                 *)
(***************************************************************************)
See(time, zero, v) == [time |-> time, zero |-> zero, v |-> v]
Sight == [time : Int, zero : BOOLEAN, v : Int]
PointOf == [time : Int, zero : BOOLEAN, of : Nat]

Seen(points, bs) ==
  [i \in 1 .. Len(points) |-> See(points[i].time, points[i].zero, bs[points[i].of].v)]

\* The values on the way from one point to the next.
Between(p, q, t) ==
  IF p.zero \/ q.zero \/ t < p.time \/ t > q.time THEN {}
  ELSE IF p.time = q.time THEN {p.v, q.v}
  ELSE {p.v + ((q.v - p.v) * (t - p.time)) \div (q.time - p.time)}

SeenAt(s, t) == UNION {Between(s[i], s[i + 1], t) : i \in 1 .. Len(s) - 1}

LEMMA ValuesAreSeen ==
  ASSUME NEW points \in Seq(PointOf), NEW bs, NEW t
  PROVE  Timing!ValuesAt(points, bs, t) = SeenAt(Seen(points, bs), t)
<1> DEFINE s == Seen(points, bs)
           n == Len(points)
<1>1. n \in Nat /\ s = [i \in 1 .. n |-> See(points[i].time, points[i].zero, bs[points[i].of].v)]
  BY DEF Seen
<1>2. Len(s) = n
  BY <1>1
<1> HIDE DEF s, n
<1>3. \A i \in 1 .. n : /\ s[i].time = points[i].time /\ s[i].zero = points[i].zero
                        /\ s[i].v = bs[points[i].of].v
  BY <1>1 DEF See
<1>4. \A i \in 1 .. n - 1 : i \in 1 .. n /\ i + 1 \in 1 .. n
  BY <1>1
<1>5. ASSUME NEW i \in 1 .. n - 1
      PROVE  (LET p == points[i]
                  q == points[i + 1]
                  from == bs[p.of].v
                  to == bs[q.of].v
              IN  IF p.zero \/ q.zero \/ t < p.time \/ t > q.time THEN {}
                  ELSE IF p.time = q.time THEN {from, to}
                  ELSE {from + ((to - from) * (t - p.time)) \div (q.time - p.time)})
              = Between(s[i], s[i + 1], t)
  BY <1>3, <1>4 DEF Between
<1>6. Timing!ValuesAt(points, bs, t) = UNION {Between(s[i], s[i + 1], t) : i \in 1 .. n - 1}
  BY <1>5 DEF Timing!ValuesAt, n
<1> QED
  BY <1>2, <1>6 DEF SeenAt, s

\* How the renderer reads a block in an object without times.
LEMMA BlockTiming ==
  ASSUME NEW b \in Block
  PROVE  LET tb == [b EXCEPT !.rtime = {@}, !.dur = {@}] IN
         /\ tb.rtime # {} /\ tb.dur # {}
         /\ Timing!Extent(Timing!NoObject, tb).start = b.rtime
         /\ Timing!Extent(Timing!NoObject, tb).end = {End(b)}
         /\ Timing!Target(Timing!NoObject, tb) = IF b.jump THEN b.rtime + b.interp ELSE End(b)
<1> DEFINE tb == [b EXCEPT !.rtime = {@}, !.dur = {@}]
<1>1. /\ tb.rtime = {b.rtime} /\ tb.dur = {b.dur} /\ tb.jump = b.jump /\ tb.interp = b.interp
      /\ b.rtime \in Int /\ b.dur \in Nat
  BY DEF Block
<1> HIDE DEF tb
<1>2. \A x : Timing!Only({x}) = x
  BY DEF Timing!Only
<1>3. Timing!ObjectStart(Timing!NoObject) = 0 /\ Timing!NoObject.dur = {}
  BY DEF Timing!ObjectStart, Timing!NoObject
<1>4. tb.rtime # {} /\ tb.dur # {}
  BY <1>1
<1>5. Timing!Extent(Timing!NoObject, tb)
        = [start |-> b.rtime, end |-> {End(b)}]
  <2>1. {0 + b.rtime + d : d \in tb.dur} = {End(b)}
    BY <1>1 DEF End
  <2>2. Timing!Only(tb.rtime) = b.rtime
    BY <1>1, <1>2
  <2>3. 0 + b.rtime = b.rtime
    BY <1>1
  <2> QED
    BY <1>3, <1>4, <2>1, <2>2, <2>3 DEF Timing!Extent
<1>6. Timing!Target(Timing!NoObject, tb) = IF b.jump THEN b.rtime + b.interp ELSE End(b)
  <2> DEFINE x == Timing!Extent(Timing!NoObject, tb)
  <2>1. x.start = b.rtime /\ x.end = {End(b)}
    BY <1>5
  <2>2. Timing!Target(Timing!NoObject, tb)
          = IF tb.jump THEN x.start + tb.interp ELSE Timing!Only(x.end)
    BY DEF Timing!Target
  <2> HIDE DEF x
  <2> QED
    BY <1>1, <1>2, <2>1, <2>2
<1> QED
  BY <1>4, <1>5, <1>6 DEF tb

\* The library as RenderTiming sees it.
LEMMA TimingLibrary ==
  /\ \A s : Timing!Last(s) = Last(s)
  /\ \A S : Timing!SetToSeq(S) = SetToSeq(S)
  /\ \A s : Timing!FlattenSeq(s) = FlattenSeq(s)
<1>1. \A s : Timing!Last(s) = Last(s)
  BY DEF Last, Timing!Last
<1>2. \A S : Timing!SetToSeq(S) = SetToSeq(S)
  <2>1. \A f : Timing!IsInjective(f) = IsInjective(f)
    BY DEF IsInjective, Timing!IsInjective
  <2>2. \A S : Timing!Cardinality(S) = Cardinality(S)
    BY DEF Cardinality, Timing!Cardinality
  <2> QED
    BY <2>1, <2>2 DEF SetToSeq, Timing!SetToSeq
<1>3. \A s : Timing!FlattenSeq(s) = FlattenSeq(s)
  BY DEF FlattenSeq, Timing!FlattenSeq
<1> QED
  BY <1>1, <1>2, <1>3

LEMMA PairConcat ==
  ASSUME NEW x, NEW y, NEW z
  PROVE  <<x, y>> \o <<z>> = <<x, y, z>>
<1> DEFINE T == {x, y, z}
           a == <<x, y>>
           b == <<z>>
           c == <<x, y, z>>
<1>1. a \in Seq(T) /\ Len(a) = 2 /\ a[1] = x /\ a[2] = y
  OBVIOUS
<1>2. b \in Seq(T) /\ Len(b) = 1 /\ b[1] = z
  OBVIOUS
<1>3. c \in Seq(T) /\ Len(c) = 3 /\ c[1] = x /\ c[2] = y /\ c[3] = z
  OBVIOUS
<1> HIDE DEF T, a, b, c
<1>4. /\ a \o b \in Seq(T) /\ Len(a \o b) = Len(a) + Len(b)
      /\ \A i \in 1 .. Len(a) + Len(b) :
           (a \o b)[i] = IF i <= Len(a) THEN a[i] ELSE b[i - Len(a)]
  BY <1>1, <1>2, ConcatProperties
<1>5. Len(a \o b) = 3
  BY <1>1, <1>2, <1>4
<1>6. (a \o b)[1] = x /\ (a \o b)[2] = y /\ (a \o b)[3] = z
  BY <1>1, <1>2, <1>4
<1>7. \A i \in 1 .. 3 : (a \o b)[i] = c[i]
  <2>1. \A i \in 1 .. 3 : i = 1 \/ i = 2 \/ i = 3
    OBVIOUS
  <2> QED
    BY <1>3, <1>6, <2>1
<1>9. a \o b = c
  BY <1>3, <1>4, <1>5, <1>7, SeqEqual
<1> QED
  BY <1>9 DEF a, b, c

LEMMA SeenConcat ==
  ASSUME NEW s \in Seq(PointOf), NEW t \in Seq(PointOf), NEW bs
  PROVE  Seen(s \o t, bs) = Seen(s, bs) \o Seen(t, bs)
<1> DEFINE m == Len(s)
           n == Len(t)
           S(p) == See(p.time, p.zero, bs[p.of].v)
           a == Seen(s, bs)
           b == Seen(t, bs)
           c == Seen(s \o t, bs)
<1>1. m \in Nat /\ n \in Nat /\ Len(s \o t) = m + n
  OBVIOUS
<1>2. \A i \in 1 .. m + n : (s \o t)[i] = IF i <= m THEN s[i] ELSE t[i - m]
  BY ConcatProperties
<1>3. (\A i \in 1 .. m : s[i] \in PointOf) /\ \A i \in 1 .. n : t[i] \in PointOf
  OBVIOUS
<1>4. /\ a = [i \in 1 .. m |-> S(s[i])]
      /\ b = [i \in 1 .. n |-> S(t[i])]
      /\ c = [i \in 1 .. m + n |-> S((s \o t)[i])]
  BY <1>1 DEF Seen
<1> DEFINE T == {S(p) : p \in PointOf}
<1> HIDE DEF m, n, S, a, b, c
<1>5. a \in Seq(T) /\ Len(a) = m
  <2>1. a \in [1 .. m -> T]
    BY <1>3, <1>4
  <2> QED
    BY <1>1, <2>1, FunctionIsSeq
<1>6. b \in Seq(T) /\ Len(b) = n
  <2>1. b \in [1 .. n -> T]
    BY <1>3, <1>4
  <2> QED
    BY <1>1, <2>1, FunctionIsSeq
<1>7. c \in Seq(T) /\ Len(c) = m + n
  <2>1. \A i \in 1 .. m + n : (s \o t)[i] \in PointOf
    <3>1. \A i \in 1 .. m + n : ~ (i <= m) => i - m \in 1 .. n
      BY <1>1
    <3>2. \A i \in 1 .. m + n : i <= m => i \in 1 .. m
      BY <1>1
    <3> QED
      BY <1>2, <1>3, <3>1, <3>2
  <2>2. c \in [1 .. m + n -> T]
    BY <1>4, <2>1
  <2> QED
    BY <1>1, <2>2, FunctionIsSeq
<1> HIDE DEF T
<1>8. /\ a \o b \in Seq(T) /\ Len(a \o b) = m + n
      /\ \A i \in 1 .. m + n : (a \o b)[i] = IF i <= m THEN a[i] ELSE b[i - m]
  BY <1>5, <1>6, ConcatProperties
<1>9. \A i \in 1 .. m + n : c[i] = (a \o b)[i]
  <2> SUFFICES ASSUME NEW i \in 1 .. m + n PROVE c[i] = (a \o b)[i]
    OBVIOUS
  <2>1. c[i] = S((s \o t)[i])
    BY <1>4
  <2>2. CASE i <= m
    <3>1. i \in 1 .. m
      BY <1>1, <2>2
    <3> QED
      BY <1>2, <1>4, <1>8, <2>1, <2>2, <3>1
  <2>3. CASE ~ (i <= m)
    <3>1. i - m \in 1 .. n
      BY <1>1, <2>3
    <3> QED
      BY <1>2, <1>4, <1>8, <2>1, <2>3, <3>1
  <2> QED
    BY <2>2, <2>3
<1>10. c = a \o b
  BY <1>7, <1>8, <1>9, SeqEqual
<1> QED
  BY <1>10 DEF a, b, c

TurnsAt(b) == IF b.jump THEN b.rtime + b.interp ELSE End(b)

\* The points of block number i.
PointsOf(b, i) ==
  IF i = 1
  THEN <<Timing!Point(b.rtime, TRUE, 1), Timing!Point(b.rtime, FALSE, 1),
         Timing!Point(End(b), FALSE, 1)>>
  ELSE (IF TurnsAt(b) < End(b) THEN <<Timing!Point(TurnsAt(b), FALSE, i)>> ELSE <<>>)
         \o <<Timing!Point(End(b), FALSE, i)>>

LEMMA PointsAre ==
  ASSUME NEW bs \in Seq(Block), bs # <<>>
  PROVE  Points(bs) = FlattenSeq([i \in 1 .. Len(bs) |-> PointsOf(bs[i], i)])
                        \o <<Timing!Point(End(bs[Len(bs)]), TRUE, Len(bs))>>
<1> DEFINE N == Len(bs)
           tb == Timed(bs)
           E(i) == Timing!Extent(Timing!NoObject, tb[i])
           T(i) == Timing!Target(Timing!NoObject, tb[i])
<1>1. N \in Nat \ {0} /\ DOMAIN bs = 1 .. N /\ \A i \in 1 .. N : bs[i] \in Block
  OBVIOUS
<1>2. tb = [i \in 1 .. N |-> [bs[i] EXCEPT !.rtime = {@}, !.dur = {@}]]
  BY <1>1 DEF Timed
<1>3. DOMAIN tb = 1 .. N /\ Len(tb) = N /\ tb # <<>> /\ 1 \in 1 .. N /\ N \in 1 .. N
  <2> HIDE DEF tb, N
  <2>1. DOMAIN tb = 1 .. N /\ Len(tb) = N
    <3>1. tb \in [1 .. N -> {tb[i] : i \in 1 .. N}]
      BY <1>2
    <3> QED
      BY <1>1, <3>1, FunctionIsSeq
  <2>2. 1 \in 1 .. N /\ N \in 1 .. N
    BY <1>1
  <2> QED
    BY <2>1, <2>2
<1> HIDE DEF N, tb
<1>4. \A i \in 1 .. N : /\ E(i).start = bs[i].rtime /\ E(i).end = {End(bs[i])}
                        /\ T(i) = TurnsAt(bs[i])
  BY <1>1, <1>2, BlockTiming DEF TurnsAt
<1>5. ASSUME NEW i \in 1 .. N, NEW z, NEW o
      PROVE  Timing!AtEnd(Timing!NoObject, tb[i], z, o) = <<Timing!Point(End(bs[i]), z, o)>>
  <2>1. E(i).end = {End(bs[i])}
    BY <1>4
  <2>2. {Timing!Point(e, z, o) : e \in E(i).end} = {Timing!Point(End(bs[i]), z, o)}
    BY <2>1
  <2>3. Timing!AtEnd(Timing!NoObject, tb[i], z, o)
          = SetToSeq({Timing!Point(e, z, o) : e \in E(i).end})
    BY TimingLibrary DEF Timing!AtEnd
  <2> HIDE DEF E
  <2> QED
    BY <2>2, <2>3, SingletonInOrder
<1>6. \A i \in 1 .. N : Timing!Only(E(i).end) = End(bs[i])
  <2>1. \A x : Timing!Only({x}) = x
    BY DEF Timing!Only
  <2> HIDE DEF E
  <2> QED
    BY <1>4, <2>1
<1>7. Timing!EndPoints(Timing!NoObject, tb) = <<Timing!Point(End(bs[N]), TRUE, N)>>
  <2>1. Timing!EndPoints(Timing!NoObject, tb)
          = Timing!AtEnd(Timing!NoObject, tb[N], TRUE, N)
    BY <1>3, TimingLibrary DEF Timing!EndPoints, Last
  <2> QED
    BY <1>3, <1>5, <2>1
<1> DEFINE Of(i) == IF i = 1
                    THEN <<Timing!Point(E(1).start, TRUE, 1), Timing!Point(E(1).start, FALSE, 1)>>
                           \o Timing!AtEnd(Timing!NoObject, tb[1], FALSE, 1)
                    ELSE (IF T(i) < Timing!Only(E(i).end)
                          THEN <<Timing!Point(T(i), FALSE, i)>> ELSE <<>>)
                           \o <<Timing!Point(Timing!Only(E(i).end), FALSE, i)>>
<1>8. Timing!ObjectPoints(Timing!NoObject, tb)
        = FlattenSeq([i \in 1 .. N |-> Of(i)]) \o Timing!EndPoints(Timing!NoObject, tb)
  BY <1>3, TimingLibrary DEF Timing!ObjectPoints
<1>9. \A i \in 1 .. N : Of(i) = PointsOf(bs[i], i)
  <2> SUFFICES ASSUME NEW i \in 1 .. N PROVE Of(i) = PointsOf(bs[i], i)
    OBVIOUS
  <2>1. CASE i = 1
    <3>1. Of(1) = <<Timing!Point(E(1).start, TRUE, 1), Timing!Point(E(1).start, FALSE, 1),
                    Timing!Point(End(bs[1]), FALSE, 1)>>
      <4>1. Of(1) = <<Timing!Point(E(1).start, TRUE, 1), Timing!Point(E(1).start, FALSE, 1)>>
                      \o <<Timing!Point(End(bs[1]), FALSE, 1)>>
        BY <1>3, <1>5
      <4> QED
        BY <4>1, PairConcat
    <3> HIDE DEF Of
    <3> QED
      BY <1>4, <2>1, <3>1 DEF PointsOf
  <2>2. CASE i # 1
    BY <1>4, <1>6, <2>2 DEF PointsOf
  <2> QED
    BY <2>1, <2>2
<1> HIDE DEF Of
<1>10. [i \in 1 .. N |-> Of(i)] = [i \in 1 .. N |-> PointsOf(bs[i], i)]
  BY <1>9
<1> QED
  BY <1>7, <1>8, <1>10 DEF Points, N, tb

\* The same as they are seen: of the first block, of another, at the end.
FirstSeen(b) == <<See(b.rtime, TRUE, b.v), See(b.rtime, FALSE, b.v), See(End(b), FALSE, b.v)>>
NextSeen(b) ==
  (IF TurnsAt(b) < End(b) THEN <<See(TurnsAt(b), FALSE, b.v)>> ELSE <<>>)
    \o <<See(End(b), FALSE, b.v)>>
EndSeen(b) == <<See(End(b), TRUE, b.v)>>

LEMMA FewInSeq ==
  ASSUME NEW T
  PROVE  /\ <<>> \in Seq(T)
         /\ \A x \in T : <<x>> \in Seq(T)
         /\ \A x, y, z \in T : <<x, y, z>> \in Seq(T)
OBVIOUS

LEMMA SeenAreSights ==
  ASSUME NEW b \in Block
  PROVE  /\ FirstSeen(b) \in Seq(Sight) /\ NextSeen(b) \in Seq(Sight) /\ EndSeen(b) \in Seq(Sight)
         /\ TurnsAt(b) \in Int
<1>1. b.rtime \in Int /\ End(b) \in Int /\ TurnsAt(b) \in Int /\ b.v \in Int
  BY BlockTimesAre DEF TurnsAt, Block
<1>2. \A t \in Int, z \in BOOLEAN : See(t, z, b.v) \in Sight
  BY <1>1 DEF See, Sight
<1> HIDE DEF Sight
<1>3. FirstSeen(b) \in Seq(Sight)
  <2>1. /\ See(b.rtime, TRUE, b.v) \in Sight /\ See(b.rtime, FALSE, b.v) \in Sight
        /\ See(End(b), FALSE, b.v) \in Sight
    BY <1>1, <1>2
  <2> QED
    BY <2>1, FewInSeq DEF FirstSeen
<1>4. EndSeen(b) \in Seq(Sight)
  <2>1. See(End(b), TRUE, b.v) \in Sight
    BY <1>1, <1>2
  <2> QED
    BY <2>1, FewInSeq DEF EndSeen
<1>5. NextSeen(b) \in Seq(Sight)
  <2> DEFINE s == IF TurnsAt(b) < End(b) THEN <<See(TurnsAt(b), FALSE, b.v)>> ELSE <<>>
  <2>1. See(TurnsAt(b), FALSE, b.v) \in Sight /\ See(End(b), FALSE, b.v) \in Sight
    BY <1>1, <1>2
  <2>2. s \in Seq(Sight) /\ <<See(End(b), FALSE, b.v)>> \in Seq(Sight)
    BY <2>1, FewInSeq
  <2> HIDE DEF s
  <2>3. s \o <<See(End(b), FALSE, b.v)>> \in Seq(Sight)
    BY <2>2, ConcatProperties
  <2> QED
    BY <2>3 DEF NextSeen, s
<1> QED
  BY <1>1, <1>3, <1>4, <1>5

LEMMA SeenFew ==
  ASSUME NEW bs, NEW x
  PROVE  /\ Seen(<<>>, bs) = <<>>
         /\ Seen(<<x>>, bs) = <<See(x.time, x.zero, bs[x.of].v)>>
<1> DEFINE S(p) == See(p.time, p.zero, bs[p.of].v)
<1>1. Seen(<<>>, bs) = <<>>
  BY DEF Seen
<1>2. Seen(<<x>>, bs) = <<S(x)>>
  <2>1. Len(<<x>>) = 1 /\ <<x>>[1] = x
    OBVIOUS
  <2>2. Seen(<<x>>, bs) = [i \in 1 .. 1 |-> S(<<x>>[i])]
    BY <2>1 DEF Seen
  <2> HIDE DEF S
  <2>3. Seen(<<x>>, bs) = [i \in 1 .. 1 |-> S(x)]
    BY <2>1, <2>2
  <2>4. [i \in 1 .. 1 |-> S(x)] = <<S(x)>>
    OBVIOUS
  <2> QED
    BY <2>3, <2>4
<1> QED
  BY <1>1, <1>2

LEMMA SeenThree ==
  ASSUME NEW bs, NEW x, NEW y, NEW z
  PROVE  Seen(<<x, y, z>>, bs)
           = <<See(x.time, x.zero, bs[x.of].v), See(y.time, y.zero, bs[y.of].v),
               See(z.time, z.zero, bs[z.of].v)>>
<1> DEFINE S(p) == See(p.time, p.zero, bs[p.of].v)
           f == Seen(<<x, y, z>>, bs)
           T == {S(x), S(y), S(z)}
<1>1. /\ Len(<<x, y, z>>) = 3 /\ <<x, y, z>>[1] = x /\ <<x, y, z>>[2] = y /\ <<x, y, z>>[3] = z
  OBVIOUS
<1>2. f = [i \in 1 .. 3 |-> S(<<x, y, z>>[i])]
  BY <1>1 DEF Seen
<1> HIDE DEF S, f
<1>3. f[1] = S(x) /\ f[2] = S(y) /\ f[3] = S(z)
  BY <1>1, <1>2
<1>4. \A i \in 1 .. 3 : i = 1 \/ i = 2 \/ i = 3
  OBVIOUS
<1>5. f \in [1 .. 3 -> T]
  BY <1>2, <1>3, <1>4
<1>6. f \in Seq(T) /\ Len(f) = 3
  BY <1>5, FunctionIsSeq
<1>7. /\ <<S(x), S(y), S(z)>> \in Seq(T) /\ Len(<<S(x), S(y), S(z)>>) = 3
      /\ <<S(x), S(y), S(z)>>[1] = S(x) /\ <<S(x), S(y), S(z)>>[2] = S(y)
      /\ <<S(x), S(y), S(z)>>[3] = S(z)
  OBVIOUS
<1> HIDE DEF T
<1>8. \A i \in 1 .. 3 : f[i] = <<S(x), S(y), S(z)>>[i]
  BY <1>3, <1>4, <1>7
<1>9. f = <<S(x), S(y), S(z)>>
  BY <1>6, <1>7, <1>8, SeqEqual
<1> QED
  BY <1>9 DEF f, S

LEMMA PointsOfSeen ==
  ASSUME NEW bs \in Seq(Block), NEW i \in 1 .. Len(bs)
  PROVE  /\ PointsOf(bs[i], i) \in Seq(PointOf)
         /\ Seen(PointsOf(bs[i], i), bs) = IF i = 1 THEN FirstSeen(bs[i]) ELSE NextSeen(bs[i])
<1> DEFINE b == bs[i]
<1>1. b \in Block /\ i \in Nat
  OBVIOUS
<1>2. b.rtime \in Int /\ End(b) \in Int /\ TurnsAt(b) \in Int
  BY <1>1, BlockTimesAre, SeenAreSights
<1>3. \A t \in Int, z \in BOOLEAN, o \in Nat : Timing!Point(t, z, o) \in PointOf
  BY DEF Timing!Point, PointOf
<1>5. CASE i = 1
  <2>1. PointsOf(b, i) \in Seq(PointOf)
    <3>1. /\ Timing!Point(b.rtime, TRUE, 1) \in PointOf /\ Timing!Point(b.rtime, FALSE, 1) \in PointOf
          /\ Timing!Point(End(b), FALSE, 1) \in PointOf
      BY <1>2, <1>3
    <3> QED
      BY <1>5, <3>1, FewInSeq DEF PointsOf
  <2>2. Seen(PointsOf(b, i), bs) = FirstSeen(b)
    <3> DEFINE x == Timing!Point(b.rtime, TRUE, 1)
               y == Timing!Point(b.rtime, FALSE, 1)
               z == Timing!Point(End(b), FALSE, 1)
    <3>1. PointsOf(b, i) = <<x, y, z>>
      BY <1>5 DEF PointsOf
    <3>3. /\ x.time = b.rtime /\ x.zero = TRUE /\ x.of = 1
          /\ y.time = b.rtime /\ y.zero = FALSE /\ y.of = 1
          /\ z.time = End(b) /\ z.zero = FALSE /\ z.of = 1
      BY DEF Timing!Point
    <3> HIDE DEF x, y, z
    <3>2. Seen(<<x, y, z>>, bs) = <<See(x.time, x.zero, bs[x.of].v), See(y.time, y.zero, bs[y.of].v),
                                    See(z.time, z.zero, bs[z.of].v)>>
      BY SeenThree
    <3> QED
      BY <1>5, <3>1, <3>2, <3>3 DEF FirstSeen
  <2> QED
    BY <1>5, <2>1, <2>2
<1>6. CASE i # 1
  <2> DEFINE s == IF TurnsAt(b) < End(b) THEN <<Timing!Point(TurnsAt(b), FALSE, i)>> ELSE <<>>
             t == <<Timing!Point(End(b), FALSE, i)>>
  <2>1. s \in Seq(PointOf) /\ t \in Seq(PointOf)
    <3> HIDE DEF PointOf
    <3>1. Timing!Point(TurnsAt(b), FALSE, i) \in PointOf /\ Timing!Point(End(b), FALSE, i) \in PointOf
      BY <1>1, <1>2, <1>3
    <3> QED
      BY <3>1, FewInSeq
  <2>2. PointsOf(b, i) = s \o t
    BY <1>6 DEF PointsOf
  <2>7. \A t1 : Seen(<<Timing!Point(t1, FALSE, i)>>, bs) = <<See(t1, FALSE, b.v)>>
    <3> SUFFICES ASSUME NEW t1
                 PROVE  Seen(<<Timing!Point(t1, FALSE, i)>>, bs) = <<See(t1, FALSE, b.v)>>
      OBVIOUS
    <3> DEFINE x == Timing!Point(t1, FALSE, i)
    <3>1. x.time = t1 /\ x.zero = FALSE /\ x.of = i
      BY DEF Timing!Point
    <3>2. Seen(<<x>>, bs) = <<See(x.time, x.zero, bs[x.of].v)>>
      BY SeenFew
    <3> HIDE DEF x
    <3>3. Seen(<<x>>, bs) = <<See(t1, FALSE, b.v)>>
      BY <3>1, <3>2
    <3> QED
      BY <3>3 DEF x
  <2>3. Seen(s, bs) = IF TurnsAt(b) < End(b) THEN <<See(TurnsAt(b), FALSE, b.v)>> ELSE <<>>
    BY <2>7, SeenFew
  <2>4. Seen(t, bs) = <<See(End(b), FALSE, b.v)>>
    BY <2>7
  <2> HIDE DEF s, t
  <2>5. Seen(s \o t, bs) = Seen(s, bs) \o Seen(t, bs)
    BY <2>1, SeenConcat
  <2>6. s \o t \in Seq(PointOf)
    BY <2>1, ConcatProperties
  <2> QED
    BY <1>6, <2>2, <2>3, <2>4, <2>5, <2>6 DEF NextSeen
<1> QED
  BY <1>5, <1>6

\* Sequences appended one after the other.
Appends(g, q, N) == \A i \in 1 .. N : g[i] = IF i = 1 THEN q[i] ELSE g[i - 1] \o q[i]

LEMMA Appended ==
  ASSUME NEW T, NEW N \in Nat, NEW q \in [1 .. N -> Seq(T)], NEW g, Appends(g, q, N)
  PROVE  \A n \in 1 .. N : /\ g[n] \in Seq(T)
                           /\ \A k \in 1 .. n : /\ Len(g[k]) <= Len(g[n])
                                                /\ \A i \in 1 .. Len(g[k]) : g[k][i] = g[n][i]
<1> DEFINE Good(n) == /\ g[n] \in Seq(T)
                      /\ \A k \in 1 .. n : /\ g[k] \in Seq(T) /\ Len(g[k]) <= Len(g[n])
                                           /\ \A i \in 1 .. Len(g[k]) : g[k][i] = g[n][i]
           S == {n \in Nat : n \in 1 .. N => Good(n)}
<1>0. \A i \in 1 .. N : q[i] \in Seq(T) /\ g[i] = IF i = 1 THEN q[i] ELSE g[i - 1] \o q[i]
  BY DEF Appends
<1>1. 0 \in S
  OBVIOUS
<1>2. ASSUME NEW n \in Nat, n \in S PROVE n + 1 \in S
  <2>1. CASE n = 0 /\ n + 1 \in 1 .. N
    <3>1. g[1] \in Seq(T) /\ \A k \in 1 .. 1 : k = 1
      BY <1>0, <2>1
    <3>2. Len(g[1]) <= Len(g[1])
      BY <3>1
    <3> QED
      BY <2>1, <3>1, <3>2
  <2>2. CASE n # 0 /\ n + 1 \in 1 .. N
    <3>1. n \in 1 .. N /\ Good(n) /\ (n + 1) - 1 = n /\ n + 1 # 1
      BY <1>2, <2>2
    <3> DEFINE u == g[n]
               w == q[n + 1]
               v == g[n + 1]
    <3>2. u \in Seq(T) /\ w \in Seq(T) /\ v = u \o w
      BY <1>0, <2>2, <3>1
    <3> HIDE DEF u, w, v
    <3>3. /\ v \in Seq(T) /\ Len(v) = Len(u) + Len(w) /\ Len(u) \in Nat /\ Len(w) \in Nat
          /\ \A i \in 1 .. Len(u) + Len(w) : v[i] = IF i <= Len(u) THEN u[i] ELSE w[i - Len(u)]
      BY <3>2, ConcatProperties, LenProperties
    <3>4. Len(u) <= Len(v) /\ \A i \in 1 .. Len(u) : v[i] = u[i]
      BY <3>3
    <3>5. ASSUME NEW k \in 1 .. n + 1
          PROVE  /\ g[k] \in Seq(T) /\ Len(g[k]) <= Len(v)
                 /\ \A i \in 1 .. Len(g[k]) : g[k][i] = v[i]
      <4>1. CASE k = n + 1
        BY <3>3, <4>1 DEF v
      <4>2. CASE k # n + 1
        <5>1. k \in 1 .. n
          BY <4>2
        <5>2. /\ g[k] \in Seq(T) /\ Len(g[k]) <= Len(u) /\ Len(g[k]) \in Nat
              /\ \A i \in 1 .. Len(g[k]) : g[k][i] = u[i]
          BY <3>1, <5>1, LenProperties DEF u
        <5>3. \A i \in 1 .. Len(g[k]) : i \in 1 .. Len(u)
          BY <3>3, <5>2
        <5> QED
          BY <3>3, <3>4, <5>2, <5>3
      <4> QED
        BY <4>1, <4>2
    <3> QED
      BY <3>3, <3>5 DEF v
  <2>3. CASE n + 1 \notin 1 .. N
    BY <2>3
  <2> QED
    BY <2>1, <2>2, <2>3
<1> HIDE DEF S
<1>3. Nat \subseteq S
  BY <1>1, <1>2, InductionOverNat
<1>4. ASSUME NEW n \in 1 .. N PROVE Good(n)
  <2>1. n \in Nat
    OBVIOUS
  <2> QED
    BY <1>3, <2>1 DEF S
<1> QED
  BY <1>4

\* What is seen of a channel up to the end of each block.
IsPath(f, bs) ==
  \A i \in 1 .. Len(bs) :
    /\ f[i] \in Seq(Sight)
    /\ f[i] = IF i = 1 THEN FirstSeen(bs[i]) ELSE f[i - 1] \o NextSeen(bs[i])

LEMMA PathExists ==
  ASSUME NEW bs \in Seq(Block), bs # <<>>
  PROVE  \E f : /\ IsPath(f, bs)
                /\ \A t : Timing!ValuesAt(Points(bs), bs, t)
                            = SeenAt(f[Len(bs)] \o EndSeen(bs[Len(bs)]), t)
<1> DEFINE N == Len(bs)
           q == [i \in 1 .. N |-> PointsOf(bs[i], i)]
<1>1. N \in Nat \ {0} /\ \A i \in 1 .. N : bs[i] \in Block
  OBVIOUS
<1>2. \A i \in 1 .. N : /\ PointsOf(bs[i], i) \in Seq(PointOf)
                        /\ Seen(PointsOf(bs[i], i), bs) = IF i = 1 THEN FirstSeen(bs[i])
                                                                   ELSE NextSeen(bs[i])
  BY PointsOfSeen
<1>3. Points(bs) = FlattenSeq(q) \o <<Timing!Point(End(bs[N]), TRUE, N)>>
  BY PointsAre
<1> HIDE DEF N
<1>4. q \in Seq(Seq(PointOf)) /\ Len(q) = N
  <2>1. q \in [1 .. N -> Seq(PointOf)]
    BY <1>2
  <2> QED
    BY <1>1, <2>1, FunctionIsSeq
<1>5. PICK g : /\ g = [i \in 1 .. Len(q) |-> IF i = 1 THEN q[i] ELSE g[i - 1] \o q[i]]
               /\ FlattenSeq(q) = g[Len(q)]
  BY <1>1, <1>4, FlattenIs
<1>6. \A i \in 1 .. N : /\ q[i] = PointsOf(bs[i], i) /\ q[i] \in Seq(PointOf)
                        /\ g[i] = IF i = 1 THEN q[i] ELSE g[i - 1] \o q[i]
  BY <1>2, <1>4, <1>5
<1> HIDE DEF q
<1>7. \A i \in 1 .. N : g[i] \in Seq(PointOf)
  <2>1. q \in [1 .. N -> Seq(PointOf)] /\ N \in Nat
    BY <1>1, <1>4
  <2>2. Appends(g, q, N)
    BY <1>6 DEF Appends
  <2> QED
    BY <2>1, <2>2, Appended
<1> DEFINE f == [i \in 1 .. N |-> Seen(g[i], bs)]
<1>8. ASSUME NEW i \in 1 .. N
      PROVE  f[i] = IF i = 1 THEN FirstSeen(bs[i]) ELSE f[i - 1] \o NextSeen(bs[i])
  <2>1. CASE i = 1
    BY <1>2, <1>6, <2>1
  <2>2. CASE i # 1
    <3>1. i - 1 \in 1 .. N
      BY <1>1, <2>2
    <3>2. g[i] = g[i - 1] \o q[i] /\ g[i - 1] \in Seq(PointOf) /\ q[i] \in Seq(PointOf)
      BY <1>6, <1>7, <2>2, <3>1
    <3>3. Seen(g[i], bs) = Seen(g[i - 1], bs) \o Seen(q[i], bs)
      <4>1. Seen(g[i - 1] \o q[i], bs) = Seen(g[i - 1], bs) \o Seen(q[i], bs)
        BY <3>2, SeenConcat
      <4> QED
        BY <3>2, <4>1
    <3>4. Seen(q[i], bs) = NextSeen(bs[i])
      BY <1>2, <1>6, <2>2
    <3> QED
      BY <2>2, <3>1, <3>3, <3>4
  <2> QED
    BY <2>1, <2>2
<1> HIDE DEF f
<1>9. \A i \in 1 .. N : f[i] \in Seq(Sight)
  <2> DEFINE r == [i \in 1 .. N |-> IF i = 1 THEN FirstSeen(bs[i]) ELSE NextSeen(bs[i])]
  <2>1. r \in [1 .. N -> Seq(Sight)] /\ N \in Nat
    BY <1>1, SeenAreSights
  <2>2. Appends(f, r, N)
    BY <1>8 DEF Appends
  <2> HIDE DEF r
  <2> QED
    BY <2>1, <2>2, Appended
<1>10. IsPath(f, bs)
  BY <1>8, <1>9 DEF IsPath, N
<1>11. ASSUME NEW t
       PROVE  Timing!ValuesAt(Points(bs), bs, t) = SeenAt(f[N] \o EndSeen(bs[N]), t)
  <2> DEFINE e == <<Timing!Point(End(bs[N]), TRUE, N)>>
  <2>1. N \in 1 .. N /\ bs[N] \in Block /\ N \in Nat /\ End(bs[N]) \in Int
    BY <1>1, BlockTimesAre
  <2>2. Timing!Point(End(bs[N]), TRUE, N) \in PointOf
    BY <2>1 DEF PointOf, Timing!Point
  <2>3. e \in Seq(PointOf)
    BY <2>2, FewInSeq
  <2>4. Seen(e, bs) = EndSeen(bs[N])
    <3> DEFINE x == Timing!Point(End(bs[N]), TRUE, N)
    <3>1. x.time = End(bs[N]) /\ x.zero = TRUE /\ x.of = N
      BY DEF Timing!Point
    <3> HIDE DEF x
    <3>2. Seen(<<x>>, bs) = <<See(x.time, x.zero, bs[x.of].v)>>
      BY SeenFew
    <3>3. Seen(<<x>>, bs) = <<See(End(bs[N]), TRUE, bs[N].v)>>
      BY <3>1, <3>2
    <3> QED
      BY <3>3 DEF x, EndSeen
  <2> HIDE DEF e
  <2>5. Points(bs) = g[N] \o e /\ g[N] \in Seq(PointOf)
    BY <1>3, <1>4, <1>5, <1>7, <2>1 DEF e
  <2>6. Points(bs) \in Seq(PointOf)
    BY <2>3, <2>5, ConcatProperties
  <2>7. Seen(Points(bs), bs) = Seen(g[N], bs) \o Seen(e, bs)
    <3>1. Seen(g[N] \o e, bs) = Seen(g[N], bs) \o Seen(e, bs)
      BY <2>3, <2>5, SeenConcat
    <3> QED
      BY <2>5, <3>1
  <2>8. Seen(g[N], bs) = f[N]
    BY <2>1 DEF f
  <2> QED
    BY <2>4, <2>6, <2>7, <2>8, ValuesAreSeen
<1> QED
  BY <1>10, <1>11 DEF N

-----------------------------------------------------------------------------
\* u has one more point than s, on the way from the second to the third, which
\* have one value.
Widened(u, s) ==
  /\ Len(s) >= 3 /\ Len(u) = Len(s) + 1
  /\ u[1] = s[1] /\ u[2] = s[2] /\ \A i \in 3 .. Len(s) : u[i + 1] = s[i]
  /\ s[1].zero /\ ~s[2].zero /\ ~s[3].zero /\ ~u[3].zero
  /\ u[3].v = s[2].v /\ s[3].v = s[2].v
  /\ s[2].time <= u[3].time /\ u[3].time <= s[3].time

Alike(u, s) == u = s \/ Widened(u, s)

LEMMA AlikeConcat ==
  ASSUME NEW u \in Seq(Sight), NEW s \in Seq(Sight), NEW w \in Seq(Sight), Alike(u, s)
  PROVE  Alike(u \o w, s \o w)
<1> SUFFICES ASSUME Widened(u, s) PROVE Widened(u \o w, s \o w)
  BY DEF Alike
<1> DEFINE k == Len(s)
           l == Len(u)
           n == Len(w)
<1>1. k \in Nat /\ k >= 3 /\ l = k + 1 /\ n \in Nat
  BY LenProperties DEF Widened
<1>2. /\ Len(u \o w) = l + n /\ Len(s \o w) = k + n
      /\ \A i \in 1 .. l + n : (u \o w)[i] = IF i <= l THEN u[i] ELSE w[i - l]
      /\ \A i \in 1 .. k + n : (s \o w)[i] = IF i <= k THEN s[i] ELSE w[i - k]
  BY ConcatProperties
<1>3. \A i \in 3 .. k : u[i + 1] = s[i]
  BY DEF Widened
<1> HIDE DEF k, l, n
<1>4. /\ (u \o w)[1] = u[1] /\ (u \o w)[2] = u[2] /\ (u \o w)[3] = u[3]
      /\ (s \o w)[1] = s[1] /\ (s \o w)[2] = s[2] /\ (s \o w)[3] = s[3]
  <2>1. \A i \in 1 .. 3 : i \in 1 .. l + n /\ i <= l /\ i \in 1 .. k + n /\ i <= k
    BY <1>1
  <2>2. \A i \in 1 .. 3 : (u \o w)[i] = u[i] /\ (s \o w)[i] = s[i]
    BY <1>2, <2>1
  <2>3. 1 \in 1 .. 3 /\ 2 \in 1 .. 3 /\ 3 \in 1 .. 3
    OBVIOUS
  <2> QED
    BY <2>2, <2>3
<1>5. ASSUME NEW i \in 3 .. k + n PROVE (u \o w)[i + 1] = (s \o w)[i]
  <2>1. i + 1 \in 1 .. l + n /\ i \in 1 .. k + n
    BY <1>1
  <2>2. CASE i <= k
    <3>1. i \in 3 .. k /\ i + 1 <= l
      BY <1>1, <2>2
    <3> QED
      BY <1>2, <1>3, <2>1, <2>2, <3>1
  <2>3. CASE ~ (i <= k)
    <3>1. ~ (i + 1 <= l) /\ (i + 1) - l = i - k
      BY <1>1, <2>3
    <3> QED
      BY <1>2, <2>1, <2>3, <3>1
  <2> QED
    BY <2>2, <2>3
<1>6. Len(s \o w) >= 3 /\ Len(u \o w) = Len(s \o w) + 1
  BY <1>1, <1>2
<1> QED
  BY <1>2, <1>4, <1>5, <1>6 DEF Widened

LEMMA FlatBetween ==
  ASSUME NEW p \in Sight, NEW q \in Sight, ~p.zero, ~q.zero, p.v = q.v, p.time <= q.time, NEW t \in Int
  PROVE  Between(p, q, t) = IF p.time <= t /\ t <= q.time THEN {p.v} ELSE {}
<1>1. p.time \in Int /\ q.time \in Int /\ p.v \in Int /\ q.v \in Int
  BY DEF Sight
<1>2. CASE ~ (p.time <= t /\ t <= q.time)
  BY <1>1, <1>2 DEF Between
<1>3. CASE p.time <= t /\ t <= q.time /\ p.time = q.time
  BY <1>1, <1>3 DEF Between
<1>4. CASE p.time <= t /\ t <= q.time /\ p.time # q.time
  <2>1. (q.v - p.v) * (t - p.time) = 0
    <3>1. q.v - p.v = 0 /\ t - p.time \in Int
      BY <1>1
    <3>2. \A x \in Int : 0 * x = 0
      OBVIOUS
    <3> QED
      BY <3>1, <3>2
  <2>2. PICK y \in Int : y = q.time - p.time /\ y > 0
    BY <1>1, <1>4
  <2>3. 0 \div y = 0
    BY <2>2
  <2>4. p.v + ((q.v - p.v) * (t - p.time)) \div (q.time - p.time) = p.v
    BY <1>1, <2>1, <2>2, <2>3
  <2> QED
    BY <1>1, <1>4, <2>4 DEF Between
<1> QED
  BY <1>2, <1>3, <1>4

LEMMA AlikeSeen ==
  ASSUME NEW u \in Seq(Sight), NEW s \in Seq(Sight), Alike(u, s), NEW t \in Int
  PROVE  SeenAt(u, t) = SeenAt(s, t)
<1> SUFFICES ASSUME Widened(u, s) PROVE SeenAt(u, t) = SeenAt(s, t)
  BY DEF Alike
<1> DEFINE k == Len(s)
           A(i) == Between(s[i], s[i + 1], t)
           B(i) == Between(u[i], u[i + 1], t)
<1>1. k \in Nat /\ k >= 3 /\ Len(u) = k + 1
  BY LenProperties DEF Widened
<1>2. /\ u[1] = s[1] /\ u[2] = s[2] /\ \A i \in 3 .. k : u[i + 1] = s[i]
      /\ s[1].zero /\ ~s[2].zero /\ ~s[3].zero /\ ~u[3].zero
      /\ u[3].v = s[2].v /\ s[3].v = s[2].v
      /\ s[2].time <= u[3].time /\ u[3].time <= s[3].time
  BY DEF Widened
<1>3. s[2] \in Sight /\ s[3] \in Sight /\ u[3] \in Sight
  BY <1>1, ElementOfSeq
<1>4. SeenAt(s, t) = UNION {A(i) : i \in 1 .. k - 1} /\ SeenAt(u, t) = UNION {B(i) : i \in 1 .. k}
  BY <1>1 DEF SeenAt
<1>5. u[4] = s[3]
  <2>1. 3 \in 3 .. k
    BY <1>1
  <2> QED
    BY <1>2, <2>1
<1>6. A(1) = {} /\ B(1) = {}
  BY <1>2 DEF Between
<1>7. B(2) \cup B(3) = A(2)
  <2>2. s[2].time \in Int /\ s[3].time \in Int /\ u[3].time \in Int
    <3>1. \A x \in Sight : x.time \in Int
      BY DEF Sight
    <3> QED
      BY <1>3, <3>1
  <2>1. /\ Between(s[2], s[3], t) = IF s[2].time <= t /\ t <= s[3].time THEN {s[2].v} ELSE {}
        /\ Between(s[2], u[3], t) = IF s[2].time <= t /\ t <= u[3].time THEN {s[2].v} ELSE {}
        /\ Between(u[3], s[3], t) = IF u[3].time <= t /\ t <= s[3].time THEN {u[3].v} ELSE {}
    <3>1. s[2].time <= s[3].time
      BY <1>2, <2>2
    <3> QED
      BY <1>2, <1>3, <3>1, FlatBetween
  <2>3. A(2) = Between(s[2], s[3], t) /\ B(2) = Between(s[2], u[3], t) /\ B(3) = Between(u[3], s[3], t)
    BY <1>2, <1>5
  <2> QED
    BY <1>2, <2>1, <2>2, <2>3
<1>8. \A i \in 3 .. k - 1 : B(i + 1) = A(i)
  <2> SUFFICES ASSUME NEW i \in 3 .. k - 1 PROVE B(i + 1) = A(i)
    OBVIOUS
  <2>1. i \in 3 .. k /\ i + 1 \in 3 .. k
    BY <1>1
  <2> QED
    BY <1>2, <2>1
<1> HIDE DEF A, B, k
<1>9. ASSUME NEW x \in SeenAt(u, t) PROVE x \in SeenAt(s, t)
  <2>1. PICK i \in 1 .. k : x \in B(i)
    BY <1>4
  <2>2. CASE i <= 3
    <3>1. x \in A(2) /\ 2 \in 1 .. k - 1
      <4>1. i = 1 \/ i = 2 \/ i = 3
        BY <2>2
      <4> QED
        BY <1>1, <1>6, <1>7, <2>1, <4>1
    <3> QED
      BY <1>4, <3>1
  <2>3. CASE i > 3
    <3>1. i - 1 \in 3 .. k - 1 /\ i - 1 \in 1 .. k - 1 /\ (i - 1) + 1 = i
      BY <1>1, <2>3
    <3>2. x \in A(i - 1)
      BY <1>8, <2>1, <3>1
    <3> QED
      BY <1>4, <3>1, <3>2
  <2> QED
    BY <2>2, <2>3
<1>10. ASSUME NEW x \in SeenAt(s, t) PROVE x \in SeenAt(u, t)
  <2>1. PICK i \in 1 .. k - 1 : x \in A(i)
    BY <1>4
  <2>2. CASE i <= 2
    <3>1. (x \in B(2) \/ x \in B(3)) /\ 2 \in 1 .. k /\ 3 \in 1 .. k
      <4>1. i = 1 \/ i = 2
        BY <2>2
      <4> QED
        BY <1>1, <1>6, <1>7, <2>1, <4>1
    <3> QED
      BY <1>4, <3>1
  <2>3. CASE i > 2
    <3>1. i \in 3 .. k - 1 /\ i + 1 \in 1 .. k
      BY <1>1, <2>3
    <3>2. x \in B(i + 1)
      BY <1>8, <2>1, <3>1
    <3> QED
      BY <1>4, <3>1, <3>2
  <2> QED
    BY <2>2, <2>3
<1> QED
  BY <1>9, <1>10

-----------------------------------------------------------------------------
\* What WithoutJump() makes of a block.
Plain(b) == [b EXCEPT !.jump = FALSE, !.interp = 0]

LEMMA PlainSeen ==
  ASSUME NEW b \in Block
  PROVE  /\ Plain(b) \in Block /\ FirstSeen(Plain(b)) = FirstSeen(b)
         /\ EndSeen(Plain(b)) = EndSeen(b)
         /\ NextSeen(Plain(b)) = <<See(End(b), FALSE, b.v)>>
<1> DEFINE c == Plain(b)
<1>1. /\ c \in Block /\ c.rtime = b.rtime /\ c.dur = b.dur /\ c.v = b.v /\ c.jump = FALSE
  BY DEF Plain, Block
<1> HIDE DEF c
<1>2. End(c) = End(b) /\ End(b) \in Int
  BY <1>1, BlockTimesAre DEF End
<1>3. ~ (TurnsAt(c) < End(c))
  BY <1>1, <1>2 DEF TurnsAt
<1>4. FirstSeen(c) = FirstSeen(b) /\ EndSeen(c) = EndSeen(b)
  BY <1>1, <1>2 DEF FirstSeen, EndSeen
<1>5. NextSeen(c) = <<>> \o <<See(End(b), FALSE, b.v)>>
  BY <1>1, <1>2, <1>3 DEF NextSeen
<1>6. <<See(End(b), FALSE, b.v)>> \in Seq({See(End(b), FALSE, b.v)})
  BY FewInSeq
<1>7. NextSeen(c) = <<See(End(b), FALSE, b.v)>>
  BY <1>5, <1>6, ConcatEmptySeq
<1> QED
  BY <1>1, <1>4, <1>7 DEF c

\* A block that is not split ends where it turns; of one that is, the first
\* piece ends where the block turns and the second where it ends.
LEMMA WholeSeen ==
  ASSUME NEW b \in Block, b.interp <= b.dur, ~ShouldBeSplit(b)
  PROVE  SplitJump(b) = <<b>> /\ NextSeen(Plain(b)) = NextSeen(b)
<1>1. SplitJump(b) = <<b>>
  BY DEF SplitJump
<1>2. b.rtime \in Int /\ b.dur \in Nat /\ End(b) = b.rtime + b.dur
  BY BlockTimesAre
<1>3. ~ (TurnsAt(b) < End(b))
  BY <1>2 DEF TurnsAt, ShouldBeSplit
<1>4. NextSeen(b) = <<>> \o <<See(End(b), FALSE, b.v)>>
  BY <1>3 DEF NextSeen
<1>5. <<See(End(b), FALSE, b.v)>> \in Seq({See(End(b), FALSE, b.v)})
  BY FewInSeq
<1>6. NextSeen(b) = <<See(End(b), FALSE, b.v)>>
  BY <1>4, <1>5, ConcatEmptySeq
<1> QED
  BY <1>1, <1>6, PlainSeen

LEMMA PiecesSeen ==
  ASSUME NEW b \in Block, b.interp <= b.dur, ShouldBeSplit(b)
  PROVE  \E c, e \in Block :
           /\ SplitJump(b) = <<c, e>>
           /\ c.rtime = b.rtime /\ c.v = b.v
           /\ b.rtime <= End(c) /\ End(c) <= End(b)
           /\ NextSeen(b) = NextSeen(Plain(c)) \o NextSeen(Plain(e))
           /\ NextSeen(Plain(e)) = <<See(End(b), FALSE, b.v)>>
           /\ EndSeen(Plain(e)) = EndSeen(b)
<1>1. /\ b.rtime \in Int /\ b.dur \in Nat /\ b.interp \in Nat /\ End(b) = b.rtime + b.dur
      /\ b.jump /\ b.interp < b.dur
  BY BlockTimesAre DEF Block, ShouldBeSplit
<1>2. PICK i \in Nat : i = b.interp
  BY <1>1
<1>3. PICK r \in Int : r = b.rtime + b.interp
  BY <1>1
<1>4. PICK d \in Nat : d = b.dur - b.interp
  BY <1>1
<1> DEFINE c == [b EXCEPT !.dur = i]
           e == [b EXCEPT !.rtime = r, !.dur = d]
<1>5. SplitJump(b) = <<c, e>>
  BY <1>2, <1>3, <1>4 DEF SplitJump
<1>6. c \in Block /\ e \in Block
  BY DEF Block
<1>7. /\ c.rtime = b.rtime /\ c.dur = i /\ c.v = b.v
      /\ e.rtime = r /\ e.dur = d /\ e.v = b.v
  BY DEF Block
<1> HIDE DEF c, e
<1>8. End(c) = r /\ End(e) = End(b) /\ TurnsAt(b) = r
  BY <1>1, <1>2, <1>3, <1>4, <1>7 DEF End, TurnsAt
<1>9. b.rtime <= r /\ r < End(b)
  BY <1>1, <1>3
<1>10. /\ NextSeen(Plain(c)) = <<See(r, FALSE, b.v)>>
       /\ NextSeen(Plain(e)) = <<See(End(b), FALSE, b.v)>>
       /\ EndSeen(Plain(e)) = EndSeen(b)
  BY <1>6, <1>7, <1>8, PlainSeen DEF EndSeen
<1>11. NextSeen(b) = <<See(r, FALSE, b.v)>> \o <<See(End(b), FALSE, b.v)>>
  BY <1>8, <1>9 DEF NextSeen
<1>12. r <= End(b)
  BY <1>1, <1>9
<1> QED
  BY <1>5, <1>6, <1>7, <1>8, <1>9, <1>10, <1>11, <1>12

\* A first block that is split is seen with a point more.
LEMMA FirstWidened ==
  ASSUME NEW b \in Block, NEW c \in Block, NEW e \in Block,
         c.rtime = b.rtime, c.v = b.v, b.rtime <= End(c), End(c) <= End(b),
         NextSeen(Plain(e)) = <<See(End(b), FALSE, b.v)>>
  PROVE  Widened(FirstSeen(Plain(c)) \o NextSeen(Plain(e)), FirstSeen(b))
<1> DEFINE s == FirstSeen(b)
           a == FirstSeen(c)
           w == <<See(End(b), FALSE, b.v)>>
<1>1. s \in Seq(Sight) /\ a \in Seq(Sight) /\ FirstSeen(Plain(c)) = a
  BY SeenAreSights, PlainSeen
<1>2. /\ Len(s) = 3 /\ s[1] = See(b.rtime, TRUE, b.v) /\ s[2] = See(b.rtime, FALSE, b.v)
      /\ s[3] = See(End(b), FALSE, b.v)
  BY DEF FirstSeen
<1>3. /\ Len(a) = 3 /\ a[1] = See(b.rtime, TRUE, b.v) /\ a[2] = See(b.rtime, FALSE, b.v)
      /\ a[3] = See(End(c), FALSE, b.v)
  BY DEF FirstSeen
<1>4. w \in Seq(Sight) /\ Len(w) = 1 /\ w[1] = See(End(b), FALSE, b.v)
  <2>1. NextSeen(Plain(b)) = w /\ Plain(b) \in Block
    BY PlainSeen
  <2>2. w \in Seq(Sight)
    BY <2>1, SeenAreSights
  <2> QED
    BY <2>2
<1> HIDE DEF s, a, w
<1>5. /\ Len(a \o w) = 4
      /\ \A i \in 1 .. 4 : (a \o w)[i] = IF i <= 3 THEN a[i] ELSE w[i - 3]
  <2>1. /\ Len(a \o w) = Len(a) + Len(w)
        /\ \A i \in 1 .. Len(a) + Len(w) :
             (a \o w)[i] = IF i <= Len(a) THEN a[i] ELSE w[i - Len(a)]
    BY <1>1, <1>4, ConcatProperties
  <2>2. Len(a) = 3 /\ Len(w) = 1 /\ 3 + 1 = 4
    BY <1>3, <1>4
  <2> QED
    BY <2>1, <2>2
<1>6. (a \o w)[1] = s[1] /\ (a \o w)[2] = s[2] /\ (a \o w)[3] = a[3] /\ (a \o w)[4] = s[3]
  <2>1. /\ (a \o w)[1] = a[1] /\ (a \o w)[2] = a[2] /\ (a \o w)[3] = a[3]
        /\ (a \o w)[4] = w[1]
    BY <1>5
  <2> QED
    BY <1>2, <1>3, <1>4, <2>1
<1>7. \A i \in 3 .. 3 : i = 3 /\ i + 1 = 4
  OBVIOUS
<1>8. Widened(a \o w, s)
  <2> DEFINE u == a \o w
  <2>1. /\ s[1].zero /\ ~s[2].zero /\ ~s[3].zero /\ ~u[3].zero
        /\ u[3].v = s[2].v /\ s[3].v = s[2].v
        /\ s[2].time <= u[3].time /\ u[3].time <= s[3].time
    BY <1>2, <1>3, <1>6 DEF See
  <2>2. Len(s) >= 3 /\ Len(u) = Len(s) + 1
    BY <1>2, <1>5
  <2>3. u[1] = s[1] /\ u[2] = s[2] /\ u[4] = s[3]
    BY <1>6
  <2>4. \A i \in 3 .. Len(s) : u[i + 1] = s[i]
    BY <1>2, <1>7, <2>3
  <2> HIDE DEF u
  <2>5. Widened(u, s)
    BY <2>1, <2>2, <2>3, <2>4 DEF Widened
  <2> QED
    BY <2>5 DEF u
<1> QED
  BY <1>1, <1>8 DEF s, w

\* The pieces gathered up to a block go on with those of the later blocks.
Begins(u, v) == Len(u) <= Len(v) /\ \A i \in 1 .. Len(u) : v[i] = u[i]

LEMMA AppendedBegins ==
  ASSUME NEW T, NEW N \in Nat, NEW q \in [1 .. N -> Seq(T)], NEW g, Appends(g, q, N),
         NEW n \in 1 .. N, NEW k \in 1 .. n
  PROVE  Begins(g[k], g[n])
<1>1. /\ Len(g[k]) <= Len(g[n])
      /\ \A i \in 1 .. Len(g[k]) : g[k][i] = g[n][i]
  BY Appended
<1> QED
  BY <1>1 DEF Begins

LEMMA AppendedSeq ==
  ASSUME NEW T, NEW N \in Nat, NEW q \in [1 .. N -> Seq(T)], NEW g, Appends(g, q, N),
         NEW n \in 1 .. N
  PROVE  g[n] \in Seq(T)
BY Appended

LEMMA SightsAssociate ==
  ASSUME NEW x \in Seq(Sight), NEW y \in Seq(Sight), NEW z \in Seq(Sight)
  PROVE  (x \o y) \o z = x \o (y \o z)
<1> DEFINE W == Sight
<1>1. x \in Seq(W) /\ y \in Seq(W) /\ z \in Seq(W)
  OBVIOUS
<1> HIDE DEF W
<1> QED
  BY <1>1, ConcatAssociative

\* The path of the pieces, with nothing left of jumpPosition, and the path of
\* the blocks, after each block.
LEMMA PathOfPieces ==
  ASSUME NEW bs \in Seq(Block), bs # <<>>, \A i \in 1 .. Len(bs) : bs[i].interp <= bs[i].dur,
         NEW h, Appends(h, [i \in 1 .. Len(bs) |-> SplitJump(bs[i])], Len(bs)),
         NEW after \in Seq(Block), Len(after) = Len(h[Len(bs)]),
         \A j \in 1 .. Len(after) : after[j] = Plain(h[Len(bs)][j]),
         NEW f, IsPath(f, bs), NEW g, IsPath(g, after)
  PROVE  /\ Len(after) \in Nat \ {0}
         /\ Alike(g[Len(after)], f[Len(bs)])
         /\ EndSeen(after[Len(after)]) = EndSeen(bs[Len(bs)])
<1> DEFINE N == Len(bs)
           M == Len(after)
           q == [i \in 1 .. N |-> SplitJump(bs[i])]
<1>1. N \in Nat \ {0} /\ M \in Nat /\ \A i \in 1 .. N : bs[i] \in Block /\ bs[i].interp <= bs[i].dur
  OBVIOUS
<1>2. \A i \in 1 .. N : q[i] = SplitJump(bs[i]) /\ q[i] \in Seq(Block)
  BY <1>1, SplitJumpSpans
<1>3. Appends(h, q, N) /\ M = Len(h[N]) /\ \A j \in 1 .. M : after[j] = Plain(h[N][j])
  OBVIOUS
<1>4. \A i \in 1 .. N : /\ f[i] \in Seq(Sight)
                        /\ f[i] = IF i = 1 THEN FirstSeen(bs[i]) ELSE f[i - 1] \o NextSeen(bs[i])
  BY DEF IsPath
<1>5. \A i \in 1 .. M :
        /\ g[i] \in Seq(Sight)
        /\ g[i] = IF i = 1 THEN FirstSeen(after[i]) ELSE g[i - 1] \o NextSeen(after[i])
  BY DEF IsPath
<1> HIDE DEF N, M, q
<1>6. \A n \in 1 .. N : /\ h[n] \in Seq(Block)
                        /\ \A k \in 1 .. n : /\ Len(h[k]) <= Len(h[n])
                                             /\ \A i \in 1 .. Len(h[k]) : h[k][i] = h[n][i]
  <2>1. q \in [1 .. N -> Seq(Block)]
    BY <1>2 DEF q
  <2>2. N \in Nat /\ Appends(h, q, N)
    BY <1>1, <1>3
  <2>3. \A n \in 1 .. N : h[n] \in Seq(Block)
    BY <2>1, <2>2, AppendedSeq
  <2>4. ASSUME NEW n \in 1 .. N, NEW k \in 1 .. n PROVE Begins(h[k], h[n])
    BY <2>1, <2>2, AppendedBegins
  <2> QED
    BY <2>3, <2>4 DEF Begins
<1>7. \A i \in 1 .. N : h[i] = IF i = 1 THEN q[i] ELSE h[i - 1] \o q[i]
  BY <1>3 DEF Appends
<1>8. ASSUME NEW n \in 1 .. N
      PROVE  /\ h[n] \in Seq(Block) /\ Len(h[n]) \in Nat /\ Len(h[n]) <= M
             /\ \A j \in 1 .. Len(h[n]) : j \in 1 .. M /\ after[j] = Plain(h[n][j])
  <2>1. N \in 1 .. N /\ n \in 1 .. N
    BY <1>1
  <2>2. h[n] \in Seq(Block) /\ Len(h[n]) <= M /\ \A j \in 1 .. Len(h[n]) : h[n][j] = h[N][j]
    BY <1>3, <1>6, <2>1
  <2>3. Len(h[n]) \in Nat
    BY <2>2, LenProperties
  <2>4. \A j \in 1 .. Len(h[n]) : j \in 1 .. M
    BY <1>1, <2>2, <2>3
  <2> QED
    BY <1>3, <2>2, <2>3, <2>4
<1> DEFINE C(n) == LET m == Len(h[n]) IN
                   /\ m \in 1 .. M /\ Alike(g[m], f[n]) /\ EndSeen(after[m]) = EndSeen(bs[n])
           S == {n \in Nat : n \in 1 .. N => C(n)}
<1>9. 0 \in S
  OBVIOUS
<1>10. ASSUME NEW n \in Nat, n \in S PROVE n + 1 \in S
  <2> SUFFICES ASSUME n + 1 \in 1 .. N PROVE C(n + 1)
    OBVIOUS
  <2> DEFINE b == bs[n + 1]
             t == h[n + 1]
  <2>1. /\ b \in Block /\ b.interp <= b.dur /\ q[n + 1] = SplitJump(b)
        /\ t \in Seq(Block) /\ Len(t) \in Nat /\ Len(t) <= M
        /\ \A j \in 1 .. Len(t) : j \in 1 .. M /\ after[j] = Plain(t[j])
    BY <1>1, <1>2, <1>8
  <2>2. Plain(b) \in Block /\ FirstSeen(Plain(b)) = FirstSeen(b) /\ EndSeen(Plain(b)) = EndSeen(b)
    BY <2>1, PlainSeen
  <2>3. CASE n = 0
    <3>1. t = SplitJump(b) /\ f[1] = FirstSeen(b) /\ f[1] \in Seq(Sight) /\ n + 1 = 1
      BY <1>4, <1>7, <2>1, <2>3
    <3> HIDE DEF t
    <3>2. CASE ~ShouldBeSplit(b)
      <4>1. t = <<b>>
        BY <2>1, <3>1, <3>2, WholeSeen
      <4>2. Len(t) = 1 /\ t[1] = b
        BY <4>1
      <4>3. 1 \in 1 .. M /\ after[1] = Plain(b)
        BY <2>1, <4>2
      <4>4. g[1] = f[1]
        BY <1>5, <2>2, <3>1, <4>3
      <4>5. Alike(g[1], f[1]) /\ EndSeen(after[1]) = EndSeen(b)
        BY <2>2, <4>3, <4>4 DEF Alike
      <4> QED
        BY <3>1, <4>2, <4>3, <4>5 DEF t
    <3>3. CASE ShouldBeSplit(b)
      <4>1. PICK c \in Block, e \in Block :
              /\ SplitJump(b) = <<c, e>>
              /\ c.rtime = b.rtime /\ c.v = b.v
              /\ b.rtime <= End(c) /\ End(c) <= End(b)
              /\ NextSeen(Plain(e)) = <<See(End(b), FALSE, b.v)>>
              /\ EndSeen(Plain(e)) = EndSeen(b)
        BY <2>1, <3>3, PiecesSeen
      <4>2. t = <<c, e>>
        BY <3>1, <4>1
      <4>3. Len(t) = 2 /\ t[1] = c /\ t[2] = e
        BY <4>2
      <4>4. 1 \in 1 .. M /\ 2 \in 1 .. M /\ after[1] = Plain(c) /\ after[2] = Plain(e)
        BY <2>1, <4>3
      <4>5. g[2] = FirstSeen(Plain(c)) \o NextSeen(Plain(e))
        <5>1. g[1] = FirstSeen(after[1]) /\ g[2] = g[1] \o NextSeen(after[2])
          <6>1. 2 # 1 /\ 2 - 1 = 1
            OBVIOUS
          <6> QED
            BY <1>5, <4>4, <6>1
        <5> QED
          BY <4>4, <5>1
      <4>6. Widened(FirstSeen(Plain(c)) \o NextSeen(Plain(e)), FirstSeen(b))
        BY <2>1, <4>1, FirstWidened
      <4>7. Alike(g[2], f[1]) /\ EndSeen(after[2]) = EndSeen(b)
        BY <3>1, <4>1, <4>4, <4>5, <4>6 DEF Alike
      <4> QED
        BY <3>1, <4>3, <4>4, <4>7 DEF t
    <3> QED
      BY <3>2, <3>3
  <2>4. CASE n # 0
    <3> DEFINE m == Len(h[n])
    <3>1. n \in 1 .. N /\ n + 1 # 1 /\ (n + 1) - 1 = n
      BY <1>1, <2>4
    <3>2. /\ m \in 1 .. M /\ Alike(g[m], f[n])
      BY <1>10, <3>1
    <3>3. /\ h[n] \in Seq(Block) /\ t = h[n] \o SplitJump(b)
          /\ f[n] \in Seq(Sight) /\ f[n + 1] = f[n] \o NextSeen(b) /\ g[m] \in Seq(Sight)
      BY <1>4, <1>5, <1>7, <1>8, <2>1, <3>1, <3>2
    <3>4. NextSeen(b) \in Seq(Sight) /\ SplitJump(b) \in Seq(Block) /\ m \in Nat
      <4>1. NextSeen(b) \in Seq(Sight)
        BY <2>1, SeenAreSights
      <4>2. SplitJump(b) \in Seq(Block)
        BY <2>1, SplitJumpSpans
      <4>3. m \in Nat
        BY <1>1, <3>2
      <4> QED
        BY <4>1, <4>2, <4>3
    <3> DEFINE w == SplitJump(b)
               y == h[n]
    <3>5. /\ Len(t) = m + Len(w)
          /\ \A i \in 1 .. m + Len(w) : t[i] = IF i <= m THEN y[i] ELSE w[i - m]
      <4>1. y \in Seq(Block) /\ w \in Seq(Block) /\ t = y \o w /\ m = Len(y)
        BY <3>3, <3>4
      <4> HIDE DEF w, y, t, m
      <4>2. /\ Len(y \o w) = Len(y) + Len(w)
            /\ \A i \in 1 .. Len(y) + Len(w) :
                 (y \o w)[i] = IF i <= Len(y) THEN y[i] ELSE w[i - Len(y)]
        BY <4>1, ConcatProperties
      <4> QED
        BY <4>1, <4>2
    <3>6. Alike(g[m] \o NextSeen(b), f[n + 1])
      BY <3>2, <3>3, <3>4, AlikeConcat
    <3> HIDE DEF t, m, w, y
    <3>7. CASE ~ShouldBeSplit(b)
      <4>1. w = <<b>> /\ NextSeen(Plain(b)) = NextSeen(b)
        BY <2>1, <3>7, WholeSeen DEF w
      <4>2. Len(w) = 1 /\ w[1] = b
        BY <4>1
      <4>3. Len(t) = m + 1 /\ t[m + 1] = b
        <5>1. m + 1 \in 1 .. m + Len(w) /\ ~ (m + 1 <= m) /\ (m + 1) - m = 1
          BY <3>4, <4>2
        <5> QED
          BY <3>5, <4>2, <5>1
      <4>4. m + 1 \in 1 .. M /\ after[m + 1] = Plain(b)
        <5>1. m + 1 \in 1 .. Len(t)
          BY <3>4, <4>3
        <5> QED
          BY <2>1, <4>3, <5>1
      <4>5. g[m + 1] = g[m] \o NextSeen(b)
        <5>1. m + 1 # 1 /\ (m + 1) - 1 = m
          BY <3>2
        <5>2. g[m + 1] = g[m] \o NextSeen(after[m + 1])
          BY <1>5, <4>4, <5>1
        <5> QED
          BY <4>1, <4>4, <5>2
      <4>6. Alike(g[m + 1], f[n + 1]) /\ EndSeen(after[m + 1]) = EndSeen(b)
        BY <2>2, <3>6, <4>4, <4>5
      <4> QED
        BY <4>3, <4>4, <4>6 DEF t
    <3>8. CASE ShouldBeSplit(b)
      <4>1. PICK c \in Block, e \in Block :
              /\ SplitJump(b) = <<c, e>>
              /\ NextSeen(b) = NextSeen(Plain(c)) \o NextSeen(Plain(e))
              /\ EndSeen(Plain(e)) = EndSeen(b)
        BY <2>1, <3>8, PiecesSeen
      <4>2. w = <<c, e>>
        BY <4>1 DEF w
      <4>3. Len(w) = 2 /\ w[1] = c /\ w[2] = e
        BY <4>2
      <4>4. Len(t) = m + 2 /\ t[m + 1] = c /\ t[m + 2] = e
        <5>1. /\ m + 1 \in 1 .. m + Len(w) /\ ~ (m + 1 <= m) /\ (m + 1) - m = 1
              /\ m + 2 \in 1 .. m + Len(w) /\ ~ (m + 2 <= m) /\ (m + 2) - m = 2
          BY <3>4, <4>3
        <5> QED
          BY <3>5, <4>3, <5>1
      <4>5. /\ m + 1 \in 1 .. M /\ after[m + 1] = Plain(c)
            /\ m + 2 \in 1 .. M /\ after[m + 2] = Plain(e)
        <5>1. m + 1 \in 1 .. Len(t) /\ m + 2 \in 1 .. Len(t)
          BY <3>4, <4>4
        <5> QED
          BY <2>1, <4>4, <5>1
      <4>6. g[m + 2] = (g[m] \o NextSeen(Plain(c))) \o NextSeen(Plain(e))
        <5>1. m + 1 # 1 /\ (m + 1) - 1 = m /\ m + 2 # 1 /\ (m + 2) - 1 = m + 1
          BY <3>2
        <5>2. g[m + 1] = g[m] \o NextSeen(after[m + 1])
          BY <1>5, <4>5, <5>1
        <5>3. g[m + 2] = g[m + 1] \o NextSeen(after[m + 2])
          BY <1>5, <4>5, <5>1
        <5> QED
          BY <4>5, <5>2, <5>3
      <4>7. g[m + 2] = g[m] \o NextSeen(b)
        <5>1. NextSeen(Plain(c)) \in Seq(Sight) /\ NextSeen(Plain(e)) \in Seq(Sight)
          BY PlainSeen, SeenAreSights
        <5>2. (g[m] \o NextSeen(Plain(c))) \o NextSeen(Plain(e))
                = g[m] \o (NextSeen(Plain(c)) \o NextSeen(Plain(e)))
          BY <3>3, <5>1, SightsAssociate
        <5> QED
          BY <4>1, <4>6, <5>2
      <4>8. Alike(g[m + 2], f[n + 1]) /\ EndSeen(after[m + 2]) = EndSeen(b)
        BY <3>6, <4>1, <4>5, <4>7
      <4> QED
        BY <4>4, <4>5, <4>8 DEF t
    <3> QED
      BY <3>7, <3>8
  <2> QED
    BY <2>3, <2>4
<1> HIDE DEF S
<1>11. C(N)
  <2>1. Nat \subseteq S
    BY <1>9, <1>10, InductionOverNat
  <2>2. N \in Nat /\ N \in 1 .. N
    BY <1>1
  <2> QED
    BY <2>1, <2>2 DEF S
<1>12. Len(h[N]) = M
  BY <1>3
<1> QED
  BY <1>11, <1>12 DEF N, M

\* The renderer accepts blocks that follow each other and do not jump.
LEMMA PlainAccepted ==
  ASSUME NEW bs \in Seq(Block), NEW a, NEW b, Spans(bs, a, b),
         \A i \in 1 .. Len(bs) : bs[i].jump = FALSE
  PROVE  Accepted(bs)
<1> DEFINE N == Len(bs)
           tb == Timed(bs)
           E(i) == Timing!Extent(Timing!NoObject, tb[i])
           T(i) == Timing!Target(Timing!NoObject, tb[i])
<1>1. /\ N \in Nat /\ DOMAIN bs = 1 .. N /\ \A i \in 1 .. N : bs[i] \in Block /\ bs[i].jump = FALSE
      /\ \A i \in 2 .. N : bs[i].rtime = End(bs[i - 1])
  BY DEF Spans
<1>2. tb = [i \in 1 .. N |-> [bs[i] EXCEPT !.rtime = {@}, !.dur = {@}]]
  BY <1>1 DEF Timed
<1> HIDE DEF N, tb
<1>3. DOMAIN tb = 1 .. N /\ Len(tb) = N
  <2>1. tb \in [1 .. N -> {tb[i] : i \in 1 .. N}]
    BY <1>2
  <2> QED
    BY <1>1, <2>1, FunctionIsSeq
<1>4. \A i \in 1 .. N : /\ tb[i].rtime # {} /\ tb[i].dur # {}
                        /\ E(i).start = bs[i].rtime /\ E(i).end = {End(bs[i])}
                        /\ T(i) = End(bs[i]) /\ End(bs[i]) \in Int
  BY <1>1, <1>2, BlockTiming, BlockTimesAre
<1>5. Timing!NoObject.dur = {}
  BY DEF Timing!NoObject
<1>6. \A i \in 2 .. N : i \in 1 .. N /\ i - 1 \in 1 .. N
  BY <1>1
<1>7. \A i \in 2 .. N : \E e \in E(i - 1).end : e <= E(i).start
  <2> SUFFICES ASSUME NEW i \in 2 .. N PROVE \E e \in E(i - 1).end : e <= E(i).start
    OBVIOUS
  <2>1. E(i - 1).end = {End(bs[i - 1])} /\ E(i).start = End(bs[i - 1]) /\ End(bs[i - 1]) \in Int
    BY <1>1, <1>4, <1>6
  <2> HIDE DEF E
  <2>2. End(bs[i - 1]) <= End(bs[i - 1])
    BY <2>1
  <2> QED
    BY <2>1, <2>2
<1>8. \A i \in 2 .. N : \E e \in E(i).end : T(i) <= e
  <2> SUFFICES ASSUME NEW i \in 2 .. N PROVE \E e \in E(i).end : T(i) <= e
    OBVIOUS
  <2>1. E(i).end = {End(bs[i])} /\ T(i) = End(bs[i]) /\ End(bs[i]) \in Int
    BY <1>4, <1>6
  <2> HIDE DEF E, T
  <2>2. End(bs[i]) <= End(bs[i])
    BY <2>1
  <2> QED
    BY <2>1, <2>2
<1>9. Timing!TimingOK(Timing!NoObject, tb)
  <2>1. \A i \in DOMAIN tb : /\ tb[i].rtime = {} <=> tb[i].dur = {}
                             /\ Timing!WithinObject(Timing!NoObject, tb[i])
    BY <1>3, <1>4, <1>5 DEF Timing!WithinObject
  <2> QED
    BY <1>3, <1>7, <2>1 DEF Timing!TimingOK
<1> QED
  BY <1>3, <1>8, <1>9 DEF Accepted, Timing!ObjectTimingOK, tb

\* What remove_jump_position makes of a channel.
JumpsRemoved(bs) ==
  WithoutJump(IF Len(bs) > 1 THEN FlattenSeq([i \in DOMAIN bs |-> SplitJump(bs[i])]) ELSE bs)

SamePath(os, bs) ==
  /\ Accepted(bs)
  /\ \A t \in Times(os) : Timing!ValuesAt(Points(bs), bs, t) = Timing!ValuesAt(Points(os), os, t)

LEMMA RemovalKeepsPath ==
  ASSUME original \in Inputs
  PROVE  SamePath(original, JumpsRemoved(original))
<1> DEFINE bs == original
           N == Len(bs)
           q == [i \in 1 .. N |-> SplitJump(bs[i])]
           cut == IF N > 1 THEN FlattenSeq(q) ELSE bs
           after == WithoutJump(cut)
<1>1. /\ bs \in Seq(Block) /\ bs # <<>> /\ Spans(bs, Start, Stop) /\ Start \in Int /\ Stop \in Int
      /\ \A i \in 1 .. N : bs[i].interp <= bs[i].dur
  BY InputIs
<1>2. N \in Nat \ {0} /\ DOMAIN bs = 1 .. N /\ \A i \in 1 .. N : bs[i] \in Block
  BY <1>1
<1>3. after = JumpsRemoved(bs)
  BY <1>2 DEF JumpsRemoved
<1>4. cut \in Seq(Block) /\ Spans(cut, Start, Stop)
  BY <1>1, <1>2, PiecesSpan
<1> HIDE DEF N, q, cut, bs
<1>5. Len(cut) \in Nat \ {0} /\ DOMAIN cut = 1 .. Len(cut)
  BY <1>4, SpansTimes, LenProperties
<1>6. after = [j \in 1 .. Len(cut) |-> Plain(cut[j])]
  BY <1>5 DEF WithoutJump, Plain
<1>7. after \in Seq(Block) /\ Spans(after, Start, Stop)
  BY <1>4, WithoutJumpSpans
<1> HIDE DEF after
<1>8. Len(after) = Len(cut) /\ \A j \in 1 .. Len(after) : after[j] = Plain(cut[j])
  <2>1. \A j \in 1 .. Len(cut) : cut[j] \in Block
    BY <1>4
  <2>2. after \in [1 .. Len(cut) -> Block]
    BY <1>6, <2>1, PlainSeen
  <2>3. Len(after) = Len(cut)
    BY <1>5, <2>2, FunctionIsSeq
  <2> QED
    BY <1>6, <2>3
<1>9. Accepted(after)
  <2>1. \A j \in 1 .. Len(after) : after[j].jump = FALSE
    <3>1. \A j \in 1 .. Len(cut) : Plain(cut[j]).jump = FALSE
      <4>1. \A c \in Block : Plain(c).jump = FALSE
        BY DEF Plain, Block
      <4> QED
        BY <1>4, <4>1
    <3> QED
      BY <1>8, <3>1
  <2> QED
    BY <1>7, <2>1, PlainAccepted
<1>10. PICK f : /\ IsPath(f, bs)
                /\ \A t : Timing!ValuesAt(Points(bs), bs, t) = SeenAt(f[N] \o EndSeen(bs[N]), t)
  BY <1>1, PathExists DEF N
<1>11. PICK g : /\ IsPath(g, after)
                /\ \A t : Timing!ValuesAt(Points(after), after, t)
                            = SeenAt(g[Len(after)] \o EndSeen(after[Len(after)]), t)
  <2>1. after # <<>>
    BY <1>7 DEF Spans
  <2> QED
    BY <1>7, <2>1, PathExists
<1>12. /\ Alike(g[Len(after)], f[N]) /\ EndSeen(after[Len(after)]) = EndSeen(bs[N])
  <2>1. CASE N > 1
    <3>1. q \in Seq(Seq(Block)) /\ Len(q) = N
      <4>1. q \in [1 .. N -> Seq(Block)]
        BY <1>1, <1>2, SplitJumpSpans DEF q
      <4> QED
        BY <1>2, <4>1, FunctionIsSeq
    <3>2. PICK h : /\ h = [i \in 1 .. Len(q) |-> IF i = 1 THEN q[i] ELSE h[i - 1] \o q[i]]
                   /\ FlattenSeq(q) = h[Len(q)]
      BY <1>2, <3>1, FlattenIs
    <3>3. Appends(h, q, N) /\ cut = h[N]
      BY <2>1, <3>1, <3>2 DEF Appends, cut
    <3>4. Appends(h, [i \in 1 .. Len(bs) |-> SplitJump(bs[i])], Len(bs))
      BY <3>3 DEF q, N
    <3>5. Len(after) = Len(h[Len(bs)]) /\ \A j \in 1 .. Len(after) : after[j] = Plain(h[Len(bs)][j])
      BY <1>8, <3>3 DEF N
    <3>6. /\ Alike(g[Len(after)], f[Len(bs)])
          /\ EndSeen(after[Len(after)]) = EndSeen(bs[Len(bs)])
      BY <1>1, <1>7, <1>10, <1>11, <3>4, <3>5, PathOfPieces DEF N
    <3> QED
      BY <3>6 DEF N
  <2>2. CASE ~ (N > 1)
    <3>1. N = 1 /\ cut = bs /\ bs[1] \in Block /\ 1 \in 1 .. N
      BY <1>2, <2>2 DEF cut
    <3>2. Len(after) = 1 /\ after[1] = Plain(bs[1])
      BY <1>8, <3>1 DEF N
    <3>3. f[1] = FirstSeen(bs[1]) /\ g[1] = FirstSeen(after[1])
      BY <1>10, <1>11, <3>1, <3>2 DEF IsPath, N
    <3>4. g[1] = f[1] /\ EndSeen(after[1]) = EndSeen(bs[1])
      BY <3>1, <3>2, <3>3, PlainSeen
    <3> QED
      BY <3>1, <3>2, <3>4 DEF Alike
  <2> QED
    BY <2>1, <2>2
<1>13. ASSUME NEW t \in Times(bs)
       PROVE  Timing!ValuesAt(Points(after), after, t) = Timing!ValuesAt(Points(bs), bs, t)
  <2>1. t \in Int
    <3>1. bs[1].rtime \in Int /\ End(Last(bs)) \in Int
      BY <1>1, <1>2, BlockTimesAre DEF N, Last
    <3> QED
      BY <3>1 DEF Times
  <2>2. N \in 1 .. N /\ N \in 1 .. Len(bs) /\ bs[N] \in Block /\ Len(after) \in 1 .. Len(after)
    BY <1>2, <1>5, <1>8 DEF N
  <2>3. /\ f[N] \in Seq(Sight) /\ g[Len(after)] \in Seq(Sight)
        /\ EndSeen(bs[N]) \in Seq(Sight)
    BY <1>10, <1>11, <2>2, SeenAreSights DEF IsPath
  <2> DEFINE u == g[Len(after)]
             s == f[N]
             e == EndSeen(bs[N])
  <2>4. u \in Seq(Sight) /\ s \in Seq(Sight) /\ e \in Seq(Sight) /\ Alike(u, s)
    BY <1>12, <2>3
  <2>5. /\ Timing!ValuesAt(Points(after), after, t) = SeenAt(u \o e, t)
        /\ Timing!ValuesAt(Points(bs), bs, t) = SeenAt(s \o e, t)
    BY <1>10, <1>11, <1>12
  <2> HIDE DEF u, s, e
  <2>6. Alike(u \o e, s \o e) /\ u \o e \in Seq(Sight) /\ s \o e \in Seq(Sight)
    BY <2>4, AlikeConcat, ConcatProperties
  <2>7. SeenAt(u \o e, t) = SeenAt(s \o e, t)
    BY <2>1, <2>6, AlikeSeen
  <2> QED
    BY <2>5, <2>7
<1> QED
  BY <1>3, <1>9, <1>13 DEF SamePath, bs

\* Splitting a block with jumpPosition, and leaving jumpPosition out, does not
\* change what is heard of a channel: the renderer accepts the blocks that
\* remove_jump_position makes, and interpolates through them as through those
\* of the input, at every time.
THEOREM RemovalIsNotHeard == Spec => []JumpRemovalKeepsPath
<1> DEFINE Kept == stage = "resample" => SamePath(original, blocks)
<1>1. Init => Kept
  BY DEF Init
<1>2. BlockInv /\ Kept /\ [Next]_vars => Kept'
  <2> SUFFICES ASSUME BlockInv, Kept, [Next]_vars PROVE Kept'
    OBVIOUS
  <2>1. CASE RemoveJumpPosition
    <3>1. /\ stage = "jump" /\ original' = original
          /\ blocks' = JumpsRemoved(blocks)
      BY <2>1 DEF RemoveJumpPosition, JumpsRemoved
    <3>2. blocks = original /\ original \in Inputs
      BY <3>1 DEF BlockInv
    <3>3. SamePath(original, blocks')
      BY <3>1, <3>2, RemovalKeepsPath
    <3> QED
      BY <3>1, <3>3
  <2>2. CASE UNCHANGED vars
    BY <2>2 DEF vars
  <2>3. CASE StartResampling \/ ConsumeOne \/ SplitGreedy \/ SplitThrifty \/ ConsumeAll
               \/ FinishResampling \/ Returned
    <3>1. stage' # "resample" \/ UNCHANGED vars
      BY <2>3 DEF StartResampling, ConsumeOne, SplitGreedy, SplitThrifty, ConsumeAll,
                  FinishResampling, Returned, Group, GroupWithPart
    <3> QED
      BY <2>2, <3>1
  <2> QED
    BY <2>1, <2>2, <2>3 DEF Next
<1>3. Kept => JumpRemovalKeepsPath
  BY DEF JumpRemovalKeepsPath, SamePath
<1> QED
  BY <1>1, <1>2, <1>3, BlockInvariant, PTL DEF Spec

-----------------------------------------------------------------------------
(***************************************************************************)
(* Blocks end on the path.  The stack holds the blocks without jumpPosition *)
(* one after the other, and only the last of them may have been cut; each  *)
(* piece of a block is on the way of that block, which is a straight line  *)
(* from the value of the block before.                                     *)
(***************************************************************************)
LEMMA DivExact ==
  ASSUME NEW s \in Int, NEW k \in Int, NEW d \in Nat \ {0}
  PROVE  ((s * d) * k) \div d = s * k
OBVIOUS

LEMMA ModExact ==
  ASSUME NEW x \in Int, NEW m \in Nat \ {0}, x % m = 0
  PROVE  x = (x \div m) * m /\ x \div m \in Int
OBVIOUS

\* The parameter moves from v to w in d, in whole steps.
Exact(v, w, d) == d = 0 \/ \E s \in Int : w - v = s * d

\* From one block to the next the parameter stays set and moves in whole steps;
\* where it is not set it is the default.
Linked(a, b) == (a.set => b.set) /\ Exact(a.v, b.v, b.dur)
Honest(b)    == ~b.set => b.v = Default
Links(s) ==
  /\ s # <<>>
  /\ \A i \in 2 .. Len(s) : Linked(s[i - 1], s[i])
  /\ \A i \in 1 .. Len(s) : Honest(s[i])

LEMMA LinksConcat ==
  ASSUME NEW s \in Seq(Block), NEW t \in Seq(Block), Links(s), Links(t), Linked(s[Len(s)], t[1])
  PROVE  Links(s \o t) /\ (s \o t)[Len(s \o t)] = t[Len(t)]
<1> DEFINE m == Len(s)
           n == Len(t)
           u == s \o t
<1>1. m \in Nat \ {0} /\ n \in Nat \ {0}
  BY DEF Links
<1>2. Len(u) = m + n /\ u # <<>>
  BY <1>1
<1>3. /\ \A i \in 1 .. m : u[i] = s[i]
      /\ \A i \in m + 1 .. m + n : u[i] = t[i - m]
  OBVIOUS
<1>0. /\ \A i \in 2 .. m : Linked(s[i - 1], s[i])
      /\ \A i \in 1 .. m : Honest(s[i])
      /\ \A i \in 2 .. n : Linked(t[i - 1], t[i])
      /\ \A i \in 1 .. n : Honest(t[i])
      /\ Linked(s[m], t[1])
  BY DEF Links
<1> HIDE DEF m, n, u
<1>4. u[m + n] = t[n] /\ u[m] = s[m] /\ u[m + 1] = t[1]
  <2>1. (m + n) - m = n /\ (m + 1) - m = 1
    BY <1>1
  <2> QED
    BY <1>1, <1>3, <2>1
<1>5. ASSUME NEW i \in 2 .. m + n PROVE Linked(u[i - 1], u[i])
  <2>1. CASE i <= m
    <3>1. u[i] = s[i] /\ u[i - 1] = s[i - 1]
      BY <1>1, <1>3, <2>1
    <3> QED
      BY <1>0, <1>1, <2>1, <3>1
  <2>2. CASE i = m + 1
    <3>1. i - 1 = m
      BY <1>1, <2>2
    <3> QED
      BY <1>0, <1>4, <2>2, <3>1
  <2>3. CASE i > m + 1
    <3>1. i - m \in 2 .. n /\ (i - 1) - m = (i - m) - 1
      BY <1>1, <2>3
    <3>2. u[i] = t[i - m] /\ u[i - 1] = t[(i - 1) - m]
      BY <1>1, <1>3, <2>3
    <3> QED
      BY <1>0, <3>1, <3>2
  <2> QED
    BY <1>1, <2>1, <2>2, <2>3
<1>6. ASSUME NEW i \in 1 .. m + n PROVE Honest(u[i])
  <2>1. CASE i <= m
    <3>1. i \in 1 .. m /\ u[i] = s[i]
      BY <1>1, <1>3, <2>1
    <3> QED
      BY <1>0, <3>1
  <2>2. CASE i > m
    <3>1. i - m \in 1 .. n /\ u[i] = t[i - m]
      BY <1>1, <1>3, <2>2
    <3> QED
      BY <1>0, <3>1
  <2> QED
    BY <1>1, <2>1, <2>2
<1>7. Links(u)
  BY <1>2, <1>5, <1>6 DEF Links
<1> QED
  BY <1>2, <1>4, <1>7 DEF u, n

\* From one block of the input to the next.
Follows(a, b) == (a.set => b.set) /\ Exact(a.v, b.v, MovesFor(b))

\* The pieces of a block.
LEMMA PiecesLink ==
  ASSUME NEW b \in Block, b.interp <= b.dur, Honest(b)
  PROVE  /\ SplitJump(b) \in Seq(Block) /\ Links(SplitJump(b))
         /\ SplitJump(b)[Len(SplitJump(b))].set = b.set
         /\ SplitJump(b)[Len(SplitJump(b))].v = b.v
         /\ \A a : Follows(a, b) => Linked(a, SplitJump(b)[1])
<1>1. /\ b.rtime \in Int /\ b.dur \in Nat /\ b.interp \in Nat /\ b.v \in Int
      /\ b.jump \in BOOLEAN /\ b.set \in BOOLEAN
  BY DEF Block
<1>2. CASE ~ShouldBeSplit(b)
  <2>1. SplitJump(b) = <<b>> /\ MovesFor(b) = b.dur
    BY <1>1, <1>2 DEF SplitJump, ShouldBeSplit, MovesFor
  <2>2. Len(<<b>>) = 1 /\ <<b>>[1] = b /\ <<b>> # <<>> /\ <<b>> \in Seq(Block)
    OBVIOUS
  <2>3. Links(<<b>>)
    BY <2>2 DEF Links
  <2> QED
    BY <2>1, <2>2, <2>3 DEF Follows, Linked
<1>3. CASE ShouldBeSplit(b)
  <2>1. MovesFor(b) = b.interp
    BY <1>3 DEF ShouldBeSplit, MovesFor
  <2>2. PICK i \in Nat : i = b.interp
    BY <1>1
  <2>3. PICK r \in Int : r = b.rtime + b.interp
    BY <1>1
  <2>4. PICK d \in Nat : d = b.dur - b.interp
    BY <1>1
  <2> DEFINE c == [b EXCEPT !.dur = i]
             e == [b EXCEPT !.rtime = r, !.dur = d]
  <2>5. SplitJump(b) = <<c, e>>
    BY <1>3, <2>2, <2>3, <2>4 DEF SplitJump
  <2>6. c \in Block /\ e \in Block
    BY DEF Block
  <2>7. /\ c.dur = b.interp /\ c.set = b.set /\ c.v = b.v
        /\ e.set = b.set /\ e.v = b.v /\ e.dur = d
    BY <2>2 DEF Block
  <2> HIDE DEF c, e
  <2>8. Linked(c, e)
    <3>1. e.v - c.v = 0 * d
      BY <1>1, <2>7
    <3> QED
      BY <2>7, <3>1 DEF Linked, Exact
  <2>9. Honest(c) /\ Honest(e)
    BY <2>7 DEF Honest
  <2>10. /\ Len(<<c, e>>) = 2 /\ <<c, e>>[1] = c /\ <<c, e>>[2] = e
         /\ <<c, e>> # <<>> /\ <<c, e>> \in Seq(Block)
    BY <2>6
  <2>11. Links(<<c, e>>)
    <3>1. \A j \in 2 .. 2 : j = 2 /\ j - 1 = 1
      OBVIOUS
    <3>2. \A j \in 1 .. 2 : j = 1 \/ j = 2
      OBVIOUS
    <3> HIDE DEF Linked, Honest
    <3> QED
      BY <2>8, <2>9, <2>10, <3>1, <3>2 DEF Links
  <2>12. \A a : Follows(a, b) => Linked(a, c)
    BY <2>1, <2>7 DEF Follows, Linked
  <2> QED
    BY <2>5, <2>7, <2>10, <2>11, <2>12
<1> QED
  BY <1>2, <1>3

\* The pieces of all blocks.
LEMMA AllPiecesLink ==
  ASSUME NEW s \in Seq(Block), s # <<>>,
         \A i \in 1 .. Len(s) : s[i].interp <= s[i].dur /\ Honest(s[i]),
         \A i \in 2 .. Len(s) : Follows(s[i - 1], s[i])
  PROVE  Links(FlattenSeq([i \in DOMAIN s |-> SplitJump(s[i])]))
<1> DEFINE N == Len(s)
           p == [i \in DOMAIN s |-> SplitJump(s[i])]
<1>1. N \in Nat \ {0} /\ DOMAIN s = 1 .. N /\ \A i \in 1 .. N : s[i] \in Block
  OBVIOUS
<1>2. /\ Len(p) = N
      /\ \A i \in 1 .. N : p[i] = SplitJump(s[i])
  BY <1>1
<1>3. \A i \in 1 .. N : /\ p[i] \in Seq(Block) /\ Links(p[i])
                        /\ p[i][Len(p[i])].set = s[i].set /\ p[i][Len(p[i])].v = s[i].v
                        /\ \A a : Follows(a, s[i]) => Linked(a, p[i][1])
  BY <1>1, <1>2, PiecesLink
<1> HIDE DEF p
<1>4. PICK f : /\ f = [i \in 1 .. Len(p) |-> IF i = 1 THEN p[i] ELSE f[i - 1] \o p[i]]
               /\ FlattenSeq(p) = f[Len(p)]
  BY <1>1, <1>2, FlattenIs
<1>5. f[1] = p[1] /\ \A i \in 2 .. N : f[i] = f[i - 1] \o p[i]
  <2> HIDE DEF N
  <2>1. \A i \in 1 .. N : f[i] = IF i = 1 THEN p[i] ELSE f[i - 1] \o p[i]
    BY <1>2, <1>4
  <2>2. 1 \in 1 .. N /\ \A i \in 2 .. N : i \in 1 .. N /\ i # 1
    BY <1>1
  <2> QED
    BY <2>1, <2>2
<1>6. \A i \in 2 .. N : Follows(s[i - 1], s[i])
  OBVIOUS
<1> HIDE DEF N
<1> DEFINE Good(k) == /\ f[k] \in Seq(Block) /\ Links(f[k])
                      /\ f[k][Len(f[k])].set = s[k].set /\ f[k][Len(f[k])].v = s[k].v
           S == {k \in Nat : k \in 1 .. N => Good(k)}
<1>7. 0 \in S
  BY <1>1
<1>8. ASSUME NEW k \in Nat, k \in S PROVE k + 1 \in S
  <2>1. CASE k = 0
    BY <1>1, <1>3, <1>5, <2>1
  <2>2. CASE k # 0 /\ k + 1 \in 1 .. N
    <3>1. k \in 1 .. N /\ k + 1 \in 2 .. N /\ (k + 1) - 1 = k
      BY <1>1, <2>2
    <3>2. Good(k) /\ Follows(s[k], s[k + 1]) /\ f[k + 1] = f[k] \o p[k + 1]
      BY <1>5, <1>6, <1>8, <3>1
    <3>3. /\ p[k + 1] \in Seq(Block) /\ Links(p[k + 1])
          /\ p[k + 1][Len(p[k + 1])].set = s[k + 1].set
          /\ p[k + 1][Len(p[k + 1])].v = s[k + 1].v
          /\ \A a : Follows(a, s[k + 1]) => Linked(a, p[k + 1][1])
      BY <1>3, <2>2
    <3>4. Follows(f[k][Len(f[k])], s[k + 1])
      BY <3>2 DEF Follows
    <3>5. Linked(f[k][Len(f[k])], p[k + 1][1])
      BY <3>3, <3>4
    <3>6. Links(f[k + 1]) /\ f[k + 1][Len(f[k + 1])] = p[k + 1][Len(p[k + 1])]
      BY <3>2, <3>3, <3>5, LinksConcat
    <3>7. f[k + 1] \in Seq(Block)
      BY <3>2, <3>3, ConcatProperties
    <3> QED
      BY <3>3, <3>6, <3>7
  <2>3. CASE k + 1 \notin 1 .. N
    BY <2>3
  <2> QED
    BY <2>1, <2>2, <2>3
<1> HIDE DEF S
<1>9. N \in S
  BY <1>1, <1>7, <1>8, InductionOverNat
<1>10. Links(f[N])
  BY <1>1, <1>9 DEF S
<1> QED
  BY <1>2, <1>4, <1>10 DEF p

LEMMA PlainIs ==
  ASSUME NEW b \in Block
  PROVE  /\ Plain(b).jump = FALSE /\ Plain(b).set = b.set /\ Plain(b).v = b.v
         /\ Plain(b).dur = b.dur /\ Plain(b).rtime = b.rtime /\ Plain(b) \in Block
BY DEF Plain, Block

\* WithoutJump() keeps what links the pieces.
LEMMA WithoutJumpLinks ==
  ASSUME NEW s \in Seq(Block), Links(s)
  PROVE  /\ Links(WithoutJump(s)) /\ Len(WithoutJump(s)) = Len(s)
         /\ \A i \in 1 .. Len(s) : WithoutJump(s)[i].jump = FALSE
<1> DEFINE N == Len(s)
           w == WithoutJump(s)
<1>1. N \in Nat \ {0} /\ DOMAIN s = 1 .. N /\ \A i \in 1 .. N : s[i] \in Block
  BY DEF Links
<1>2. w = [i \in 1 .. N |-> Plain(s[i])]
  BY <1>1 DEF WithoutJump, Plain
<1>3. /\ Len(w) = N /\ w # <<>>
      /\ \A i \in 1 .. N : w[i] = Plain(s[i])
  <2> HIDE DEF w, N
  <2>1. w \in [1 .. N -> Block]
    BY <1>1, <1>2, PlainIs
  <2>2. Len(w) = N /\ w \in Seq(Block)
    BY <1>1, <2>1, FunctionIsSeq
  <2>3. w # <<>>
    BY <1>1, <2>2
  <2> QED
    BY <1>2, <2>2, <2>3
<1>4. /\ \A i \in 2 .. N : Linked(s[i - 1], s[i])
      /\ \A i \in 1 .. N : Honest(s[i])
  BY DEF Links
<1> HIDE DEF w, N
<1>5. \A i \in 1 .. N : /\ w[i].jump = FALSE /\ w[i].set = s[i].set /\ w[i].v = s[i].v
                        /\ w[i].dur = s[i].dur
  <2> TAKE i \in 1 .. N
  <2>1. s[i] \in Block /\ w[i] = Plain(s[i])
    BY <1>1, <1>3
  <2> QED
    BY <2>1, PlainIs
<1>6. \A i \in 2 .. N : i \in 1 .. N /\ i - 1 \in 1 .. N
  BY <1>1
<1>7. \A i \in 2 .. N : Linked(w[i - 1], w[i])
  BY <1>4, <1>5, <1>6 DEF Linked
<1>8. \A i \in 1 .. N : Honest(w[i])
  BY <1>4, <1>5 DEF Honest
<1>9. Links(w)
  BY <1>3, <1>7, <1>8 DEF Links
<1> QED
  BY <1>3, <1>5, <1>9 DEF w, N

\* The parameter is not left at its default once it has been set.
StaysSet == \A i \in 1 .. Len(original) - 1 : original[i].set => original[i + 1].set

\* The blocks without jumpPosition cover the channel, and the parameter moves
\* from one to the next in whole steps.
IsStraight(bs) ==
  /\ bs \in Seq(Block) /\ Spans(bs, Start, Stop)
  /\ Links(bs)
  /\ \A i \in 1 .. Len(bs) : bs[i].jump = FALSE

LEMMA InputLinks ==
  ASSUME original \in Inputs, StaysSet
  PROVE  /\ \A i \in 1 .. Len(original) : original[i].interp <= original[i].dur /\ Honest(original[i])
         /\ \A i \in 2 .. Len(original) : Follows(original[i - 1], original[i])
<1> DEFINE s == original
           N == Len(s)
<1>1. /\ s \in Seq(Block) /\ s # <<>>
      /\ \A i \in 1 .. N : s[i].interp <= s[i].dur
  BY InputIs
<1>2. N \in Nat \ {0} /\ DOMAIN s = 1 .. N /\ \A i \in 1 .. N : s[i] \in Block
  BY <1>1
<1>3. \A i \in 1 .. N :
        /\ ~s[i].set => s[i].v = Default
        /\ i > 1 /\ MovesFor(s[i]) > 0 => (s[i].v - s[i - 1].v) % MovesFor(s[i]) = 0
  BY <1>2, ExactAssumption
<1>4. \A i \in 1 .. N - 1 : s[i].set => s[i + 1].set
  BY DEF StaysSet
<1> HIDE DEF s, N
<1>5. ASSUME NEW i \in 1 .. N PROVE Honest(s[i])
  BY <1>3 DEF Honest
<1>6. ASSUME NEW i \in 2 .. N PROVE Follows(s[i - 1], s[i])
  <2>1. i \in 1 .. N /\ i - 1 \in 1 .. N - 1 /\ (i - 1) + 1 = i /\ i > 1 /\ i - 1 \in 1 .. N
    BY <1>2
  <2>2. s[i - 1].set => s[i].set
    BY <1>4, <2>1
  <2>3. s[i] \in Block /\ s[i - 1] \in Block
    BY <1>2, <2>1
  <2>4. s[i].v \in Int /\ s[i - 1].v \in Int /\ MovesFor(s[i]) \in Nat
    BY <2>3 DEF Block, MovesFor
  <2>5. CASE MovesFor(s[i]) = 0
    BY <2>2, <2>5 DEF Follows, Exact
  <2>6. CASE MovesFor(s[i]) # 0
    <3>1. PICK x \in Int : x = s[i].v - s[i - 1].v
      BY <2>4
    <3>2. PICK m \in Nat \ {0} : m = MovesFor(s[i])
      BY <2>4, <2>6
    <3>3. x % m = 0
      BY <1>3, <2>1, <3>1, <3>2
    <3>4. x = (x \div m) * m /\ x \div m \in Int
      BY <3>3, ModExact
    <3>5. \E k \in Int : x = k * m
      BY <3>4
    <3>6. Exact(s[i - 1].v, s[i].v, MovesFor(s[i]))
      BY <3>1, <3>2, <3>5 DEF Exact
    <3> QED
      BY <2>2, <3>6 DEF Follows
  <2> QED
    BY <2>5, <2>6
<1> QED
  BY <1>1, <1>5, <1>6 DEF s, N

LEMMA RemovedIsStraight ==
  ASSUME original \in Inputs, StaysSet
  PROVE  /\ IsStraight(JumpsRemoved(original))
         /\ Len(original) <= 1 => Len(JumpsRemoved(original)) <= 1
<1> DEFINE s == original
           N == Len(s)
           p == FlattenSeq([i \in DOMAIN s |-> SplitJump(s[i])])
           bs == IF N > 1 THEN p ELSE s
<1>1. /\ s \in Seq(Block) /\ s # <<>> /\ Spans(s, Start, Stop)
      /\ \A i \in 1 .. N : s[i].interp <= s[i].dur
  BY InputIs
<1>2. /\ \A i \in 1 .. N : s[i].interp <= s[i].dur /\ Honest(s[i])
      /\ \A i \in 2 .. N : Follows(s[i - 1], s[i])
  BY InputLinks
<1>3. N \in Nat \ {0}
  BY <1>1
<1>4. p \in Seq(Block) /\ Spans(p, Start, Stop)
  BY <1>1, PiecesSpan
<1>5. Links(p)
  BY <1>1, <1>2, AllPiecesLink
<1>6. N <= 1 => Links(s)
  <2> SUFFICES ASSUME N <= 1 PROVE Links(s)
    OBVIOUS
  <2>1. \A i \in 2 .. N : FALSE
    BY <1>3
  <2> QED
    BY <1>1, <1>2, <2>1 DEF Links
<1> HIDE DEF s, p, N
<1>7. bs \in Seq(Block) /\ Spans(bs, Start, Stop) /\ Links(bs) /\ (N <= 1 => bs = s)
  BY <1>1, <1>3, <1>4, <1>5, <1>6
<1>8. JumpsRemoved(original) = WithoutJump(bs)
  BY DEF JumpsRemoved, s, p, N
<1> HIDE DEF bs
<1>9. /\ WithoutJump(bs) \in Seq(Block) /\ Spans(WithoutJump(bs), Start, Stop)
      /\ Links(WithoutJump(bs)) /\ Len(WithoutJump(bs)) = Len(bs)
      /\ \A i \in 1 .. Len(bs) : WithoutJump(bs)[i].jump = FALSE
  BY <1>7, WithoutJumpSpans, WithoutJumpLinks
<1>10. IsStraight(WithoutJump(bs))
  BY <1>9 DEF IsStraight
<1> QED
  BY <1>7, <1>8, <1>9, <1>10 DEF s, N

\* Once the parameter is set, it is set in all later blocks.
LEMMA SetInAllLater ==
  ASSUME NEW bs \in Seq(Block), Links(bs), NEW i \in 1 .. Len(bs), bs[i].set,
         NEW j \in i .. Len(bs)
  PROVE  bs[j].set
<1> DEFINE N == Len(bs)
           S == {k \in Nat : i + k <= N => bs[i + k].set}
<1>1. N \in Nat /\ i \in 1 .. N /\ \A k \in 2 .. N : bs[k - 1].set => bs[k].set
  BY DEF Links, Linked
<1> HIDE DEF N
<1>2. 0 \in S
  BY <1>1
<1>3. ASSUME NEW k \in Nat, k \in S PROVE k + 1 \in S
  <2> SUFFICES ASSUME i + (k + 1) <= N PROVE bs[i + (k + 1)].set
    OBVIOUS
  <2>1. i + k <= N /\ i + (k + 1) \in 2 .. N /\ (i + (k + 1)) - 1 = i + k
    BY <1>1
  <2>2. bs[i + k].set
    BY <1>3, <2>1
  <2>3. bs[(i + (k + 1)) - 1].set => bs[i + (k + 1)].set
    BY <1>1, <2>1
  <2> QED
    BY <2>1, <2>2, <2>3
<1> HIDE DEF S
<1>4. j - i \in Nat /\ i + (j - i) = j /\ j <= N
  BY <1>1 DEF N
<1>5. j - i \in S
  <2>1. \A k \in Nat : k \in S
    BY <1>2, <1>3, InductionOverNat
  <2> QED
    BY <1>4, <2>1
<1> QED
  BY <1>4, <1>5 DEF S

\* Block k moves from here, to here.
From(bs, k) == IF k = 1 THEN See(bs[1].rtime, FALSE, bs[1].v)
                        ELSE See(End(bs[k - 1]), FALSE, bs[k - 1].v)
To(bs, k)   == See(End(bs[k]), FALSE, bs[k].v)

LEMMA StraightSeen ==
  ASSUME NEW b \in Block, b.jump = FALSE
  PROVE  NextSeen(b) = <<See(End(b), FALSE, b.v)>>
<1>1. End(b) \in Int /\ ~(End(b) < End(b))
  BY BlockTimesAre
<1>2. TurnsAt(b) = End(b)
  BY DEF TurnsAt
<1>3. <<See(End(b), FALSE, b.v)>> \in Seq(Sight)
  BY <1>1 DEF See, Sight, Block
<1>4. NextSeen(b) = <<>> \o <<See(End(b), FALSE, b.v)>>
  BY <1>1, <1>2 DEF NextSeen
<1> HIDE DEF See
<1> QED
  BY <1>3, <1>4

\* The path has a step for each block.
LEMMA EndsSeen ==
  ASSUME NEW bs \in Seq(Block), \A i \in 1 .. Len(bs) : bs[i].jump = FALSE,
         NEW f, IsPath(f, bs), NEW k \in 1 .. Len(bs)
  PROVE  /\ f[k] \in Seq(Sight) /\ Len(f[k]) \in Nat /\ Len(f[k]) >= 3
         /\ f[k][Len(f[k])] = To(bs, k)
<1>1. \A i \in 1 .. Len(bs) : bs[i] \in Block /\ f[i] \in Seq(Sight)
  BY DEF IsPath
<1> DEFINE S == {n \in Nat : n \in 1 .. Len(bs) =>
                    Len(f[n]) >= 3 /\ f[n][Len(f[n])] = To(bs, n)}
           N == Len(bs)
<1>2. 0 \in S
  OBVIOUS
<1>3. ASSUME NEW n \in Nat, n \in S PROVE n + 1 \in S
  <2>1. CASE n = 0
    <3> SUFFICES ASSUME 1 \in 1 .. N PROVE Len(f[1]) >= 3 /\ f[1][Len(f[1])] = To(bs, 1)
      BY <2>1
    <3>1. f[1] = FirstSeen(bs[1])
      BY DEF IsPath
    <3>2. Len(FirstSeen(bs[1])) = 3 /\ FirstSeen(bs[1])[3] = See(End(bs[1]), FALSE, bs[1].v)
      BY DEF FirstSeen
    <3> QED
      BY <3>1, <3>2 DEF To
  <2>2. CASE n # 0 /\ n + 1 \in 1 .. N
    <3>1. N \in Nat
      OBVIOUS
    <3>2. n \in 1 .. N /\ (n + 1) - 1 = n /\ n + 1 # 1
      BY <2>2, <3>1
    <3>3. f[n + 1] = f[n] \o NextSeen(bs[n + 1])
      BY <2>2, <3>2 DEF IsPath
    <3>4. bs[n + 1] \in Block /\ bs[n + 1].jump = FALSE
      BY <1>1, <2>2
    <3>5. NextSeen(bs[n + 1]) = <<To(bs, n + 1)>>
      BY <3>4, StraightSeen DEF To
    <3>6. NextSeen(bs[n + 1]) \in Seq(Sight)
      BY <3>4, SeenAreSights
    <3>7. f[n] \in Seq(Sight) /\ Len(f[n]) >= 3
      BY <1>1, <1>3, <3>2
    <3> DEFINE x == To(bs, n + 1)
               u == f[n]
    <3>8. /\ <<x>> \in Seq(Sight) /\ u \in Seq(Sight) /\ Len(u) >= 3 /\ f[n + 1] = u \o <<x>>
      BY <3>3, <3>5, <3>6, <3>7
    <3> HIDE DEF x, u
    <3>9. Len(u \o <<x>>) = Len(u) + 1 /\ (u \o <<x>>)[Len(u) + 1] = x /\ Len(u) \in Nat
      BY <3>8
    <3> QED
      BY <3>8, <3>9 DEF x
  <2>3. CASE n + 1 \notin 1 .. N
    BY <2>3
  <2> QED
    BY <2>1, <2>2, <2>3
<1> HIDE DEF S
<1>4. k \in S
  BY <1>2, <1>3, InductionOverNat
<1> QED
  BY <1>1, <1>4 DEF S

LEMMA StepSeen ==
  ASSUME NEW bs \in Seq(Block), \A i \in 1 .. Len(bs) : bs[i].jump = FALSE,
         NEW f, IsPath(f, bs), NEW k \in 1 .. Len(bs)
  PROVE  \E i \in 1 .. Len(f[k]) - 1 : f[k][i] = From(bs, k) /\ f[k][i + 1] = To(bs, k)
<1>1. CASE k = 1
  <2>1. f[k] = FirstSeen(bs[1])
    BY <1>1 DEF IsPath
  <2>2. /\ Len(f[k]) = 3 /\ f[k][2] = See(bs[1].rtime, FALSE, bs[1].v)
        /\ f[k][3] = See(End(bs[1]), FALSE, bs[1].v)
    BY <2>1 DEF FirstSeen
  <2>3. 2 \in 1 .. Len(f[k]) - 1 /\ 2 + 1 = 3
    BY <2>2
  <2>4. f[k][2] = From(bs, k) /\ f[k][2 + 1] = To(bs, k)
    BY <1>1, <2>2, <2>3 DEF From, To
  <2> QED
    BY <2>3, <2>4
<1>2. CASE k # 1
  <2>1. Len(bs) \in Nat /\ k - 1 \in 1 .. Len(bs)
    BY <1>2
  <2>2. f[k] = f[k - 1] \o NextSeen(bs[k])
    BY <1>2 DEF IsPath
  <2>3. bs[k] \in Block /\ bs[k].jump = FALSE
    OBVIOUS
  <2>4. NextSeen(bs[k]) = <<To(bs, k)>> /\ NextSeen(bs[k]) \in Seq(Sight)
    BY <2>3, StraightSeen, SeenAreSights DEF To
  <2>5. /\ f[k - 1] \in Seq(Sight) /\ Len(f[k - 1]) \in Nat /\ Len(f[k - 1]) >= 3
        /\ f[k - 1][Len(f[k - 1])] = To(bs, k - 1)
    BY <2>1, EndsSeen
  <2>6. To(bs, k - 1) = From(bs, k)
    BY <1>2 DEF To, From
  <2> DEFINE x == To(bs, k)
             u == f[k - 1]
  <2>7. /\ <<x>> \in Seq(Sight) /\ u \in Seq(Sight) /\ Len(u) \in Nat /\ Len(u) >= 3
        /\ f[k] = u \o <<x>> /\ u[Len(u)] = From(bs, k)
    BY <2>2, <2>4, <2>5, <2>6
  <2> HIDE DEF x, u
  <2>8. /\ Len(u \o <<x>>) = Len(u) + 1 /\ (u \o <<x>>)[Len(u) + 1] = x
        /\ (u \o <<x>>)[Len(u)] = u[Len(u)]
    BY <2>7
  <2>9. Len(u) \in 1 .. Len(f[k]) - 1
    BY <2>7, <2>8
  <2> QED
    BY <2>7, <2>8, <2>9 DEF x
<1> QED
  BY <1>1, <1>2

\* The path through the blocks has what is between the two.
LEMMA StepOnPath ==
  ASSUME NEW bs \in Seq(Block), \A i \in 1 .. Len(bs) : bs[i].jump = FALSE,
         NEW k \in 1 .. Len(bs), NEW t, NEW v \in Between(From(bs, k), To(bs, k), t)
  PROVE  v \in Timing!ValuesAt(Points(bs), bs, t)
<1> DEFINE N == Len(bs)
<1>1. N \in Nat \ {0} /\ bs # <<>> /\ k \in 1 .. N
  OBVIOUS
<1>2. PICK f : /\ IsPath(f, bs)
               /\ \A z : Timing!ValuesAt(Points(bs), bs, z) = SeenAt(f[N] \o EndSeen(bs[N]), z)
  BY <1>1, PathExists
<1>3. PICK i \in 1 .. Len(f[k]) - 1 : f[k][i] = From(bs, k) /\ f[k][i + 1] = To(bs, k)
  BY <1>2, StepSeen
<1> DEFINE q == [j \in 1 .. N |-> IF j = 1 THEN FirstSeen(bs[j]) ELSE NextSeen(bs[j])]
<1>4. q \in [1 .. N -> Seq(Sight)]
  <2>1. ASSUME NEW j \in 1 .. N PROVE FirstSeen(bs[j]) \in Seq(Sight) /\ NextSeen(bs[j]) \in Seq(Sight)
    <3>1. bs[j] \in Block
      OBVIOUS
    <3> QED
      BY <3>1, SeenAreSights
  <2> QED
    BY <2>1
<1>5. Appends(f, q, N)
  <2>1. \A j \in 1 .. N : f[j] = IF j = 1 THEN FirstSeen(bs[j]) ELSE f[j - 1] \o NextSeen(bs[j])
    BY <1>2 DEF IsPath
  <2>2. \A j \in 1 .. N : q[j] = IF j = 1 THEN FirstSeen(bs[j]) ELSE NextSeen(bs[j])
    OBVIOUS
  <2> HIDE DEF q, N
  <2> QED
    BY <2>1, <2>2 DEF Appends
<1>6. N \in 1 .. N /\ k \in 1 .. N
  BY <1>1
<1>7. f[N] \in Seq(Sight) /\ f[k] \in Seq(Sight)
  BY <1>2, <1>6 DEF IsPath
<1>8. EndSeen(bs[N]) \in Seq(Sight)
  BY <1>1, SeenAreSights
<1> HIDE DEF q, N
<1>9. Begins(f[k], f[N])
  BY <1>1, <1>4, <1>5, <1>6, AppendedBegins
<1> DEFINE u == f[N]
           w == EndSeen(bs[N])
           s == u \o w
           a == Len(f[k])
<1>10. /\ u \in Seq(Sight) /\ w \in Seq(Sight) /\ a \in Nat /\ a <= Len(u)
       /\ \A j \in 1 .. a : u[j] = f[k][j]
  BY <1>7, <1>8, <1>9 DEF Begins
<1>11. i \in 1 .. a - 1 /\ i \in 1 .. a /\ i + 1 \in 1 .. a
  BY <1>10
<1>12. u[i] = From(bs, k) /\ u[i + 1] = To(bs, k)
  BY <1>3, <1>10, <1>11
<1> HIDE DEF u, w, a
<1>13. /\ Len(s) = Len(u) + Len(w) /\ Len(u) \in Nat /\ Len(w) \in Nat
       /\ \A j \in 1 .. Len(u) : s[j] = u[j]
  BY <1>10
<1>14. i \in 1 .. Len(u) /\ i + 1 \in 1 .. Len(u) /\ i \in 1 .. Len(s) - 1
  BY <1>10, <1>11, <1>13
<1>15. s[i] = From(bs, k) /\ s[i + 1] = To(bs, k)
  BY <1>12, <1>13, <1>14
<1>16. v \in Between(s[i], s[i + 1], t)
  BY <1>15
<1> HIDE DEF s
<1>17. v \in SeenAt(s, t)
  BY <1>14, <1>16 DEF SeenAt
<1> QED
  BY <1>2, <1>17 DEF s, u, w

\* Block b is block k, or the first part of it, and the parameter has come as
\* far in it as on the way of block k.
OnWayOf(b, bs, k) ==
  \/ k = 1 /\ b.v = bs[1].v
  \/ k > 1 /\ \E s \in Int : /\ bs[k].v - bs[k - 1].v = s * bs[k].dur
                             /\ b.v - bs[k - 1].v = s * b.dur
PieceOf(b, bs, k) ==
  \/ b = bs[k]
  \/ /\ b \in Block /\ b.rtime = bs[k].rtime /\ b.set = bs[k].set
     /\ 0 < b.dur /\ b.dur <= bs[k].dur
     /\ OnWayOf(b, bs, k)

LEMMA OnTheWay ==
  ASSUME NEW p \in Int, NEW q \in Int, NEW v \in Int, NEW r \in Int, NEW d \in Nat, NEW e \in Nat,
         NEW s \in Int, 0 < e, e <= d, q - p = s * d, v - p = s * e
  PROVE  v \in Between(See(r, FALSE, p), See(r + d, FALSE, q), r + e)
<1>1. ((s * d) * e) \div d = s * e
  BY DivExact
<1>2. (r + e) - r = e /\ (r + d) - r = d /\ r # r + d /\ ~(r + e < r) /\ ~(r + e > r + d)
  OBVIOUS
<1>3. p + ((q - p) * ((r + e) - r)) \div ((r + d) - r) = p + s * e
  BY <1>1, <1>2
<1>4. p + s * e = v
  <2>1. PICK x \in Int : x = s * e
    OBVIOUS
  <2> QED
    BY <2>1
<1> QED
  BY <1>2, <1>3, <1>4 DEF Between, See

LEMMA PieceOnPath ==
  ASSUME NEW bs, IsStraight(bs), NEW k \in 1 .. Len(bs), NEW b, PieceOf(b, bs, k)
  PROVE  b.v \in Timing!ValuesAt(Points(bs), bs, End(b))
<1>1. /\ bs \in Seq(Block) /\ \A i \in 1 .. Len(bs) : bs[i].jump = FALSE
      /\ \A i \in 2 .. Len(bs) : Linked(bs[i - 1], bs[i]) /\ bs[i].rtime = End(bs[i - 1])
  BY DEF IsStraight, Links, Spans
<1>2. bs[k] \in Block /\ b \in Block
  BY <1>1 DEF PieceOf
<1>3. /\ bs[k].rtime \in Int /\ bs[k].dur \in Nat /\ bs[k].v \in Int /\ End(bs[k]) = bs[k].rtime + bs[k].dur
      /\ b.rtime \in Int /\ b.dur \in Nat /\ b.v \in Int /\ End(b) = b.rtime + b.dur
      /\ b.rtime = bs[k].rtime /\ b.dur <= bs[k].dur
  BY <1>2 DEF Block, End, PieceOf
<1> DEFINE r == bs[k].rtime
           d == bs[k].dur
           e == b.dur
           v == b.v
           q == bs[k].v
<1>4. To(bs, k) = See(r + d, FALSE, q) /\ End(b) = r + e
  BY <1>3 DEF To
<1>5. CASE k = 1
  <2>1. From(bs, k) = See(r, FALSE, q) /\ v = q
    BY <1>5 DEF From, PieceOf, OnWayOf
  <2>2. /\ See(r, FALSE, q) \in Sight /\ See(r + d, FALSE, q) \in Sight
        /\ See(r, FALSE, q).zero = FALSE /\ See(r + d, FALSE, q).zero = FALSE
        /\ See(r, FALSE, q).v = q /\ See(r + d, FALSE, q).v = q
        /\ See(r, FALSE, q).time = r /\ See(r + d, FALSE, q).time = r + d
    BY <1>3 DEF See, Sight
  <2>3. r <= r + d /\ r <= r + e /\ r + e <= r + d /\ r + e \in Int
    BY <1>3
  <2>4. Between(See(r, FALSE, q), See(r + d, FALSE, q), r + e) = {q}
    BY <2>2, <2>3, FlatBetween
  <2> QED
    BY <1>1, <1>4, <2>1, <2>4, StepOnPath
<1>6. CASE k # 1
  <2>1. k \in 2 .. Len(bs) /\ k - 1 \in 1 .. Len(bs)
    BY <1>1, <1>6
  <2> DEFINE p == bs[k - 1].v
  <2>2. p \in Int
    <3>1. bs[k - 1] \in Block
      BY <1>1, <2>1
    <3> QED
      BY <3>1 DEF Block
  <2>3. From(bs, k) = See(r, FALSE, p) /\ Linked(bs[k - 1], bs[k])
    BY <1>1, <1>6, <2>1 DEF From
  <2>4. CASE d = 0
    <3>1. b = bs[k]
      BY <1>3, <2>4 DEF PieceOf
    <3>2. e = 0 /\ v = q
      BY <2>4, <3>1
    <3>3. v \in Between(See(r, FALSE, p), See(r + d, FALSE, q), r + e)
      BY <1>3, <2>4, <3>2 DEF Between, See
    <3> QED
      BY <1>1, <1>4, <2>3, <3>3, StepOnPath
  <2>5. CASE d # 0
    <3>1. 0 < e /\ \E s \in Int : q - p = s * d /\ v - p = s * e
      <4>1. CASE b = bs[k]
        BY <1>3, <2>3, <2>5, <4>1 DEF Linked, Exact
      <4>2. CASE b # bs[k]
        BY <1>6, <4>2 DEF PieceOf, OnWayOf
      <4> QED
        BY <4>1, <4>2
    <3>2. PICK s \in Int : q - p = s * d /\ v - p = s * e
      BY <3>1
    <3>3. v \in Between(See(r, FALSE, p), See(r + d, FALSE, q), r + e)
      BY <1>3, <2>2, <3>1, <3>2, OnTheWay
    <3> QED
      BY <1>1, <1>4, <2>3, <3>3, StepOnPath
  <2> QED
    BY <2>4, <2>5
<1> QED
  BY <1>5, <1>6

\* How far the parameter comes in each unit of time, in a piece of a block
\* that takes some.
LEMMA PieceMoves ==
  ASSUME NEW bs, IsStraight(bs), NEW k \in 2 .. Len(bs), NEW b, PieceOf(b, bs, k), b.dur > 0
  PROVE  \E s \in Int : /\ bs[k].v - bs[k - 1].v = s * bs[k].dur
                        /\ b.v - bs[k - 1].v = s * b.dur
<1>1. k \in Nat /\ k > 1 /\ Linked(bs[k - 1], bs[k])
  BY DEF IsStraight, Links
<1>2. CASE b = bs[k]
  <2>1. Exact(bs[k - 1].v, bs[k].v, bs[k].dur) /\ bs[k].dur # 0
    <3>1. bs \in Seq(Block) /\ k \in 1 .. Len(bs)
      BY DEF IsStraight
    <3>2. bs[k] \in Block
      BY <3>1
    <3>3. bs[k].dur \in Nat
      BY <3>2 DEF Block
    <3> QED
      BY <1>1, <1>2, <3>3 DEF Linked
  <2> QED
    BY <1>2, <2>1 DEF Exact
<1>3. CASE b # bs[k]
  BY <1>1, <1>3 DEF PieceOf, OnWayOf
<1> QED
  BY <1>2, <1>3

\* A piece of a block that leaves the parameter at its default ends there.
LEMMA PieceIsHonest ==
  ASSUME NEW bs, IsStraight(bs), NEW k \in 1 .. Len(bs), NEW b, PieceOf(b, bs, k)
  PROVE  /\ b \in Block /\ b.set = bs[k].set /\ b.rtime = bs[k].rtime /\ b.dur <= bs[k].dur
         /\ Honest(b)
<1>1. /\ bs \in Seq(Block) /\ bs[k] \in Block /\ \A i \in 1 .. Len(bs) : Honest(bs[i])
      /\ Len(bs) \in Nat
      /\ \A i \in 2 .. Len(bs) : Linked(bs[i - 1], bs[i])
  BY DEF IsStraight, Links
<1>2. b \in Block /\ b.set = bs[k].set /\ b.rtime = bs[k].rtime /\ b.dur <= bs[k].dur
  <2>1. bs[k].dur \in Nat
    BY <1>1 DEF Block
  <2> QED
    BY <1>1, <2>1 DEF PieceOf
<1>3. ASSUME ~b.set PROVE b.v = Default
  <2>1. bs[k].v = Default
    BY <1>1, <1>2, <1>3 DEF Honest
  <2>2. CASE b = bs[k]
    BY <2>1, <2>2
  <2>3. CASE b # bs[k] /\ k = 1
    BY <2>1, <2>3 DEF PieceOf, OnWayOf
  <2>4. CASE b # bs[k] /\ k # 1
    <3>1. k - 1 \in 1 .. Len(bs) /\ k \in 2 .. Len(bs)
      BY <1>1, <2>4
    <3>2. ~bs[k - 1].set
      BY <1>1, <1>2, <1>3, <3>1 DEF Linked
    <3>3. bs[k - 1].v = Default
      BY <1>1, <3>1, <3>2 DEF Honest
    <3>4. PICK s \in Int : bs[k].v - bs[k - 1].v = s * bs[k].dur /\ b.v - bs[k - 1].v = s * b.dur
      BY <2>4 DEF PieceOf, OnWayOf
    <3>5. PICK d \in Nat : d = bs[k].dur
      BY <1>1 DEF Block
    <3>6. d # 0
      BY <1>2, <2>4, <3>5 DEF PieceOf, Block
    <3>7. s * d = 0
      BY <2>1, <3>3, <3>4, <3>5, BlockTimesAssumption
    <3>8. ((s * d) * 1) \div d = s * 1
      BY <3>6, DivExact
    <3>9. s = 0
      BY <3>6, <3>7, <3>8
    <3>10. b.v \in Int /\ b.dur \in Nat
      BY <1>2 DEF Block
    <3> QED
      BY <3>3, <3>4, <3>9, <3>10, BlockTimesAssumption
  <2> QED
    BY <2>2, <2>3, <2>4
<1> QED
  BY <1>2, <1>3 DEF Honest

\* The block that a piece of block k moves from.
PriorOf(prior, bs, k) == IF k = 1 THEN prior = <<>> ELSE prior = <<bs[k - 1]>>

\* split() leaves a shorter piece of the same block.
LEMMA CutIsPiece ==
  ASSUME NEW bs, IsStraight(bs), NEW k \in 1 .. Len(bs), NEW b, PieceOf(b, bs, k),
         NEW prior, PriorOf(prior, bs, k), NEW t \in Int, b.rtime < t, t <= End(b)
  PROVE  PieceOf(SplitFirst(prior, b, t), bs, k)
<1>1. /\ bs \in Seq(Block) /\ bs[k] \in Block /\ \A i \in 1 .. Len(bs) : Honest(bs[i])
      /\ Len(bs) \in Nat
      /\ \A i \in 2 .. Len(bs) : Linked(bs[i - 1], bs[i])
  BY DEF IsStraight, Links
<1>2. /\ b \in Block /\ b.set = bs[k].set /\ b.rtime = bs[k].rtime /\ b.dur <= bs[k].dur
      /\ Honest(b)
  BY PieceIsHonest
<1>3. k # 1 => k - 1 \in 1 .. Len(bs) /\ k \in 2 .. Len(bs) /\ bs[k - 1] \in Block
  BY <1>1
<1>4. prior \in Seq(Block)
  <2>1. CASE k = 1
    <3>1. <<>> \in Seq(Block)
      OBVIOUS
    <3> QED
      BY <2>1, <3>1 DEF PriorOf
  <2>2. CASE k # 1
    <3>1. <<bs[k - 1]>> \in Seq(Block)
      BY <1>3, <2>2
    <3> QED
      BY <2>2, <3>1 DEF PriorOf
  <2> QED
    BY <2>1, <2>2
<1> DEFINE c == SplitFirst(prior, b, t)
           cut == [b EXCEPT !.dur = t - b.rtime]
<1>5. c \in Block /\ c.rtime = b.rtime /\ End(c) = t
  BY <1>2, <1>4, CutBlock
<1>6. /\ b.rtime \in Int /\ b.dur \in Nat /\ b.v \in Int /\ End(b) = b.rtime + b.dur
      /\ c.rtime \in Int /\ c.dur \in Nat /\ c.v \in Int /\ End(c) = c.rtime + c.dur
      /\ bs[k].dur \in Nat /\ bs[k].v \in Int /\ bs[k].set \in BOOLEAN
  BY <1>1, <1>2, <1>5 DEF Block, End
<1>7. c.dur = t - b.rtime /\ 0 < c.dur /\ c.dur <= bs[k].dur /\ b.dur > 0
  <2> HIDE DEF c, cut
  <2> QED
    BY <1>2, <1>5, <1>6
<1>8. cut.v = b.v /\ cut.set = b.set
  BY <1>2 DEF Block
<1>9. CASE k = 1
  <2>1. c = cut
    BY <1>9 DEF PriorOf, SplitFirst
  <2>2. c.v = bs[1].v
    <3>1. b.v = bs[1].v
      BY <1>9 DEF PieceOf, OnWayOf
    <3> QED
      BY <1>8, <2>1, <3>1
  <2>3. c.set = bs[k].set
    BY <1>2, <1>8, <2>1
  <2> HIDE DEF c, cut
  <2> QED
    <3>1. OnWayOf(c, bs, k)
      BY <1>9, <2>2 DEF OnWayOf
    <3>2. PieceOf(c, bs, k)
      BY <1>2, <1>5, <1>7, <2>3, <3>1 DEF PieceOf
    <3> QED
      BY <3>2 DEF c
<1>10. CASE k # 1
  <2> DEFINE a == bs[k - 1]
             p == a.v
  <2>1. k \in 2 .. Len(bs) /\ a \in Block /\ prior # <<>> /\ prior[1] = a /\ Linked(a, bs[k]) /\ Honest(a)
    <3>1. prior = <<a>>
      BY <1>10 DEF PriorOf
    <3>2. <<a>> # <<>> /\ <<a>>[1] = a
      OBVIOUS
    <3>3. Linked(a, bs[k]) /\ Honest(a) /\ a \in Block
      BY <1>1, <1>3, <1>10
    <3> HIDE DEF a
    <3> QED
      BY <1>3, <1>10, <3>1, <3>2, <3>3
  <2>2. p \in Int
    BY <2>1 DEF Block
  <2>3. PICK s \in Int : bs[k].v - p = s * bs[k].dur /\ b.v - p = s * b.dur
    BY <1>7, <2>1, PieceMoves
  <2>4. CASE b.set \/ a.set
    <3>1. bs[k].set = TRUE
      BY <1>2, <1>6, <2>1, <2>4 DEF Linked
    <3>2. c = [cut EXCEPT !.set = TRUE, !.v = Lerp(p, b.v, t - b.rtime, b.dur)]
      BY <2>1, <2>4 DEF SplitFirst
    <3>3. c.set = TRUE /\ c.v = Lerp(p, b.v, c.dur, b.dur)
      <4>1. cut.set = b.set /\ cut \in [DOMAIN b -> {cut[x] : x \in DOMAIN b}]
        BY <1>2 DEF Block
      <4>2. "set" \in DOMAIN cut /\ "v" \in DOMAIN cut
        BY <1>2 DEF Block
      <4> HIDE DEF cut
      <4>3. c.set = TRUE /\ c.v = Lerp(p, b.v, t - b.rtime, b.dur)
        BY <3>2, <4>2
      <4> QED
        BY <1>7, <4>3
    <3> DEFINE e == c.dur
               d == b.dur
    <3>4. ((s * d) * e) \div d = s * e
      BY <1>6, <1>7, DivExact
    <3>5. Lerp(p, b.v, e, d) = p + s * e
      BY <1>7, <2>3, <3>4 DEF Lerp
    <3> HIDE DEF c, cut, a
    <3>6. c.v - p = s * e
      <4>1. PICK x \in Int : x = s * e
        BY <1>6
      <4> QED
        BY <2>2, <3>3, <3>5, <4>1
    <3>7. k > 1
      BY <2>1
    <3>8. OnWayOf(c, bs, k)
      BY <2>3, <3>6, <3>7 DEF OnWayOf, a
    <3>9. c.set = bs[k].set
      BY <3>1, <3>3
    <3>10. PieceOf(c, bs, k)
      BY <1>2, <1>5, <1>7, <3>8, <3>9 DEF PieceOf
    <3> QED
      BY <3>10 DEF c
  <2>5. CASE ~(b.set \/ a.set)
    <3>1. b.v = Default /\ p = Default /\ bs[k].v = Default
      BY <1>1, <1>2, <2>1, <2>5 DEF Honest
    <3>2. c = cut
      BY <2>1, <2>5 DEF SplitFirst
    <3>3. c.v = b.v /\ c.set = bs[k].set
      BY <1>2, <1>8, <3>2
    <3> HIDE DEF c, cut
    <3>4. bs[k].v - p = 0 * bs[k].dur /\ c.v - p = 0 * c.dur
      BY <1>6, <2>2, <3>1, <3>3
    <3>5. k > 1
      BY <2>1
    <3>6. OnWayOf(c, bs, k)
      BY <3>4, <3>5 DEF OnWayOf
    <3>7. PieceOf(c, bs, k)
      BY <1>2, <1>5, <1>7, <3>3, <3>6 DEF PieceOf
    <3> QED
      BY <3>7 DEF c
  <2> QED
    BY <2>4, <2>5
<1> QED
  BY <1>9, <1>10

LEMMA SecondIs ==
  ASSUME NEW b \in Block, NEW t
  PROVE  SplitSecond(b, t).v = b.v /\ SplitSecond(b, t).set = b.set
BY DEF SplitSecond, Block

\* getLastParameters() finds the value of the latest block of the group.
LEMMA GroupEndsAt ==
  ASSUME NEW group \in Seq(Block), group # <<>>, Honest(group[1]),
         \A i \in 1 .. Len(group) : group[i].set => group[1].set
  PROVE  GroupToBlock(group).v = group[1].v
<1> DEFINE I == {i \in 1 .. Len(group) : group[i].set}
           k == IF I # {} THEN Min(I) ELSE 0
<1>1. LastParameter(group) = IF k = 0 THEN [set |-> FALSE, v |-> Default]
                                      ELSE [set |-> TRUE, v |-> group[k].v]
  BY DEF LastParameter, SelectInSeq
<1>2. GroupToBlock(group).v = LastParameter(group).v
  BY DEF GroupToBlock
<1>3. 1 \in 1 .. Len(group)
  OBVIOUS
<1>4. CASE group[1].set
  <2>1. 1 \in I /\ \A i \in I : 1 <= i
    BY <1>3, <1>4
  <2> HIDE DEF I
  <2>2. Min(I) = 1
    <3>1. Min(I) = CHOOSE x \in I : \A y \in I : x <= y
      BY DEF Min
    <3>2. \A x \in I : (\A y \in I : x <= y) => x = 1
      <4>1. I \subseteq Nat
        BY DEF I
      <4> QED
        BY <2>1, <4>1
    <3> QED
      BY <2>1, <3>1, <3>2
  <2>3. k = 1
    BY <2>1, <2>2
  <2> HIDE DEF k
  <2> QED
    BY <1>1, <1>2, <2>3
<1>5. CASE ~group[1].set
  <2>1. I = {}
    BY <1>5
  <2>2. k = 0
    BY <2>1
  <2>3. group[1].v = Default
    BY <1>5 DEF Honest
  <2> HIDE DEF k
  <2> QED
    BY <1>1, <1>2, <2>2, <2>3
<1> QED
  BY <1>4, <1>5

\* All pieces end within the channel.
LEMMA PieceEndsWithin ==
  ASSUME NEW bs, IsStraight(bs), NEW k \in 1 .. Len(bs), NEW b, PieceOf(b, bs, k)
  PROVE  End(b) \in Start .. Stop
<1>1. bs \in Seq(Block) /\ Spans(bs, Start, Stop) /\ Len(bs) \in Nat \ {0}
  BY SpansTimes DEF IsStraight
<1>2. Start \in Int /\ Stop \in Int
  BY <1>1, SpansTimes
<1>3. b \in Block /\ b.rtime = bs[k].rtime /\ b.dur <= bs[k].dur /\ bs[k] \in Block
  BY <1>1, PieceIsHonest
<1>4. /\ bs[k].rtime \in Int /\ bs[k].dur \in Nat /\ End(bs[k]) = bs[k].rtime + bs[k].dur
      /\ b.rtime \in Int /\ b.dur \in Nat /\ End(b) = b.rtime + b.dur
  BY <1>3, BlockTimesAre
<1>5. Start <= bs[k].rtime
  <2>1. CASE k = 1
    BY <1>1, <1>2, <2>1 DEF Spans
  <2>2. CASE k # 1
    <3>1. k - 1 \in 1 .. Len(bs) /\ k \in 2 .. Len(bs) /\ 1 \in 1 .. Len(bs) /\ k - 1 \in 1 .. Len(bs)
      BY <1>1, <2>2
    <3>2. bs[k].rtime = End(bs[k - 1]) /\ bs[1].rtime = Start
      BY <1>1, <3>1 DEF Spans
    <3> DEFINE u == SubSeq(bs, 1, k - 1)
    <3>3. u \in Seq(Block) /\ Spans(u, Start, End(bs[k - 1]))
      BY <1>1, <3>1, <3>2, SubSpans
    <3> HIDE DEF u
    <3>4. TotalDuration(u) = End(bs[k - 1]) - Start /\ TotalDuration(u) \in Nat
      BY <3>3, TotalSpan, TotalIsNat
    <3> QED
      BY <1>2, <1>4, <3>2, <3>4
  <2> QED
    BY <2>1, <2>2
<1>6. End(bs[k]) <= Stop
  <2>1. CASE k = Len(bs)
    BY <1>1, <1>2, <2>1 DEF Spans
  <2>2. CASE k # Len(bs)
    <3>1. k + 1 \in 1 .. Len(bs) /\ k + 1 \in 2 .. Len(bs) /\ (k + 1) - 1 = k
          /\ Len(bs) \in k + 1 .. Len(bs)
      BY <1>1, <2>2
    <3>2. bs[k + 1].rtime = End(bs[k]) /\ End(bs[Len(bs)]) = Stop
      BY <1>1, <3>1 DEF Spans
    <3> DEFINE u == SubSeq(bs, k + 1, Len(bs))
    <3>3. u \in Seq(Block) /\ Spans(u, End(bs[k]), Stop)
      BY <1>1, <3>1, <3>2, SubSpans
    <3> HIDE DEF u
    <3>4. TotalDuration(u) = Stop - End(bs[k]) /\ TotalDuration(u) \in Nat
      BY <3>3, TotalSpan, TotalIsNat
    <3> QED
      BY <1>2, <1>4, <3>4
  <2> QED
    BY <2>1, <2>2
<1> QED
  BY <1>2, <1>3, <1>4, <1>5, <1>6

\* What waits on the stack are blocks z + 1, z + 2 and so on; only the last may
\* have been cut.
IsStack(rem, bs, z) ==
  /\ Len(rem) + z <= Len(bs)
  /\ \A i \in 1 .. Len(rem) - 1 : rem[i] = bs[i + z]
  /\ rem # <<>> => PieceOf(rem[Len(rem)], bs, Len(rem) + z)

Shift == Len(LeadingZero)

LEMMA ShiftIs ==
  ASSUME BlockInv
  PROVE  /\ Shift \in {0, 1}
         /\ Shift = 0 => LeadingZero = <<>>
         /\ Shift = 1 => LeadingZero = <<blocks[1]>>
<1>1. CASE LeadingZero = <<>>
  BY <1>1 DEF Shift
<1>2. CASE LeadingZero # <<>>
  <2>1. LeadingZero = <<blocks[1]>>
    BY <1>2 DEF LeadingZero
  <2> QED
    BY <2>1 DEF Shift
<1> QED
  BY <1>1, <1>2

LEMMA StackPieces ==
  ASSUME NEW bs \in Seq(Block), NEW rem \in Seq(Block), NEW z \in {0, 1}, IsStack(rem, bs, z),
         NEW i \in 1 .. Len(rem)
  PROVE  i + z \in 1 .. Len(bs) /\ PieceOf(rem[i], bs, i + z)
<1>1. Len(rem) \in Nat /\ Len(bs) \in Nat /\ rem # <<>>
  OBVIOUS
<1>2. i + z \in 1 .. Len(bs)
  BY <1>1 DEF IsStack
<1>3. CASE i = Len(rem)
  BY <1>1, <1>2, <1>3 DEF IsStack
<1>4. CASE i # Len(rem)
  <2>1. i \in 1 .. Len(rem) - 1
    BY <1>1, <1>4
  <2> QED
    BY <1>2, <2>1 DEF IsStack, PieceOf
<1> QED
  BY <1>3, <1>4

\* The first m - 1 blocks of s.
IsBelow(left, s, m) ==
  /\ left \in Seq(Block) /\ Len(left) = m - 1
  /\ \A i \in 1 .. m - 1 : left[i] = s[i]

AreWhole(left, bs, z, m) == \A i \in 1 .. m - 1 : left[i] = bs[i + z]

LEMMA StackBelow ==
  ASSUME NEW bs \in Seq(Block), NEW rem \in Seq(Block), NEW z \in {0, 1}, IsStack(rem, bs, z),
         NEW m \in 1 .. Len(rem), NEW left, IsBelow(left, rem, m)
  PROVE  IsStack(left, bs, z) /\ AreWhole(left, bs, z, m)
<1>1. Len(rem) \in Nat /\ Len(bs) \in Nat /\ Len(rem) + z <= Len(bs) /\ Len(left) = m - 1
  BY DEF IsStack, IsBelow
<1>2. ASSUME NEW i \in 1 .. m - 1 PROVE left[i] = bs[i + z]
  <2>1. i \in 1 .. Len(rem) - 1
    BY <1>1
  <2> QED
    BY <2>1 DEF IsStack, IsBelow
<1>3. Len(left) + z <= Len(bs) /\ \A i \in 1 .. Len(left) - 1 : left[i] = bs[i + z]
  <2>1. Len(left) + z <= Len(bs) /\ \A i \in 1 .. Len(left) - 1 : i \in 1 .. m - 1
    BY <1>1
  <2> QED
    BY <1>2, <2>1
<1>4. ASSUME left # <<>> PROVE PieceOf(left[Len(left)], bs, Len(left) + z)
  <2>1. Len(left) \in 1 .. m - 1
    BY <1>1, <1>4 DEF IsBelow
  <2> QED
    BY <1>2, <2>1 DEF PieceOf
<1> QED
  BY <1>2, <1>3, <1>4 DEF IsStack, AreWhole

LEMMA BelowIsWhole ==
  ASSUME BlockInv, IsStack(remaining, blocks, Shift),
         NEW m \in 1 .. Len(remaining), NEW left, IsBelow(left, remaining, m)
  PROVE  AreWhole(left, blocks, Shift, m)
<1>1. Shift \in {0, 1} /\ remaining \in Seq(Block) /\ blocks \in Seq(Block)
  BY ShiftIs DEF BlockInv
<1> QED
  BY <1>1, StackBelow

\* The block given to split() is the one the piece moves from.
LEMMA PriorOnStack ==
  ASSUME BlockInv, IsStack(remaining, blocks, Shift),
         NEW m \in 1 .. Len(remaining), NEW left, IsBelow(left, remaining, m)
  PROVE  PriorOf(Prior(left), blocks, m + Shift)
<1>1. /\ Shift \in {0, 1}
      /\ Shift = 0 => LeadingZero = <<>>
      /\ Shift = 1 => LeadingZero = <<blocks[1]>>
      /\ remaining \in Seq(Block) /\ blocks \in Seq(Block)
  BY ShiftIs DEF BlockInv
<1>2. \A i \in 1 .. m - 1 : left[i] = blocks[i + Shift]
  BY BelowIsWhole DEF AreWhole
<1>3. left \in Seq(Block) /\ Len(left) = m - 1 /\ m \in Nat
  BY DEF IsBelow
<1>4. CASE left = <<>>
  <2>1. m = 1
    BY <1>3, <1>4
  <2>2. Prior(left) = LeadingZero
    BY <1>4 DEF Prior
  <2>3. CASE Shift = 0
    BY <1>1, <2>1, <2>2, <2>3 DEF PriorOf
  <2>4. CASE Shift = 1
    <3>1. m + Shift # 1 /\ (m + Shift) - 1 = 1
      BY <2>1, <2>4
    <3> QED
      BY <1>1, <2>2, <2>4, <3>1 DEF PriorOf
  <2> QED
    BY <1>1, <2>3, <2>4
<1>5. CASE left # <<>>
  <2>1. m - 1 \in 1 .. m - 1 /\ m + Shift # 1 /\ (m - 1) + Shift = (m + Shift) - 1
    BY <1>1, <1>3, <1>5
  <2>2. Prior(left) = <<left[m - 1]>>
    BY <1>3, <1>5 DEF Prior, Last
  <2>3. left[m - 1] = blocks[(m + Shift) - 1]
    BY <1>2, <2>1
  <2> QED
    BY <2>1, <2>2, <2>3 DEF PriorOf
<1> QED
  BY <1>4, <1>5

LEMMA CutStaysOnStack ==
  ASSUME BlockInv, IsStraight(blocks), IsStack(remaining, blocks, Shift),
         NEW m \in 1 .. Len(remaining), NEW left, IsBelow(left, remaining, m),
         NEW b, b = remaining[m], NEW t \in Int, b.rtime < t, t <= End(b)
  PROVE  IsStack(Append(left, SplitFirst(Prior(left), b, t)), blocks, Shift)
<1>1. Shift \in {0, 1} /\ remaining \in Seq(Block) /\ blocks \in Seq(Block)
  BY ShiftIs DEF BlockInv
<1>2. m + Shift \in 1 .. Len(blocks) /\ PieceOf(b, blocks, m + Shift)
  BY <1>1, StackPieces
<1>3. \A i \in 1 .. m - 1 : left[i] = blocks[i + Shift]
  BY BelowIsWhole DEF AreWhole
<1> DEFINE c == SplitFirst(Prior(left), b, t)
           l == Append(left, c)
<1>4. PriorOf(Prior(left), blocks, m + Shift)
  BY PriorOnStack
<1>5. PieceOf(c, blocks, m + Shift)
  BY <1>2, <1>4, CutIsPiece
<1>6. left \in Seq(Block) /\ Len(left) = m - 1 /\ m \in Nat
  BY DEF IsBelow
<1>7. c \in Block
  BY <1>2, <1>5, PieceIsHonest
<1> HIDE DEF c
<1>8. Len(l) = m /\ l[m] = c /\ l # <<>> /\ \A i \in 1 .. m - 1 : l[i] = left[i]
  <2>1. /\ Len(Append(left, c)) = Len(left) + 1 /\ Append(left, c)[Len(left) + 1] = c
        /\ \A i \in 1 .. Len(left) : Append(left, c)[i] = left[i]
    BY <1>6, <1>7
  <2>2. Len(left) + 1 = m
    BY <1>6
  <2>3. Append(left, c) # <<>>
    BY <1>6, <2>1, <2>2
  <2> QED
    BY <1>6, <2>1, <2>2, <2>3
<1> HIDE DEF l
<1>9. Len(l) + Shift <= Len(blocks)
  BY <1>1, <1>2, <1>8
<1>10. \A i \in 1 .. Len(l) - 1 : l[i] = blocks[i + Shift]
  BY <1>3, <1>8
<1>11. IsStack(l, blocks, Shift)
  BY <1>5, <1>8, <1>9, <1>10 DEF IsStack
<1> QED
  BY <1>11 DEF l, c

-----------------------------------------------------------------------------
OnPath(os, b) == b.v \in Timing!ValuesAt(Points(os), os, End(b))

LEMMA StackOnPath ==
  ASSUME BlockInv, IsStraight(blocks), SamePath(original, blocks),
         IsStack(remaining, blocks, Shift), NEW i \in 1 .. Len(remaining)
  PROVE  OnPath(original, remaining[i])
<1>1. Shift \in {0, 1} /\ remaining \in Seq(Block) /\ blocks \in Seq(Block)
  BY ShiftIs DEF BlockInv
<1> DEFINE b == remaining[i]
<1>2. i + Shift \in 1 .. Len(blocks) /\ PieceOf(b, blocks, i + Shift)
  BY <1>1, StackPieces
<1> HIDE DEF b
<1>3. b.v \in Timing!ValuesAt(Points(blocks), blocks, End(b))
  BY <1>2, PieceOnPath
<1>4. End(b) \in Start .. Stop
  BY <1>2, PieceEndsWithin
<1>5. Start .. Stop = Times(original)
  <2>1. original \in Seq(Block)
    BY InputIs DEF BlockInv
  <2> QED
    BY <2>1 DEF Times, Start, Stop, Last
<1>6. b.v \in Timing!ValuesAt(Points(original), original, End(b))
  BY <1>3, <1>4, <1>5 DEF SamePath
<1> QED
  BY <1>6 DEF OnPath, b

\* The parameters of the group are those of blocks on the stack.
IsGroup(group, s) ==
  /\ group \in Seq(Block) /\ group # <<>>
  /\ group[1].v = s[Len(s)].v /\ group[1].set = s[Len(s)].set
  /\ \A i \in 1 .. Len(group) : \E j \in 1 .. Len(s) : group[i].set = s[j].set

LEMMA GroupOnPath ==
  ASSUME BlockInv, stage = "groups", remaining # <<>>,
         IsStraight(blocks), SamePath(original, blocks), IsStack(remaining, blocks, Shift),
         NEW group, IsGroup(group, remaining), NEW t, BackSpans(group, t, Cut)
  PROVE  OnPath(original, GroupToBlock(group))
<1> DEFINE L == Len(remaining)
           top == remaining[L]
<1>1. Shift \in {0, 1} /\ remaining \in Seq(Block) /\ blocks \in Seq(Block) /\ Links(blocks)
  BY ShiftIs DEF BlockInv, IsStraight
<1>2. L \in Nat \ {0} /\ L \in 1 .. L
  BY <1>1
<1>3. \A j \in 1 .. L : j + Shift \in 1 .. Len(blocks) /\ PieceOf(remaining[j], blocks, j + Shift)
  BY <1>1, StackPieces
<1>4. \A j \in 1 .. L : remaining[j].set = blocks[j + Shift].set /\ Honest(remaining[j])
  BY <1>3, PieceIsHonest
<1>5. ASSUME NEW j \in 1 .. L, remaining[j].set PROVE top.set
  <2>1. /\ j + Shift \in 1 .. Len(blocks) /\ blocks[j + Shift].set
        /\ L + Shift \in 1 .. Len(blocks) /\ top.set = blocks[L + Shift].set
    BY <1>2, <1>3, <1>4, <1>5
  <2>2. L + Shift \in j + Shift .. Len(blocks)
    BY <1>1, <1>2, <2>1
  <2>3. blocks[L + Shift].set
    BY <1>1, <2>1, <2>2, SetInAllLater
  <2> QED
    BY <2>1, <2>3
<1>6. group \in Seq(Block) /\ group # <<>> /\ group[1].v = top.v /\ group[1].set = top.set
  BY DEF IsGroup
<1>7. \A i \in 1 .. Len(group) : group[i].set => group[1].set
  BY <1>5, <1>6 DEF IsGroup
<1>8. Honest(group[1])
  BY <1>2, <1>4, <1>6 DEF Honest
<1>9. GroupToBlock(group).v = top.v
  BY <1>6, <1>7, <1>8, GroupEndsAt
<1>10. End(GroupToBlock(group)) = Cut
  BY <1>6, GroupIsBlock
<1>11. End(top) = Cut
  BY TopIs DEF Last
<1>12. OnPath(original, top)
  BY <1>2, StackOnPath
<1> QED
  BY <1>9, <1>10, <1>11, <1>12 DEF OnPath

\* The inductive invariant, of channels where the parameter stays set.
PathInv ==
  /\ stage \in {"resample", "groups"} => blocks = JumpsRemoved(original)
  /\ stage = "groups" => IsStack(remaining, blocks, Shift)
  /\ \A i \in 1 .. Len(resampled) : OnPath(original, resampled[i])

LEMMA OnStraightPath ==
  ASSUME BlockInv, PathInv, StaysSet, stage = "groups"
  PROVE  /\ IsStraight(blocks) /\ SamePath(original, blocks)
         /\ IsStack(remaining, blocks, Shift)
<1>1. original \in Inputs /\ blocks = JumpsRemoved(original)
  BY DEF BlockInv, PathInv
<1> QED
  BY <1>1, RemovedIsStraight, RemovalKeepsPath DEF PathInv

\* One group becomes one block.
LEMMA GroupKeepsPath ==
  ASSUME BlockInv, PathInv, StaysSet, stage = "groups", remaining # <<>>,
         NEW group, IsGroup(group, remaining), NEW t, BackSpans(group, t, Cut),
         NEW left, IsStack(left, blocks, Shift), Group(group, left)
  PROVE  PathInv'
<1> DEFINE b == GroupToBlock(group)
<1>1. OnPath(original, b)
  BY OnStraightPath, GroupOnPath
<1>2. b \in Block
  BY GroupIsBlock DEF IsGroup
<1>3. /\ resampled' = Append(resampled, b) /\ remaining' = left
      /\ original' = original /\ blocks' = blocks /\ stage' = stage
  BY DEF Group
<1> HIDE DEF b
<1>4. resampled \in Seq(Block) /\ Len(resampled) \in Nat
  BY DEF BlockInv
<1>5. /\ Len(resampled') = Len(resampled) + 1
      /\ \A i \in 1 .. Len(resampled) : resampled'[i] = resampled[i]
      /\ resampled'[Len(resampled) + 1] = b
  BY <1>2, <1>3, <1>4
<1>6. \A i \in 1 .. Len(resampled') : OnPath(original, resampled'[i])
  <2> TAKE i \in 1 .. Len(resampled')
  <2>1. CASE i = Len(resampled) + 1
    BY <1>1, <1>5, <2>1
  <2>2. CASE i # Len(resampled) + 1
    <3>1. i \in 1 .. Len(resampled)
      BY <1>4, <1>5, <2>2
    <3> QED
      BY <1>5, <3>1 DEF PathInv
  <2> QED
    BY <2>1, <2>2
<1>7. Shift' = Shift
  BY <1>3 DEF Shift, LeadingZero
<1>8. IsStack(remaining', blocks', Shift')
  BY <1>3, <1>7
<1>9. blocks' = JumpsRemoved(original')
  BY <1>3 DEF PathInv
<1>10. \A i \in 1 .. Len(resampled') : OnPath(original', resampled'[i])
  BY <1>3, <1>6
<1> QED
  BY <1>8, <1>9, <1>10 DEF PathInv

LEMMA PrefixIs ==
  ASSUME NEW s \in Seq(Block), NEW k \in 0 .. Len(s)
  PROVE  /\ SubSeq(s, 1, k) \in Seq(Block) /\ Len(SubSeq(s, 1, k)) = k
         /\ \A i \in 1 .. k : SubSeq(s, 1, k)[i] = s[i]
<1>1. CASE k = 0
  <2>1. SubSeq(s, 1, k) = <<>>
    BY <1>1
  <2> DEFINE e == <<>>
  <2>2. e \in Seq(Block) /\ Len(e) = 0
    OBVIOUS
  <2> QED
    BY <1>1, <2>1, <2>2
<1>2. CASE k # 0
  <2>1. k \in 1 .. Len(s)
    BY <1>2
  <2> QED
    BY <2>1
<1> QED
  BY <1>1, <1>2

LEMMA FrontIsBelow ==
  ASSUME NEW s \in Seq(Block), s # <<>>
  PROVE  Len(s) \in 1 .. Len(s) /\ IsBelow(Front(s), s, Len(s)) /\ Last(s) = s[Len(s)]
<1>1. Len(s) \in Nat \ {0}
  OBVIOUS
<1>2. Front(s) = SubSeq(s, 1, Len(s) - 1) /\ Last(s) = s[Len(s)]
  BY DEF Front, Last
<1>3. /\ SubSeq(s, 1, Len(s) - 1) \in Seq(Block) /\ Len(SubSeq(s, 1, Len(s) - 1)) = Len(s) - 1
      /\ \A i \in 1 .. Len(s) - 1 : SubSeq(s, 1, Len(s) - 1)[i] = s[i]
  <2>1. Len(s) - 1 \in 0 .. Len(s)
    BY <1>1
  <2> QED
    BY <2>1, PrefixIs
<1> QED
  BY <1>1, <1>2, <1>3 DEF IsBelow

LEMMA ConsumeOnePath ==
  ASSUME BlockInv, PathInv, StaysSet, ConsumeOne
  PROVE  PathInv'
<1> DEFINE b == Last(remaining)
<1>1. stage = "groups" /\ remaining # <<>> /\ Group(<<b>>, Front(remaining))
  BY DEF ConsumeOne
<1>2. b \in Block /\ End(b) = Cut
  BY <1>1, TopIs
<1>3. remaining \in Seq(Block) /\ blocks \in Seq(Block) /\ Shift \in {0, 1}
  BY ShiftIs DEF BlockInv
<1>4. /\ Len(remaining) \in 1 .. Len(remaining) /\ b = remaining[Len(remaining)]
      /\ IsBelow(Front(remaining), remaining, Len(remaining))
  BY <1>1, <1>3, FrontIsBelow
<1>5. IsStack(Front(remaining), blocks, Shift)
  BY <1>1, <1>3, <1>4, OnStraightPath, StackBelow
<1> HIDE DEF b
<1>6. IsGroup(<<b>>, remaining)
  BY <1>2, <1>4 DEF IsGroup
<1>7. BackSpans(<<b>>, b.rtime, Cut)
  BY <1>2, OneBlock
<1> QED
  BY <1>1, <1>5, <1>6, <1>7, GroupKeepsPath

LEMMA ConsumeAllPath ==
  ASSUME BlockInv, PathInv, StaysSet, ConsumeAll
  PROVE  PathInv'
<1>1. stage = "groups" /\ remaining # <<>> /\ Group(Reverse(remaining), <<>>)
  BY DEF ConsumeAll
<1>2. Spans(remaining, Start, Cut) /\ remaining \in Seq(Block) /\ blocks \in Seq(Block)
      /\ Shift \in {0, 1}
  BY <1>1, CutIs, ShiftIs DEF BlockInv
<1>3. Reverse(remaining) \in Seq(Block) /\ BackSpans(Reverse(remaining), Start, Cut)
  BY <1>2, ReverseSpans
<1>4. IsStack(<<>>, blocks, Shift)
  <2>1. Len(<<>>) = 0 /\ Len(blocks) \in Nat /\ blocks # <<>>
    BY <1>2 DEF BlockInv, Spans
  <2> QED
    BY <1>2, <2>1 DEF IsStack
<1>5. IsGroup(Reverse(remaining), remaining)
  <2> DEFINE N == Len(remaining)
  <2>1. N \in Nat \ {0}
    BY <1>1, <1>2
  <2>2. Reverse(remaining) = [i \in 1 .. N |-> remaining[(N - i) + 1]]
    BY DEF Reverse
  <2>3. Len(Reverse(remaining)) = N
    BY <2>1, <2>2
  <2> HIDE DEF N
  <2>4. \A i \in 1 .. N : (N - i) + 1 \in 1 .. N /\ Reverse(remaining)[i] = remaining[(N - i) + 1]
    BY <2>1, <2>2
  <2>5. 1 \in 1 .. N /\ (N - 1) + 1 = N /\ Reverse(remaining) # <<>>
    BY <2>1, <2>3
  <2> QED
    BY <1>3, <2>3, <2>4, <2>5 DEF IsGroup, N
<1> QED
  BY <1>1, <1>3, <1>4, <1>5, GroupKeepsPath

\* A group that is completed with the end of the block at m.
LEMMA GroupWithPartPath ==
  ASSUME BlockInv, PathInv, StaysSet, stage = "groups", remaining # <<>>,
         NEW m \in 1 .. Len(remaining), NEW b, b = remaining[m],
         NEW left, IsBelow(left, remaining, m),
         NEW group, NEW t, IsCut(group, b, t, left), GroupWithPart(group, b, t, left),
         IsGroup(Append(group, SplitSecond(b, t)), remaining)
  PROVE  PathInv'
<1> DEFINE first == SplitFirst(Prior(left), b, t)
           second == SplitSecond(b, t)
           g == Append(group, second)
           l == Append(left, first)
<1>1. /\ group \in Seq(Block) /\ left \in Seq(Block) /\ b \in Block /\ t \in Int
      /\ BackFills(group, End(b), Cut) /\ b.rtime < t /\ t <= End(b)
  BY DEF IsCut
<1>2. Prior(left) \in Seq(Block)
  BY <1>1, PriorIs
<1>3. ~Outside(b, t) /\ second \in Block /\ second.rtime = t /\ End(second) = End(b)
  BY <1>1, <1>2, CutBlock
<1>4. Group(g, l)
  BY <1>3 DEF GroupWithPart
<1>5. IsStack(l, blocks, Shift)
  BY <1>1, OnStraightPath, CutStaysOnStack
<1> HIDE DEF first, second
<1>6. BackSpans(g, t, Cut)
  BY <1>1, <1>3, AppendFills
<1>7. IsGroup(g, remaining)
  BY DEF second
<1> HIDE DEF g, l
<1> QED
  BY <1>4, <1>5, <1>6, <1>7, GroupKeepsPath

LEMMA SplitGreedyPath ==
  ASSUME BlockInv, PathInv, StaysSet, SplitGreedy
  PROVE  PathInv'
<1> DEFINE b == Last(remaining)
           left == Front(remaining)
           t == GreedyCut(b, left)
           second == SplitSecond(b, t)
<1>1. /\ stage = "groups" /\ remaining # <<>>
      /\ IsCut(<<>>, b, t, left) /\ GroupWithPart(<<>>, b, t, left)
  BY GreedyCutIs
<1>2. remaining \in Seq(Block)
  BY DEF BlockInv
<1>3. /\ Len(remaining) \in 1 .. Len(remaining) /\ b = remaining[Len(remaining)]
      /\ IsBelow(left, remaining, Len(remaining))
  BY <1>1, <1>2, FrontIsBelow
<1> HIDE DEF b, left, t
<1>4. b \in Block /\ t \in Int /\ b.rtime < t /\ t <= End(b)
  BY <1>1 DEF IsCut
<1>5. second \in Block
  <2>1. <<>> \in Seq(Block)
    OBVIOUS
  <2> QED
    BY <1>4, <2>1, CutBlock
<1>6. second.v = b.v /\ second.set = b.set
  BY <1>4, SecondIs
<1> HIDE DEF second
<1>7. Append(<<>>, second) = <<second>>
  BY <1>5
<1>8. IsGroup(<<second>>, remaining)
  BY <1>3, <1>5, <1>6 DEF IsGroup
<1>9. IsGroup(Append(<<>>, SplitSecond(b, t)), remaining)
  BY <1>7, <1>8 DEF second
<1> QED
  BY <1>1, <1>3, <1>9, GroupWithPartPath

LEMMA TakenAt ==
  ASSUME NEW s \in Seq(Block), NEW k \in 1 .. Len(s)
  PROVE  /\ Len(Taken(s, k)) = k
         /\ \A i \in 1 .. k : Taken(s, k)[i] = s[Len(s) - i + 1]
<1> DEFINE N == Len(s)
           u == SubSeq(s, N - k + 1, N)
<1>1. N \in Nat \ {0} /\ k \in Nat \ {0} /\ N - k + 1 \in 1 .. N /\ (N - (N - k + 1)) + 1 = k
  OBVIOUS
<1>2. /\ Len(u) = k
      /\ \A i \in 1 .. k : u[i] = s[(N - k + 1) + i - 1]
  BY <1>1
<1>3. Taken(s, k) = [i \in 1 .. k |-> u[(k - i) + 1]]
  BY <1>2 DEF Taken, Reverse
<1> HIDE DEF u, N
<1>4. Len(Taken(s, k)) = k
  BY <1>1, <1>3
<1>5. ASSUME NEW i \in 1 .. k PROVE Taken(s, k)[i] = s[N - i + 1]
  <2>1. (k - i) + 1 \in 1 .. k /\ (N - k + 1) + ((k - i) + 1) - 1 = N - i + 1
    BY <1>1
  <2> QED
    BY <1>2, <1>3, <2>1
<1> QED
  BY <1>4, <1>5 DEF N

LEMMA SplitThriftyPath ==
  ASSUME BlockInv, PathInv, StaysSet, SplitThrifty
  PROVE  PathInv'
<1> DEFINE n == Fitting
           L == Len(remaining)
           group == Taken(remaining, n)
           b == Uncut(remaining, n)
           t == ThriftyCut(group)
           left == Front(Below(remaining, n))
           second == SplitSecond(b, t)
           m == L - n
<1>1. /\ stage = "groups" /\ remaining # <<>>
      /\ n \in 1 .. L - 1 /\ b = remaining[m]
      /\ IsCut(group, b, t, left) /\ GroupWithPart(group, b, t, left)
  BY ThriftyCutIs
<1>2. remaining \in Seq(Block)
  BY DEF BlockInv
<1>3. L \in Nat \ {0} /\ m \in 1 .. L - 1 /\ m \in 1 .. L /\ n \in 1 .. L
  BY <1>1, <1>2
<1>4. IsBelow(left, remaining, m)
  <2> DEFINE u == Below(remaining, n)
  <2>1. u = SubSeq(remaining, 1, m)
    BY DEF Below
  <2>2. u \in Seq(Block) /\ Len(u) = m /\ \A i \in 1 .. m : u[i] = remaining[i]
    <3>1. m \in 0 .. Len(remaining)
      BY <1>3
    <3> HIDE DEF m, u
    <3> QED
      BY <1>2, <2>1, <3>1, PrefixIs
  <2> HIDE DEF u
  <2>3. u # <<>>
    BY <1>3, <2>2
  <2>4. IsBelow(Front(u), u, m)
    BY <2>2, <2>3, FrontIsBelow
  <2>5. IsBelow(Front(u), remaining, m)
    <3>1. \A i \in 1 .. m - 1 : i \in 1 .. m
      BY <1>3
    <3> QED
      BY <2>2, <2>4, <3>1 DEF IsBelow
  <2> QED
    BY <2>5 DEF u
<1>5. /\ Len(group) = n
      /\ \A i \in 1 .. n : group[i] = remaining[L - i + 1]
  BY <1>2, <1>3, TakenAt
<1> HIDE DEF n, group, b, t, left, L, m
<1>6. group \in Seq(Block) /\ b \in Block /\ t \in Int /\ b.rtime < t /\ t <= End(b)
  BY <1>1 DEF IsCut
<1>7. second \in Block
  <2>1. <<>> \in Seq(Block)
    OBVIOUS
  <2> QED
    BY <1>6, <2>1, CutBlock
<1>8. second.v = b.v /\ second.set = b.set
  BY <1>6, SecondIs
<1> HIDE DEF second
<1> DEFINE g == Append(group, second)
<1>9. /\ g \in Seq(Block) /\ Len(g) = n + 1 /\ g[n + 1] = second
      /\ \A i \in 1 .. n : g[i] = group[i]
  BY <1>3, <1>5, <1>6, <1>7
<1> HIDE DEF g
<1>10. g # <<>> /\ g[1] = remaining[L]
  <2>1. 1 \in 1 .. n /\ L - 1 + 1 = L /\ n + 1 # 0
    BY <1>3
  <2> QED
    BY <1>5, <1>9, <2>1
<1>11. \A i \in 1 .. n + 1 : \E j \in 1 .. L : g[i].set = remaining[j].set
  <2> TAKE i \in 1 .. n + 1
  <2>1. CASE i = n + 1
    BY <1>1, <1>3, <1>8, <1>9, <2>1
  <2>2. CASE i # n + 1
    <3>1. i \in 1 .. n /\ L - i + 1 \in 1 .. L
      BY <1>3, <2>2
    <3>2. g[i] = remaining[L - i + 1]
      BY <1>5, <1>9, <3>1
    <3> QED
      BY <3>1, <3>2
  <2> QED
    BY <2>1, <2>2
<1>12. IsGroup(g, remaining)
  BY <1>9, <1>10, <1>11 DEF IsGroup, L
<1>13. IsGroup(Append(group, SplitSecond(b, t)), remaining)
  BY <1>12 DEF g, second
<1>14. m \in 1 .. Len(remaining)
  BY <1>3 DEF L
<1> QED
  BY <1>1, <1>4, <1>13, <1>14, GroupWithPartPath

LEMMA StartResamplingPath ==
  ASSUME BlockInv, PathInv, StartResampling
  PROVE  PathInv'
<1>1. /\ stage = "resample" /\ original' = original /\ blocks' = blocks /\ resampled' = resampled
      /\ IF Len(blocks) <= 1 THEN stage' = "done"
         ELSE /\ remaining' = IF LeadingZero = <<>> THEN blocks ELSE Tail(blocks)
              /\ stage' = "groups"
  BY DEF StartResampling
<1>2. /\ resampled = <<>> /\ blocks \in Seq(Block) /\ blocks # <<>> /\ Len(blocks) \in Nat \ {0}
      /\ Shift \in {0, 1}
      /\ Shift = 0 => LeadingZero = <<>>
      /\ Shift = 1 => LeadingZero = <<blocks[1]>>
  BY <1>1, ShiftIs DEF BlockInv, Spans
<1>3. \A i \in 1 .. Len(resampled') : OnPath(original', resampled'[i])
  BY <1>1, <1>2
<1>4. Shift' = Shift
  BY <1>1 DEF Shift, LeadingZero
<1>5. blocks' = JumpsRemoved(original')
  BY <1>1 DEF PathInv
<1>6. ASSUME stage' = "groups" PROVE IsStack(remaining', blocks, Shift)
  <2>1. Len(blocks) > 1 /\ remaining' = IF LeadingZero = <<>> THEN blocks ELSE Tail(blocks)
    BY <1>1, <1>2, <1>6
  <2>2. CASE Shift = 0
    <3>1. remaining' = blocks
      BY <1>2, <2>1, <2>2
    <3>2. Len(blocks) + 0 = Len(blocks) /\ \A i \in 1 .. Len(blocks) - 1 : i + 0 = i
      BY <1>2
    <3> QED
      BY <1>2, <2>2, <3>1, <3>2 DEF IsStack, PieceOf
  <2>3. CASE Shift = 1
    <3>1. remaining' = Tail(blocks)
      <4>1. <<blocks[1]>> # <<>>
        OBVIOUS
      <4> QED
        BY <1>2, <2>1, <2>3, <4>1
    <3>2. /\ Len(Tail(blocks)) = Len(blocks) - 1
          /\ \A i \in 1 .. Len(blocks) - 1 : Tail(blocks)[i] = blocks[i + 1]
      BY <1>2
    <3> DEFINE w == Tail(blocks)
               N == Len(blocks)
    <3> HIDE DEF w, N
    <3>3. N \in Nat /\ N > 1 /\ Len(w) = N - 1 /\ \A i \in 1 .. N - 1 : w[i] = blocks[i + 1]
      BY <1>2, <2>1, <3>2 DEF w, N
    <3>4. Len(w) + 1 <= N /\ Len(w) \in 1 .. N - 1 /\ \A i \in 1 .. Len(w) - 1 : i \in 1 .. N - 1
      BY <3>3
    <3>5. IsStack(w, blocks, 1)
      BY <3>3, <3>4 DEF IsStack, PieceOf, N
    <3> QED
      BY <2>3, <3>1, <3>5 DEF w
  <2> QED
    BY <1>2, <2>2, <2>3
<1>7. stage' = "groups" => IsStack(remaining', blocks', Shift')
  BY <1>1, <1>4, <1>6
<1> QED
  BY <1>3, <1>5, <1>7 DEF PathInv

LEMMA PathStep == BlockInv /\ (StaysSet => PathInv) /\ [Next]_vars => (StaysSet => PathInv)'
<1> SUFFICES ASSUME BlockInv, StaysSet => PathInv, [Next]_vars, StaysSet' PROVE PathInv'
  OBVIOUS
<1>1. original' = original
  <2>1. CASE Next
    BY <2>1 DEF Next, RemoveJumpPosition, StartResampling, ConsumeOne, SplitGreedy, SplitThrifty,
                ConsumeAll, FinishResampling, Returned, Group, GroupWithPart, vars
  <2>2. CASE UNCHANGED vars
    BY <2>2 DEF vars
  <2> QED
    BY <2>1, <2>2
<1>2. StaysSet /\ PathInv
  BY <1>1 DEF StaysSet
<1>3. CASE RemoveJumpPosition
  <2>1. /\ stage = "jump" /\ stage' = "resample" /\ blocks' = JumpsRemoved(blocks)
        /\ resampled' = resampled
    BY <1>3 DEF RemoveJumpPosition, JumpsRemoved
  <2>2. blocks = original /\ resampled = <<>>
    BY <2>1 DEF BlockInv
  <2> QED
    BY <1>1, <2>1, <2>2 DEF PathInv
<1>4. CASE FinishResampling
  <2>1. stage' = "done" /\ resampled' = resampled
    BY <1>4 DEF FinishResampling
  <2> QED
    BY <1>1, <1>2, <2>1 DEF PathInv
<1>5. CASE UNCHANGED vars \/ Returned
  <2>1. UNCHANGED vars
    BY <1>5 DEF Returned
  <2>2. Shift' = Shift
    BY <2>1 DEF vars, Shift, LeadingZero
  <2> QED
    BY <1>2, <2>1, <2>2 DEF PathInv, vars
<1> QED
  BY <1>2, <1>3, <1>4, <1>5, StartResamplingPath, ConsumeOnePath, SplitGreedyPath,
     SplitThriftyPath, ConsumeAllPath DEF Next

\* Each block that resample_blocks makes ends on the path of the input, and so
\* does each piece of a block that waits to be put in a group: the prior block
\* given to split() is the one the piece moves from, however often a block is
\* cut and whatever groups were made before.
THEOREM BlocksStayOnPath == Spec => []BlocksEndOnPath
<1>1. Init => (StaysSet => PathInv)
  <2> SUFFICES ASSUME Init PROVE PathInv
    OBVIOUS
  <2>1. stage = "jump" /\ resampled = <<>>
    BY DEF Init
  <2> QED
    BY <2>1 DEF PathInv
<1>2. BlockInv /\ (StaysSet => PathInv) => BlocksEndOnPath
  <2> SUFFICES ASSUME BlockInv, StaysSet => PathInv PROVE BlocksEndOnPath
    OBVIOUS
  <2>1. stage # "threw" /\ remaining \in Seq(Block) /\ resampled \in Seq(Block)
        /\ (stage # "groups" => remaining = <<>>)
    BY DEF BlockInv
  <2>2. ASSUME StaysSet, NEW i \in 1 .. Len(remaining) PROVE OnPath(original, remaining[i])
    <3>1. stage = "groups"
      BY <2>1
    <3>2. IsStraight(blocks) /\ SamePath(original, blocks) /\ IsStack(remaining, blocks, Shift)
      BY <2>2, <3>1, OnStraightPath
    <3> QED
      BY <3>2, StackOnPath
  <2>3. ASSUME StaysSet, NEW i \in 1 .. Len(resampled) PROVE OnPath(original, resampled[i])
    BY <2>3 DEF PathInv
  <2>4. /\ \A b \in Range(remaining) : \E i \in 1 .. Len(remaining) : b = remaining[i]
        /\ \A b \in Range(resampled) : \E i \in 1 .. Len(resampled) : b = resampled[i]
    BY <2>1 DEF Range
  <2>5. ASSUME StaysSet, NEW b \in Range(remaining) \cup Range(resampled)
        PROVE  b.v \in Timing!ValuesAt(Points(original), original, End(b))
    <3>1. OnPath(original, b)
      BY <2>2, <2>3, <2>4, <2>5
    <3> QED
      BY <3>1 DEF OnPath
  <2> QED
    BY <2>1, <2>5 DEF BlocksEndOnPath, StaysSet
<1> QED
  BY <1>1, <1>2, BlockInvariant, PathStep, PTL DEF Spec
=============================================================================
