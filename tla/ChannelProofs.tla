--------------------------- MODULE ChannelProofs -----------------------------
(***************************************************************************)
(* Theorems about ChannelPipeline, for every document, CHNA chunk and      *)
(* length of the audio.                                                    *)
(***************************************************************************)
EXTENDS ChannelPipeline, SequenceLemmas, SequenceTheorems

\* The elements of S that are below c.
Lower(S, c) == {d \in S : d < c}

LEMMA RankGrows ==
  ASSUME NEW S, S \subseteq Nat, IsFiniteSet(S), NEW c \in S, NEW d \in Nat, c < d
  PROVE  /\ Cardinality(Lower(S, c)) \in Nat /\ Cardinality(Lower(S, d)) \in Nat
         /\ Cardinality(Lower(S, c)) < Cardinality(Lower(S, d))
<1> DEFINE A == Lower(S, c)
           B == Lower(S, d)
<1>1. A \subseteq S /\ B \subseteq S /\ c \notin A /\ A \cup {c} \subseteq B
  <2>1. c \in Nat /\ ~(c < c) /\ \A x \in Nat : x < c => x < d
    OBVIOUS
  <2>2. A \subseteq B
    BY <2>1 DEF Lower
  <2>3. c \in B /\ c \notin A
    BY <2>1 DEF Lower
  <2>4. A \subseteq S /\ B \subseteq S
    BY DEF Lower
  <2> QED
    BY <2>2, <2>3, <2>4
<1> HIDE DEF A, B
<1>2. IsFiniteSet(A) /\ IsFiniteSet(B)
  BY <1>1, FS_Subset
<1>3. Cardinality(A) \in Nat /\ Cardinality(B) \in Nat
  BY <1>2, FS_CardinalityType
<1>4. Cardinality(A \cup {c}) = Cardinality(A) + 1
  BY <1>1, <1>2, FS_AddElement
<1>5. Cardinality(A \cup {c}) <= Cardinality(B)
  BY <1>1, <1>2, FS_Subset
<1> QED
  BY <1>3, <1>4, <1>5 DEF A, B

LEMMA MaxIs ==
  ASSUME NEW S, S \subseteq Nat, IsFiniteSet(S), S # {}
  PROVE  Max(S) \in S /\ \A x \in S : Max(S) >= x
<1> DEFINE N == Cardinality(S)
           R(c) == Cardinality(Lower(S, c))
           T == {N - R(c) : c \in S}
<1>1. ASSUME NEW c \in S PROVE R(c) \in Nat /\ N \in Nat /\ N - R(c) \in Nat
  <2>1. Lower(S, c) \subseteq S
    BY DEF Lower
  <2>2. IsFiniteSet(Lower(S, c)) /\ R(c) <= N
    BY <2>1, FS_Subset
  <2>3. R(c) \in Nat /\ N \in Nat
    BY <2>2, FS_CardinalityType
  <2> HIDE DEF N, R
  <2> QED
    BY <2>2, <2>3 DEF R
<1> HIDE DEF N, R
<1>2. T \subseteq Nat /\ T # {}
  BY <1>1
<1>3. PICK t \in T : \A u \in T : t <= u
  <2> HIDE DEF T
  <2> QED
    BY <1>2, LeastNat
<1>4. PICK c \in S : t = N - R(c)
  BY <1>3
<1>5. ASSUME NEW d \in S PROVE c >= d
  <2> SUFFICES ASSUME c < d PROVE FALSE
    OBVIOUS
  <2>1. R(c) < R(d)
    BY RankGrows DEF R
  <2>2. N - R(c) <= N - R(d)
    BY <1>3, <1>4
  <2> QED
    BY <1>1, <2>1, <2>2
<1>6. \E x \in S : \A y \in S : x >= y
  BY <1>5
<1> QED
  BY <1>6 DEF Max

\* The ranks of the elements of a finite set of numbers are the numbers below
\* its size, and each of them is the rank of one element.
LEMMA RanksAre ==
  ASSUME NEW S, S \subseteq Nat, IsFiniteSet(S)
  PROVE  /\ Cardinality(S) \in Nat
         /\ \A c \in S : Cardinality(Lower(S, c)) \in 0 .. Cardinality(S) - 1
         /\ \A c, d \in S : Cardinality(Lower(S, c)) = Cardinality(Lower(S, d)) => c = d
         /\ \A k \in 0 .. Cardinality(S) - 1 : \E c \in S : Cardinality(Lower(S, c)) = k
<1> DEFINE N == Cardinality(S)
           R(c) == Cardinality(Lower(S, c))
           f == [c \in S |-> R(c)]
           T == 0 .. N - 1
<1>1. N \in Nat
  BY FS_CardinalityType
<1>2. ASSUME NEW c \in S PROVE R(c) \in T
  <2>1. Lower(S, c) \subseteq S \ {c}
    BY DEF Lower
  <2>2. IsFiniteSet(S \ {c}) /\ Cardinality(S \ {c}) = N - 1
    BY FS_RemoveElement
  <2>3. IsFiniteSet(Lower(S, c)) /\ R(c) <= N - 1
    BY <2>1, <2>2, FS_Subset
  <2>4. R(c) \in Nat
    BY <2>3, FS_CardinalityType
  <2> HIDE DEF N, R
  <2> QED
    BY <1>1, <2>3, <2>4 DEF R
<1>3. ASSUME NEW c \in S, NEW d \in S, R(c) = R(d) PROVE c = d
  <2>1. c \in Nat /\ d \in Nat
    OBVIOUS
  <2>2. ~(c < d) /\ ~(d < c)
    <3>1. c < d => R(c) < R(d)
      BY <2>1, RankGrows
    <3>2. d < c => R(d) < R(c)
      BY <2>1, RankGrows
    <3> HIDE DEF R
    <3>3. R(c) \in Int /\ R(d) \in Int
      BY <1>1, <1>2 DEF T
    <3> QED
      BY <1>3, <3>1, <3>2, <3>3
  <2> QED
    BY <2>1, <2>2
<1> HIDE DEF N, R
<1>4. f \in Injection(S, T)
  BY <1>2, <1>3 DEF Injection, IsInjective
<1>5. IsFiniteSet(T) /\ Cardinality(T) = N
  <2>1. 0 \in Int /\ N - 1 \in Int
    BY <1>1
  <2>2. IsFiniteSet(T) /\ Cardinality(T) = IF 0 > N - 1 THEN 0 ELSE (N - 1) - 0 + 1
    BY <2>1, FS_Interval
  <2> QED
    BY <1>1, <2>2
<1>6. f \in Surjection(S, T)
  <2> HIDE DEF f, T
  <2> QED
    BY <1>4, <1>5, FS_Injection DEF N
<1>7. \A k \in T : \E c \in S : R(c) = k
  BY <1>6 DEF Surjection
<1> QED
  BY <1>1, <1>2, <1>3, <1>7 DEF N, R

-----------------------------------------------------------------------------
(***************************************************************************)
(* What programmes lead to.  Referenced() is the least set closed under    *)
(* references; as many steps as there are elements are enough to get it.   *)
(***************************************************************************)
Step(d, S) == S \cup {r[2] : r \in {q \in d.refs : q[1] \in S}}

LEMMA ReachedExists ==
  ASSUME NEW d, NEW N \in Nat
  PROVE  \E f : f = [n \in 0 .. N |-> IF n = 0 THEN d.programmes ELSE Step(d, f[n - 1])]
<1> DEFINE F(f, m) == [n \in 0 .. m |-> IF n = 0 THEN d.programmes ELSE Step(d, f[n - 1])]
           Ex(m) == \E f : f = F(f, m)
           S == {m \in Nat : Ex(m)}
<1>1. 0 \in S
  <2> DEFINE f == [n \in 0 .. 0 |-> d.programmes]
  <2>1. f = F(f, 0)
    OBVIOUS
  <2> QED
    BY <2>1
<1>2. ASSUME NEW n \in Nat, n \in S PROVE n + 1 \in S
  <2>1. PICK f : f = F(f, n)
    BY <1>2
  <2> DEFINE g == F(f, n + 1)
             h == F(f, n)
  <2>2. f = h
    BY <2>1
  <2>3. \A i \in 0 .. n : h[i] = g[i]
    OBVIOUS
  <2> HIDE DEF h
  <2>4. \A i \in 0 .. n + 1 : i # 0 => i - 1 \in 0 .. n
    OBVIOUS
  <2>5. \A i \in 0 .. n : g[i] = f[i]
    BY <2>2, <2>3
  <2> HIDE DEF g
  <2>6. \A i \in 0 .. n + 1 : i # 0 => g[i - 1] = f[i - 1]
    BY <2>4, <2>5
  <2>7. F(f, n + 1) = F(g, n + 1)
    BY <2>6
  <2>8. g = F(g, n + 1)
    BY <2>7 DEF g
  <2>9. Ex(n + 1)
    BY <2>8
  <2> HIDE DEF Ex
  <2> QED
    BY <2>9
<1> HIDE DEF S
<1>3. N \in S
  BY <1>1, <1>2, InductionOverNat
<1> QED
  BY <1>3 DEF S

\* Both ways to say which tracks are used agree.
LEMMA UsedTracksAre ==
  ASSUME NEW d, IsDocument(d)
  PROVE  TracksOfProgrammes(d) = d.tracks \cap (d.common \cup Referenced(d))
<1> DEFINE E == d.elements
           N == Cardinality(E)
           F(f) == [n \in 0 .. N |-> IF n = 0 THEN d.programmes
                                     ELSE LET before == f[n - 1]
                                          IN  before \cup {r[2] : r \in {q \in d.refs : q[1] \in before}}]
           reached == CHOOSE f : f = F(f)
<1>1. IsFiniteSet(E) /\ N \in Nat /\ d.programmes \subseteq E /\ d.refs \subseteq E \X E
  BY FS_CardinalityType DEF IsDocument
<1>2. reached = F(reached)
  <2> DEFINE G(f) == [n \in 0 .. N |-> IF n = 0 THEN d.programmes ELSE Step(d, f[n - 1])]
  <2>1. \E f : f = G(f)
    <3> HIDE DEF N
    <3> QED
      BY <1>1, ReachedExists
  <2>2. PICK f : f = G(f)
    BY <2>1
  <2>3. F(f) = G(f)
    BY DEF Step
  <2>4. \E ff : ff = F(ff)
    BY <2>2, <2>3
  <2> HIDE DEF F
  <2> QED
    BY <2>4
<1>3. TracksOfProgrammes(d) = d.tracks \cap (d.common \cup reached[N])
  BY DEF TracksOfProgrammes
<1>4. /\ reached[0] = d.programmes
      /\ \A n \in 1 .. N : reached[n] = Step(d, reached[n - 1])
  <2> DEFINE r == reached
  <2>1. r = F(r)
    BY <1>2
  <2> HIDE DEF r
  <2>2. \A n \in 0 .. N : r[n] = IF n = 0 THEN d.programmes ELSE Step(d, r[n - 1])
    BY <2>1 DEF Step
  <2>3. 0 \in 0 .. N /\ \A n \in 1 .. N : n \in 0 .. N /\ n # 0
    BY <1>1
  <2> HIDE DEF N
  <2> QED
    BY <2>2, <2>3 DEF r
<1> HIDE DEF reached, F, N
<1>5. \A S \in SUBSET E : S \subseteq Step(d, S) /\ Step(d, S) \in SUBSET E
  BY <1>1 DEF Step
<1>6. \A S \in SUBSET E : (\A r \in d.refs : r[1] \in S => r[2] \in S) <=> Step(d, S) = S
  BY DEF Step
<1> DEFINE R == Referenced(d)
<1>7. R \in SUBSET E /\ d.programmes \subseteq R /\ Step(d, R) = R
  <2>1. R \in SUBSET E /\ d.programmes \subseteq R
    BY <1>1 DEF Referenced
  <2>2. ASSUME NEW r \in d.refs, r[1] \in R PROVE r[2] \in R
    BY <1>1, <2>2 DEF Referenced
  <2> HIDE DEF R
  <2> QED
    BY <1>6, <2>1, <2>2
<1>8. ASSUME NEW S \in SUBSET E, d.programmes \subseteq S, Step(d, S) = S PROVE R \subseteq S
  BY <1>6, <1>8 DEF Referenced
<1> HIDE DEF R
<1> DEFINE Big(n) == Step(d, reached[n]) = reached[n] \/ Cardinality(reached[n]) >= n
           T == {n \in Nat : n \in 0 .. N => /\ reached[n] \subseteq R /\ d.programmes \subseteq reached[n]
                                             /\ Big(n)}
<1>9. 0 \in T
  <2>1. reached[0] \subseteq R /\ d.programmes \subseteq reached[0]
    BY <1>4, <1>7
  <2>2. IsFiniteSet(reached[0])
    BY <1>1, <1>4, FS_Subset
  <2>3. Cardinality(reached[0]) >= 0
    BY <2>2, FS_CardinalityType
  <2> QED
    BY <2>1, <2>3
<1>10. ASSUME NEW n \in Nat, n \in T PROVE n + 1 \in T
  <2> SUFFICES ASSUME n + 1 \in 0 .. N
               PROVE  /\ reached[n + 1] \subseteq R /\ d.programmes \subseteq reached[n + 1]
                      /\ Big(n + 1)
    OBVIOUS
  <2>1. n \in 0 .. N /\ n + 1 \in 1 .. N /\ (n + 1) - 1 = n
    BY <1>1
  <2>2. reached[n + 1] = Step(d, reached[n])
    BY <1>4, <2>1
  <2>3. reached[n] \subseteq R /\ d.programmes \subseteq reached[n] /\ Big(n)
    BY <1>10, <2>1
  <2>4. reached[n + 1] \subseteq Step(d, R)
    BY <2>2, <2>3 DEF Step
  <2>5. reached[n + 1] \subseteq R /\ d.programmes \subseteq reached[n + 1]
    BY <1>5, <1>7, <2>2, <2>3, <2>4
  <2>6. Big(n + 1)
    <3>1. CASE Step(d, reached[n]) = reached[n]
      BY <2>2, <3>1
    <3>2. CASE Step(d, reached[n]) # reached[n]
      <4> DEFINE A == reached[n]
                 B == reached[n + 1]
      <4>1. A \subseteq B /\ A # B /\ B \subseteq E
        BY <1>5, <1>7, <2>2, <2>3, <2>5, <3>2
      <4>2. Cardinality(A) >= n
        BY <2>3, <3>2
      <4> HIDE DEF A, B
      <4>3. IsFiniteSet(B)
        BY <1>1, <4>1, FS_Subset
      <4>4. IsFiniteSet(A) /\ Cardinality(A) <= Cardinality(B) /\ Cardinality(A) # Cardinality(B)
        BY <4>1, <4>3, FS_Subset
      <4>5. Cardinality(A) \in Nat /\ Cardinality(B) \in Nat
        BY <4>3, <4>4, FS_CardinalityType
      <4>6. Cardinality(B) >= n + 1
        BY <4>2, <4>4, <4>5
      <4> QED
        BY <4>6 DEF B
    <3> QED
      BY <3>1, <3>2
  <2> HIDE DEF Big
  <2> QED
    BY <2>5, <2>6
<1> HIDE DEF T
<1>11. N \in T
  BY <1>1, <1>9, <1>10, InductionOverNat
<1>12. reached[N] \subseteq R /\ d.programmes \subseteq reached[N] /\ Big(N)
  BY <1>1, <1>11 DEF T
<1>13. Step(d, reached[N]) = reached[N]
  <2>1. CASE Cardinality(reached[N]) >= N
    <3>1. reached[N] \subseteq E
      BY <1>7, <1>12
    <3>2. IsFiniteSet(reached[N]) /\ Cardinality(reached[N]) <= N
      BY <1>1, <3>1, FS_Subset DEF N
    <3>3. Cardinality(reached[N]) \in Nat
      BY <3>2, FS_CardinalityType
    <3>4. Cardinality(reached[N]) = N
      BY <1>1, <2>1, <3>2, <3>3
    <3>5. reached[N] = E
      BY <1>1, <3>1, <3>4, FS_Subset DEF N
    <3> QED
      BY <1>5, <3>5
  <2> QED
    BY <1>12, <2>1
<1>14. reached[N] = R
  BY <1>7, <1>8, <1>12, <1>13
<1> QED
  BY <1>3, <1>14 DEF R

-----------------------------------------------------------------------------
(***************************************************************************)
(* Blocks of samples: bs holds the items of the stream g from after        *)
(* position a up to b.                                                     *)
(***************************************************************************)
Segment(g, a, b) == [k \in 1 .. b - a |-> g[a + k]]

Carries(bs, g, a, b) ==
  \E p \in [1 .. Len(bs) + 1 -> Nat] :
    /\ p[1] = a /\ p[Len(bs) + 1] = b
    /\ \A i \in 1 .. Len(bs) : /\ p[i] <= p[i + 1]
                               /\ bs[i] = Segment(g, p[i], p[i + 1])

LEMMA CarriesNothing ==
  ASSUME NEW g, NEW a \in Nat, NEW b
  PROVE  Carries(<<>>, g, a, b) <=> a = b
<1>1. Len(<<>>) = 0
  OBVIOUS
<1>2. ASSUME a = b PROVE Carries(<<>>, g, a, b)
  <2> DEFINE p == [i \in 1 .. Len(<<>>) + 1 |-> a]
  <2>1. p \in [1 .. Len(<<>>) + 1 -> Nat] /\ p[1] = a /\ p[Len(<<>>) + 1] = b
    BY <1>1, <1>2
  <2>2. \A i \in 1 .. Len(<<>>) : FALSE
    BY <1>1
  <2> HIDE DEF p
  <2> QED
    BY <2>1, <2>2 DEF Carries
<1>3. ASSUME Carries(<<>>, g, a, b) PROVE a = b
  BY <1>1, <1>3 DEF Carries
<1> QED
  BY <1>2, <1>3

\* Two parts of a stream, one after the other.
LEMMA CarriesConcat ==
  ASSUME NEW V, NEW s \in Seq(V), NEW t \in Seq(V), NEW g, NEW a, NEW b, NEW c,
         Carries(s, g, a, b), Carries(t, g, b, c)
  PROVE  Carries(s \o t, g, a, c)
<1> DEFINE m == Len(s)
           n == Len(t)
           u == s \o t
<1>1. m \in Nat /\ n \in Nat /\ Len(u) = m + n
  OBVIOUS
<1>2. /\ \A i \in 1 .. m : u[i] = s[i]
      /\ \A i \in m + 1 .. m + n : u[i] = t[i - m]
  OBVIOUS
<1> HIDE DEF u
<1>3. PICK p \in [1 .. m + 1 -> Nat] :
        /\ p[1] = a /\ p[m + 1] = b
        /\ \A i \in 1 .. m : p[i] <= p[i + 1] /\ s[i] = Segment(g, p[i], p[i + 1])
  BY DEF Carries
<1>4. PICK q \in [1 .. n + 1 -> Nat] :
        /\ q[1] = b /\ q[n + 1] = c
        /\ \A i \in 1 .. n : q[i] <= q[i + 1] /\ t[i] = Segment(g, q[i], q[i + 1])
  BY DEF Carries
<1> HIDE DEF m, n
<1> DEFINE r == [i \in 1 .. (m + n) + 1 |-> IF i <= m THEN p[i] ELSE q[i - m]]
<1>5. r \in [1 .. (m + n) + 1 -> Nat]
  <2>1. ASSUME NEW i \in 1 .. (m + n) + 1
        PROVE  (i <= m => i \in 1 .. m + 1) /\ (~(i <= m) => i - m \in 1 .. n + 1)
    BY <1>1
  <2> QED
    BY <1>3, <1>4, <2>1
<1>6. \A i \in 1 .. m + 1 : r[i] = p[i]
  <2>1. ASSUME NEW i \in 1 .. m + 1
        PROVE  i \in 1 .. (m + n) + 1 /\ (~(i <= m) => i = m + 1 /\ i - m = 1)
    BY <1>1
  <2> QED
    BY <1>3, <1>4, <2>1
<1>7. \A i \in m + 1 .. (m + n) + 1 : r[i] = q[i - m]
  <2>1. ASSUME NEW i \in m + 1 .. (m + n) + 1
        PROVE  i \in 1 .. (m + n) + 1 /\ ~(i <= m)
    BY <1>1
  <2> QED
    BY <2>1
<1> HIDE DEF r
<1>8. r[1] = a /\ r[(m + n) + 1] = c
  <2>1. 1 \in 1 .. m + 1 /\ (m + n) + 1 \in m + 1 .. (m + n) + 1 /\ ((m + n) + 1) - m = n + 1
    BY <1>1
  <2> QED
    BY <1>3, <1>4, <1>6, <1>7, <2>1
<1>9. ASSUME NEW i \in 1 .. m + n
      PROVE  r[i] <= r[i + 1] /\ u[i] = Segment(g, r[i], r[i + 1])
  <2>1. CASE i <= m
    <3>1. i \in 1 .. m /\ i \in 1 .. m + 1 /\ i + 1 \in 1 .. m + 1
      BY <1>1, <2>1
    <3> QED
      BY <1>2, <1>3, <1>6, <3>1
  <2>2. CASE ~(i <= m)
    <3>1. /\ i \in m + 1 .. m + n /\ i \in m + 1 .. (m + n) + 1 /\ i + 1 \in m + 1 .. (m + n) + 1
          /\ i - m \in 1 .. n /\ (i + 1) - m = (i - m) + 1
      BY <1>1, <2>2
    <3>2. u[i] = t[i - m] /\ r[i] = q[i - m] /\ r[i + 1] = q[(i - m) + 1]
      BY <1>2, <1>7, <3>1
    <3> QED
      BY <1>4, <3>1, <3>2
  <2> QED
    BY <2>1, <2>2
<1>10. Carries(u, g, a, c)
  BY <1>1, <1>5, <1>8, <1>9 DEF Carries
<1> QED
  BY <1>10 DEF u

LEMMA CarriesOne ==
  ASSUME NEW g, NEW a \in Nat, NEW b \in Nat, a <= b
  PROVE  Carries(<<Segment(g, a, b)>>, g, a, b)
<1> DEFINE e == <<Segment(g, a, b)>>
           p == [i \in 1 .. 1 + 1 |-> IF i = 1 THEN a ELSE b]
<1>1. Len(e) = 1 /\ e[1] = Segment(g, a, b)
  OBVIOUS
<1>2. p \in [1 .. 1 + 1 -> Nat] /\ p[1] = a /\ p[1 + 1] = b
  OBVIOUS
<1>3. \A i \in 1 .. 1 : i = 1
  OBVIOUS
<1> HIDE DEF e, p
<1>4. Carries(e, g, a, b)
  BY <1>1, <1>2, <1>3 DEF Carries
<1> QED
  BY <1>4 DEF e

Items(g) == {g[k] : k \in Nat}

LEMMA SegmentIs ==
  ASSUME NEW g, NEW a \in Nat, NEW b \in Nat, a <= b
  PROVE  /\ Segment(g, a, b) \in Seq(Items(g))
         /\ Len(Segment(g, a, b)) = b - a
         /\ \A k \in 1 .. b - a : Segment(g, a, b)[k] = g[a + k]
<1> DEFINE s == Segment(g, a, b)
           n == b - a
<1>1. n \in Nat /\ \A k \in 1 .. n : a + k \in Nat
  OBVIOUS
<1>2. s = [k \in 1 .. n |-> g[a + k]]
  BY DEF Segment
<1>3. \A k \in 1 .. n : s[k] = g[a + k]
  BY <1>2
<1>4. \A k \in Nat : g[k] \in Items(g)
  BY DEF Items
<1> HIDE DEF n
<1>5. s \in [1 .. n -> Items(g)]
  BY <1>1, <1>2, <1>4
<1> HIDE DEF s
<1>6. s \in Seq(Items(g)) /\ Len(s) = n
  BY <1>1, <1>5
<1> QED
  BY <1>3, <1>6 DEF n, s

LEMMA SegmentConcat ==
  ASSUME NEW g, NEW a \in Nat, NEW b \in Nat, NEW c \in Nat, a <= b, b <= c
  PROVE  Segment(g, a, b) \o Segment(g, b, c) = Segment(g, a, c)
<1> DEFINE s == Segment(g, a, b)
           t == Segment(g, b, c)
           w == Segment(g, a, c)
           u == s \o t
           m == b - a
           n == c - b
<1>1. a <= c /\ m + n = c - a /\ m \in Nat /\ n \in Nat
  OBVIOUS
<1>2. s \in Seq(Items(g)) /\ Len(s) = m /\ \A k \in 1 .. m : s[k] = g[a + k]
  BY SegmentIs
<1>3. t \in Seq(Items(g)) /\ Len(t) = n /\ \A k \in 1 .. n : t[k] = g[b + k]
  BY SegmentIs
<1>4. w \in Seq(Items(g)) /\ Len(w) = m + n /\ \A k \in 1 .. m + n : w[k] = g[a + k]
  <2>1. w \in Seq(Items(g)) /\ Len(w) = c - a /\ \A k \in 1 .. c - a : w[k] = g[a + k]
    BY <1>1, SegmentIs
  <2> HIDE DEF w, m, n
  <2> QED
    BY <1>1, <2>1
<1> HIDE DEF s, t, w, m, n
<1>5. /\ u \in Seq(Items(g)) /\ Len(u) = m + n
      /\ \A k \in 1 .. m + n : u[k] = IF k <= m THEN s[k] ELSE t[k - m]
  <2>1. /\ u \in Seq(Items(g)) /\ Len(u) = Len(s) + Len(t)
        /\ \A k \in 1 .. Len(s) + Len(t) : u[k] = IF k <= Len(s) THEN s[k] ELSE t[k - Len(s)]
    BY <1>2, <1>3, ConcatProperties
  <2> HIDE DEF u
  <2> QED
    BY <1>2, <1>3, <2>1
<1> HIDE DEF u
<1>6. ASSUME NEW k \in 1 .. m + n PROVE u[k] = w[k]
  <2>1. CASE k <= m
    <3>1. k \in 1 .. m
      BY <2>1
    <3> QED
      BY <1>2, <1>4, <1>5, <2>1, <3>1
  <2>2. CASE ~(k <= m)
    <3>1. k - m \in 1 .. n /\ b + (k - m) = a + k
      BY <1>1, <2>2 DEF m
    <3> QED
      BY <1>3, <1>4, <1>5, <2>2, <3>1
  <2> QED
    BY <2>1, <2>2
<1>7. u = w
  BY <1>4, <1>5, <1>6, SeqEqual
<1> QED
  BY <1>7 DEF s, t, u, w

\* The samples of the blocks, one after another.
LEMMA FlattenCarries ==
  ASSUME NEW V, NEW bs \in Seq(V), NEW g, NEW a \in Nat, NEW b \in Nat, Carries(bs, g, a, b)
  PROVE  a <= b /\ FlattenSeq(bs) = Segment(g, a, b)
<1> DEFINE N == Len(bs)
<1>1. N \in Nat
  OBVIOUS
<1>2. PICK p \in [1 .. N + 1 -> Nat] :
        /\ p[1] = a /\ p[N + 1] = b
        /\ \A i \in 1 .. N : p[i] <= p[i + 1] /\ bs[i] = Segment(g, p[i], p[i + 1])
  BY DEF Carries
<1>3. CASE N = 0
  <2>1. bs = <<>> /\ a = b
    BY <1>2, <1>3
  <2>2. FlattenSeq(bs) = <<>>
    BY <1>3, <2>1 DEF FlattenSeq
  <2>3. Segment(g, a, b) \in Seq(Items(g)) /\ Len(Segment(g, a, b)) = 0
    <3>1. a <= b /\ b - a = 0
      BY <2>1
    <3> QED
      BY <3>1, SegmentIs
  <2>4. Segment(g, a, b) = <<>>
    BY <2>3
  <2> QED
    BY <2>1, <2>2, <2>4
<1>4. CASE N # 0
  <2>1. PICK f : /\ f = [i \in 1 .. N |-> IF i = 1 THEN bs[i] ELSE f[i - 1] \o bs[i]]
                 /\ FlattenSeq(bs) = f[N]
    BY <1>1, <1>4, FlattenIs
  <2> HIDE DEF N
  <2>2. \A i \in 1 .. N : f[i] = IF i = 1 THEN bs[i] ELSE f[i - 1] \o bs[i]
    BY <2>1
  <2> DEFINE S == {n \in Nat : n \in 1 .. N => a <= p[n + 1] /\ f[n] = Segment(g, a, p[n + 1])}
  <2>3. 0 \in S
    OBVIOUS
  <2>4. ASSUME NEW n \in Nat, n \in S PROVE n + 1 \in S
    <3> SUFFICES ASSUME n + 1 \in 1 .. N
                 PROVE  a <= p[(n + 1) + 1] /\ f[n + 1] = Segment(g, a, p[(n + 1) + 1])
      OBVIOUS
    <3>1. /\ p[n + 1] \in Nat /\ p[(n + 1) + 1] \in Nat /\ p[n + 1] <= p[(n + 1) + 1]
          /\ bs[n + 1] = Segment(g, p[n + 1], p[(n + 1) + 1])
      <4>1. n + 1 \in 1 .. N + 1 /\ (n + 1) + 1 \in 1 .. N + 1
        BY <1>1
      <4> QED
        BY <1>2, <4>1
    <3>2. CASE n = 0
      BY <1>2, <2>2, <3>1, <3>2
    <3>3. CASE n # 0
      <4>1. n \in 1 .. N /\ n + 1 # 1 /\ (n + 1) - 1 = n
        BY <1>1, <3>3
      <4>2. a <= p[n + 1] /\ f[n] = Segment(g, a, p[n + 1])
        BY <2>4, <4>1
      <4>3. f[n + 1] = f[n] \o bs[n + 1]
        BY <2>2, <4>1
      <4> DEFINE x == p[n + 1]
                 y == p[(n + 1) + 1]
      <4>4. x \in Nat /\ y \in Nat /\ x <= y /\ a <= x
        BY <3>1, <4>2
      <4>5. f[n + 1] = Segment(g, a, x) \o Segment(g, x, y)
        BY <3>1, <4>2, <4>3
      <4> HIDE DEF x, y
      <4>6. Segment(g, a, x) \o Segment(g, x, y) = Segment(g, a, y)
        BY <4>4, SegmentConcat
      <4>7. a <= y
        BY <4>4
      <4> QED
        BY <4>5, <4>6, <4>7 DEF y
    <3> QED
      BY <3>2, <3>3
  <2> HIDE DEF S
  <2>5. N \in S
    BY <1>1, <2>3, <2>4, InductionOverNat
  <2>6. a <= p[N + 1] /\ f[N] = Segment(g, a, p[N + 1])
    <3>1. N \in 1 .. N
      BY <1>1, <1>4
    <3> QED
      BY <2>5, <3>1 DEF S
  <2> QED
    BY <1>2, <2>1, <2>6
<1> QED
  BY <1>3, <1>4

-----------------------------------------------------------------------------
(***************************************************************************)
(* The samples of the file, frame by frame, and those of the new file for  *)
(* a channel mapping m.                                                    *)
(***************************************************************************)
Input       == [k \in Nat |-> [c \in 1 .. FileChannels |-> <<c - 1, k>>]]
OutputOf(m) == [k \in Nat |-> [j \in DOMAIN m |-> <<m[j], k>>]]

Blocks(g) == {Segment(g, a, b) : a, b \in Nat}

LEMMA MapFrameIs ==
  ASSUME mapping \in Seq(Channels), NEW k \in Nat
  PROVE  MapFrame(Input[k]) = OutputOf(mapping)[k]
<1>1. FileChannels \in Nat
  BY PipelineAssumption
<1>2. ASSUME NEW j \in DOMAIN mapping
      PROVE  Input[k][mapping[j] + 1] = <<mapping[j], k>>
  <2>1. mapping[j] \in Channels
    OBVIOUS
  <2>2. mapping[j] + 1 \in 1 .. FileChannels /\ (mapping[j] + 1) - 1 = mapping[j]
    BY <1>1, <2>1 DEF Channels
  <2> QED
    BY <2>2 DEF Input
<1> QED
  BY <1>2 DEF MapFrame, OutputOf

\* ApplyChannelMapping makes frames a + 1 to b of the new file from those of
\* the old one.
MapBlock(s) == [k \in DOMAIN s |-> MapFrame(s[k])]

LEMMA MapSegment ==
  ASSUME mapping \in Seq(Channels), NEW a \in Nat, NEW b \in Nat
  PROVE  MapBlock(Segment(Input, a, b)) = Segment(OutputOf(mapping), a, b)
<1> DEFINE s == Segment(Input, a, b)
           t == Segment(OutputOf(mapping), a, b)
<1>1. DOMAIN s = 1 .. b - a /\ \A k \in 1 .. b - a : s[k] = Input[a + k]
  BY DEF Segment
<1>2. t = [k \in 1 .. b - a |-> OutputOf(mapping)[a + k]]
  BY DEF Segment
<1> HIDE DEF s, t
<1>3. \A k \in 1 .. b - a : MapFrame(s[k]) = OutputOf(mapping)[a + k]
  <2>1. \A k \in 1 .. b - a : a + k \in Nat
    OBVIOUS
  <2> QED
    BY <1>1, <2>1, MapFrameIs
<1>4. MapBlock(s) = t
  BY <1>1, <1>2, <1>3 DEF MapBlock
<1> QED
  BY <1>4 DEF s, t

LEMMA MapCarries ==
  ASSUME mapping \in Seq(Channels), NEW bs \in Seq(Blocks(Input)), NEW a, NEW b,
         Carries(bs, Input, a, b)
  PROVE  /\ [i \in DOMAIN bs |-> MapBlock(bs[i])] \in Seq(Blocks(OutputOf(mapping)))
         /\ Carries([i \in DOMAIN bs |-> MapBlock(bs[i])], OutputOf(mapping), a, b)
<1> DEFINE ms == [i \in DOMAIN bs |-> MapBlock(bs[i])]
           g == OutputOf(mapping)
           N == Len(bs)
<1>1. N \in Nat /\ DOMAIN bs = 1 .. N /\ \A i \in 1 .. N : ms[i] = MapBlock(bs[i])
  OBVIOUS
<1>2. \A i \in 1 .. N : bs[i] \in Blocks(Input)
  OBVIOUS
<1>3. ASSUME NEW i \in 1 .. N PROVE MapBlock(bs[i]) \in Blocks(g)
  <2>1. PICK x \in Nat, y \in Nat : bs[i] = Segment(Input, x, y)
    BY <1>2 DEF Blocks
  <2>2. MapBlock(bs[i]) = Segment(g, x, y)
    BY <2>1, MapSegment
  <2> QED
    BY <2>2 DEF Blocks
<1>4. PICK p \in [1 .. N + 1 -> Nat] :
        /\ p[1] = a /\ p[N + 1] = b
        /\ \A i \in 1 .. N : p[i] <= p[i + 1] /\ bs[i] = Segment(Input, p[i], p[i + 1])
  BY DEF Carries
<1>5. ASSUME NEW i \in 1 .. N PROVE ms[i] = Segment(g, p[i], p[i + 1])
  <2>1. i \in 1 .. N + 1 /\ i + 1 \in 1 .. N + 1
    BY <1>1
  <2>2. p[i] \in Nat /\ p[i + 1] \in Nat
    BY <2>1
  <2> QED
    BY <1>1, <1>4, <2>2, MapSegment
<1>6. ms \in [1 .. N -> Blocks(g)]
  <2>1. ms = [i \in 1 .. N |-> MapBlock(bs[i])]
    BY <1>1
  <2> HIDE DEF ms, g, N
  <2> QED
    BY <1>3, <2>1
<1> HIDE DEF ms, g, N
<1>7. ms \in Seq(Blocks(g)) /\ Len(ms) = N
  BY <1>1, <1>6
<1>8. Carries(ms, g, a, b)
  BY <1>4, <1>5, <1>7 DEF Carries
<1> QED
  BY <1>7, <1>8 DEF ms, g

-----------------------------------------------------------------------------
(***************************************************************************)
(* The invariant.                                                          *)
(***************************************************************************)
Stages == {"load", "remove", "repack", "stream", "write", "done", "thrown"}

Used == TracksOfProgrammes(loaded.doc)

LoadedInv ==
  /\ stage \in Stages
  /\ IsDocument(loaded.doc)
  /\ IsFiniteSet(DOMAIN loaded.channelMap) /\ DOMAIN loaded.channelMap \subseteq Nat
  /\ \A u \in DOMAIN loaded.channelMap : loaded.channelMap[u] \in Channels
  /\ ~Sharing => \A u, v \in DOMAIN loaded.channelMap :
                    loaded.channelMap[u] = loaded.channelMap[v] => u = v

\* The document and the channel map until RepackChannels has run.
MetadataInv ==
  /\ stage \in {"load", "remove"} => doc = loaded.doc /\ channelMap = loaded.channelMap
  /\ stage \in {"repack", "stream", "write", "done"} =>
       doc.tracks = Used /\ doc.silent = loaded.doc.silent \cap Used
  /\ stage = "repack" =>
       /\ DOMAIN channelMap = DOMAIN loaded.channelMap \cap Used
       /\ \A u \in DOMAIN channelMap : channelMap[u] = loaded.channelMap[u]

\* Every channel of the new file is that of a track, the mapping takes it from
\* where the track was, and no track is lost for another on the same channel
\* unless channels are shared.
MappingInv ==
  /\ mapping \in Seq(Channels)
  /\ DOMAIN channelMap \subseteq DOMAIN loaded.channelMap \cap Used
  /\ \A u \in DOMAIN channelMap : /\ channelMap[u] \in 0 .. Len(mapping) - 1
                                  /\ mapping[channelMap[u] + 1] = loaded.channelMap[u]
  /\ \A k \in 0 .. Len(mapping) - 1 : \E u \in DOMAIN channelMap : channelMap[u] = k
  /\ ~Sharing => DOMAIN loaded.channelMap \cap Used \subseteq DOMAIN channelMap

\* The file is what was written, then what waits to be written, then what waits
\* to be mapped, up to what has been read.
StreamInv ==
  /\ framesRead \in 0 .. FileFrames
  /\ closed \in BOOLEAN /\ (closed => framesRead = FileFrames)
  /\ inBlocks \in Seq(Blocks(Input)) /\ outBlocks \in Seq(Blocks(OutputOf(mapping)))
  /\ \E w, m \in Nat : /\ written = Segment(OutputOf(mapping), 0, w)
                       /\ Carries(outBlocks, OutputOf(mapping), w, m)
                       /\ Carries(inBlocks, Input, m, framesRead)

AudioInv ==
  /\ stage \in {"load", "remove", "repack"} =>
       /\ framesRead = 0 /\ closed = FALSE
       /\ inBlocks = <<>> /\ outBlocks = <<>> /\ written = <<>>
  /\ stage = "stream" => StreamInv
  /\ stage \in {"write", "done"} => written = Segment(OutputOf(mapping), 0, FileFrames)

ChnaInv ==
  LET audible == doc.tracks \ doc.silent
  IN  stage = "done" => /\ audible \subseteq DOMAIN channelMap
                        /\ chna = {[uid |-> u, trackIndex |-> channelMap[u] + 1] : u \in audible}

PipeInv ==
  /\ LoadedInv /\ MetadataInv /\ AudioInv /\ ChnaInv
  /\ stage \in {"stream", "write", "done"} => MappingInv

LEMMA PipeInit ==
  Init => PipeInv
<1> SUFFICES ASSUME Init PROVE PipeInv
  OBVIOUS
<1>1. stage = "load" /\ doc = loaded.doc /\ channelMap = loaded.channelMap /\ channelMap = <<>>
  BY DEF Init
<1>2. IsDocument(loaded.doc)
  BY PipelineAssumption DEF Init
<1>3. DOMAIN loaded.channelMap = {}
  BY <1>1
<1>4. IsFiniteSet(DOMAIN loaded.channelMap)
  BY <1>3, FS_EmptySet
<1>5. LoadedInv
  BY <1>1, <1>2, <1>3, <1>4 DEF LoadedInv, Stages
<1>6. AudioInv
  BY <1>1 DEF Init, AudioInv
<1> QED
  BY <1>1, <1>5, <1>6 DEF PipeInv, MetadataInv, ChnaInv

\* What came from the file stays.
LEMMA LoadedStays ==
  ASSUME LoadedInv, loaded' = loaded, stage' \in Stages
  PROVE  LoadedInv'
BY DEF LoadedInv

LEMMA LoadRowKeeps ==
  ASSUME PipeInv, LoadRow
  PROVE  PipeInv'
<1>1. /\ stage = "load" /\ stage' = "load" /\ doc = loaded.doc /\ channelMap = loaded.channelMap
      /\ loaded' = [doc |-> doc', channelMap |-> channelMap']
      /\ UNCHANGED audioVars
  BY DEF LoadRow, PipeInv, MetadataInv
<1>2. PICK uid \in Uids, c \in Channels :
        /\ Sharing \/ \A other \in DOMAIN channelMap : channelMap[other] = c => other = uid
        /\ channelMap' = [u \in DOMAIN channelMap \cup {uid} |->
                            IF u = uid THEN c ELSE channelMap[u]]
        /\ doc' \in {doc, WithTrack(uid)}
  BY DEF LoadRow
<1>3. uid \in Nat
  BY PipelineAssumption
<1>4. IsDocument(doc)
  BY <1>1 DEF PipeInv, LoadedInv
<1>5. IsDocument(doc')
  <2>1. CASE doc' = doc
    BY <1>4, <2>1
  <2>2. CASE doc' = WithTrack(uid)
    <3>1. DOMAIN doc = {"elements", "programmes", "tracks", "silent", "common", "refs"}
      BY <1>4 DEF IsDocument
    <3>2. /\ DOMAIN doc' = DOMAIN doc
          /\ doc'.elements = doc.elements \cup {uid} /\ doc'.tracks = doc.tracks \cup {uid}
          /\ doc'.programmes = doc.programmes /\ doc'.silent = doc.silent
          /\ doc'.common = doc.common /\ doc'.refs = doc.refs
      BY <2>2, <3>1 DEF WithTrack
    <3>3. IsFiniteSet(doc'.elements)
      BY <1>4, <3>2, FS_AddElement DEF IsDocument
    <3>4. doc'.refs \subseteq doc'.elements \X doc'.elements
      BY <1>4, <3>2 DEF IsDocument
    <3> QED
      BY <1>3, <1>4, <3>1, <3>2, <3>3, <3>4 DEF IsDocument
  <2> QED
    BY <1>2, <2>1, <2>2
<1>6. /\ IsFiniteSet(DOMAIN channelMap) /\ DOMAIN channelMap \subseteq Nat
      /\ \A u \in DOMAIN channelMap : channelMap[u] \in Channels
      /\ ~Sharing => \A u, v \in DOMAIN channelMap : channelMap[u] = channelMap[v] => u = v
  BY <1>1 DEF PipeInv, LoadedInv
<1>7. DOMAIN channelMap' = DOMAIN channelMap \cup {uid}
  BY <1>2
<1>8. IsFiniteSet(DOMAIN channelMap')
  BY <1>6, <1>7, FS_AddElement
<1>9. loaded'.doc = doc' /\ loaded'.channelMap = channelMap'
  BY <1>1
<1>10. LoadedInv'
  <2>1. DOMAIN channelMap' \subseteq Nat /\ \A u \in DOMAIN channelMap' : channelMap'[u] \in Channels
    BY <1>2, <1>3, <1>6, <1>7
  <2>2. ~Sharing => \A u, v \in DOMAIN channelMap' : channelMap'[u] = channelMap'[v] => u = v
    BY <1>2, <1>6, <1>7
  <2> QED
    BY <1>1, <1>5, <1>8, <1>9, <2>1, <2>2 DEF LoadedInv, Stages, Channels
<1>11. AudioInv'
  BY <1>1 DEF PipeInv, AudioInv, audioVars
<1> QED
  BY <1>1, <1>9, <1>10, <1>11 DEF PipeInv, MetadataInv, ChnaInv

LEMMA LoadThrowsKeeps ==
  ASSUME PipeInv, LoadThrows
  PROVE  PipeInv'
<1>1. stage' = "thrown" /\ loaded' = loaded
  BY DEF LoadThrows
<1>2. LoadedInv'
  BY <1>1, LoadedStays DEF PipeInv, Stages
<1> QED
  BY <1>1, <1>2 DEF PipeInv, MetadataInv, AudioInv, ChnaInv

LEMMA EndLoadKeeps ==
  ASSUME PipeInv, EndLoad
  PROVE  PipeInv'
<1>1. /\ stage = "load" /\ stage' = "remove"
      /\ loaded' = loaded /\ doc' = doc /\ channelMap' = channelMap /\ UNCHANGED audioVars
  BY DEF EndLoad, audioVars
<1>2. LoadedInv'
  BY <1>1, LoadedStays DEF PipeInv, Stages
<1> QED
  BY <1>1, <1>2 DEF PipeInv, MetadataInv, AudioInv, ChnaInv, audioVars

LEMMA RemoveUnusedElementsKeeps ==
  ASSUME PipeInv, RemoveUnusedElements
  PROVE  PipeInv'
<1>1. /\ stage = "remove" /\ stage' = "repack" /\ loaded' = loaded
      /\ doc' = WithoutUnused
      /\ channelMap' = [u \in DOMAIN channelMap \cap doc'.tracks |-> channelMap[u]]
      /\ UNCHANGED audioVars
  BY DEF RemoveUnusedElements
<1>2. doc = loaded.doc /\ channelMap = loaded.channelMap /\ IsDocument(doc)
  BY <1>1 DEF PipeInv, MetadataInv, LoadedInv
<1>3. LoadedInv'
  BY <1>1, LoadedStays DEF PipeInv, Stages
<1> DEFINE kept == Referenced(doc) \cup doc.common
<1>4. doc'.tracks = doc.tracks \cap kept /\ doc'.silent = doc.silent \cap kept
  <2>1. DOMAIN doc = {"elements", "programmes", "tracks", "silent", "common", "refs"}
    BY <1>2 DEF IsDocument
  <2> QED
    BY <1>1, <2>1 DEF WithoutUnused
<1>5. Used = doc.tracks \cap (doc.common \cup Referenced(doc))
  BY <1>2, UsedTracksAre DEF Used
<1>6. Used' = Used
  BY <1>1 DEF Used
<1>7. doc'.tracks = Used' /\ doc'.silent = loaded'.doc.silent \cap Used'
  <2>1. doc.silent \subseteq doc.tracks
    BY <1>2 DEF IsDocument
  <2> QED
    BY <1>1, <1>2, <1>4, <1>5, <1>6, <2>1
<1>8. /\ DOMAIN channelMap' = DOMAIN loaded'.channelMap \cap Used'
      /\ \A u \in DOMAIN channelMap' : channelMap'[u] = loaded'.channelMap[u]
  BY <1>1, <1>2, <1>7
<1>9. MetadataInv'
  BY <1>1, <1>7, <1>8 DEF MetadataInv
<1>10. AudioInv' /\ ChnaInv'
  BY <1>1 DEF PipeInv, AudioInv, ChnaInv, audioVars
<1> QED
  BY <1>1, <1>3, <1>9, <1>10 DEF PipeInv

\* The channels that are left, and the track that each is given to.
LEMMA UidForChannelIs ==
  ASSUME IsFiniteSet(DOMAIN channelMap), DOMAIN channelMap \subseteq Nat,
         NEW c \in UsedChannels
  PROVE  UidForChannel(c) \in DOMAIN channelMap /\ channelMap[UidForChannel(c)] = c
<1> DEFINE S == {u \in DOMAIN channelMap : channelMap[u] = c}
<1>1. S \subseteq DOMAIN channelMap /\ S # {}
  BY DEF UsedChannels
<1>2. IsFiniteSet(S)
  BY <1>1, FS_Subset
<1>3. S \subseteq Nat
  BY <1>1
<1>4. UidForChannel(c) = Max(S)
  BY DEF UidForChannel
<1> HIDE DEF S
<1>5. UidForChannel(c) \in S
  BY <1>1, <1>2, <1>3, <1>4, MaxIs
<1> QED
  BY <1>5 DEF S

LEMMA RepackChannelsKeeps ==
  ASSUME PipeInv, RepackChannels
  PROVE  PipeInv'
<1> DEFINE S == UsedChannels
           N == Cardinality(S)
<1>1. /\ stage = "repack" /\ stage' = "stream" /\ loaded' = loaded /\ doc' = doc
      /\ mapping' = [k \in 1 .. N |-> CHOOSE c \in S : OutChannel(c) = k - 1]
      /\ channelMap' = [u \in {UidForChannel(c) : c \in S} |-> OutChannel(channelMap[u])]
      /\ UNCHANGED audioVars
  BY DEF RepackChannels
<1>2. LoadedInv
  BY DEF PipeInv
<1>3. /\ DOMAIN channelMap = DOMAIN loaded.channelMap \cap Used
      /\ \A u \in DOMAIN channelMap : channelMap[u] = loaded.channelMap[u]
      /\ doc.tracks = Used /\ doc.silent = loaded.doc.silent \cap Used
  BY <1>1 DEF PipeInv, MetadataInv
<1>4. LoadedInv'
  BY <1>1, <1>2, LoadedStays DEF Stages
<1>5. Used' = Used
  BY <1>1 DEF Used
<1>6. MetadataInv'
  BY <1>1, <1>3, <1>5 DEF MetadataInv
<1>7. IsFiniteSet(DOMAIN channelMap) /\ DOMAIN channelMap \subseteq Nat
  <2>1. IsFiniteSet(DOMAIN loaded.channelMap) /\ DOMAIN loaded.channelMap \subseteq Nat
    BY <1>2 DEF LoadedInv
  <2>2. DOMAIN channelMap \subseteq DOMAIN loaded.channelMap
    BY <1>3
  <2> QED
    BY <2>1, <2>2, FS_Subset
<1>8. S \subseteq Channels /\ S \subseteq Nat /\ IsFiniteSet(S)
  <2>1. IsFiniteSet(S)
    BY <1>7, FiniteImage DEF UsedChannels
  <2>2. S \subseteq Channels
    BY <1>2, <1>3 DEF LoadedInv, UsedChannels
  <2>3. Channels \subseteq Nat
    BY PipelineAssumption DEF Channels
  <2> QED
    BY <2>1, <2>2, <2>3
<1>9. \A c \in S : UidForChannel(c) \in DOMAIN channelMap /\ channelMap[UidForChannel(c)] = c
  BY <1>7, UidForChannelIs
<1>10. /\ N \in Nat
       /\ \A c \in S : OutChannel(c) \in 0 .. N - 1
       /\ \A c, d \in S : OutChannel(c) = OutChannel(d) => c = d
       /\ \A k \in 0 .. N - 1 : \E c \in S : OutChannel(c) = k
  <2>1. \A c \in S : OutChannel(c) = Cardinality(Lower(S, c))
    BY DEF OutChannel, Lower
  <2> HIDE DEF S
  <2>2. /\ Cardinality(S) \in Nat
        /\ \A c \in S : Cardinality(Lower(S, c)) \in 0 .. Cardinality(S) - 1
        /\ \A c, d \in S : Cardinality(Lower(S, c)) = Cardinality(Lower(S, d)) => c = d
        /\ \A k \in 0 .. Cardinality(S) - 1 : \E c \in S : Cardinality(Lower(S, c)) = k
    BY <1>8, RanksAre
  <2> HIDE DEF N
  <2>3. /\ N \in Nat
        /\ \A c \in S : OutChannel(c) \in 0 .. N - 1
    BY <2>1, <2>2 DEF N
  <2>4. \A c, d \in S : OutChannel(c) = OutChannel(d) => c = d
    BY <2>1, <2>2
  <2>5. \A k \in 0 .. N - 1 : \E c \in S : OutChannel(c) = k
    BY <2>1, <2>2 DEF N
  <2> QED
    BY <2>3, <2>4, <2>5
<1>11. \A u \in DOMAIN channelMap : channelMap[u] \in S
  BY DEF UsedChannels
<1> HIDE DEF S, N
<1>12. mapping' \in Seq(Channels) /\ Len(mapping') = N
  <2>1. ASSUME NEW k \in 1 .. N
        PROVE  (CHOOSE c \in S : OutChannel(c) = k - 1) \in Channels
    <3>1. k - 1 \in 0 .. N - 1
      BY <1>10
    <3> QED
      BY <1>8, <1>10, <3>1
  <2>2. mapping' \in [1 .. N -> Channels]
    BY <1>1, <2>1
  <2> QED
    BY <1>10, <2>2
<1>13. \A c \in S : mapping'[OutChannel(c) + 1] = c
  <2> TAKE c \in S
  <2>1. OutChannel(c) \in 0 .. N - 1
    BY <1>10
  <2> DEFINE o == OutChannel(c)
  <2>2. o + 1 \in 1 .. N /\ (o + 1) - 1 = o
    <3> HIDE DEF o
    <3> QED
      BY <1>10, <2>1 DEF o
  <2>3. mapping'[o + 1] = CHOOSE d \in S : OutChannel(d) = o
    BY <1>1, <2>2
  <2> QED
    BY <1>10, <2>3
<1>14. DOMAIN channelMap' = {UidForChannel(c) : c \in S}
  BY <1>1
<1>15. ASSUME NEW u \in DOMAIN channelMap'
       PROVE  /\ u \in DOMAIN channelMap /\ channelMap[u] \in S
              /\ channelMap'[u] = OutChannel(channelMap[u])
  BY <1>1, <1>9, <1>11, <1>14
<1>16. MappingInv'
  <2>1. DOMAIN channelMap' \subseteq DOMAIN loaded'.channelMap \cap Used'
    BY <1>1, <1>3, <1>5, <1>15
  <2>2. ASSUME NEW u \in DOMAIN channelMap'
        PROVE  /\ channelMap'[u] \in 0 .. Len(mapping') - 1
               /\ mapping'[channelMap'[u] + 1] = loaded'.channelMap[u]
    BY <1>1, <1>3, <1>10, <1>12, <1>13, <1>15
  <2>3. ASSUME NEW k \in 0 .. Len(mapping') - 1
        PROVE  \E u \in DOMAIN channelMap' : channelMap'[u] = k
    <3>1. PICK c \in S : OutChannel(c) = k
      BY <1>10, <1>12
    <3> QED
      BY <1>9, <1>14, <1>15, <3>1
  <2>4. ~Sharing => DOMAIN loaded'.channelMap \cap Used' \subseteq DOMAIN channelMap'
    <3> SUFFICES ASSUME ~Sharing, NEW u \in DOMAIN channelMap PROVE u \in DOMAIN channelMap'
      BY <1>1, <1>3, <1>5
    <3> DEFINE v == UidForChannel(channelMap[u])
    <3>1. channelMap[u] \in S /\ v \in DOMAIN channelMap /\ channelMap[v] = channelMap[u]
      BY <1>9, <1>11
    <3>2. v \in DOMAIN loaded.channelMap /\ u \in DOMAIN loaded.channelMap
          /\ loaded.channelMap[u] = loaded.channelMap[v]
      BY <1>3, <3>1
    <3>3. u = v
      BY <1>2, <3>2 DEF LoadedInv
    <3> QED
      BY <1>14, <3>1, <3>3
  <2> QED
    BY <1>12, <2>1, <2>2, <2>3, <2>4 DEF MappingInv
<1>17. StreamInv'
  <2>1. /\ framesRead' = 0 /\ closed' = FALSE
        /\ inBlocks' = <<>> /\ outBlocks' = <<>> /\ written' = <<>>
    BY <1>1 DEF PipeInv, AudioInv, audioVars
  <2>2. 0 \in 0 .. FileFrames
    BY PipelineAssumption
  <2>3. inBlocks' \in Seq(Blocks(Input)) /\ outBlocks' \in Seq(Blocks(OutputOf(mapping')))
    BY <2>1
  <2> DEFINE g == OutputOf(mapping')
  <2>4. written' = Segment(g, 0, 0)
    <3> HIDE DEF g
    <3>1. Segment(g, 0, 0) \in Seq(Items(g)) /\ Len(Segment(g, 0, 0)) = 0
      BY SegmentIs
    <3> QED
      BY <2>1, <3>1
  <2>5. Carries(outBlocks', g, 0, 0) /\ Carries(inBlocks', Input, 0, framesRead')
    BY <2>1, CarriesNothing
  <2> QED
    BY <2>1, <2>2, <2>3, <2>4, <2>5 DEF StreamInv
<1>18. AudioInv'
  BY <1>1, <1>17 DEF AudioInv
<1> QED
  BY <1>1, <1>4, <1>6, <1>16, <1>18 DEF PipeInv, ChnaInv

\* A step of the streams keeps what is not theirs.
LEMMA StreamStep ==
  ASSUME PipeInv, stage = "stream", UNCHANGED metadataVars, StreamInv'
  PROVE  PipeInv'
<1>1. /\ stage' = stage /\ doc' = doc /\ channelMap' = channelMap /\ loaded' = loaded
      /\ mapping' = mapping
  BY DEF metadataVars
<1>2. LoadedInv'
  BY <1>1, LoadedStays DEF PipeInv, Stages
<1>3. Used' = Used
  BY <1>1 DEF Used
<1>4. MetadataInv' /\ MappingInv'
  BY <1>1, <1>3 DEF PipeInv, MetadataInv, MappingInv
<1>5. AudioInv' /\ ChnaInv'
  BY <1>1 DEF AudioInv, ChnaInv
<1> QED
  BY <1>2, <1>4, <1>5 DEF PipeInv

LEMMA ReadKeeps ==
  ASSUME PipeInv, Read
  PROVE  PipeInv'
<1> DEFINE n == IF FileFrames - framesRead < BlockSize THEN FileFrames - framesRead
                                                       ELSE BlockSize
           b == [k \in 1 .. n |-> [c \in 1 .. FileChannels |-> <<c - 1, framesRead + k>>]]
           f == framesRead
<1>1. /\ stage = "stream" /\ closed = FALSE /\ UNCHANGED metadataVars
      /\ outBlocks' = outBlocks /\ written' = written
  <2>1. closed \in BOOLEAN
    BY DEF Read, PipeInv, AudioInv, StreamInv
  <2> QED
    BY <2>1 DEF Read
<1>2. StreamInv /\ mapping' = mapping
  BY <1>1 DEF PipeInv, AudioInv, metadataVars
<1>3. PICK w \in Nat, m \in Nat : /\ written = Segment(OutputOf(mapping), 0, w)
                                  /\ Carries(outBlocks, OutputOf(mapping), w, m)
                                  /\ Carries(inBlocks, Input, m, f)
  BY <1>2 DEF StreamInv
<1>4. FileFrames \in Nat /\ BlockSize \in Nat \ {0} /\ f \in 0 .. FileFrames
  BY <1>2, PipelineAssumption DEF StreamInv
<1>5. n \in Nat /\ f + n \in 0 .. FileFrames /\ (~(n > 0) => f = FileFrames)
  BY <1>4
<1>6. \/ n > 0 /\ inBlocks' = Append(inBlocks, b) /\ framesRead' = f + n /\ closed' = closed
      \/ ~(n > 0) /\ closed' = TRUE /\ inBlocks' = inBlocks /\ framesRead' = f
  BY DEF Read
<1>7. b = Segment(Input, f, f + n)
  <2> HIDE DEF n
  <2>1. f \in Nat /\ (f + n) - f = n
    BY <1>4, <1>5
  <2>2. \A k \in 1 .. n : f + k \in Nat
    BY <1>5, <2>1
  <2>3. \A k \in 1 .. n : Input[f + k] = [c \in 1 .. FileChannels |-> <<c - 1, f + k>>]
    BY <2>2 DEF Input
  <2> HIDE DEF f
  <2>4. Segment(Input, f, f + n) = [k \in 1 .. n |-> Input[f + k]]
    BY <2>1 DEF Segment
  <2> QED
    BY <2>3, <2>4 DEF f
<1> HIDE DEF n, b
<1>8. CASE n > 0
  <2>1. inBlocks' = Append(inBlocks, b) /\ framesRead' = f + n /\ closed' = FALSE
    BY <1>1, <1>6, <1>8
  <2>2. inBlocks \in Seq(Blocks(Input)) /\ b \in Blocks(Input)
    <3>1. f \in Nat /\ f + n \in Nat
      BY <1>4, <1>5
    <3> QED
      BY <1>2, <1>7, <3>1 DEF StreamInv, Blocks
  <2>3. inBlocks' \in Seq(Blocks(Input)) /\ inBlocks' = inBlocks \o <<b>>
    BY <2>1, <2>2
  <2>4. Carries(<<b>>, Input, f, f + n)
    <3>1. f \in Nat /\ f + n \in Nat /\ f <= f + n
      BY <1>4, <1>5
    <3> QED
      BY <1>7, <3>1, CarriesOne
  <2>5. Carries(inBlocks', Input, m, f + n)
    <3>1. <<b>> \in Seq(Blocks(Input))
      BY <2>2
    <3> QED
      BY <1>3, <2>2, <2>3, <2>4, <3>1, CarriesConcat
  <2>6. StreamInv'
    BY <1>1, <1>2, <1>3, <1>5, <2>1, <2>3, <2>5 DEF StreamInv
  <2> QED
    BY <1>1, <2>6, StreamStep
<1>9. CASE ~(n > 0)
  <2>1. closed' = TRUE /\ inBlocks' = inBlocks /\ framesRead' = f /\ f = FileFrames
    BY <1>5, <1>6, <1>9
  <2>2. StreamInv'
    BY <1>1, <1>2, <1>3, <2>1 DEF StreamInv
  <2> QED
    BY <1>1, <2>2, StreamStep
<1> QED
  BY <1>8, <1>9

LEMMA ApplyMappingKeeps ==
  ASSUME PipeInv, ApplyMapping
  PROVE  PipeInv'
<1> DEFINE ms == [i \in DOMAIN inBlocks |-> MapBlock(inBlocks[i])]
           g == OutputOf(mapping)
<1>1. /\ stage = "stream" /\ UNCHANGED metadataVars
      /\ framesRead' = framesRead /\ closed' = closed /\ written' = written
      /\ outBlocks' = outBlocks \o ms /\ inBlocks' = <<>>
  BY DEF ApplyMapping, MapBlock
<1>2. StreamInv /\ MappingInv /\ mapping' = mapping
  BY <1>1 DEF PipeInv, AudioInv, metadataVars
<1>3. PICK w \in Nat, m \in Nat : /\ written = Segment(g, 0, w)
                                  /\ Carries(outBlocks, g, w, m)
                                  /\ Carries(inBlocks, Input, m, framesRead)
  BY <1>2 DEF StreamInv
<1>4. ms \in Seq(Blocks(g)) /\ Carries(ms, g, m, framesRead)
  BY <1>2, <1>3, MapCarries DEF MappingInv, StreamInv
<1>5. outBlocks \in Seq(Blocks(g))
  BY <1>2 DEF StreamInv
<1>6. framesRead \in Nat
  BY <1>2, PipelineAssumption DEF StreamInv
<1>7. inBlocks' \in Seq(Blocks(Input)) /\ Carries(inBlocks', Input, framesRead, framesRead)
  BY <1>1, <1>6, CarriesNothing
<1> HIDE DEF ms, g
<1>8. outBlocks' \in Seq(Blocks(g)) /\ Carries(outBlocks', g, w, framesRead)
  BY <1>1, <1>3, <1>4, <1>5, CarriesConcat
<1>9. StreamInv'
  BY <1>1, <1>2, <1>3, <1>6, <1>7, <1>8 DEF StreamInv, g
<1> QED
  BY <1>1, <1>9, StreamStep

LEMMA WriteKeeps ==
  ASSUME PipeInv, Write
  PROVE  PipeInv'
<1> DEFINE g == OutputOf(mapping)
<1>1. /\ stage = "stream" /\ UNCHANGED metadataVars
      /\ framesRead' = framesRead /\ closed' = closed /\ inBlocks' = inBlocks
      /\ written' = written \o FlattenSeq(outBlocks) /\ outBlocks' = <<>>
  BY DEF Write
<1>2. StreamInv /\ mapping' = mapping
  BY <1>1 DEF PipeInv, AudioInv, metadataVars
<1>3. PICK w \in Nat, m \in Nat : /\ written = Segment(g, 0, w)
                                  /\ Carries(outBlocks, g, w, m)
                                  /\ Carries(inBlocks, Input, m, framesRead)
  BY <1>2 DEF StreamInv
<1>4. outBlocks \in Seq(Blocks(g))
  BY <1>2 DEF StreamInv
<1> HIDE DEF g
<1>5. w <= m /\ FlattenSeq(outBlocks) = Segment(g, w, m)
  BY <1>3, <1>4, FlattenCarries
<1>6. written' = Segment(g, 0, m)
  <2>1. Segment(g, 0, w) \o Segment(g, w, m) = Segment(g, 0, m)
    <3>1. 0 \in Nat /\ 0 <= w
      OBVIOUS
    <3> QED
      BY <1>5, <3>1, SegmentConcat
  <2> QED
    BY <1>1, <1>3, <1>5, <2>1
<1>7. outBlocks' \in Seq(Blocks(g)) /\ Carries(outBlocks', g, m, m)
  BY <1>1, CarriesNothing
<1>8. StreamInv'
  BY <1>1, <1>2, <1>3, <1>6, <1>7 DEF StreamInv, g
<1> QED
  BY <1>1, <1>8, StreamStep

LEMMA EndStreamKeeps ==
  ASSUME PipeInv, EndStream
  PROVE  PipeInv'
<1> DEFINE g == OutputOf(mapping)
<1>1. /\ stage = "stream" /\ closed /\ inBlocks = <<>> /\ outBlocks = <<>> /\ stage' = "write"
      /\ doc' = doc /\ channelMap' = channelMap /\ loaded' = loaded /\ mapping' = mapping
      /\ written' = written
  BY DEF EndStream, audioVars
<1>2. StreamInv
  BY <1>1 DEF PipeInv, AudioInv
<1>3. PICK w \in Nat, m \in Nat : /\ written = Segment(g, 0, w)
                                  /\ Carries(outBlocks, g, w, m)
                                  /\ Carries(inBlocks, Input, m, framesRead)
  BY <1>2 DEF StreamInv
<1> HIDE DEF g
<1>4. w = m /\ m = framesRead /\ framesRead = FileFrames
  BY <1>1, <1>2, <1>3, CarriesNothing DEF StreamInv
<1>5. written' = Segment(OutputOf(mapping'), 0, FileFrames)
  BY <1>1, <1>3, <1>4 DEF g
<1>6. LoadedInv'
  BY <1>1, LoadedStays DEF PipeInv, Stages
<1>7. Used' = Used
  BY <1>1 DEF Used
<1>8. MetadataInv' /\ MappingInv'
  BY <1>1, <1>7 DEF PipeInv, MetadataInv, MappingInv
<1>9. AudioInv' /\ ChnaInv'
  BY <1>1, <1>5 DEF AudioInv, ChnaInv
<1> QED
  BY <1>6, <1>8, <1>9 DEF PipeInv

LEMMA MakeChnaKeeps ==
  ASSUME PipeInv, MakeChna
  PROVE  PipeInv'
<1> DEFINE audible == doc.tracks \ doc.silent
<1>1. /\ stage = "write" /\ doc' = doc /\ channelMap' = channelMap /\ loaded' = loaded
      /\ mapping' = mapping /\ written' = written
      /\ \/ /\ stage' = "done" /\ audible \subseteq DOMAIN channelMap
            /\ chna' = {[uid |-> u, trackIndex |-> channelMap[u] + 1] : u \in audible}
         \/ stage' = "thrown"
  BY DEF MakeChna, audioVars
<1>2. LoadedInv'
  BY <1>1, LoadedStays DEF PipeInv, Stages
<1>3. Used' = Used
  BY <1>1 DEF Used
<1>4. MetadataInv' /\ MappingInv'
  BY <1>1, <1>3 DEF PipeInv, MetadataInv, MappingInv
<1>5. AudioInv' /\ ChnaInv'
  BY <1>1 DEF PipeInv, AudioInv, ChnaInv
<1> QED
  BY <1>2, <1>4, <1>5 DEF PipeInv

\* What the samples, the metadata and the way between them have to do with each
\* other, at every step from file to file.
THEOREM PipelineInvariant ==
  Spec => []PipeInv
<1>1. PipeInv /\ [Next]_vars => PipeInv'
  <2> SUFFICES ASSUME PipeInv, [Next]_vars PROVE PipeInv'
    OBVIOUS
  <2>1. CASE LoadRow
    BY <2>1, LoadRowKeeps
  <2>2. CASE LoadThrows
    BY <2>2, LoadThrowsKeeps
  <2>3. CASE EndLoad
    BY <2>3, EndLoadKeeps
  <2>4. CASE RemoveUnusedElements
    BY <2>4, RemoveUnusedElementsKeeps
  <2>5. CASE RepackChannels
    BY <2>5, RepackChannelsKeeps
  <2>6. CASE Read
    BY <2>6, ReadKeeps
  <2>7. CASE ApplyMapping
    BY <2>7, ApplyMappingKeeps
  <2>8. CASE Write
    BY <2>8, WriteKeeps
  <2>9. CASE EndStream
    BY <2>9, EndStreamKeeps
  <2>10. CASE MakeChna
    BY <2>10, MakeChnaKeeps
  <2>11. CASE UNCHANGED vars
    <3>1. /\ UNCHANGED <<stage, doc, channelMap, loaded, mapping, chna>>
          /\ UNCHANGED <<framesRead, closed, inBlocks, outBlocks, written>>
      BY <2>11 DEF vars, metadataVars, audioVars
    <3>2. LoadedInv'
      BY <3>1, LoadedStays DEF PipeInv, LoadedInv
    <3>3. Used' = Used
      BY <3>1 DEF Used
    <3>4. MetadataInv' /\ (stage' \in {"stream", "write", "done"} => MappingInv')
      BY <3>1, <3>3 DEF PipeInv, MetadataInv, MappingInv
    <3>5. AudioInv' /\ ChnaInv'
      BY <3>1 DEF PipeInv, AudioInv, StreamInv, ChnaInv
    <3> QED
      BY <3>2, <3>4, <3>5 DEF PipeInv
  <2> QED
    BY <2>1, <2>2, <2>3, <2>4, <2>5, <2>6, <2>7, <2>8, <2>9, <2>10, <2>11 DEF Next
<1> QED
  BY PipeInit, <1>1, PTL DEF Spec

\* A track of the new file has the samples that its UID had in the old one, all
\* of them and in order, whatever the elements that were removed, the channels
\* that were moved, and the blocks the samples travelled in
\* (remove_unused.cpp, channel_mapping.cpp).
THEOREM TracksKeepTheirSamples ==
  Spec => []TracksKeepSamples
<1>1. ASSUME PipeInv PROVE TracksKeepSamples
  <2> SUFFICES ASSUME stage = "done", NEW row \in chna
               PROVE  [k \in DOMAIN written |-> written[k][row.trackIndex]]
                        = [k \in 1 .. FileFrames |-> <<loaded.channelMap[row.uid], k>>]
    BY DEF TracksKeepSamples
  <2>1. MappingInv /\ written = Segment(OutputOf(mapping), 0, FileFrames)
    BY <1>1 DEF PipeInv, AudioInv
  <2>2. PICK u \in DOMAIN channelMap :
          row.uid = u /\ row.trackIndex = channelMap[u] + 1
    BY <1>1 DEF PipeInv, ChnaInv
  <2> DEFINE t == channelMap[u] + 1
  <2>3. t \in DOMAIN mapping /\ mapping[t] = loaded.channelMap[u]
    BY <2>1 DEF MappingInv
  <2>4. FileFrames \in Nat /\ FileFrames - 0 = FileFrames
    BY PipelineAssumption
  <2>5. written = [k \in 1 .. FileFrames |-> OutputOf(mapping)[0 + k]]
    BY <2>1, <2>4 DEF Segment
  <2>6. DOMAIN written = 1 .. FileFrames
    BY <2>5
  <2> HIDE DEF t
  <2>7. ASSUME NEW k \in 1 .. FileFrames
        PROVE  written[k][t] = <<loaded.channelMap[u], k>>
    <3>1. 0 + k = k /\ k \in Nat
      BY <2>4
    <3>2. written[k] = OutputOf(mapping)[k]
      BY <2>5, <3>1
    <3> QED
      BY <2>3, <3>1, <3>2 DEF OutputOf
  <2> QED
    BY <2>2, <2>6, <2>7 DEF t
<1> QED
  BY <1>1, PipelineInvariant, PTL

\* The new file has a channel for what the programmes' tracks use and no other:
\* RepackChannels leaves no channel out and keeps none that RemoveUnusedElements
\* has taken the last track of (remove_unused.cpp:96-150).
THEOREM NoChannelIsUnused ==
  Spec => []NoUnusedChannels
<1>1. ASSUME PipeInv PROVE NoUnusedChannels
  <2> SUFFICES ASSUME stage = "done"
               PROVE  {channelMap[u] : u \in DOMAIN channelMap \cap Used} = 0 .. Len(mapping) - 1
    BY DEF NoUnusedChannels, Used
  <2>1. MappingInv
    BY <1>1 DEF PipeInv
  <2>2. DOMAIN channelMap \cap Used = DOMAIN channelMap
    BY <2>1 DEF MappingInv
  <2> QED
    BY <2>1, <2>2 DEF MappingInv
<1> QED
  BY <1>1, PipelineInvariant, PTL

\* What a programme leads to is in the CHNA chunk of the new file, and a track
\* that had a channel in the old file has one in the new, if no two tracks of
\* the old file have the same channel.  With tracks that share one RepackChannels
\* keeps only the last of them.
THEOREM UsedTracksAreKept ==
  ~Sharing => (Spec => []UsedTracksKept)
<1> SUFFICES ASSUME ~Sharing PROVE Spec => []UsedTracksKept
  OBVIOUS
<1>1. ASSUME PipeInv PROVE UsedTracksKept
  <2> DEFINE used == Used \ loaded.doc.silent
  <2>1. ASSUME stage = "done" PROVE {row.uid : row \in chna} = used
    <3>1. doc.tracks \ doc.silent = used
      BY <1>1, <2>1 DEF PipeInv, MetadataInv
    <3>2. chna = {[uid |-> u, trackIndex |-> channelMap[u] + 1] : u \in used}
      BY <1>1, <2>1, <3>1 DEF PipeInv, ChnaInv
    <3> HIDE DEF used
    <3> DEFINE Row(u) == [uid |-> u, trackIndex |-> channelMap[u] + 1]
    <3>3. \A u \in used : Row(u).uid = u
      OBVIOUS
    <3>4. chna = {Row(u) : u \in used}
      BY <3>2
    <3> HIDE DEF Row
    <3> QED
      BY <3>3, <3>4
  <2>2. ASSUME stage \in {"stream", "write"}
        PROVE  used \subseteq DOMAIN channelMap <=> used \subseteq DOMAIN loaded.channelMap
    <3>1. MappingInv
      BY <1>1, <2>2 DEF PipeInv
    <3> QED
      BY <3>1 DEF MappingInv
  <2> QED
    BY <2>1, <2>2 DEF UsedTracksKept, Used
<1> QED
  BY <1>1, PipelineInvariant, PTL
=============================================================================
