-------------------------- MODULE SequenceLemmas ---------------------------
(***************************************************************************)
(* Facts about numbers, finite sets, and the operators on sequences of the *)
(* community modules, for the theorems about all components.               *)
(***************************************************************************)
EXTENDS Naturals, Sequences, SequencesExt, FiniteSetTheorems, WellFoundedInduction, TLAPS

\* Every nonempty set of natural numbers has a least element.
LEMMA LeastNat ==
  ASSUME NEW T, T \subseteq Nat, T # {}
  PROVE  \E n \in T : \A m \in T : n <= m
<1> DEFINE less == {ss \in Nat \X Nat : ss[1] < ss[2]}
<1>1. IsWellFoundedOn(less, Nat)
  BY NatLessThanWellFounded DEF OpToRel
<1>2. PICK n \in T : \A m \in T : ~ (<<m, n>> \in less)
  BY <1>1, WFMin
<1>3. \A m \in T : ~ (m < n)
  BY <1>2
<1> QED
  BY <1>3

\* Induction, about a set instead of a property.
LEMMA InductionOverNat ==
  ASSUME NEW S, 0 \in S, \A n \in Nat : n \in S => n + 1 \in S
  PROVE  Nat \subseteq S
<1> SUFFICES ASSUME Nat \ S # {} PROVE FALSE
  OBVIOUS
<1>1. PICK n \in Nat \ S : \A m \in Nat \ S : n <= m
  BY LeastNat
<1>2. n # 0 /\ n - 1 \in Nat
  BY <1>1
<1>3. n - 1 \in S
  BY <1>1, <1>2
<1>4. (n - 1) + 1 = n
  BY <1>1
<1> QED
  BY <1>1, <1>2, <1>3, <1>4

\* A set made from a finite one is finite.
LEMMA FiniteImage ==
  ASSUME NEW S, IsFiniteSet(S), NEW f, DOMAIN f = S
  PROVE  IsFiniteSet({f[x] : x \in S})
<1> DEFINE T == {f[x] : x \in S}
           h == [x \in S |-> f[x]]
<1>1. h \in Surjection(S, T)
  BY DEF Surjection
<1> QED
  BY <1>1, FS_Surjection

-----------------------------------------------------------------------------
\* What sequences are made of.
LEMMA ToSetAppend ==
  ASSUME NEW T, NEW s \in Seq(T), NEW e
  PROVE  ToSet(Append(s, e)) = ToSet(s) \cup {e}
<1>1. /\ Len(Append(s, e)) = Len(s) + 1 /\ Len(s) \in Nat
      /\ DOMAIN s = 1 .. Len(s) /\ DOMAIN Append(s, e) = 1 .. (Len(s) + 1)
      /\ \A i \in 1 .. Len(s) : Append(s, e)[i] = s[i]
      /\ Append(s, e)[Len(s) + 1] = e
  OBVIOUS
<1>2. ToSet(s) \cup {e} \subseteq ToSet(Append(s, e))
  BY <1>1 DEF ToSet
<1>3. ASSUME NEW i \in 1 .. (Len(s) + 1)
      PROVE  Append(s, e)[i] \in ToSet(s) \cup {e}
  BY <1>1 DEF ToSet
<1> QED
  BY <1>1, <1>2, <1>3 DEF ToSet

LEMMA SeqOfItsElements ==
  ASSUME NEW T, NEW s \in Seq(T)
  PROVE  s \in Seq(ToSet(s))
<1>1. s \in [1 .. Len(s) -> T] /\ DOMAIN s = 1 .. Len(s) /\ Len(s) \in Nat
  OBVIOUS
<1>2. s \in [1 .. Len(s) -> ToSet(s)]
  BY <1>1 DEF ToSet
<1> QED
  BY <1>1, <1>2

\* SetToSeq() lists the members of a finite set, each once.
LEMMA SetToSeqLists ==
  ASSUME NEW S, IsFiniteSet(S)
  PROVE  /\ SetToSeq(S) \in Seq(S)
         /\ ToSet(SetToSeq(S)) = S
         /\ IsInjective(SetToSeq(S))
<1> DEFINE n == Cardinality(S)
<1>1. n \in Nat /\ ExistsBijection(1 .. n, S)
  BY FS_CardinalityType
<1>2. PICK b \in Bijection(1 .. n, S) : TRUE
  BY <1>1 DEF ExistsBijection
<1>3. b \in [1 .. n -> S] /\ IsInjective(b)
  BY <1>2 DEF Bijection, Injection
<1>4. SetToSeq(S) \in [1 .. n -> S] /\ IsInjective(SetToSeq(S))
  BY <1>3 DEF SetToSeq
<1>5. SetToSeq(S) \in Injection(1 .. n, S)
  BY <1>4 DEF Injection
<1>6. Cardinality(1 .. n) = n
  BY <1>1, FS_Interval
<1>7. SetToSeq(S) \in Surjection(1 .. n, S)
  BY <1>5, <1>6, FS_Injection
<1>8. ToSet(SetToSeq(S)) = S
  BY <1>4, <1>7 DEF Surjection, ToSet
<1> QED
  BY <1>1, <1>4, <1>8

\* A set of one is listed in one way.
LEMMA SingletonInOrder ==
  ASSUME NEW x
  PROVE  SetToSeq({x}) = <<x>>
<1> DEFINE q == SetToSeq({x})
<1>1. /\ q \in Seq({x}) /\ ToSet(q) = {x} /\ IsInjective(q)
  BY SetToSeqLists, FS_Singleton
<1> HIDE DEF q
<1>2. /\ Len(q) \in Nat /\ DOMAIN q = 1 .. Len(q) /\ \A i \in 1 .. Len(q) : q[i] = x
  BY <1>1
<1>3. Len(q) # 0
  <2> SUFFICES ASSUME Len(q) = 0 PROVE FALSE
    OBVIOUS
  <2>1. DOMAIN q = {}
    BY <1>2
  <2>2. ToSet(q) = {}
    BY <2>1 DEF ToSet
  <2> QED
    BY <1>1, <2>2
<1>4. ~ (Len(q) > 1)
  <2> SUFFICES ASSUME Len(q) > 1 PROVE FALSE
    OBVIOUS
  <2>1. 1 \in DOMAIN q /\ 2 \in DOMAIN q /\ q[1] = q[2]
    BY <1>2
  <2> QED
    BY <1>1, <2>1 DEF IsInjective
<1>5. Len(q) = 1
  BY <1>2, <1>3, <1>4
<1>6. q = <<x>>
  BY <1>1, <1>2, <1>5
<1> QED
  BY <1>6 DEF q

-----------------------------------------------------------------------------
\* The recursive function that FlattenSeq() is made from is well defined.
LEMMA FlattenExists ==
  ASSUME NEW s, NEW N \in Nat
  PROVE  \E f : f = [i \in 1 .. N |-> IF i = 1 THEN s[i] ELSE f[i - 1] \o s[i]]
<1> DEFINE F(f, n) == [i \in 1 .. n |-> IF i = 1 THEN s[i] ELSE f[i - 1] \o s[i]]
           Ex(n) == \E f : f = F(f, n)
           S == {n \in Nat : Ex(n)}
<1>1. 0 \in S
  <2> DEFINE f == [i \in 1 .. 0 |-> s]
  <2>1. 1 .. 0 = {}
    OBVIOUS
  <2>2. f = F(f, 0)
    BY <2>1
  <2> QED
    BY <2>2
<1>2. ASSUME NEW n \in Nat, n \in S PROVE n + 1 \in S
  <2>1. PICK f : f = F(f, n)
    BY <1>2
  <2> DEFINE g == F(f, n + 1)
             h == F(f, n)
  <2>2. f = h
    BY <2>1
  <2>3. \A i \in 1 .. n : h[i] = g[i]
    OBVIOUS
  <2> HIDE DEF h
  <2>4. \A i \in 1 .. n + 1 : i # 1 => i - 1 \in 1 .. n
    OBVIOUS
  <2>5. \A i \in 1 .. n : g[i] = f[i]
    BY <2>2, <2>3
  <2> HIDE DEF g
  <2>6. \A i \in 1 .. n + 1 : i # 1 => g[i - 1] = f[i - 1]
    BY <2>4, <2>5
  <2>7. F(f, n + 1) = F(g, n + 1)
    BY <2>6
  <2>8. g = F(g, n + 1)
    BY <2>7 DEF g
  <2>9. Ex(n + 1)
    BY <2>8
  <2> HIDE DEF Ex
  <2> QED
    BY <2>9
<1> HIDE DEF S
<1>3. N \in S
  BY <1>1, <1>2, InductionOverNat
<1> QED
  BY <1>3 DEF S

\* FlattenSeq() appends the sequences one after the other.
LEMMA FlattenIs ==
  ASSUME NEW s, Len(s) \in Nat \ {0}
  PROVE  \E f : /\ f = [i \in 1 .. Len(s) |-> IF i = 1 THEN s[i] ELSE f[i - 1] \o s[i]]
               /\ FlattenSeq(s) = f[Len(s)]
<1> DEFINE F(f) == [i \in 1 .. Len(s) |-> IF i = 1 THEN s[i] ELSE f[i - 1] \o s[i]]
           fl == CHOOSE f : f = F(f)
<1>1. fl = F(fl)
  BY FlattenExists
<1>2. FlattenSeq(s) = fl[Len(s)]
  BY DEF FlattenSeq
<1> HIDE DEF fl
<1> QED
  BY <1>1, <1>2

\* FlattenSeq() makes of nonempty sequences of members of T one of those.
LEMMA FlattenInSeq ==
  ASSUME NEW T, NEW s \in Seq(Seq(T) \ {<<>>}), s # <<>>
  PROVE  FlattenSeq(s) \in Seq(T) \ {<<>>}
<1> DEFINE N == Len(s)
           Good == Seq(T) \ {<<>>}
<1>1. N \in Nat /\ N # 0 /\ \A i \in 1 .. N : s[i] \in Good
  OBVIOUS
<1>2. PICK fl : /\ fl = [i \in 1 .. N |-> IF i = 1 THEN s[i] ELSE fl[i - 1] \o s[i]]
                 /\ FlattenSeq(s) = fl[N]
  BY <1>1, FlattenIs
<1> HIDE DEF N
<1>3. \A a, b \in Good : a \o b \in Good
  OBVIOUS
<1> HIDE DEF Good
<1>4. \A i \in 1 .. N : fl[i] = IF i = 1 THEN s[i] ELSE fl[i - 1] \o s[i]
  BY <1>2
<1> DEFINE S == {n \in Nat : n \in 1 .. N => fl[n] \in Good}
<1>5. 0 \in S
  OBVIOUS
<1>6. ASSUME NEW n \in Nat, n \in S PROVE n + 1 \in S
  <2>1. CASE n = 0
    BY <1>1, <1>4, <2>1
  <2>2. CASE n # 0 /\ n + 1 \in 1 .. N
    <3>1. n \in 1 .. N /\ fl[n] \in Good /\ s[n + 1] \in Good
      BY <1>1, <1>6, <2>2
    <3>2. fl[n + 1] = fl[n] \o s[n + 1]
      <4>1. n + 1 # 1 /\ (n + 1) - 1 = n
        BY <2>2
      <4> QED
        BY <1>4, <2>2, <4>1
    <3>3. fl[n + 1] \in Good
      BY <1>3, <3>1, <3>2
    <3> QED
      BY <3>3
  <2>3. CASE n + 1 \notin 1 .. N
    BY <2>3
  <2> QED
    BY <2>1, <2>2, <2>3
<1> HIDE DEF S
<1>7. N \in S
  BY <1>1, <1>5, <1>6, InductionOverNat
<1>8. fl[N] \in Good
  BY <1>1, <1>7 DEF S
<1> QED
  BY <1>2, <1>8 DEF Good

\* A function on 1 .. n is a sequence.
LEMMA FunctionIsSeq ==
  ASSUME NEW n \in Nat, NEW T, NEW f \in [1 .. n -> T]
  PROVE  f \in Seq(T) /\ Len(f) = n /\ DOMAIN f = 1 .. n
OBVIOUS

\* Appending a sequence to those that FlattenSeq() joins.
LEMMA FlattenAppend ==
  ASSUME NEW T, NEW q \in Seq(Seq(T)), NEW x \in Seq(T)
  PROVE  /\ FlattenSeq(q) \in Seq(T)
         /\ FlattenSeq(Append(q, x)) = FlattenSeq(q) \o x
<1> DEFINE r == Append(q, x)
           N == Len(q)
<1>1. /\ N \in Nat /\ r \in Seq(Seq(T)) /\ Len(r) = N + 1 /\ r[N + 1] = x
      /\ \A i \in 1 .. N : q[i] \in Seq(T) /\ r[i] = q[i]
  OBVIOUS
<1> HIDE DEF r
<1>0. Len(r) \in Nat \ {0}
  BY <1>1
<1>2. PICK b : /\ b = [i \in 1 .. Len(r) |-> IF i = 1 THEN r[i] ELSE b[i - 1] \o r[i]]
               /\ FlattenSeq(r) = b[Len(r)]
  BY <1>0, FlattenIs
<1>3. \A i \in 1 .. N + 1 : b[i] = IF i = 1 THEN r[i] ELSE b[i - 1] \o r[i]
  BY <1>1, <1>2
<1>4. CASE N = 0
  <2>1. q = <<>> /\ FlattenSeq(q) = <<>>
    BY <1>4 DEF FlattenSeq
  <2>2. FlattenSeq(r) = x
    BY <1>1, <1>2, <1>3, <1>4
  <2>3. <<>> \o x = x
    OBVIOUS
  <2>4. <<>> \in Seq(T)
    OBVIOUS
  <2> QED
    BY <2>1, <2>2, <2>3, <2>4 DEF r
<1>5. CASE N # 0
  <2>1. PICK a : /\ a = [i \in 1 .. Len(q) |-> IF i = 1 THEN q[i] ELSE a[i - 1] \o q[i]]
                 /\ FlattenSeq(q) = a[Len(q)]
    BY <1>1, <1>5, FlattenIs
  <2>2. \A i \in 1 .. N : a[i] = IF i = 1 THEN q[i] ELSE a[i - 1] \o q[i]
    BY <2>1
  <2> HIDE DEF N
  <2> DEFINE S == {n \in Nat : n \in 1 .. N => a[n] \in Seq(T) /\ b[n] = a[n]}
  <2>3. 0 \in S
    OBVIOUS
  <2>4. ASSUME NEW n \in Nat, n \in S PROVE n + 1 \in S
    <3>1. CASE n = 0
      BY <1>1, <1>3, <2>2, <3>1
    <3>2. CASE n # 0 /\ n + 1 \in 1 .. N
      <4>1. n \in 1 .. N /\ n + 1 # 1 /\ (n + 1) - 1 = n /\ n + 1 \in 1 .. N + 1
        BY <1>1, <3>2
      <4>2. a[n] \in Seq(T) /\ b[n] = a[n]
        BY <2>4, <4>1
      <4>3. a[n + 1] = a[n] \o q[n + 1] /\ b[n + 1] = b[n] \o q[n + 1]
        BY <1>1, <1>3, <2>2, <3>2, <4>1
      <4>4. a[n + 1] \in Seq(T)
        BY <1>1, <3>2, <4>2, <4>3
      <4>5. b[n + 1] = a[n + 1]
        BY <4>2, <4>3
      <4> QED
        BY <4>4, <4>5
    <3>3. CASE n + 1 \notin 1 .. N
      BY <3>3
    <3> QED
      BY <3>1, <3>2, <3>3
  <2> HIDE DEF S
  <2>5. N \in S
    BY <1>1, <2>3, <2>4, InductionOverNat
  <2>6. a[N] \in Seq(T) /\ b[N] = a[N]
    BY <1>1, <1>5, <2>5 DEF S
  <2>7. b[N + 1] = b[N] \o x
    <3>1. N + 1 \in 1 .. N + 1 /\ N + 1 # 1 /\ (N + 1) - 1 = N
      BY <1>1, <1>5
    <3> QED
      BY <1>1, <1>3, <3>1
  <2>8. FlattenSeq(q) = a[N] /\ FlattenSeq(r) = b[N + 1]
    BY <1>1, <1>2, <2>1 DEF N
  <2> QED
    BY <2>6, <2>7, <2>8 DEF r
<1> QED
  BY <1>4, <1>5
=============================================================================
