---------------------------- MODULE LuaSequences ----------------------------
(***************************************************************************)
(* Induction over the numbers up to a bound, what FlattenSeq of the        *)
(* community modules returns, sequences without repetition, and functions  *)
(* defined by recursion on a number of steps: what the proofs about the C  *)
(* stack, the buffers, finalizers and metamethods need.                    *)
(***************************************************************************)
EXTENDS Integers, SequencesExt, TLAPS, WellFoundedInduction, SequenceTheorems

LEMMA Least ==
  ASSUME NEW T, T \subseteq Nat, T # {}
  PROVE  \E x \in T : \A y \in T : x <= y
<1> DEFINE R == OpToRel(<, Nat)
<1>1. \E x \in T : \A y \in T : ~ (<<y, x>> \in R)
  <2>1. IsWellFoundedOn(R, Nat)
    BY NatLessThanWellFounded
  <2> HIDE DEF R
  <2> QED BY <2>1, WFMin
<1>2. \A x, y \in Nat : <<y, x>> \in R <=> y < x
  BY DEF OpToRel
<1> HIDE DEF R
<1>3. PICK x \in T : \A y \in T : ~ (<<y, x>> \in R)
  BY <1>1
<1>4. ASSUME NEW y \in T PROVE x <= y
  <2>1. x \in Nat /\ y \in Nat /\ ~ (y < x)
    BY <1>2, <1>3
  <2> QED BY <2>1
<1> QED BY <1>4

\* Induction up to n, for a property given as the set P.
LEMMA Induction ==
  ASSUME NEW P, NEW n \in Nat, 0 \in P, \A m \in 0..(n - 1) : m \in P => m + 1 \in P
  PROVE  \A m \in 0..n : m \in P
<1> SUFFICES ASSUME NEW k \in 0..n, k \notin P PROVE FALSE
  OBVIOUS
<1> DEFINE T == {m \in 0..n : m \notin P}
<1>1. T \subseteq Nat /\ k \in T
  OBVIOUS
<1>2. PICK x \in T : \A y \in T : x <= y
  <2> HIDE DEF T
  <2> QED BY <1>1, Least
<1>3. x \in 0..n /\ x \notin P /\ x # 0
  OBVIOUS
<1>4. x - 1 \in 0..(n - 1) /\ x - 1 \in 0..n /\ x - 1 + 1 = x /\ ~ (x <= x - 1)
  BY <1>3
<1>5. x - 1 \in P
  BY <1>2, <1>4
<1> QED BY <1>3, <1>4, <1>5

---------------------------------------------------------------------------
(* FlattenSeq *)

Flat(ss, f, n) == \A i \in 1..n : f[i] = IF i = 1 THEN ss[i] ELSE f[i - 1] \o ss[i]
Flattening(ss, f, n) == f = [i \in 1..n |-> IF i = 1 THEN ss[i] ELSE f[i - 1] \o ss[i]]

LEMMA FlatteningExists ==
  ASSUME NEW ss, NEW n \in Nat
  PROVE  \E f : Flattening(ss, f, n)
<1> DEFINE P == {m \in 0..n : \E f : Flattening(ss, f, m)}
<1>1. 0 \in P
  <2>1. PICK f : f = [i \in 1..0 |-> 0]
    OBVIOUS
  <2>2. Flattening(ss, f, 0)
    BY <2>1 DEF Flattening
  <2> QED BY <2>2
<1>2. ASSUME NEW m \in 0..(n - 1), m \in P PROVE m + 1 \in P
  <2>1. PICK f : Flattening(ss, f, m)
    BY <1>2
  <2>2. PICK v : v = IF m = 0 THEN ss[1] ELSE f[m] \o ss[m + 1]
    OBVIOUS
  <2>3. PICK g : g = [i \in 1..(m + 1) |-> IF i = m + 1 THEN v ELSE f[i]]
    OBVIOUS
  <2>4. ASSUME NEW i \in 1..(m + 1)
        PROVE  g[i] = IF i = 1 THEN ss[i] ELSE g[i - 1] \o ss[i]
    <3>1. CASE i = m + 1
      <4>1. m # 0 => i - 1 \in 1..(m + 1) /\ i - 1 # m + 1 /\ i - 1 = m
        BY <3>1
      <4> QED BY <2>2, <2>3, <3>1, <4>1
    <3>2. CASE i # m + 1
      <4>1. i \in 1..m /\ (i # 1 => i - 1 \in 1..(m + 1) /\ i - 1 # m + 1)
        BY <3>2
      <4>2. f[i] = IF i = 1 THEN ss[i] ELSE f[i - 1] \o ss[i]
        BY <2>1, <4>1 DEF Flattening
      <4> QED BY <2>3, <3>2, <4>1, <4>2
    <3> QED BY <3>1, <3>2
  <2>5. Flattening(ss, g, m + 1)
    <3>1. g = [i \in 1..(m + 1) |-> g[i]]
      BY <2>3
    <3> QED BY <2>4, <3>1 DEF Flattening
  <2> QED BY <2>5
<1> HIDE DEF P
<1>3. n \in P
  BY <1>1, <1>2, Induction
<1> QED BY <1>3 DEF P

LEMMA FlatUnique ==
  ASSUME NEW ss, NEW tt, NEW f, NEW g, NEW n \in Nat, \A i \in 1..n : ss[i] = tt[i],
         Flat(ss, f, n), Flat(tt, g, n)
  PROVE  \A i \in 1..n : f[i] = g[i]
<1> DEFINE P == {m \in 0..n : m = 0 \/ f[m] = g[m]}
<1>1. 0 \in P
  OBVIOUS
<1>2. ASSUME NEW m \in 0..(n - 1), m \in P PROVE m + 1 \in P
  <2>1. m + 1 \in 1..n /\ m + 1 - 1 = m /\ (m + 1 = 1 <=> m = 0)
    OBVIOUS
  <2>2. f[m + 1] = g[m + 1]
    BY <1>2, <2>1 DEF Flat
  <2> QED BY <2>1, <2>2
<1> HIDE DEF P
<1>3. \A m \in 0..n : m \in P
  BY <1>1, <1>2, Induction
<1> QED BY <1>3 DEF P

\* What FlattenSeq is: the last value of the recursion.
LEMMA FlattenMeaning ==
  ASSUME NEW ss, Len(ss) \in Nat \ {0}
  PROVE  \E f : Flat(ss, f, Len(ss)) /\ FlattenSeq(ss) = f[Len(ss)]
<1>1. PICK n : n = Len(ss)
  OBVIOUS
<1>2. PICK f : f = CHOOSE h : Flattening(ss, h, n)
  OBVIOUS
<1>3. Flattening(ss, f, n)
  BY <1>1, <1>2, FlatteningExists
<1>4. FlattenSeq(ss) = f[n]
  BY <1>1, <1>2 DEF FlattenSeq, Flattening
<1>5. Flat(ss, f, n)
  BY <1>1, <1>3 DEF Flattening, Flat
<1> QED BY <1>1, <1>4, <1>5

LEMMA FlattenIs ==
  ASSUME NEW ss, Len(ss) \in Nat \ {0}, NEW g, Flat(ss, g, Len(ss))
  PROVE  FlattenSeq(ss) = g[Len(ss)]
<1>1. PICK f : Flat(ss, f, Len(ss)) /\ FlattenSeq(ss) = f[Len(ss)]
  BY FlattenMeaning
<1>2. \A i \in 1..Len(ss) : f[i] = g[i]
  BY <1>1, FlatUnique
<1> QED BY <1>1, <1>2

LEMMA FlattenEmpty == FlattenSeq(<<>>) = <<>>
BY DEF FlattenSeq

LEMMA FlatType ==
  ASSUME NEW S, NEW ss \in Seq(Seq(S)), NEW f, Flat(ss, f, Len(ss))
  PROVE  \A i \in 1..Len(ss) : f[i] \in Seq(S)
<1>1. PICK n : n = Len(ss)
  OBVIOUS
<1>2. n \in Nat /\ \A i \in 1..n : ss[i] \in Seq(S)
  BY <1>1, ElementOfSeq
<1> DEFINE P == {m \in 0..n : m = 0 \/ f[m] \in Seq(S)}
<1>3. 0 \in P
  BY <1>2
<1>4. ASSUME NEW m \in 0..(n - 1), m \in P PROVE m + 1 \in P
  <2>1. m + 1 \in 1..n /\ m + 1 - 1 = m /\ (m + 1 = 1 <=> m = 0)
    BY <1>2
  <2>2. f[m + 1] = IF m = 0 THEN ss[m + 1] ELSE f[m] \o ss[m + 1]
    BY <1>1, <2>1 DEF Flat
  <2>3. ss[m + 1] \in Seq(S)
    BY <1>2, <2>1
  <2>4. m # 0 => f[m] \o ss[m + 1] \in Seq(S)
    BY <1>4, <2>3, ConcatProperties
  <2>5. f[m + 1] \in Seq(S)
    BY <2>2, <2>3, <2>4
  <2> QED BY <1>2, <2>1, <2>5
<1> HIDE DEF P
<1>5. \A m \in 0..n : m \in P
  BY <1>2, <1>3, <1>4, Induction
<1> QED BY <1>1, <1>2, <1>5 DEF P

LEMMA FlattenType ==
  ASSUME NEW S, NEW ss \in Seq(Seq(S))
  PROVE  FlattenSeq(ss) \in Seq(S)
<1>1. CASE ss = <<>>
  BY <1>1, FlattenEmpty, EmptySeq
<1>2. CASE ss # <<>>
  <2>1. Len(ss) \in Nat \ {0} /\ Len(ss) \in 1..Len(ss)
    BY <1>2, EmptySeq
  <2>2. PICK f : Flat(ss, f, Len(ss)) /\ FlattenSeq(ss) = f[Len(ss)]
    BY <2>1, FlattenMeaning
  <2> QED BY <2>1, <2>2, FlatType
<1> QED BY <1>1, <1>2

\* One more sequence at the end.
LEMMA FlattenAppend ==
  ASSUME NEW S, NEW ss \in Seq(Seq(S)), NEW s \in Seq(S)
  PROVE  FlattenSeq(Append(ss, s)) = FlattenSeq(ss) \o s
<1>1. PICK n, tt : n = Len(ss) /\ tt = Append(ss, s)
  OBVIOUS
<1>2. n \in Nat /\ tt \in Seq(Seq(S)) /\ Len(tt) = n + 1 /\ tt[n + 1] = s
      /\ \A i \in 1..n : tt[i] = ss[i]
  BY <1>1
<1>3. PICK g : Flat(tt, g, n + 1) /\ FlattenSeq(tt) = g[n + 1]
  <2>1. Len(tt) \in Nat \ {0}
    BY <1>2
  <2> QED BY <1>2, <2>1, FlattenMeaning
<1>4. n + 1 \in 1..(n + 1) /\ n + 1 - 1 = n /\ (n + 1 = 1 <=> n = 0)
  BY <1>2
<1>5. g[n + 1] = IF n = 0 THEN s ELSE g[n] \o s
  BY <1>2, <1>3, <1>4 DEF Flat
<1>6. CASE n = 0
  <2>1. ss = <<>>
    BY <1>1, <1>6, EmptySeq
  <2>2. FlattenSeq(ss) = <<>> /\ <<>> \o s = s
    BY <2>1, FlattenEmpty, ConcatEmptySeq
  <2> QED BY <1>1, <1>3, <1>5, <1>6, <2>2
<1>7. CASE n # 0
  <2>1. Flat(ss, g, n)
    <3>1. \A i \in 1..n : i \in 1..(n + 1)
      BY <1>2
    <3> QED BY <1>2, <1>3, <3>1 DEF Flat
  <2>2. FlattenSeq(ss) = g[n]
    BY <1>1, <1>2, <1>7, <2>1, FlattenIs
  <2> QED BY <1>1, <1>3, <1>5, <1>7, <2>2
<1> QED BY <1>6, <1>7

\* A sequence of sequences is flattened piecewise.
LEMMA FlattenConcat ==
  ASSUME NEW S, NEW ss \in Seq(Seq(S)), NEW tt \in Seq(Seq(S))
  PROVE  FlattenSeq(ss \o tt) = FlattenSeq(ss) \o FlattenSeq(tt)
<1>1. PICK n : n = Len(tt)
  OBVIOUS
<1>2. n \in Nat /\ \A i \in 1..n : tt[i] \in Seq(S)
  BY <1>1, ElementOfSeq
<1>3. FlattenSeq(ss) \in Seq(S)
  BY FlattenType
<1> DEFINE front(m) == SubSeq(tt, 1, m)
           P == {m \in 0..n : FlattenSeq(ss \o front(m)) = FlattenSeq(ss) \o FlattenSeq(front(m))}
<1>4. 0 \in P
  <2>1. front(0) = <<>> /\ ss \o <<>> = ss /\ FlattenSeq(ss) \o <<>> = FlattenSeq(ss)
    BY <1>3, ConcatEmptySeq
  <2>2. FlattenSeq(ss \o front(0)) = FlattenSeq(ss) \o FlattenSeq(front(0))
    BY <2>1, FlattenEmpty
  <2> QED BY <1>2, <2>2
<1>5. ASSUME NEW m \in 0..(n - 1), m \in P PROVE m + 1 \in P
  <2>1. PICK f, g : f = front(m) /\ g = front(m + 1)
    OBVIOUS
  <2>2. m + 1 \in 1..n /\ m + 1 \in 0..n
    BY <1>2
  <2>3. tt[m + 1] \in Seq(S)
    BY <1>2, <2>2
  <2>4. f \in Seq(Seq(S)) /\ g = Append(f, tt[m + 1])
    BY <1>1, <2>1, <2>2
  <2>5. ss \o f \in Seq(Seq(S)) /\ ss \o g = Append(ss \o f, tt[m + 1])
    BY <2>3, <2>4
  <2>6. FlattenSeq(ss \o g) = FlattenSeq(ss \o f) \o tt[m + 1]
    BY <2>3, <2>5, FlattenAppend
  <2>7. FlattenSeq(g) = FlattenSeq(f) \o tt[m + 1] /\ FlattenSeq(f) \in Seq(S)
    BY <2>3, <2>4, FlattenAppend, FlattenType
  <2>8. FlattenSeq(ss \o f) = FlattenSeq(ss) \o FlattenSeq(f)
    BY <1>5, <2>1
  <2>9. FlattenSeq(ss \o g) = FlattenSeq(ss) \o FlattenSeq(g)
    <3>1. PICK a, b, c : a = FlattenSeq(ss) /\ b = FlattenSeq(f) /\ c = tt[m + 1]
      OBVIOUS
    <3>2. a \in Seq(S) /\ b \in Seq(S) /\ c \in Seq(S)
      BY <1>3, <2>3, <2>7, <3>1
    <3>3. (a \o b) \o c = a \o (b \o c)
      BY ONLY SMTT(30), <3>2, ConcatAssociative
    <3> QED BY <2>6, <2>7, <2>8, <3>1, <3>3
  <2> QED BY <2>1, <2>2, <2>9
<1>6. front(n) = tt
  BY <1>1
<1> HIDE DEF P
<1>7. n \in P
  <2>1. \A m \in 0..(n - 1) : m \in P => m + 1 \in P
    BY <1>5
  <2>2. \A m \in 0..n : m \in P
    BY ONLY <1>2, <1>4, <2>1, Induction
  <2> QED BY <1>2, <2>2
<1> QED BY <1>6, <1>7 DEF P

\* A single sequence.
LEMMA FlattenOne ==
  ASSUME NEW S, NEW s \in Seq(S)
  PROVE  FlattenSeq(<<s>>) = s
<1>1. <<>> \in Seq(Seq(S)) /\ <<s>> = Append(<<>>, s)
  OBVIOUS
<1>2. FlattenSeq(<<s>>) = <<>> \o s
  BY <1>1, FlattenAppend, FlattenEmpty
<1> QED BY <1>2, ConcatEmptySeq

LEMMA FrontAndLast ==
  ASSUME NEW S, NEW s \in Seq(S), s # <<>>
  PROVE  /\ Len(s) \in Nat \ {0} /\ s[Len(s)] \in S
         /\ SubSeq(s, 1, Len(s) - 1) \in Seq(S)
         /\ Len(SubSeq(s, 1, Len(s) - 1)) = Len(s) - 1
         /\ s = Append(SubSeq(s, 1, Len(s) - 1), s[Len(s)])
<1> DEFINE t == SubSeq(s, 1, Len(s) - 1)
<1>1. Len(s) \in Nat \ {0}
  OBVIOUS
<1>2. s[Len(s)] \in S
  BY <1>1, ElementOfSeq
<1>3. /\ t \in Seq(S) /\ Len(t) = Len(s) - 1
      /\ \A i \in 1..(Len(s) - 1) : t[i] = s[i]
  <2>1. 1 \in Int /\ Len(s) - 1 \in Int /\ \A i \in 1..(Len(s) - 1) : s[i] \in S /\ 1 + i - 1 = i
    BY <1>1, ElementOfSeq
  <2>2. PICK m : m = Len(s) - 1
    OBVIOUS
  <2>3. m \in Nat /\ m - 1 + 1 = m /\ (~ (1 <= m) => m = 0)
    BY <1>1, <2>2
  <2>4. /\ SubSeq(s, 1, m) \in Seq(S) /\ Len(SubSeq(s, 1, m)) = (IF 1 <= m THEN m - 1 + 1 ELSE 0)
        /\ \A i \in 1..(m - 1 + 1) : SubSeq(s, 1, m)[i] = s[1 + i - 1]
    BY <2>1, <2>2, SubSeqProperties
  <2>5. Len(SubSeq(s, 1, m)) = m /\ \A i \in 1..m : SubSeq(s, 1, m)[i] = s[i]
    BY <2>3, <2>4
  <2> QED BY <2>2, <2>4, <2>5
<1>4. s = Append(t, s[Len(s)])
  BY <1>1, <1>2, <1>3
<1> QED BY <1>1, <1>2, <1>3, <1>4

---------------------------------------------------------------------------
(* Sequences without repetition, and the elements of one that are in a set *)

Distinct(s) == \A i, j \in 1..Len(s) : s[i] = s[j] => i = j

LEMMA RangeIs ==
  ASSUME NEW S, NEW s \in Seq(S), NEW n, n = Len(s)
  PROVE  Range(s) = {s[i] : i \in 1..n}
BY RangeEquality

LEMMA AppendDistinct ==
  ASSUME NEW S, NEW s \in Seq(S), NEW e \in S, Distinct(s), e \notin Range(s)
  PROVE  /\ Append(s, e) \in Seq(S) /\ Distinct(Append(s, e))
         /\ Range(Append(s, e)) = Range(s) \cup {e}
<1>1. PICK t, n : t = Append(s, e) /\ n = Len(s)
  OBVIOUS
<1>2. /\ t \in Seq(S) /\ Len(t) = n + 1 /\ t[n + 1] = e /\ n \in Nat
      /\ \A i \in 1..n : t[i] = s[i]
  BY <1>1
<1>3. Range(s) = {s[i] : i \in 1..n} /\ Range(t) = {t[i] : i \in 1..(n + 1)}
  <2>1. s \in Seq(S) /\ t \in Seq(S) /\ n = Len(s) /\ n + 1 = Len(t)
    BY <1>1, <1>2
  <2> QED BY ONLY <2>1, RangeIs
<1>4. \A i \in 1..(n + 1) : i \in 1..n \/ i = n + 1
  BY <1>2
<1>5. \A i \in 1..n : i \in 1..(n + 1)
  BY <1>2
<1>6. n + 1 \in 1..(n + 1)
  BY <1>2
<1>7. Distinct(t)
  <2> SUFFICES ASSUME NEW i \in 1..(n + 1), NEW j \in 1..(n + 1), t[i] = t[j] PROVE i = j
    BY <1>2 DEF Distinct
  <2>1. CASE i \in 1..n /\ j \in 1..n
    BY <1>1, <1>2, <2>1 DEF Distinct
  <2>2. CASE i = n + 1 /\ j \in 1..n
    BY <1>2, <1>3, <2>2
  <2>3. CASE i \in 1..n /\ j = n + 1
    BY <1>2, <1>3, <2>3
  <2> QED BY <1>4, <2>1, <2>2, <2>3
<1>8. Range(t) = Range(s) \cup {e}
  BY <1>2, <1>3, <1>4, <1>5, <1>6
<1> QED BY <1>1, <1>2, <1>7, <1>8

LEMMA ConcatDistinct ==
  ASSUME NEW S, NEW s \in Seq(S), NEW t \in Seq(S), Distinct(s), Distinct(t), Range(s) \cap Range(t) = {}
  PROVE  s \o t \in Seq(S) /\ Distinct(s \o t) /\ Range(s \o t) = Range(s) \cup Range(t)
<1>1. PICK m, n, c : m = Len(s) /\ n = Len(t) /\ c = s \o t
  OBVIOUS
<1>2. /\ c \in Seq(S) /\ Len(c) = m + n /\ m \in Nat /\ n \in Nat
      /\ \A i \in 1..(m + n) : c[i] = IF i <= m THEN s[i] ELSE t[i - m]
  BY <1>1, ConcatProperties
<1>3. Range(s) = {s[i] : i \in 1..m} /\ Range(t) = {t[i] : i \in 1..n}
  BY <1>1, RangeIs
<1>4. \A i \in 1..(m + n) : \/ i \in 1..m /\ c[i] = s[i] /\ c[i] \in Range(s)
                            \/ i - m \in 1..n /\ i \in Nat /\ c[i] = t[i - m] /\ c[i] \in Range(t)
  <2> SUFFICES ASSUME NEW i \in 1..(m + n)
               PROVE  \/ i \in 1..m /\ c[i] = s[i] /\ c[i] \in Range(s)
                      \/ i - m \in 1..n /\ i \in Nat /\ c[i] = t[i - m] /\ c[i] \in Range(t)
    OBVIOUS
  <2>1. i \in 1..m \/ (~ (i <= m) /\ i - m \in 1..n /\ i \in Nat)
    BY <1>2
  <2>2. c[i] = IF i <= m THEN s[i] ELSE t[i - m]
    BY <1>2
  <2> QED BY <1>3, <2>1, <2>2
<1>5. Distinct(c)
  <2> SUFFICES ASSUME NEW i \in 1..(m + n), NEW j \in 1..(m + n), c[i] = c[j] PROVE i = j
    BY <1>2 DEF Distinct
  <2>1. CASE i \in 1..m /\ j \in 1..m /\ c[i] = s[i] /\ c[j] = s[j]
    BY <1>1, <2>1 DEF Distinct
  <2>2. CASE i - m \in 1..n /\ j - m \in 1..n /\ c[i] = t[i - m] /\ c[j] = t[j - m]
    <3>1. i - m = j - m
      BY <1>1, <2>2 DEF Distinct
    <3> QED BY <1>2, <3>1
  <2> QED BY <1>4, <2>1, <2>2
<1>6. Range(c) = Range(s) \cup Range(t)
  BY <1>1, RangeConcatenation
<1> QED BY <1>1, <1>2, <1>5, <1>6

LEMMA HeadDistinct ==
  ASSUME NEW S, NEW s \in Seq(S), Distinct(s), s # <<>>
  PROVE  /\ Head(s) \in S /\ Tail(s) \in Seq(S) /\ Distinct(Tail(s))
         /\ Range(s) = Range(Tail(s)) \cup {Head(s)} /\ Head(s) \notin Range(Tail(s))
<1>1. PICK n, t : n = Len(s) /\ t = Tail(s)
  OBVIOUS
<1>2. n \in Nat \ {0} /\ Head(s) = s[1]
  BY <1>1
<1>3. Head(s) \in S /\ t \in Seq(S) /\ Len(t) = n - 1 /\ \A i \in 1..(n - 1) : t[i] = s[i + 1]
  BY <1>1, HeadTailProperties
<1>4. Range(s) = {s[i] : i \in 1..n} /\ Range(t) = {t[i] : i \in 1..(n - 1)}
  <2>1. s \in Seq(S) /\ t \in Seq(S) /\ n = Len(s) /\ n - 1 = Len(t)
    BY <1>1, <1>3
  <2> QED BY ONLY <2>1, RangeIs
<1>5. \A i \in 1..(n - 1) : i + 1 \in 1..n /\ i + 1 # 1 /\ i + 1 - 1 = i
  BY <1>2
<1>6. \A i \in 1..n : i = 1 \/ (i - 1 \in 1..(n - 1) /\ i - 1 + 1 = i)
  BY <1>2
<1>7. Distinct(t)
  <2> SUFFICES ASSUME NEW i \in 1..(n - 1), NEW j \in 1..(n - 1), t[i] = t[j] PROVE i = j
    BY <1>3 DEF Distinct
  <2>1. i + 1 = j + 1
    BY <1>1, <1>3, <1>5 DEF Distinct
  <2> QED BY <2>1
<1>8. 1 \in 1..n
  BY <1>2
<1>9. s[1] \notin Range(t)
  <2> SUFFICES ASSUME NEW i \in 1..(n - 1), s[i + 1] = s[1] PROVE FALSE
    BY <1>3, <1>4
  <2>1. i + 1 = 1
    BY <1>1, <1>5, <1>8 DEF Distinct
  <2> QED BY <1>5, <2>1
<1>10. Range(s) = Range(t) \cup {s[1]}
  <2>1. ASSUME NEW i \in 1..n PROVE s[i] \in Range(t) \cup {s[1]}
    <3>1. CASE i = 1
      BY <3>1
    <3>2. CASE i - 1 \in 1..(n - 1) /\ i - 1 + 1 = i
      <4>1. t[i - 1] = s[i]
        BY <1>3, <3>2
      <4> QED BY <1>4, <3>2, <4>1
    <3> QED BY <1>6, <3>1, <3>2
  <2>2. ASSUME NEW i \in 1..(n - 1) PROVE t[i] \in Range(s)
    BY <1>3, <1>4, <1>5
  <2> QED BY <1>4, <1>8, <2>1, <2>2
<1> QED BY <1>1, <1>2, <1>3, <1>7, <1>9, <1>10

Picks(s, W, f, n) == f = [i \in 0..n |-> IF i = 0 THEN <<>>
                                         ELSE IF s[i] \in W THEN Append(f[i - 1], s[i])
                                         ELSE f[i - 1]]

LEMMA PickingExists ==
  ASSUME NEW s, NEW W, NEW n \in Nat
  PROVE  \E f : Picks(s, W, f, n)
<1> DEFINE P == {m \in 0..n : \E f : Picks(s, W, f, m)}
<1>1. 0 \in P
  <2>1. PICK f : f = [i \in 0..0 |-> <<>>]
    OBVIOUS
  <2>2. Picks(s, W, f, 0)
    BY <2>1 DEF Picks
  <2> QED BY <2>2
<1>2. ASSUME NEW m \in 0..(n - 1), m \in P PROVE m + 1 \in P
  <2>1. PICK f : Picks(s, W, f, m)
    BY <1>2
  <2>2. PICK v : v = IF s[m + 1] \in W THEN Append(f[m], s[m + 1]) ELSE f[m]
    OBVIOUS
  <2>3. PICK g : g = [i \in 0..(m + 1) |-> IF i = m + 1 THEN v ELSE f[i]]
    OBVIOUS
  <2>4. ASSUME NEW i \in 0..(m + 1)
        PROVE  g[i] = IF i = 0 THEN <<>> ELSE IF s[i] \in W THEN Append(g[i - 1], s[i]) ELSE g[i - 1]
    <3>1. CASE i = m + 1
      <4>1. i # 0 /\ i - 1 \in 0..(m + 1) /\ i - 1 # m + 1 /\ i - 1 = m
        BY <3>1
      <4> QED BY <2>2, <2>3, <3>1, <4>1
    <3>2. CASE i # m + 1
      <4>1. i \in 0..m /\ (i # 0 => i - 1 \in 0..(m + 1) /\ i - 1 # m + 1)
        BY <3>2
      <4>2. f[i] = IF i = 0 THEN <<>> ELSE IF s[i] \in W THEN Append(f[i - 1], s[i]) ELSE f[i - 1]
        BY <2>1, <4>1 DEF Picks
      <4> QED BY <2>3, <3>2, <4>1, <4>2
    <3> QED BY <3>1, <3>2
  <2>5. Picks(s, W, g, m + 1)
    <3>1. g = [i \in 0..(m + 1) |-> g[i]]
      BY <2>3
    <3> QED BY <2>4, <3>1 DEF Picks
  <2> QED BY <2>5
<1> HIDE DEF P
<1>3. n \in P
  <2>1. \A m \in 0..(n - 1) : m \in P => m + 1 \in P
    BY <1>2
  <2> QED BY <1>1, <2>1, Induction
<1> QED BY <1>3 DEF P

\* The elements of s in W, in their order.
LEMMA Picked ==
  ASSUME NEW S, NEW s \in Seq(S), NEW W, NEW f, Picks(s, W, f, Len(s)), Distinct(s)
  PROVE  /\ f[Len(s)] \in Seq(S) /\ Distinct(f[Len(s)])
         /\ Range(f[Len(s)]) = Range(s) \cap W
<1>1. PICK n : n = Len(s)
  OBVIOUS
<1>2. n \in Nat /\ \A i \in 1..n : s[i] \in S
  BY <1>1, ElementOfSeq
<1> DEFINE P == {m \in 0..n : /\ f[m] \in Seq(S) /\ Distinct(f[m])
                              /\ Range(f[m]) = {s[i] : i \in 1..m} \cap W}
<1>3. 0 \in P
  <2>1. f[0] = <<>>
    BY <1>1, <1>2 DEF Picks
  <2>2. <<>> \in Seq(S) /\ Distinct(<<>>)
    BY DEF Distinct
  <2>3. PICK e : e = f[0]
    OBVIOUS
  <2>4. e \in Seq(S) /\ 0 = Len(e)
    BY <2>1, <2>2, <2>3
  <2>5. Range(e) = {e[i] : i \in 1..0}
    BY ONLY <2>4, RangeIs
  <2>6. Range(f[0]) = {s[i] : i \in 1..0} \cap W
    BY <2>3, <2>5
  <2>7. f[0] \in Seq(S) /\ Distinct(f[0]) /\ 0 \in 0..n
    BY <1>2, <2>1, <2>2
  <2> QED BY <2>6, <2>7
<1>4. ASSUME NEW m \in 0..(n - 1), m \in P PROVE m + 1 \in P
  <2>1. m + 1 \in 1..n /\ m + 1 \in 0..n /\ m + 1 # 0 /\ m + 1 - 1 = m /\ m + 1 \in 1..(m + 1)
    BY <1>2
  <2>2. f[m + 1] = IF s[m + 1] \in W THEN Append(f[m], s[m + 1]) ELSE f[m]
    <3>1. PICK k : k = m + 1
      OBVIOUS
    <3>2. k \in 0..n /\ k # 0 /\ k - 1 = m
      BY <2>1, <3>1
    <3>3. Picks(s, W, f, n)
      BY <1>1
    <3>4. \A i \in 0..n : f[i] = IF i = 0 THEN <<>> ELSE IF s[i] \in W THEN Append(f[i - 1], s[i])
                              ELSE f[i - 1]
      BY ONLY <3>3 DEF Picks
    <3>5. f[k] = IF s[k] \in W THEN Append(f[k - 1], s[k]) ELSE f[k - 1]
      BY ONLY <3>2, <3>4
    <3> QED BY ONLY <3>1, <3>2, <3>5
  <2>3. \A i \in 1..(m + 1) : i \in 1..m \/ i = m + 1
    OBVIOUS
  <2>4. \A i \in 1..m : i \in 1..(m + 1) /\ i \in 1..n /\ i # m + 1
    BY <1>2
  <2>5. {s[i] : i \in 1..(m + 1)} = {s[i] : i \in 1..m} \cup {s[m + 1]}
    BY <2>1, <2>3, <2>4
  <2>6. s[m + 1] \notin {s[i] : i \in 1..m}
    BY <1>1, <2>1, <2>4 DEF Distinct
  <2>7. f[m] \in Seq(S) /\ Distinct(f[m]) /\ Range(f[m]) = {s[i] : i \in 1..m} \cap W
    BY <1>4
  <2>8. CASE s[m + 1] \in W
    <3>1. s[m + 1] \in S /\ s[m + 1] \notin Range(f[m])
      BY <1>2, <2>1, <2>6, <2>7
    <3>2. /\ f[m + 1] \in Seq(S) /\ Distinct(f[m + 1])
          /\ Range(f[m + 1]) = Range(f[m]) \cup {s[m + 1]}
      BY <2>2, <2>7, <2>8, <3>1, AppendDistinct
    <3> QED BY <2>1, <2>5, <2>7, <2>8, <3>2
  <2>9. CASE s[m + 1] \notin W
    BY <2>1, <2>2, <2>5, <2>7, <2>9
  <2> QED BY <2>8, <2>9
<1> HIDE DEF P
<1>5. n \in P
  <2>1. \A m \in 0..(n - 1) : m \in P => m + 1 \in P
    BY <1>4
  <2> QED BY <1>2, <1>3, <2>1, Induction
<1>6. Range(s) = {s[i] : i \in 1..n}
  BY <1>1, RangeIs
<1> QED BY <1>1, <1>5, <1>6 DEF P
---------------------------------------------------------------------------
(* Functions defined by recursion on a number of steps *)

\* What following next from each v of V leads to in at most i steps: where s is
\* defined it ends with that, and z is the result when the steps run out.
ChainEnd(z, s, next, f, i, v) ==
  IF i = 0 THEN z ELSE IF v \in DOMAIN s THEN s[v] ELSE f[i - 1][next[v]]
Chases(z, s, next, V, f, n) ==
  f = [i \in 0..n |-> [v \in V |-> ChainEnd(z, s, next, f, i, v)]]

LEMMA ChasingExists ==
  ASSUME NEW z, NEW s, NEW next, NEW V, NEW n \in Nat
  PROVE  \E f : Chases(z, s, next, V, f, n)
<1> DEFINE P == {m \in 0..n : \E f : Chases(z, s, next, V, f, m)}
<1>1. 0 \in P
  <2>1. PICK f : f = [i \in 0..0 |-> [v \in V |-> z]]
    OBVIOUS
  <2>2. \A i \in 0..0 : f[i] = [v \in V |-> ChainEnd(z, s, next, f, i, v)]
    BY <2>1 DEF ChainEnd
  <2>3. f = [i \in 0..0 |-> f[i]]
    BY <2>1
  <2>4. Chases(z, s, next, V, f, 0)
    BY <2>2, <2>3 DEF Chases
  <2> QED BY <2>4
<1>2. ASSUME NEW m \in 0..(n - 1), m \in P PROVE m + 1 \in P
  <2>1. PICK f : Chases(z, s, next, V, f, m)
    BY <1>2
  <2>2. PICK w : w = [v \in V |-> ChainEnd(z, s, next, f, m + 1, v)]
    OBVIOUS
  <2>3. PICK g : g = [i \in 0..(m + 1) |-> IF i = m + 1 THEN w ELSE f[i]]
    OBVIOUS
  <2>4. ASSUME NEW i \in 0..(m + 1) PROVE g[i] = [v \in V |-> ChainEnd(z, s, next, g, i, v)]
    <3>1. i # 0 => i - 1 \in 0..(m + 1) /\ i - 1 # m + 1
      OBVIOUS
    <3>2. \A v : ChainEnd(z, s, next, g, i, v) = ChainEnd(z, s, next, f, i, v)
      BY <2>3, <3>1 DEF ChainEnd
    <3>3. CASE i = m + 1
      BY <2>2, <2>3, <3>2, <3>3
    <3>4. CASE i # m + 1
      <4>1. i \in 0..m /\ g[i] = f[i]
        BY <2>3, <3>4
      <4>2. f[i] = [v \in V |-> ChainEnd(z, s, next, f, i, v)]
        BY <2>1, <4>1 DEF Chases
      <4> QED BY <3>2, <4>1, <4>2
    <3> QED BY <3>3, <3>4
  <2>5. g = [i \in 0..(m + 1) |-> g[i]]
    BY <2>3
  <2>6. Chases(z, s, next, V, g, m + 1)
    BY <2>4, <2>5 DEF Chases
  <2> QED BY <2>6
<1> HIDE DEF P
<1>3. n \in P
  <2>1. \A m \in 0..(n - 1) : m \in P => m + 1 \in P
    BY <1>2
  <2> QED BY <1>1, <2>1, Induction
<1> QED BY <1>3 DEF P
=============================================================================
