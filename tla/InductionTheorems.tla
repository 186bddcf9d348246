-------------------------- MODULE InductionTheorems --------------------------
(***************************************************************************)
(* Induction over the natural numbers, stated with a set in the place of a *)
(* predicate, and what it says of the functions by which folds over        *)
(* sequences and sums over sets are defined.                               *)
(***************************************************************************)
EXTENDS Integers, Sequences, FiniteSetsExt, SequencesExt, TLAPS,
        WellFoundedInduction, SequenceTheorems, FiniteSetTheorems

Less == {p \in Nat \X Nat : p[1] < p[2]}

(* A set of natural numbers has a least element.                           *)
LEMMA LeastElement ==
    ASSUME NEW T, T \subseteq Nat, T # {}
    PROVE  \E x \in T : \A y \in T : x <= y
  <1>1. IsWellFoundedOn(Less, Nat)  BY NatLessThanWellFounded DEF Less, OpToRel
  <1>2. PICK x \in T : \A y \in T : <<y, x>> \notin Less  BY <1>1, WFMin
  <1>3. \A y \in T : ~(y < x)  BY <1>2 DEF Less
  <1> QED  BY <1>3

(* Induction: what holds of 0, and of n + 1 when it holds of n.            *)
LEMMA Induction ==
    ASSUME NEW S, 0 \in S, \A n \in Nat : n \in S => n + 1 \in S
    PROVE  Nat \subseteq S
  <1> DEFINE T == Nat \ S
  <1>1. SUFFICES ASSUME T # {} PROVE FALSE  OBVIOUS
  <1>2. PICK x \in T : \A y \in T : x <= y
    <2>1. T \subseteq Nat  OBVIOUS
    <2> HIDE DEF T
    <2> QED  BY <1>1, <2>1, LeastElement
  <1>3. x # 0 /\ x - 1 \in Nat /\ x - 1 \notin T  BY <1>2
  <1> QED  BY <1>1, <1>2, <1>3

(* Induction up to a bound.                                                *)
LEMMA InductionTo ==
    ASSUME NEW n \in Nat, NEW S, 0 \in S, \A k \in 0..(n - 1) : k \in S => k + 1 \in S
    PROVE  0..n \subseteq S
  <1> DEFINE T == {k \in Nat : k <= n => k \in S}
  <1>1. 0 \in T  OBVIOUS
  <1>2. \A k \in Nat : k \in T => k + 1 \in T  OBVIOUS
  <1>3. Nat \subseteq T
    <2> HIDE DEF T
    <2> QED  BY <1>1, <1>2, Induction
  <1> QED  BY <1>3

(* Induction over sequences, by the element appended.                      *)
LEMMA SeqInduction ==
    ASSUME NEW L, NEW T, <<>> \in T,
           \A s \in Seq(L), e \in L : s \in T => Append(s, e) \in T
    PROVE  Seq(L) \subseteq T
  <1> DEFINE S == {n \in Nat : \A s \in Seq(L) : Len(s) = n => s \in T}
  <1>1. 0 \in S
    <2>1. \A s \in Seq(L) : Len(s) = 0 => s = <<>>  BY EmptySeq
    <2> QED  BY <2>1
  <1>2. ASSUME NEW n \in Nat, n \in S PROVE n + 1 \in S
    <2> SUFFICES ASSUME NEW s \in Seq(L), Len(s) = n + 1 PROVE s \in T  OBVIOUS
    <2>1. s # <<>>  BY EmptySeq
    <2>2. PICK t \in Seq(L), e \in L : s = Append(t, e)
      BY <2>1, SequenceEmptyOrAppend
    <2>3. Len(t) = n  BY <2>2
    <2> QED  BY <2>2, <2>3, <1>2
  <1>3. Nat \subseteq S
    <2> HIDE DEF S
    <2> QED  BY <1>1, <1>2, Induction
  <1>4. \A s \in Seq(L) : Len(s) \in Nat  OBVIOUS
  <1> QED  BY <1>3, <1>4

(* Appending to the right part of a concatenation.                         *)
LEMMA ConcatAppend ==
    ASSUME NEW L, NEW s \in Seq(L), NEW t \in Seq(L), NEW e \in L
    PROVE  s \o Append(t, e) = Append(s \o t, e)
  <1>1. <<e>> \in Seq(L) /\ s \o t \in Seq(L)  OBVIOUS
  <1>2. Append(t, e) = t \o <<e>> /\ Append(s \o t, e) = (s \o t) \o <<e>>
    BY <1>1, AppendIsConcat
  <1> QED  BY <1>1, <1>2, ConcatAssociative

-----------------------------------------------------------------------------
(* Maxima of sets of indices.                                              *)

LEMMA MaxOfIndices ==
    ASSUME NEW n \in Nat, NEW S, S \subseteq 1..n, S # {}
    PROVE  Max(S) \in S /\ \A y \in S : y <= Max(S)
  <1> DEFINE T == {n - x : x \in S}
  <1>1. T \subseteq Nat /\ T # {}  OBVIOUS
  <1>2. PICK t \in T : \A y \in T : t <= y
    <2> HIDE DEF T
    <2> QED  BY <1>1, LeastElement
  <1>3. PICK m \in S : t = n - m  BY <1>2
  <1>4. \A y \in S : m >= y  BY <1>2, <1>3
  <1>5. \E m1 \in S : \A y \in S : m1 >= y  BY <1>4
  <1> QED  BY <1>5 DEF Max

LEMMA MaxIs ==
    ASSUME NEW n \in Nat, NEW S, S \subseteq 1..n, NEW m \in S, \A y \in S : y <= m
    PROVE  Max(S) = m
  <1> DEFINE a == Max(S)
  <1>1. a \in S /\ \A y \in S : y <= a  BY MaxOfIndices
  <1> HIDE DEF a
  <1>2. m <= a /\ a <= m  BY <1>1
  <1>3. m \in Int  OBVIOUS
  <1>4. a \in Int  BY <1>1
  <1>5. a = m  BY <1>2, <1>3, <1>4
  <1> QED  BY <1>5 DEF a

(* The indices up to n + 1, whose maximum is n + 1, and those without it.  *)
LEMMA MaxOfPrefix ==
    ASSUME NEW n \in Nat
    PROVE  Max(1..(n + 1)) = n + 1 /\ (1..(n + 1)) \ {n + 1} = 1..n
  <1>1. n + 1 \in Nat /\ n + 1 \in 1..(n + 1) /\ \A y \in 1..(n + 1) : y <= n + 1
    OBVIOUS
  <1>2. Max(1..(n + 1)) = n + 1  BY <1>1, MaxIs
  <1> QED  BY <1>2

(* The minimum of a set of natural numbers.                               *)
LEMMA MinIsLeast ==
    ASSUME NEW S, S \subseteq Nat, S # {}
    PROVE  Min(S) \in S /\ \A y \in S : Min(S) <= y
  <1>1. \E x \in S : \A y \in S : x <= y  BY LeastElement
  <1> QED  BY <1>1 DEF Min

LEMMA LeastIs ==
    ASSUME NEW S, S \subseteq Nat, NEW m \in S, \A y \in S : m <= y
    PROVE  Min(S) = m
  <1> DEFINE a == Min(S)
  <1>1. a \in S /\ \A y \in S : a <= y  BY MinIsLeast
  <1> HIDE DEF a
  <1>2. a \in Nat /\ m \in Nat /\ m <= a /\ a <= m  BY <1>1
  <1>3. a = m  BY <1>2
  <1> QED  BY <1>3 DEF a

-----------------------------------------------------------------------------
(* The function over sets of indices by which MapThenFoldSet is defined.   *)
IsIter(it, n, base, G) ==
    it = [s \in SUBSET (1..n) |->
            IF s = {} THEN base ELSE G[<<it[s \ {Max(s)}], Max(s)>>]]

(* There is one, for any step G on a set of values.                        *)
LEMMA IterExists ==
    ASSUME NEW N \in Nat, NEW V, NEW base \in V, NEW G \in [V \X (1..N) -> V]
    PROVE  \E it \in [SUBSET (1..N) -> V] : IsIter(it, N, base, G)
  <1> DEFINE P(k) == \E it \in [SUBSET (1..k) -> V] : IsIter(it, k, base, G)
             S == {k \in 0..N : P(k)}
  <1>1. P(0)
    <2> DEFINE it == [s \in SUBSET (1..0) |-> base]
    <2>1. \A s \in SUBSET (1..0) : s = {}  OBVIOUS
    <2>2. it \in [SUBSET (1..0) -> V] /\ IsIter(it, 0, base, G)  BY <2>1 DEF IsIter
    <2> QED  BY <2>2
  <1>2. ASSUME NEW k \in 0..(N - 1), P(k) PROVE P(k + 1)
    <2>1. PICK old \in [SUBSET (1..k) -> V] : IsIter(old, k, base, G)  BY <1>2
    <2> DEFINE n == k + 1
               it == [s \in SUBSET (1..n) |->
                        IF n \in s THEN G[<<old[s \ {n}], n>>] ELSE old[s]]
    <2>2. \A s \in SUBSET (1..n) : s \ {n} \in SUBSET (1..k)  OBVIOUS
    <2>3. \A s \in SUBSET (1..n) : n \notin s => s \in SUBSET (1..k)  BY <2>2
    <2>4. \A s \in SUBSET (1..n) : it[s] \in V  BY <2>1, <2>2, <2>3
    <2>5. ASSUME NEW s \in SUBSET (1..n)
          PROVE  it[s] = IF s = {} THEN base ELSE G[<<it[s \ {Max(s)}], Max(s)>>]
      <3>1. CASE s = {}  BY <3>1, <2>1, <2>3 DEF IsIter
      <3>2. CASE n \in s
        <4>1. Max(s) = n
          <5>1. n \in Nat /\ s \subseteq 1..n /\ \A y \in s : y <= n  OBVIOUS
          <5> HIDE DEF n
          <5> QED  BY <5>1, <3>2, MaxIs
        <4>2. it[s \ {n}] = old[s \ {n}]  BY <2>2
        <4> QED  BY <4>1, <4>2, <3>2
      <3>3. CASE n \notin s /\ s # {}
        <4>1. s \in SUBSET (1..k)  BY <3>3, <2>3
        <4>2. Max(s) \in s
          <5>1. k \in Nat /\ s \subseteq 1..k  BY <4>1
          <5> QED  BY <5>1, <3>3, MaxOfIndices
        <4>3. s \ {Max(s)} \in SUBSET (1..k) /\ n \notin s \ {Max(s)}  BY <4>1, <3>3
        <4>4. it[s \ {Max(s)}] = old[s \ {Max(s)}]  BY <4>3
        <4>5. old[s] = G[<<old[s \ {Max(s)}], Max(s)>>]  BY <2>1, <4>1, <3>3 DEF IsIter
        <4> QED  BY <4>4, <4>5, <3>3
      <3> QED  BY <3>1, <3>2, <3>3
    <2>6. it \in [SUBSET (1..n) -> V]  BY <2>4
    <2>7. IsIter(it, n, base, G)  BY <2>5 DEF IsIter
    <2> QED  BY <2>6, <2>7
  <1> HIDE DEF P
  <1>3. 0 \in S /\ \A k \in 0..(N - 1) : k \in S => k + 1 \in S  BY <1>1, <1>2
  <1>4. 0..N \subseteq S
    <2> HIDE DEF S
    <2> QED  BY <1>3, InductionTo
  <1>5. P(N)  BY <1>4
  <1> QED  BY <1>5 DEF P

-----------------------------------------------------------------------------
(* FlattenSeq.                                                             *)

(* The function by which FlattenSeq is defined.                            *)
IsFlat(f, ss) ==
    f = [i \in 1..Len(ss) |-> IF i = 1 THEN ss[i] ELSE f[i - 1] \o ss[i]]

LEMMA FlatExists ==
    ASSUME NEW L, NEW ss \in Seq(Seq(L))
    PROVE  \E f \in [1..Len(ss) -> Seq(L)] : IsFlat(f, ss)
  <1> DEFINE N == Len(ss)
             F(i, f) == IF i = 1 THEN ss[i] ELSE f[i - 1] \o ss[i]
             P(k) == \E f \in [1..k -> Seq(L)] : \A i \in 1..k : f[i] = F(i, f)
             S == {k \in 0..N : P(k)}
  <1>1. P(0)
    <2> DEFINE f == [i \in 1..0 |-> <<>>]
    <2>1. f \in [1..0 -> Seq(L)] /\ \A i \in 1..0 : f[i] = F(i, f)  OBVIOUS
    <2> QED  BY <2>1
  <1>2. ASSUME NEW k \in 0..(N - 1), P(k) PROVE P(k + 1)
    <2>1. PICK old \in [1..k -> Seq(L)] : \A i \in 1..k : old[i] = F(i, old)  BY <1>2
    <2> DEFINE f == [i \in 1..(k + 1) |-> IF i <= k THEN old[i] ELSE F(i, old)]
    <2>2. \A i \in 1..(k + 1) : f[i] \in Seq(L)
      <3> TAKE i \in 1..(k + 1)
      <3>1. ss[i] \in Seq(L)  OBVIOUS
      <3>2. i # 1 => old[i - 1] \in Seq(L)  BY <2>1
      <3>3. F(i, old) \in Seq(L)  BY <3>1, <3>2
      <3>4. i <= k => old[i] \in Seq(L)  BY <2>1
      <3> HIDE DEF F
      <3> QED  BY <3>3, <3>4
    <2>3. ASSUME NEW i \in 1..(k + 1) PROVE f[i] = F(i, f)
      <3>1. i # 1 => f[i - 1] = old[i - 1]  OBVIOUS
      <3>2. F(i, f) = F(i, old)  BY <3>1
      <3>3. i <= k => old[i] = F(i, old)
        <4>1. i <= k => i \in 1..k  OBVIOUS
        <4> HIDE DEF F
        <4> QED  BY <4>1, <2>1
      <3>4. f[i] = F(i, old)  BY <3>3
      <3> QED  BY <3>2, <3>4
    <2>4. f \in [1..(k + 1) -> Seq(L)]  BY <2>2
    <2> QED  BY <2>3, <2>4
  <1> HIDE DEF P
  <1>3. 0 \in S /\ \A k \in 0..(N - 1) : k \in S => k + 1 \in S  BY <1>1, <1>2
  <1>4. 0..N \subseteq S
    <2>1. N \in Nat  OBVIOUS
    <2> HIDE DEF S, N
    <2> QED  BY <1>3, <2>1, InductionTo
  <1>5. P(N)  BY <1>4
  <1>6. PICK f \in [1..N -> Seq(L)] : \A i \in 1..N : f[i] = F(i, f)  BY <1>5 DEF P
  <1> QED  BY <1>6 DEF IsFlat

LEMMA FlattenIs ==
    ASSUME NEW ss
    PROVE  FlattenSeq(ss) = IF Len(ss) = 0 THEN ss
                            ELSE (CHOOSE f : IsFlat(f, ss))[Len(ss)]
  BY DEF FlattenSeq, IsFlat

(* The flattened sequence is one, and flattening a longer sequence of      *)
(* sequences appends the last one.                                         *)
LEMMA FlattenAppend ==
    ASSUME NEW L, NEW ss \in Seq(Seq(L)), NEW s \in Seq(L)
    PROVE  /\ FlattenSeq(ss) \in Seq(L)
           /\ FlattenSeq(Append(ss, s)) = FlattenSeq(ss) \o s
  <1> DEFINE n == Len(ss)
             longer == Append(ss, s)
             f == CHOOSE h : IsFlat(h, ss)
             g == CHOOSE h : IsFlat(h, longer)
  <1>1. /\ n \in Nat /\ longer \in Seq(Seq(L)) /\ Len(longer) = n + 1
        /\ longer[n + 1] = s /\ \A i \in 1..n : longer[i] = ss[i]
    OBVIOUS
  <1>2. PICK f1 \in [1..n -> Seq(L)] : IsFlat(f1, ss)  BY FlatExists
  <1>3. IsFlat(f, ss)  BY <1>2
  <1>4. IsFlat(g, longer)
    <2>1. \E h : IsFlat(h, longer)
      <3> HIDE DEF longer
      <3> QED  BY <1>1, FlatExists
    <2> QED  BY <2>1
  <1>5. FlattenSeq(ss) = IF n = 0 THEN ss ELSE f[n]  BY FlattenIs
  <1>6. FlattenSeq(longer) = g[n + 1]
    <2>1. Len(longer) # 0  BY <1>1
    <2> HIDE DEF longer
    <2> QED  BY <2>1, <1>1, FlattenIs DEF g
  <1>7. n = 0 => ss = <<>>  BY EmptySeq
  <1> HIDE DEF f, g, longer
  <1>8. \A i \in 1..n : f[i] = IF i = 1 THEN ss[i] ELSE f[i - 1] \o ss[i]
    BY <1>3 DEF IsFlat
  <1>9. \A i \in 1..n : f1[i] = IF i = 1 THEN ss[i] ELSE f1[i - 1] \o ss[i]
    BY <1>2 DEF IsFlat
  <1>10. \A i \in 1..(n + 1) :
            g[i] = IF i = 1 THEN longer[i] ELSE g[i - 1] \o longer[i]
    BY <1>1, <1>4 DEF IsFlat
  <1> DEFINE S == {k \in 0..n : k > 0 => f[k] = g[k] /\ f[k] = f1[k]}
  <1> HIDE DEF n
  <1>11. 0 \in S  BY <1>1
  <1>12. ASSUME NEW k \in 0..(n - 1), k \in S PROVE k + 1 \in S
    <2>1. k + 1 \in 1..n /\ k + 1 \in 0..n /\ k + 1 \in 1..(n + 1) /\ (k + 1) - 1 = k
      BY <1>1
    <2>2. k + 1 # 1 => k > 0  OBVIOUS
    <2>3. f[k + 1] = IF k + 1 = 1 THEN ss[k + 1] ELSE f[k] \o ss[k + 1]
      BY <2>1, <1>8
    <2>4. f1[k + 1] = IF k + 1 = 1 THEN ss[k + 1] ELSE f1[k] \o ss[k + 1]
      BY <2>1, <1>9
    <2>5. g[k + 1] = IF k + 1 = 1 THEN ss[k + 1] ELSE g[k] \o ss[k + 1]
      BY <2>1, <1>10, <1>1
    <2> QED  BY <2>1, <2>2, <2>3, <2>4, <2>5, <1>12
  <1>13. 0..n \subseteq S
    <2> HIDE DEF S
    <2> QED  BY <1>1, <1>11, <1>12, InductionTo
  <1>14. n > 0 => f[n] = g[n] /\ f[n] \in Seq(L)
    <2>1. n \in 0..n /\ (n > 0 => n \in 1..n)  BY <1>1
    <2> QED  BY <2>1, <1>13, <1>2
  <1>15. n + 1 \in 1..(n + 1) /\ (n + 1) - 1 = n  BY <1>1
  <1>16. g[n + 1] = IF n = 0 THEN s ELSE g[n] \o s  BY <1>1, <1>10, <1>15
  <1>17. CASE n = 0
    <2>1. <<>> \o s = s  OBVIOUS
    <2> QED  BY <2>1, <1>5, <1>6, <1>7, <1>16, <1>17 DEF longer
  <1>18. CASE n # 0
    <2>1. n > 0  BY <1>1, <1>18
    <2> QED  BY <2>1, <1>5, <1>6, <1>14, <1>16, <1>18 DEF longer
  <1> QED  BY <1>17, <1>18

LEMMA FlattenNothing == FlattenSeq(<<>>) = <<>>
  <1>1. Len(<<>>) = 0  OBVIOUS
  <1> QED  BY <1>1 DEF FlattenSeq

(* The elements of a concatenation.                                        *)
LEMMA RangeOfConcat ==
    ASSUME NEW L, NEW s \in Seq(L), NEW t \in Seq(L)
    PROVE  Range(s \o t) = Range(s) \cup Range(t)
  <1> DEFINE u == s \o t
             n == Len(s)
             m == Len(t)
  <1>1. /\ n \in Nat /\ m \in Nat /\ Len(u) = n + m /\ u \in Seq(L)
        /\ DOMAIN s = 1..n /\ DOMAIN t = 1..m /\ DOMAIN u = 1..(n + m)
    BY ConcatProperties, LenProperties
  <1>2. \A i \in 1..(n + m) : u[i] = IF i <= n THEN s[i] ELSE t[i - n]
    BY ConcatProperties
  <1> HIDE DEF u, n, m
  <1>3. Range(u) \subseteq Range(s) \cup Range(t)
    <2> SUFFICES ASSUME NEW i \in 1..(n + m)
                 PROVE  u[i] \in Range(s) \cup Range(t)
      BY <1>1 DEF Range
    <2>1. CASE i <= n
      <3>1. i \in DOMAIN s /\ u[i] = s[i]  BY <2>1, <1>1, <1>2
      <3> QED  BY <3>1 DEF Range
    <2>2. CASE ~(i <= n)
      <3>1. i - n \in DOMAIN t /\ u[i] = t[i - n]  BY <2>2, <1>1, <1>2
      <3> QED  BY <3>1 DEF Range
    <2> QED  BY <2>1, <2>2
  <1>4. Range(s) \subseteq Range(u)
    <2> SUFFICES ASSUME NEW i \in 1..n PROVE s[i] \in Range(u)  BY <1>1 DEF Range
    <2>1. i \in DOMAIN u /\ u[i] = s[i]  BY <1>1, <1>2
    <2> QED  BY <2>1 DEF Range
  <1>5. Range(t) \subseteq Range(u)
    <2> SUFFICES ASSUME NEW i \in 1..m PROVE t[i] \in Range(u)  BY <1>1 DEF Range
    <2>1. n + i \in DOMAIN u /\ u[n + i] = t[i]  BY <1>1, <1>2
    <2> QED  BY <2>1 DEF Range
  <1> QED  BY <1>3, <1>4, <1>5 DEF u

(* The elements of a flattened sequence.                                   *)
Flattens(ss) == Range(FlattenSeq(ss)) = UNION {Range(ss[i]) : i \in DOMAIN ss}

LEMMA FlattenRange ==
    ASSUME NEW L, NEW ss \in Seq(Seq(L))
    PROVE  FlattenSeq(ss) \in Seq(L) /\ Flattens(ss)
  <1> DEFINE T == {t \in Seq(Seq(L)) : Flattens(t)}
  <1>1. <<>> \in T
    <2>1. Range(<<>>) = {}  BY DEF Range
    <2> QED  BY <2>1, FlattenNothing DEF Flattens
  <1>2. ASSUME NEW t \in Seq(Seq(L)), NEW s \in Seq(L), t \in T
        PROVE  Append(t, s) \in T
    <2> DEFINE u == Append(t, s)
    <2>1. /\ FlattenSeq(t) \in Seq(L) /\ FlattenSeq(u) = FlattenSeq(t) \o s
      BY FlattenAppend
    <2>2. Range(FlattenSeq(u)) = Range(FlattenSeq(t)) \cup Range(s)
      BY <2>1, RangeOfConcat
    <2>3. Range(FlattenSeq(t)) = UNION {Range(t[i]) : i \in DOMAIN t}
      BY <1>2 DEF Flattens
    <2>4. /\ u \in Seq(Seq(L)) /\ Len(t) \in Nat
          /\ DOMAIN t = 1..Len(t) /\ DOMAIN u = 1..(Len(t) + 1)
          /\ u[Len(t) + 1] = s /\ \A i \in 1..Len(t) : u[i] = t[i]
      OBVIOUS
    <2> HIDE DEF u
    <2>5. DOMAIN u = DOMAIN t \cup {Len(t) + 1}  BY <2>4
    <2>6. UNION {Range(u[i]) : i \in DOMAIN u}
            = (UNION {Range(t[i]) : i \in DOMAIN t}) \cup Range(s)
      BY <2>4, <2>5
    <2>7. Flattens(u)  BY <2>2, <2>3, <2>6 DEF Flattens
    <2> QED  BY <2>4, <2>7 DEF u
  <1>3. Seq(Seq(L)) \subseteq T
    <2> HIDE DEF T
    <2> QED  BY <1>1, <1>2, SeqInduction
  <1>4. FlattenSeq(ss) \in Seq(L)
    <2>1. <<>> \in Seq(L)  OBVIOUS
    <2> QED  BY <2>1, FlattenAppend
  <1> QED  BY <1>3, <1>4

-----------------------------------------------------------------------------
(* Sums of the values of a function.                                       *)

Pick(s) == CHOOSE x \in s : TRUE

IsSum(it, f) ==
    it = [s \in SUBSET (DOMAIN f) |->
            IF s = {} THEN 0 ELSE f[Pick(s)] + it[s \ {Pick(s)}]]

LEMMA SumFold ==
    ASSUME NEW f
    PROVE  SumFunction(f) = (CHOOSE it : IsSum(it, f))[DOMAIN f]
  BY DEF SumFunction, SumFunctionOnSet, FoldFunctionOnSet, MapThenFoldSet, IsSum, Pick

LEMMA PickIn == ASSUME NEW s, s # {} PROVE Pick(s) \in s
  BY DEF Pick

(* The subsets of S of at most n elements.                                 *)
Small(S, n) == {s \in SUBSET S : Cardinality(s) <= n}

LEMMA SmallRemove ==
    ASSUME NEW S, IsFiniteSet(S), NEW n \in Nat, NEW s \in Small(S, n + 1), NEW x \in s
    PROVE  s \ {x} \in Small(S, n) /\ s \ {x} \in SUBSET S
  <1>1. s \in SUBSET S /\ Cardinality(s) <= n + 1  BY DEF Small
  <1>2. IsFiniteSet(s)  BY <1>1, FS_Subset
  <1>3. Cardinality(s) \in Nat  BY <1>2, FS_CardinalityType
  <1>4. Cardinality(s \ {x}) = Cardinality(s) - 1  BY <1>2, FS_RemoveElement
  <1> QED  BY <1>1, <1>3, <1>4 DEF Small

LEMMA SmallBounds ==
    ASSUME NEW S, IsFiniteSet(S)
    PROVE  /\ Small(S, 0) = {{}} /\ Small(S, Cardinality(S)) = SUBSET S
           /\ Cardinality(S) \in Nat
           /\ \A n \in Nat : Small(S, n) \subseteq Small(S, n + 1)
  <1>1. ASSUME NEW s \in SUBSET S
        PROVE  /\ Cardinality(s) \in Nat /\ Cardinality(s) <= Cardinality(S)
               /\ Cardinality(s) = 0 <=> s = {}
    <2>1. IsFiniteSet(s) /\ Cardinality(s) <= Cardinality(S)  BY FS_Subset
    <2>2. Cardinality(s) \in Nat  BY <2>1, FS_CardinalityType
    <2> QED  BY <2>1, <2>2, FS_EmptySet
  <1>2. Small(S, 0) = {{}}
    <2>1. \A s \in SUBSET S : Cardinality(s) <= 0 <=> s = {}  BY <1>1
    <2> QED  BY <2>1 DEF Small
  <1>3. Small(S, Cardinality(S)) = SUBSET S  BY <1>1 DEF Small
  <1>4. Cardinality(S) \in Nat  BY FS_CardinalityType
  <1>5. \A n \in Nat : Small(S, n) \subseteq Small(S, n + 1)  BY <1>1 DEF Small
  <1> QED  BY <1>2, <1>3, <1>4, <1>5

SumsTo(it, f, n) ==
    \A s \in Small(DOMAIN f, n) :
       it[s] = IF s = {} THEN 0 ELSE f[Pick(s)] + it[s \ {Pick(s)}]

LEMMA SumExists ==
    ASSUME NEW S, IsFiniteSet(S), NEW f \in [S -> Nat]
    PROVE  IsSum(CHOOSE it : IsSum(it, f), f)
  <1> DEFINE T == {n \in Nat : \E it \in [Small(S, n) -> Nat] : SumsTo(it, f, n)}
  <1>d. DOMAIN f = S  OBVIOUS
  <1>1. 0 \in T
    <2> DEFINE it == [s \in Small(S, 0) |-> 0]
    <2>1. it \in [Small(S, 0) -> Nat]  OBVIOUS
    <2>2. SumsTo(it, f, 0)  BY <1>d, SmallBounds DEF SumsTo
    <2> HIDE DEF it
    <2> QED  BY <2>1, <2>2
  <1>2. ASSUME NEW n \in Nat, n \in T PROVE n + 1 \in T
    <2>1. PICK it \in [Small(S, n) -> Nat] : SumsTo(it, f, n)  BY <1>2
    <2> DEFINE val(s) == IF s = {} THEN 0 ELSE f[Pick(s)] + it[s \ {Pick(s)}]
               jt == [s \in Small(S, n + 1) |-> val(s)]
    <2>2. ASSUME NEW s \in Small(S, n + 1), s # {}
          PROVE  /\ Pick(s) \in S /\ s \ {Pick(s)} \in Small(S, n)
      <3>1. Pick(s) \in s  BY <2>2, PickIn
      <3>2. s \ {Pick(s)} \in Small(S, n)  BY <3>1, SmallRemove
      <3>3. Pick(s) \in S  BY <3>1 DEF Small
      <3> QED  BY <3>2, <3>3
    <2>3. \A s \in Small(S, n + 1) : val(s) \in Nat
      <3> TAKE s \in Small(S, n + 1)
      <3>1. CASE s = {}  BY <3>1
      <3>2. CASE s # {}
        <4>1. f[Pick(s)] \in Nat /\ it[s \ {Pick(s)}] \in Nat  BY <2>2, <3>2
        <4> QED  BY <4>1, <3>2
      <3> QED  BY <3>1, <3>2
    <2>4. jt \in [Small(S, n + 1) -> Nat]  BY <2>3
    <2>5. \A s \in Small(S, n) : jt[s] = it[s]
      <3> TAKE s \in Small(S, n)
      <3>1. s \in Small(S, n + 1)  BY SmallBounds
      <3>2. it[s] = val(s)  BY <2>1, <1>d DEF SumsTo
      <3> QED  BY <3>1, <3>2
    <2>6. SumsTo(jt, f, n + 1)
      <3> SUFFICES ASSUME NEW s \in Small(S, n + 1)
                   PROVE  jt[s] = IF s = {} THEN 0 ELSE f[Pick(s)] + jt[s \ {Pick(s)}]
        BY <1>d DEF SumsTo
      <3>1. jt[s] = val(s)  OBVIOUS
      <3>2. s # {} => jt[s \ {Pick(s)}] = it[s \ {Pick(s)}]  BY <2>2, <2>5
      <3> HIDE DEF jt
      <3> QED  BY <3>1, <3>2
    <2> HIDE DEF jt
    <2> QED  BY <2>4, <2>6
  <1>3. Nat \subseteq T
    <2> HIDE DEF T
    <2> QED  BY <1>1, <1>2, Induction
  <1>4. PICK it \in [SUBSET S -> Nat] : SumsTo(it, f, Cardinality(S))
    BY <1>3, SmallBounds
  <1>5. IsSum(it, f)
    <2>1. Small(DOMAIN f, Cardinality(S)) = SUBSET S  BY <1>d, SmallBounds
    <2>2. ASSUME NEW s \in SUBSET S
          PROVE  it[s] = IF s = {} THEN 0 ELSE f[Pick(s)] + it[s \ {Pick(s)}]
      <3>1. s \in Small(DOMAIN f, Cardinality(S))  BY <2>1
      <3> QED  BY <1>4, <3>1, Zenon DEF SumsTo
    <2> QED  BY <2>2, <1>d, <1>4 DEF IsSum
  <1> QED  BY <1>5

(* Any element may be taken out of a sum.                                  *)
Removes(it, f, s) == it[s] \in Nat /\ \A x \in s : it[s] = f[x] + it[s \ {x}]

LEMMA SumStep ==
    ASSUME NEW S, IsFiniteSet(S), NEW f \in [S -> Nat], NEW it, IsSum(it, f)
    PROVE  /\ it[{}] = 0
           /\ \A s \in SUBSET S : Removes(it, f, s)
  <1>d. DOMAIN f = S  OBVIOUS
  <1>0. \A s \in SUBSET S : it[s] = IF s = {} THEN 0 ELSE f[Pick(s)] + it[s \ {Pick(s)}]
    BY <1>d DEF IsSum
  <1>e. it[{}] = 0  BY <1>0
  <1> DEFINE T == {n \in Nat : \A s \in Small(S, n) : Removes(it, f, s)}
  <1>r. Removes(it, f, {})  BY <1>e DEF Removes
  <1>1. 0 \in T  BY <1>r, SmallBounds
  <1>2. ASSUME NEW n \in Nat, n \in T PROVE n + 1 \in T
    <2> SUFFICES ASSUME NEW s \in Small(S, n + 1), s # {} PROVE Removes(it, f, s)
      BY <1>r
    <2> DEFINE y == Pick(s)
    <2>1. y \in s /\ s \in SUBSET S  BY PickIn DEF Small
    <2>2. \A x \in s : s \ {x} \in Small(S, n)  BY SmallRemove
    <2>3. \A x \in s : Removes(it, f, s \ {x})  BY <1>2, <2>2
    <2>4. it[s] = f[y] + it[s \ {y}]  BY <1>0, <2>1
    <2>5. f[y] \in Nat /\ it[s \ {y}] \in Nat  BY <2>1, <2>3 DEF Removes
    <2> HIDE DEF y
    <2>6. ASSUME NEW x \in s PROVE it[s] = f[x] + it[s \ {x}]
      <3>1. CASE x = y  BY <3>1, <2>4
      <3>2. CASE x # y
        <4>1. it[s \ {y}] = f[x] + it[(s \ {y}) \ {x}]  BY <2>1, <2>3, <3>2 DEF Removes
        <4>2. it[s \ {x}] = f[y] + it[(s \ {x}) \ {y}]  BY <2>1, <2>3, <3>2 DEF Removes
        <4>3. (s \ {y}) \ {x} = (s \ {x}) \ {y}  OBVIOUS
        <4>4. (s \ {y}) \ {x} \in Small(S, n)
          <5>1. (s \ {y}) \in Small(S, n) /\ x \in s \ {y}  BY <2>1, <2>2, <3>2
          <5>2. (s \ {y}) \in Small(S, n + 1)  BY <5>1, SmallBounds
          <5> QED  BY <5>1, <5>2, SmallRemove
        <4>5. it[(s \ {y}) \ {x}] \in Nat  BY <4>4, <1>2 DEF Removes
        <4>6. f[x] \in Nat  BY <2>1
        <4> DEFINE r == it[(s \ {y}) \ {x}]
        <4>7. it[s \ {y}] = f[x] + r /\ it[s \ {x}] = f[y] + r /\ r \in Nat
          BY <4>1, <4>2, <4>3, <4>5
        <4> HIDE DEF r
        <4> QED  BY <4>6, <4>7, <2>4, <2>5
      <3> QED  BY <3>1, <3>2
    <2>7. it[s] \in Nat  BY <2>4, <2>5
    <2> QED  BY <2>6, <2>7 DEF Removes
  <1>3. Nat \subseteq T
    <2> HIDE DEF T
    <2> QED  BY <1>1, <1>2, Induction
  <1>4. \A s \in SUBSET S : Removes(it, f, s)  BY <1>3, SmallBounds
  <1> QED  BY <1>4, <1>e

(* Two functions have the same sum over a set on which they agree.         *)
LEMMA SumAgree ==
    ASSUME NEW S, IsFiniteSet(S), NEW f \in [S -> Nat], NEW it, IsSum(it, f),
           NEW R, IsFiniteSet(R), NEW g \in [R -> Nat], NEW jt, IsSum(jt, g),
           NEW W \in SUBSET S, W \in SUBSET R, \A x \in W : f[x] = g[x]
    PROVE  it[W] = jt[W]
  <1> DEFINE T == {n \in Nat : \A s \in Small(W, n) : it[s] = jt[s]}
  <1>1. IsFiniteSet(W)  BY FS_Subset
  <1>2. it[{}] = jt[{}]
    <2>1. it[{}] = 0 /\ jt[{}] = 0  BY SumStep
    <2> QED  BY <2>1
  <1>3. 0 \in T  BY <1>1, <1>2, SmallBounds
  <1>4. ASSUME NEW n \in Nat, n \in T PROVE n + 1 \in T
    <2> SUFFICES ASSUME NEW s \in Small(W, n + 1) PROVE it[s] = jt[s]
      OBVIOUS
    <2> SUFFICES ASSUME s # {} PROVE it[s] = jt[s]
      BY <1>2
    <2>1. PICK x \in s : TRUE  OBVIOUS
    <2>2. s \ {x} \in Small(W, n)  BY <1>1, SmallRemove
    <2>3. it[s \ {x}] = jt[s \ {x}]  BY <1>4, <2>2
    <2>4. s \in SUBSET W /\ s \in SUBSET S /\ s \in SUBSET R  BY DEF Small
    <2>5. it[s] = f[x] + it[s \ {x}]
      <3>1. Removes(it, f, s)  BY <2>4, SumStep
      <3> QED  BY <3>1 DEF Removes
    <2>6. jt[s] = g[x] + jt[s \ {x}]
      <3>1. Removes(jt, g, s)  BY <2>4, SumStep
      <3> QED  BY <3>1 DEF Removes
    <2>7. f[x] = g[x]  BY <2>4
    <2> QED  BY <2>3, <2>5, <2>6, <2>7
  <1>5. Nat \subseteq T
    <2> HIDE DEF T
    <2> QED  BY <1>3, <1>4, Induction
  <1> QED  BY <1>1, <1>5, SmallBounds

LEMMA SumIs ==
    ASSUME NEW S, IsFiniteSet(S), NEW f \in [S -> Nat]
    PROVE  \E it : IsSum(it, f) /\ SumFunction(f) = it[S]
  <1> DEFINE it == CHOOSE r : IsSum(r, f)
  <1>1. IsSum(it, f)  BY SumExists
  <1>2. SumFunction(f) = it[S]
    <2>1. DOMAIN f = S  OBVIOUS
    <2> QED  BY <2>1, SumFold
  <1> HIDE DEF it
  <1> QED  BY <1>1, <1>2

LEMMA SumType ==
    ASSUME NEW S, IsFiniteSet(S), NEW f \in [S -> Nat]
    PROVE  SumFunction(f) \in Nat
  <1>1. PICK it : IsSum(it, f) /\ SumFunction(f) = it[S]  BY SumIs
  <1>2. Removes(it, f, S)  BY <1>1, SumStep
  <1> QED  BY <1>1, <1>2 DEF Removes

LEMMA SumNothing ==
    ASSUME NEW f \in [{} -> Nat]
    PROVE  SumFunction(f) = 0
  <1>1. IsFiniteSet({})  BY FS_EmptySet
  <1>2. PICK it : IsSum(it, f) /\ SumFunction(f) = it[{}]  BY <1>1, SumIs
  <1>3. it[{}] = 0  BY <1>1, <1>2, SumStep
  <1> QED  BY <1>2, <1>3

(* A value grows by k, or k is the value of a new element.                 *)
LEMMA SumGrows ==
    ASSUME NEW S, IsFiniteSet(S), NEW f \in [S -> Nat], NEW c, NEW k \in Nat,
           NEW g \in [S \cup {c} -> Nat], \A x \in S : x # c => g[x] = f[x],
           g[c] = (IF c \in S THEN f[c] ELSE 0) + k
    PROVE  SumFunction(g) = SumFunction(f) + k
  <1> DEFINE R == S \cup {c}
             W == S \ {c}
  <1>1. IsFiniteSet(R)  BY FS_AddElement
  <1>2. g \in [R -> Nat] /\ c \in R  OBVIOUS
  <1>3. W \in SUBSET S /\ W \in SUBSET R /\ \A x \in W : f[x] = g[x]  OBVIOUS
  <1>4. R \ {c} = W /\ (c \notin S => W = S)  OBVIOUS
  <1>5. g[c] \in Nat /\ (c \in S => f[c] \in Nat)  OBVIOUS
  <1> HIDE DEF R, W
  <1>6. PICK it : IsSum(it, f) /\ SumFunction(f) = it[S]  BY SumIs
  <1>7. PICK jt : IsSum(jt, g) /\ SumFunction(g) = jt[R]  BY <1>1, <1>2, SumIs
  <1>8. it[W] = jt[W]  BY <1>1, <1>2, <1>3, <1>6, <1>7, SumAgree
  <1>9. jt[R] = g[c] + jt[W]
    <2>1. Removes(jt, g, R)  BY <1>1, <1>2, <1>7, SumStep
    <2> QED  BY <2>1, <1>2, <1>4 DEF Removes
  <1>10. it[S] = (IF c \in S THEN f[c] ELSE 0) + it[W]
    <2>1. Removes(it, f, S) /\ Removes(it, f, W)  BY <1>3, <1>6, SumStep
    <2>2. it[W] \in Nat  BY <2>1 DEF Removes
    <2>3. c \in S => it[S] = f[c] + it[W]  BY <2>1 DEF W, Removes
    <2> QED  BY <2>2, <2>3, <1>4
  <1>11. it[W] \in Nat
    <2>1. Removes(it, f, W)  BY <1>3, <1>6, SumStep
    <2> QED  BY <2>1 DEF Removes
  <1>12. g[c] = (IF c \in S THEN f[c] ELSE 0) + k  OBVIOUS
  <1> DEFINE old == IF c \in S THEN f[c] ELSE 0
  <1>13. old \in Nat  BY <1>5
  <1>14. g[c] = old + k /\ it[S] = old + it[W]  BY <1>10, <1>12
  <1> HIDE DEF old
  <1> QED  BY <1>6, <1>7, <1>8, <1>9, <1>11, <1>13, <1>14

LEMMA SumOfZeros ==
    ASSUME NEW S, IsFiniteSet(S), NEW f \in [S -> {0}]
    PROVE  SumFunction(f) = 0
  <1>1. PICK it : IsSum(it, f) /\ SumFunction(f) = it[S]
    <2>1. f \in [S -> Nat]  OBVIOUS
    <2> QED  BY <2>1, SumIs
  <1> DEFINE U == {n \in Nat : \A s \in Small(S, n) : it[s] = 0}
  <1>2. f \in [S -> Nat]  OBVIOUS
  <1>3. it[{}] = 0  BY <1>1, <1>2, SumStep
  <1>4. 0 \in U  BY <1>3, SmallBounds
  <1>5. ASSUME NEW n \in Nat, n \in U PROVE n + 1 \in U
    <2> SUFFICES ASSUME NEW s \in Small(S, n + 1), s # {} PROVE it[s] = 0
      BY <1>3
    <2>1. PICK x \in s : TRUE  OBVIOUS
    <2>2. s \ {x} \in Small(S, n)  BY SmallRemove
    <2>3. s \in SUBSET S  BY DEF Small
    <2>4. it[s] = f[x] + it[s \ {x}]
      <3>1. Removes(it, f, s)  BY <2>3, <1>1, <1>2, SumStep
      <3> QED  BY <3>1 DEF Removes
    <2>5. f[x] = 0 /\ it[s \ {x}] = 0  BY <2>2, <2>3, <1>5
    <2> QED  BY <2>4, <2>5
  <1>6. Nat \subseteq U
    <2> HIDE DEF U
    <2> QED  BY <1>4, <1>5, Induction
  <1> QED  BY <1>1, <1>6, SmallBounds

LEMMA SumChanges ==
    ASSUME NEW S, IsFiniteSet(S), NEW f \in [S -> Nat], NEW g \in [S -> Nat],
           NEW c \in S, NEW k \in Nat, g[c] = f[c] + k,
           \A x \in S : x # c => g[x] = f[x]
    PROVE  SumFunction(g) = SumFunction(f) + k
  <1>1. g \in [S \cup {c} -> Nat]
    <2>1. S \cup {c} = S  OBVIOUS
    <2> QED  BY <2>1
  <1>2. g[c] = (IF c \in S THEN f[c] ELSE 0) + k  OBVIOUS
  <1> QED  BY <1>1, <1>2, SumGrows

-----------------------------------------------------------------------------
(* Sums of sequences of numbers.                                           *)

LEMMA SumOfEmpty == SumFunction(<<>>) = 0
  <1>1. <<>> \in [{} -> Nat]
    <2>1. <<>> = [i \in {} |-> 0]  OBVIOUS
    <2> QED  BY <2>1
  <1> QED  BY <1>1, SumNothing

(* The function g is f with k added at c, where f may have no value.       *)
Extends(g, f, S, c, k) ==
    /\ IsFiniteSet(S) /\ f \in [S -> Nat] /\ k \in Nat /\ g \in [S \cup {c} -> Nat]
    /\ \A x \in S : x # c => g[x] = f[x]
    /\ g[c] = (IF c \in S THEN f[c] ELSE 0) + k

LEMMA SumExtends ==
    ASSUME NEW g, NEW f, NEW S, NEW c, NEW k, Extends(g, f, S, c, k)
    PROVE  SumFunction(g) = SumFunction(f) + k
  <1>1. IsFiniteSet(S) /\ f \in [S -> Nat] /\ k \in Nat /\ g \in [S \cup {c} -> Nat]
    BY DEF Extends
  <1>2. /\ \A x \in S : x # c => g[x] = f[x]
        /\ g[c] = (IF c \in S THEN f[c] ELSE 0) + k
    BY DEF Extends
  <1> QED  BY <1>1, <1>2, SumGrows

LEMMA SumExtended ==
    ASSUME NEW n \in Nat, NEW w \in [1..n -> Nat], NEW g \in [1..(n + 1) -> Nat],
           \A i \in 1..n : g[i] = w[i]
    PROVE  SumFunction(w) \in Nat /\ SumFunction(g) = SumFunction(w) + g[n + 1]
  <1> DEFINE S == 1..n
             c == n + 1
             k == g[c]
  <1>1. IsFiniteSet(S)  BY FS_Interval
  <1>2. c \notin S /\ 1..c = S \cup {c}  OBVIOUS
  <1>3. k \in Nat  OBVIOUS
  <1>4. g \in [S \cup {c} -> Nat]  BY <1>2
  <1>5. w \in [S -> Nat] /\ \A i \in S : i # c => g[i] = w[i]  OBVIOUS
  <1> HIDE DEF S, c
  <1>6. g[c] = (IF c \in S THEN w[c] ELSE 0) + k  BY <1>2, <1>3
  <1> HIDE DEF k
  <1>7. SumFunction(g) = SumFunction(w) + k
    <2>1. Extends(g, w, S, c, k)  BY <1>1, <1>3, <1>4, <1>5, <1>6 DEF Extends
    <2> QED  BY <2>1, SumExtends
  <1>8. SumFunction(w) \in Nat  BY <1>1, <1>5, SumType
  <1> QED  BY <1>7, <1>8 DEF k, c

LEMMA SumOfAppend ==
    ASSUME NEW w \in Seq(Nat), NEW x \in Nat
    PROVE  SumFunction(w) \in Nat /\ SumFunction(Append(w, x)) = SumFunction(w) + x
  <1> DEFINE n == Len(w)
             g == Append(w, x)
  <1>1. n \in Nat /\ w \in [1..n -> Nat]  OBVIOUS
  <1>2. g \in Seq(Nat) /\ Len(g) = n + 1  OBVIOUS
  <1>3. g[n + 1] = x /\ \A i \in 1..n : g[i] = w[i]  OBVIOUS
  <1>4. g \in [1..(n + 1) -> Nat]
    <2>1. \A v \in Seq(Nat) : v \in [1..Len(v) -> Nat]  OBVIOUS
    <2> HIDE DEF g, n
    <2> QED  BY <1>2, <2>1
  <1> HIDE DEF g, n
  <1>5. SumFunction(w) \in Nat /\ SumFunction(g) = SumFunction(w) + g[n + 1]
    BY <1>1, <1>3, <1>4, SumExtended
  <1> QED  BY <1>3, <1>5 DEF g

LEMMA SumOfSequence ==
    ASSUME NEW w \in Seq(Nat)
    PROVE  SumFunction(w) \in Nat
  BY SumOfAppend

LEMMA SumOfHead ==
    ASSUME NEW w \in Seq(Nat), w # <<>>
    PROVE  SumFunction(w) = Head(w) + SumFunction(Tail(w))
  <1> DEFINE h == Head(w)
             T == {t \in Seq(Nat) : SumFunction(<<h>> \o t) = h + SumFunction(t)}
  <1>1. h \in Nat /\ <<h>> \in Seq(Nat) /\ Tail(w) \in Seq(Nat) /\ w = <<h>> \o Tail(w)
    <2>1. h \in Nat /\ Tail(w) \in Seq(Nat)  BY HeadTailProperties
    <2>2. <<h>> \in Seq(Nat)  BY <2>1
    <2>3. w = <<h>> \o Tail(w)  OBVIOUS
    <2> QED  BY <2>1, <2>2, <2>3
  <1> HIDE DEF h
  <1>2. <<>> \in T
    <2>1. <<h>> = Append(<<>>, h) /\ <<h>> \o <<>> = <<h>> /\ <<>> \in Seq(Nat)  BY <1>1
    <2>2. SumFunction(<<h>>) = SumFunction(<<>>) + h  BY <1>1, <2>1, SumOfAppend
    <2>3. SumFunction(<<h>> \o <<>>) = h + SumFunction(<<>>)
      BY <1>1, <2>1, <2>2, SumOfEmpty
    <2> QED  BY <2>1, <2>3
  <1>3. ASSUME NEW t \in Seq(Nat), NEW e \in Nat, t \in T PROVE Append(t, e) \in T
    <2>1. <<h>> \o Append(t, e) = Append(<<h>> \o t, e)
      <3> DEFINE one == <<h>>
      <3>1. one \in Seq(Nat)  BY <1>1
      <3> HIDE DEF one, T
      <3>2. one \o Append(t, e) = Append(one \o t, e)  BY SMTT(30), <3>1, ConcatAppend
      <3> QED  BY <3>2 DEF one
    <2>2. <<h>> \o t \in Seq(Nat) /\ Append(t, e) \in Seq(Nat)  BY <1>1
    <2>3. SumFunction(Append(<<h>> \o t, e)) = SumFunction(<<h>> \o t) + e  BY <2>2, SumOfAppend
    <2>4. SumFunction(Append(t, e)) = SumFunction(t) + e /\ SumFunction(t) \in Nat
      BY SumOfAppend
    <2>5. SumFunction(<<h>> \o t) = h + SumFunction(t)  BY <1>3
    <2>6. SumFunction(<<h>> \o Append(t, e)) = h + SumFunction(Append(t, e))
      <3> DEFINE a == SumFunction(<<h>> \o t)
                 b == SumFunction(t)
                 u == SumFunction(<<h>> \o Append(t, e))
                 v == SumFunction(Append(t, e))
      <3>1. u = a + e /\ v = b + e /\ b \in Nat /\ a = h + b  BY <2>1, <2>3, <2>4, <2>5
      <3>2. h \in Nat  BY <1>1
      <3> HIDE DEF a, b, u, v
      <3>3. u = h + v  BY <3>1, <3>2
      <3> QED  BY <3>3 DEF u, v
    <2> QED  BY <2>2, <2>6
  <1>4. Seq(Nat) \subseteq T
    <2> HIDE DEF T
    <2> QED  BY <1>2, <1>3, SeqInduction
  <1>5. SumFunction(<<h>> \o Tail(w)) = h + SumFunction(Tail(w))  BY <1>1, <1>4
  <1> QED  BY <1>1, <1>5 DEF h

(* The same for a function w that is g without its first value.            *)
LEMMA SumShifted ==
    ASSUME NEW g \in Seq(Nat), NEW w \in Seq(Nat), Len(g) = Len(w) + 1,
           \A i \in 1..Len(w) : w[i] = g[i + 1]
    PROVE  SumFunction(w) \in Nat /\ SumFunction(g) = g[1] + SumFunction(w)
  <1>1. g # <<>> /\ Head(g) = g[1]  OBVIOUS
  <1>2. Tail(g) \in Seq(Nat) /\ Len(Tail(g)) = Len(w)  OBVIOUS
  <1>3. \A i \in 1..Len(w) : Tail(g)[i] = w[i]  BY <1>1, <1>2, HeadTailProperties
  <1>4. Tail(g) = w  BY <1>2, <1>3, SeqEqual
  <1> QED  BY <1>1, <1>4, SumOfHead, SumOfSequence
=============================================================================
