----------------------------- MODULE FoldTheorems -----------------------------
(***************************************************************************)
(* Induction over finite sets and over numbers in first-order form, and    *)
(* what it gives: folds of a finite set and recursions over 1..n exist and *)
(* are unique, and what a sequence put together of others, a selection     *)
(* and a sum consist of.                                                   *)
(***************************************************************************)
EXTENDS SequencesExt, FiniteSetTheorems, SequenceTheorems, WellFoundedInduction,
        TLAPS

-----------------------------------------------------------------------------
(* Induction over finite sets and numbers, and folds                       *)

(* Among subsets of a finite set there is a least one, which is what an   *)
(* induction over them needs,                                              *)
LEMMA LeastSubset ==
  ASSUME NEW S, IsFiniteSet(S), NEW T, T \subseteq SUBSET S, T # {}
  PROVE  \E x \in T : \A y \in T : y \subseteq x => y = x
<1>1. IsWellFoundedOn(StrictSubsetOrdering(S), SUBSET S)
  BY FS_StrictSubsetOrderingWellFounded, FS_FiniteSubsetsOfFinite
<1>2. PICK x \in T : \A y \in T : ~ (<<y, x>> \in StrictSubsetOrdering(S))
  BY <1>1, WFMin
<1>3. ASSUME NEW y \in T, y \subseteq x, y # x PROVE FALSE
  <2>1. <<y, x>> \in StrictSubsetOrdering(S)
    BY <1>3 DEF StrictSubsetOrdering
  <2>. QED  BY <1>2, <2>1
<1>. QED  BY <1>3

(* and among natural numbers.                                              *)
LEMMA LeastNat ==
  ASSUME NEW T, T \subseteq Nat, T # {}
  PROVE  \E n \in T : \A m \in T : n <= m
<1>1. PICK k \in T : TRUE
  OBVIOUS
<1>. DEFINE U == {1..n : n \in {m \in T : m <= k}}
<1>2. IsFiniteSet(1..k)
  <2>1. k \in Int /\ 1 \in Int
    BY <1>1
  <2>. QED  BY <2>1, FS_Interval
<1>6. U \subseteq SUBSET (1..k)
  BY <1>1, SMT
<1>7. U # {}
  <2>1. k \in {m \in T : m <= k}
    BY <1>1
  <2>. QED  BY <2>1
<1>. HIDE DEF U
<1>3. PICK x \in U : \A y \in U : y \subseteq x => y = x
  <2>1. PICK D : D = 1..k
    OBVIOUS
  <2>2. IsFiniteSet(D) /\ U \subseteq SUBSET D
    BY <1>2, <1>6, <2>1
  <2>. QED  BY <2>2, <1>7, LeastSubset
<1>4. PICK n \in T : n <= k /\ x = 1..n
  BY DEF U
<1>5. ASSUME NEW m \in T, m < n PROVE FALSE
  <2>1. 1..m \in U /\ 1..m \subseteq x
    BY <1>4, <1>5 DEF U
  <2>2. 1..m = x
    BY <2>1, <1>3
  <2>3. n \in x /\ n \notin 1..m
    BY <1>4, <1>5
  <2>. QED  BY <2>2, <2>3
<1>. QED  BY <1>4, <1>5

(* f is the fold by g, from b, of every subset of u, which takes c's choice *)
(* away last.                                                              *)
FoldsTo(f, u, b, c, g) ==
  \A s \in SUBSET u :
    f[s] = IF s = {} THEN b ELSE g[<<c[s], f[s \ {c[s]}]>>]

(* There is one such function                                              *)
LEMMA FoldUnique ==
  ASSUME NEW S, IsFiniteSet(S), NEW c, NEW b, NEW g,
         \A s \in SUBSET S : s # {} => c[s] \in s,
         NEW u \in SUBSET S, NEW v \in SUBSET S, NEW f, NEW h,
         FoldsTo(f, u, b, c, g), FoldsTo(h, v, b, c, g)
  PROVE  \A s \in SUBSET u : s \in SUBSET v => f[s] = h[s]
<1>. DEFINE T == {s \in SUBSET S : s \subseteq u /\ s \subseteq v /\ f[s] # h[s]}
<1> SUFFICES ASSUME T # {} PROVE FALSE
  OBVIOUS
<1>1. PICK x \in T : \A y \in T : y \subseteq x => y = x
  <2>1. T \subseteq SUBSET S
    OBVIOUS
  <2>. HIDE DEF T
  <2>. QED  BY <2>1, LeastSubset
<1>2. CASE x = {}
  BY <1>2 DEF FoldsTo
<1>3. CASE x # {}
  <2>1. c[x] \in x
    BY <1>3
  <2>2. x \ {c[x]} \notin T
    BY <2>1, <1>1
  <2>3. f[x \ {c[x]}] = h[x \ {c[x]}]
    BY <2>2
  <2>4. f[x] = g[<<c[x], f[x \ {c[x]}]>>] /\ h[x] = g[<<c[x], h[x \ {c[x]}]>>]
    BY <1>3 DEF FoldsTo
  <2>. QED  BY <2>3, <2>4
<1>. QED  BY <1>2, <1>3

(* and it exists: the recursion of a fold ends.                            *)
LEMMA FoldExists ==
  ASSUME NEW S, IsFiniteSet(S), NEW c, NEW B, NEW b \in B, NEW g,
         \A s \in SUBSET S : s # {} => c[s] \in s,
         \A x \in S, y \in B : g[<<x, y>>] \in B
  PROVE  \E f \in [SUBSET S -> B] : FoldsTo(f, S, b, c, g)
<1>. DEFINE T == {u \in SUBSET S : ~ \E f \in [SUBSET u -> B] : FoldsTo(f, u, b, c, g)}
<1> SUFFICES ASSUME T # {} PROVE FALSE
  BY DEF T
<1>1. PICK u \in T : \A y \in T : y \subseteq u => y = u
  <2>1. T \subseteq SUBSET S
    OBVIOUS
  <2>. HIDE DEF T
  <2>. QED  BY <2>1, LeastSubset
<1>2. CASE u = {}
  <2>. DEFINE f == [s \in SUBSET u |-> b]
  <2>1. f \in [SUBSET u -> B] /\ FoldsTo(f, u, b, c, g)
    BY <1>2 DEF FoldsTo
  <2>. QED  BY <2>1, <1>1
<1>3. CASE u # {}
  <2>. DEFINE F(v) == CHOOSE f \in [SUBSET v -> B] : FoldsTo(f, v, b, c, g)
  <2>1. ASSUME NEW v \in SUBSET u, v # u
        PROVE  F(v) \in [SUBSET v -> B] /\ FoldsTo(F(v), v, b, c, g)
    <3>1. v \notin T
      BY <2>1, <1>1
    <3>2. \E f \in [SUBSET v -> B] : FoldsTo(f, v, b, c, g)
      BY <3>1, <1>1, <2>1
    <3>. QED  BY <3>2
  <2>. HIDE DEF F
  <2>2. c[u] \in u
    BY <1>3
  <2>. DEFINE w == u \ {c[u]}
              f == [s \in SUBSET u |-> IF s = u THEN g[<<c[u], F(w)[w]>>] ELSE F(s)[s]]
  <2>3. F(w)[w] \in B
    <3>1. w \in SUBSET u /\ w # u
      BY <2>2
    <3>. HIDE DEF w
    <3>2. F(w) \in [SUBSET w -> B] /\ w \in SUBSET w
      BY <3>1, <2>1
    <3>. QED  BY <3>2
  <2>4. f \in [SUBSET u -> B]
    <3>1. ASSUME NEW s \in SUBSET u, s # u PROVE F(s)[s] \in B
      <4>1. F(s) \in [SUBSET s -> B] /\ s \in SUBSET s
        BY <3>1, <2>1
      <4>. QED  BY <4>1
    <3>2. g[<<c[u], F(w)[w]>>] \in B
      BY <2>2, <2>3
    <3>. HIDE DEF w
    <3>. QED  BY <3>1, <3>2
  <2>5. ASSUME NEW s \in SUBSET u
        PROVE f[s] = IF s = {} THEN b ELSE g[<<c[s], f[s \ {c[s]}]>>]
    <3>1. CASE s = u
      <4>1. f[u] = g[<<c[u], F(w)[w]>>] /\ f[w] = F(w)[w]
        BY <2>2
      <4>. QED  BY <4>1, <3>1, <1>3
    <3>2. CASE s # u /\ s = {}
      <4>1. f[s] = F(s)[s]
        BY <3>2
      <4>2. F(s)[s] = b
        BY <2>1, <3>2 DEF FoldsTo
      <4>. QED  BY <4>1, <4>2, <3>2
    <3>3. CASE s # u /\ s # {}
      <4>1. c[s] \in s
        BY <3>3
      <4>. DEFINE r == s \ {c[s]}
      <4>2. f[s] = F(s)[s] /\ f[r] = F(r)[r]
        BY <3>3, <4>1
      <4>3. F(s)[s] = g[<<c[s], F(s)[r]>>]
        BY <2>1, <3>3 DEF FoldsTo
      <4>4. F(s)[r] = F(r)[r]
        <5>1. r \in SUBSET u /\ r # u /\ r \subseteq s
          BY <4>1, <3>3
        <5>2. FoldsTo(F(s), s, b, c, g) /\ FoldsTo(F(r), r, b, c, g)
          BY <5>1, <2>1, <3>3
        <5>. HIDE DEF r
        <5>. QED  BY <5>1, <5>2, FoldUnique
      <4>. QED  BY <4>2, <4>3, <4>4, <3>3
    <3>. QED  BY <3>1, <3>2, <3>3
  <2>6. FoldsTo(f, u, b, c, g)
    <3>. HIDE DEF f
    <3>. QED BY <2>5 DEF FoldsTo
  <2>. QED  BY <2>4, <2>6, <1>1
<1>. QED  BY <1>2, <1>3

(* A stretch of a sequence.                                                *)
LEMMA CutIs ==
  ASSUME NEW A, NEW s \in Seq(A), NEW m \in 1..(Len(s) + 1), NEW n \in (m - 1)..Len(s)
  PROVE  /\ SubSeq(s, m, n) \in Seq(A)
         /\ Len(SubSeq(s, m, n)) = n - m + 1
         /\ \A i \in 1..(n - m + 1) : SubSeq(s, m, n)[i] = s[m + i - 1]
<1>1. Len(s) \in Nat /\ \A i \in 1..Len(s) : s[i] \in A
  BY LenProperties, ElementOfSeq
<1>2. m \in Int /\ n \in Int /\ m >= 1 /\ n >= m - 1 /\ n <= Len(s)
  BY <1>1
<1>3. \A i \in m..n : s[i] \in A
  BY <1>1, <1>2
<1>4. /\ SubSeq(s, m, n) \in Seq(A)
      /\ Len(SubSeq(s, m, n)) = IF m <= n THEN n - m + 1 ELSE 0
      /\ \A i \in 1..n-m+1 : SubSeq(s, m, n)[i] = s[m + i - 1]
  BY <1>2, <1>3, SubSeqProperties
<1>. QED  BY <1>2, <1>4

(* Two sequences, one after the other.                                     *)
LEMMA JoinIs ==
  ASSUME NEW A, NEW s \in Seq(A), NEW t \in Seq(A)
  PROVE  /\ s \o t \in Seq(A)
         /\ Len(s \o t) = Len(s) + Len(t)
         /\ Len(s) \in Nat /\ Len(t) \in Nat
         /\ \A i \in 1..Len(s) : (s \o t)[i] = s[i]
         /\ \A i \in 1..Len(t) : (s \o t)[Len(s) + i] = t[i]
<1>1. Len(s) \in Nat /\ Len(t) \in Nat
  BY LenProperties
<1>2. /\ s \o t \in Seq(A)
      /\ Len(s \o t) = Len(s) + Len(t)
      /\ \A i \in 1 .. Len(s) + Len(t) :
            (s \o t)[i] = IF i <= Len(s) THEN s[i] ELSE t[i - Len(s)]
  BY ConcatProperties
<1>. QED  BY <1>1, <1>2

(* Three sequences are put together either way.                            *)
LEMMA JoinThree ==
  ASSUME NEW D, NEW a \in Seq(D), NEW b \in Seq(D), NEW c \in Seq(D)
  PROVE  (a \o b) \o c = a \o (b \o c)
  BY ConcatAssociative

(* h is what the recursion by g over 1..n makes of b,                      *)
RecursTo(h, n, b, g) == h[0] = b /\ \A i \in 1..n : h[i] = g[<<i, h[i - 1]>>]

(* and there is such a function.                                           *)
LEMMA Recursion ==
  ASSUME NEW n \in Nat, NEW B, NEW b \in B, NEW g,
         \A i \in 1..n, y \in B : g[<<i, y>>] \in B
  PROVE  \E h \in [0..n -> B] : RecursTo(h, n, b, g)
<1>. DEFINE Good(m, h) == h[0] = b /\ \A i \in 1..m : h[i] = g[<<i, h[i - 1]>>]
            T == {m \in 0..n : ~ \E h \in [0..m -> B] : Good(m, h)}
<1> SUFFICES ASSUME T # {} PROVE FALSE
  <2>1. n \in 0..n
    OBVIOUS
  <2>2. SUFFICES ASSUME T = {} PROVE \E h \in [0..n -> B] : RecursTo(h, n, b, g)
    OBVIOUS
  <2>3. PICK h \in [0..n -> B] : Good(n, h)
    BY <2>1, <2>2
  <2>. QED  BY <2>3 DEF RecursTo
<1>1. PICK m \in T : \A k \in T : m <= k
  <2>1. T \subseteq Nat
    OBVIOUS
  <2>. HIDE DEF T
  <2>. QED  BY <2>1, LeastNat
<1>2. CASE m = 0
  <2>. DEFINE h == [i \in 0..0 |-> b]
  <2>1. h \in [0..0 -> B] /\ Good(0, h)
    OBVIOUS
  <2>. QED  BY <2>1, <1>1, <1>2
<1>3. CASE m # 0
  <2>1. m - 1 \in 0..n /\ m - 1 \notin T /\ m \in 1..n
    <3>1. m \in 0..n
      OBVIOUS
    <3>2. m - 1 \in 0..n /\ m \in 1..n
      BY <3>1, <1>3
    <3>. HIDE DEF T
    <3>. QED  BY <3>2, <1>1
  <2>2. PICK k \in [0..(m - 1) -> B] : Good(m - 1, k)
    BY <2>1
  <2>3. PICK v \in B : v = g[<<m, k[m - 1]>>]
    BY <2>1
  <2>. DEFINE h == [i \in 0..m |-> IF i = m THEN v ELSE k[i]]
  <2>4. \A i \in 0..m : i # m => i \in 0..(m - 1)
    BY <2>1
  <2>5. h \in [0..m -> B]
    BY <2>4
  <2>6. h[0] = b
    BY <2>1, <2>2
  <2>7. ASSUME NEW i \in 1..m PROVE h[i] = g[<<i, h[i - 1]>>]
    <3>1. CASE i = m
      <4>1. h[m] = v /\ h[m - 1] = k[m - 1]
        BY <2>1
      <4>. QED  BY <4>1, <3>1, <2>3
    <3>2. CASE i # m
      <4>1. i \in 1..(m - 1) /\ h[i] = k[i] /\ h[i - 1] = k[i - 1]
        BY <3>2, <2>1
      <4>. QED  BY <4>1, <2>2
    <3>. QED  BY <3>1, <3>2
  <2>. HIDE DEF h
  <2>8. Good(m, h)
    BY <2>6, <2>7
  <2>. QED  BY <2>5, <2>8, <1>1
<1>. QED  BY <1>2, <1>3

(* What holds at 0 and goes on to the next number holds up to n: Q is the  *)
(* set of the numbers it holds at.                                         *)
LEMMA UpTo ==
  ASSUME NEW n \in Nat, NEW Q, 0 \in Q, \A i \in 1..n : i - 1 \in Q => i \in Q
  PROVE  \A i \in 0..n : i \in Q
<1>. DEFINE T == {i \in 0..n : i \notin Q}
<1> SUFFICES ASSUME T # {} PROVE FALSE
  OBVIOUS
<1>1. PICK m \in T : \A k \in T : m <= k
  <2>1. T \subseteq Nat
    OBVIOUS
  <2>. HIDE DEF T
  <2>. QED  BY <2>1, LeastNat
<1>2. m \in 0..n /\ m \notin Q /\ m # 0
  OBVIOUS
<1>3. m \in 1..n /\ m - 1 \in 0..n /\ m - 1 \notin T
  BY <1>1, <1>2
<1>. QED  BY <1>2, <1>3

(* A sequence of sequences, put together: h is what the first of them make.*)
LEMMA FlattenIs ==
  ASSUME NEW A, NEW q \in Seq(Seq(A))
  PROVE  \E h \in [0..Len(q) -> Seq(A)] :
            /\ h[0] = <<>>
            /\ \A i \in 1..Len(q) : h[i] = h[i - 1] \o q[i]
            /\ Len(q) # 0 => FlattenSeq(q) = h[Len(q)]
<1>. DEFINE n == Len(q)
            g == [p \in (1..n) \X Seq(A) |-> p[2] \o q[p[1]]]
<1>1. n \in Nat /\ \A i \in 1..n : q[i] \in Seq(A)
  BY LenProperties, ElementOfSeq
<1>2. \A i \in 1..n, y \in Seq(A) : g[<<i, y>>] = y \o q[i] /\ y \o q[i] \in Seq(A)
  BY <1>1, ConcatProperties
<1>3. <<>> \in Seq(A)
  BY EmptySeq
<1>. HIDE DEF g, n
<1>4. PICK h \in [0..n -> Seq(A)] : h[0] = <<>> /\ \A i \in 1..n : h[i] = g[<<i, h[i - 1]>>]
  <2>1. \A i \in 1..n, y \in Seq(A) : g[<<i, y>>] \in Seq(A)
    BY <1>2
  <2>2. \E h \in [0..n -> Seq(A)] : RecursTo(h, n, <<>>, g)
    BY <1>1, <1>3, <2>1, Recursion
  <2>. QED  BY <2>2 DEF RecursTo
<1>5. \A i \in 1..n : h[i - 1] \in Seq(A) /\ h[i] = h[i - 1] \o q[i]
  <2>1. \A i \in 1..n : i - 1 \in 0..n
    BY <1>1
  <2>. QED  BY <1>2, <1>4, <2>1
<1>6. n # 0 => FlattenSeq(q) = h[n]
  <2> SUFFICES ASSUME n # 0 PROVE FlattenSeq(q) = h[n]
    OBVIOUS
  <2>. DEFINE hh == [i \in 1..n |-> h[i]]
  <2>1. ASSUME NEW i \in 1..n
        PROVE  hh[i] = IF i = 1 THEN q[i] ELSE hh[i - 1] \o q[i]
    <3>1. CASE i = 1
      <4>1. h[1] = h[0] \o q[1] /\ h[0] = <<>> /\ q[1] \in Seq(A)
        <5>1. 1 \in 1..n /\ 1 - 1 = 0
          BY <1>1
        <5>. QED  BY <5>1, <1>1, <1>4, <1>5
      <4>2. h[1] = q[1]
        BY <4>1, ConcatEmptySeq
      <4>. QED  BY <3>1, <4>2
    <3>2. CASE i # 1
      <4>1. i - 1 \in 1..n
        BY <1>1, <3>2
      <4>. QED  BY <3>2, <4>1, <1>5
    <3>. QED  BY <3>1, <3>2
  <2>2. hh = [i \in 1..n |-> IF i = 1 THEN q[i] ELSE hh[i - 1] \o q[i]]
    <3>1. \A i \in 1..n : hh[i] = IF i = 1 THEN q[i] ELSE hh[i - 1] \o q[i]
      BY <2>1
    <3>2. hh = [i \in 1..n |-> hh[i]]
      OBVIOUS
    <3>. HIDE DEF hh
    <3>. QED  BY <3>1, <3>2
  <2>. HIDE DEF hh
  <2>3. PICK k : /\ k = [i \in 1..n |-> IF i = 1 THEN q[i] ELSE k[i - 1] \o q[i]]
                 /\ FlattenSeq(q) = k[n]
    BY <2>2 DEF FlattenSeq, n
  <2>4. PICK Q : Q = {i \in 0..n : i # 0 => k[i] = h[i]}
    OBVIOUS
  <2>5. ASSUME NEW i \in 1..n, i - 1 \in Q PROVE i \in Q
    <3>1. k[i] = IF i = 1 THEN q[i] ELSE k[i - 1] \o q[i]
      BY <2>3
    <3>2. h[i] = IF i = 1 THEN q[i] ELSE h[i - 1] \o q[i]
      <4>1. CASE i = 1
        BY <4>1, <2>1 DEF hh
      <4>2. CASE i # 1
        BY <4>2, <1>5
      <4>. QED  BY <4>1, <4>2
    <3>3. i # 1 => k[i - 1] = h[i - 1]
      BY <2>4, <2>5
    <3>4. k[i] = h[i]
      BY <3>1, <3>2, <3>3
    <3>. QED  BY <2>4, <3>4, <1>1
  <2>6. 0 \in Q
    BY <2>4, <1>1
  <2>7. n \in Q
    <3>1. \A i \in 0..n : i \in Q
      BY <1>1, <2>5, <2>6, UpTo
    <3>. QED  BY <3>1, <1>1
  <2>. QED  BY <2>3, <2>4, <2>7
<1>. QED  BY <1>4, <1>5, <1>6 DEF n

-----------------------------------------------------------------------------
(* What a sequence has, and whether it has it once                         *)

(* The members of sequences put together.                                  *)
LEMMA MembersOf ==
  ASSUME NEW A, NEW s \in Seq(A), NEW t \in Seq(A)
  PROVE  /\ ToSet(s) \subseteq A
         /\ ToSet(s \o t) = ToSet(s) \cup ToSet(t)
         /\ \A x \in A : ToSet(Append(s, x)) = ToSet(s) \cup {x}
         /\ s = <<>> <=> ToSet(s) = {}
         /\ ToSet(<<>>) = {} /\ IsInjective(<<>>)
<1>1. ToSet(s) \subseteq A
  BY DEF ToSet
<1>2. ToSet(s \o t) = ToSet(s) \cup ToSet(t)
  <2>1. /\ ToSet(s) = Range(s) /\ ToSet(t) = Range(t)
        /\ ToSet(s \o t) = Range(s \o t)
    BY DEF ToSet, Range
  <2>. QED  BY <2>1, RangeConcatenation
<1>3. ASSUME NEW x \in A PROVE ToSet(Append(s, x)) = ToSet(s) \cup {x}
  <2>1. /\ Len(s) \in Nat
        /\ Append(s, x) \in Seq(A) /\ Len(Append(s, x)) = Len(s) + 1
        /\ \A i \in 1..Len(s) : Append(s, x)[i] = s[i]
        /\ Append(s, x)[Len(s) + 1] = x
    BY LenProperties, AppendProperties
  <2>2. DOMAIN Append(s, x) = 1..(Len(s) + 1) /\ DOMAIN s = 1..Len(s)
    BY <2>1, LenProperties
  <2>3. 1..(Len(s) + 1) = (1..Len(s)) \cup {Len(s) + 1}
    BY <2>1
  <2>. QED  BY <2>1, <2>2, <2>3 DEF ToSet
<1>4. s = <<>> <=> ToSet(s) = {}
  <2>1. CASE s = <<>>
    BY <2>1 DEF ToSet
  <2>2. CASE s # <<>>
    <3>1. 1 \in DOMAIN s
      BY <2>2, EmptySeq, LenProperties
    <3>. QED  BY <3>1, <2>2 DEF ToSet
  <2>. QED  BY <2>1, <2>2
<1>5. ToSet(<<>>) = {} /\ IsInjective(<<>>)
  BY DEF ToSet, IsInjective
<1>. QED  BY <1>1, <1>2, <1>3, <1>4, <1>5

(* What sequences have once they have once when put together, unless they  *)
(* share it.                                                               *)
LEMMA OnceOf ==
  ASSUME NEW A, NEW s \in Seq(A), NEW t \in Seq(A), IsInjective(s)
  PROVE  /\ IsInjective(t) /\ ToSet(s) \cap ToSet(t) = {} => IsInjective(s \o t)
         /\ \A x \in A : x \notin ToSet(s) => IsInjective(Append(s, x))
<1>1. /\ s \o t \in Seq(A) /\ Len(s \o t) = Len(s) + Len(t)
      /\ Len(s) \in Nat /\ Len(t) \in Nat
      /\ \A i \in 1..Len(s) : (s \o t)[i] = s[i]
      /\ \A i \in 1..Len(t) : (s \o t)[Len(s) + i] = t[i]
  BY JoinIs
<1>3. \A i, j \in 1..Len(s) : s[i] = s[j] => i = j
  BY <1>1 DEF IsInjective
<1>4. ASSUME IsInjective(t), ToSet(s) \cap ToSet(t) = {},
             NEW i \in 1..(Len(s) + Len(t)), NEW j \in 1..(Len(s) + Len(t)),
             (s \o t)[i] = (s \o t)[j]
      PROVE  i = j
  <2>1. \A k \in 1..Len(s) : s[k] \in ToSet(s)
    BY <1>1 DEF ToSet
  <2>2. \A k \in 1..Len(t) : t[k] \in ToSet(t)
    BY <1>1 DEF ToSet
  <2>3. \A k, l \in 1..Len(t) : t[k] = t[l] => k = l
    BY <1>1, <1>4 DEF IsInjective
  <2>4. ASSUME NEW k \in 1..(Len(s) + Len(t)), k \notin 1..Len(s)
        PROVE  k - Len(s) \in 1..Len(t) /\ (s \o t)[k] = t[k - Len(s)]
    <3>1. k - Len(s) \in 1..Len(t) /\ k = Len(s) + (k - Len(s))
      BY <2>4, <1>1
    <3>. QED  BY <3>1, <1>1
  <2>5. CASE i \in 1..Len(s) /\ j \in 1..Len(s)
    BY <2>5, <1>1, <1>3, <1>4
  <2>6. CASE i \in 1..Len(s) /\ j \notin 1..Len(s)
    BY <2>6, <1>1, <1>4, <2>1, <2>2, <2>4
  <2>7. CASE i \notin 1..Len(s) /\ j \in 1..Len(s)
    BY <2>7, <1>1, <1>4, <2>1, <2>2, <2>4
  <2>8. CASE i \notin 1..Len(s) /\ j \notin 1..Len(s)
    <3>1. i - Len(s) = j - Len(s)
      BY <2>8, <1>4, <2>3, <2>4
    <3>. QED  BY <3>1, <1>1
  <2>. QED  BY <2>5, <2>6, <2>7, <2>8
<1>5. ASSUME NEW x \in A, x \notin ToSet(s),
             NEW i \in 1..(Len(s) + 1), NEW j \in 1..(Len(s) + 1),
             Append(s, x)[i] = Append(s, x)[j]
      PROVE  i = j
  <2>3. /\ \A k \in 1..Len(s) : Append(s, x)[k] = s[k]
        /\ Append(s, x)[Len(s) + 1] = x
    BY AppendProperties
  <2>1. \A k \in 1..Len(s) : s[k] # x
    BY <1>1, <1>5 DEF ToSet
  <2>2. /\ i \in 1..Len(s) \/ i = Len(s) + 1
        /\ j \in 1..Len(s) \/ j = Len(s) + 1
    BY <1>1
  <2>. QED  BY <2>1, <2>2, <2>3, <1>3, <1>5
<1>6. /\ DOMAIN (s \o t) = 1..(Len(s) + Len(t))
      /\ \A x \in A : DOMAIN Append(s, x) = 1..(Len(s) + 1)
  BY <1>1, AppendProperties, LenProperties
<1>. QED  BY <1>4, <1>5, <1>6 DEF IsInjective

(* A sequence of sequences, put together, has what they have, and has it   *)
(* once if each of them does and no two share it.                          *)
LEMMA FlattenHas ==
  ASSUME NEW A, NEW q \in Seq(Seq(A))
  PROVE  /\ FlattenSeq(q) \in Seq(A)
         /\ ToSet(FlattenSeq(q)) = UNION {ToSet(q[i]) : i \in 1..Len(q)}
         /\ /\ \A i \in 1..Len(q) : IsInjective(q[i])
            /\ \A i, j \in 1..Len(q) : i # j => ToSet(q[i]) \cap ToSet(q[j]) = {}
            => IsInjective(FlattenSeq(q))
<1>. DEFINE n == Len(q)
            Part(k) == UNION {ToSet(q[i]) : i \in 1..k}
            Apart == /\ \A i \in 1..n : IsInjective(q[i])
                     /\ \A i, j \in 1..n : i # j => ToSet(q[i]) \cap ToSet(q[j]) = {}
<1>1. n \in Nat /\ \A i \in 1..n : q[i] \in Seq(A)
  BY LenProperties, ElementOfSeq
<1>2. PICK h \in [0..n -> Seq(A)] :
         /\ h[0] = <<>>
         /\ \A i \in 1..n : h[i] = h[i - 1] \o q[i]
         /\ n # 0 => FlattenSeq(q) = h[n]
  BY FlattenIs
<1>3. n = 0 => FlattenSeq(q) = <<>>
  BY EmptySeq DEF FlattenSeq
<1>4. FlattenSeq(q) = h[n] /\ h[n] \in Seq(A)
  <2>1. 0 \in 0..n /\ n \in 0..n
    BY <1>1
  <2>. QED  BY <2>1, <1>1, <1>2, <1>3
<1>. DEFINE Q == {k \in 0..n : ToSet(h[k]) = Part(k) /\ (Apart => IsInjective(h[k]))}
<1>5. 0 \in Q
  <2>1. ToSet(<<>>) = {} /\ IsInjective(<<>>)
    BY DEF ToSet, IsInjective
  <2>2. Part(0) = {}
    OBVIOUS
  <2>. QED  BY <2>1, <2>2, <1>1, <1>2
<1>6. ASSUME NEW k \in 1..n, k - 1 \in Q PROVE k \in Q
  <2>0. k \in 0..n /\ k - 1 \in 0..n
    BY <1>1
  <2>1. k \in 0..n /\ h[k - 1] \in Seq(A) /\ q[k] \in Seq(A)
    <3>. HIDE DEF n, Q
    <3>. QED  BY <2>0, <1>1, <1>2
  <2>2. h[k] = h[k - 1] \o q[k]
    BY <1>2
  <2>3. ToSet(h[k]) = ToSet(h[k - 1]) \cup ToSet(q[k])
    BY <2>1, <2>2, MembersOf
  <2>4. Part(k) = Part(k - 1) \cup ToSet(q[k])
    <3>1. 1..k = (1..(k - 1)) \cup {k}
      BY <1>1
    <3>. QED  BY <3>1
  <2>5. ASSUME Apart PROVE IsInjective(h[k])
    <3>1. IsInjective(h[k - 1]) /\ IsInjective(q[k])
      BY <1>6, <2>5
    <3>2. ASSUME NEW x, x \in Part(k - 1), x \in ToSet(q[k]) PROVE FALSE
      <4>1. PICK i \in 1..(k - 1) : x \in ToSet(q[i])
        BY <3>2
      <4>2. i \in 1..n /\ i # k
        BY <1>1
      <4>. QED  BY <4>1, <4>2, <2>5, <3>2
    <3>3. ToSet(h[k - 1]) \cap ToSet(q[k]) = {}
      BY <3>2, <1>6
    <3>. HIDE DEF Q, Apart, Part
    <3>. QED  BY <3>1, <3>3, <2>1, <2>2, OnceOf
  <2>6. ToSet(h[k]) = Part(k)
    BY <1>6, <2>3, <2>4
  <2>. QED  BY <2>1, <2>5, <2>6
<1>7. n \in Q
  <2>. HIDE DEF Q
  <2>1. \A i \in 0..n : i \in Q
    BY <1>1, <1>5, <1>6, UpTo
  <2>. QED  BY <2>1, <1>1
<1>. QED  BY <1>4, <1>7

-----------------------------------------------------------------------------
(* Selections and sums                                                     *)

(* e says where the elements of r are among the first m of s: those of T,  *)
(* in their order, all of them.                                            *)
PlacesOf(e, r, s, m, T) ==
  /\ e \in [1..Len(r) -> 1..m]
  /\ \A k \in 1..Len(r) : r[k] = s[e[k]] /\ s[e[k]] \in T
  /\ \A k, l \in 1..Len(r) : k < l => e[k] < e[l]
  /\ \A i \in 1..m : s[i] \in T => \E k \in 1..Len(r) : e[k] = i

(* What a sequence has of T, put together, is such a selection.            *)
LEMMA SelectionIs ==
  ASSUME NEW A, NEW s \in Seq(A), NEW T, NEW r,
         r = FlattenSeq([i \in 1..Len(s) |-> IF s[i] \in T THEN <<s[i]>> ELSE <<>>])
  PROVE  r \in Seq(A) /\ \E e : PlacesOf(e, r, s, Len(s), T)
<1>. DEFINE q == [i \in 1..Len(s) |-> IF s[i] \in T THEN <<s[i]>> ELSE <<>>]
            n == Len(s)
<1>1. n \in Nat /\ \A i \in 1..n : s[i] \in A
  BY LenProperties, ElementOfSeq
<1>2. \A i \in 1..n : q[i] = (IF s[i] \in T THEN <<s[i]>> ELSE <<>>) /\ q[i] \in Seq(A)
  BY <1>1
<1>3. q \in Seq(Seq(A)) /\ Len(q) = n
  <2>1. q \in [1..n -> Seq(A)]
    BY <1>2
  <2>. QED  BY <1>1, <2>1, IsASeq
<1>. HIDE DEF q, n
<1>4. PICK h \in [0..n -> Seq(A)] :
         /\ h[0] = <<>>
         /\ \A i \in 1..n : h[i] = h[i - 1] \o q[i]
         /\ n # 0 => FlattenSeq(q) = h[n]
  BY <1>3, FlattenIs
<1>. DEFINE Q == {i \in 0..n : \E e : PlacesOf(e, h[i], s, i, T)}
<1>5. 0 \in Q
  <2>1. 0 \in 0..n /\ Len(h[0]) = 0
    BY <1>1, <1>4
  <2>2. PlacesOf([k \in 1..0 |-> 1], h[0], s, 0, T)
    <3>1. \A x : x \notin 1..0
      OBVIOUS
    <3>. QED  BY <2>1, <3>1 DEF PlacesOf
  <2>. QED  BY <2>1, <2>2
<1>6. ASSUME NEW i \in 1..n, i - 1 \in Q PROVE i \in Q
  <2>0. i - 1 \in 0..n /\ i \in 0..n /\ i \in Nat
    BY <1>1, <1>6
  <2>1. PICK e : PlacesOf(e, h[i - 1], s, i - 1, T)
    BY <1>6
  <2>2. PICK p \in Seq(A), t \in Seq(A), x \in A : p = h[i - 1] /\ t = h[i] /\ x = s[i]
    BY <1>1, <1>4, <2>0
  <2>3. h[i] = h[i - 1] \o q[i] /\ Len(p) \in Nat
    BY <1>4, <2>2, LenProperties
  <2>4. /\ e \in [1..Len(p) -> 1..(i - 1)]
        /\ \A k \in 1..Len(p) : p[k] = s[e[k]] /\ s[e[k]] \in T
        /\ \A k, l \in 1..Len(p) : k < l => e[k] < e[l]
        /\ \A j \in 1..(i - 1) : s[j] \in T => \E k \in 1..Len(p) : e[k] = j
    BY <2>1, <2>2 DEF PlacesOf
  <2>5. CASE x \notin T
    <3>1. t = p
      <4>1. t = p \o <<>>
        BY <1>2, <2>2, <2>3, <2>5
      <4>. QED  BY <4>1
    <3>2. e \in [1..Len(p) -> 1..i]
      <4>1. \A k \in 1..(i - 1) : k \in 1..i
        BY <2>0
      <4>. QED  BY <2>4, <4>1
    <3>3. \A j \in 1..i : s[j] \in T => j \in 1..(i - 1)
      BY <2>0, <2>2, <2>5
    <3>4. PlacesOf(e, t, s, i, T)
      BY <2>4, <3>1, <3>2, <3>3 DEF PlacesOf
    <3>. QED  BY <2>0, <2>2, <3>4
  <2>6. CASE x \in T
    <3>1. t = Append(p, x)
      <4>1. t = p \o <<x>>
        BY <1>2, <2>2, <2>3, <2>6
      <4>. QED  BY <4>1, <2>2
    <3>2. /\ Len(t) = Len(p) + 1 /\ t[Len(p) + 1] = x
          /\ \A k \in 1..Len(p) : t[k] = p[k]
      BY <2>2, <3>1, AppendProperties
    <3>. DEFINE d == [k \in 1..Len(t) |-> IF k = Len(p) + 1 THEN i ELSE e[k]]
    <3>3. \A k \in 1..Len(t) : k = Len(p) + 1 \/ k \in 1..Len(p)
      BY <2>3, <3>2
    <3>a. \A k \in 1..Len(p) : k \in 1..Len(t) /\ k < Len(p) + 1 /\ k # Len(p) + 1
      BY ONLY <2>3, <3>2
    <3>b. Len(p) + 1 \in 1..Len(t)
      BY ONLY <2>3, <3>2
    <3>4. /\ Len(p) + 1 \in 1..Len(t) /\ d[Len(p) + 1] = i
          /\ \A k \in 1..Len(p) : k \in 1..Len(t) /\ d[k] = e[k] /\ k < Len(p) + 1
                                  /\ e[k] \in 1..(i - 1)
      BY <2>4, <3>a, <3>b
    <3>5. d \in [1..Len(t) -> 1..i]
      <4>1. i \in 1..i /\ \A k \in 1..(i - 1) : k \in 1..i
        BY <2>0
      <4>2. \A k \in 1..Len(t) : d[k] \in 1..i
        BY <3>3, <3>4, <4>1
      <4>. QED  BY <4>2
    <3>. HIDE DEF d
    <3>6. ASSUME NEW k \in 1..Len(t) PROVE t[k] = s[d[k]] /\ s[d[k]] \in T
      <4>1. CASE k = Len(p) + 1
        BY <2>2, <2>6, <3>2, <3>4, <4>1
      <4>2. CASE k \in 1..Len(p)
        BY <2>4, <3>2, <3>4, <4>2
      <4>. QED  BY <3>3, <4>1, <4>2
    <3>7. ASSUME NEW k \in 1..Len(t), NEW l \in 1..Len(t), k < l PROVE d[k] < d[l]
      <4>1. k \in 1..Len(p)
        BY <2>3, <3>2, <3>7
      <4>2. CASE l \in 1..Len(p)
        BY <2>4, <3>4, <3>7, <4>1, <4>2
      <4>3. CASE l = Len(p) + 1
        BY <2>0, <3>4, <4>1, <4>3
      <4>. QED  BY <3>3, <4>2, <4>3
    <3>8. ASSUME NEW j \in 1..i, s[j] \in T PROVE \E k \in 1..Len(t) : d[k] = j
      <4>1. CASE j = i
        BY <3>4, <4>1
      <4>2. CASE j # i
        <5>1. j \in 1..(i - 1)
          BY <2>0, <4>2
        <5>2. PICK k \in 1..Len(p) : e[k] = j
          BY <2>4, <3>8, <5>1
        <5>. QED  BY <3>4, <5>2
      <4>. QED  BY <4>1, <4>2
    <3>9. PlacesOf(d, t, s, i, T)
      BY <3>5, <3>6, <3>7, <3>8 DEF PlacesOf
    <3>. QED  BY <2>0, <2>2, <3>9
  <2>. QED  BY <2>5, <2>6
<1>7. n \in Q
  <2>. HIDE DEF Q
  <2>1. \A i \in 0..n : i \in Q
    BY <1>1, <1>5, <1>6, UpTo
  <2>. QED  BY <1>1, <2>1
<1>8. r = h[n]
  <2>1. r = FlattenSeq(q)
    BY DEF q, n
  <2>2. CASE n = 0
    <3>1. q = <<>>
      BY <1>3, <2>2
    <3>2. FlattenSeq(q) = q
      BY <1>3, <2>2 DEF FlattenSeq
    <3>. QED  BY <1>4, <2>1, <2>2, <3>1, <3>2
  <2>. QED  BY <1>4, <2>1, <2>2
<1>9. h[n] \in Seq(A) /\ \E e : PlacesOf(e, h[n], s, n, T)
  BY <1>1, <1>4, <1>7
<1>. QED  BY <1>8, <1>9 DEF n

(* k is what the numbers of each part of S add up to, taken one after the  *)
(* other in whichever order the choice gives.                              *)
SumsTo(k, q, S) ==
  \A s \in SUBSET S :
     k[s] = IF s = {} THEN 0
            ELSE q[CHOOSE x \in s : TRUE] + k[s \ {CHOOSE x \in s : TRUE}]

(* There is such a function of numbers,                                    *)
LEMMA SumExists ==
  ASSUME NEW S, IsFiniteSet(S), NEW q, \A x \in S : q[x] \in Nat
  PROVE  \E k \in [SUBSET S -> Nat] : SumsTo(k, q, S)
<1>. DEFINE c == [s \in SUBSET S |-> CHOOSE x \in s : TRUE]
            g == [p \in S \X Nat |-> q[p[1]] + p[2]]
<1>1. \A s \in SUBSET S : s # {} => c[s] = (CHOOSE x \in s : TRUE) /\ c[s] \in s
  OBVIOUS
<1>2. \A x \in S, y \in Nat : g[<<x, y>>] = q[x] + y /\ g[<<x, y>>] \in Nat
  OBVIOUS
<1>. HIDE DEF c, g
<1>3. PICK k \in [SUBSET S -> Nat] : FoldsTo(k, S, 0, c, g)
  BY <1>1, <1>2, FoldExists
<1>4. ASSUME NEW s \in SUBSET S
      PROVE  k[s] = IF s = {} THEN 0
                    ELSE q[CHOOSE x \in s : TRUE] + k[s \ {CHOOSE x \in s : TRUE}]
  <2>1. CASE s = {}
    BY <1>3, <2>1 DEF FoldsTo
  <2>2. CASE s # {}
    <3>1. PICK x \in S, t \in SUBSET S :
             x = (CHOOSE y \in s : TRUE) /\ x = c[s] /\ t = s \ {x}
      BY <1>1, <2>2
    <3>2. k[s] = g[<<x, k[t]>>]
      BY <1>3, <2>2, <3>1 DEF FoldsTo
    <3>3. k[t] \in Nat
      BY <1>3
    <3>. QED  BY <1>2, <2>2, <3>1, <3>2, <3>3
  <2>. QED  BY <2>1, <2>2
<1>. QED  BY <1>4 DEF SumsTo

(* any two agree where what they add does,                                 *)
LEMMA SumSame ==
  ASSUME NEW S, IsFiniteSet(S), NEW q, NEW k, SumsTo(k, q, S),
         NEW U, NEW r, NEW h, SumsTo(h, r, U),
         NEW v \in SUBSET S, v \in SUBSET U, \A x \in v : q[x] = r[x]
  PROVE  k[v] = h[v]
<1>. DEFINE T == {s \in SUBSET S : s \subseteq v /\ k[s] # h[s]}
<1> SUFFICES ASSUME T # {} PROVE FALSE
  OBVIOUS
<1>1. PICK s \in T : \A t \in T : t \subseteq s => t = s
  <2>1. T \subseteq SUBSET S
    OBVIOUS
  <2>. HIDE DEF T
  <2>. QED  BY <2>1, LeastSubset
<1>2. s \in SUBSET S /\ s \in SUBSET U /\ s \subseteq v /\ k[s] # h[s]
  OBVIOUS
<1>3. s # {}
  BY <1>2 DEF SumsTo
<1>4. PICK x \in s : x = CHOOSE y \in s : TRUE
  BY <1>3
<1>5. s \ {x} \notin T
  BY <1>1, <1>4
<1>6. k[s \ {x}] = h[s \ {x}]
  BY <1>2, <1>5
<1>7. k[s] = q[x] + k[s \ {x}] /\ h[s] = r[x] + h[s \ {x}]
  BY <1>2, <1>3, <1>4 DEF SumsTo
<1>8. q[x] = r[x]
  BY <1>2
<1>. QED  BY <1>2, <1>6, <1>7, <1>8

(* and whichever is taken first makes no difference.                       *)
LEMMA SumTakes ==
  ASSUME NEW S, IsFiniteSet(S), NEW q, \A x \in S : q[x] \in Nat, NEW k, SumsTo(k, q, S)
  PROVE  \A s \in SUBSET S : k[s] \in Nat /\ \A x \in s : k[s] = q[x] + k[s \ {x}]
<1>. DEFINE Good(s) == k[s] \in Nat /\ \A x \in s : k[s] = q[x] + k[s \ {x}]
            T == {s \in SUBSET S : ~ Good(s)}
<1> SUFFICES ASSUME T # {} PROVE FALSE
  OBVIOUS
<1>1. PICK s \in T : \A t \in T : t \subseteq s => t = s
  <2>1. T \subseteq SUBSET S
    OBVIOUS
  <2>. HIDE DEF T
  <2>. QED  BY <2>1, LeastSubset
<1>2. s # {}
  BY DEF SumsTo
<1>3. PICK c \in s : c = CHOOSE y \in s : TRUE
  BY <1>2
<1>4. k[s] = q[c] + k[s \ {c}]
  BY <1>2, <1>3 DEF SumsTo
<1>5. \A x \in s : Good(s \ {x})
  BY <1>1
<1>6. \A x \in s : q[x] \in Nat /\ k[s \ {x}] \in Nat
  BY <1>5
<1>7. k[s] \in Nat
  BY <1>4, <1>6
<1>8. ASSUME NEW x \in s PROVE k[s] = q[x] + k[s \ {x}]
  <2>1. CASE x = c
    BY <1>4, <2>1
  <2>2. CASE x # c
    <3>. DEFINE u == (s \ {c}) \ {x}
    <3>1. x \in s \ {c} /\ c \in s \ {x} /\ u = (s \ {x}) \ {c}
      BY <2>2
    <3>2. k[s \ {c}] = q[x] + k[u]
      BY <1>5, <3>1
    <3>a. k[s \ {x}] = q[c] + k[(s \ {x}) \ {c}]
      BY <1>5, <3>1
    <3>3. k[s \ {x}] = q[c] + k[u]
      BY <3>a, <3>1
    <3>4. k[u] \in Nat
      <4>1. u \subseteq s /\ u # s
        BY <3>1
      <4>2. u \notin T
        BY <1>1, <4>1
      <4>. QED  BY <4>1, <4>2
    <3>. HIDE DEF u
    <3>. QED  BY <1>4, <1>6, <3>2, <3>3, <3>4
  <2>. QED  BY <2>1, <2>2
<1>9. Good(s)
  BY <1>7, <1>8
<1>. HIDE DEF Good
<1>. QED  BY <1>9

=============================================================================
