------------------------------ MODULE SetInduction ------------------------------
(***************************************************************************)
(* Induction and recursion with sets and functions in the place of the     *)
(* predicates and operators a higher-order rule would take: what holds of  *)
(* 0 and passes from n to n + 1 is a set of numbers that contains 0 and is *)
(* closed under successor; the body of a recursive function is itself a    *)
(* function, of an argument and of the function being defined.             *)
(***************************************************************************)
EXTENDS Integers, WellFoundedInduction, FiniteSetTheorems, SequenceTheorems, TLAPS

LEMMA LeastElement ==
  ASSUME NEW T, T \subseteq Nat, T # {}
  PROVE  \E x \in T : \A y \in T : x <= y
<1> DEFINE R == {ss \in Nat \X Nat : ss[1] < ss[2]}
<1>1. IsWellFoundedOn(R, Nat)
  BY NatLessThanWellFounded DEF OpToRel
<1> HIDE DEF R
<1>2. PICK x \in T : \A y \in T : ~(<<y, x>> \in R)
  BY <1>1, WFMin
<1>3. ASSUME NEW y \in T
      PROVE  x <= y
  <2>1. x \in Nat /\ y \in Nat /\ <<y, x>> \notin R
    BY <1>2
  <2> QED
    BY <2>1 DEF R
<1> QED
  BY <1>3

LEMMA NatInductionOnSets ==
  ASSUME NEW T, 0 \in T, \A n \in Nat : n \in T => n + 1 \in T
  PROVE  Nat \subseteq T
<1> SUFFICES ASSUME Nat \ T # {}
             PROVE  FALSE
  OBVIOUS
<1>1. PICK x \in Nat \ T : \A y \in Nat \ T : x <= y
  BY LeastElement
<1>2. x - 1 \in Nat
  BY <1>1
<1>3. x - 1 \in T
  BY <1>1, <1>2
<1> QED
  BY <1>1, <1>2, <1>3

\* Course-of-values induction on a measure.
LEMMA MeasureInduction ==
  ASSUME NEW D, NEW measure \in [D -> Nat], NEW T,
         \A d \in D : (\A e \in D : measure[e] < measure[d] => e \in T) => d \in T
  PROVE  D \subseteq T
<1> SUFFICES ASSUME NEW bad \in D, bad \notin T
             PROVE  FALSE
  OBVIOUS
<1> DEFINE M == {measure[d] : d \in D \ T}
<1>1. M \subseteq Nat /\ M # {}
  OBVIOUS
<1>2. PICK n \in M : \A m \in M : n <= m
  BY <1>1, LeastElement
<1>3. PICK d \in D \ T : n = measure[d]
  BY <1>2
<1>4. ASSUME NEW e \in D, measure[e] < measure[d]
      PROVE  e \in T
  <2>1. ~(n <= measure[e]) 
    BY <1>3, <1>4
  <2> QED
    BY <1>2, <2>1
<1> QED
  BY <1>3, <1>4

LEMMA SubsetInduction ==
  ASSUME NEW S, IsFiniteSet(S), NEW T,
         \A s \in SUBSET S : (\A r \in SUBSET s : r # s => r \in T) => s \in T
  PROVE  SUBSET S \subseteq T
<1> DEFINE measure == [s \in SUBSET S |-> Cardinality(s)]
<1>1. \A s \in SUBSET S : IsFiniteSet(s) /\ Cardinality(s) \in Nat
  BY FS_Subset, FS_CardinalityType
<1>2. measure \in [SUBSET S -> Nat]
  BY <1>1
<1>3. ASSUME NEW s \in SUBSET S, NEW r \in SUBSET s, r # s
      PROVE  measure[r] < measure[s]
  <2>1. Cardinality(r) < Cardinality(s)
    BY <1>1, <1>3, FS_Subset
  <2> QED
    BY <2>1
<1> HIDE DEF measure
<1>4. \A s \in SUBSET S :
        (\A r \in SUBSET S : measure[r] < measure[s] => r \in T) => s \in T
  BY <1>3
<1> QED
  BY <1>2, <1>4, MeasureInduction

LEMMA IntervalInduction ==
  ASSUME NEW N \in Nat, NEW T, 0 \in T, \A n \in 0 .. N : n < N /\ n \in T => n + 1 \in T
  PROVE  0 .. N \subseteq T
<1> DEFINE U == {n \in Nat : n <= N => n \in T}
<1>1. 0 \in U
  OBVIOUS
<1>2. ASSUME NEW n \in Nat, n \in U
      PROVE  n + 1 \in U
  BY <1>2
<1> HIDE DEF U
<1>3. Nat \subseteq U
  BY <1>1, <1>2, NatInductionOnSets
<1> QED
  BY <1>3 DEF U

LEMMA SequenceInduction ==
  ASSUME NEW S, NEW T, <<>> \in T, \A s \in Seq(S) : \A e \in S : s \in T => Append(s, e) \in T
  PROVE  Seq(S) \subseteq T
<1> DEFINE N == {n \in Nat : \A s \in Seq(S) : Len(s) = n => s \in T}
<1>1. 0 \in N
  <2>1. \A s \in Seq(S) : Len(s) = 0 => s = <<>>
    BY EmptySeq
  <2> QED
    BY <2>1
<1>2. ASSUME NEW n \in Nat, n \in N
      PROVE  n + 1 \in N
  <2>1. ASSUME NEW s \in Seq(S), Len(s) = n + 1
        PROVE  s \in T
    <3>1. s # <<>>
      BY <2>1, EmptySeq
    <3>2. PICK r \in Seq(S), e \in S : s = Append(r, e)
      BY <3>1, SequenceEmptyOrAppend
    <3>3. Len(r) = n
      BY <2>1, <3>2, AppendProperties
    <3> QED
      BY <1>2, <3>2, <3>3
  <2> QED
    BY <2>1
<1> HIDE DEF N
<1>3. Nat \subseteq N
  BY <1>1, <1>2, NatInductionOnSets
<1> QED
  BY <1>3 DEF N

-----------------------------------------------------------------------------
(* Recursion *)

\* The body of the recursion at d looks only at arguments of a smaller measure.
Descends(D, X, measure, body) ==
  /\ measure \in [D -> Nat]
  /\ body \in [D \X [D -> X] -> X]
  /\ \A d \in D : \A f, g \in [D -> X] :
       (\A e \in D : measure[e] < measure[d] => f[e] = g[e])
         => body[<<d, f>>] = body[<<d, g>>]

Solves(D, body, f) == \A d \in D : f[d] = body[<<d, f>>]

\* Two solutions agree as far as both are solutions.
LEMMA SolutionsAgree ==
  ASSUME NEW D, NEW X, NEW measure, NEW body, Descends(D, X, measure, body),
         NEW n \in Nat, NEW f \in [D -> X], NEW g \in [D -> X],
         \A d \in D : measure[d] < n => f[d] = body[<<d, f>>] /\ g[d] = body[<<d, g>>]
  PROVE  \A d \in D : measure[d] < n => f[d] = g[d]
<1> DEFINE T == {d \in D : measure[d] < n => f[d] = g[d]}
<1>1. measure \in [D -> Nat]
  BY DEF Descends
<1>2. ASSUME NEW d \in D, \A e \in D : measure[e] < measure[d] => e \in T
      PROVE  d \in T
  <2> SUFFICES ASSUME measure[d] < n PROVE f[d] = g[d]
    OBVIOUS
  <2>1. \A e \in D : measure[e] < measure[d] => f[e] = g[e]
    BY <1>1, <1>2
  <2>2. body[<<d, f>>] = body[<<d, g>>]
    BY <2>1 DEF Descends
  <2> QED
    BY <2>2
<1> HIDE DEF T
<1>3. D \subseteq T
  BY <1>1, <1>2, MeasureInduction
<1> QED
  BY <1>3 DEF T

\* A recursion that descends defines a function.
LEMMA RecursionDefines ==
  ASSUME NEW D, NEW X, X # {}, NEW measure, NEW body, Descends(D, X, measure, body)
  PROVE  \E f \in [D -> X] : Solves(D, body, f)
<1> DEFINE SolvesBelow(f, n) == \A d \in D : measure[d] < n => f[d] = body[<<d, f>>]
           N == {n \in Nat : \E f \in [D -> X] : SolvesBelow(f, n)}
           F(n) == CHOOSE f \in [D -> X] : SolvesBelow(f, n)
<1>1. measure \in [D -> Nat] /\ body \in [D \X [D -> X] -> X]
  BY DEF Descends
<1>2. 0 \in N
  <2> PICK x \in X : TRUE
    OBVIOUS
  <2>1. [d \in D |-> x] \in [D -> X] /\ SolvesBelow([d \in D |-> x], 0)
    BY <1>1
  <2> QED
    BY <2>1
<1>3. ASSUME NEW n \in Nat, n \in N
      PROVE  n + 1 \in N
  <2>1. PICK f \in [D -> X] : SolvesBelow(f, n)
    BY <1>3
  <2> DEFINE h == [d \in D |-> body[<<d, f>>]]
  <2>2. h \in [D -> X] /\ \A d \in D : h[d] = body[<<d, f>>]
    BY <1>1
  <2> HIDE DEF h
  <2>3. ASSUME NEW d \in D, measure[d] < n + 1
        PROVE  h[d] = body[<<d, h>>]
    <3>1. \A e \in D : measure[e] < measure[d] => measure[e] < n
      BY <1>1, <2>3
    <3>2. \A e \in D : measure[e] < measure[d] => h[e] = f[e]
      BY <2>1, <2>2, <3>1
    <3>3. body[<<d, h>>] = body[<<d, f>>]
      BY <2>2, <3>2 DEF Descends
    <3> QED
      BY <2>2, <3>3
  <2> QED
    BY <2>2, <2>3
<1>4. \A n \in Nat : F(n) \in [D -> X] /\ SolvesBelow(F(n), n)
  <2> HIDE DEF N
  <2>1. Nat \subseteq N
    BY <1>2, <1>3, NatInductionOnSets
  <2> USE DEF N
  <2>2. \A n \in Nat : \E f \in [D -> X] : SolvesBelow(f, n)
    BY <2>1
  <2> HIDE DEF SolvesBelow
  <2> QED
    BY <2>2
<1> DEFINE f == [d \in D |-> F(measure[d] + 1)[d]]
<1> HIDE DEF F
<1>5. f \in [D -> X]
  BY <1>1, <1>4
<1>6. ASSUME NEW d \in D
      PROVE  f[d] = body[<<d, f>>]
  <2> DEFINE n == measure[d] + 1
  <2>1. n \in Nat /\ measure[d] < n
    BY <1>1
  <2>2. ASSUME NEW e \in D, measure[e] < measure[d]
        PROVE  f[e] = F(n)[e]
    <3> DEFINE m == measure[e] + 1
    <3>1. m \in Nat /\ m <= n /\ measure[e] < m
      BY <1>1, <2>2
    <3>2. F(m) \in [D -> X] /\ F(n) \in [D -> X] /\ SolvesBelow(F(m), m) /\ SolvesBelow(F(n), n)
      BY <1>4, <2>1, <3>1
    <3> HIDE DEF m, n
    <3>3. SolvesBelow(F(n), m)
      <4>1. \A c \in D : measure[c] < m => measure[c] < n
        BY <1>1, <2>1, <3>1
      <4> QED
        BY <3>2, <4>1
    <3>4. F(m)[e] = F(n)[e]
      BY <3>1, <3>2, <3>3, SolutionsAgree
    <3> QED
      BY <3>4 DEF m
  <2>3. body[<<d, f>>] = body[<<d, F(n)>>]
    <3> HIDE DEF f, n
    <3>1. F(n) \in [D -> X]
      BY <1>4, <2>1
    <3> QED
      BY <1>5, <2>2, <3>1 DEF Descends
  <2>4. F(n)[d] = body[<<d, F(n)>>]
    BY <1>4, <2>1
  <2> QED
    BY <2>3, <2>4
<1> QED
  BY <1>5, <1>6 DEF Solves

-----------------------------------------------------------------------------
(* Folds over a sequence, from its beginning *)

Fold(base, step, s, f) ==
  f = [n \in 0 .. Len(s) |-> IF n = 0 THEN base ELSE step[<<f[n - 1], s[n]>>]]

Folds(X, E, base, step) == base \in X /\ step \in [X \X E -> X]

LEMMA FoldDefines ==
  ASSUME NEW X, NEW E, NEW base, NEW step, Folds(X, E, base, step), NEW s \in Seq(E)
  PROVE  \E f \in [0 .. Len(s) -> X] : Fold(base, step, s, f)
<1> USE DEF Folds
<1> DEFINE D == 0 .. Len(s)
           id == [n \in D |-> n]
           body == [a \in D \X [D -> X] |->
                      IF a[1] = 0 THEN base ELSE step[<<a[2][a[1] - 1], s[a[1]]>>]]
<1>1. \A n \in D : n # 0 => n - 1 \in D /\ s[n] \in E
  BY ElementOfSeq
<1>2. Descends(D, X, id, body)
  <2>1. body \in [D \X [D -> X] -> X]
    BY <1>1
  <2>2. ASSUME NEW n \in D, NEW f \in [D -> X], NEW g \in [D -> X],
               \A m \in D : id[m] < id[n] => f[m] = g[m]
        PROVE  body[<<n, f>>] = body[<<n, g>>]
    <3>1. n # 0 => f[n - 1] = g[n - 1]
      BY <1>1, <2>2
    <3> QED
      BY <3>1
  <2>3. id \in [D -> Nat]
    OBVIOUS
  <2> HIDE DEF body, D
  <2> QED
    BY <2>1, <2>2, <2>3 DEF Descends
<1>3. PICK f \in [D -> X] : Solves(D, body, f)
  <2> HIDE DEF body, id, D
  <2>1. X # {}
    OBVIOUS
  <2> QED
    BY <1>2, <2>1, RecursionDefines
<1>4. Fold(base, step, s, f)
  BY <1>3 DEF Solves, Fold
<1> QED
  BY <1>3, <1>4

\* Folding one more element is one more step.
LEMMA FoldAppends ==
  ASSUME NEW X, NEW E, NEW base, NEW step, Folds(X, E, base, step),
         NEW s \in Seq(E), NEW e \in E, NEW f, NEW g,
         Fold(base, step, s, f), Fold(base, step, Append(s, e), g)
  PROVE  /\ f[Len(s)] \in X
         /\ g[Len(Append(s, e))] = step[<<f[Len(s)], e>>]
<1> USE DEF Folds
<1> DEFINE T == {n \in Nat : f[n] \in X /\ g[n] = f[n]}
           N == Len(s)
           r == Append(s, e)
<1>1. N \in Nat /\ r \in Seq(E) /\ Len(r) = N + 1 /\ r[N + 1] = e
      /\ \A n \in 1 .. N : r[n] = s[n] /\ s[n] \in E
  BY AppendProperties, ElementOfSeq
<1>2. f[0] = base /\ \A n \in 1 .. N : f[n] = step[<<f[n - 1], s[n]>>]
  BY DEF Fold
<1> HIDE DEF r
<1>3. g[0] = base /\ \A n \in 1 .. N + 1 : g[n] = step[<<g[n - 1], r[n]>>]
  <2>1. g = [n \in 0 .. N + 1 |-> IF n = 0 THEN base ELSE step[<<g[n - 1], r[n]>>]]
    BY <1>1 DEF Fold, r
  <2> HIDE DEF N
  <2>2. 0 \in 0 .. N + 1 /\ \A n \in 1 .. N + 1 : n \in 0 .. N + 1 /\ n # 0
    BY <1>1
  <2> QED
    BY <2>1, <2>2
<1>4. 0 \in T
  BY <1>2, <1>3
<1>5. ASSUME NEW n \in 0 .. N, n < N, n \in T
      PROVE  n + 1 \in T
  <2>1. n + 1 \in 1 .. N /\ n + 1 \in 1 .. N + 1 /\ (n + 1) - 1 = n
    BY <1>1, <1>5
  <2>2. f[n + 1] = step[<<f[n], s[n + 1]>>] /\ g[n + 1] = step[<<g[n], s[n + 1]>>]
        /\ s[n + 1] \in E
    BY <1>1, <1>2, <1>3, <2>1
  <2> QED
    BY <1>5, <2>2
<1> HIDE DEF T, N
<1>6. 0 .. N \subseteq T
  BY <1>1, <1>4, <1>5, IntervalInduction
<1>7. N \in T
  BY <1>1, <1>6
<1>8. N + 1 \in 1 .. N + 1 /\ (N + 1) - 1 = N
  BY <1>1
<1>9. g[N + 1] = step[<<g[N], e>>]
  BY <1>1, <1>3, <1>8
<1>10. f[N] \in X /\ g[N] = f[N]
  BY <1>7 DEF T
<1> QED
  BY <1>1, <1>9, <1>10 DEF N, r

\* What follows the steps of a fold is the fold.
Follows(X, base, step, s, h) ==
  /\ h[0] = base
  /\ \A n \in 1 .. Len(s) : h[n - 1] \in X => h[n] = step[<<h[n - 1], s[n]>>]

LEMMA FoldFollows ==
  ASSUME NEW X, NEW E, NEW base, NEW step, Folds(X, E, base, step), NEW s \in Seq(E),
         NEW f \in [0 .. Len(s) -> X], Fold(base, step, s, f),
         NEW h, Follows(X, base, step, s, h)
  PROVE  h[Len(s)] = f[Len(s)]
<1>0. h[0] = base
      /\ \A n \in 1 .. Len(s) : h[n - 1] \in X => h[n] = step[<<h[n - 1], s[n]>>]
  BY DEF Follows
<1> DEFINE T == {n \in Nat : h[n] = f[n]}
           N == Len(s)
<1>1. N \in Nat /\ f[0] = base /\ \A n \in 1 .. N : f[n] = step[<<f[n - 1], s[n]>>]
  BY DEF Fold
<1>2. 0 \in T
  BY <1>0, <1>1
<1>3. ASSUME NEW n \in 0 .. N, n < N, n \in T
      PROVE  n + 1 \in T
  <2>1. n + 1 \in 1 .. N /\ (n + 1) - 1 = n
    BY <1>1, <1>3
  <2>2. f[n] \in X /\ h[n] = f[n]
    BY <1>3
  <2>3. f[n + 1] = step[<<f[n], s[n + 1]>>] /\ h[n + 1] = step[<<h[n], s[n + 1]>>]
    BY <1>0, <1>1, <2>1, <2>2
  <2> QED
    BY <1>3, <2>2, <2>3
<1> HIDE DEF T, N
<1>4. 0 .. N \subseteq T
  BY <1>1, <1>2, <1>3, IntervalInduction
<1>5. N \in T
  BY <1>1, <1>4
<1> QED
  BY <1>5 DEF T, N

=============================================================================
